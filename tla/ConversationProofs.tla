------------------------- MODULE ConversationProofs -------------------------
(***************************************************************************)
(* Theorems about module Conversation: type correctness, that an answer    *)
(* sorts after its question however requests overlap, and, when one        *)
(* worker's cache is large enough never to evict, that every request of a  *)
(* conversation appends to one shared history and that no answer the bot   *)
(* saved is missing from it.                                               *)
(***************************************************************************)
EXTENDS Conversation, FiniteSetTheorems, SequenceTheorems, TLAPS

(* The hypotheses on the constants under which the theorems hold. *)
CacheHoldsAll == Cardinality(Conversations) <= MaxCachedSessions
OneWorker == \A v, w \in Workers : v = w

-----------------------------------------------------------------------------
(* The inductive invariant *)

(* The sequence s lists the keys in K, each once. *)
Lists(s, K) ==
    /\ s \in Seq(Conversations)
    /\ \A i, j \in 1 .. Len(s) : s[i] = s[j] => i = j
    /\ \A c : c \in K <=> \E i \in 1 .. Len(s) : s[i] = c

CacheInv ==
    \A w \in Workers :
        /\ Lists(recency[w], Cached(w))
        /\ Cardinality(Cached(w)) <= MaxCachedSessions

(* A request that has begun knows what it asks for. *)
CallInv == \A r \in Requests : pc[r] # "idle" => call[r] \in Call

(* The lock is held exactly by the request that loads, and for a key that  *)
(* is still missing.                                                       *)
LockInv ==
    \A r \in Requests : pc[r] = "loading" =>
        /\ lock[WorkerOf(r)] = r
        /\ store[WorkerOf(r)][ConvOf(r)] = None

(* A request past its cache lookup holds a list object, and a cached list  *)
(* object was loaded by a request past its load.                           *)
ListInv ==
    /\ \A r \in Requests : pc[r] \in Answering => list[r] \in Requests
    /\ \A w \in Workers, c \in Conversations : store[w][c] # None =>
          pc[store[w][c]] \in Answering \cup Ended

BaseInv == TypeOK /\ CacheInv /\ CallInv /\ LockInv /\ ListInv

(* Every message belongs to a session, which belongs to the conversation   *)
(* of the request that created it.                                         *)
DatabaseInv ==
    /\ \A m \in db.messages : \E s \in db.sessions : m.session = s.id
    /\ \A s \in db.sessions : /\ pc[s.id[1]] # "idle"
                              /\ s.conv = ConvOf(s.id[1])

(* An answer about to be saved is already in the list its request holds.   *)
RecordedInv ==
    \A r \in Requests :
        pc[r] = "answer" => [req |-> r, role |-> "assistant"] \in history[list[r]]

(* As long as its key is missing, the snapshot a request will load the     *)
(* history from shows every saved answer.                                  *)
SnapshotInv ==
    \A r \in Requests :
        /\ pc[r] = "prompt" => snap[r] = None
        /\ pc[r] \in {"history", "loading"} =>
             /\ snap[r] \in Database
             /\ store[WorkerOf(r)][ConvOf(r)] = None =>
                  Answers(db, ConvOf(r)) \subseteq Answers(snap[r], ConvOf(r))

AnswersInv == /\ BaseInv /\ OneSharedHistory
              /\ DatabaseInv /\ RecordedInv /\ SnapshotInv
              /\ NoAnswerForgotten

-----------------------------------------------------------------------------
(* Lemmas about sequences *)

(* Removing the element at position i of a sequence. *)
LEMMA RemoveAtProperties ==
    ASSUME NEW S, NEW s \in Seq(S), NEW i \in 1 .. Len(s)
    PROVE  /\ RemoveAt(s, i) \in Seq(S)
           /\ Len(RemoveAt(s, i)) = Len(s) - 1
           /\ \A j \in 1 .. Len(s) - 1 :
                RemoveAt(s, i)[j] = IF j < i THEN s[j] ELSE s[j + 1]
<1> DEFINE a == SubSeq(s, 1, i - 1)
           b == SubSeq(s, i + 1, Len(s))
<1>1. /\ a \in Seq(S)
      /\ Len(a) = i - 1
      /\ \A j \in 1 .. i - 1 : a[j] = s[j]
  <2>1. \A j \in 1 .. i - 1 : s[j] \in S
    BY ElementOfSeq
  <2> QED
    BY <2>1, SubSeqProperties
<1>2. /\ b \in Seq(S)
      /\ Len(b) = Len(s) - i
      /\ \A j \in 1 .. Len(s) - i : b[j] = s[i + j]
  <2>1. \A j \in i + 1 .. Len(s) : s[j] \in S
    BY ElementOfSeq
  <2> QED
    BY <2>1, SubSeqProperties
<1> HIDE DEF a, b
<1>3. /\ a \o b \in Seq(S)
      /\ Len(a \o b) = Len(s) - 1
      /\ \A j \in 1 .. Len(s) - 1 :
           (a \o b)[j] = IF j < i THEN a[j] ELSE b[j - (i - 1)]
  <2>1. /\ a \o b \in Seq(S)
        /\ Len(a \o b) = Len(a) + Len(b)
        /\ \A j \in 1 .. Len(a) + Len(b) :
             (a \o b)[j] = IF j <= Len(a) THEN a[j] ELSE b[j - Len(a)]
    BY <1>1, <1>2, ConcatProperties
  <2> QED
    BY <1>1, <1>2, <2>1
<1>4. RemoveAt(s, i) = a \o b
  BY DEF RemoveAt, a, b
<1> QED
  BY <1>1, <1>2, <1>3, <1>4

(* move_to_end reorders the keys, adds none and loses none. *)
LEMMA ListsMoveToEnd ==
    ASSUME NEW K, NEW s, Lists(s, K), NEW i \in 1 .. Len(s)
    PROVE  Lists(Append(RemoveAt(s, i), s[i]), K)
<1> DEFINE t == RemoveAt(s, i)
           u == Append(t, s[i])
<1>1. s \in Seq(Conversations) /\ s[i] \in Conversations /\ Len(s) \in Nat
  BY ElementOfSeq DEF Lists
<1>2. /\ t \in Seq(Conversations)
      /\ Len(t) = Len(s) - 1
      /\ \A j \in 1 .. Len(s) - 1 : t[j] = IF j < i THEN s[j] ELSE s[j + 1]
  BY <1>1, RemoveAtProperties
<1> HIDE DEF t
<1>3. /\ u \in Seq(Conversations)
      /\ Len(u) = Len(s)
      /\ \A j \in 1 .. Len(s) - 1 : u[j] = t[j]
      /\ u[Len(s)] = s[i]
  <2>1. /\ u \in Seq(Conversations)
        /\ Len(u) = Len(t) + 1
        /\ \A j \in 1 .. Len(t) : u[j] = t[j]
        /\ u[Len(t) + 1] = s[i]
    BY <1>1, <1>2, AppendProperties
  <2> QED
    BY <1>1, <1>2, <2>1
<1> HIDE DEF u
<1>4. \A j \in 1 .. Len(s) :
        u[j] = IF j = Len(s) THEN s[i] ELSE IF j < i THEN s[j] ELSE s[j + 1]
  BY <1>1, <1>2, <1>3
<1>5. ASSUME NEW j \in 1 .. Len(u), NEW k \in 1 .. Len(u), u[j] = u[k]
      PROVE  j = k
  BY <1>1, <1>3, <1>4, <1>5 DEF Lists
<1>6. ASSUME NEW j \in 1 .. Len(s)
      PROVE  \E k \in 1 .. Len(u) : u[k] = s[j]
  <2>1. CASE j = i
    BY <1>1, <1>3, <2>1
  <2>2. CASE j < i
    BY <1>1, <1>3, <1>4, <2>2
  <2>3. CASE j > i
    <3>1. j - 1 \in 1 .. Len(u) /\ u[j - 1] = s[j]
      BY <1>1, <1>3, <1>4, <2>3
    <3> QED
      BY <3>1
  <2> QED
    BY <1>1, <2>1, <2>2, <2>3
<1>7. ASSUME NEW j \in 1 .. Len(u)
      PROVE  \E k \in 1 .. Len(s) : s[k] = u[j]
  BY <1>1, <1>3, <1>4
<1>8. \A c : c \in K <=> \E j \in 1 .. Len(u) : u[j] = c
  BY <1>6, <1>7 DEF Lists
<1>9. Lists(u, K)
  BY <1>3, <1>5, <1>8 DEF Lists
<1> QED
  BY <1>9 DEF u, t

(* Inserting a missing key. *)
LEMMA ListsAppend ==
    ASSUME NEW K, NEW s, Lists(s, K), NEW c \in Conversations, c \notin K
    PROVE  Lists(Append(s, c), K \cup {c}) /\ Append(s, c) # <<>>
<1> DEFINE u == Append(s, c)
<1>1. s \in Seq(Conversations) /\ Len(s) \in Nat
  BY DEF Lists
<1>2. /\ u \in Seq(Conversations)
      /\ u # <<>>
      /\ Len(u) = Len(s) + 1
      /\ \A j \in 1 .. Len(s) : u[j] = s[j]
      /\ u[Len(s) + 1] = c
  BY <1>1, AppendProperties
<1> HIDE DEF u
<1>3. \A j \in 1 .. Len(s) : s[j] # c
  BY DEF Lists
<1>4. \A j, k \in 1 .. Len(u) : u[j] = u[k] => j = k
  BY <1>1, <1>2, <1>3 DEF Lists
<1>5. \A d : d \in K \cup {c} <=> \E j \in 1 .. Len(u) : u[j] = d
  <2>1. ASSUME NEW d, NEW j \in 1 .. Len(u), u[j] = d
        PROVE  d \in K \cup {c}
    BY <1>1, <1>2, <2>1 DEF Lists
  <2>2. ASSUME NEW d \in K
        PROVE  \E j \in 1 .. Len(u) : u[j] = d
    <3>1. PICK j \in 1 .. Len(s) : s[j] = d
      BY DEF Lists
    <3>2. j \in 1 .. Len(u) /\ u[j] = d
      BY <1>1, <1>2, <3>1
    <3> QED
      BY <3>2
  <2>3. Len(s) + 1 \in 1 .. Len(u)
    BY <1>1, <1>2
  <2> QED
    BY <1>2, <2>1, <2>2, <2>3
<1>6. Lists(u, K \cup {c}) /\ u # <<>>
  BY <1>2, <1>4, <1>5 DEF Lists
<1> QED
  BY <1>6 DEF u

(* Evicting the least recently used key. *)
LEMMA ListsTail ==
    ASSUME NEW K, NEW s, Lists(s, K), s # <<>>
    PROVE  Lists(Tail(s), K \ {Head(s)}) /\ Head(s) \in K
<1> DEFINE u == Tail(s)
<1>1. s \in Seq(Conversations) /\ Len(s) \in Nat \ {0} /\ Head(s) = s[1]
  BY EmptySeq DEF Lists
<1>2. /\ u \in Seq(Conversations)
      /\ Len(u) = Len(s) - 1
      /\ \A j \in 1 .. Len(s) - 1 : u[j] = s[j + 1]
  BY <1>1, HeadTailProperties
<1> HIDE DEF u
<1>3. \A j, k \in 1 .. Len(u) : u[j] = u[k] => j = k
  BY <1>1, <1>2 DEF Lists
<1>4. \A d : d \in K \ {Head(s)} <=> \E j \in 1 .. Len(u) : u[j] = d
  <2>1. ASSUME NEW d, NEW j \in 1 .. Len(u), u[j] = d
        PROVE  d \in K \ {Head(s)}
    <3>1. j + 1 \in 1 .. Len(s) /\ s[j + 1] = d /\ 1 \in 1 .. Len(s)
      BY <1>1, <1>2, <2>1
    <3>2. d \in K
      BY <3>1 DEF Lists
    <3>3. d # s[1]
      <4>1. j + 1 # 1
        BY <1>1, <1>2
      <4> QED
        BY <3>1, <4>1 DEF Lists
    <3> QED
      BY <1>1, <3>2, <3>3
  <2>2. ASSUME NEW d \in K \ {Head(s)}
        PROVE  \E j \in 1 .. Len(u) : u[j] = d
    <3>1. PICK j \in 1 .. Len(s) : s[j] = d
      BY DEF Lists
    <3>2. j - 1 \in 1 .. Len(u) /\ u[j - 1] = d
      BY <1>1, <1>2, <3>1
    <3> QED
      BY <3>2
  <2> QED
    BY <2>1, <2>2
<1>5. Head(s) \in K
  <2>1. 1 \in 1 .. Len(s)
    BY <1>1
  <2> QED
    BY <1>1, <2>1 DEF Lists
<1>6. Lists(u, K \ {Head(s)})
  BY <1>2, <1>3, <1>4 DEF Lists
<1> QED
  BY <1>5, <1>6 DEF u

(* The recency order is as long as the cache is full. *)
LEMMA ListsLength ==
    ASSUME NEW K, NEW s, Lists(s, K)
    PROVE  IsFiniteSet(K) /\ Len(s) = Cardinality(K)
<1>1. /\ Len(s) \in Nat
      /\ \A c : c \in K <=> \E i \in 1 .. Len(s) : s[i] = c
      /\ \A i, j \in 1 .. Len(s) : s[i] = s[j] => i = j
  BY LenProperties DEF Lists
<1>5. s \in [1 .. Len(s) -> K]
  <2>1. s \in [1 .. Len(s) -> Conversations]
    BY LenProperties DEF Lists
  <2>2. \A i \in 1 .. Len(s) : s[i] \in K
    BY <1>1
  <2> QED
    BY <2>1, <2>2
<1>2. s \in Bijection(1 .. Len(s), K)
  <2>1. s \in Injection(1 .. Len(s), K)
    BY <1>1, <1>5 DEF Injection, IsInjective
  <2>2. s \in Surjection(1 .. Len(s), K)
    BY <1>1, <1>5 DEF Surjection
  <2> QED
    BY <2>1, <2>2 DEF Bijection
<1>3. ExistsBijection(1 .. Len(s), K)
  BY <1>2, Zenon DEF ExistsBijection
<1>4. IsFiniteSet(1 .. Len(s)) /\ Cardinality(1 .. Len(s)) = Len(s)
  <2>1. 0 + 1 \in Int /\ Len(s) \in Int /\ 1 \in Int
    BY <1>1
  <2> HIDE DEF Lists
  <2>2. /\ IsFiniteSet(1 .. Len(s))
        /\ Cardinality(1 .. Len(s)) = IF 1 > Len(s) THEN 0 ELSE Len(s) - 1 + 1
    BY <2>1, FS_Interval
  <2> QED
    BY <1>1, <2>2
<1> QED
  BY <1>3, <1>4, FS_Bijection

-----------------------------------------------------------------------------
(* Type correctness and the cache *)

(* An idle request is not in flight, and each other step has its own name. *)
LEMMA StepNames ==
    /\ Answering \cap Ended = {}
    /\ Answering \cap {"idle", "wipe", "question", "prompt", "history", "loading"} = {}
    /\ Ended \cap {"idle", "wipe", "question", "prompt", "history", "loading"} = {}
BY DEF Answering, Ended

(* NextOrders only yields message orders. *)
LEMMA NextOrdersType ==
    ASSUME NEW rows \in Database, NEW id
    PROVE  NextOrders(rows, id) \subseteq Nat
<1>1. \A m \in MessagesOf(rows, id) : m.order + 1 \in Nat
  BY DEF MessagesOf, Database, MessageRow
<1> QED
  BY <1>1 DEF NextOrders

(* What a saved message adds to the committed rows: itself, and its        *)
(* session, which is new or the conversation's.                            *)
AddsRow(r, role, hide, id, n) ==
    /\ \/ id = <<r, role>>
       \/ [id |-> id, conv |-> ConvOf(r)] \in db.sessions
    /\ db' = [sessions |-> db.sessions \cup {[id |-> id, conv |-> ConvOf(r)]},
              messages |-> db.messages \cup
                {[session |-> id, order |-> n,
                  turn |-> [req |-> r, role |-> role], hide |-> hide]}]

(* And how the session and the order are found: the session is the one r   *)
(* sees, the order is one more than the last it sees there, or 0.          *)
Saves(r, role, hide, id, n) ==
    /\ AddsRow(r, role, hide, id, n)
    /\ \/ /\ SessionsOf(View(r), ConvOf(r)) = {}
          /\ id = <<r, role>> /\ n = 0
       \/ /\ SessionsOf(View(r), ConvOf(r)) = {[id |-> id, conv |-> ConvOf(r)]}
          /\ [id |-> id, conv |-> ConvOf(r)] \in db.sessions
          /\ n \in NextOrders(View(r), id)

(* Saving a message is adding one row, in the session and with the order   *)
(* that the request's transaction shows it.                                *)
LEMMA SaveMessageSaves ==
    ASSUME TypeOK, NEW r \in Requests, call[r] \in Call,
           NEW role \in Roles, NEW hide \in BOOLEAN, SaveMessage(r, role, hide)
    PROVE  /\ \E id \in SessionId, n \in Nat : Saves(r, role, hide, id, n)
           /\ snap' = [snap EXCEPT ![r] = None]
<1> DEFINE found == SessionsOf(View(r), ConvOf(r))
           new == [id |-> <<r, role>>, conv |-> ConvOf(r)]
           Row(id, n) == [session |-> id, order |-> n,
                          turn |-> [req |-> r, role |-> role], hide |-> hide]
<1>1. /\ snap' = [snap EXCEPT ![r] = None]
      /\ \/ /\ found = {}
            /\ db' = [sessions |-> db.sessions \cup {new},
                      messages |-> db.messages \cup {Row(new.id, 0)}]
         \/ \E s \in found :
              /\ found = {s}
              /\ s \in db.sessions
              /\ \E n \in NextOrders(View(r), s.id) :
                   db' = [db EXCEPT !.messages = @ \cup {Row(s.id, n)}]
  BY DEF SaveMessage
<1>2. CASE /\ found = {}
           /\ db' = [sessions |-> db.sessions \cup {new},
                     messages |-> db.messages \cup {Row(new.id, 0)}]
  <2>1. <<r, role>> \in SessionId /\ 0 \in Nat
    BY DEF SessionId
  <2> QED
    BY <1>1, <1>2, <2>1 DEF AddsRow, Saves
<1>3. CASE \E s \in found :
              /\ found = {s}
              /\ s \in db.sessions
              /\ \E n \in NextOrders(View(r), s.id) :
                   db' = [db EXCEPT !.messages = @ \cup {Row(s.id, n)}]
  <2>0. PICK s \in found :
              /\ found = {s}
              /\ s \in db.sessions
              /\ \E n \in NextOrders(View(r), s.id) :
                   db' = [db EXCEPT !.messages = @ \cup {Row(s.id, n)}]
    BY <1>3
  <2>1. PICK n \in NextOrders(View(r), s.id) :
              /\ s \in db.sessions
              /\ db' = [db EXCEPT !.messages = @ \cup {Row(s.id, n)}]
    BY <2>0
  <2>2. db \in Database /\ View(r) \in Database
    BY DEF TypeOK, View
  <2>3. n \in Nat
    BY <2>2, NextOrdersType
  <2>4. s.conv = ConvOf(r) /\ s \in SessionRow
    BY <2>1, <2>2 DEF SessionsOf, Database
  <2>5. s = [id |-> s.id, conv |-> ConvOf(r)] /\ s.id \in SessionId
    BY <2>4 DEF SessionRow
  <2>6. db.sessions = db.sessions \cup {[id |-> s.id, conv |-> ConvOf(r)]}
    BY <2>1, <2>5
  <2>7. db' = [sessions |-> db.sessions, messages |-> db.messages \cup {Row(s.id, n)}]
    BY <2>1, <2>2 DEF Database
  <2>8. found = {[id |-> s.id, conv |-> ConvOf(r)]}
    BY <2>0, <2>5
  <2>9. AddsRow(r, role, hide, s.id, n)
    <3> HIDE DEF found
    <3> QED
      BY <2>1, <2>3, <2>5, <2>6, <2>7 DEF AddsRow
  <2>10. Saves(r, role, hide, s.id, n)
    BY <2>1, <2>5, <2>8, <2>9 DEF Saves
  <2> HIDE DEF found
  <2> QED
    BY <1>1, <2>3, <2>5, <2>10
<1> QED
  BY <1>1, <1>2, <1>3

(* Saving a message adds one row. *)
LEMMA SaveMessageAdds ==
    ASSUME TypeOK, NEW r \in Requests, call[r] \in Call,
           NEW role \in Roles, NEW hide \in BOOLEAN, SaveMessage(r, role, hide)
    PROVE  /\ \E id \in SessionId, n \in Nat : AddsRow(r, role, hide, id, n)
           /\ snap' = [snap EXCEPT ![r] = None]
<1> HIDE DEF TypeOK, SaveMessage
<1> QED
  BY SaveMessageSaves DEF Saves

(* A saved message is a row, and so is the session it may create. *)
LEMMA SaveMessageType ==
    ASSUME TypeOK, NEW r \in Requests, call[r] \in Call,
           NEW role \in Roles, NEW hide \in BOOLEAN, SaveMessage(r, role, hide)
    PROVE  db' \in Database /\ snap' \in [Requests -> Database \cup {None}]
<1> HIDE DEF TypeOK, SaveMessage
<1>2. /\ \E id \in SessionId, n \in Nat : AddsRow(r, role, hide, id, n)
      /\ snap' = [snap EXCEPT ![r] = None]
  BY SaveMessageAdds
<1>1. PICK id \in SessionId, n \in Nat :
        db' = [sessions |-> db.sessions \cup {[id |-> id, conv |-> ConvOf(r)]},
               messages |-> db.messages \cup
                 {[session |-> id, order |-> n,
                   turn |-> [req |-> r, role |-> role], hide |-> hide]}]
  BY <1>2 DEF AddsRow
<1>3. [id |-> id, conv |-> ConvOf(r)] \in SessionRow
  BY DEF SessionRow, ConvOf, Call
<1>4. [session |-> id, order |-> n,
       turn |-> [req |-> r, role |-> role], hide |-> hide] \in MessageRow
  BY DEF MessageRow, Turn
<1>5. db.sessions \subseteq SessionRow /\ db.messages \subseteq MessageRow
  BY DEF TypeOK, Database
<1>6. db' \in Database
  BY <1>1, <1>3, <1>4, <1>5 DEF Database
<1> QED
  BY <1>2, <1>6 DEF TypeOK

(* Inserting a missing key leaves the cache within its bound and its       *)
(* recency order exact, and changes no other key but by eviction.          *)
LEMMA InsertMissing ==
    ASSUME TypeOK, CacheInv, NEW w \in Workers, NEW c \in Conversations,
           NEW l \in Requests, store[w][c] = None, Insert(w, c, l)
    PROVE  /\ store' \in [Workers -> [Conversations -> Requests \cup {None}]]
           /\ recency' \in [Workers -> Seq(Conversations)]
           /\ CacheInv'
           /\ \A v \in Workers, d \in Conversations :
                store'[v][d] \in {store[v][d], l, None}
           /\ \A v \in Workers \ {w} : store'[v] = store[v]
           /\ Cardinality(Cached(w) \cup {c}) <= MaxCachedSessions =>
                store' = [store EXCEPT ![w][c] = l]
<1> DEFINE K == Cached(w)
           keys == Append(recency[w], c)
           entry == [store[w] EXCEPT ![c] = l]
           full == Cardinality(K \cup {c}) > MaxCachedSessions
<1>1. c \notin K /\ l # None
  BY NoneAssumption DEF Cached
<1>2. /\ store' = [store EXCEPT
            ![w] = IF full THEN [entry EXCEPT ![Head(keys)] = None] ELSE entry]
      /\ recency' = [recency EXCEPT ![w] = IF full THEN Tail(keys) ELSE keys]
  BY <1>1 DEF Insert
<1>3. /\ IsFiniteSet(K)
      /\ Cardinality(K) \in Nat
      /\ IsFiniteSet(K \cup {c})
      /\ Cardinality(K \cup {c}) = Cardinality(K) + 1
  <2>1. IsFiniteSet(K)
    BY ListsLength DEF CacheInv
  <2> HIDE DEF K
  <2> QED
    BY <1>1, <2>1, FS_AddElement, FS_CardinalityType
<1>4. /\ Lists(keys, K \cup {c})
      /\ keys # <<>>
  BY <1>1, ListsAppend DEF CacheInv
<1>5. /\ Lists(Tail(keys), (K \cup {c}) \ {Head(keys)})
      /\ Head(keys) \in K \cup {c}
  <2> HIDE DEF K, keys
  <2> QED
    BY <1>4, ListsTail
<1>6. entry \in [Conversations -> Requests \cup {None}]
  BY DEF TypeOK
<1>7. Head(keys) \in Conversations
  BY <1>5 DEF Cached
<1>8. CASE full
  <2> HIDE DEF full, keys
  <2>1. /\ store'[w] = [entry EXCEPT ![Head(keys)] = None]
        /\ recency'[w] = Tail(keys)
    BY <1>2, <1>8 DEF TypeOK
  <2>2. Cached(w)' = (K \cup {c}) \ {Head(keys)}
    BY <1>1, <1>6, <2>1 DEF Cached, TypeOK
  <2>3. Cardinality(Cached(w)') = Cardinality(K)
    <3> DEFINE J == K \cup {c}
               h == Head(keys)
    <3>1. IsFiniteSet(J) /\ h \in J /\ Cardinality(J) = Cardinality(K) + 1
      BY <1>3, <1>5
    <3> HIDE DEF J, h, K
    <3>2. Cardinality(J \ {h}) = Cardinality(J) - 1
      BY <3>1, FS_RemoveElement
    <3>3. Cached(w)' = J \ {h}
      BY <2>2 DEF J, h
    <3> QED
      BY <1>3, <3>1, <3>2, <3>3
  <2>4. Cardinality(Cached(w)') <= MaxCachedSessions
    BY <2>3 DEF CacheInv
  <2>5. Lists(recency'[w], Cached(w)')
    BY <1>5, <2>1, <2>2
  <2>6. /\ store'[w] \in [Conversations -> Requests \cup {None}]
        /\ recency'[w] \in Seq(Conversations)
    BY <1>6, <2>1, <2>5 DEF Lists
  <2>7. \A d \in Conversations : store'[w][d] \in {store[w][d], l, None}
    BY <2>1 DEF TypeOK
  <2>8. \A v \in Workers \ {w} : store'[v] = store[v] /\ recency'[v] = recency[v]
    BY <1>2 DEF TypeOK
  <2>9. \A v \in Workers \ {w} : Cached(v)' = Cached(v)
    BY <2>8 DEF Cached
  <2>10. CacheInv'
    BY <2>4, <2>5, <2>8, <2>9 DEF CacheInv
  <2>11. ~(Cardinality(Cached(w) \cup {c}) <= MaxCachedSessions)
    <3> HIDE DEF K
    <3>1. MaxCachedSessions \in Nat
      BY ConversationAssumption
    <3> QED
      BY <1>3, <1>8, <3>1 DEF full, K
  <2>12. /\ store' \in [Workers -> [Conversations -> Requests \cup {None}]]
         /\ recency' \in [Workers -> Seq(Conversations)]
    BY <1>2, <2>6, <2>8 DEF TypeOK
  <2> QED
    BY <2>7, <2>8, <2>10, <2>11, <2>12
<1>9. CASE ~full
  <2> HIDE DEF full, keys
  <2>1. /\ store'[w] = entry
        /\ recency'[w] = keys
    BY <1>2, <1>9 DEF TypeOK
  <2>2. Cached(w)' = K \cup {c}
    BY <1>1, <1>6, <2>1 DEF Cached, TypeOK
  <2>3. Cardinality(Cached(w)') <= MaxCachedSessions
    <3> HIDE DEF K
    <3>1. MaxCachedSessions \in Nat
      BY ConversationAssumption
    <3> QED
      BY <1>3, <1>9, <2>2, <3>1 DEF full
  <2>4. Lists(recency'[w], Cached(w)')
    BY <1>4, <2>1, <2>2
  <2>5. \A d \in Conversations : store'[w][d] \in {store[w][d], l, None}
    BY <2>1 DEF TypeOK
  <2>6. \A v \in Workers \ {w} : store'[v] = store[v] /\ recency'[v] = recency[v]
    BY <1>2 DEF TypeOK
  <2>7. \A v \in Workers \ {w} : Cached(v)' = Cached(v)
    BY <2>6 DEF Cached
  <2>8. CacheInv'
    BY <2>3, <2>4, <2>6, <2>7 DEF CacheInv
  <2>9. store' = [store EXCEPT ![w][c] = l]
    BY <1>2, <1>9
  <2>10. /\ store' \in [Workers -> [Conversations -> Requests \cup {None}]]
         /\ recency' \in [Workers -> Seq(Conversations)]
    BY <1>2, <1>6, <2>1, <2>4, <2>6 DEF TypeOK, Lists
  <2> QED
    BY <2>5, <2>6, <2>8, <2>9, <2>10
<1> QED
  BY <1>8, <1>9

(* Nothing about the cache changes when the store and its order do not. *)
LEMMA CacheUnchanged ==
    ASSUME CacheInv, UNCHANGED <<store, recency>>
    PROVE  CacheInv'
BY DEF CacheInv, Cached

(* The invariant holds of the empty server. *)
LEMMA BaseInit == Init => BaseInv
<1> SUFFICES ASSUME Init PROVE BaseInv
  OBVIOUS
<1>1. TypeOK
  BY EmptySeq DEF Init, TypeOK, Database, Steps
<1>2. CacheInv
  <2>1. SUFFICES ASSUME NEW w \in Workers
                 PROVE  Lists(recency[w], Cached(w)) /\ Cardinality(Cached(w)) <= MaxCachedSessions
    BY DEF CacheInv
  <2>2. Cached(w) = {} /\ recency[w] = <<>>
    BY DEF Init, Cached
  <2>3. Lists(<<>>, {})
    BY EmptySeq DEF Lists
  <2>4. Cardinality({}) = 0 /\ MaxCachedSessions \in Nat
    BY ConversationAssumption, FS_EmptySet
  <2> QED
    BY <2>2, <2>3, <2>4
<1>3. CallInv /\ LockInv /\ ListInv
  BY DEF Init, CallInv, LockInv, ListInv, Answering
<1> QED
  BY <1>1, <1>2, <1>3 DEF BaseInv

(* Every step keeps the invariant. *)
LEMMA BaseStep == BaseInv /\ [Next]_vars => BaseInv'
<1> SUFFICES ASSUME BaseInv, [Next]_vars PROVE BaseInv'
  OBVIOUS
<1>0. TypeOK /\ CacheInv /\ CallInv /\ LockInv /\ ListInv
  BY DEF BaseInv
<1>1. ASSUME NEW r \in Requests, NEW o \in Ops, NEW c \in Conversations,
              NEW w \in Workers, Begin(r, o, c, w)
              PROVE  BaseInv'
  <2>1. TypeOK'
    BY <1>0, <1>1 DEF Begin, TypeOK, Call, Steps, cacheVars
  <2>2. CacheInv'
    <3>1. UNCHANGED <<store, recency>>
      BY <1>1 DEF Begin, cacheVars
    <3> QED
      BY <1>0, <3>1, CacheUnchanged
  <2>3. CallInv'
    BY <1>0, <1>1 DEF Begin, CallInv, TypeOK, Call
  <2>4. LockInv'
    BY <1>0, <1>1, NoneAssumption DEF Begin, LockInv, TypeOK, cacheVars, ConvOf, WorkerOf, Call
  <2>5. ListInv'
    BY <1>0, <1>1, NoneAssumption DEF Begin, ListInv, TypeOK, cacheVars, Answering, Ended, Call
  <2> QED
    BY <2>1, <2>2, <2>3, <2>4, <2>5 DEF BaseInv
<1>2. ASSUME NEW r \in Requests, WipeHistory(r)
              PROVE  BaseInv'
  <2>1. TypeOK'
    <3>1. /\ db.messages \subseteq MessageRow
          /\ db.sessions \subseteq SessionRow
          /\ db \in Database
      BY <1>0 DEF TypeOK, Database
    <3>2. db' \in Database
      BY <1>2, <3>1 DEF WipeHistory, Database
    <3>3. snap' \in [Requests -> Database \cup {None}]
      BY <1>0, <1>2 DEF WipeHistory, TypeOK
    <3>4. wiped' \in [Requests -> SUBSET Turn]
      BY <1>0, <1>2, <3>1 DEF WipeHistory, TypeOK, MessageRow
    <3>5. pc' \in [Requests -> Steps]
      BY <1>0, <1>2 DEF WipeHistory, TypeOK, Steps, Ended
    <3> QED
      BY <1>0, <1>2, <3>2, <3>3, <3>4, <3>5 DEF WipeHistory, TypeOK, cacheVars
  <2>2. CacheInv'
    <3>1. UNCHANGED <<store, recency>>
      BY <1>2 DEF WipeHistory, cacheVars
    <3> QED
      BY <1>0, <3>1, CacheUnchanged
  <2>3. CallInv'
    BY <1>0, <1>2 DEF WipeHistory, CallInv, TypeOK
  <2>4. LockInv'
    BY <1>0, <1>2, NoneAssumption DEF WipeHistory, LockInv, TypeOK, cacheVars, ConvOf, WorkerOf
  <2>5. ListInv'
    BY <1>0, <1>2, NoneAssumption DEF WipeHistory, ListInv, TypeOK, cacheVars, Answering, Ended
  <2> QED
    BY <2>1, <2>2, <2>3, <2>4, <2>5 DEF BaseInv
<1>3. ASSUME NEW r \in Requests, SaveQuestion(r)
              PROVE  BaseInv'
  <2>1. TypeOK'
    <3>1. call[r] \in Call
      BY <1>0, <1>3 DEF SaveQuestion, CallInv
    <3>2. "user" \in Roles /\ Hidden(r) \in BOOLEAN
      BY DEF Roles, Hidden
    <3>3. SaveMessage(r, "user", Hidden(r))
      BY <1>3 DEF SaveQuestion
    <3> HIDE DEF SaveMessage, Hidden
    <3>4. db' \in Database /\ snap' \in [Requests -> Database \cup {None}]
      BY <1>0, <3>1, <3>2, <3>3, SaveMessageType
    <3> QED
      BY <1>0, <1>3, <3>4 DEF SaveQuestion, TypeOK, Steps, Ended, cacheVars
  <2>2. CacheInv'
    <3>1. UNCHANGED <<store, recency>>
      BY <1>3 DEF SaveQuestion, cacheVars
    <3> QED
      BY <1>0, <3>1, CacheUnchanged
  <2>3. CallInv'
    BY <1>0, <1>3 DEF SaveQuestion, CallInv, TypeOK
  <2>4. LockInv'
    BY <1>0, <1>3, NoneAssumption DEF SaveQuestion, LockInv, TypeOK, cacheVars, ConvOf, WorkerOf
  <2>5. ListInv'
    BY <1>0, <1>3, NoneAssumption DEF SaveQuestion, ListInv, TypeOK, cacheVars, Answering, Ended
  <2> QED
    BY <2>1, <2>2, <2>3, <2>4, <2>5 DEF BaseInv
<1>4. ASSUME NEW r \in Requests, ReadPrompt(r)
              PROVE  BaseInv'
  <2>1. TypeOK'
    BY <1>0, <1>4 DEF ReadPrompt, TypeOK, View, Steps, cacheVars
  <2>2. CacheInv'
    <3>1. UNCHANGED <<store, recency>>
      BY <1>4 DEF ReadPrompt, cacheVars
    <3> QED
      BY <1>0, <3>1, CacheUnchanged
  <2>3. CallInv'
    BY <1>0, <1>4 DEF ReadPrompt, CallInv, TypeOK
  <2>4. LockInv'
    BY <1>0, <1>4, NoneAssumption DEF ReadPrompt, LockInv, TypeOK, cacheVars, ConvOf, WorkerOf
  <2>5. ListInv'
    BY <1>0, <1>4, NoneAssumption DEF ReadPrompt, ListInv, TypeOK, cacheVars, Answering, Ended
  <2> QED
    BY <2>1, <2>2, <2>3, <2>4, <2>5 DEF BaseInv
<1>5. ASSUME NEW r \in Requests, GetCachedHistory(r)
              PROVE  BaseInv'
  <2> DEFINE w == WorkerOf(r)
             c == ConvOf(r)
  <2>0. /\ w \in Workers /\ c \in Conversations
        /\ store[w][c] \in Requests
        /\ pc[store[w][c]] \in Answering \cup Ended
    <3>1. w \in Workers /\ c \in Conversations
      BY <1>0, <1>5 DEF GetCachedHistory, CallInv, Call, WorkerOf, ConvOf
    <3>2. store[w][c] # None
      BY <1>5 DEF GetCachedHistory
    <3> HIDE DEF w, c
    <3> QED
      BY <1>0, <3>1, <3>2 DEF TypeOK, ListInv
  <2>6. PICK i \in 1 .. Len(recency[w]) :
          /\ recency[w][i] = c
          /\ recency' = [recency EXCEPT ![w] = Append(RemoveAt(recency[w], i), recency[w][i])]
    <3>1. recency[w] \in Seq(Conversations)
      BY <1>0, <2>0 DEF TypeOK
    <3>2. DOMAIN recency[w] = 1 .. Len(recency[w])
      BY <3>1
    <3> QED
      BY <1>5, <3>2 DEF GetCachedHistory
  <2>7. Lists(recency'[w], Cached(w))
    <3>1. Lists(Append(RemoveAt(recency[w], i), recency[w][i]), Cached(w))
      BY <1>0, <2>0, <2>6, ListsMoveToEnd DEF CacheInv
    <3> QED
      BY <1>0, <2>0, <2>6, <3>1 DEF TypeOK
  <2>8. /\ UNCHANGED <<db, store, lock, history, call, snap, wiped>>
        /\ list' = [list EXCEPT ![r] = store[w][c]]
        /\ context' = [context EXCEPT ![r] = history[store[w][c]]]
        /\ pc' = [pc EXCEPT ![r] = "llm"]
    BY <1>5 DEF GetCachedHistory
  <2> HIDE DEF w, c
  <2>1. TypeOK'
    <3>1. recency' \in [Workers -> Seq(Conversations)]
      BY <1>0, <2>0, <2>6, <2>7 DEF TypeOK, Lists
    <3> QED
      BY <1>0, <2>0, <2>8, <3>1 DEF TypeOK, Steps, Answering
  <2>2. CacheInv'
    <3>1. \A v \in Workers : Cached(v)' = Cached(v)
      BY <2>8 DEF Cached
    <3>2. \A v \in Workers \ {w} : recency'[v] = recency[v]
      BY <1>0, <2>0, <2>6 DEF TypeOK
    <3> QED
      BY <1>0, <2>7, <3>1, <3>2 DEF CacheInv
  <2>3. CallInv'
    BY <1>0, <1>5, <2>8 DEF GetCachedHistory, CallInv, TypeOK
  <2>4. LockInv'
    BY <1>0, <2>8 DEF LockInv, TypeOK, ConvOf, WorkerOf
  <2>5. ListInv'
    BY <1>0, <2>0, <2>8 DEF ListInv, TypeOK, Answering, Ended
  <2> QED
    BY <2>1, <2>2, <2>3, <2>4, <2>5 DEF BaseInv
<1>6. ASSUME NEW r \in Requests, MissHistory(r)
              PROVE  BaseInv'
  <2>0. WorkerOf(r) \in Workers /\ ConvOf(r) \in Conversations
    BY <1>0, <1>6 DEF MissHistory, CallInv, Call, WorkerOf, ConvOf
  <2>1. TypeOK'
    BY <1>0, <1>6 DEF MissHistory, TypeOK, Steps
  <2>2. CacheInv'
    <3>1. UNCHANGED <<store, recency>>
      BY <1>6 DEF MissHistory
    <3> QED
      BY <1>0, <3>1, CacheUnchanged
  <2>3. CallInv'
    BY <1>0, <1>6 DEF MissHistory, CallInv, TypeOK
  <2>4. LockInv'
    BY <1>0, <1>6, <2>0, NoneAssumption DEF MissHistory, LockInv, TypeOK, ConvOf, WorkerOf
  <2>5. ListInv'
    BY <1>0, <1>6, NoneAssumption DEF MissHistory, ListInv, TypeOK, Answering, Ended
  <2> QED
    BY <2>1, <2>2, <2>3, <2>4, <2>5 DEF BaseInv
<1>7. ASSUME NEW r \in Requests, LoadHistory(r)
              PROVE  BaseInv'
  <2>0. PICK w \in Workers, c \in Conversations : w = WorkerOf(r) /\ c = ConvOf(r)
    BY <1>0, <1>7 DEF LoadHistory, CallInv, Call, WorkerOf, ConvOf
  <2> DEFINE loaded == VisibleTurns(View(r), c)
  <2>6. pc[r] = "loading" /\ lock[w] = r /\ store[w][c] = None /\ Insert(w, c, r)
    BY <1>0, <1>7, <2>0 DEF LoadHistory, LockInv
  <2>7. /\ UNCHANGED <<db, call, snap, wiped>>
        /\ history' = [history EXCEPT ![r] = loaded]
        /\ lock' = [lock EXCEPT ![w] = None]
        /\ list' = [list EXCEPT ![r] = r]
        /\ context' = [context EXCEPT ![r] = loaded]
        /\ pc' = [pc EXCEPT ![r] = "llm"]
    BY <1>7, <2>0 DEF LoadHistory
  <2>8. loaded \subseteq Turn
    <3>1. View(r) \in Database
      BY <1>0 DEF TypeOK, View
    <3> QED
      BY <3>1 DEF VisibleTurns, Database, MessageRow
  <2> HIDE DEF loaded, Insert
  <2>9. /\ store' \in [Workers -> [Conversations -> Requests \cup {None}]]
        /\ recency' \in [Workers -> Seq(Conversations)]
        /\ CacheInv'
        /\ \A v \in Workers, d \in Conversations :
             store'[v][d] \in {store[v][d], r, None}
        /\ \A v \in Workers \ {w} : store'[v] = store[v]
    <3>1. TypeOK /\ CacheInv /\ r \in Requests /\ w \in Workers /\ c \in Conversations
          /\ store[w][c] = None /\ Insert(w, c, r)
      BY <1>0, <2>0, <2>6
    <3> HIDE DEF TypeOK, CacheInv
    <3>2. CacheInv'
      BY <3>1, InsertMissing
    <3>3. /\ store' \in [Workers -> [Conversations -> Requests \cup {None}]]
          /\ recency' \in [Workers -> Seq(Conversations)]
      BY <3>1, InsertMissing
    <3>4. \A v \in Workers, d \in Conversations :
             store'[v][d] \in {store[v][d], r, None}
      BY <3>1, InsertMissing
    <3>5. \A v \in Workers \ {w} : store'[v] = store[v]
      BY <3>1, InsertMissing
    <3> QED
      BY <3>2, <3>3, <3>4, <3>5
  <2>1. TypeOK'
    BY <1>0, <2>7, <2>8, <2>9 DEF TypeOK, Steps, Answering
  <2>2. CacheInv'
    BY <2>9
  <2>3. CallInv'
    BY <1>0, <2>6, <2>7 DEF CallInv, TypeOK
  <2>4. LockInv'
    <3> SUFFICES ASSUME NEW q \in Requests, pc'[q] = "loading"
                 PROVE  /\ lock'[WorkerOf(q)'] = q
                        /\ store'[WorkerOf(q)'][ConvOf(q)'] = None
      BY DEF LockInv
    <3>1. q # r /\ pc[q] = "loading" /\ WorkerOf(q)' = WorkerOf(q) /\ ConvOf(q)' = ConvOf(q)
      BY <1>0, <2>7 DEF TypeOK, WorkerOf, ConvOf
    <3>2. /\ lock[WorkerOf(q)] = q /\ store[WorkerOf(q)][ConvOf(q)] = None
          /\ WorkerOf(q) \in Workers
      BY <1>0, <3>1 DEF LockInv, CallInv, Call, WorkerOf
    <3>3. WorkerOf(q) # w
      BY <2>6, <3>1, <3>2
    <3> QED
      BY <1>0, <2>7, <2>9, <3>1, <3>2, <3>3 DEF TypeOK
  <2>5. ListInv'
    <3>1. \A q \in Requests : pc'[q] \in Answering => list'[q] \in Requests
      BY <1>0, <2>7 DEF ListInv, TypeOK
    <3>2. \A q \in Requests : pc[q] \in Answering \cup Ended => pc'[q] \in Answering \cup Ended
      BY <1>0, <2>7 DEF TypeOK, Answering
    <3>3. pc'[r] \in Answering
      BY <1>0, <2>7 DEF TypeOK, Answering
    <3>4. ASSUME NEW v \in Workers, NEW d \in Conversations, store'[v][d] # None
          PROVE  pc'[store'[v][d]] \in Answering \cup Ended
      <4>1. CASE store'[v][d] = r
        BY <3>3, <4>1
      <4>2. CASE store'[v][d] = store[v][d]
        BY <1>0, <3>2, <3>4, <4>2 DEF ListInv, TypeOK
      <4> QED
        BY <2>9, <3>4, <4>1, <4>2
    <3> QED
      BY <3>1, <3>4 DEF ListInv
  <2> QED
    BY <2>1, <2>2, <2>3, <2>4, <2>5 DEF BaseInv
<1>8. ASSUME NEW r \in Requests, RecordTurn(r)
              PROVE  BaseInv'
  <2>1. TypeOK'
    <3>1. list[r] \in Requests
      BY <1>0, <1>8 DEF RecordTurn, ListInv, Answering
    <3>2. {[req |-> r, role |-> role] : role \in Roles} \subseteq Turn
      BY DEF Turn
    <3>3. history' \in [Requests -> SUBSET Turn]
      BY <1>0, <1>8, <3>1, <3>2 DEF RecordTurn, TypeOK
    <3>4. snap' \in [Requests -> Database \cup {None}]
      BY <1>0, <1>8 DEF RecordTurn, TypeOK
    <3> QED
      BY <1>0, <1>8, <3>3, <3>4 DEF RecordTurn, TypeOK, Steps, Answering
  <2>2. CacheInv'
    <3>1. UNCHANGED <<store, recency>>
      BY <1>8 DEF RecordTurn, cacheVars
    <3> QED
      BY <1>0, <3>1, CacheUnchanged
  <2>3. CallInv'
    BY <1>0, <1>8 DEF RecordTurn, CallInv, TypeOK
  <2>4. LockInv'
    BY <1>0, <1>8, NoneAssumption DEF RecordTurn, LockInv, TypeOK, cacheVars, ConvOf, WorkerOf
  <2>5. ListInv'
    BY <1>0, <1>8, NoneAssumption DEF RecordTurn, ListInv, TypeOK, cacheVars, Answering, Ended
  <2> QED
    BY <2>1, <2>2, <2>3, <2>4, <2>5 DEF BaseInv
<1>9. ASSUME NEW r \in Requests, SaveAnswer(r)
              PROVE  BaseInv'
  <2>1. TypeOK'
    <3>1. call[r] \in Call
      BY <1>0, <1>9 DEF SaveAnswer, CallInv
    <3>2. "assistant" \in Roles /\ FALSE \in BOOLEAN
      BY DEF Roles, Hidden
    <3>3. SaveMessage(r, "assistant", FALSE)
      BY <1>9 DEF SaveAnswer
    <3> HIDE DEF SaveMessage, Hidden
    <3>4. db' \in Database /\ snap' \in [Requests -> Database \cup {None}]
      BY <1>0, <3>1, <3>2, <3>3, SaveMessageType
    <3> QED
      BY <1>0, <1>9, <3>4 DEF SaveAnswer, TypeOK, Steps, Ended, cacheVars
  <2>2. CacheInv'
    <3>1. UNCHANGED <<store, recency>>
      BY <1>9 DEF SaveAnswer, cacheVars
    <3> QED
      BY <1>0, <3>1, CacheUnchanged
  <2>3. CallInv'
    BY <1>0, <1>9 DEF SaveAnswer, CallInv, TypeOK
  <2>4. LockInv'
    BY <1>0, <1>9, NoneAssumption DEF SaveAnswer, LockInv, TypeOK, cacheVars, ConvOf, WorkerOf
  <2>5. ListInv'
    BY <1>0, <1>9, NoneAssumption DEF SaveAnswer, ListInv, TypeOK, cacheVars, Answering, Ended
  <2> QED
    BY <2>1, <2>2, <2>3, <2>4, <2>5 DEF BaseInv
<1>10. ASSUME NEW r \in Requests, Fail(r)
              PROVE  BaseInv'
  <2>1. TypeOK'
    BY <1>0, <1>10 DEF Fail, TypeOK, Steps, Ended
  <2>2. CacheInv'
    <3>1. UNCHANGED <<store, recency>>
      BY <1>10 DEF Fail
    <3> QED
      BY <1>0, <3>1, CacheUnchanged
  <2>3. CallInv'
    BY <1>0, <1>10 DEF Fail, CallInv, TypeOK, InFlight
  <2>4. LockInv'
    <3> SUFFICES ASSUME NEW q \in Requests, pc'[q] = "loading"
                 PROVE  /\ lock'[WorkerOf(q)'] = q
                        /\ store'[WorkerOf(q)'][ConvOf(q)'] = None
      BY DEF LockInv
    <3>1. /\ q # r /\ pc[q] = "loading"
          /\ WorkerOf(q)' = WorkerOf(q) /\ ConvOf(q)' = ConvOf(q)
          /\ store' = store
      BY <1>0, <1>10 DEF Fail, TypeOK, WorkerOf, ConvOf
    <3>2. /\ lock[WorkerOf(q)] = q /\ store[WorkerOf(q)][ConvOf(q)] = None
          /\ WorkerOf(q) \in Workers
      BY <1>0, <3>1 DEF LockInv, CallInv, Call, WorkerOf
    <3> QED
      BY <1>10, <3>1, <3>2 DEF Fail
  <2>5. ListInv'
    BY <1>0, <1>10, NoneAssumption DEF Fail, ListInv, TypeOK, Answering, Ended
  <2> QED
    BY <2>1, <2>2, <2>3, <2>4, <2>5 DEF BaseInv
<1>11. ASSUME NEW w \in Workers, Restart(w)
              PROVE  BaseInv'
  <2>8. /\ store' = [store EXCEPT ![w] = [c \in Conversations |-> None]]
        /\ recency' = [recency EXCEPT ![w] = <<>>]
        /\ lock' = [lock EXCEPT ![w] = None]
        /\ UNCHANGED <<db, history, call, list, context, wiped>>
    BY <1>11 DEF Restart
  <2>6. \A q \in Requests : \/ pc'[q] = "failed" /\ pc[q] # "idle"
                            \/ pc'[q] = pc[q] /\ ~(InFlight(q) /\ WorkerOf(q) = w)
    <3>1. \A q \in Requests : pc'[q] = IF InFlight(q) /\ WorkerOf(q) = w THEN "failed" ELSE pc[q]
      BY <1>11 DEF Restart
    <3>2. ASSUME NEW q \in Requests
          PROVE  \/ pc'[q] = "failed" /\ pc[q] # "idle"
                 \/ pc'[q] = pc[q] /\ ~(InFlight(q) /\ WorkerOf(q) = w)
      <4>1. CASE InFlight(q) /\ WorkerOf(q) = w
        BY <3>1, <4>1 DEF InFlight
      <4>2. CASE ~(InFlight(q) /\ WorkerOf(q) = w)
        BY <3>1, <4>2
      <4> QED
        BY <4>1, <4>2
    <3> QED
      BY <3>2
  <2>7. pc' \in [Requests -> Steps] /\ snap' \in [Requests -> Database \cup {None}]
    BY <1>0, <1>11 DEF Restart, TypeOK, Steps, Ended
  <2>1. TypeOK'
    BY <1>0, <2>6, <2>8, <2>7, EmptySeq DEF TypeOK
  <2>2. CacheInv'
    <3>1. Cached(w)' = {} /\ recency'[w] = <<>>
      BY <1>0, <2>6, <2>8 DEF Cached, TypeOK
    <3>2. Lists(<<>>, {})
      BY EmptySeq DEF Lists
    <3>3. Cardinality({}) = 0 /\ MaxCachedSessions \in Nat
      BY ConversationAssumption, FS_EmptySet
    <3>4. \A v \in Workers \ {w} : Cached(v)' = Cached(v) /\ recency'[v] = recency[v]
      BY <1>0, <2>6, <2>8 DEF Cached, TypeOK
    <3>5. Cardinality(Cached(w)') <= MaxCachedSessions /\ Lists(recency'[w], Cached(w)')
      BY <3>1, <3>2, <3>3
    <3> QED
      BY <1>0, <3>4, <3>5 DEF CacheInv
  <2>3. CallInv'
    BY <1>0, <2>6, <2>8 DEF CallInv
  <2>4. LockInv'
    <3> SUFFICES ASSUME NEW q \in Requests, pc'[q] = "loading"
                 PROVE  /\ lock'[WorkerOf(q)'] = q
                        /\ store'[WorkerOf(q)'][ConvOf(q)'] = None
      BY DEF LockInv
    <3>1. /\ pc[q] = "loading" /\ ~(InFlight(q) /\ WorkerOf(q) = w)
          /\ WorkerOf(q)' = WorkerOf(q) /\ ConvOf(q)' = ConvOf(q)
      BY <2>6, <2>8 DEF WorkerOf, ConvOf
    <3>2. WorkerOf(q) # w
      BY <3>1 DEF InFlight
    <3>3. /\ lock[WorkerOf(q)] = q /\ store[WorkerOf(q)][ConvOf(q)] = None
          /\ WorkerOf(q) \in Workers
      BY <1>0, <3>1 DEF LockInv, CallInv, Call, WorkerOf
    <3> QED
      BY <1>0, <2>6, <2>8, <3>1, <3>2, <3>3 DEF TypeOK
  <2>5. ListInv'
    <3>1. \A q \in Requests : pc'[q] \in Answering => list'[q] \in Requests
      BY <1>0, <2>6, <2>8 DEF ListInv, Answering
    <3>2. \A q \in Requests : pc[q] \in Answering \cup Ended => pc'[q] \in Answering \cup Ended
      BY <2>6, <2>8 DEF Ended
    <3>3. ASSUME NEW v \in Workers, NEW d \in Conversations, store'[v][d] # None
          PROVE  pc'[store'[v][d]] \in Answering \cup Ended
      <4>1. store'[v][d] = store[v][d] /\ store[v][d] \in Requests
        BY <1>0, <2>6, <2>8, <3>3 DEF TypeOK
      <4> QED
        BY <1>0, <3>2, <3>3, <4>1 DEF ListInv
    <3> QED
      BY <3>1, <3>3 DEF ListInv
  <2> QED
    BY <2>1, <2>2, <2>3, <2>4, <2>5 DEF BaseInv
<1>13. ASSUME NEW r \in Requests, OpenTransaction(r)
              PROVE  BaseInv'
  <2>1. TypeOK'
    BY <1>0, <1>13 DEF OpenTransaction, TypeOK, cacheVars
  <2>2. CacheInv'
    <3>1. UNCHANGED <<store, recency>>
      BY <1>13 DEF OpenTransaction, cacheVars
    <3> QED
      BY <1>0, <3>1, CacheUnchanged
  <2>3. CallInv' /\ LockInv' /\ ListInv'
    BY <1>0, <1>13 DEF OpenTransaction, CallInv, LockInv, ListInv, cacheVars, ConvOf, WorkerOf
  <2> QED
    BY <2>1, <2>2, <2>3 DEF BaseInv
<1>12. CASE UNCHANGED vars
  <2>1. TypeOK'
    BY <1>0, <1>12 DEF vars, cacheVars, requestVars, TypeOK
  <2>2. CacheInv'
    BY <1>0, <1>12 DEF vars, cacheVars, CacheInv, Cached
  <2>3. CallInv' /\ LockInv' /\ ListInv'
    BY <1>0, <1>12 DEF vars, cacheVars, requestVars, CallInv, LockInv, ListInv, ConvOf, WorkerOf
  <2> QED
    BY <2>1, <2>2, <2>3 DEF BaseInv
<1> QED
  BY <1>1, <1>2, <1>3, <1>4, <1>5, <1>6, <1>7, <1>8, <1>9, <1>10, <1>11, <1>12, <1>13
     DEF Next, Advance

(* BaseInv is an invariant of the conversation service. *)
THEOREM BaseInvariant == Spec => []BaseInv
<1>1. Init => BaseInv
  BY BaseInit
<1>2. BaseInv /\ [Next]_vars => BaseInv'
  BY BaseStep
<1> QED
  BY <1>1, <1>2, PTL DEF Spec

(* Every variable keeps its type, whatever the requests and the workers.   *)
THEOREM TypeCorrect == Spec => []TypeOK
<1>1. BaseInv => TypeOK
  BY DEF BaseInv
<1> QED
  BY <1>1, BaseInvariant, PTL

(* RagService.store never holds more than MAX_CACHED_SESSIONS histories,   *)
(* and evicts in the exact order of use, across hits, misses, failed loads *)
(* and restarts.                                                           *)
THEOREM CacheNeverOverflows == Spec => []CacheBounded
<1>1. BaseInv => CacheBounded
  <2> SUFFICES ASSUME BaseInv, NEW w \in Workers
               PROVE  /\ Cardinality(Cached(w)) <= MaxCachedSessions
                      /\ Len(recency[w]) = Cardinality(Cached(w))
                      /\ \A c \in Cached(w) : \E i \in DOMAIN recency[w] : recency[w][i] = c
    BY DEF CacheBounded
  <2>1. Lists(recency[w], Cached(w)) /\ Cardinality(Cached(w)) <= MaxCachedSessions
    BY DEF BaseInv, CacheInv
  <2>2. Len(recency[w]) = Cardinality(Cached(w))
    BY <2>1, ListsLength
  <2>3. DOMAIN recency[w] = 1 .. Len(recency[w])
    BY <2>1 DEF Lists
  <2>4. \A c \in Cached(w) : \E i \in DOMAIN recency[w] : recency[w][i] = c
    BY <2>1, <2>3 DEF Lists
  <2> QED
    BY <2>1, <2>2, <2>4
<1> QED
  BY <1>1, BaseInvariant, PTL

-----------------------------------------------------------------------------
(* One shared history, when no history is ever evicted *)

(* A request that has begun is served by a worker for a conversation. *)
LEMMA CallOf ==
    ASSUME CallInv, NEW r \in Requests, pc[r] # "idle"
    PROVE  WorkerOf(r) \in Workers /\ ConvOf(r) \in Conversations
BY DEF CallInv, Call, WorkerOf, ConvOf

(* A load into a cache that can hold every conversation evicts nothing. *)
LEMMA LoadEvictsNothing ==
    ASSUME CacheHoldsAll, BaseInv, NEW r \in Requests, LoadHistory(r),
           NEW w \in Workers, NEW c \in Conversations,
           w = WorkerOf(r), c = ConvOf(r)
    PROVE  store[w][c] = None /\ store' = [store EXCEPT ![w][c] = r]
<1>1. /\ TypeOK /\ CacheInv
      /\ store[w][c] = None /\ Insert(w, c, r)
  BY DEF BaseInv, LockInv, LoadHistory
<1>2. Cardinality(Cached(w) \cup {c}) <= MaxCachedSessions
  <2> DEFINE J == Cached(w) \cup {c}
  <2>1. J \in SUBSET Conversations /\ IsFiniteSet(Conversations)
    BY ConversationAssumption DEF Cached
  <2> HIDE DEF J
  <2>2. Cardinality(J) <= Cardinality(Conversations) /\ IsFiniteSet(J)
    BY <2>1, FS_Subset
  <2>3. /\ Cardinality(J) \in Nat
        /\ Cardinality(Conversations) \in Nat
        /\ MaxCachedSessions \in Nat
    BY <2>1, <2>2, FS_CardinalityType, ConversationAssumption
  <2>4. Cardinality(J) <= MaxCachedSessions
    BY <2>2, <2>3 DEF CacheHoldsAll
  <2> QED
    BY <2>4 DEF J
<1>3. store' = [store EXCEPT ![w][c] = r]
  <2> HIDE DEF TypeOK, CacheInv, Insert
  <2> QED
    BY <1>1, <1>2, InsertMissing
<1> QED
  BY <1>1, <1>3

(* OneSharedHistory needs a step to leave alone the cached list of every   *)
(* request that is answering.                                              *)
LEMMA SharedStep ==
    ASSUME CacheHoldsAll, BaseInv, OneSharedHistory, [Next]_vars
    PROVE  OneSharedHistory'
<1>0. TypeOK /\ CallInv /\ LockInv /\ ListInv
  BY DEF BaseInv
<1>1. ASSUME NEW r \in Requests, NEW o \in Ops, NEW c \in Conversations,
             NEW w \in Workers, Begin(r, o, c, w)
      PROVE  OneSharedHistory'
  BY <1>0, <1>1 DEF Begin, OneSharedHistory, TypeOK, Answering, cacheVars, WorkerOf, ConvOf
<1>2. ASSUME NEW r \in Requests,
             \/ WipeHistory(r) \/ OpenTransaction(r) \/ SaveQuestion(r)
             \/ ReadPrompt(r) \/ MissHistory(r) \/ RecordTurn(r) \/ SaveAnswer(r) \/ Fail(r)
      PROVE  OneSharedHistory'
  <2>1. /\ UNCHANGED <<store, list, call>>
        /\ \A q \in Requests : pc'[q] \in Answering => pc[q] \in Answering
    BY <1>0, <1>2 DEF WipeHistory, OpenTransaction, SaveQuestion, ReadPrompt, MissHistory, RecordTurn,
       SaveAnswer, Fail, TypeOK, Answering, cacheVars
  <2> QED
    BY <2>1 DEF OneSharedHistory, WorkerOf, ConvOf
<1>3. ASSUME NEW r \in Requests, GetCachedHistory(r)
      PROVE  OneSharedHistory'
  BY <1>0, <1>3 DEF GetCachedHistory, OneSharedHistory, TypeOK, WorkerOf, ConvOf
<1>4. ASSUME NEW r \in Requests, LoadHistory(r)
      PROVE  OneSharedHistory'
  <2>1. PICK w \in Workers, c \in Conversations : w = WorkerOf(r) /\ c = ConvOf(r)
    BY <1>0, <1>4, CallOf DEF LoadHistory
  <2>2. store[w][c] = None /\ store' = [store EXCEPT ![w][c] = r]
    BY <1>4, <2>1, LoadEvictsNothing
  <2>3. /\ list' = [list EXCEPT ![r] = r]
        /\ pc' = [pc EXCEPT ![r] = "llm"]
        /\ call' = call
    BY <1>4 DEF LoadHistory
  <2> SUFFICES ASSUME NEW q \in Requests, pc'[q] \in Answering
               PROVE  list'[q] = store'[WorkerOf(q)'][ConvOf(q)']
    BY DEF OneSharedHistory
  <2>4. WorkerOf(q)' = WorkerOf(q) /\ ConvOf(q)' = ConvOf(q)
    BY <2>3 DEF WorkerOf, ConvOf
  <2>5. CASE q = r
    <3>1. list'[q] = r /\ store'[w][c] = r
      BY <1>0, <2>2, <2>3, <2>5 DEF TypeOK
    <3> QED
      BY <2>1, <2>4, <2>5, <3>1
  <2>6. CASE q # r
    <3>1. pc[q] \in Answering /\ pc[q] # "idle" /\ list'[q] = list[q]
      BY <1>0, <2>3, <2>6 DEF TypeOK, Answering
    <3>2. list[q] = store[WorkerOf(q)][ConvOf(q)] /\ list[q] # None
      BY <1>0, <3>1, NoneAssumption DEF OneSharedHistory, ListInv
    <3>3. WorkerOf(q) \in Workers /\ ConvOf(q) \in Conversations
      BY <1>0, <3>1, CallOf
    <3>4. store'[WorkerOf(q)][ConvOf(q)] = store[WorkerOf(q)][ConvOf(q)]
      BY <1>0, <2>2, <3>2, <3>3 DEF TypeOK
    <3> QED
      BY <2>4, <3>1, <3>2, <3>4
  <2> QED
    BY <2>5, <2>6
<1>5. ASSUME NEW w \in Workers, Restart(w)
      PROVE  OneSharedHistory'
  <2>1. /\ store' = [store EXCEPT ![w] = [c \in Conversations |-> None]]
        /\ UNCHANGED <<list, call>>
        /\ pc' = [q \in Requests |-> IF InFlight(q) /\ WorkerOf(q) = w
                                     THEN "failed" ELSE pc[q]]
    BY <1>5 DEF Restart
  <2> SUFFICES ASSUME NEW q \in Requests, pc'[q] \in Answering
               PROVE  list'[q] = store'[WorkerOf(q)'][ConvOf(q)']
    BY DEF OneSharedHistory
  <2>2. pc[q] \in Answering /\ ~(InFlight(q) /\ WorkerOf(q) = w)
    BY <2>1 DEF Answering, InFlight
  <2>3. WorkerOf(q) # w /\ WorkerOf(q) \in Workers
    BY <1>0, <2>2, CallOf DEF InFlight, Answering
  <2>4. list[q] = store[WorkerOf(q)][ConvOf(q)]
    BY <2>2 DEF OneSharedHistory
  <2>5. store'[WorkerOf(q)] = store[WorkerOf(q)]
    BY <1>0, <2>1, <2>3 DEF TypeOK
  <2>6. WorkerOf(q)' = WorkerOf(q) /\ ConvOf(q)' = ConvOf(q)
    BY <2>1 DEF WorkerOf, ConvOf
  <2> QED
    BY <2>1, <2>4, <2>5, <2>6
<1>6. CASE UNCHANGED vars
  BY <1>6 DEF vars, cacheVars, requestVars, OneSharedHistory, WorkerOf, ConvOf
<1> QED
  BY <1>1, <1>2, <1>3, <1>4, <1>5, <1>6 DEF Next, Advance

(* Whatever the number of workers, all the requests that a worker is       *)
(* answering for a conversation append to its one cached history, provided *)
(* the cache can hold every conversation: _store_lock never lets a second  *)
(* load replace the list that a running request holds.                     *)
THEOREM SharedHistory ==
    ASSUME CacheHoldsAll
    PROVE  Spec => []OneSharedHistory
<1>1. Init => OneSharedHistory
  BY DEF Init, OneSharedHistory, Answering
<1>2. BaseInv /\ OneSharedHistory /\ [Next]_vars => OneSharedHistory'
  BY SharedStep
<1> QED
  BY <1>1, <1>2, BaseInvariant, PTL DEF Spec

-----------------------------------------------------------------------------
(* No saved answer is forgotten, when one worker never evicts *)

(* Fewer rows show fewer answers. *)
LEMMA AnswersShrink ==
    ASSUME NEW rows, NEW more, NEW c,
           rows.sessions \subseteq more.sessions,
           rows.messages \subseteq more.messages
    PROVE  Answers(rows, c) \subseteq Answers(more, c)
BY DEF Answers, VisibleTurns, SessionsOf

(* Saving a message shows no other turn than that message: the session it  *)
(* is saved in is the conversation's, and a session that it creates has no *)
(* older messages.                                                         *)
LEMMA VisibleAfterSave ==
    ASSUME TypeOK, DatabaseInv, NEW r \in Requests, call[r] \in Call,
           NEW role \in Roles, NEW hide \in BOOLEAN, SaveMessage(r, role, hide),
           NEW c \in Conversations, NEW t \in VisibleTurns(db', c)
    PROVE  \/ t \in VisibleTurns(db, c)
           \/ t = [req |-> r, role |-> role] /\ c = ConvOf(r)
<1>1. PICK id \in SessionId, n \in Nat : AddsRow(r, role, hide, id, n)
  BY SaveMessageAdds
<1>2. /\ \/ id = <<r, role>>
         \/ [id |-> id, conv |-> ConvOf(r)] \in db.sessions
      /\ db' = [sessions |-> db.sessions \cup {[id |-> id, conv |-> ConvOf(r)]},
                messages |-> db.messages \cup
                  {[session |-> id, order |-> n,
                    turn |-> [req |-> r, role |-> role], hide |-> hide]}]
  BY <1>1 DEF AddsRow
<1>3. PICK m \in db'.messages, s \in db'.sessions :
        m.session = s.id /\ s.conv = c /\ ~m.hide /\ t = m.turn
  BY DEF VisibleTurns, SessionsOf
<1>4. s.conv = ConvOf(s.id[1])
  <2>1. CASE s \in db.sessions
    BY <2>1 DEF DatabaseInv
  <2>2. CASE s = [id |-> id, conv |-> ConvOf(r)]
    <3>1. id = <<r, role>> => id[1] = r
      OBVIOUS
    <3> QED
      BY <1>2, <2>2, <3>1 DEF DatabaseInv
  <2> QED
    BY <1>2, <2>1, <2>2
<1>5. ConvOf(id[1]) = ConvOf(r)
  <2>1. id = <<r, role>> => id[1] = r
    OBVIOUS
  <2> QED
    BY <1>2, <2>1 DEF DatabaseInv
<1>6. CASE m \in db.messages
  <2>1. PICK s2 \in db.sessions : m.session = s2.id
    BY <1>6 DEF DatabaseInv
  <2>2. s2.conv = c
    BY <1>3, <1>4, <2>1 DEF DatabaseInv
  <2>3. t \in VisibleTurns(db, c)
    BY <1>3, <1>6, <2>1, <2>2 DEF VisibleTurns, SessionsOf
  <2> QED
    BY <2>3
<1>7. CASE m = [session |-> id, order |-> n,
                turn |-> [req |-> r, role |-> role], hide |-> hide]
  <2>1. t = [req |-> r, role |-> role] /\ s.id = id
    BY <1>3, <1>7
  <2> QED
    BY <1>3, <1>4, <1>5, <2>1
<1> QED
  BY <1>2, <1>3, <1>6, <1>7

(* So with the answers it shows. *)
LEMMA AnswersAfterSave ==
    ASSUME TypeOK, DatabaseInv, NEW r \in Requests, call[r] \in Call,
           NEW role \in Roles, NEW hide \in BOOLEAN, SaveMessage(r, role, hide),
           NEW c \in Conversations, NEW t \in Answers(db', c)
    PROVE  \/ t \in Answers(db, c)
           \/ /\ t = [req |-> r, role |-> role]
              /\ role = "assistant"
              /\ c = ConvOf(r)
<1>1. t \in VisibleTurns(db', c) /\ t.role = "assistant"
  BY DEF Answers
<1>2. \/ t \in VisibleTurns(db, c)
      \/ t = [req |-> r, role |-> role] /\ c = ConvOf(r)
  <2> HIDE DEF TypeOK, DatabaseInv, SaveMessage
  <2> QED
    BY <1>1, VisibleAfterSave
<1> QED
  BY <1>1, <1>2 DEF Answers

(* Saving a message keeps every message in a session of its conversation.  *)
LEMMA DatabaseAfterSave ==
    ASSUME TypeOK, DatabaseInv, NEW r \in Requests, call[r] \in Call,
           NEW role \in Roles, NEW hide \in BOOLEAN, SaveMessage(r, role, hide),
           call' = call, \A q \in Requests : pc[q] # "idle" => pc'[q] # "idle",
           pc[r] # "idle"
    PROVE  DatabaseInv'
<1>1. PICK id \in SessionId, n \in Nat : AddsRow(r, role, hide, id, n)
  BY SaveMessageAdds
<1>2. /\ \/ id = <<r, role>>
         \/ [id |-> id, conv |-> ConvOf(r)] \in db.sessions
      /\ db' = [sessions |-> db.sessions \cup {[id |-> id, conv |-> ConvOf(r)]},
                messages |-> db.messages \cup
                  {[session |-> id, order |-> n,
                    turn |-> [req |-> r, role |-> role], hide |-> hide]}]
  BY <1>1 DEF AddsRow
<1>3. ASSUME NEW m \in db'.messages
      PROVE  \E s \in db'.sessions : m.session = s.id
  <2>1. CASE m \in db.messages
    BY <1>2, <2>1 DEF DatabaseInv
  <2>2. CASE m = [session |-> id, order |-> n,
                  turn |-> [req |-> r, role |-> role], hide |-> hide]
    <3>1. [id |-> id, conv |-> ConvOf(r)] \in db'.sessions
      BY <1>2
    <3> QED
      BY <2>2, <3>1
  <2> QED
    BY <1>2, <2>1, <2>2
<1>4. ASSUME NEW s \in db'.sessions
      PROVE  pc'[s.id[1]] # "idle" /\ s.conv = ConvOf(s.id[1])'
  <2>1. s.id[1] \in Requests /\ pc[s.id[1]] # "idle" /\ s.conv = ConvOf(s.id[1])
    <3>1. CASE s \in db.sessions
      BY <3>1 DEF DatabaseInv, TypeOK, Database, SessionRow, SessionId
    <3>2. CASE s = [id |-> id, conv |-> ConvOf(r)] /\ id = <<r, role>>
      BY <3>2
    <3> QED
      BY <1>2, <3>1, <3>2
  <2> QED
    BY <2>1 DEF ConvOf
<1> QED
  BY <1>3, <1>4 DEF DatabaseInv

(* When the rows stay, so does what is known of them. *)
LEMMA DatabaseUnchanged ==
    ASSUME TypeOK, DatabaseInv, db' = db,
           \A q \in Requests : pc[q] # "idle" => pc'[q] # "idle" /\ call'[q] = call[q]
    PROVE  DatabaseInv'
<1>1. \A s \in db.sessions : s.id[1] \in Requests
  BY DEF TypeOK, Database, SessionRow, SessionId
<1> QED
  BY <1>1 DEF DatabaseInv, ConvOf

(* Every step keeps the answers: the loaded history shows them all, the    *)
(* lock keeps the key missing until then, and an answer is recorded before *)
(* it is saved.                                                            *)
LEMMA AnswersStep ==
    ASSUME CacheHoldsAll, OneWorker, AnswersInv, [Next]_vars
    PROVE  DatabaseInv' /\ RecordedInv' /\ SnapshotInv' /\ NoAnswerForgotten'
<1>0. /\ TypeOK /\ CallInv /\ LockInv /\ ListInv /\ OneSharedHistory
      /\ DatabaseInv /\ RecordedInv /\ SnapshotInv /\ NoAnswerForgotten
      /\ BaseInv
  BY DEF AnswersInv, BaseInv
<1> DEFINE Goal == DatabaseInv' /\ RecordedInv' /\ SnapshotInv' /\ NoAnswerForgotten'
<1>1. ASSUME NEW r \in Requests, NEW o \in Ops, NEW c \in Conversations,
             NEW w \in Workers, Begin(r, o, c, w)
      PROVE  Goal
  <2>0. /\ UNCHANGED <<db, store, history, list>>
        /\ pc[r] = "idle" /\ pc'[r] \in {"wipe", "question"}
        /\ \A q \in Requests \ {r} :
             pc'[q] = pc[q] /\ call'[q] = call[q] /\ snap'[q] = snap[q]
    BY <1>0, <1>1 DEF Begin, TypeOK, cacheVars
  <2>1. DatabaseInv'
    BY <1>0, <2>0, DatabaseUnchanged
  <2>2. RecordedInv'
    BY <1>0, <2>0 DEF RecordedInv
  <2>3. SnapshotInv'
    BY <1>0, <2>0 DEF SnapshotInv, WorkerOf, ConvOf
  <2>4. NoAnswerForgotten'
    BY <1>0, <2>0 DEF NoAnswerForgotten
  <2> QED
    BY <2>1, <2>2, <2>3, <2>4
<1>2. ASSUME NEW r \in Requests, WipeHistory(r)
      PROVE  Goal
  <2>0. /\ UNCHANGED <<store, history, list, call>>
        /\ pc[r] = "wipe" /\ pc'[r] \in {"done", "question"}
        /\ \A q \in Requests \ {r} : pc'[q] = pc[q] /\ snap'[q] = snap[q]
    BY <1>0, <1>2 DEF WipeHistory, TypeOK, cacheVars
  <2>5. PICK ids :
          \/ db' = db
          \/ db' = [sessions |-> {s \in db.sessions : s.id \notin ids},
                    messages |-> {m \in db.messages : m.session \notin ids}]
    <3> DEFINE ids == {s.id : s \in SessionsOf(View(r), ConvOf(r))}
               gone == {m \in db.messages : m.session \in ids}
    <3>1. \/ db' = db
          \/ db' = [sessions |-> {s \in db.sessions : s.id \notin ids},
                    messages |-> db.messages \ gone]
      BY <1>2 DEF WipeHistory
    <3>2. db.messages \ gone = {m \in db.messages : m.session \notin ids}
      OBVIOUS
    <3> QED
      BY <3>1, <3>2
  <2>6. db'.sessions \subseteq db.sessions /\ db'.messages \subseteq db.messages
    BY <2>5
  <2>7. \A c : Answers(db', c) \subseteq Answers(db, c)
    BY <2>6, AnswersShrink
  <2>1. DatabaseInv'
    <3>1. \A s \in db.sessions : s.id[1] \in Requests
      BY <1>0 DEF TypeOK, Database, SessionRow, SessionId
    <3>2. \A s \in db'.sessions : pc'[s.id[1]] # "idle" /\ s.conv = ConvOf(s.id[1])'
      BY <1>0, <2>0, <2>6, <3>1 DEF DatabaseInv, ConvOf
    <3>3. \A m \in db'.messages : \E s \in db'.sessions : m.session = s.id
      BY <1>0, <2>5 DEF DatabaseInv
    <3> QED
      BY <3>2, <3>3 DEF DatabaseInv
  <2>2. RecordedInv'
    BY <1>0, <2>0 DEF RecordedInv
  <2>3. SnapshotInv'
    BY <1>0, <2>0, <2>7 DEF SnapshotInv, WorkerOf, ConvOf
  <2>4. NoAnswerForgotten'
    BY <1>0, <2>0, <2>7 DEF NoAnswerForgotten
  <2> QED
    BY <2>1, <2>2, <2>3, <2>4
<1>3. ASSUME NEW r \in Requests, SaveQuestion(r)
      PROVE  Goal
  <2>0. /\ UNCHANGED <<store, history, list, call>>
        /\ pc[r] = "question" /\ pc'[r] = "prompt" /\ snap'[r] = None
        /\ \A q \in Requests \ {r} : pc'[q] = pc[q] /\ snap'[q] = snap[q]
    BY <1>0, <1>3 DEF SaveQuestion, SaveMessage, TypeOK, cacheVars
  <2>5. /\ call[r] \in Call /\ Hidden(r) \in BOOLEAN /\ "user" \in Roles
        /\ SaveMessage(r, "user", Hidden(r))
    BY <1>0, <1>3 DEF SaveQuestion, CallInv, Hidden, Roles
  <2>6. PICK h \in BOOLEAN : h = Hidden(r)
    BY <2>5
  <2>8. SaveMessage(r, "user", h)
    BY <2>5, <2>6
  <2> HIDE DEF SaveMessage
  <2>7. \A c \in Conversations : Answers(db', c) \subseteq Answers(db, c)
    BY <1>0, <2>5, <2>8, AnswersAfterSave
  <2>1. DatabaseInv'
    BY <1>0, <2>0, <2>5, <2>8, DatabaseAfterSave
  <2>2. RecordedInv'
    BY <1>0, <2>0 DEF RecordedInv
  <2>3. SnapshotInv'
    BY <1>0, <2>0, <2>7, CallOf DEF SnapshotInv, WorkerOf, ConvOf
  <2>4. NoAnswerForgotten'
    BY <1>0, <2>0, <2>7 DEF NoAnswerForgotten
  <2> QED
    BY <2>1, <2>2, <2>3, <2>4
<1>4. ASSUME NEW r \in Requests, ReadPrompt(r)
      PROVE  Goal
  <2>0. /\ UNCHANGED <<db, store, history, list, call>>
        /\ pc[r] = "prompt" /\ pc'[r] = "history" /\ snap'[r] = View(r)
        /\ \A q \in Requests \ {r} : pc'[q] = pc[q] /\ snap'[q] = snap[q]
    BY <1>0, <1>4 DEF ReadPrompt, TypeOK, cacheVars
  <2>5. snap'[r] = db /\ db \in Database
    BY <1>0, <2>0 DEF SnapshotInv, View, TypeOK
  <2>1. DatabaseInv'
    BY <1>0, <2>0, DatabaseUnchanged
  <2>2. RecordedInv'
    BY <1>0, <2>0 DEF RecordedInv
  <2>3. SnapshotInv'
    BY <1>0, <2>0, <2>5 DEF SnapshotInv, WorkerOf, ConvOf
  <2>4. NoAnswerForgotten'
    BY <1>0, <2>0 DEF NoAnswerForgotten
  <2> QED
    BY <2>1, <2>2, <2>3, <2>4
<1>5. ASSUME NEW r \in Requests, GetCachedHistory(r) \/ MissHistory(r) \/ Fail(r)
      PROVE  Goal
  <2>0. /\ UNCHANGED <<db, store, history, call>>
        /\ pc[r] # "idle" /\ pc'[r] \in {"llm", "loading", "failed"}
        /\ pc'[r] = "loading" => pc[r] = "history" /\ snap'[r] = snap[r]
        /\ \A q \in Requests \ {r} :
             pc'[q] = pc[q] /\ snap'[q] = snap[q] /\ list'[q] = list[q]
    BY <1>0, <1>5 DEF GetCachedHistory, MissHistory, Fail, TypeOK, InFlight
  <2>1. DatabaseInv'
    BY <1>0, <2>0, DatabaseUnchanged
  <2>2. RecordedInv'
    BY <1>0, <2>0 DEF RecordedInv
  <2>3. SnapshotInv'
    BY <1>0, <2>0 DEF SnapshotInv, WorkerOf, ConvOf
  <2>4. NoAnswerForgotten'
    BY <1>0, <2>0 DEF NoAnswerForgotten
  <2> QED
    BY <2>1, <2>2, <2>3, <2>4
<1>6. ASSUME NEW r \in Requests, LoadHistory(r)
      PROVE  Goal
  <2>5. PICK w \in Workers, c \in Conversations : w = WorkerOf(r) /\ c = ConvOf(r)
    BY <1>0, <1>6, CallOf DEF LoadHistory
  <2>6. store[w][c] = None /\ store' = [store EXCEPT ![w][c] = r]
    BY <1>0, <1>6, <2>5, LoadEvictsNothing
  <2>0. /\ UNCHANGED <<db, call, snap>>
        /\ pc[r] = "loading" /\ pc'[r] = "llm"
        /\ history'[r] = VisibleTurns(View(r), c)
        /\ \A q \in Requests \ {r} :
             pc'[q] = pc[q] /\ list'[q] = list[q] /\ history'[q] = history[q]
    BY <1>0, <1>6, <2>5 DEF LoadHistory, TypeOK
  <2>7. \A v \in Workers, d \in Conversations :
          store[v][d] # None => store[v][d] \in Requests \ {r}
    <3>1. \A v \in Workers, d \in Conversations : store[v][d] \in Requests \cup {None}
      BY <1>0 DEF TypeOK
    <3>2. pc[r] \notin Answering \cup Ended
      BY <2>0 DEF Answering, Ended
    <3> QED
      BY <1>0, <3>1, <3>2 DEF ListInv
  <2>8. Answers(db, c) \subseteq history'[r]
    <3>1. Answers(db, c) \subseteq Answers(snap[r], c) /\ snap[r] \in Database
      BY <1>0, <2>0, <2>5, <2>6 DEF SnapshotInv
    <3>2. View(r) = snap[r]
      BY <3>1, NoneAssumption DEF View
    <3> QED
      BY <2>0, <3>1, <3>2 DEF Answers
  <2>9. \A v \in Workers, d \in Conversations :
          store'[v][d] = IF v = w /\ d = c THEN r ELSE store[v][d]
    BY <1>0, <2>6 DEF TypeOK
  <2>1. DatabaseInv'
    BY <1>0, <2>0, DatabaseUnchanged
  <2>2. RecordedInv'
    <3> SUFFICES ASSUME NEW q \in Requests, pc'[q] = "answer"
                 PROVE  [req |-> q, role |-> "assistant"] \in history'[list'[q]]
      BY DEF RecordedInv
    <3>1. q # r /\ pc[q] = "answer" /\ list'[q] = list[q]
      BY <2>0
    <3>2. list[q] = store[WorkerOf(q)][ConvOf(q)] /\ list[q] \in Requests
      BY <1>0, <3>1 DEF OneSharedHistory, ListInv, Answering
    <3>3. WorkerOf(q) \in Workers /\ ConvOf(q) \in Conversations
      BY <1>0, <3>1, CallOf
    <3>4. list[q] \in Requests \ {r}
      BY <2>7, <3>2, <3>3, NoneAssumption
    <3> QED
      BY <1>0, <2>0, <3>1, <3>4 DEF RecordedInv
  <2>3. SnapshotInv'
    <3> SUFFICES ASSUME NEW q \in Requests
                 PROVE  /\ pc'[q] = "prompt" => snap'[q] = None
                        /\ pc'[q] \in {"history", "loading"} =>
                             /\ snap'[q] \in Database
                             /\ store'[WorkerOf(q)'][ConvOf(q)'] = None =>
                                  Answers(db', ConvOf(q)') \subseteq Answers(snap'[q], ConvOf(q)')
      BY DEF SnapshotInv
    <3>1. WorkerOf(q)' = WorkerOf(q) /\ ConvOf(q)' = ConvOf(q)
      BY <2>0 DEF WorkerOf, ConvOf
    <3>2. CASE pc'[q] = "prompt"
      BY <1>0, <2>0, <3>2 DEF SnapshotInv
    <3>3. CASE pc'[q] \in {"history", "loading"}
      <4>1. q # r /\ pc[q] = pc'[q] /\ snap'[q] = snap[q]
        BY <2>0, <3>3
      <4>2. WorkerOf(q) \in Workers /\ ConvOf(q) \in Conversations
        BY <1>0, <3>3, <4>1, CallOf
      <4>3. store'[WorkerOf(q)][ConvOf(q)] = None => store[WorkerOf(q)][ConvOf(q)] = None
        BY <2>9, <4>2, NoneAssumption
      <4> QED
        BY <1>0, <2>0, <3>1, <3>3, <4>1, <4>3 DEF SnapshotInv
    <3> QED
      BY <3>2, <3>3
  <2>4. NoAnswerForgotten'
    <3> SUFFICES ASSUME NEW v \in Workers, NEW d \in Conversations, store'[v][d] # None
                 PROVE  Answers(db', d) \subseteq history'[store'[v][d]]
      BY DEF NoAnswerForgotten
    <3>1. CASE v = w /\ d = c
      BY <2>0, <2>8, <2>9, <3>1
    <3>2. CASE ~(v = w /\ d = c)
      <4>1. store'[v][d] = store[v][d] /\ store[v][d] \in Requests \ {r}
        BY <2>7, <2>9, <3>2
      <4> QED
        BY <1>0, <2>0, <4>1 DEF NoAnswerForgotten
    <3> QED
      BY <3>1, <3>2
  <2> QED
    BY <2>1, <2>2, <2>3, <2>4
<1>7. ASSUME NEW r \in Requests, RecordTurn(r)
      PROVE  Goal
  <2>0. /\ UNCHANGED <<db, store, list, call>>
        /\ pc[r] = "llm" /\ pc'[r] = "answer"
        /\ \A q \in Requests \ {r} : pc'[q] = pc[q] /\ snap'[q] = snap[q]
        /\ history' = [history EXCEPT ![list[r]] =
                         @ \cup {[req |-> r, role |-> role] : role \in Roles}]
    BY <1>0, <1>7 DEF RecordTurn, TypeOK
  <2>5. list[r] \in Requests
    BY <1>0, <2>0 DEF ListInv, Answering
  <2>6. \A l \in Requests : history[l] \subseteq history'[l]
    BY <1>0, <2>0, <2>5 DEF TypeOK
  <2>7. [req |-> r, role |-> "assistant"] \in history'[list[r]]
    BY <1>0, <2>0, <2>5 DEF TypeOK, Roles
  <2>1. DatabaseInv'
    BY <1>0, <2>0, DatabaseUnchanged
  <2>2. RecordedInv'
    <3> SUFFICES ASSUME NEW q \in Requests, pc'[q] = "answer"
                 PROVE  [req |-> q, role |-> "assistant"] \in history'[list'[q]]
      BY DEF RecordedInv
    <3>1. CASE q = r
      BY <2>0, <2>7, <3>1
    <3>2. CASE q # r
      <4>1. pc[q] = "answer" /\ list[q] \in Requests
        BY <1>0, <2>0, <3>2 DEF ListInv, Answering
      <4> QED
        BY <1>0, <2>0, <2>6, <4>1 DEF RecordedInv
    <3> QED
      BY <3>1, <3>2
  <2>3. SnapshotInv'
    BY <1>0, <2>0 DEF SnapshotInv, WorkerOf, ConvOf
  <2>4. NoAnswerForgotten'
    BY <1>0, <2>0, <2>6 DEF NoAnswerForgotten, TypeOK
  <2> QED
    BY <2>1, <2>2, <2>3, <2>4
<1>8. ASSUME NEW r \in Requests, SaveAnswer(r)
      PROVE  Goal
  <2>0. /\ UNCHANGED <<store, history, list, call>>
        /\ pc[r] = "answer" /\ pc'[r] = "done"
        /\ \A q \in Requests \ {r} : pc'[q] = pc[q] /\ snap'[q] = snap[q]
        /\ SaveMessage(r, "assistant", FALSE)
    BY <1>0, <1>8 DEF SaveAnswer, SaveMessage, TypeOK, cacheVars
  <2>5. call[r] \in Call /\ "assistant" \in Roles /\ FALSE \in BOOLEAN
    BY <1>0, <2>0 DEF CallInv, Roles
  <2> HIDE DEF SaveMessage
  <2>6. \A c \in Conversations : \A t \in Answers(db', c) :
          t \in Answers(db, c)
          \/ (t = [req |-> r, role |-> "assistant"] /\ c = ConvOf(r))
    BY <1>0, <2>0, <2>5, AnswersAfterSave
  <2>7. /\ WorkerOf(r) \in Workers /\ ConvOf(r) \in Conversations
        /\ list[r] = store[WorkerOf(r)][ConvOf(r)]
        /\ list[r] # None
        /\ [req |-> r, role |-> "assistant"] \in history[list[r]]
    BY <1>0, <2>0, CallOf, NoneAssumption
       DEF OneSharedHistory, ListInv, RecordedInv, Answering
  <2>1. DatabaseInv'
    BY <1>0, <2>0, <2>5, DatabaseAfterSave
  <2>2. RecordedInv'
    BY <1>0, <2>0 DEF RecordedInv
  <2>3. SnapshotInv'
    <3> SUFFICES ASSUME NEW q \in Requests
                 PROVE  /\ pc'[q] = "prompt" => snap'[q] = None
                        /\ pc'[q] \in {"history", "loading"} =>
                             /\ snap'[q] \in Database
                             /\ store'[WorkerOf(q)'][ConvOf(q)'] = None =>
                                  Answers(db', ConvOf(q)') \subseteq Answers(snap'[q], ConvOf(q)')
      BY DEF SnapshotInv
    <3>1. CASE pc'[q] = "prompt"
      BY <1>0, <2>0, <3>1 DEF SnapshotInv
    <3>2. CASE pc'[q] \in {"history", "loading"}
      <4>1. /\ q # r /\ pc[q] = pc'[q] /\ snap'[q] = snap[q]
            /\ WorkerOf(q)' = WorkerOf(q) /\ ConvOf(q)' = ConvOf(q)
        BY <2>0, <3>2 DEF WorkerOf, ConvOf
      <4>2. WorkerOf(q) \in Workers /\ ConvOf(q) \in Conversations
        BY <1>0, <3>2, <4>1, CallOf
      <4>3. WorkerOf(q) = WorkerOf(r)
        BY <2>7, <4>2 DEF OneWorker
      <4>4. store[WorkerOf(q)][ConvOf(q)] = None => ConvOf(q) # ConvOf(r)
        BY <2>7, <4>3
      <4>5. store[WorkerOf(q)][ConvOf(q)] = None =>
              Answers(db', ConvOf(q)) \subseteq Answers(db, ConvOf(q))
        BY <2>6, <4>2, <4>4
      <4> QED
        BY <1>0, <2>0, <3>2, <4>1, <4>5 DEF SnapshotInv
    <3> QED
      BY <3>1, <3>2
  <2>4. NoAnswerForgotten'
    <3> SUFFICES ASSUME NEW v \in Workers, NEW d \in Conversations, store[v][d] # None
                 PROVE  Answers(db', d) \subseteq history[store[v][d]]
      BY <2>0 DEF NoAnswerForgotten
    <3>1. Answers(db, d) \subseteq history[store[v][d]]
      BY <1>0 DEF NoAnswerForgotten
    <3>2. v = WorkerOf(r)
      BY <2>7 DEF OneWorker
    <3>3. CASE d = ConvOf(r)
      BY <2>6, <2>7, <3>1, <3>2, <3>3
    <3>4. CASE d # ConvOf(r)
      BY <2>6, <3>1, <3>4
    <3> QED
      BY <3>3, <3>4
  <2> QED
    BY <2>1, <2>2, <2>3, <2>4
<1>9. ASSUME NEW w \in Workers, Restart(w)
      PROVE  Goal
  <2>0. /\ UNCHANGED <<db, history, list, call>>
        /\ store'[w] = [c \in Conversations |-> None]
        /\ \A q \in Requests : pc'[q] = IF InFlight(q) /\ WorkerOf(q) = w
                                       THEN "failed" ELSE pc[q]
    BY <1>0, <1>9 DEF Restart, TypeOK
  <2>5. \A q \in Requests : pc'[q] \in {"idle", "done", "failed"}
    <3> SUFFICES ASSUME NEW q \in Requests, InFlight(q)
                 PROVE  pc'[q] = "failed"
      BY <2>0 DEF InFlight
    <3>1. WorkerOf(q) = w
      BY <1>0, CallOf DEF InFlight, OneWorker
    <3> QED
      BY <2>0, <3>1
  <2>6. \A q \in Requests : pc[q] # "idle" => pc'[q] # "idle"
    BY <2>0
  <2>1. DatabaseInv'
    BY <1>0, <2>0, <2>6, DatabaseUnchanged
  <2>2. RecordedInv' /\ SnapshotInv'
    BY <2>5 DEF RecordedInv, SnapshotInv
  <2>4. NoAnswerForgotten'
    BY <2>0 DEF NoAnswerForgotten, OneWorker
  <2> QED
    BY <2>1, <2>2, <2>4
<1>11. ASSUME NEW r \in Requests, OpenTransaction(r)
      PROVE  Goal
  <2>0. /\ UNCHANGED <<db, store, history, list, call, pc>>
        /\ pc[r] \in {"question", "answer"}
        /\ \A q \in Requests \ {r} : snap'[q] = snap[q]
    BY <1>0, <1>11 DEF OpenTransaction, TypeOK, cacheVars
  <2>1. DatabaseInv'
    BY <1>0, <2>0, DatabaseUnchanged
  <2>2. RecordedInv' /\ NoAnswerForgotten'
    BY <1>0, <2>0 DEF RecordedInv, NoAnswerForgotten
  <2>3. SnapshotInv'
    BY <1>0, <2>0 DEF SnapshotInv, WorkerOf, ConvOf
  <2> QED
    BY <2>1, <2>2, <2>3
<1>10. CASE UNCHANGED vars
  <2>0. UNCHANGED <<db, store, history, call, pc, snap, list>>
    BY <1>10 DEF vars, cacheVars, requestVars
  <2>1. DatabaseInv'
    BY <1>0, <2>0, DatabaseUnchanged
  <2>2. RecordedInv' /\ SnapshotInv' /\ NoAnswerForgotten'
    BY <1>0, <2>0 DEF RecordedInv, SnapshotInv, NoAnswerForgotten, WorkerOf, ConvOf
  <2> QED
    BY <2>1, <2>2
<1> QED
  BY <1>1, <1>2, <1>3, <1>4, <1>5, <1>6, <1>7, <1>8, <1>9, <1>10, <1>11
     DEF Next, Advance

(* On one worker whose cache can hold every conversation, an answer that   *)
(* the bot gave and that was saved is never missing from the history it is *)
(* given for the next question, whatever requests, failures, wipes and     *)
(* restarts come in between.                                               *)
THEOREM AnswersRemembered ==
    ASSUME CacheHoldsAll, OneWorker
    PROVE  Spec => []NoAnswerForgotten
<1>1. Init => AnswersInv
  <2> SUFFICES ASSUME Init PROVE AnswersInv
    OBVIOUS
  <2>1. BaseInv
    BY BaseInit
  <2>2. OneSharedHistory /\ RecordedInv /\ SnapshotInv /\ NoAnswerForgotten
    BY DEF Init, OneSharedHistory, RecordedInv, SnapshotInv, NoAnswerForgotten, Answering
  <2>3. DatabaseInv
    BY DEF Init, DatabaseInv
  <2> QED
    BY <2>1, <2>2, <2>3 DEF AnswersInv
<1>2. AnswersInv /\ [Next]_vars => AnswersInv'
  <2> SUFFICES ASSUME AnswersInv, [Next]_vars PROVE AnswersInv'
    OBVIOUS
  <2>1. BaseInv /\ OneSharedHistory
    BY DEF AnswersInv
  <2>2. BaseInv'
    BY <2>1, BaseStep
  <2>3. OneSharedHistory'
    BY <2>1, SharedStep
  <2>4. DatabaseInv' /\ RecordedInv' /\ SnapshotInv' /\ NoAnswerForgotten'
    BY AnswersStep
  <2> QED
    BY <2>2, <2>3, <2>4 DEF AnswersInv
<1>3. AnswersInv => NoAnswerForgotten
  BY DEF AnswersInv
<1> QED
  BY <1>1, <1>2, <1>3, PTL DEF Spec

-----------------------------------------------------------------------------
(* An answer comes after its question, however requests interleave *)

BeforeQuestion == {"idle", "wipe", "question"}
AfterQuestion == {"prompt", "history", "loading"} \cup Answering

(* What the steps have in common that save and delete no message. *)
Quiet ==
    /\ UNCHANGED <<db, call>>
    /\ \A q \in Requests :
         /\ \/ pc'[q] = pc[q]
            \/ pc[q] \in AfterQuestion /\ pc'[q] \in AfterQuestion
            \/ InFlight(q) /\ pc'[q] = "failed"
         /\ snap'[q] \in {snap[q], None, db}

(* A step begins a request, changes the rows, or leaves rows and calls     *)
(* alone.                                                                  *)
LEMMA StepKinds ==
    ASSUME BaseInv, [Next]_vars
    PROVE  \/ \E r \in Requests, o \in Ops, c \in Conversations, w \in Workers :
                Begin(r, o, c, w)
           \/ \E r \in Requests : WipeHistory(r)
           \/ \E r \in Requests : SaveQuestion(r)
           \/ \E r \in Requests : SaveAnswer(r)
           \/ Quiet
<1>0. TypeOK
  BY DEF BaseInv
<1>1. ASSUME NEW r \in Requests, OpenTransaction(r) \/ ReadPrompt(r)
      PROVE  Quiet
  BY <1>0, <1>1 DEF OpenTransaction, ReadPrompt, View, TypeOK, Quiet, AfterQuestion, cacheVars
<1>2. ASSUME NEW r \in Requests, GetCachedHistory(r) \/ MissHistory(r) \/ LoadHistory(r)
      PROVE  Quiet
  <2>1. /\ UNCHANGED <<db, call, snap>>
        /\ pc[r] \in {"history", "loading"}
        /\ pc' \in {[pc EXCEPT ![r] = "llm"], [pc EXCEPT ![r] = "loading"]}
    BY <1>2 DEF GetCachedHistory, MissHistory, LoadHistory
  <2> QED
    BY <1>0, <2>1 DEF TypeOK, Quiet, AfterQuestion, Answering
<1>3. ASSUME NEW r \in Requests, RecordTurn(r)
      PROVE  Quiet
  BY <1>0, <1>3 DEF RecordTurn, TypeOK, Quiet, AfterQuestion, Answering
<1>4. ASSUME NEW r \in Requests, Fail(r)
      PROVE  Quiet
  BY <1>0, <1>4 DEF Fail, TypeOK, Quiet
<1>5. ASSUME NEW w \in Workers, Restart(w)
      PROVE  Quiet
  <2>1. /\ UNCHANGED <<db, call>>
        /\ \A q \in Requests :
             /\ pc'[q] = pc[q] \/ (InFlight(q) /\ pc'[q] = "failed")
             /\ snap'[q] \in {snap[q], None}
    BY <1>5 DEF Restart
  <2> QED
    BY <2>1 DEF Quiet
<1>6. CASE UNCHANGED vars
  BY <1>6 DEF vars, requestVars, Quiet
<1> QED
  BY <1>1, <1>2, <1>3, <1>4, <1>5, <1>6 DEF Next, Advance

(* What saving a question or an answer does: the one row it adds, and where *)
(* the request goes on.                                                     *)
LEMMA SaveSteps ==
    ASSUME BaseInv, NEW r \in Requests, SaveQuestion(r) \/ SaveAnswer(r)
    PROVE  \E role \in Roles, hide \in BOOLEAN, id \in SessionId, n \in Nat :
              /\ SaveMessage(r, role, hide)
              /\ Saves(r, role, hide, id, n)
              /\ call[r] \in Call /\ call' = call
              /\ snap' = [snap EXCEPT ![r] = None]
              /\ \/ /\ role = "user" /\ pc[r] = "question"
                    /\ pc' = [pc EXCEPT ![r] = "prompt"]
                 \/ /\ role = "assistant" /\ pc[r] = "answer" /\ ~hide
                    /\ pc' = [pc EXCEPT ![r] = "done"]
<1>0. TypeOK /\ CallInv
  BY DEF BaseInv
<1>1. PICK role \in Roles, hide \in BOOLEAN :
        /\ SaveMessage(r, role, hide)
        /\ call[r] \in Call /\ call' = call
        /\ \/ /\ role = "user" /\ pc[r] = "question"
              /\ pc' = [pc EXCEPT ![r] = "prompt"]
           \/ /\ role = "assistant" /\ pc[r] = "answer" /\ ~hide
              /\ pc' = [pc EXCEPT ![r] = "done"]
  <2>1. "user" \in Roles /\ "assistant" \in Roles /\ Hidden(r) \in BOOLEAN
    BY DEF Roles, Hidden
  <2>2. pc[r] # "idle" => call[r] \in Call
    BY <1>0 DEF CallInv
  <2>3. CASE SaveQuestion(r)
    <3>1. /\ SaveMessage(r, "user", Hidden(r))
          /\ pc[r] = "question" /\ call' = call
          /\ pc' = [pc EXCEPT ![r] = "prompt"]
      BY <2>3 DEF SaveQuestion
    <3> HIDE DEF SaveMessage, Hidden
    <3> QED
      BY <2>1, <2>2, <3>1
  <2>4. CASE SaveAnswer(r)
    <3>1. /\ SaveMessage(r, "assistant", FALSE)
          /\ pc[r] = "answer" /\ call' = call
          /\ pc' = [pc EXCEPT ![r] = "done"]
      BY <2>4 DEF SaveAnswer
    <3> HIDE DEF SaveMessage
    <3> QED
      BY <2>1, <2>2, <3>1
  <2> QED
    BY <2>3, <2>4
<1> HIDE DEF SaveMessage, SaveQuestion, SaveAnswer
<1>2. /\ \E id \in SessionId, n \in Nat : Saves(r, role, hide, id, n)
      /\ snap' = [snap EXCEPT ![r] = None]
  BY <1>0, <1>1, SaveMessageSaves
<1> QED
  BY <1>1, <1>2

(* Every message keeps its session, every session its conversation. *)
LEMMA DatabaseStep ==
    ASSUME BaseInv, DatabaseInv, [Next]_vars
    PROVE  DatabaseInv'
<1>0. TypeOK
  BY DEF BaseInv
<1>1. ASSUME NEW r \in Requests, NEW o \in Ops, NEW c \in Conversations,
             NEW w \in Workers, Begin(r, o, c, w)
      PROVE  DatabaseInv'
  <2>1. db' = db
    BY <1>1 DEF Begin
  <2>2. \A q \in Requests : pc[q] # "idle" => pc'[q] # "idle" /\ call'[q] = call[q]
    BY <1>0, <1>1 DEF Begin, TypeOK
  <2> QED
    BY <1>0, <2>1, <2>2, DatabaseUnchanged
<1>2. ASSUME NEW r \in Requests, WipeHistory(r)
      PROVE  DatabaseInv'
  <2> DEFINE ids == {s.id : s \in SessionsOf(View(r), ConvOf(r))}
  <2>1. /\ call' = call
        /\ \A q \in Requests : pc[q] # "idle" => pc'[q] # "idle"
    BY <1>0, <1>2 DEF WipeHistory, TypeOK
  <2>2. \/ db' = db
        \/ db' = [sessions |-> {s \in db.sessions : s.id \notin ids},
                  messages |-> {m \in db.messages : m.session \notin ids}]
    <3>1. db.messages \ {m \in db.messages : m.session \in ids}
            = {m \in db.messages : m.session \notin ids}
      OBVIOUS
    <3> QED
      BY <1>2, <3>1 DEF WipeHistory
  <2>3. \A s \in db.sessions : s.id[1] \in Requests
    BY <1>0 DEF TypeOK, Database, SessionRow, SessionId
  <2> HIDE DEF ids
  <2>4. \A s \in db'.sessions : pc'[s.id[1]] # "idle" /\ s.conv = ConvOf(s.id[1])'
    BY <2>1, <2>2, <2>3 DEF DatabaseInv, ConvOf
  <2>5. \A m \in db'.messages : \E s \in db'.sessions : m.session = s.id
    BY <2>2 DEF DatabaseInv
  <2> QED
    BY <2>4, <2>5 DEF DatabaseInv
<1>3. ASSUME NEW r \in Requests, SaveQuestion(r) \/ SaveAnswer(r)
      PROVE  DatabaseInv'
  <2>1. PICK role \in Roles, hide \in BOOLEAN :
          /\ SaveMessage(r, role, hide)
          /\ call[r] \in Call /\ call' = call
          /\ pc[r] # "idle"
          /\ \A q \in Requests : pc[q] # "idle" => pc'[q] # "idle"
    <3>1. \E role \in Roles, hide \in BOOLEAN :
             /\ SaveMessage(r, role, hide)
             /\ call[r] \in Call /\ call' = call
             /\ pc[r] \in {"question", "answer"}
             /\ pc' \in {[pc EXCEPT ![r] = "prompt"], [pc EXCEPT ![r] = "done"]}
      <4> HIDE DEF SaveMessage, SaveQuestion, SaveAnswer
      <4> QED
        BY <1>3, SaveSteps
    <3> HIDE DEF SaveMessage
    <3> QED
      BY <1>0, <3>1 DEF TypeOK
  <2> HIDE DEF SaveMessage
  <2> QED
    BY <1>0, <2>1, DatabaseAfterSave
<1>4. CASE Quiet
  <2>1. \A q \in Requests : pc[q] # "idle" => pc'[q] # "idle" /\ call'[q] = call[q]
    BY <1>4 DEF Quiet, InFlight, AfterQuestion, Answering
  <2>2. db' = db
    BY <1>4 DEF Quiet
  <2> QED
    BY <1>0, <2>1, <2>2, DatabaseUnchanged
<1> QED
  BY <1>1, <1>2, <1>3, <1>4, StepKinds

(* Turns and sessions are those of requests that have come so far, and a   *)
(* request that has saved its question and reads in a transaction sees the *)
(* question in it, as long as it is stored.                                *)
TurnsInv ==
    /\ \A m \in db.messages :
         /\ m.turn.role = "user" => pc[m.turn.req] \notin BeforeQuestion
         /\ m.turn.role = "assistant" => pc[m.turn.req] = "done"
    /\ \A s \in db.sessions : s.id[2] = "assistant" => pc[s.id[1]] = "done"
    /\ \A r \in Requests : pc[r] \in AfterQuestion /\ snap[r] # None =>
         \A m \in db.messages :
            m.turn = [req |-> r, role |-> "user"] => m \in snap[r].messages

(* What a stored message is made of. *)
LEMMA MessageFields ==
    ASSUME TypeOK, NEW m \in db.messages
    PROVE  /\ m \in MessageRow
           /\ m.session \in SessionId /\ m.session[1] \in Requests
           /\ m.turn \in Turn /\ m.turn.req \in Requests /\ m.turn.role \in Roles
           /\ m.order \in Nat
BY DEF TypeOK, Database, MessageRow, SessionId, Turn

(* A wipe deletes messages and adds none. *)
LEMMA WipeShrinks ==
    ASSUME TypeOK, NEW r \in Requests, WipeHistory(r)
    PROVE  /\ db'.messages \subseteq db.messages
           /\ db'.sessions \subseteq db.sessions
BY DEF WipeHistory, TypeOK, Database

(* A step that adds no row keeps it, unless a request goes on or reads. *)
LEMMA TurnsKept ==
    ASSUME TypeOK, TurnsInv,
           db'.messages \subseteq db.messages, db'.sessions \subseteq db.sessions,
           \A q \in Requests : pc[q] \notin BeforeQuestion => pc'[q] = pc[q],
           \A q \in Requests : pc'[q] \in AfterQuestion =>
              pc[q] = pc'[q] /\ snap'[q] = snap[q]
    PROVE  TurnsInv'
<1>1. \A s \in db.sessions : s.id[1] \in Requests
  BY DEF TypeOK, Database, SessionRow, SessionId
<1>2. "done" \notin BeforeQuestion
  BY DEF BeforeQuestion
<1> QED
  BY <1>1, <1>2, MessageFields DEF TurnsInv

(* Which turns of a request are stored depends on the step it is at, after *)
(* every step.                                                             *)
LEMMA TurnsStep ==
    ASSUME BaseInv, DatabaseInv, TurnsInv, [Next]_vars
    PROVE  TurnsInv'
<1>0. TypeOK
  BY DEF BaseInv
<1>1. ASSUME NEW r \in Requests, NEW o \in Ops, NEW c \in Conversations,
             NEW w \in Workers, Begin(r, o, c, w)
      PROVE  TurnsInv'
  <2>1. /\ db' = db
        /\ pc[r] = "idle" /\ pc'[r] \in {"wipe", "question"}
        /\ \A q \in Requests \ {r} : pc'[q] = pc[q] /\ snap'[q] = snap[q]
    BY <1>0, <1>1 DEF Begin, TypeOK
  <2>2. \A q \in Requests : pc[q] \notin BeforeQuestion => pc'[q] = pc[q]
    BY <2>1 DEF BeforeQuestion
  <2>3. \A q \in Requests : pc'[q] \in AfterQuestion => pc[q] = pc'[q] /\ snap'[q] = snap[q]
    BY <2>1 DEF AfterQuestion, Answering
  <2> QED
    BY <1>0, <2>1, <2>2, <2>3, TurnsKept
<1>2. ASSUME NEW r \in Requests, WipeHistory(r)
      PROVE  TurnsInv'
  <2>1. /\ pc[r] = "wipe" /\ pc'[r] \in {"question", "done"}
        /\ \A q \in Requests \ {r} : pc'[q] = pc[q] /\ snap'[q] = snap[q]
    BY <1>0, <1>2 DEF WipeHistory, TypeOK
  <2>2. db'.messages \subseteq db.messages /\ db'.sessions \subseteq db.sessions
    BY <1>0, <1>2, WipeShrinks
  <2>3. \A q \in Requests : pc[q] \notin BeforeQuestion => pc'[q] = pc[q]
    BY <2>1 DEF BeforeQuestion
  <2>4. \A q \in Requests : pc'[q] \in AfterQuestion => pc[q] = pc'[q] /\ snap'[q] = snap[q]
    BY <2>1 DEF AfterQuestion, Answering
  <2> QED
    BY <1>0, <2>2, <2>3, <2>4, TurnsKept
<1>3. ASSUME NEW r \in Requests, SaveQuestion(r) \/ SaveAnswer(r)
      PROVE  TurnsInv'
  <2>1. PICK role \in Roles, hide \in BOOLEAN, id \in SessionId, n \in Nat :
          /\ Saves(r, role, hide, id, n)
          /\ snap' = [snap EXCEPT ![r] = None]
          /\ \/ /\ role = "user" /\ pc[r] = "question"
                /\ pc' = [pc EXCEPT ![r] = "prompt"]
             \/ /\ role = "assistant" /\ pc[r] = "answer"
                /\ pc' = [pc EXCEPT ![r] = "done"]
    <3> HIDE DEF SaveQuestion, SaveAnswer
    <3> QED
      BY <1>3, SaveSteps
  <2> DEFINE m0 == [session |-> id, order |-> n,
                    turn |-> [req |-> r, role |-> role], hide |-> hide]
             s0 == [id |-> id, conv |-> ConvOf(r)]
  <2>2. /\ db'.messages = db.messages \cup {m0}
        /\ db'.sessions = db.sessions \cup {s0}
        /\ id = <<r, role>> \/ s0 \in db.sessions
    BY <2>1 DEF Saves, AddsRow
  <2>3. \A q \in Requests : pc[q] \notin BeforeQuestion => pc'[q] \notin BeforeQuestion
    BY <1>0, <2>1 DEF TypeOK, BeforeQuestion
  <2>4. \A q \in Requests : pc[q] = "done" => pc'[q] = "done"
    BY <1>0, <2>1 DEF TypeOK
  <2>5. /\ role = "user" => pc'[r] \notin BeforeQuestion
        /\ role = "assistant" => pc'[r] = "done"
    BY <1>0, <2>1 DEF TypeOK, BeforeQuestion
  <2>6. ASSUME NEW m \in db'.messages
        PROVE  /\ m.turn.role = "user" => pc'[m.turn.req] \notin BeforeQuestion
               /\ m.turn.role = "assistant" => pc'[m.turn.req] = "done"
    BY <1>0, <2>2, <2>3, <2>4, <2>5, MessageFields DEF TurnsInv
  <2>7. ASSUME NEW s \in db'.sessions
        PROVE  s.id[2] = "assistant" => pc'[s.id[1]] = "done"
    <3>1. CASE s \in db.sessions
      BY <1>0, <2>4, <3>1 DEF TurnsInv, TypeOK, Database, SessionRow, SessionId
    <3>2. CASE s = s0 /\ id = <<r, role>>
      BY <2>5, <3>2
    <3> QED
      BY <2>2, <3>1, <3>2
  <2>8. ASSUME NEW q \in Requests, pc'[q] \in AfterQuestion, snap'[q] # None,
               NEW m \in db'.messages, m.turn = [req |-> q, role |-> "user"]
        PROVE  m \in snap'[q].messages
    <3>1. q # r
      BY <1>0, <2>1, <2>8 DEF TypeOK
    <3>2. pc'[q] = pc[q] /\ snap'[q] = snap[q]
      BY <1>0, <2>1, <3>1 DEF TypeOK
    <3>3. m \in db.messages
      BY <2>2, <2>8, <3>1
    <3> QED
      BY <2>8, <3>2, <3>3 DEF TurnsInv
  <2> QED
    BY <2>6, <2>7, <2>8 DEF TurnsInv
<1>4. CASE Quiet
  <2>1. /\ db' = db
        /\ \A q \in Requests :
             /\ pc[q] \notin BeforeQuestion => pc'[q] \notin BeforeQuestion
             /\ pc[q] = "done" => pc'[q] = "done"
             /\ pc'[q] \in AfterQuestion => pc[q] \in AfterQuestion
             /\ snap'[q] \in {snap[q], None, db}
    BY <1>4 DEF Quiet, AfterQuestion, BeforeQuestion, Answering, InFlight
  <2>2. \A s \in db.sessions : s.id[1] \in Requests
    BY <1>0 DEF TypeOK, Database, SessionRow, SessionId
  <2>3. ASSUME NEW q \in Requests, pc'[q] \in AfterQuestion, snap'[q] # None,
               NEW m \in db'.messages, m.turn = [req |-> q, role |-> "user"]
        PROVE  m \in snap'[q].messages
    BY <2>1, <2>3 DEF TurnsInv
  <2> QED
    BY <1>0, <2>1, <2>2, <2>3, MessageFields DEF TurnsInv
<1> QED
  BY <1>1, <1>2, <1>3, <1>4, StepKinds

(* The order a request's transaction gives its answer is above that of its *)
(* question: the transaction was opened when the question was stored.      *)
LEMMA AfterQuestionStep ==
    ASSUME BaseInv, DatabaseInv, TurnsInv, AnswerAfterQuestion, [Next]_vars
    PROVE  AnswerAfterQuestion'
<1>0. TypeOK
  BY DEF BaseInv
<1>1. CASE db' = db
  BY <1>1 DEF AnswerAfterQuestion
<1>2. ASSUME NEW r \in Requests, WipeHistory(r)
      PROVE  AnswerAfterQuestion'
  <2>1. db'.messages \subseteq db.messages
    BY <1>0, <1>2, WipeShrinks
  <2> QED
    BY <2>1 DEF AnswerAfterQuestion
<1>3. ASSUME NEW r \in Requests, SaveQuestion(r) \/ SaveAnswer(r)
      PROVE  AnswerAfterQuestion'
  <2>1. PICK role \in Roles, hide \in BOOLEAN, id \in SessionId, n \in Nat :
          /\ Saves(r, role, hide, id, n)
          /\ \/ role = "user" /\ pc[r] = "question"
             \/ role = "assistant" /\ pc[r] = "answer"
    <3> HIDE DEF SaveQuestion, SaveAnswer
    <3> QED
      BY <1>3, SaveSteps
  <2> DEFINE m0 == [session |-> id, order |-> n,
                    turn |-> [req |-> r, role |-> role], hide |-> hide]
  <2>2. db'.messages = db.messages \cup {m0}
    BY <2>1 DEF Saves, AddsRow
  <2> SUFFICES ASSUME NEW q \in db'.messages, NEW a \in db'.messages,
                      q.session = a.session, q.turn.req = a.turn.req,
                      q.turn.role = "user", a.turn.role = "assistant"
               PROVE  q.order < a.order
    BY DEF AnswerAfterQuestion
  <2>3. CASE q \in db.messages /\ a \in db.messages
    BY <2>3 DEF AnswerAfterQuestion
  <2>4. CASE q = m0
    <3>1. a \in db.messages /\ a.turn.req = r /\ pc[r] = "question"
      BY <2>1, <2>2, <2>4
    <3> QED
      BY <3>1 DEF TurnsInv
  <2>5. CASE q \in db.messages /\ a = m0
    <3>1. /\ q.session = id /\ q.turn = [req |-> r, role |-> "user"]
          /\ pc[r] = "answer" /\ role = "assistant" /\ q.order \in Nat
      BY <1>0, <2>1, <2>5, MessageFields DEF Turn
    <3>2. q \in View(r).messages
      BY <2>5, <3>1 DEF TurnsInv, View, AfterQuestion, Answering
    <3>3. ~(id = <<r, "assistant">>)
      <4>1. PICK s \in db.sessions : s.id = q.session
        BY <2>5 DEF DatabaseInv
      <4> QED
        BY <3>1, <4>1 DEF TurnsInv
    <3>4. n \in NextOrders(View(r), id)
      BY <2>1, <3>1, <3>3 DEF Saves
    <3>5. q \in MessagesOf(View(r), id)
      BY <3>1, <3>2 DEF MessagesOf
    <3>6. q.order < n
      BY <3>4, <3>5 DEF NextOrders
    <3> QED
      BY <2>5, <3>6
  <2> QED
    BY <2>2, <2>3, <2>4, <2>5
<1>4. CASE \E r \in Requests, o \in Ops, c \in Conversations, w \in Workers :
              Begin(r, o, c, w)
  BY <1>1, <1>4 DEF Begin
<1>5. CASE Quiet
  BY <1>1, <1>5 DEF Quiet
<1> QED
  BY <1>2, <1>3, <1>4, <1>5, StepKinds

(* However requests of a conversation interleave, wipe it, fail and retry, *)
(* reading a session by message order shows every answer after its         *)
(* question: the transaction that numbers an answer was opened after its   *)
(* question was stored.                                                    *)
THEOREM AnswersComeAfter == Spec => []AnswerAfterQuestion
<1> DEFINE OrderInv == BaseInv /\ DatabaseInv /\ TurnsInv /\ AnswerAfterQuestion
<1>1. Init => OrderInv
  <2> SUFFICES ASSUME Init PROVE OrderInv
    OBVIOUS
  <2>1. BaseInv
    BY BaseInit
  <2>2. DatabaseInv /\ TurnsInv /\ AnswerAfterQuestion
    BY DEF Init, DatabaseInv, TurnsInv, AnswerAfterQuestion, AfterQuestion, Answering
  <2> QED
    BY <2>1, <2>2
<1>2. OrderInv /\ [Next]_vars => OrderInv'
  BY BaseStep, DatabaseStep, TurnsStep, AfterQuestionStep
<1>3. OrderInv => AnswerAfterQuestion
  OBVIOUS
<1> HIDE DEF OrderInv
<1> QED
  BY <1>1, <1>2, <1>3, PTL DEF Spec
=============================================================================
