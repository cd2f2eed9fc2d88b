---------------------------- MODULE SerialProofs ----------------------------
(***************************************************************************)
(* Theorems about module Conversation when a conversation has one request  *)
(* at a time (MaxInFlight is 1), for any number of conversations and       *)
(* workers served side by side: there is one session per conversation, an  *)
(* answer follows its question, what is stored of a conversation is what   *)
(* Dialogue says, and the bot is given every turn it has answered before,  *)
(* although the cache evicts, workers restart and requests fail.           *)
(***************************************************************************)
EXTENDS ConversationProofs

OneAtATime == MaxInFlight <= 1

-----------------------------------------------------------------------------
(* The inductive invariant *)

Alone ==
    \A q, r \in Requests :
        InFlight(q) /\ InFlight(r) /\ ConvOf(q) = ConvOf(r) => q = r

(* What a request's transaction shows of its conversation is what is       *)
(* stored: nobody else changes it meanwhile.                               *)
Undisturbed ==
    \A r \in Requests : InFlight(r) /\ snap[r] # None =>
        /\ SessionsOf(snap[r], ConvOf(r)) = SessionsOf(db, ConvOf(r))
        /\ \A s \in SessionsOf(db, ConvOf(r)) :
              MessagesOf(snap[r], s.id) = MessagesOf(db, s.id)

OneSession == \A s, t \in db.sessions : s.conv = t.conv => s = t

(* The question of a request that has yet to answer is the last message of *)
(* its conversation.                                                       *)
LastIsQuestion ==
    \A r \in Requests : pc[r] \in AfterQuestion =>
        \E s \in SessionsOf(db, ConvOf(r)) : \E q \in MessagesOf(db, s.id) :
            /\ q.turn = [req |-> r, role |-> "user"]
            /\ \A m \in MessagesOf(db, s.id) : m.order <= q.order

SerialInv == Alone /\ Undisturbed /\ OneSession /\ LastIsQuestion

(* What all of this rests on, from module ConversationProofs. *)
RowsInv == BaseInv /\ DatabaseInv /\ TurnsInv

-----------------------------------------------------------------------------
(* Steps *)

(* A stored session is named after a request. *)
LEMMA SessionFields ==
    ASSUME TypeOK, NEW s \in db.sessions
    PROVE  s \in SessionRow /\ s.id \in SessionId /\ s.id[1] \in Requests
BY DEF TypeOK, Database, SessionRow, SessionId

(* The messages of a session are not those of another conversation's.      *)
LEMMA SessionsApart ==
    ASSUME RowsInv, NEW s \in db.sessions, NEW t \in db.sessions, s.id = t.id
    PROVE  s.conv = t.conv
BY DEF RowsInv, DatabaseInv

(* What a request sees of its conversation is what is stored. *)
LEMMA ViewIsStored ==
    ASSUME Undisturbed, NEW r \in Requests, InFlight(r)
    PROVE  /\ SessionsOf(View(r), ConvOf(r)) = SessionsOf(db, ConvOf(r))
           /\ \A s \in SessionsOf(db, ConvOf(r)) :
                 MessagesOf(View(r), s.id) = MessagesOf(db, s.id)
BY DEF Undisturbed, View

(* So a message is saved in the conversation's one session, after the last *)
(* message of it, or in a session of its own when there is none.           *)
Posts(r, role, hide, id, n) ==
    /\ db' = [sessions |-> db.sessions \cup {[id |-> id, conv |-> ConvOf(r)]},
              messages |-> db.messages \cup
                {[session |-> id, order |-> n,
                  turn |-> [req |-> r, role |-> role], hide |-> hide]}]
    /\ n \in NextOrders(db, id)
    /\ \/ /\ SessionsOf(db, ConvOf(r)) = {}
          /\ MessagesOf(db, id) = {}
          /\ id = <<r, role>>
       \/ SessionsOf(db, ConvOf(r)) = {[id |-> id, conv |-> ConvOf(r)]}

(* What SaveMessage does to the rows, for a request alone in its           *)
(* conversation.                                                           *)
LEMMA PostsInSession ==
    ASSUME RowsInv, Undisturbed, NEW r \in Requests, InFlight(r),
           NEW role \in Roles, NEW hide, NEW id \in SessionId, NEW n \in Nat,
           Saves(r, role, hide, id, n)
    PROVE  Posts(r, role, hide, id, n)
<1> DEFINE s0 == [id |-> id, conv |-> ConvOf(r)]
<1>1. /\ SessionsOf(View(r), ConvOf(r)) = SessionsOf(db, ConvOf(r))
      /\ \A s \in SessionsOf(db, ConvOf(r)) :
            MessagesOf(View(r), s.id) = MessagesOf(db, s.id)
  BY ViewIsStored
<1>2. CASE /\ SessionsOf(View(r), ConvOf(r)) = {}
           /\ id = <<r, role>> /\ n = 0
  <2>1. MessagesOf(db, id) = {}
    <3> SUFFICES ASSUME NEW m \in db.messages, m.session = id
                 PROVE  FALSE
      BY DEF MessagesOf
    <3>1. PICK s \in db.sessions : s.id = id
      BY DEF RowsInv, DatabaseInv
    <3>2. s.id[1] = r
      BY <1>2, <3>1
    <3>3. s.conv = ConvOf(r)
      BY <3>2 DEF RowsInv, DatabaseInv
    <3> QED
      BY <1>1, <1>2, <3>3 DEF SessionsOf
  <2>2. 0 \in NextOrders(db, id)
    BY <2>1 DEF NextOrders
  <2> QED
    BY <1>1, <1>2, <2>1, <2>2 DEF Posts, Saves, AddsRow
<1>3. CASE /\ SessionsOf(View(r), ConvOf(r)) = {s0}
           /\ n \in NextOrders(View(r), id)
  <2>1. MessagesOf(View(r), id) = MessagesOf(db, id)
    BY <1>1, <1>3
  <2>2. NextOrders(View(r), id) = NextOrders(db, id)
    BY <2>1 DEF NextOrders
  <2> QED
    BY <1>1, <1>3, <2>2 DEF Posts, Saves, AddsRow
<1> QED
  BY <1>2, <1>3 DEF Saves

(* The whole of a step that saves a message, for a conversation alone.     *)
LEMMA PostSteps ==
    ASSUME RowsInv, Undisturbed, NEW r \in Requests, SaveQuestion(r) \/ SaveAnswer(r)
    PROVE  \E role \in Roles, hide \in BOOLEAN, id \in SessionId, n \in Nat :
              /\ SaveMessage(r, role, hide)
              /\ Posts(r, role, hide, id, n)
              /\ call[r] \in Call /\ call' = call
              /\ snap' = [snap EXCEPT ![r] = None]
              /\ \/ /\ role = "user" /\ pc[r] = "question"
                    /\ pc' = [pc EXCEPT ![r] = "prompt"]
                 \/ /\ role = "assistant" /\ pc[r] = "answer" /\ ~hide
                    /\ pc' = [pc EXCEPT ![r] = "done"]
<1>1. PICK role \in Roles, hide \in BOOLEAN, id \in SessionId, n \in Nat :
              /\ SaveMessage(r, role, hide)
              /\ Saves(r, role, hide, id, n)
              /\ call[r] \in Call /\ call' = call
              /\ snap' = [snap EXCEPT ![r] = None]
              /\ \/ /\ role = "user" /\ pc[r] = "question"
                    /\ pc' = [pc EXCEPT ![r] = "prompt"]
                 \/ /\ role = "assistant" /\ pc[r] = "answer" /\ ~hide
                    /\ pc' = [pc EXCEPT ![r] = "done"]
  <2> HIDE DEF SaveQuestion, SaveAnswer, SaveMessage, Saves
  <2>1. BaseInv
    BY DEF RowsInv
  <2> QED
    BY <2>1, SaveSteps
<1>2. InFlight(r)
  BY <1>1 DEF InFlight
<1> HIDE DEF SaveMessage, Saves
<1>3. Posts(r, role, hide, id, n)
  BY <1>1, <1>2, PostsInSession
<1> QED
  BY <1>1, <1>3

(* What a wipe does to a conversation that is alone: all or nothing of it  *)
(* goes, and nothing of any other.                                         *)
Wipes(r) ==
    \/ db' = db
    \/ LET ids == {s.id : s \in SessionsOf(db, ConvOf(r))}
       IN db' = [sessions |-> {s \in db.sessions : s.id \notin ids},
                 messages |-> {m \in db.messages : m.session \notin ids}]

(* The whole of a step that wipes a history, for a conversation alone. *)
LEMMA WipeSteps ==
    ASSUME RowsInv, Undisturbed, NEW r \in Requests, WipeHistory(r)
    PROVE  /\ Wipes(r)
           /\ call' = call /\ call[r] \in Call
           /\ pc[r] = "wipe" /\ pc'[r] \in {"question", "done"}
           /\ snap'[r] \in {snap[r], None} /\ (db' = db \/ snap'[r] = None)
           /\ \A q \in Requests \ {r} : pc'[q] = pc[q] /\ snap'[q] = snap[q]
<1> DEFINE ids == {s.id : s \in SessionsOf(db, ConvOf(r))}
<1>1. TypeOK /\ CallInv
  BY DEF RowsInv, BaseInv
<1>2. /\ call' = call
      /\ pc[r] = "wipe" /\ pc'[r] \in {"question", "done"}
      /\ snap'[r] \in {snap[r], None} /\ (db' = db \/ snap'[r] = None)
      /\ \A q \in Requests \ {r} : pc'[q] = pc[q] /\ snap'[q] = snap[q]
  BY <1>1 DEF WipeHistory, TypeOK
<1>3. SessionsOf(View(r), ConvOf(r)) = SessionsOf(db, ConvOf(r))
  BY <1>2, ViewIsStored DEF InFlight
<1>4. \/ db' = db
      \/ db' = [sessions |-> {s \in db.sessions : s.id \notin ids},
                messages |-> db.messages \ {m \in db.messages : m.session \in ids}]
  BY <1>3 DEF WipeHistory
<1>5. db.messages \ {m \in db.messages : m.session \in ids}
        = {m \in db.messages : m.session \notin ids}
  OBVIOUS
<1>6. call[r] \in Call
  BY <1>1, <1>2 DEF CallInv
<1> QED
  BY <1>2, <1>4, <1>5, <1>6 DEF Wipes

(* Neither touches the conversation of another. *)
LEMMA OthersKeep ==
    ASSUME RowsInv, NEW r \in Requests, pc[r] # "idle",
           \/ Wipes(r)
           \/ \E role \in Roles, hide \in BOOLEAN, id \in SessionId, n \in Nat :
                 Posts(r, role, hide, id, n),
           NEW c \in Conversations, c # ConvOf(r)
    PROVE  /\ SessionsOf(db', c) = SessionsOf(db, c)
           /\ \A s \in SessionsOf(db, c) : MessagesOf(db', s.id) = MessagesOf(db, s.id)
<1>1. CASE db' = db
  BY <1>1
<1>2. CASE Wipes(r) /\ db' # db
  <2> DEFINE ids == {s.id : s \in SessionsOf(db, ConvOf(r))}
  <2>1. db' = [sessions |-> {s \in db.sessions : s.id \notin ids},
               messages |-> {m \in db.messages : m.session \notin ids}]
    BY <1>2 DEF Wipes
  <2>2. \A s \in SessionsOf(db, c) : s.id \notin ids
    BY SessionsApart DEF SessionsOf
  <2> HIDE DEF ids
  <2> QED
    BY <2>1, <2>2 DEF SessionsOf, MessagesOf
<1>3. ASSUME NEW role \in Roles, NEW hide \in BOOLEAN, NEW id \in SessionId, NEW n \in Nat,
             Posts(r, role, hide, id, n)
      PROVE  /\ SessionsOf(db', c) = SessionsOf(db, c)
             /\ \A s \in SessionsOf(db, c) : MessagesOf(db', s.id) = MessagesOf(db, s.id)
  <2> DEFINE s0 == [id |-> id, conv |-> ConvOf(r)]
             m0 == [session |-> id, order |-> n,
                    turn |-> [req |-> r, role |-> role], hide |-> hide]
  <2>1. db' = [sessions |-> db.sessions \cup {s0}, messages |-> db.messages \cup {m0}]
    BY <1>3 DEF Posts
  <2>2. SessionsOf(db', c) = SessionsOf(db, c)
    BY <2>1 DEF SessionsOf
  <2>3. ASSUME NEW s \in SessionsOf(db, c)
        PROVE  s.id # id
    <3>1. s \in db.sessions /\ s.conv = c /\ s.conv = ConvOf(s.id[1])
      BY DEF SessionsOf, RowsInv, DatabaseInv
    <3>2. CASE id = <<r, role>>
      BY <3>1, <3>2
    <3>3. CASE s0 \in db.sessions
      BY <3>1, <3>3, SessionsApart
    <3> QED
      BY <1>3, <3>2, <3>3 DEF Posts, SessionsOf
  <2>4. \A s \in SessionsOf(db, c) : MessagesOf(db', s.id) = MessagesOf(db, s.id)
    BY <2>1, <2>3 DEF MessagesOf
  <2> QED
    BY <2>2, <2>4
<1> QED
  BY <1>1, <1>2, <1>3

-----------------------------------------------------------------------------
(* The invariant is kept *)

(* What a request that begins leaves as it was. *)
LEMMA BeginSteps ==
    ASSUME TypeOK, NEW r \in Requests, NEW o \in Ops, NEW c \in Conversations,
           NEW w \in Workers, Begin(r, o, c, w)
    PROVE  /\ db' = db
           /\ pc[r] = "idle" /\ pc'[r] \in {"wipe", "question"}
           /\ snap'[r] = db /\ ConvOf(r)' = c /\ InFlight(r)'
           /\ \A q \in Requests \ {r} :
                /\ pc'[q] = pc[q] /\ snap'[q] = snap[q] /\ call'[q] = call[q]
                /\ ConvOf(q)' = ConvOf(q) /\ (InFlight(q)' <=> InFlight(q))
BY DEF Begin, TypeOK, ConvOf, InFlight

(* A request begins only when the conversation has none in flight. *)
LEMMA BeginsAlone ==
    ASSUME OneAtATime, NEW r \in Requests, NEW o \in Ops, NEW c \in Conversations,
           NEW w \in Workers, Begin(r, o, c, w)
    PROVE  \A q \in Requests : InFlight(q) => ConvOf(q) # c
<1> DEFINE busy == {q \in Requests : InFlight(q) /\ ConvOf(q) = c}
<1>1. Cardinality(busy) < MaxInFlight
  BY DEF Begin
<1>2. IsFiniteSet(busy)
  BY ConversationAssumption, FS_Subset
<1> HIDE DEF busy
<1>3. Cardinality(busy) = 0
  BY <1>1, <1>2, FS_CardinalityType, ConversationAssumption DEF OneAtATime
<1>4. busy = {}
  BY <1>2, <1>3, FS_EmptySet
<1> QED
  BY <1>4 DEF busy

(* No other step puts a request in flight. *)
LEMMA NoNewcomers ==
    ASSUME RowsInv, Undisturbed,
           \/ Quiet
           \/ \E r \in Requests : WipeHistory(r) \/ SaveQuestion(r) \/ SaveAnswer(r)
    PROVE  /\ call' = call
           /\ \A q \in Requests : /\ InFlight(q)' => InFlight(q)
                                  /\ ConvOf(q)' = ConvOf(q)
<1>1. CASE Quiet
  BY <1>1 DEF Quiet, InFlight, ConvOf, AfterQuestion, Answering
<1>2. ASSUME NEW r \in Requests, WipeHistory(r)
      PROVE  /\ call' = call
             /\ \A q \in Requests : InFlight(q)' => InFlight(q)
  <2> HIDE DEF WipeHistory
  <2> QED
    BY <1>2, WipeSteps DEF InFlight
<1>3. ASSUME NEW r \in Requests, SaveQuestion(r) \/ SaveAnswer(r)
      PROVE  /\ call' = call
             /\ \A q \in Requests : InFlight(q)' => InFlight(q)
  <2>1. /\ call' = call
        /\ pc[r] \in {"question", "answer"}
        /\ pc' \in {[pc EXCEPT ![r] = "prompt"], [pc EXCEPT ![r] = "done"]}
    <3> HIDE DEF SaveQuestion, SaveAnswer, SaveMessage, Posts
    <3> QED
      BY <1>3, PostSteps
  <2> QED
    BY <2>1 DEF InFlight, RowsInv, BaseInv, TypeOK
<1> QED
  BY <1>1, <1>2, <1>3 DEF ConvOf

(* Two requests of one conversation are never in flight together. *)
LEMMA AloneStep ==
    ASSUME OneAtATime, RowsInv, Undisturbed, Alone, [Next]_vars
    PROVE  Alone'
<1>0. TypeOK /\ BaseInv
  BY DEF RowsInv, BaseInv
<1>1. ASSUME NEW r \in Requests, NEW o \in Ops, NEW c \in Conversations,
             NEW w \in Workers, Begin(r, o, c, w)
      PROVE  Alone'
  <2>1. \A q \in Requests : InFlight(q) => ConvOf(q) # c
    BY <1>1, BeginsAlone
  <2>2. /\ ConvOf(r)' = c
        /\ \A q \in Requests \ {r} :
              ConvOf(q)' = ConvOf(q) /\ (InFlight(q)' <=> InFlight(q))
    BY <1>0, <1>1, BeginSteps
  <2> QED
    BY <2>1, <2>2 DEF Alone
<1>2. CASE \/ Quiet
           \/ \E r \in Requests : WipeHistory(r) \/ SaveQuestion(r) \/ SaveAnswer(r)
  BY <1>2, NoNewcomers DEF Alone
<1> QED
  BY <1>0, <1>1, <1>2, StepKinds

(* A step of one request does not change the conversation another one's    *)
(* transaction is about.                                                   *)
LEMMA UndisturbedStep ==
    ASSUME RowsInv, Undisturbed, Alone, [Next]_vars
    PROVE  Undisturbed'
<1>0. TypeOK /\ BaseInv /\ CallInv
  BY DEF RowsInv, BaseInv
<1>1. ASSUME NEW r \in Requests, NEW o \in Ops, NEW c \in Conversations,
             NEW w \in Workers, Begin(r, o, c, w)
      PROVE  Undisturbed'
  <2>1. /\ db' = db /\ snap'[r] = db
        /\ \A q \in Requests \ {r} :
              /\ snap'[q] = snap[q]
              /\ ConvOf(q)' = ConvOf(q) /\ (InFlight(q)' <=> InFlight(q))
    BY <1>0, <1>1, BeginSteps
  <2> QED
    BY <2>1 DEF Undisturbed
<1>2. ASSUME NEW r \in Requests, InFlight(r), NEW q \in Requests \ {r}, InFlight(q),
             \/ Wipes(r)
             \/ \E role \in Roles, hide \in BOOLEAN, id \in SessionId, n \in Nat :
                   Posts(r, role, hide, id, n)
      PROVE  /\ SessionsOf(db', ConvOf(q)) = SessionsOf(db, ConvOf(q))
             /\ \A s \in SessionsOf(db, ConvOf(q)) :
                   MessagesOf(db', s.id) = MessagesOf(db, s.id)
  <2>1. pc[r] # "idle" /\ ConvOf(q) # ConvOf(r) /\ ConvOf(q) \in Conversations
    BY <1>0, <1>2, CallOf DEF InFlight, Alone
  <2> HIDE DEF Wipes, Posts
  <2> QED
    BY <1>2, <2>1, OthersKeep
<1>3. ASSUME NEW r \in Requests, WipeHistory(r)
      PROVE  Undisturbed'
  <2>1. /\ Wipes(r) /\ pc[r] = "wipe"
        /\ snap'[r] \in {snap[r], None} /\ (db' = db \/ snap'[r] = None)
        /\ \A q \in Requests \ {r} : snap'[q] = snap[q]
    <3> HIDE DEF Wipes, WipeHistory
    <3> QED
      BY <1>3, WipeSteps
  <2>2. /\ InFlight(r)
        /\ \A q \in Requests : (InFlight(q)' => InFlight(q)) /\ ConvOf(q)' = ConvOf(q)
    BY <1>3, <2>1, NoNewcomers DEF InFlight
  <2> HIDE DEF Wipes
  <2> QED
    BY <1>2, <2>1, <2>2 DEF Undisturbed
<1>4. ASSUME NEW r \in Requests, SaveQuestion(r) \/ SaveAnswer(r)
      PROVE  Undisturbed'
  <2>1. /\ \E role \in Roles, hide \in BOOLEAN, id \in SessionId, n \in Nat :
              Posts(r, role, hide, id, n)
        /\ snap' = [snap EXCEPT ![r] = None] /\ pc[r] \in {"question", "answer"}
    <3> HIDE DEF SaveQuestion, SaveAnswer, SaveMessage, Posts
    <3> QED
      BY <1>4, PostSteps
  <2>2. /\ InFlight(r)
        /\ \A q \in Requests : (InFlight(q)' => InFlight(q)) /\ ConvOf(q)' = ConvOf(q)
    BY <1>4, <2>1, NoNewcomers DEF InFlight
  <2>3. snap'[r] = None /\ \A q \in Requests \ {r} : snap'[q] = snap[q]
    BY <1>0, <2>1 DEF TypeOK
  <2> HIDE DEF Posts
  <2> QED
    BY <1>2, <2>1, <2>2, <2>3 DEF Undisturbed
<1>5. CASE Quiet
  <2>1. /\ db' = db
        /\ \A q \in Requests : snap'[q] \in {snap[q], None, db}
    BY <1>5 DEF Quiet
  <2>2. \A q \in Requests : (InFlight(q)' => InFlight(q)) /\ ConvOf(q)' = ConvOf(q)
    BY <1>5, NoNewcomers
  <2> QED
    BY <2>1, <2>2 DEF Undisturbed
<1> QED
  BY <1>0, <1>1, <1>3, <1>4, <1>5, StepKinds

(* A message opens a session only when the conversation has none. *)
LEMMA OneSessionStep ==
    ASSUME RowsInv, Undisturbed, OneSession, [Next]_vars
    PROVE  OneSession'
<1>0. BaseInv
  BY DEF RowsInv
<1>1. CASE db' = db
  BY <1>1 DEF OneSession
<1>2. ASSUME NEW r \in Requests, WipeHistory(r)
      PROVE  OneSession'
  <2>1. db'.sessions \subseteq db.sessions
    BY <1>0, <1>2, WipeShrinks DEF BaseInv
  <2> QED
    BY <2>1 DEF OneSession
<1>3. ASSUME NEW r \in Requests, SaveQuestion(r) \/ SaveAnswer(r)
      PROVE  OneSession'
  <2>1. PICK role \in Roles, hide \in BOOLEAN, id \in SessionId, n \in Nat :
          Posts(r, role, hide, id, n)
    <3> HIDE DEF SaveQuestion, SaveAnswer, SaveMessage, Posts
    <3> QED
      BY <1>3, PostSteps
  <2> DEFINE s0 == [id |-> id, conv |-> ConvOf(r)]
  <2>2. /\ db'.sessions = db.sessions \cup {s0}
        /\ SessionsOf(db, ConvOf(r)) \subseteq {s0}
    BY <2>1 DEF Posts
  <2>3. \A s \in db.sessions : s.conv = s0.conv => s = s0
    BY <2>2 DEF SessionsOf
  <2> QED
    BY <2>2, <2>3 DEF OneSession
<1> QED
  BY <1>0, <1>1, <1>2, <1>3, StepKinds DEF Begin, Quiet

(* A request alone in its conversation saves its answer right after its    *)
(* question.                                                               *)
LEMMA LastIsQuestionStep ==
    ASSUME OneAtATime, RowsInv, SerialInv, [Next]_vars
    PROVE  LastIsQuestion'
<1>0. TypeOK /\ BaseInv /\ CallInv /\ Alone /\ Undisturbed /\ LastIsQuestion
  BY DEF RowsInv, BaseInv, SerialInv
<1> DEFINE Ends(rows, c, r) ==
             \E s \in SessionsOf(rows, c) : \E q \in MessagesOf(rows, s.id) :
                /\ q.turn = [req |-> r, role |-> "user"]
                /\ \A m \in MessagesOf(rows, s.id) : m.order <= q.order
<1>1. \A r \in Requests : pc[r] \in AfterQuestion => Ends(db, ConvOf(r), r)
  BY <1>0 DEF LastIsQuestion
<1>2. SUFFICES ASSUME NEW q \in Requests, pc'[q] \in AfterQuestion
               PROVE  Ends(db', ConvOf(q)', q)
  BY DEF LastIsQuestion
<1>3. ASSUME NEW r \in Requests, NEW o \in Ops, NEW c \in Conversations,
             NEW w \in Workers, Begin(r, o, c, w)
      PROVE  Ends(db', ConvOf(q)', q)
  <2>1. /\ db' = db /\ pc'[r] \in {"wipe", "question"}
        /\ q # r => pc'[q] = pc[q] /\ ConvOf(q)' = ConvOf(q)
    BY <1>0, <1>3, BeginSteps
  <2>2. q # r
    BY <1>2, <2>1 DEF AfterQuestion, Answering
  <2> QED
    BY <1>1, <1>2, <2>1, <2>2
<1>4. CASE Quiet
  <2>1. db' = db /\ pc[q] \in AfterQuestion /\ ConvOf(q)' = ConvOf(q)
    BY <1>2, <1>4 DEF Quiet, AfterQuestion, Answering, ConvOf
  <2> QED
    BY <1>1, <2>1
<1> DEFINE Acts(r) ==
             \/ Wipes(r)
             \/ \E role \in Roles, hide \in BOOLEAN, id \in SessionId, n \in Nat :
                   Posts(r, role, hide, id, n)
<1>5. ASSUME NEW r \in Requests, InFlight(r), Acts(r), q # r, pc[q] \in AfterQuestion
      PROVE  Ends(db', ConvOf(q), q)
  <2>1. /\ pc[r] # "idle" /\ ConvOf(q) # ConvOf(r)
        /\ ConvOf(q) \in Conversations
    BY <1>0, <1>5, CallOf DEF InFlight, Alone, AfterQuestion, Answering
  <2>2. /\ SessionsOf(db', ConvOf(q)) = SessionsOf(db, ConvOf(q))
        /\ \A s \in SessionsOf(db, ConvOf(q)) :
              MessagesOf(db', s.id) = MessagesOf(db, s.id)
    <3> HIDE DEF Wipes, Posts
    <3> QED
      BY <1>5, <2>1, OthersKeep
  <2> QED
    BY <1>1, <1>5, <2>2
<1>6. ASSUME NEW r \in Requests, WipeHistory(r)
      PROVE  Ends(db', ConvOf(q)', q)
  <2>1. /\ Wipes(r) /\ pc[r] = "wipe" /\ pc'[r] \in {"question", "done"}
        /\ call' = call
        /\ \A p \in Requests \ {r} : pc'[p] = pc[p]
    <3> HIDE DEF Wipes, WipeHistory
    <3> QED
      BY <1>0, <1>6, WipeSteps
  <2>2. /\ InFlight(r) /\ q # r /\ pc[q] \in AfterQuestion
        /\ ConvOf(q)' = ConvOf(q)
    BY <1>2, <2>1 DEF InFlight, AfterQuestion, Answering, ConvOf
  <2> HIDE DEF Wipes, Ends
  <2> QED
    BY <1>5, <2>1, <2>2
<1>7. ASSUME NEW r \in Requests, SaveQuestion(r) \/ SaveAnswer(r)
      PROVE  Ends(db', ConvOf(q)', q)
  <2>1. PICK role \in Roles, hide \in BOOLEAN, id \in SessionId, n \in Nat :
          /\ Posts(r, role, hide, id, n)
          /\ call' = call
          /\ \/ /\ role = "user" /\ pc[r] = "question"
                /\ pc' = [pc EXCEPT ![r] = "prompt"]
             \/ /\ role = "assistant" /\ pc[r] = "answer"
                /\ pc' = [pc EXCEPT ![r] = "done"]
    <3> HIDE DEF SaveQuestion, SaveAnswer, SaveMessage, Posts
    <3> QED
      BY <1>0, <1>7, PostSteps
  <2>2. InFlight(r) /\ ConvOf(q)' = ConvOf(q)
    BY <2>1 DEF InFlight, ConvOf
  <2>3. CASE q # r
    <3>1. pc[q] \in AfterQuestion
      BY <1>0, <1>2, <2>1, <2>3 DEF TypeOK
    <3>2. Acts(r)
      <4> HIDE DEF Posts, Wipes
      <4> QED
        BY <2>1
    <3> HIDE DEF Ends, Acts
    <3> QED
      BY <1>5, <2>2, <2>3, <3>1, <3>2
  <2>4. CASE q = r
    <3> DEFINE s0 == [id |-> id, conv |-> ConvOf(r)]
               m0 == [session |-> id, order |-> n,
                      turn |-> [req |-> r, role |-> role], hide |-> hide]
    <3>1. role = "user"
      BY <1>0, <1>2, <2>1, <2>4 DEF TypeOK, AfterQuestion, Answering
    <3>2. /\ db'.sessions = db.sessions \cup {s0}
          /\ db'.messages = db.messages \cup {m0}
          /\ n \in NextOrders(db, id)
      BY <2>1 DEF Posts
    <3>3. \A m \in MessagesOf(db, id) : m.order < n
      BY <3>2 DEF NextOrders
    <3>4. \A m \in MessagesOf(db, id) : m.order <= n
      BY <1>0, <3>3, MessageFields DEF MessagesOf
    <3>5. /\ s0 \in SessionsOf(db', ConvOf(r)) /\ m0 \in MessagesOf(db', s0.id)
          /\ MessagesOf(db', s0.id) = MessagesOf(db, id) \cup {m0}
      BY <3>2 DEF SessionsOf, MessagesOf
    <3>6. \A m \in MessagesOf(db', s0.id) : m.order <= m0.order
      BY <3>4, <3>5
    <3>7. m0.turn = [req |-> r, role |-> "user"]
      BY <3>1
    <3> HIDE DEF s0, m0
    <3> QED
      BY <2>2, <2>4, <3>5, <3>6, <3>7
  <2> QED
    BY <2>3, <2>4
<1> QED
  BY <1>0, <1>3, <1>4, <1>6, <1>7, StepKinds

(* All of it is kept by every step. *)
LEMMA SerialStep ==
    ASSUME OneAtATime, RowsInv, SerialInv, [Next]_vars
    PROVE  RowsInv' /\ SerialInv'
<1>1. BaseInv /\ DatabaseInv /\ TurnsInv /\ Alone /\ Undisturbed /\ OneSession
  BY DEF RowsInv, SerialInv
<1>2. BaseInv' /\ DatabaseInv' /\ TurnsInv'
  BY <1>1, BaseStep, DatabaseStep, TurnsStep
<1>3. Alone' /\ Undisturbed' /\ OneSession' /\ LastIsQuestion'
  BY <1>1, AloneStep, UndisturbedStep, OneSessionStep, LastIsQuestionStep
<1> QED
  BY <1>2, <1>3 DEF RowsInv, SerialInv

(* And it holds when nothing is stored yet. *)
LEMMA SerialInit == Init => RowsInv /\ SerialInv
<1> SUFFICES ASSUME Init PROVE RowsInv /\ SerialInv
  OBVIOUS
<1>1. BaseInv
  BY BaseInit
<1>2. DatabaseInv /\ TurnsInv
  BY DEF Init, DatabaseInv, TurnsInv, AfterQuestion, Answering
<1>3. Alone /\ Undisturbed /\ OneSession /\ LastIsQuestion
  BY DEF Init, Alone, Undisturbed, OneSession, LastIsQuestion, InFlight,
         AfterQuestion, Answering
<1> QED
  BY <1>1, <1>2, <1>3 DEF RowsInv, SerialInv

-----------------------------------------------------------------------------
(* One session for each conversation: the lookup before the save sees the  *)
(* session that is stored, as nobody else has added or deleted one since   *)
(* the transaction began.                                                  *)
THEOREM OneSessionEach ==
    ASSUME OneAtATime
    PROVE  Spec => []OneSessionPerConversation
<1>1. RowsInv /\ SerialInv /\ [Next]_vars => (RowsInv /\ SerialInv)'
  BY SerialStep
<1>2. RowsInv /\ SerialInv => OneSessionPerConversation
  <2> SUFFICES ASSUME OneSession, NEW c \in Conversations
               PROVE  Cardinality(SessionsOf(db, c)) <= 1
    BY DEF SerialInv, OneSessionPerConversation
  <2>1. CASE SessionsOf(db, c) = {}
    BY <2>1, FS_EmptySet
  <2>2. ASSUME NEW s \in SessionsOf(db, c)
        PROVE  Cardinality(SessionsOf(db, c)) <= 1
    <3>1. SessionsOf(db, c) = {s}
      BY <2>2 DEF OneSession, SessionsOf
    <3>2. Cardinality({s}) = 1
      BY FS_Singleton
    <3> QED
      BY <3>1, <3>2
  <2> QED
    BY <2>1, <2>2
<1> QED
  BY SerialInit, <1>1, <1>2, PTL DEF Spec

(* AnswerFollowsQuestion, field by field. *)
Precedes(q, a) ==
    /\ q.session = a.session
    /\ q.turn.req = a.turn.req
    /\ q.turn.role = "user"
    /\ a.order = q.order + 1

AnswersPreceded ==
    \A a \in db.messages : a.turn.role = "assistant" =>
        \E q \in db.messages : Precedes(q, a)

(* A question is known by its request and its role. *)
LEMMA PrecededFollows ==
    ASSUME TypeOK, AnswersPreceded
    PROVE  AnswerFollowsQuestion
<1> SUFFICES ASSUME NEW a \in db.messages, a.turn.role = "assistant"
             PROVE  \E q \in db.messages :
                       /\ q.session = a.session
                       /\ q.turn = [req |-> a.turn.req, role |-> "user"]
                       /\ a.order = q.order + 1
  BY Zenon DEF AnswerFollowsQuestion
<1>1. PICK q \in db.messages : Precedes(q, a)
  BY DEF AnswersPreceded
<1>2. q.turn = [req |-> a.turn.req, role |-> "user"]
  BY <1>1, MessageFields DEF Precedes, Turn
<1>3. q.session = a.session /\ a.order = q.order + 1
  BY <1>1 DEF Precedes
<1> QED
  BY <1>2, <1>3, Zenon

(* A stored answer comes right after its question: the answer's order is   *)
(* one more than the last, and the last is still the question.             *)
THEOREM AnswersFollow ==
    ASSUME OneAtATime
    PROVE  Spec => []AnswerFollowsQuestion
<1> DEFINE Inv == RowsInv /\ SerialInv /\ AnswersPreceded
<1>1. Init => Inv
  BY SerialInit DEF Init, AnswersPreceded
<1>2. Inv /\ [Next]_vars => Inv'
  <2> SUFFICES ASSUME RowsInv, SerialInv, AnswersPreceded, [Next]_vars
               PROVE  AnswersPreceded'
    BY SerialStep
  <2>0. BaseInv /\ TypeOK /\ Undisturbed /\ LastIsQuestion
    BY DEF RowsInv, BaseInv, SerialInv
  <2>1. CASE db' = db
    BY <2>1 DEF AnswersPreceded
  <2>2. ASSUME NEW r \in Requests, WipeHistory(r)
        PROVE  AnswersPreceded'
    <3>1. Wipes(r)
      <4> HIDE DEF WipeHistory, Wipes
      <4> QED
        BY <2>0, <2>2, WipeSteps
    <3> DEFINE ids == {s.id : s \in SessionsOf(db, ConvOf(r))}
    <3>2. db' = db \/ db'.messages = {m \in db.messages : m.session \notin ids}
      BY <3>1 DEF Wipes
    <3> HIDE DEF ids
    <3>3. CASE db'.messages = {m \in db.messages : m.session \notin ids}
      BY <3>3 DEF AnswersPreceded, Precedes
    <3> QED
      BY <2>1, <3>2, <3>3
  <2>3. ASSUME NEW r \in Requests, SaveQuestion(r) \/ SaveAnswer(r)
        PROVE  AnswersPreceded'
    <3>1. PICK role \in Roles, hide \in BOOLEAN, id \in SessionId, n \in Nat :
            /\ Posts(r, role, hide, id, n)
            /\ \/ role = "user" /\ pc[r] = "question"
               \/ role = "assistant" /\ pc[r] = "answer"
      <4> HIDE DEF SaveQuestion, SaveAnswer, SaveMessage, Posts
      <4> QED
        BY <2>0, <2>3, PostSteps
    <3> DEFINE m0 == [session |-> id, order |-> n,
                      turn |-> [req |-> r, role |-> role], hide |-> hide]
    <3>2. db'.messages = db.messages \cup {m0} /\ n \in NextOrders(db, id)
      BY <3>1 DEF Posts
    <3>3. CASE role = "user"
      BY <3>2, <3>3 DEF AnswersPreceded
    <3>4. CASE role = "assistant" /\ pc[r] = "answer"
      <4>0. PICK s \in SessionsOf(db, ConvOf(r)) : \E q \in MessagesOf(db, s.id) :
              /\ q.turn = [req |-> r, role |-> "user"]
              /\ \A m \in MessagesOf(db, s.id) : m.order <= q.order
        BY <2>0, <3>4 DEF LastIsQuestion, AfterQuestion, Answering
      <4>1. PICK q \in MessagesOf(db, s.id) :
              /\ q.turn = [req |-> r, role |-> "user"]
              /\ \A m \in MessagesOf(db, s.id) : m.order <= q.order
        BY <4>0
      <4>2. s.id = id
        BY <3>1, <4>1 DEF Posts
      <4>3. /\ q \in db.messages /\ q.session = id /\ q.order \in Nat
            /\ \A m \in MessagesOf(db, id) : m.order \in Nat /\ m.order <= q.order
        BY <2>0, <4>1, <4>2, MessageFields DEF MessagesOf
      <4>4. /\ n = 0 \/ \E m \in MessagesOf(db, id) : n = m.order + 1
            /\ q.order < n
        BY <3>2, <4>1, <4>2 DEF NextOrders
      <4>5. n = q.order + 1
        BY <4>3, <4>4
      <4>6. q \in db'.messages /\ Precedes(q, m0)
        BY <3>2, <4>1, <4>3, <4>5 DEF Precedes
      <4> HIDE DEF m0
      <4> QED
        BY <3>2, <4>6 DEF AnswersPreceded
    <3> QED
      BY <3>1, <3>3, <3>4
  <2> QED
    BY <2>0, <2>1, <2>2, <2>3, StepKinds DEF Begin, Quiet
<1>3. Inv => AnswerFollowsQuestion
  BY PrecededFollows DEF RowsInv, BaseInv
<1> HIDE DEF Inv
<1> QED
  BY <1>1, <1>2, <1>3, PTL DEF Spec

-----------------------------------------------------------------------------
(* The bot is given what it has answered                                   *)

(* The turns of a conversation whose question has been answered. *)
Answered(rows, c) ==
    {t \in VisibleTurns(rows, c) :
        [t EXCEPT !.role = "assistant"] \in VisibleTurns(rows, c)}

CacheGiven ==
    \A w \in Workers, c \in Conversations : store[w][c] # None =>
        Answered(db, c) \subseteq history[store[w][c]]

(* A request that is answering holds the cached list, unless that was      *)
(* evicted or lost, and the request that loaded its list is past the load. *)
Held ==
    \A r \in Requests : pc[r] \in Answering =>
        /\ store[WorkerOf(r)][ConvOf(r)] \in {list[r], None}
        /\ pc[list[r]] \in Answering \cup Ended

Given ==
    \A r \in Requests : pc[r] \in Answering =>
        \A t \in Answered(db, ConvOf(r)) : t.req # r => t \in context[r]

(* Question and answer are in the list before the answer is saved. *)
RecordedTurn ==
    \A r \in Requests : pc[r] = "answer" =>
        \A role \in Roles : [req |-> r, role |-> role] \in history[list[r]]

GivenInv == CacheGiven /\ Held /\ Given /\ RecordedTurn

(* Given is the property. *)
LEMMA GivenSuffices ==
    ASSUME Given
    PROVE  AnsweredTurnsAreGiven
BY DEF Given, AnsweredTurnsAreGiven, Answered

(* A new key's list goes to that key only. *)
LEMMA InsertElsewhere ==
    ASSUME TypeOK, NEW w \in Workers, NEW c \in Conversations, NEW l \in Requests,
           Insert(w, c, l), NEW v \in Workers, NEW d \in Conversations,
           v # w \/ d # c
    PROVE  store'[v][d] \in {store[v][d], None}
<1> DEFINE entry == [store[w] EXCEPT ![c] = l]
<1>1. \E h : store' \in {[store EXCEPT ![w] = [entry EXCEPT ![h] = None]],
                         [store EXCEPT ![w] = entry]}
  BY DEF Insert
<1>2. /\ store \in [Workers -> [Conversations -> Requests \cup {None}]]
      /\ store[w] \in [Conversations -> Requests \cup {None}]
  BY DEF TypeOK
<1>3. entry \in [Conversations -> Requests \cup {None}]
      /\ (v = w => entry[d] = store[w][d])
  BY <1>2
<1> HIDE DEF entry
<1> QED
  BY <1>1, <1>2, <1>3

(* Deleting rows answers nothing. *)
LEMMA AnsweredShrinks ==
    ASSUME NEW rows, NEW more, NEW c,
           rows.sessions \subseteq more.sessions,
           rows.messages \subseteq more.messages
    PROVE  Answered(rows, c) \subseteq Answered(more, c)
<1>1. VisibleTurns(rows, c) \subseteq VisibleTurns(more, c)
  BY DEF VisibleTurns, SessionsOf
<1> QED
  BY <1>1 DEF Answered

(* Saving a question answers nothing, saving an answer the question of its *)
(* request.                                                                *)
LEMMA AnsweredAfterSave ==
    ASSUME RowsInv, NEW r \in Requests, call[r] \in Call, NEW role \in Roles,
           NEW hide \in BOOLEAN, SaveMessage(r, role, hide), pc[r] # "done",
           NEW c \in Conversations, NEW t \in Answered(db', c)
    PROVE  \/ t \in Answered(db, c)
           \/ t \in Turn /\ t.req = r /\ c = ConvOf(r) /\ role = "assistant"
<1> DEFINE a == [t EXCEPT !.role = "assistant"]
           New(x) == x = [req |-> r, role |-> role] /\ c = ConvOf(r)
<1>0. TypeOK /\ DatabaseInv /\ TurnsInv
  BY DEF RowsInv, BaseInv
<1>1. t \in VisibleTurns(db', c) /\ a \in VisibleTurns(db', c)
  BY DEF Answered
<1>2. /\ t \in VisibleTurns(db, c) \/ New(t)
      /\ a \in VisibleTurns(db, c) \/ New(a)
  <2> HIDE DEF TypeOK, DatabaseInv, SaveMessage, a
  <2> QED
    BY <1>0, <1>1, VisibleAfterSave
<1>3. t \in VisibleTurns(db, c) => t \in Turn
  BY <1>0, MessageFields DEF VisibleTurns
<1>4. t \in Turn /\ t.req \in Requests /\ t.role \in Roles
      /\ a = [req |-> t.req, role |-> "assistant"]
  BY <1>2, <1>3 DEF Turn
<1>5. a \in VisibleTurns(db, c) => pc[t.req] = "done"
  BY <1>0, <1>4 DEF VisibleTurns, TurnsInv
<1>6. t \in VisibleTurns(db, c) /\ a \in VisibleTurns(db, c) => t \in Answered(db, c)
  BY DEF Answered
<1> HIDE DEF a
<1>7. CASE t \in VisibleTurns(db, c) /\ a \in VisibleTurns(db, c)
  BY <1>6, <1>7
<1>8. CASE New(a)
  BY <1>4, <1>8
<1>9. CASE New(t) /\ a \in VisibleTurns(db, c)
  BY <1>5, <1>9
<1> QED
  BY <1>2, <1>7, <1>8, <1>9

(* A step that stores no answer, loads no list and lets no request go on   *)
(* to answering keeps what the bot is given.                               *)
LEMMA GivenKept ==
    ASSUME TypeOK, CallInv, ListInv, GivenInv,
           \A c \in Conversations : Answered(db', c) \subseteq Answered(db, c),
           \A w \in Workers, c \in Conversations : store'[w][c] \in {store[w][c], None},
           UNCHANGED <<history, list, context>>,
           \A q \in Requests : /\ pc'[q] \in Answering => pc'[q] = pc[q] /\ call'[q] = call[q]
                               /\ pc[q] \in Answering \cup Ended => pc'[q] \in Answering \cup Ended
    PROVE  GivenInv'
<1>1. CacheGiven'
  <2> SUFFICES ASSUME NEW w \in Workers, NEW c \in Conversations, store'[w][c] # None
               PROVE  Answered(db', c) \subseteq history'[store'[w][c]]
    BY DEF CacheGiven
  <2>1. store'[w][c] = store[w][c]
    OBVIOUS
  <2> QED
    BY <2>1 DEF GivenInv, CacheGiven
<1>2. ASSUME NEW q \in Requests, pc'[q] \in Answering
      PROVE  /\ pc[q] = pc'[q] /\ WorkerOf(q)' = WorkerOf(q) /\ ConvOf(q)' = ConvOf(q)
             /\ WorkerOf(q) \in Workers /\ ConvOf(q) \in Conversations
             /\ list[q] \in Requests
  <2>1. pc[q] = pc'[q] /\ call'[q] = call[q]
    BY <1>2
  <2> QED
    BY <1>2, <2>1, CallOf DEF WorkerOf, ConvOf, Answering, ListInv
<1>3. Held'
  <2> SUFFICES ASSUME NEW q \in Requests, pc'[q] \in Answering
               PROVE  /\ store'[WorkerOf(q)'][ConvOf(q)'] \in {list'[q], None}
                      /\ pc'[list'[q]] \in Answering \cup Ended
    BY DEF Held
  <2>1. /\ store[WorkerOf(q)][ConvOf(q)] \in {list[q], None}
        /\ pc[list[q]] \in Answering \cup Ended
    BY <1>2 DEF GivenInv, Held
  <2>2. store'[WorkerOf(q)][ConvOf(q)] \in {store[WorkerOf(q)][ConvOf(q)], None}
    BY <1>2
  <2> QED
    BY <1>2, <2>1, <2>2
<1>4. Given'
  BY <1>2 DEF GivenInv, Given
<1>5. RecordedTurn'
  BY <1>2 DEF GivenInv, RecordedTurn, Answering
<1> QED
  BY <1>1, <1>3, <1>4, <1>5 DEF GivenInv

(* The steps that neither save an answer nor touch a list object. *)
LEMMA GivenIdles ==
    ASSUME RowsInv, GivenInv,
           \/ \E r \in Requests, o \in Ops, c \in Conversations, w \in Workers :
                 Begin(r, o, c, w)
           \/ \E r \in Requests : \/ WipeHistory(r) \/ OpenTransaction(r)
                                  \/ SaveQuestion(r) \/ ReadPrompt(r)
                                  \/ MissHistory(r) \/ Fail(r)
           \/ \E w \in Workers : Restart(w)
           \/ UNCHANGED vars
    PROVE  GivenInv'
<1>0. TypeOK /\ CallInv /\ ListInv /\ BaseInv
  BY DEF RowsInv, BaseInv
<1>1. \A c \in Conversations : Answered(db', c) \subseteq Answered(db, c)
  <2>1. CASE db' = db
    BY <2>1
  <2>2. ASSUME NEW r \in Requests, WipeHistory(r)
        PROVE  \A c \in Conversations : Answered(db', c) \subseteq Answered(db, c)
    BY <1>0, <2>2, WipeShrinks, AnsweredShrinks
  <2>3. ASSUME NEW r \in Requests, SaveQuestion(r), NEW c \in Conversations,
               NEW t \in Answered(db', c)
        PROVE  t \in Answered(db, c)
    <3>1. /\ SaveMessage(r, "user", Hidden(r)) /\ pc[r] = "question"
          /\ call[r] \in Call
      BY <1>0, <2>3 DEF SaveQuestion, CallInv
    <3>2. "user" \in Roles /\ Hidden(r) \in BOOLEAN
      BY DEF Roles, Hidden
    <3> HIDE DEF SaveMessage, Hidden, Answered
    <3> QED
      BY <2>3, <3>1, <3>2, AnsweredAfterSave
  <2>4. \/ db' = db
        \/ \E r \in Requests : WipeHistory(r) \/ SaveQuestion(r)
    BY DEF Begin, OpenTransaction, ReadPrompt, MissHistory, Fail, Restart, vars
  <2> HIDE DEF WipeHistory, SaveQuestion, Answered
  <2> QED
    BY <2>1, <2>2, <2>3, <2>4
<1>2. \A w \in Workers, c \in Conversations : store'[w][c] \in {store[w][c], None}
  <2>1. CASE store' = store
    BY <2>1
  <2>2. ASSUME NEW v \in Workers, Restart(v)
        PROVE  \A w \in Workers, c \in Conversations : store'[w][c] \in {store[w][c], None}
    BY <1>0, <2>2 DEF Restart, TypeOK
  <2>3. store' = store \/ \E v \in Workers : Restart(v)
    BY DEF Begin, WipeHistory, OpenTransaction, SaveQuestion, ReadPrompt, MissHistory,
           Fail, vars, cacheVars
  <2> QED
    BY <2>1, <2>2, <2>3
<1>3. UNCHANGED <<history, list, context>>
  BY DEF Begin, WipeHistory, OpenTransaction, SaveQuestion, ReadPrompt, MissHistory,
         Fail, Restart, vars, cacheVars, requestVars
<1> DEFINE Settled(q) ==
             /\ pc'[q] \in Answering => pc'[q] = pc[q] /\ call'[q] = call[q]
             /\ pc[q] \in Answering \cup Ended => pc'[q] \in Answering \cup Ended
<1>4. ASSUME NEW q \in Requests
      PROVE  Settled(q)
  <2>1. ASSUME NEW r \in Requests, NEW o \in Ops, NEW c \in Conversations,
               NEW w \in Workers, Begin(r, o, c, w)
        PROVE  Settled(q)
    <3>1. /\ pc[r] = "idle" /\ pc'[r] \in {"wipe", "question"}
          /\ q # r => pc'[q] = pc[q] /\ call'[q] = call[q]
      BY <1>0, <2>1, BeginSteps
    <3> QED
      BY <3>1, StepNames
  <2>2. ASSUME NEW r \in Requests,
               \/ WipeHistory(r) \/ OpenTransaction(r) \/ SaveQuestion(r)
               \/ ReadPrompt(r) \/ MissHistory(r)
        PROVE  Settled(q)
    <3>1. /\ call' = call
          /\ pc[r] \in {"wipe", "question", "answer", "prompt", "history"}
          /\ \/ pc' = pc
             \/ pc[r] # "answer"
                /\ \E x \in {"question", "done", "prompt", "history", "loading"} :
                      pc' = [pc EXCEPT ![r] = x]
      BY <2>2 DEF WipeHistory, OpenTransaction, SaveQuestion, ReadPrompt, MissHistory
    <3> QED
      BY <1>0, <3>1 DEF TypeOK, Answering, Ended
  <2>3. ASSUME NEW r \in Requests, Fail(r)
        PROVE  Settled(q)
    BY <1>0, <2>3 DEF Fail, TypeOK, Answering, Ended
  <2>4. ASSUME NEW w \in Workers, Restart(w)
        PROVE  Settled(q)
    BY <1>0, <2>4 DEF Restart, TypeOK, Answering, Ended
  <2>5. CASE UNCHANGED vars
    BY <2>5 DEF vars, requestVars
  <2> QED
    BY <2>1, <2>2, <2>3, <2>4, <2>5
<1> HIDE DEF GivenInv
<1> QED
  BY <1>0, <1>1, <1>2, <1>3, <1>4, GivenKept

(* A cached history goes to the request, and it holds every answered turn. *)
LEMMA GivenCached ==
    ASSUME RowsInv, GivenInv, NEW r \in Requests, GetCachedHistory(r)
    PROVE  GivenInv'
<1> DEFINE w == WorkerOf(r)
           c == ConvOf(r)
           l == store[w][c]
<1>0. TypeOK /\ CallInv /\ ListInv
  BY DEF RowsInv, BaseInv
<1>1. /\ pc[r] = "history" /\ l # None
      /\ list' = [list EXCEPT ![r] = l]
      /\ context' = [context EXCEPT ![r] = history[l]]
      /\ pc' = [pc EXCEPT ![r] = "llm"]
      /\ UNCHANGED <<db, store, history, call>>
  BY DEF GetCachedHistory
<1>2. w \in Workers /\ c \in Conversations
  BY <1>0, <1>1, CallOf
<1>3. pc[l] \in Answering \cup Ended
  BY <1>0, <1>1, <1>2 DEF ListInv
<1>4. /\ list'[r] = l /\ context'[r] = history[l] /\ pc'[r] = "llm"
      /\ \A q \in Requests \ {r} :
            list'[q] = list[q] /\ context'[q] = context[q] /\ pc'[q] = pc[q]
      /\ \A q \in Requests : WorkerOf(q)' = WorkerOf(q) /\ ConvOf(q)' = ConvOf(q)
  BY <1>0, <1>1 DEF TypeOK, WorkerOf, ConvOf
<1>5. CacheGiven'
  BY <1>1 DEF GivenInv, CacheGiven
<1>6. ASSUME NEW q, pc[q] \in Answering \cup Ended
      PROVE  pc'[q] = pc[q]
  BY <1>0, <1>1, <1>6, StepNames DEF TypeOK
<1>7. Held'
  BY <1>1, <1>3, <1>4, <1>6 DEF GivenInv, Held
<1>8. Given'
  <2> SUFFICES ASSUME NEW q \in Requests, pc'[q] \in Answering,
                      NEW t \in Answered(db, ConvOf(q)), t.req # q
               PROVE  t \in context'[q]
    BY <1>1, <1>4 DEF Given
  <2>1. CASE q = r
    BY <1>1, <1>2, <1>4, <2>1 DEF GivenInv, CacheGiven
  <2>2. CASE q # r
    BY <1>4, <2>2 DEF GivenInv, Given
  <2> QED
    BY <2>1, <2>2
<1>9. RecordedTurn'
  BY <1>1, <1>4 DEF GivenInv, RecordedTurn
<1> QED
  BY <1>5, <1>7, <1>8, <1>9 DEF GivenInv

(* A loaded history is what the conversation shows, and no other request   *)
(* of the conversation is under way.                                       *)
LEMMA GivenLoaded ==
    ASSUME RowsInv, SerialInv, GivenInv, NEW r \in Requests, LoadHistory(r)
    PROVE  GivenInv'
<1> DEFINE w == WorkerOf(r)
           c == ConvOf(r)
           loaded == VisibleTurns(View(r), c)
<1>0. TypeOK /\ CallInv /\ ListInv /\ LockInv /\ Undisturbed /\ Alone
  BY DEF RowsInv, BaseInv, SerialInv
<1>1. /\ pc[r] = "loading" /\ Insert(w, c, r)
      /\ history' = [history EXCEPT ![r] = loaded]
      /\ list' = [list EXCEPT ![r] = r]
      /\ context' = [context EXCEPT ![r] = loaded]
      /\ pc' = [pc EXCEPT ![r] = "llm"]
      /\ UNCHANGED <<db, call>>
  BY DEF LoadHistory
<1>2. w \in Workers /\ c \in Conversations /\ InFlight(r)
  BY <1>0, <1>1, CallOf DEF InFlight
<1>3. /\ list'[r] = r /\ context'[r] = loaded /\ pc'[r] = "llm" /\ history'[r] = loaded
      /\ \A q \in Requests \ {r} :
            /\ list'[q] = list[q] /\ context'[q] = context[q] /\ pc'[q] = pc[q]
            /\ history'[q] = history[q]
      /\ \A q \in Requests : WorkerOf(q)' = WorkerOf(q) /\ ConvOf(q)' = ConvOf(q)
  BY <1>0, <1>1 DEF TypeOK, WorkerOf, ConvOf
<1>4. Answered(db, c) \subseteq loaded
  <2>1. /\ SessionsOf(View(r), c) = SessionsOf(db, c)
        /\ \A s \in SessionsOf(db, c) : MessagesOf(View(r), s.id) = MessagesOf(db, s.id)
    BY <1>0, <1>2, ViewIsStored
  <2>2. VisibleTurns(db, c) \subseteq loaded
    BY <2>1 DEF VisibleTurns, MessagesOf
  <2> QED
    BY <2>2 DEF Answered
<1>5. /\ \A v \in Workers, d \in Conversations :
            v # w \/ d # c => store'[v][d] \in {store[v][d], None}
      /\ store'[w][c] \in {r, None}
  <2>1. store[w][c] = None /\ CacheInv
    BY <1>0, <1>1 DEF LockInv, RowsInv, BaseInv
  <2> HIDE DEF Insert, w, c
  <2>2. store'[w][c] \in {store[w][c], r, None}
    BY <1>0, <1>1, <1>2, <2>1, InsertMissing
  <2>3. \A v \in Workers, d \in Conversations :
            v # w \/ d # c => store'[v][d] \in {store[v][d], None}
    BY <1>0, <1>1, <1>2, InsertElsewhere
  <2> QED
    BY <2>1, <2>2, <2>3
<1>6. ASSUME NEW q, pc[q] \in Answering \cup Ended
      PROVE  pc'[q] = pc[q] /\ q # r
  BY <1>0, <1>1, <1>6, StepNames DEF TypeOK
<1>7. CacheGiven'
  <2> SUFFICES ASSUME NEW v \in Workers, NEW d \in Conversations, store'[v][d] # None
               PROVE  Answered(db, d) \subseteq history'[store'[v][d]]
    BY <1>1 DEF CacheGiven
  <2>1. CASE v = w /\ d = c
    BY <1>3, <1>4, <1>5, <2>1
  <2>2. CASE v # w \/ d # c
    <3>1. store'[v][d] = store[v][d] /\ store[v][d] # None
      BY <1>5, <2>2
    <3>2. store[v][d] \in Requests \ {r}
      BY <1>0, <1>6, <3>1 DEF TypeOK, ListInv
    <3> QED
      BY <1>3, <3>1, <3>2 DEF GivenInv, CacheGiven
  <2> QED
    BY <2>1, <2>2
<1>8. Held'
  <2> SUFFICES ASSUME NEW q \in Requests, pc'[q] \in Answering
               PROVE  /\ store'[WorkerOf(q)][ConvOf(q)] \in {list'[q], None}
                      /\ pc'[list'[q]] \in Answering \cup Ended
    BY <1>3 DEF Held
  <2>1. CASE q = r
    BY <1>3, <1>5, <2>1 DEF Answering
  <2>2. CASE q # r
    <3>1. pc[q] \in Answering
      BY <1>3, <2>2
    <3>2. InFlight(q)
      BY <3>1 DEF Answering, InFlight
    <3>3. ConvOf(q) # c /\ WorkerOf(q) \in Workers /\ ConvOf(q) \in Conversations
      BY <1>0, <1>2, <2>2, <3>2, CallOf DEF Alone, InFlight
    <3>4. store'[WorkerOf(q)][ConvOf(q)] \in {store[WorkerOf(q)][ConvOf(q)], None}
      BY <1>5, <3>3
    <3> QED
      BY <1>3, <1>6, <2>2, <3>1, <3>4 DEF GivenInv, Held
  <2> QED
    BY <2>1, <2>2
<1>9. Given'
  <2> SUFFICES ASSUME NEW q \in Requests, pc'[q] \in Answering,
                      NEW t \in Answered(db, ConvOf(q)), t.req # q
               PROVE  t \in context'[q]
    BY <1>1, <1>3 DEF Given
  <2>1. CASE q = r
    BY <1>3, <1>4, <2>1
  <2>2. CASE q # r
    BY <1>3, <2>2 DEF GivenInv, Given
  <2> QED
    BY <2>1, <2>2
<1>10. RecordedTurn'
  <2> SUFFICES ASSUME NEW q \in Requests, pc'[q] = "answer", NEW role \in Roles
               PROVE  [req |-> q, role |-> role] \in history'[list'[q]]
    BY DEF RecordedTurn
  <2>1. q # r /\ pc[q] = "answer"
    BY <1>3
  <2>2. list[q] \in Requests \ {r}
    BY <1>0, <1>6, <2>1 DEF ListInv, GivenInv, Held, Answering
  <2> QED
    BY <1>3, <2>1, <2>2 DEF GivenInv, RecordedTurn
<1> QED
  BY <1>7, <1>8, <1>9, <1>10 DEF GivenInv

(* The turn is added to the list the request holds. *)
LEMMA GivenRecorded ==
    ASSUME RowsInv, GivenInv, NEW r \in Requests, RecordTurn(r)
    PROVE  GivenInv'
<1> DEFINE added == {[req |-> r, role |-> role] : role \in Roles}
<1>0. TypeOK /\ CallInv /\ ListInv
  BY DEF RowsInv, BaseInv
<1>1. /\ pc[r] = "llm" /\ list[r] \in Requests
      /\ history' = [history EXCEPT ![list[r]] = @ \cup added]
      /\ pc' = [pc EXCEPT ![r] = "answer"]
      /\ UNCHANGED <<db, store, call, list, context>>
  BY <1>0 DEF RecordTurn, ListInv, Answering
<1>2. /\ \A l \in Requests : history[l] \subseteq history'[l]
      /\ added \subseteq history'[list[r]]
      /\ pc'[r] = "answer" /\ \A q \in Requests \ {r} : pc'[q] = pc[q]
      /\ \A q \in Requests : WorkerOf(q)' = WorkerOf(q) /\ ConvOf(q)' = ConvOf(q)
  BY <1>0, <1>1 DEF TypeOK, WorkerOf, ConvOf
<1>3. ASSUME NEW q \in Requests
      PROVE  /\ pc'[q] \in Answering => pc[q] \in Answering /\ list[q] \in Requests
             /\ pc[q] \in Answering \cup Ended => pc'[q] \in Answering \cup Ended
  BY <1>0, <1>1, <1>2 DEF Answering, ListInv
<1>4. CacheGiven'
  <2> SUFFICES ASSUME NEW v \in Workers, NEW d \in Conversations, store[v][d] # None
               PROVE  Answered(db, d) \subseteq history'[store[v][d]]
    BY <1>1 DEF CacheGiven
  <2>1. store[v][d] \in Requests
    BY <1>0 DEF TypeOK
  <2> QED
    BY <1>2, <2>1 DEF GivenInv, CacheGiven
<1>5. Held'
  BY <1>1, <1>2, <1>3 DEF GivenInv, Held
<1>6. Given'
  BY <1>1, <1>2, <1>3 DEF GivenInv, Given
<1>7. RecordedTurn'
  <2> SUFFICES ASSUME NEW q \in Requests, pc'[q] = "answer", NEW role \in Roles
               PROVE  [req |-> q, role |-> role] \in history'[list[q]]
    BY <1>1 DEF RecordedTurn
  <2>1. CASE q = r
    BY <1>2, <2>1
  <2>2. CASE q # r
    BY <1>2, <1>3, <2>2 DEF GivenInv, RecordedTurn, Answering
  <2> QED
    BY <2>1, <2>2
<1> QED
  BY <1>4, <1>5, <1>6, <1>7 DEF GivenInv

(* A saved answer is already in the cached list, and its request is done.  *)
LEMMA GivenSaved ==
    ASSUME OneWorker, RowsInv, SerialInv, GivenInv, NEW r \in Requests, SaveAnswer(r)
    PROVE  GivenInv'
<1>0. TypeOK /\ CallInv /\ ListInv /\ Alone
  BY DEF RowsInv, BaseInv, SerialInv
<1>1. /\ pc[r] = "answer" /\ SaveMessage(r, "assistant", FALSE)
      /\ pc' = [pc EXCEPT ![r] = "done"]
      /\ UNCHANGED <<store, history, call, list, context>>
  BY DEF SaveAnswer, cacheVars
<1>2. /\ pc'[r] = "done" /\ \A q \in Requests \ {r} : pc'[q] = pc[q]
      /\ \A q \in Requests : WorkerOf(q)' = WorkerOf(q) /\ ConvOf(q)' = ConvOf(q)
  BY <1>0, <1>1 DEF TypeOK, WorkerOf, ConvOf
<1>3. WorkerOf(r) \in Workers /\ ConvOf(r) \in Conversations /\ InFlight(r)
  BY <1>0, <1>1, CallOf DEF InFlight
<1>4. ASSUME NEW c \in Conversations, NEW t \in Answered(db', c), t \notin Answered(db, c)
      PROVE  c = ConvOf(r) /\ t.req = r /\ t \in history[list[r]]
  <2>1. call[r] \in Call /\ "assistant" \in Roles /\ FALSE \in BOOLEAN /\ pc[r] # "done"
    BY <1>0, <1>1 DEF CallInv, Roles
  <2>2. t \in Turn /\ t.req = r /\ c = ConvOf(r)
    <3> HIDE DEF SaveMessage, Answered
    <3> QED
      BY <1>1, <1>4, <2>1, AnsweredAfterSave
  <2>3. t = [req |-> r, role |-> t.role] /\ t.role \in Roles
    BY <2>2 DEF Turn
  <2> QED
    BY <1>1, <2>2, <2>3 DEF GivenInv, RecordedTurn
<1>5. CacheGiven'
  <2> SUFFICES ASSUME NEW v \in Workers, NEW d \in Conversations, store[v][d] # None,
                      NEW t \in Answered(db', d)
               PROVE  t \in history[store[v][d]]
    BY <1>1 DEF CacheGiven
  <2>1. CASE t \in Answered(db, d)
    BY <2>1 DEF GivenInv, CacheGiven
  <2>2. CASE t \notin Answered(db, d)
    <3>1. d = ConvOf(r) /\ t \in history[list[r]]
      BY <1>4, <2>2
    <3>2. v = WorkerOf(r)
      BY <1>3 DEF OneWorker
    <3>3. store[v][d] = list[r]
      BY <1>1, <3>1, <3>2 DEF GivenInv, Held, Answering
    <3> QED
      BY <3>1, <3>3
  <2> QED
    BY <2>1, <2>2
<1>6. ASSUME NEW q \in Requests
      PROVE  /\ pc'[q] \in Answering => q # r /\ pc[q] = pc'[q] /\ ConvOf(q) # ConvOf(r)
             /\ pc[q] \in Answering \cup Ended => pc'[q] \in Answering \cup Ended
  <2>1. pc'[q] \in Answering => q # r /\ pc[q] = pc'[q]
    BY <1>2 DEF Answering
  <2>2. pc'[q] \in Answering => ConvOf(q) # ConvOf(r)
    BY <1>0, <1>3, <2>1 DEF Alone, InFlight, Answering
  <2>3. pc[q] \in Answering \cup Ended => pc'[q] \in Answering \cup Ended
    BY <1>2 DEF Ended
  <2> QED
    BY <2>1, <2>2, <2>3
<1>7. Held'
  <2> SUFFICES ASSUME NEW q \in Requests, pc'[q] \in Answering
               PROVE  /\ store[WorkerOf(q)][ConvOf(q)] \in {list[q], None}
                      /\ pc'[list[q]] \in Answering \cup Ended
    BY <1>1, <1>2 DEF Held
  <2>1. pc[q] \in Answering /\ list[q] \in Requests
    BY <1>0, <1>6 DEF ListInv
  <2> QED
    BY <1>6, <2>1 DEF GivenInv, Held
<1>8. Given'
  <2> SUFFICES ASSUME NEW q \in Requests, pc'[q] \in Answering,
                      NEW t \in Answered(db', ConvOf(q)), t.req # q
               PROVE  t \in context[q]
    BY <1>1, <1>2 DEF Given
  <2>1. pc[q] \in Answering /\ ConvOf(q) # ConvOf(r) /\ ConvOf(q) \in Conversations
    BY <1>0, <1>6, CallOf DEF Answering
  <2>2. t \in Answered(db, ConvOf(q))
    BY <1>4, <2>1
  <2> QED
    BY <2>1, <2>2 DEF GivenInv, Given
<1>9. RecordedTurn'
  BY <1>1, <1>2 DEF GivenInv, RecordedTurn
<1> QED
  BY <1>5, <1>7, <1>8, <1>9 DEF GivenInv

(* What the bot has been given, or will load, is complete after every step. *)
LEMMA GivenStep ==
    ASSUME OneWorker, RowsInv, SerialInv, GivenInv, [Next]_vars
    PROVE  GivenInv'
<1>1. \/ \E r \in Requests, o \in Ops, c \in Conversations, w \in Workers :
            Begin(r, o, c, w)
      \/ \E r \in Requests : \/ WipeHistory(r) \/ OpenTransaction(r)
                             \/ SaveQuestion(r) \/ ReadPrompt(r)
                             \/ MissHistory(r) \/ Fail(r)
      \/ \E w \in Workers : Restart(w)
      \/ UNCHANGED vars
      \/ \E r \in Requests : \/ GetCachedHistory(r) \/ LoadHistory(r)
                             \/ RecordTurn(r) \/ SaveAnswer(r)
  BY DEF Next, Advance
<1> QED
  BY <1>1, GivenIdles, GivenCached, GivenLoaded, GivenRecorded, GivenSaved

(* The bot is given every turn it has answered, whatever the cache         *)
(* evicted, a restart lost or a failed request left behind: a history is   *)
(* loaded from all that is stored, and only the request that holds the     *)
(* cached list adds to what is stored.                                     *)
THEOREM AnsweredGiven ==
    ASSUME OneAtATime, OneWorker
    PROVE  Spec => []AnsweredTurnsAreGiven
<1> DEFINE Inv == RowsInv /\ SerialInv /\ GivenInv
<1>1. Init => Inv
  <2>1. Init => GivenInv
    BY DEF Init, GivenInv, CacheGiven, Held, Given, RecordedTurn, Answering
  <2> QED
    BY <2>1, SerialInit
<1>2. Inv /\ [Next]_vars => Inv'
  BY SerialStep, GivenStep
<1>3. Inv => AnsweredTurnsAreGiven
  BY GivenSuffices DEF GivenInv
<1> HIDE DEF Inv
<1> QED
  BY <1>1, <1>2, <1>3, PTL DEF Spec

-----------------------------------------------------------------------------
(* A stored conversation is a dialogue *)

(* The messages of a conversation are numbered from 0 on, each once. *)
NumberedSet(M) ==
    /\ IsFiniteSet(M)
    /\ \A m, x \in M : m.order = x.order => m = x
    /\ {m.order : m \in M} = 0..(Cardinality(M) - 1)

Numbered == \A c \in Conversations : NumberedSet(MessagesIn(db, c))

\* A conversation's messages, as a sequence.
Listed(M) == [n \in 1..Cardinality(M) |-> TurnAt(M, n - 1)]

(* The message numbered n is the turn at place n + 1, and there is one for *)
(* each place.                                                             *)
LEMMA ListedTurns ==
    ASSUME NEW M, NumberedSet(M)
    PROVE  /\ Cardinality(M) \in Nat
           /\ DOMAIN Listed(M) = 1..Cardinality(M) /\ Len(Listed(M)) = Cardinality(M)
           /\ \A m \in M : /\ m.order \in 0..(Cardinality(M) - 1)
                           /\ Listed(M)[m.order + 1] = m.turn
           /\ \A n \in 1..Cardinality(M) :
                 \E m \in M : m.order = n - 1 /\ Listed(M)[n] = m.turn
<1>1. Cardinality(M) \in Nat
  BY FS_CardinalityType DEF NumberedSet
<1>2. \A m \in M : TurnAt(M, m.order) = m.turn
  <2> SUFFICES ASSUME NEW m \in M
               PROVE  TurnAt(M, m.order) = m.turn
    OBVIOUS
  <2>1. {x \in M : x.order = m.order} = {m}
    BY DEF NumberedSet
  <2> QED
    BY <2>1 DEF TurnAt
<1>3. /\ \A m \in M : m.order \in 0..(Cardinality(M) - 1)
      /\ \A n \in 0..(Cardinality(M) - 1) : \E m \in M : m.order = n
  BY DEF NumberedSet
<1> DEFINE k == Cardinality(M)
<1>4. Listed(M) = [n \in 1..k |-> TurnAt(M, n - 1)]
  BY DEF Listed
<1> HIDE DEF k
<1>5. k \in Nat /\ k = Cardinality(M)
  BY <1>1 DEF k
<1>6. DOMAIN Listed(M) = 1..k /\ Len(Listed(M)) = k
  BY <1>4, <1>5
<1>7. \A m \in M : m.order \in 0..(k - 1) /\ Listed(M)[m.order + 1] = m.turn
  BY <1>2, <1>3, <1>4, <1>5
<1>8. \A n \in 1..k : \E m \in M : m.order = n - 1 /\ Listed(M)[n] = m.turn
  <2> SUFFICES ASSUME NEW n \in 1..k
               PROVE  \E m \in M : m.order = n - 1 /\ Listed(M)[n] = m.turn
    OBVIOUS
  <2>1. PICK m \in M : m.order = n - 1
    BY <1>3, <1>5
  <2> QED
    BY <1>2, <1>4, <2>1
<1> QED
  BY <1>1, <1>5, <1>6, <1>7, <1>8

(* A message numbered after the others is appended. *)
LEMMA ListedAppend ==
    ASSUME NEW M, NumberedSet(M), NEW m0, m0.order \in Nat,
           \A m \in M : m.order < m0.order,
           m0.order = 0 \/ \E m \in M : m0.order = m.order + 1
    PROVE  /\ NumberedSet(M \cup {m0})
           /\ Listed(M \cup {m0}) = Append(Listed(M), m0.turn)
<1> DEFINE k == Cardinality(M)
           N == M \cup {m0}
<1>1. k \in Nat /\ \A m \in M : m.order \in 0..(k - 1)
  BY ListedTurns
<1>2. m0.order = k
  <2>1. CASE k = 0
    BY <1>1, <2>1
  <2>2. CASE k > 0
    <3>1. PICK m \in M : m.order = k - 1
      BY <1>1, <2>2 DEF NumberedSet
    <3> QED
      BY <1>1, <3>1
  <2> QED
    BY <1>1, <2>1, <2>2
<1>3. m0 \notin M /\ IsFiniteSet(M)
  BY <1>1, <1>2 DEF NumberedSet
<1>4. IsFiniteSet(N) /\ Cardinality(N) = k + 1
  BY <1>3, FS_AddElement
<1>5. NumberedSet(N)
  <2>1. \A m, x \in N : m.order = x.order => m = x
    BY <1>1, <1>2 DEF NumberedSet
  <2>2. {m.order : m \in N} = 0..k
    <3>1. {m.order : m \in N} = {m.order : m \in M} \cup {m0.order}
      OBVIOUS
    <3>2. {m.order : m \in M} = 0..(k - 1)
      BY DEF NumberedSet
    <3> HIDE DEF k
    <3> QED
      BY <1>1, <1>2, <3>1, <3>2
  <2>3. (k + 1) - 1 = k
    BY <1>1
  <2> QED
    BY <1>4, <2>1, <2>2, <2>3 DEF NumberedSet
<1>6. Listed(N) = Append(Listed(M), m0.turn)
  <2>1. /\ DOMAIN Listed(M) = 1..k /\ Len(Listed(M)) = k
        /\ \A n \in 1..k : \E m \in M : m.order = n - 1 /\ Listed(M)[n] = m.turn
    BY ListedTurns
  <2>2. /\ DOMAIN Listed(N) = 1..(k + 1)
        /\ \A m \in N : Listed(N)[m.order + 1] = m.turn
    BY <1>4, <1>5, ListedTurns
  <2>3. \A n \in 1..k : Listed(N)[n] = Listed(M)[n]
    <3> SUFFICES ASSUME NEW n \in 1..k
                 PROVE  Listed(N)[n] = Listed(M)[n]
      OBVIOUS
    <3>1. PICK m \in M : m.order = n - 1 /\ Listed(M)[n] = m.turn
      BY <2>1
    <3>2. m \in N /\ m.order + 1 = n
      BY <1>1, <3>1
    <3> QED
      BY <2>2, <3>1, <3>2
  <2>4. Listed(N)[k + 1] = m0.turn
    BY <1>2, <2>2
  <2>5. Listed(N) = [n \in 1..(k + 1) |-> IF n = k + 1 THEN m0.turn ELSE Listed(M)[n]]
    <3>1. Listed(N) = [n \in 1..(k + 1) |-> Listed(N)[n]]
      BY <1>4 DEF Listed
    <3> HIDE DEF N, k
    <3>2. ASSUME NEW n \in 1..(k + 1)
          PROVE  Listed(N)[n] = IF n = k + 1 THEN m0.turn ELSE Listed(M)[n]
      <4>1. n = k + 1 \/ (n # k + 1 /\ n \in 1..k)
        BY <1>1, <3>2
      <4> QED
        BY <2>3, <2>4, <4>1
    <3> QED
      BY <3>1, <3>2
  <2>6. Append(Listed(M), m0.turn)
          = [n \in 1..(Len(Listed(M)) + 1) |->
               IF n = Len(Listed(M)) + 1 THEN m0.turn ELSE Listed(M)[n]]
    BY DEF Append
  <2> HIDE DEF N, k
  <2> QED
    BY <2>1, <2>5, <2>6
<1> QED
  BY <1>5, <1>6

(* A conversation without messages is the empty sequence. *)
LEMMA ListedNone == Listed({}) = <<>> /\ NumberedSet({})
<1>1. Cardinality({}) = 0 /\ IsFiniteSet({})
  BY FS_EmptySet
<1>2. Listed({}) = <<>>
  BY <1>1 DEF Listed
<1> QED
  BY <1>1, <1>2 DEF NumberedSet

(* The messages of a conversation are those of its one session, or none. *)
LEMMA MessagesOfSession ==
    ASSUME NEW rows, NEW c, NEW s, SessionsOf(rows, c) = {s}
    PROVE  MessagesIn(rows, c) = MessagesOf(rows, s.id)
BY DEF MessagesIn, MessagesOf

LEMMA MessagesOfNone ==
    ASSUME NEW rows, NEW c, SessionsOf(rows, c) = {}
    PROVE  MessagesIn(rows, c) = {}
BY DEF MessagesIn

(* A save appends its turn to the conversation. *)
LEMMA PostAppends ==
    ASSUME RowsInv, OneSession, Numbered, NEW r \in Requests,
           ConvOf(r) \in Conversations,
           NEW role \in Roles, NEW hide \in BOOLEAN, NEW id \in SessionId, NEW n \in Nat,
           Posts(r, role, hide, id, n)
    PROVE  /\ NumberedSet(MessagesIn(db', ConvOf(r)))
           /\ Transcript(db', ConvOf(r))
                = Append(Transcript(db, ConvOf(r)), [req |-> r, role |-> role])
<1> DEFINE c == ConvOf(r)
           s0 == [id |-> id, conv |-> c]
           m0 == [session |-> id, order |-> n,
                  turn |-> [req |-> r, role |-> role], hide |-> hide]
           M == MessagesOf(db, id)
<1>1. /\ db'.sessions = db.sessions \cup {s0}
      /\ db'.messages = db.messages \cup {m0}
      /\ n \in NextOrders(db, id)
      /\ \/ SessionsOf(db, c) = {} /\ M = {}
         \/ SessionsOf(db, c) = {s0}
  BY DEF Posts
<1>2. MessagesIn(db, c) = M
  <2>1. CASE SessionsOf(db, c) = {} /\ M = {}
    BY <2>1, MessagesOfNone
  <2>2. CASE SessionsOf(db, c) = {s0}
    <3>1. s0.id = id
      OBVIOUS
    <3> HIDE DEF s0, c
    <3> QED
      BY <2>2, <3>1, MessagesOfSession
  <2> QED
    BY <1>1, <2>1, <2>2
<1>3. MessagesIn(db', c) = M \cup {m0}
  <2>1. SessionsOf(db', c) = {s0}
    BY <1>1 DEF SessionsOf
  <2>2. MessagesOf(db', id) = M \cup {m0}
    BY <1>1 DEF MessagesOf
  <2>3. s0.id = id
    OBVIOUS
  <2> HIDE DEF s0, c, M, m0
  <2> QED
    BY <2>1, <2>2, <2>3, MessagesOfSession
<1>4. NumberedSet(M)
  BY <1>2 DEF Numbered
<1>5. /\ m0.order = n /\ n \in Nat /\ m0.turn = [req |-> r, role |-> role]
      /\ \A m \in M : m.order < n
      /\ n = 0 \/ \E m \in M : n = m.order + 1
  BY <1>1 DEF NextOrders
<1> HIDE DEF m0, M
<1>6. /\ NumberedSet(M \cup {m0})
      /\ Listed(M \cup {m0}) = Append(Listed(M), m0.turn)
  BY <1>4, <1>5, ListedAppend
<1>7. /\ Transcript(db, c) = Listed(MessagesIn(db, c))
      /\ Transcript(db', c) = Listed(MessagesIn(db', c))
  BY DEF Transcript, Listed
<1> QED
  BY <1>2, <1>3, <1>5, <1>6, <1>7

(* A wipe leaves the conversation as it is, or empties it. *)
LEMMA WipeEmpties ==
    ASSUME NEW r \in Requests, Wipes(r), db' # db
    PROVE  MessagesIn(db', ConvOf(r)) = {} /\ Transcript(db', ConvOf(r)) = <<>>
<1> DEFINE c == ConvOf(r)
           ids == {s.id : s \in SessionsOf(db, c)}
<1>1. db'.sessions = {s \in db.sessions : s.id \notin ids}
  BY DEF Wipes
<1>2. SessionsOf(db', c) = {}
  BY <1>1 DEF SessionsOf
<1>3. MessagesIn(db', c) = {}
  BY <1>2, MessagesOfNone
<1>4. Transcript(db', c) = Listed(MessagesIn(db', c))
  BY DEF Transcript, Listed
<1> QED
  BY <1>3, <1>4, ListedNone

(* Nor does either change another conversation. *)
LEMMA OthersSame ==
    ASSUME RowsInv, NEW r \in Requests, pc[r] # "idle",
           \/ Wipes(r)
           \/ \E role \in Roles, hide \in BOOLEAN, id \in SessionId, n \in Nat :
                 Posts(r, role, hide, id, n),
           NEW c \in Conversations, c # ConvOf(r)
    PROVE  MessagesIn(db', c) = MessagesIn(db, c) /\ Transcript(db', c) = Transcript(db, c)
<1>1. /\ SessionsOf(db', c) = SessionsOf(db, c)
      /\ \A s \in SessionsOf(db, c) : MessagesOf(db', s.id) = MessagesOf(db, s.id)
  <2> HIDE DEF Wipes, Posts
  <2> QED
    BY OthersKeep
<1>2. \A m : m \in MessagesIn(db', c)
            <=> \E s \in SessionsOf(db, c) : m \in MessagesOf(db', s.id)
  BY <1>1 DEF MessagesIn, MessagesOf
<1>3. \A m : m \in MessagesIn(db, c)
            <=> \E s \in SessionsOf(db, c) : m \in MessagesOf(db, s.id)
  BY DEF MessagesIn, MessagesOf
<1>4. MessagesIn(db', c) = MessagesIn(db, c)
  BY <1>1, <1>2, <1>3
<1> QED
  BY <1>4 DEF Transcript

(* Every conversation, as Dialogue has it. *)
Talk == [c \in Conversations |-> Transcript(db, c)]

(* A turn of r is in a transcript only when its message is stored. *)
LEMMA SpokenTurns ==
    ASSUME Numbered, NEW c \in Conversations
    PROVE  /\ Len(Talk[c]) \in Nat /\ DOMAIN Talk[c] = 1..Len(Talk[c])
           /\ \A n \in 1..Len(Talk[c]) : \E m \in MessagesIn(db, c) : Talk[c][n] = m.turn
           /\ \A m \in MessagesIn(db, c) :
                (\A x \in MessagesIn(db, c) : x.order <= m.order) =>
                    /\ Len(Talk[c]) > 0
                    /\ Talk[c][Len(Talk[c])] = m.turn
<1> DEFINE M == MessagesIn(db, c)
           k == Cardinality(M)
<1>1. Talk[c] = Listed(M)
  BY DEF Talk, Transcript, Listed
<1>2. NumberedSet(M)
  BY DEF Numbered
<1> HIDE DEF M
<1>3. /\ k \in Nat /\ DOMAIN Listed(M) = 1..k /\ Len(Listed(M)) = k
      /\ \A m \in M : m.order \in 0..(k - 1) /\ Listed(M)[m.order + 1] = m.turn
      /\ \A n \in 1..k : \E m \in M : m.order = n - 1 /\ Listed(M)[n] = m.turn
  BY <1>2, ListedTurns
<1> HIDE DEF k
<1>4. ASSUME NEW m \in M, \A x \in M : x.order <= m.order
      PROVE  k > 0 /\ Listed(M)[k] = m.turn
  <2>1. m.order \in 0..(k - 1) /\ k > 0
    BY <1>3
  <2>2. PICK x \in M : x.order = k - 1 /\ Listed(M)[k] = x.turn
    <3>1. k \in 1..k
      BY <1>3, <2>1
    <3> QED
      BY <1>3, <3>1
  <2>3. m.order + 1 = k
    BY <1>3, <1>4, <2>1, <2>2
  <2> QED
    BY <1>3, <2>1, <2>3
<1>5. /\ \A n \in 1..k : \E m \in M : Listed(M)[n] = m.turn
      /\ \A m \in M : (\A x \in M : x.order <= m.order) => k > 0 /\ Listed(M)[k] = m.turn
  BY <1>3, <1>4
<1>6. Len(Talk[c]) = k /\ Talk[c] = Listed(M)
  BY <1>1, <1>3
<1> QED
  BY <1>3, <1>5, <1>6 DEF M

(* The steps on rows, as steps of Dialogue. *)
LEMMA WipeIsWipe ==
    ASSUME RowsInv, Undisturbed, Numbered, NEW r \in Requests, WipeHistory(r)
    PROVE  Numbered' /\ (Talk' = Talk \/ Talk' = [Talk EXCEPT ![ConvOf(r)] = <<>>])
<1> DEFINE c == ConvOf(r)
<1>1. Wipes(r) /\ pc[r] = "wipe"
  <2> HIDE DEF Wipes, WipeHistory
  <2> QED
    BY WipeSteps
<1>2. CASE db' = db
  BY <1>2 DEF Numbered, Talk
<1>3. CASE db' # db
  <2>1. MessagesIn(db', c) = {} /\ Transcript(db', c) = <<>>
    <3> HIDE DEF Wipes
    <3> QED
      BY <1>1, <1>3, WipeEmpties
  <2>2. \A e \in Conversations \ {c} :
          MessagesIn(db', e) = MessagesIn(db, e) /\ Transcript(db', e) = Transcript(db, e)
    <3> HIDE DEF Wipes, Posts
    <3> QED
      BY <1>1, OthersSame
  <2> HIDE DEF c
  <2>3. Numbered'
    <3> SUFFICES ASSUME NEW e \in Conversations
                 PROVE  NumberedSet(MessagesIn(db', e))
      BY DEF Numbered, NumberedSet
    <3> QED
      BY <2>1, <2>2, ListedNone DEF Numbered
  <2>4. Talk' = [Talk EXCEPT ![c] = <<>>]
    BY <2>1, <2>2 DEF Talk
  <2> QED
    BY <2>3, <2>4 DEF c
<1> QED
  BY <1>2, <1>3

(* A save appends the request's turn to its conversation, and to no other. *)
LEMMA SaveIsAppend ==
    ASSUME RowsInv, SerialInv, Numbered, NEW r \in Requests,
           SaveQuestion(r) \/ SaveAnswer(r)
    PROVE  /\ Numbered'
           /\ ConvOf(r) \in Conversations
           /\ \E role \in Roles :
                /\ Talk' = [Talk EXCEPT ![ConvOf(r)] =
                              Append(@, [req |-> r, role |-> role])]
                /\ \/ role = "user" /\ pc[r] = "question"
                   \/ role = "assistant" /\ pc[r] = "answer"
<1> DEFINE c == ConvOf(r)
<1>0. Undisturbed /\ OneSession /\ BaseInv /\ TypeOK /\ CallInv
  BY DEF RowsInv, SerialInv, BaseInv
<1>1. PICK role \in Roles, hide \in BOOLEAN, id \in SessionId, n \in Nat :
        /\ Posts(r, role, hide, id, n)
        /\ \/ role = "user" /\ pc[r] = "question"
           \/ role = "assistant" /\ pc[r] = "answer"
  <2> HIDE DEF SaveQuestion, SaveAnswer, SaveMessage, Posts
  <2> QED
    BY <1>0, PostSteps
<1>2. c \in Conversations /\ pc[r] # "idle"
  BY <1>0, <1>1, CallOf
<1> HIDE DEF SaveQuestion, SaveAnswer, Posts
<1>3. /\ NumberedSet(MessagesIn(db', c))
      /\ Transcript(db', c) = Append(Transcript(db, c), [req |-> r, role |-> role])
  BY <1>0, <1>1, <1>2, PostAppends
<1>4. \A e \in Conversations \ {c} :
        MessagesIn(db', e) = MessagesIn(db, e) /\ Transcript(db', e) = Transcript(db, e)
  <2> HIDE DEF Wipes
  <2> QED
    BY <1>1, <1>2, OthersSame
<1> HIDE DEF c
<1>5. Numbered'
  <2> SUFFICES ASSUME NEW e \in Conversations
               PROVE  NumberedSet(MessagesIn(db', e))
    BY DEF Numbered, NumberedSet
  <2> QED
    BY <1>3, <1>4 DEF Numbered
<1>6. Talk' = [Talk EXCEPT ![c] = Append(@, [req |-> r, role |-> role])]
  BY <1>2, <1>3, <1>4 DEF Talk
<1> QED
  BY <1>1, <1>2, <1>5, <1>6 DEF c

(* A request has said nothing before it saves its question. *)
LEMMA AsksFirst ==
    ASSUME RowsInv, Numbered, NEW r \in Requests, pc[r] = "question",
           NEW c \in Conversations, NEW n \in 1..Len(Talk[c])
    PROVE  Talk[c][n].req # r
<1>1. TypeOK /\ TurnsInv
  BY DEF RowsInv, BaseInv
<1>2. PICK m \in MessagesIn(db, c) : Talk[c][n] = m.turn
  BY SpokenTurns
<1>3. m \in db.messages /\ m.turn.role \in Roles
  BY <1>1, MessageFields DEF MessagesIn, Turn
<1>4. m.turn.req # r
  BY <1>1, <1>3 DEF TurnsInv, BeforeQuestion, Roles
<1> QED
  BY <1>2, <1>4

(* It answers when its question was the last thing said. *)
LEMMA AnswersLast ==
    ASSUME RowsInv, SerialInv, Numbered, NEW r \in Requests, pc[r] = "answer",
           ConvOf(r) \in Conversations
    PROVE  /\ Len(Talk[ConvOf(r)]) > 0
           /\ Talk[ConvOf(r)][Len(Talk[ConvOf(r)])] = [req |-> r, role |-> "user"]
<1> DEFINE c == ConvOf(r)
<1>1. OneSession /\ LastIsQuestion
  BY DEF SerialInv
<1>2. PICK s \in SessionsOf(db, c) : \E q \in MessagesOf(db, s.id) :
        /\ q.turn = [req |-> r, role |-> "user"]
        /\ \A m \in MessagesOf(db, s.id) : m.order <= q.order
  BY <1>1 DEF LastIsQuestion, AfterQuestion, Answering
<1>3. PICK q \in MessagesOf(db, s.id) :
        /\ q.turn = [req |-> r, role |-> "user"]
        /\ \A m \in MessagesOf(db, s.id) : m.order <= q.order
  BY <1>2
<1>4. SessionsOf(db, c) = {s}
  BY <1>1 DEF OneSession, SessionsOf
<1>5. MessagesIn(db, c) = MessagesOf(db, s.id)
  BY <1>4, MessagesOfSession
<1> HIDE DEF c
<1>6. c \in Conversations
  BY DEF c
<1> QED
  BY <1>3, <1>5, <1>6, SpokenTurns DEF c

(* So each step is one of Dialogue, or leaves every conversation as it was. *)
LEMMA TalkStep ==
    ASSUME OneAtATime, RowsInv, SerialInv, Numbered, [Next]_vars
    PROVE  Numbered' /\ [Stored!Next]_Talk
<1>0. BaseInv /\ TypeOK /\ CallInv /\ Undisturbed
  BY DEF RowsInv, SerialInv, BaseInv
<1>1. CASE db' = db
  BY <1>1 DEF Numbered, Talk
<1>2. ASSUME NEW r \in Requests, WipeHistory(r)
      PROVE  Numbered' /\ [Stored!Next]_Talk
  <2>1. Numbered' /\ (Talk' = Talk \/ Talk' = [Talk EXCEPT ![ConvOf(r)] = <<>>])
    <3> HIDE DEF WipeHistory
    <3> QED
      BY <1>0, <1>2, WipeIsWipe
  <2>2. ConvOf(r) \in Conversations
    BY <1>0, <1>2, CallOf DEF WipeHistory
  <2>3. Talk' = [Talk EXCEPT ![ConvOf(r)] = <<>>] => Stored!Wipe(ConvOf(r))
    BY DEF Stored!Wipe, Talk
  <2> QED
    BY <2>1, <2>2, <2>3 DEF Stored!Next
<1>3. ASSUME NEW r \in Requests, SaveQuestion(r) \/ SaveAnswer(r)
      PROVE  Numbered' /\ [Stored!Next]_Talk
  <2> HIDE DEF SaveQuestion, SaveAnswer
  <2>1. /\ Numbered'
        /\ ConvOf(r) \in Conversations
        /\ \E role \in Roles :
             /\ Talk' = [Talk EXCEPT ![ConvOf(r)] = Append(@, [req |-> r, role |-> role])]
             /\ \/ role = "user" /\ pc[r] = "question"
                \/ role = "assistant" /\ pc[r] = "answer"
    BY <1>3, SaveIsAppend
  <2>2. CASE /\ Talk' = [Talk EXCEPT ![ConvOf(r)] = Append(@, [req |-> r, role |-> "user"])]
             /\ pc[r] = "question"
    <3>1. \A c \in Conversations : \A n \in 1..Len(Talk[c]) : Talk[c][n].req # r
      BY <2>2, AsksFirst
    <3>2. Stored!Ask(r, ConvOf(r))
      BY <2>2, <3>1 DEF Stored!Ask, Stored!Silent, Stored!Says, Talk
    <3> QED
      BY <2>1, <3>2 DEF Stored!Next
  <2>3. CASE /\ Talk' = [Talk EXCEPT ![ConvOf(r)] =
                          Append(@, [req |-> r, role |-> "assistant"])]
             /\ pc[r] = "answer"
    <3>1. /\ Len(Talk[ConvOf(r)]) > 0
          /\ Talk[ConvOf(r)][Len(Talk[ConvOf(r)])] = [req |-> r, role |-> "user"]
      BY <2>1, <2>3, AnswersLast
    <3>2. Stored!Answer(r, ConvOf(r))
      BY <2>3, <3>1 DEF Stored!Answer, Stored!Says, Talk
    <3> QED
      BY <2>1, <3>2 DEF Stored!Next
  <2> QED
    BY <2>1, <2>2, <2>3
<1> QED
  BY <1>0, <1>1, <1>2, <1>3, StepKinds DEF Begin, Quiet

(* What MySQL holds of a conversation served one request at a time is a    *)
(* dialogue: no gap, no clash, no answer without its question before it,   *)
(* and a wipe takes all of it.                                             *)
THEOREM StoredDialogues ==
    ASSUME OneAtATime
    PROVE  Spec => ConversationsAreDialogues
<1> DEFINE Inv == RowsInv /\ SerialInv /\ Numbered
<1>1. Init => Inv /\ Stored!Init
  <2> SUFFICES ASSUME Init PROVE Numbered /\ Stored!Init
    BY SerialInit
  <2>1. \A c \in Conversations : MessagesIn(db, c) = {}
    BY DEF Init, MessagesIn
  <2>2. \A c \in Conversations : Transcript(db, c) = <<>>
    <3>1. \A c \in Conversations : Transcript(db, c) = Listed(MessagesIn(db, c))
      BY DEF Transcript, Listed
    <3> QED
      BY <2>1, <3>1, ListedNone
  <2> QED
    BY <2>1, <2>2, ListedNone DEF Numbered, Stored!Init
<1>2. Inv /\ [Next]_vars => Inv' /\ [Stored!Next]_[c \in Conversations |-> Transcript(db, c)]
  BY SerialStep, TalkStep DEF Talk
<1> QED
  BY <1>1, <1>2, PTL DEF Spec, Stored!Spec, ConversationsAreDialogues

=============================================================================
