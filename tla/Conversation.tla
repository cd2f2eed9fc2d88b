---------------------------- MODULE Conversation ----------------------------
(***************************************************************************)
(* One turn of conversation with a bot, end to end: ChatFacade ->          *)
(* RagService -> MessageService -> ConversationRepository.                 *)
(*                                                                         *)
(* Each HTTP request runs on the event loop of one server process (worker) *)
(* and is split at its awaits, so requests interleave.  Three stores are   *)
(* involved: the MySQL tables session and messages, the in-memory LRU      *)
(* cache RagService.store of each worker, and the list objects the cache   *)
(* entries and the running requests point to.                              *)
(*                                                                         *)
(* MySQL runs at its default REPEATABLE READ: the first SELECT of a        *)
(* transaction fixes what every later SELECT of it sees, until a commit;   *)
(* INSERT and DELETE act on the latest committed rows.                     *)
(***************************************************************************)
EXTENDS Naturals, FiniteSets, SequencesExt

CONSTANTS
    Requests,          \* the requests that may be sent, each once
    Conversations,     \* (bot, user) pairs: the keys of the cache
    Workers,           \* server processes
    MaxCachedSessions, \* MAX_CACHED_SESSIONS
    MaxInFlight,       \* bound: requests of one conversation served at a time
    Ops,               \* the operations requests may ask for, in AllOps
    None               \* Python's None

AllOps == {"ask", "stream", "welcome", "stream_welcome", "delete"}

ASSUME ConversationAssumption ==
    /\ IsFiniteSet(Requests)
    /\ IsFiniteSet(Conversations)
    /\ MaxCachedSessions \in Nat \ {0}
    /\ MaxInFlight \in Nat
    /\ Ops \subseteq AllOps

VARIABLES
    db,       \* the committed rows of tables session and messages
    store,    \* store[w][c]: the list object cached for c, or None
    recency,  \* recency[w]: the keys of store[w], least recently used first
    lock,     \* lock[w]: the request holding _store_lock, or None
    history,  \* history[l]: the turns in list object l, named after its loader
    call,     \* call[r]: what r asks for and who serves it
    pc,       \* pc[r]: the step r is at
    snap,     \* snap[r]: what r's open transaction sees, or None
    list,     \* list[r]: the list object get_session_history returned to r
    context,  \* context[r]: the copy of it that the LLM was given
    wiped     \* wiped[r]: the turns r's own delete_history removed

cacheVars == <<store, recency, lock, history>>
requestVars == <<call, pc, snap, list, context, wiped>>
vars == <<db, cacheVars, requestVars>>

-----------------------------------------------------------------------------
(* Data *)

Roles == {"user", "assistant"}
Turn == [req : Requests, role : Roles]
SessionId == Requests \X Roles      \* named after the save that created it
SessionRow == [id : SessionId, conv : Conversations]
MessageRow == [session : SessionId, order : Nat, turn : Turn, hide : BOOLEAN]
Database == [sessions : SUBSET SessionRow, messages : SUBSET MessageRow]
Call == [op : Ops, conv : Conversations, worker : Workers]

ASSUME NoneAssumption == None \notin Requests /\ None \notin Database

Ended == {"done", "failed"}
Answering == {"llm", "answer"}      \* the steps that hold a list object
Steps == {"idle", "wipe", "question", "prompt", "history", "loading"}
         \cup Answering \cup Ended

InFlight(r) == pc[r] \notin {"idle", "done", "failed"}
ConvOf(r) == call[r].conv
WorkerOf(r) == call[r].worker
Hidden(r) == call[r].op \in {"welcome", "stream_welcome"}
Streamed(r) == call[r].op \in {"stream", "stream_welcome"}

(* What a SELECT of r sees: its open transaction's snapshot, or, when it   *)
(* is the first of a transaction, the committed rows.                      *)
View(r) == IF snap[r] = None THEN db ELSE snap[r]

SessionsOf(rows, c) == {s \in rows.sessions : s.conv = c}
MessagesOf(rows, id) == {m \in rows.messages : m.session = id}

(* list_visible_messages of the conversation's session, as turns *)
VisibleTurns(rows, c) ==
    {m.turn : m \in {x \in rows.messages :
        ~x.hide /\ \E s \in SessionsOf(rows, c) : x.session = s.id}}

\* Mutant of NextOrders: hidden messages are not counted.
NextOrdersOfVisible(rows, id) ==
    {Cardinality({m \in MessagesOf(rows, id) : ~m.hide})}

\* Mutant of NextOrders: the last order is reused.
NextOrdersReused(rows, id) ==
    {n \in {0} \cup {m.order : m \in MessagesOf(rows, id)} :
        \A m \in MessagesOf(rows, id) : m.order <= n}

\* Mutant of NextOrders: counts down.
NextOrdersDown(rows, id) == {0 - Cardinality(MessagesOf(rows, id))}

(* last_message.order + 1, or 0 for a session without messages *)
NextOrders(rows, id) ==
    {n \in {0} \cup {m.order + 1 : m \in MessagesOf(rows, id)} :
        \A m \in MessagesOf(rows, id) : m.order < n}

-----------------------------------------------------------------------------
TypeOK ==
    /\ db \in Database
    /\ store \in [Workers -> [Conversations -> Requests \cup {None}]]
    /\ recency \in [Workers -> Seq(Conversations)]
    /\ lock \in [Workers -> Requests \cup {None}]
    /\ history \in [Requests -> SUBSET Turn]
    /\ call \in [Requests -> Call \cup {None}]
    /\ pc \in [Requests -> Steps]
    /\ snap \in [Requests -> Database \cup {None}]
    /\ list \in [Requests -> Requests \cup {None}]
    /\ context \in [Requests -> SUBSET Turn]
    /\ wiped \in [Requests -> SUBSET Turn]

Init ==
    /\ db = [sessions |-> {}, messages |-> {}]
    /\ store = [w \in Workers |-> [c \in Conversations |-> None]]
    /\ recency = [w \in Workers |-> <<>>]
    /\ lock = [w \in Workers |-> None]
    /\ history = [r \in Requests |-> {}]
    /\ call = [r \in Requests |-> None]
    /\ pc = [r \in Requests |-> "idle"]
    /\ snap = [r \in Requests |-> None]
    /\ list = [r \in Requests |-> None]
    /\ context = [r \in Requests |-> {}]
    /\ wiped = [r \in Requests |-> {}]

-----------------------------------------------------------------------------
(* ChatFacade's first SELECT, of the user, opens the transaction that its  *)
(* access and quota checks and what follows them read in.  A request these *)
(* reject changes nothing.  _start_stream's own get_session reads the same *)
(* snapshot as SaveQuestion and fails when that one does.                  *)
Begin(r, o, c, w) ==
    /\ pc[r] = "idle"
    /\ Cardinality({q \in Requests : InFlight(q) /\ ConvOf(q) = c}) < MaxInFlight
    /\ call' = [call EXCEPT ![r] = [op |-> o, conv |-> c, worker |-> w]]
    /\ snap' = [snap EXCEPT ![r] = db]
    /\ pc' = [pc EXCEPT ![r] = IF o \in {"welcome", "delete"} THEN "wipe"
                               ELSE "question"]
    /\ UNCHANGED <<db, cacheVars, list, context, wiped>>

(* ChatFacade.delete_history: the session is looked up in the snapshot,    *)
(* its rows are deleted from the committed ones.  Row and gap locks make   *)
(* the two DELETEs and the commit one step for every other transaction.    *)
(* Nothing is committed when no message was deleted.                       *)
WipeHistory(r) ==
    LET found == SessionsOf(View(r), ConvOf(r))
        ids == {s.id : s \in found}
        gone == {m \in db.messages : m.session \in ids}
    IN  /\ pc[r] = "wipe"
        /\ Cardinality(found) <= 1
        /\ IF gone = {}
           THEN UNCHANGED <<db, snap>>
           ELSE /\ db' = [sessions |-> {s \in db.sessions : s.id \notin ids},
                          messages |-> db.messages \ gone]
                /\ snap' = [snap EXCEPT ![r] = None]
        /\ wiped' = [wiped EXCEPT ![r] = {m.turn : m \in gone}]
        /\ pc' = [pc EXCEPT ![r] = IF call[r].op = "delete" THEN "done"
                                   ELSE "question"]
        /\ UNCHANGED <<cacheVars, call, list, context>>

\* Mutant of SaveMessage: the transaction stays open after its commit.
SaveMessageKeepsSnapshot(r, role, hide) ==
    LET found == SessionsOf(View(r), ConvOf(r))
        id == IF found = {} THEN <<r, role>> ELSE (CHOOSE s \in found : TRUE).id
        order == CHOOSE n \in NextOrders(View(r), id) : TRUE
    IN  /\ db' = [sessions |-> db.sessions \cup {[id |-> id, conv |-> ConvOf(r)]},
                  messages |-> db.messages \cup
                    {[session |-> id, order |-> order,
                      turn |-> [req |-> r, role |-> role], hide |-> hide]}]
        /\ UNCHANGED snap

(* MessageService.save_message, up to its commit.  Two sessions make       *)
(* scalar_one_or_none raise; a session deleted since the snapshot makes    *)
(* the INSERT break its foreign key: both are Fail(r).                     *)
SaveMessage(r, role, hide) ==
    LET found == SessionsOf(View(r), ConvOf(r))
        new == [id |-> <<r, role>>, conv |-> ConvOf(r)]
        Row(id, n) == [session |-> id, order |-> n,
                       turn |-> [req |-> r, role |-> role], hide |-> hide]
    IN  /\ \/ /\ found = {}
              /\ db' = [sessions |-> db.sessions \cup {new},
                        messages |-> db.messages \cup {Row(new.id, 0)}]
           \/ \E s \in found :
              /\ found = {s}
              /\ s \in db.sessions
              /\ \E n \in NextOrders(View(r), s.id) :
                   db' = [db EXCEPT !.messages = @ \cup {Row(s.id, n)}]
        /\ snap' = [snap EXCEPT ![r] = None]

(* The first SELECT of a save_message that finds no transaction open.      *)
(* (SaveMessage without it: nothing was committed between the two.)        *)
OpenTransaction(r) ==
    /\ pc[r] \in {"question", "answer"}
    /\ snap[r] = None
    /\ snap' = [snap EXCEPT ![r] = db]
    /\ UNCHANGED <<db, cacheVars, call, pc, list, context, wiped>>

SaveQuestion(r) ==
    /\ pc[r] = "question"
    /\ SaveMessage(r, "user", Hidden(r))
    /\ pc' = [pc EXCEPT ![r] = "prompt"]
    /\ UNCHANGED <<cacheVars, call, list, context, wiped>>

(* get_bot_prompt: its SELECT opens the transaction that a cache miss will *)
(* read the history in.                                                    *)
ReadPrompt(r) ==
    /\ pc[r] = "prompt"
    /\ snap' = [snap EXCEPT ![r] = View(r)]
    /\ pc' = [pc EXCEPT ![r] = "history"]
    /\ UNCHANGED <<db, cacheVars, call, list, context, wiped>>

(* get_session_history on a cached key: no await, so the lock is taken and *)
(* released in one step, and the LLM's copy list(history) is made in it.   *)
GetCachedHistory(r) ==
    LET w == WorkerOf(r)
        c == ConvOf(r)
    IN  /\ pc[r] = "history"
        /\ lock[w] = None
        /\ store[w][c] # None
        /\ \E i \in DOMAIN recency[w] :
              /\ recency[w][i] = c
              /\ recency' = [recency EXCEPT ![w] = Append(RemoveAt(@, i), c)]
        /\ list' = [list EXCEPT ![r] = store[w][c]]
        /\ context' = [context EXCEPT ![r] = history[store[w][c]]]
        /\ pc' = [pc EXCEPT ![r] = "llm"]
        /\ UNCHANGED <<db, store, lock, history, call, snap, wiped>>

\* Mutant of MissHistory: _store_lock is not waited for.
MissHistoryUnlocked(r) ==
    LET w == WorkerOf(r)
    IN  /\ pc[r] = "history"
        /\ store[w][ConvOf(r)] = None
        /\ lock' = [lock EXCEPT ![w] = r]
        /\ pc' = [pc EXCEPT ![r] = "loading"]
        /\ UNCHANGED <<db, store, recency, history, call, snap, list, context, wiped>>

(* get_session_history on a missing key: the lock is held over the load. *)
MissHistory(r) ==
    LET w == WorkerOf(r)
    IN  /\ pc[r] = "history"
        /\ lock[w] = None
        /\ store[w][ConvOf(r)] = None
        /\ lock' = [lock EXCEPT ![w] = r]
        /\ pc' = [pc EXCEPT ![r] = "loading"]
        /\ UNCHANGED <<db, store, recency, history, call, snap, list, context, wiped>>

Cached(w) == {c \in Conversations : store[w][c] # None}

(* The cache with key c added as most recent, less its oldest key when     *)
(* that makes it exceed MAX_CACHED_SESSIONS.                               *)
\* Mutant of Insert: evicts one key too late.
InsertLate(w, c, l) ==
    LET keys == IF c \in Cached(w) THEN recency[w] ELSE Append(recency[w], c)
        full == Cardinality(Cached(w) \cup {c}) > MaxCachedSessions + 1
        entry == [store[w] EXCEPT ![c] = l]
    IN  /\ store' = [store EXCEPT
              ![w] = IF full THEN [entry EXCEPT ![Head(keys)] = None] ELSE entry]
        /\ recency' = [recency EXCEPT ![w] = IF full THEN Tail(keys) ELSE keys]

Insert(w, c, l) ==
    LET keys == IF c \in Cached(w) THEN recency[w] ELSE Append(recency[w], c)
        full == Cardinality(Cached(w) \cup {c}) > MaxCachedSessions
        entry == [store[w] EXCEPT ![c] = l]
    IN  /\ store' = [store EXCEPT
              ![w] = IF full THEN [entry EXCEPT ![Head(keys)] = None] ELSE entry]
        /\ recency' = [recency EXCEPT ![w] = IF full THEN Tail(keys) ELSE keys]

LoadHistory(r) ==
    LET w == WorkerOf(r)
        c == ConvOf(r)
        loaded == VisibleTurns(View(r), c)
    IN  /\ pc[r] = "loading"
        /\ Cardinality(SessionsOf(View(r), c)) <= 1
        /\ Insert(w, c, r)
        /\ history' = [history EXCEPT ![r] = loaded]
        /\ lock' = [lock EXCEPT ![w] = None]
        /\ list' = [list EXCEPT ![r] = r]
        /\ context' = [context EXCEPT ![r] = loaded]
        /\ pc' = [pc EXCEPT ![r] = "llm"]
        /\ UNCHANGED <<db, call, snap, wiped>>

\* Mutant of RecordTurn: the turn is appended to the copy, not to the list.
RecordTurnOnCopy(r) ==
    /\ pc[r] = "llm"
    /\ context' = [context EXCEPT ![r] =
                     @ \cup {[req |-> r, role |-> role] : role \in Roles}]
    /\ snap' = [snap EXCEPT ![r] = None]
    /\ pc' = [pc EXCEPT ![r] = "answer"]
    /\ UNCHANGED <<db, store, recency, lock, history, call, list, wiped>>

(* The LLM has answered (or the last chunk was sent): _record_turn.        *)
(* Recording the token usage commits, which closes the transaction, but no *)
(* usage data means no commit; a streamed body has a transaction of its    *)
(* own, not yet opened.                                                    *)
RecordTurn(r) ==
    /\ pc[r] = "llm"
    /\ history' = [history EXCEPT ![list[r]] =
                     @ \cup {[req |-> r, role |-> role] : role \in Roles}]
    /\ \E s \in {None} \cup (IF Streamed(r) THEN {} ELSE {snap[r]}) :
         snap' = [snap EXCEPT ![r] = s]
    /\ pc' = [pc EXCEPT ![r] = "answer"]
    /\ UNCHANGED <<db, store, recency, lock, call, list, context, wiped>>

SaveAnswer(r) ==
    /\ pc[r] = "answer"
    /\ SaveMessage(r, "assistant", FALSE)
    /\ pc' = [pc EXCEPT ![r] = "done"]
    /\ UNCHANGED <<cacheVars, call, list, context, wiped>>

\* Mutant of Fail: the cache lock is not released.
FailKeepsLock(r) ==
    /\ InFlight(r)
    /\ pc[r] # "history"
    /\ snap' = [snap EXCEPT ![r] = None]
    /\ pc' = [pc EXCEPT ![r] = "failed"]
    /\ UNCHANGED <<db, cacheVars, call, list, context, wiped>>

(* An exception at one of r's awaits (a database error, a deleted bot, the *)
(* LLM, an answer longer than its column), or the client of a stream going *)
(* away: the transaction is rolled back and "async with" frees the lock.   *)
(* Waiting for the lock itself cannot fail.                                *)
Fail(r) ==
    /\ InFlight(r)
    /\ pc[r] # "history"
    /\ lock' = [w \in Workers |-> IF lock[w] = r THEN None ELSE lock[w]]
    /\ snap' = [snap EXCEPT ![r] = None]
    /\ pc' = [pc EXCEPT ![r] = "failed"]
    /\ UNCHANGED <<db, store, recency, history, call, list, context, wiped>>

(* Worker w stops and starts again: its memory and its requests are lost.  *)
Restart(w) ==
    LET lost == {r \in Requests : InFlight(r) /\ WorkerOf(r) = w}
    IN  /\ store' = [store EXCEPT ![w] = [c \in Conversations |-> None]]
        /\ recency' = [recency EXCEPT ![w] = <<>>]
        /\ lock' = [lock EXCEPT ![w] = None]
        /\ snap' = [r \in Requests |-> IF r \in lost THEN None ELSE snap[r]]
        /\ pc' = [r \in Requests |-> IF r \in lost THEN "failed" ELSE pc[r]]
        /\ UNCHANGED <<db, history, call, list, context, wiped>>

-----------------------------------------------------------------------------
Advance(r) ==
    \/ WipeHistory(r)
    \/ OpenTransaction(r)
    \/ SaveQuestion(r)
    \/ ReadPrompt(r)
    \/ GetCachedHistory(r)
    \/ MissHistory(r)
    \/ LoadHistory(r)
    \/ RecordTurn(r)
    \/ SaveAnswer(r)
    \/ Fail(r)

Next ==
    \/ \E r \in Requests : \/ \E o \in Ops, c \in Conversations, w \in Workers :
                                Begin(r, o, c, w)
                           \/ Advance(r)
    \/ \E w \in Workers : Restart(w)

Spec == Init /\ [][Next]_vars

(* The event loop runs every coroutine that can run, the database and the  *)
(* LLM client answer or time out, and asyncio.Lock wakes its waiters in    *)
(* order, so a request that finds the lock free again and again gets it.   *)
Fairness ==
    \A r \in Requests :
        /\ WF_vars(Advance(r))
        /\ SF_vars(GetCachedHistory(r) \/ MissHistory(r))

FairSpec == Spec /\ Fairness

-----------------------------------------------------------------------------
(* Properties *)

(* While they run, all the requests of a conversation that one worker is   *)
(* answering append to the same list object, the cached one: what the      *)
(* comment of _store_lock promises.  Needs a cache that never evicts.      *)
OneSharedHistory ==
    \A r \in Requests :
        pc[r] \in Answering => list[r] = store[WorkerOf(r)][ConvOf(r)]

(* The LRU cache never holds more than MAX_CACHED_SESSIONS histories, and  *)
(* its recency order lists exactly the keys it holds, each once.           *)
CacheBounded ==
    \A w \in Workers :
        /\ Cardinality(Cached(w)) <= MaxCachedSessions
        /\ Len(recency[w]) = Cardinality(Cached(w))
        /\ \A c \in Cached(w) : \E i \in DOMAIN recency[w] : recency[w][i] = c

(* An answer the bot gave and saved is in the history it is given for the  *)
(* next question, whether that history comes from the cache or from MySQL. *)
Answers(rows, c) == {t \in VisibleTurns(rows, c) : t.role = "assistant"}

NoAnswerForgotten ==
    \A w \in Workers, c \in Conversations :
        store[w][c] # None => Answers(db, c) \subseteq history[store[w][c]]

(* While a conversation has one request at a time, the bot is given all that *)
(* it has answered before, with the questions, from the cache or from MySQL, *)
(* whatever was evicted, lost with a worker or failed on the way.            *)
AnsweredTurnsAreGiven ==
    \A r \in Requests : pc[r] \in Answering =>
        \A t \in VisibleTurns(db, ConvOf(r)) :
            t.req # r /\ [t EXCEPT !.role = "assistant"] \in VisibleTurns(db, ConvOf(r))
            => t \in context[r]

(* ConversationRepository: "Chat sessions (one per bot + user)". *)
OneSessionPerConversation ==
    \A c \in Conversations : Cardinality(SessionsOf(db, c)) <= 1

(* In a stored conversation an answer comes right after its question. *)
AnswerFollowsQuestion ==
    \A a \in db.messages : a.turn.role = "assistant" =>
        \E q \in db.messages :
            /\ q.session = a.session
            /\ q.turn = [req |-> a.turn.req, role |-> "user"]
            /\ a.order = q.order + 1

(* The messages stored of a conversation, the turn whose order is n, None  *)
(* if there is none, and all turns by their order (ORDER BY).              *)
MessagesIn(rows, c) ==
    {m \in rows.messages : \E s \in SessionsOf(rows, c) : m.session = s.id}

TurnAt(messages, n) ==
    LET here == {m \in messages : m.order = n}
    IN  IF here = {} THEN None ELSE (CHOOSE m \in here : TRUE).turn

Transcript(rows, c) ==
    LET messages == MessagesIn(rows, c)
    IN  [n \in 1..Cardinality(messages) |-> TurnAt(messages, n - 1)]

(* While a conversation has one request at a time, its messages in their   *)
(* order are what Dialogue says: no gap and no clash in the numbering, an  *)
(* answer only right after its own question, all of it wiped or nothing,   *)
(* whatever fails or restarts meanwhile.                                   *)
Stored == INSTANCE Dialogue
    WITH talk <- [c \in Conversations |-> Transcript(db, c)]

ConversationsAreDialogues == Stored!Spec

(* However requests interleave, reading a session by message order never   *)
(* shows an answer at or before its own question.                          *)
AnswerAfterQuestion ==
    \A q, a \in db.messages :
        ( /\ q.session = a.session
          /\ q.turn.req = a.turn.req
          /\ q.turn.role = "user"
          /\ a.turn.role = "assistant" ) => q.order < a.order

(* ChatFacade.welcome: "Restart the conversation: wipe its history".  The  *)
(* bot is not given the turns the welcome request itself has just wiped.   *)
WelcomeForgets ==
    \A r \in Requests : call[r] # None =>
        (call[r].op = "welcome" => context[r] \cap wiped[r] = {})

(* Every request that is started is answered, refused or lost: no request  *)
(* waits for the cache lock for ever.                                      *)
EveryRequestEnds ==
    \A r \in Requests : InFlight(r) ~> pc[r] \in Ended
=============================================================================
