# Bot Factory: formal models

Bot Factory is a web application in which users build chat bots with a persona
and a knowledge base, let guests talk to them, and pay for the tokens the LLM
uses. Its server (`server/src`) is an asynchronous FastAPI application over
MySQL and a ChromaDB vector store; its client is an Angular application. This
directory holds TLA+ models of the server, the TLC runs that check them and
the TLAPS proofs about them. Paths below are relative to `src/server/src`.

All the interesting behaviour comes from one fact. Every request is a coroutine
with a database session of its own, which is split at each `await`. Requests
interleave at those points, and what they share (tables, an in-memory cache, a
vector store) has no transaction around it.

## Inventory

| Component | State | Operations | Talks to | What is hard | What makes it correct |
|---|---|---|---|---|---|
| Conversation (`services/chat_facade.py`, `rag_svc.py`, `message_svc.py`, `repositories/conversation_repository.py`) | tables `session`, `messages`; per process an LRU cache of histories and its lock | ask, stream, welcome (both), delete history | bots, assignments, quota, prompts, LLM | check-then-insert, snapshots that go stale, cache against rows, failures and disconnects between question and answer, restarts | one history per conversation, answers remembered and after their question, one session row, nobody waits for ever |
| Access (`authent_svc.py`, `magic_link_svc.py`, `dependencies/auth.py`) | `magic_link`, `revoked_token`, password and state of accounts, signed tokens | login, demo, magic link, logout, guard of every route, password change | accounts | races on one link, one token, one password; clock | a link logs in once; a logged-out token stays out; a password changes when its user says so |
| Accounts (`user_admin_svc.py`, `users_admin_router.py`, `google_authent_svc.py`) | `user_account`: parent, roles, selected bot | register, guests, update, select bot, role, reassign, delete | bots, assignments, conversation | decisions on a snapshot of rows that change, mail not unique, parent deleted while a child is added, roles kept in tokens | what is shared, orphaned or left selected is so by a race only; an Admin answers to itself |
| Bots and assignments (`bot_svc.py`, `bot_assignment_svc.py`) | `bot`, `bot_assignment` | create random, update, delete; assign, replace | accounts, knowledge, avatars, parameters | creation in many commits, check-then-insert, replacement of rows that change, sessions left behind | one assignment per bot and user, guests get bots of their parent, no bot half made |
| Knowledge (`knowledge_svc.py`, `vector_store_facade.py`, `template_svc.py`) | tree of chapters, PDF files, a vector collection per bot | save, update, delete, move, reindex, import | bots, vector store | three stores without a transaction, overlapping updates, numbers computed from snapshots | vectors of exactly the stored chapters once all is quiet; distinct numbers, kept order and no orphans but by races |
| Token accounting (`token_tracking_svc.py`, `llm_svc.py`) | `token_usage` | record, quota, statistics | accounts, conversation | checked before, charged after, payer read anew in between, unreadable sums count as 0 | bounded overshoot, billed where it was checked, a reached limit is left again |
| Bot parameters and prompt (`bot_parameters_svc.py`, `prompt_svc.py`) | `bot_parameters`, `bot.prompt` | create, patch, regenerate | bots, LLM | several commits, several rows, objects kept over commits | the prompt is that of the parameters, changes are all kept |
| Avatars (`avatar_svc.py`) | `bot_avatar` | create, update, delete | bots | rows added to a bot that goes | none without its bot |
| Session scoping (`database/session.py`) | one session per request | open, commit, roll back | all | snapshots (REPEATABLE READ), `expire_on_commit=False` | rolled back and closed in every case |
| Start-up, configuration, logging (`asgi.py`, `config/`, `decorators/singleton.py`) | super admin account | start | accounts | workers starting together | one super admin |
| Web client, deployment | tokens and screens of the browser | - | server | - | - |

`PROJECT.json` lists the same components with what is modelled of each, and the
hazards of this code with the line where each bites and the property that
watches it.

## Modules

### Dialogue and Conversation

`Dialogue` says what is promised of a stored conversation that has one request at a time: a sequence of turns to
which a request appends its question, then at once its answer, and which is emptied as a whole. `Conversation`
implements it with `Transcript`, the messages of a conversation by their `order` (hidden ones included): a
number used twice or left out, an answer after somebody else's turn or a wipe that leaves a message would
not be a step of `Dialogue`.

`Conversation` is the code. One turn of conversation from `ChatFacade` to the commit of the answer.

* `db` is the committed content of both tables. `snap[r]` is what request `r`'s
  open transaction sees: MySQL runs at REPEATABLE READ and nothing in
  `database/session.py` changes that, so the first SELECT of a transaction
  fixes what its later SELECTs see, while INSERT and DELETE meet the newest
  rows. Every commit sets `snap[r]` to `None`. This is what makes `last_message.order
  + 1` a stale computation.
* `store`, `recency`, `lock` are `RagService.store` (with the order of its
  `OrderedDict`) and `_store_lock`, one of each per worker process.
  `history[l]` is the content of a list object. List objects are named after the
  request that loaded them, and `list[r]` is the reference a request keeps over
  its LLM call: the model distinguishes "the same list" from "an equal list",
  which is what `_store_lock` is for. `context[r]` is the copy given to the LLM.
* A request goes `Begin` (user, access and quota checks), `WipeHistory`
  (welcome and delete), `SaveQuestion`, `ReadPrompt`, `GetCachedHistory` or
  `MissHistory` then `LoadHistory`, `RecordTurn`, `SaveAnswer`.
  `OpenTransaction` is the SELECT of a `save_message` that finds no transaction
  open. `Fail` is an exception, a timeout or a client that leaves at any await;
  `Restart` is a worker that stops and starts again.
* A message is a turn: the request it belongs to and its role. The history is a set
  of turns, since no property depends on its order; the order of stored messages is
  kept in their `order`.
* A request is sent once. What the access and quota checks decide is not
  modelled: a request they reject changes nothing and is as if it had not begun.

### OneTimeLink and Access

`OneTimeLink` says what a magic link promises, in four actions: created, redeemed
once, one login after that, void when its account goes.

`Access` is the code. `Redeem`, `Consume`, `CommitRedeem` and `ReadAccount` are
`MagicLinkService.redeem` split at its awaits; `rowLock` is the row lock MySQL holds
between the conditional UPDATE and its commit. `ReadLogin`, `VerifyLogin`, `Rehash` are
`AuthenticationService.login`, whose verification runs in a thread pool on the row
read before; `ReadChange`, `VerifyChange`, `StoreChange` are `change_password`.
`Decode` and `CheckRevoked` are the guard of every route, `Respond` the handler
behind it; `Purge` and `CommitLogout` are the two halves of `logout` on either side
of the SELECT of `merge`. `SetActive`, `DeleteUser` (with the cascade to links)
and `Fail` may come at any time, and `Tick` moves the clock.

`Requests` are the requests served at one time; a place that is free is taken again, so
runs contain any number of requests. A request's private data (`call[r]`) is what it
asked for and what it read. `grants`, `chosen` and `loggedOut` are history
variables: logins per link, the password last chosen, logouts committed.
A logout in the code reads revocations of other logouts only through rows; the
index locks InnoDB takes for the purge make some logouts wait or fail, which
adds no behaviour: waiting is not taking a step, failing is `Fail`.
All workers use one clock.

### Knowledge

The knowledge base of one bot: `KnowledgeSvc` over the table `knowledge` (`rows`), the
bot's Chroma collection (`vectors`) and its upload folder (`files`). The service commits the
rows, then changes vectors and files one call at a time; nothing spans the three.

* `view[r]` is what request `r`'s session holds: the snapshot of its first SELECT, then
  its own changes. Since `expire_on_commit=False`, it goes on with those objects
  after its commits, so it may ingest a text that is no longer in the row. `WriteRow` models the
  flush of an object: the columns whose value differs from the one read are written, the
  others keep what another request stored, and a row that is gone raises.
* `Begin...` are the seven operations. Creation and update go `SavePdf` (if there is an upload),
  `CreateKnowledge` then `Refresh`, or `WriteRow` then `RemovePdf` (of the replaced file), then
  `ClearVectors`, `IngestText`, `IngestPdf`, `StampSynced`. Deletion goes `DeleteRows`, then
  `ForgetChapter` and `RemovePdf` for each chapter of the subtree it read. Import goes
  `SaveImportedKnowledges` and ingests each new chapter; a template only stores rows.
  A reindex empties the collection and ingests each chapter of its snapshot; `delete_all` goes
  `EmptyCollection`, `WipeRows`, `RemoveFolder`.
* `Fail` is an exception in any call or a process that stops: the stores keep what they have.
  With `Failures` FALSE only the calls that raise by themselves do (`Raises`): a refresh, flush or
  stamp of a row that is gone, a PDF that is not there.
* `synced` stands for `vector_synced_at >= updated_at`, the client's test. Instants are
  taken to be distinct; MySQL keeps seconds, so two changes within one second may show
  as synced what is not.
* A chapter's text is one entry of the collection, so is its PDF. `Empty` is the text with
  nothing to ingest. The order of siblings (`indice`) is in module Outline; chunks are left out. A row's parent is another row: chapters whose `knowledge_dad_id` is made up by a client are not
  considered. A collection is emptied by listing its ids and deleting those; what another request
  adds in between stays, which is the same as adding it after.

### Outline

The tree of a bot's chapters and their numbers (`indice`), the columns of `knowledge` that module
Knowledge leaves out. `rows` is the table of one bot; a request takes `view[r]` when it begins and
writes at its commit. `CreateEmpty` is `create_empty_knowledge` with `FirstFree`
(`_compute_indice`); `InsertGiven` is every way to store chapters with numbers a client or a
template gives; `PutChapter` is `update_knowledge_entity` (a client moves a chapter by two of
these); `DeleteChapter` is `delete_knowledge` with `Subtree` and `Numberings`
(`_delete_subtree`, `_re_compute_indices`); `DeleteAll` is `delete_all`. Chapters whose numbers are the same
come in any order from MySQL, which `Numberings` leaves open. The parent of a chapter is another
chapter: `children_ref_id` is taken to name one chapter of the bot. `wrote`, `gone` and `before` are
history: who last wrote a column or deleted a row, and what each request could see.

### Accounts

`user_account` (parent, role, mail, selected bot), `bot` (its owner) and `bot_guest_assignment`, with the
eighteen operations of `UserAdminService`, `BotService`, `BotAssignmentService`,
`GoogleAuthentSvc`, their routers and the super admin of `asgi.py`. A request takes its snapshot and is
accepted or refused by `Accepts` (`Begin`), which has the checks of router and service in their order;
its `Commit...` is what the transaction does to the rows as they are by then: foreign keys,
bulk DELETEs, UPDATEs of the columns that differ from what was loaded. `claims` are the
roles in the tokens an account may still hold. The history (`wrote`, `gave`, `gone`, `before`, `past`,
and `made` and `vouched` of an assignment) tells who wrote what and what each request could see: the
properties say that what goes wrong goes wrong by a race. `assigned_bot_ids` is a `list[int]` that nobody
frees of repetitions, so a request has a list that names each bot up to `MaxRepeat` times and `Rows` are its INSERTs, one for
each element; `copy` tells the rows of one bot and one request apart.

### TokenQuota

`ChatFacade._enforce_token_quota` (`Check`, `CheckBlind` when the sum cannot be read), the moment the payer is fixed
(`BindPayer`), `TokenCountingCallback` (`Record`), answers that are never billed
(`Lose`), the 24 hours that pass (`Age`), and what moves and deletions of accounts do to it
(`Reassign`, `Delete`). `used` is the sum of the rows of an account within the window. `_record_usage` reads the user
and its parent in the transaction that is open when the answer has ended. For a plain answer that is the one that read the
prompt, so the parent is that of the prompt read (`Ask`). The body of a stream runs in a session of its own
(`stream_with_async_db_session`), where no transaction is open by then: a stream goes `Stream` when its question is
stored and `EndStream` when its answer has ended, and its payer is fixed in the latter.

### Persona

One bot and what it is made of: the rows of `bot_parameters` and `bot_avatar` (there may be several; reads
take the first), `bot.prompt` as the profile it was built from, the template chapters. Requests go
commit by commit: `CreateBot`, `CreateAvatar`, `CreateParameters`, `ReadAgain`, `WritePrompt`, `ImportTemplate` are
`create_random_bot`; PUT and PATCH of the parameters go through `ReadAgain` and `WritePrompt` too. `held[r]` is
the object a request goes on holding, which later reads do not refresh. `BotService.delete` commits twice:
`DropChapters`, or `KeepChapters` when `delete_all` fails, which it does not ask about, and then `DeleteBot`.
`DropChapters` alone is the route that deletes all chapters ("clear"); `emptied` tells which requests have done it.

The `MC...` modules hold the symmetry sets and initial databases of the runs; each `...Proofs`
module holds the theorems about its component, and `SerialProofs` those about `Conversation` with one request of a
conversation at a time.

## Runs

| Run | Asks | Distinct states | Result |
|---|---|---|---|
| `conv_shared` | three overlapping requests of one conversation, one worker with failures and restarts | 792,756 | shared history, remembered answers and message order hold |
| `conv_serial` | three requests, two conversations, a cache of one entry, one request per conversation at a time | 595,373 | cache bound, answered turns in the prompt, one session row, answers right after their questions hold; `Dialogue` is implemented |
| `conv_ends` | two requests, fairness | 53,457 | every request ends |
| `conv_welcome` | ask, then welcome | | **the wiped turns are still in the prompt** |
| `kb_index` | three requests of all seven operations, no two on one chapter, failing anywhere | 919,054 | no row names a PDF that is gone, synced chapters are indexed as they are, nothing is left behind, a complete reindex repairs the rest |
| `kb_overlap` | two updates of one chapter | | **the overwritten text stays in the collection under a row marked synced** |
| `outline` | three requests of all five operations on up to five chapters, overlapping freely | 579,335 | numbers clash and orphans stay by races only, order is kept, a deletion repairs its level |
| `access` | two requests at a time, any number of them, two tokens, a clock of three values | 955,231 | `OneTimeLink` is implemented, logout is final |
| `access_password` | login against password change | | **a rehash writes the old password back** |
| `accounts` | two requests of any of the eighteen operations, on an Admin, a User, its guest and a bot | 137,787 | shared mails, orphans, dangling selections, foreign assignments come from races only, double ones from those or from a list that names a bot twice; Admins answer to themselves |
| `quota` | two requests at a time, any number of them, of an Admin and two users, plain or streamed; a fault | 545,902 | the overshoot is bounded, answers are billed where they were checked, a reached limit is left again |
| `persona` | two requests of all ten operations on one bot, failing anywhere | 929,062 | nothing outlives its bot, a finished creation is whole, a request alone leaves the right prompt, changes are all kept |

Bounds. Sharing a cache entry takes a loader and a second request, and a third
shows one that finds the entry cached while the others are still answering: hence
three requests in `conv_shared`. `MaxInFlight` tells the runs that need overlap from
those that exclude it: `AnsweredTurnsAreGiven`, `OneSessionPerConversation`, `AnswerFollowsQuestion` and
`ConversationsAreDialogues` hold only when a conversation has one request at a time, as when a user waits for each answer.
A cache of one entry and two conversations evicts on every
change of conversation. `OneSharedHistory` needs a cache that never evicts (the comment of
`_store_lock` says nothing of eviction): `conv_shared` has one conversation; with two
conversations and one entry, a conversation evicted while one of its turns is in
flight is loaded anew, the turn is recorded in the old list, and the new list may miss its answer.

The knowledge run has three requests: two to collide on a file or leave a failure behind, and a third to meet the
result (a reindex after a failed update, a deletion between two updates). Two chapters, one
there with a PDF and one to be created as its child or beside it, give a subtree and a sibling. An
old text, a new one and the empty one can be told apart. `Overlap` is FALSE in `kb_index` because
`kb_overlap` shows what overlapping does. In `outline` three requests are two that race and one that
meets the result (a deletion after two creations under one number); three chapters, one of
them a child, and two more to be created give levels of three and a subtree of depth three; the numbers 1 and 3
that clients send make ties and gaps.

In `access` two places suffice because they are reused: the longest race (a token checked
while another request logs it out and a third purges it) takes two at a time. A
token lives one unit of a clock with three values, so tokens expire both before and after
their revocation. In `accounts` two requests make every pair of operations race; a third
would only repeat it, since each property relates two writers, and the theorems cover any number.
`MCStart` has what they need: a guest with a parent, a bot that is assigned and selected, a
free mail and that of the super admin. `MaxRepeat` is 2: a list names a bot not at all, once or too often. In `quota` a limit of 2 and answers of 1 token make the
difference between reaching and passing the limit; places are reused, so requests are
many. `MaxFree` and `MaxFaults` bound what the code does not: failed quota reads and moves. In `persona` one of two
fields is clearable and the other is not, and both drawings 0 and 1 occur because a PATCH treats 0 as absent.

Counterexamples of mutated models (`PROJECT.json`, "mutants") confirm
that each property can fail within these bounds.

Fairness. `conv_ends`: `WF` on a request's next step, since the event loop runs every
coroutine that is ready, and the database and LLM clients answer or time out; `SF` on
taking the cache lock, since `asyncio.Lock` wakes its waiters first come, first served. Beginning
a request and restarting a worker are not fair: nothing makes them happen. `quota`: `WF` on `Age`
alone, i.e. time passes; `QuotaRecovers` needs nothing of the requests.

Deadlock checking is off where the system may stop: every request has been sent and
answered (Conversation, Knowledge, Outline, Accounts, Persona), or the clock has reached its bound and the
accounts are gone (Access, TokenQuota).

## Findings

The three violation runs (`conv_welcome`, `kb_overlap`, `access_password`) are disagreements between
the code and its own texts; `PROJECT.json` quotes the lines. Others were met and are not runs.

Against a text:

* `README.md:256-260` offers `--workers N`, but `RagService.store` is per process: with two workers the
  cache of one misses the answers of the other (`NoAnswerForgotten` is proved for one worker).
* `rag_svc.py:149` says that `load_session_history` reloads prior turns. The question is saved before (lines 66,
  103), so a cold cache reloads it too: the bot gets it twice, and keeps it twice.
* Two first messages of a conversation at once make two session rows, after which
  `scalar_one_or_none` raises for that conversation. `OneSessionPerConversation` excludes that race: it says that with one
  request at a time neither wipes nor failures nor stale snapshots do the same.
* `bot_svc.py:185-191` lists sessions among what a bot's deletion cascades to, but `session.bot_id` has no
  foreign key (`models/conversation.py:13`).
* "Logging out twice with the same token is not an error" (`revoked_token_repository.py:11`) does not cover
  two logouts at once, of which the second fails on the primary key (the token is revoked all the same).
* `chat_facade.py:200-204` tells of "the request that crosses" the quota; one per request in flight may.
* `bot_parameters_svc.py:446-448` says the prompt is rebuilt from the parameters; two PATCHes that overlap may leave a
  prompt that misses the change of one of them.

Against none:

* A reindex that fails after it emptied the collection leaves chapters marked as synced that have no
  vectors (hence the premise of `SyncedUnlessRebuilding`). `delete_all` removes the upload folder after
  its commit, with the PDF of any chapter created meanwhile (hence the assumptions of `PdfsAreStored` and
  `PdfsAreStoredApart`).
* A deletion of chapters that fails after its commit leaves vectors and files without a row. A reindex rids the collection of
  the vectors; nothing but `delete_all` removes the files.
* A chapter created while its parent's subtree is being deleted keeps a parent that is gone, and nothing
  checks that the parent given for a new chapter exists. A save without `indice` gives number 0. A save of a
  chapter that has been deleted creates it again. A move is two saves
  (`knowledges.component.ts:409-435`): half of it leaves two siblings with one number until a deletion renumbers the
  level. One tree imported twice into a bot duplicates its `children_ref_id`s: deleting one parent deletes the
  children of both.
* `PATCH /users/{id}` selects the bot for the caller, not for the user of the path; `select_bot` does not check
  that the bot exists. Deleting an account deletes its bots but clears nobody's selection of them.
* `reassign_children` with -1 moves every account without a parent, Admins included. Guests that are moved keep what they
  had been assigned. A bot that is named twice in `assigned_bot_ids` gets two rows for one user, without any race
  (hence the second case of `PairsAreAssignedOnce`).
* A guest whose parent is gone chats against the quota of an account that is gone, and nothing is recorded. Its own
  statistics are always 0. The summary of an Admin for one user misses what a guest
  had used before it was moved to that user. A guest that is moved while an answer is streamed to it bills its new parent, whose
  quota nobody has checked; a plain answer bills the old one (`BilledWhereChecked` tells the two apart).
* A deletion of a bot that fails after its first commit leaves the bot there, without its chapters, and nothing reports it as
  half deleted (hence the case of `WholeOnceDone`).
* A PUT of the parameters adds a second row, of which nothing reads more than the prompt of the first. DELETE of the parameters leaves the
  prompt. A PATCH of an avatar ignores the drawing 0.

## Proofs

TLAPS checks the following for every value of the constants that meets
the `...Assumption` of its module: any number of requests, conversations, workers, accounts, links, tokens,
chapters, bots and numbers.

* `TypeCorrect`, `CacheNeverOverflows` and `SharedHistory` follow from the
  inductive invariant `BaseInv` (`BaseInvariant`). The bound on the cache is not inductive
  by itself: it needs that `recency` lists every cached key and each once, which in turn
  needs that a load inserts a key while nobody else does, i.e. that the request in step
  "loading" is the one that holds the lock and that its key is missing until it
  inserts it. `SharedHistory` adds that a request
  that is answering refers to the list cached under its key, and assumes
  `CacheHoldsAll`: at most `MaxCachedSessions` conversations, so that nothing is evicted.
* `AnswersRemembered` (assumes also `OneWorker`) uses `AnswersInv`: an answer of a
  request that is still running is in the database only after it was put into the list the
  request refers to; a request that loads has a snapshot that already holds every answer
  committed so far, except those of requests that will still record theirs.
* `AnswersComeAfter` assumes nothing: requests of a conversation may overlap, wipe it and fail. `TurnsInv` says which
  turns of a request may be stored at each of its steps, and that a request that has asked and has a transaction open sees
  its question in it, as long as it is stored. The order it computes for its answer is therefore above that of the
  question, however stale the snapshot is otherwise.
* `OneSessionEach`, `AnswersFollow`, `StoredDialogues` and `AnsweredGiven` (module `SerialProofs`) assume `OneAtATime`: at most
  one request of a conversation in flight, as when a user waits for each answer. Overlap breaks each of them:
  two questions saved before the first answer are enough. `SerialInv` says that a request is alone in its conversation, that what its transaction shows
  of it is what is stored (`Undisturbed`), that there is one session, and that the question of a request that has yet to
  answer is the last message. The failures, restarts and the requests of other conversations are free.
* `StoredDialogues` is the refinement: `Numbered` says that the messages of each conversation are numbered from 0 on, each
  once, so that `Transcript` has a turn at every place; a save appends to it (`SaveIsAppend`), a wipe empties it
  (`WipeIsWipe`), every other step leaves it (`TalkStep`).
* `AnsweredGiven` assumes `OneWorker` as well, because each process caches on its own. `GivenInv` adds what a cached list, a list
  that a request holds and a load about to happen have of the answered turns, also when the cache evicts the
  entry of a request that is answering.
* `OneTimeLinks`: every step of `Access` is a step of `OneTimeLink` or leaves the links
  as they are. `LinkInv` says why: the row lock and the step "commit" determine each
  other, an unused link has given no login, and a redeemed link has at most one request that
  may still log in with it.
* `LogoutFinal`: `RevokedInv` keeps a logged-out token in `revoked_token` until the clock is
  past its expiry, because a purge compares with a time taken in the past.
* `AccessTypes`: the types, with `CallOK` (what a request has in hand at each step).
* `KnowledgeTypes`: the types, with `LocalOK` (what a request has in hand at each step).
* `PdfsAreStored` (assumes that `delete_all` is not among the operations; overlapping and failures
  are free): `PdfInv` says that a path is in one row only, and in what sessions hold of that same row;
  that an upload is known to its request alone until its row is written; that a file about to be
  removed is in no row, because only a row that was overwritten or deleted gives it up and
  no session writes a path back that it did not upload itself. The last point rests on the
  column-wise flush: a stale object whose path was not changed leaves the stored one.
* `MarksAreTrue`, `ReindexesRepair`, `NothingStays` and `PdfsAreStoredApart` assume `~Overlap`: no two requests work on one
  chapter, and one for the whole bot (a reindex, a `delete_all`) is alone. The three stores are changed one call at a time without any
  lock, and `kb_overlap` shows what two updates of one chapter do; the failures are free, except in
  `NothingLeftBehind`, whose premise excludes them. `ApartInv` says what a request may rely on: its chapters are its own
  (`Exclusion`), its session holds them as they are stored until it deletes them (`Agrees`), and how far it is with the
  vectors of each: ahead of it marked as not synced, or of the chapter at hand removed, or its text in. So the stamp comes when both
  entries are those of the row. `ApartKept` reduces each step to the request that takes it.
  `NothingStays` gives for every vector and file a reason to be there (`Covered`, `Justified`): a row, or a request that
  still has the chapter in its queue or the file in hand.

* Outline: `OutlineTypes`, `OrderStays`, `LevelIsNumbered`, `NumbersAreApart` and `OrphansAreRaces`. `AllRead` is the
  bridge from what a request decided on to what is stored: a column that no request outside
  its snapshot has written is as it was read. `Settled` says that what a creation or a deletion has written stands
  until a request it did not see writes there: the created chapter has a number above those read, the renumbered
  siblings have the values of one numbering, the subtree is gone. `GoneBy` attributes each deleted
  row to its deletion. That a deletion numbers its level 1 to n rests on the pigeonhole principle of
  `FiniteSetTheorems`.
* Accounts: `AccountsTypes`, `MailsAreApart`, `ChildrenAreSeen`, `SelectionsAreCleared`, `PairsAreUnique`,
  `GuestsHaveTheirParentsBots`, `AdminsAnswerToThemselves`. The invariant is `Typed` (what requests have in hand;
  ids not used before their request commits; history names committed requests), `AllRead` as above for the tables of
  this module, `NeverPromoted` (roles in tokens are roles an account has had, and no request makes an Admin
  of an account), and `Settled`, one conjunct per property, which relates what is stored to what its writer
  could see. `PairsAreUnique` also needs that an id stands for one row (`OneRow`), though one request may insert several for a
  bot, and that each row is an element of the list of the request that has made it (`MadeBy`).
* TokenQuota: `OvershootIsBounded` and `BillsAreChecked` from `QuotaInvariant`, whose part `Reserved` says that an
  account has room for one answer for each request that was let through against it and is not yet billed. `Traced` says
  that the payer, fixed or yet to be fixed, is that account unless the user is moved before; what a request bills elsewhere
  counts as unchecked.
* Persona: `PersonaTypes`, `PartsNeedTheBot`, `ChangesAreKept`, `PromptIsRightAlone` and `CreationsAreWhole`, from `Typed` (what a
  request holds fits its step), `AllServed` (a request that is alone sees and holds what is stored) and `AllMade` (what a
  creation has made by each of its steps is there unless it was deleted; for the chapters, `HasChapters`: they are there, or a
  request has deleted them).

TLC checked each inductive invariant, or the parts of it that an instance can tell apart, before it was proved.

Only model-checked: `EveryRequestEnds` and `QuotaRecovers`, since liveness under fairness is out of the prover's reach, and of
course the violations. Every other property of the runs is a theorem.

## Not modelled, and why

The content of messages, prompts and hashes; the LLM (it answers or fails); the order of turns within a
prompt; a token's signature and the verification of a Google credential. Lists, lookups and token statistics are
reads: they change nothing and no request decides on them. Which bots a user may chat with
(`ChatFacade._can_access_bot`) is such a read, and a chat it rejects is as if it had not begun. Profile
fields that are only shown (names, drawings of an avatar beyond one look) are left out. `children_ref_id`s that
name several chapters of one bot are not considered. The deletion of an account takes its conversations with it
(`delete_for_user`): to each of them that is what a "delete" request does, one more request of the conversation. Logging and the validation of settings
keep no state. The web client and the deployment are user interface and configuration.

Smaller differences, none of which a property depends on:

* Access: `login_demo` refuses a demo account that is an Admin (`authent_svc.py:96`); here it may log in, which allows more.
  The read of the account and the commit of `MagicLinkService.create` (`magic_link_svc.py:51-60`) are one step.
* Accounts: a bot update may also carry an `id` (`bot_router.py:41`, set by `bot_svc.py:170-172`); a change of
  primary key is left out.
* Persona: a PATCH of the parameters takes extra fields and sets any attribute of the row
  (`bot_parameters_svc.py:410-418`), `id` and `bot_id` included, and so does a PUT of an avatar with `bot_id`
  (`avatar_svc.py:162-164`); moving a row to another bot is left out, since there is one bot. Single chapters are deleted
  in Knowledge and Outline only.
* Knowledge: rows from before PDFs had a path (`pdf_file` without `pdf_path`, `knowledge_svc.py:123-128`) do not occur.
  All rows of an import get the same parent, which exists; a nested tree, and the list and refresh an import ends with
  (lines 195-197), are left out. A save moves a chapter to the top or leaves it (359-360), in
  Outline as well; a move below another chapter is left out.

## Plan

Every component of the server that keeps state has its module, and every safety property of the runs its theorem. What is
left:

1. An abstract store that `Knowledge` implements chapter by chapter when no two requests work on one, as `Dialogue` is for
   `Conversation`: rows with the vectors and the file they should have.
2. `AnswersRemembered` and `AnsweredGiven` differ in what they ask of the cache and of overlap; a weaker common hypothesis (overlap, but no
   eviction while a request of the conversation is in flight) may give both.
