------------------------------- MODULE Persona -------------------------------
(***************************************************************************)
(* What a bot is made of: its parameters, the prompt that is built from    *)
(* them, its avatar and its first chapters (BotService.create_random_bot,  *)
(* BotParametersService, PromptService, AvatarService and their routers).  *)
(*                                                                         *)
(* One bot, and the requests that create, change and delete it.  Each has  *)
(* a database session of its own and commits several times: a transaction  *)
(* sees the tables as its first read found them, an UPDATE names the       *)
(* columns that differ from what was loaded and fails when the row is      *)
(* gone, and an object a request still holds is not refreshed by later     *)
(* reads (expire_on_commit=False).  A request is sent once.  Who may send  *)
(* it, and the guests and selections of the bot, are in module Accounts,   *)
(* the chapters and their vectors in module Knowledge.                     *)
(***************************************************************************)
EXTENDS Naturals, FiniteSets

CONSTANTS
    Requests,
    Fields,     \* the columns of bot_parameters the prompt is built from
    Clearable,  \* clearable_fields, those a PATCH may set to ""
    Values,     \* of a field
    Empty,      \* the value ""
    Looks,      \* of an avatar; 0 is the first of the drawings
    Ops,        \* the operations requests may ask for, in AllOps
    None

AllOps == {"create", "put", "patch", "drop", "delete", "clear",
           "add_avatar", "patch_avatar", "put_avatar", "drop_avatar"}

Profiles == [Fields -> Values]
\* Rows have ids in the order they were inserted; 0 was there at first.
Ids == 0..Cardinality(Requests)

ASSUME PersonaAssumption ==
    /\ IsFiniteSet(Requests)
    /\ Clearable \subseteq Fields
    /\ Empty \in Values
    /\ Looks \subseteq Nat
    /\ Ops \subseteq AllOps
    /\ None \notin Values \cup Looks \cup Profiles \cup Ids

VARIABLES
    bot,        \* "unborn", "there" or "gone"
    prompt,     \* bot.prompt: the profile it was built from, None for ""
    row,        \* row[i]: the bot_parameters row i of the bot, or None
    avatar,     \* avatar[i]: the bot_avatar row i of the bot, or None
    chapters,   \* whether the bot has the chapters of the "start" template
    emptied,    \* history: the requests that have deleted the chapters
    lastRow,    \* the last id of bot_parameters
    lastAvatar, \* the last id of bot_avatar
    call,       \* call[r]: what r asks for, or None
    view,       \* view[r]: the tables as the transaction of r sees them, or None
    held,       \* held[r]: the row r has loaded and goes on holding, or None
    pc,         \* pc[r]: where r is
    alone       \* history: alone[r], no other request was served since r began

parts == <<row, avatar, chapters, emptied, lastRow, lastAvatar>>
tables == <<bot, prompt, parts>>
vars == <<tables, call, view, held, pc, alone>>

-----------------------------------------------------------------------------
ProfileCall == [op : {"create", "put"}, profile : Profiles]
PatchCall == [op : {"patch"}, changes : [Fields -> Values \cup {None}]]
LookCall == [op : {"add_avatar"}, look : Looks]
AvatarCall == [op : {"patch_avatar", "put_avatar"}, id : Ids, look : Looks]
BareCall == [op : {"drop", "delete", "clear", "drop_avatar"}]
Call == ProfileCall \cup PatchCall \cup LookCall \cup AvatarCall \cup BareCall

View == [prompt : Profiles \cup {None}, row : [Ids -> Profiles \cup {None}],
         avatar : [Ids -> Looks \cup {None}]]

ASSUME NoneAssumption == None \notin Call \cup View \cup [id : Ids, profile : Profiles]

TypeOK ==
    /\ bot \in {"unborn", "there", "gone"}
    /\ prompt \in Profiles \cup {None}
    /\ row \in [Ids -> Profiles \cup {None}]
    /\ avatar \in [Ids -> Looks \cup {None}]
    /\ chapters \in BOOLEAN
    /\ emptied \in SUBSET Requests
    /\ lastRow \in Ids /\ lastAvatar \in Ids
    /\ call \in [Requests -> Call \cup {None}]
    /\ view \in [Requests -> View \cup {None}]
    /\ held \in [Requests -> [id : Ids, profile : Profiles] \cup {None}]
    /\ pc \in [Requests -> {"new", "begun", "bot", "dressed", "stored", "read",
                            "prompted", "emptied", "done", "failed"}]
    /\ alone \in [Requests -> BOOLEAN]

NoRows == [i \in Ids |-> None]

\* The bot is yet to be created, or it is as earlier requests have left it: a
\* creation that failed half way, parameters that were changed by overlapping
\* requests or deleted, an avatar or chapters that were.
Init ==
    /\ \/ bot = "unborn" /\ prompt = None /\ row = NoRows /\ avatar = NoRows /\ chapters = FALSE
       \/ /\ bot = "there"
          /\ prompt \in Profiles \cup {None}
          /\ \E p \in Profiles \cup {None} : row = [NoRows EXCEPT ![0] = p]
          /\ \E x \in Looks \cup {None} : avatar = [NoRows EXCEPT ![0] = x]
          /\ chapters \in BOOLEAN
    /\ emptied = {} /\ lastRow = 0 /\ lastAvatar = 0
    /\ call = [r \in Requests |-> None]
    /\ view = [r \in Requests |-> None]
    /\ held = [r \in Requests |-> None]
    /\ pc = [r \in Requests |-> "new"]
    /\ alone = [r \in Requests |-> FALSE]

-----------------------------------------------------------------------------
Working == {r \in Requests : pc[r] \notin {"new", "done", "failed"}}

Now == [prompt |-> prompt, row |-> row, avatar |-> avatar]

(* get_by_bot_id: .first(), the row with the lowest id, None without rows *)
Exists(t) == \E i \in Ids : t[i] # None
First(t) == CHOOSE i \in Ids : t[i] # None /\ \A j \in 0..(i - 1) : t[j] = None

(* What a request must find to begin; it is refused otherwise. *)
Accepts(c) ==
    /\ c.op = "create" => bot = "unborn"
    /\ c.op \in {"patch", "drop"} => Exists(row)
    /\ c.op = "delete" => bot = "there"
    /\ c.op \in {"patch_avatar", "put_avatar"} => avatar[c.id] # None
    /\ c.op = "drop_avatar" => Exists(avatar)

Begin(r, c) ==
    /\ pc[r] = "new"
    /\ Accepts(c)
    /\ pc' = [pc EXCEPT ![r] = "begun"]
    /\ call' = [call EXCEPT ![r] = c]
    /\ view' = [view EXCEPT ![r] = Now]
    /\ alone' = [q \in Requests |-> q = r /\ Working = {}]
    /\ UNCHANGED <<tables, held>>

At(r, op, place) == call[r] # None /\ call[r].op = op /\ pc[r] = place

Goes(r, place) ==
    /\ pc' = [pc EXCEPT ![r] = place]
    /\ view' = IF place \in {"done", "failed"} THEN [view EXCEPT ![r] = None] ELSE view
    /\ alone' = IF place \in {"done", "failed"} THEN [alone EXCEPT ![r] = FALSE] ELSE alone
    /\ UNCHANGED call

(* An error of the database, of the model files, or a client gone: what was  *)
(* committed stays.                                                          *)
Fail(r) ==
    /\ r \in Working
    /\ Goes(r, "failed")
    /\ held' = [held EXCEPT ![r] = None]
    /\ UNCHANGED tables

-----------------------------------------------------------------------------
(* Foreign keys: nothing is inserted for a bot that is not there. *)
HasBot == bot = "there"

(* create_random_bot *)
CreateBot(r) ==
    /\ At(r, "create", "begun")
    /\ bot = "unborn"
    /\ bot' = "there"
    /\ Goes(r, "bot")
    /\ UNCHANGED <<prompt, parts, held>>

\* Mutant of InsertAvatar: the table has no foreign key.
InsertAvatarAnyway(look) ==
    /\ lastAvatar' = lastAvatar + 1
    /\ avatar' = [avatar EXCEPT ![lastAvatar + 1] = look]
    /\ UNCHANGED <<bot, prompt, row, chapters, emptied, lastRow, held>>

InsertAvatar(look) ==
    /\ HasBot
    /\ lastAvatar' = lastAvatar + 1
    /\ avatar' = [avatar EXCEPT ![lastAvatar + 1] = look]
    /\ UNCHANGED <<bot, prompt, row, chapters, emptied, lastRow, held>>

\* Mutant of CreateAvatar: a bot whose avatar could not be stored goes on.
CreateAvatarOrNot(r) ==
    \/ /\ At(r, "create", "bot")
       /\ \E look \in Looks : InsertAvatar(look)
       /\ Goes(r, "dressed")
    \/ /\ At(r, "create", "bot")
       /\ Goes(r, "dressed")
       /\ UNCHANGED <<tables, held>>

(* create_random_avatar *)
CreateAvatar(r) ==
    /\ At(r, "create", "bot")
    /\ \E look \in Looks : InsertAvatar(look)
    /\ Goes(r, "dressed")

(* create: a row of its own, however many the bot has.  The object is not    *)
(* held: what update_prompt reads next is fresh.                             *)
CreateParameters(r) ==
    /\ At(r, "create", "dressed") \/ At(r, "put", "begun")
    /\ HasBot
    /\ lastRow' = lastRow + 1
    /\ row' = [row EXCEPT ![lastRow + 1] = call[r].profile]
    /\ Goes(r, "stored")
    /\ UNCHANGED <<bot, prompt, avatar, chapters, emptied, lastAvatar, held>>

\* Mutant of Applied: a null in the payload is applied.
AppliedNulls(changes) == {f \in Fields : changes[f] # Empty \/ f \in Clearable}

(* patch_bot_parameters: the fields of the payload that are applied *)
Applied(changes) ==
    {f \in Fields : changes[f] # None /\ (changes[f] # Empty \/ f \in Clearable)}

Patched(profile, changes) ==
    [f \in Fields |-> IF f \in Applied(changes) THEN changes[f] ELSE profile[f]]

\* Mutant of Patch: the UPDATE writes every column as r has it.
PatchWhole(r) ==
    /\ At(r, "patch", "begun")
    /\ LET i == First(view[r].row)
           mine == Patched(view[r].row[i], call[r].changes) IN
        /\ row[i] # None \/ mine = view[r].row[i]
        /\ row' = IF row[i] = None THEN row ELSE [row EXCEPT ![i] = mine]
        /\ held' = [held EXCEPT ![r] = [id |-> i, profile |-> mine]]
    /\ Goes(r, "stored")
    /\ UNCHANGED <<bot, prompt, avatar, chapters, emptied, lastRow, lastAvatar>>

Patch(r) ==
    /\ At(r, "patch", "begun")
    /\ LET i == First(view[r].row)
           old == view[r].row[i]
           mine == Patched(old, call[r].changes) IN
        /\ row[i] # None \/ mine = old
        /\ row' = IF row[i] = None THEN row
                  ELSE [row EXCEPT ![i] = [f \in Fields |->
                            IF mine[f] # old[f] THEN mine[f] ELSE row[i][f]]]
        /\ held' = [held EXCEPT ![r] = [id |-> i, profile |-> mine]]
    /\ Goes(r, "stored")
    /\ UNCHANGED <<bot, prompt, avatar, chapters, emptied, lastRow, lastAvatar>>

\* Mutant of Source: the row the request has written itself.
SourceOfOwn(r, t) == IF call[r].op = "patch" THEN held[r].profile ELSE call[r].profile

(* The profile update_prompt gets to see in table t: that of the first row,  *)
(* but a request that holds this row sees it as it left it.                  *)
Source(r, t) ==
    IF held[r] # None /\ held[r].id = First(t) THEN held[r].profile ELSE t[First(t)]

After(r) == IF call[r].op = "create" THEN "prompted" ELSE "done"

(* update_prompt, its reads: a new transaction.  The creation still holds    *)
(* the bot it has inserted, with the prompt "".                              *)
ReadAgain(r) ==
    /\ r \in Working /\ pc[r] = "stored"
    /\ IF Exists(row)
       THEN /\ pc' = [pc EXCEPT ![r] = "read"]
            /\ view' = [view EXCEPT ![r] =
                  [Now EXCEPT !.prompt = IF call[r].op = "create" THEN None ELSE prompt]]
            /\ held' = [held EXCEPT ![r] = [id |-> First(row), profile |-> Source(r, row)]]
            /\ UNCHANGED <<call, alone>>
       ELSE Goes(r, After(r)) /\ UNCHANGED held
    /\ UNCHANGED tables

(* update_prompt, its UPDATE, if the prompt is not the one it has loaded *)
WritePrompt(r) ==
    /\ r \in Working /\ pc[r] = "read"
    /\ IF held[r].profile = view[r].prompt
       THEN UNCHANGED prompt
       ELSE HasBot /\ prompt' = held[r].profile
    /\ Goes(r, After(r))
    /\ held' = [held EXCEPT ![r] = None]
    /\ UNCHANGED <<bot, parts>>

(* importTemplateInDB, reindex_bot: module Knowledge has what they do *)
ImportTemplate(r) ==
    /\ At(r, "create", "prompted")
    /\ HasBot
    /\ chapters' = TRUE
    /\ Goes(r, "done")
    /\ held' = [held EXCEPT ![r] = None]
    /\ UNCHANGED <<bot, prompt, row, avatar, emptied, lastRow, lastAvatar>>

(* delete_by_bot_id: the first row only; the prompt stays *)
DropParameters(r) ==
    /\ At(r, "drop", "begun")
    /\ row' = [row EXCEPT ![First(view[r].row)] = None]
    /\ Goes(r, "done")
    /\ UNCHANGED <<bot, prompt, avatar, chapters, emptied, lastRow, lastAvatar, held>>

-----------------------------------------------------------------------------
(* create_random_avatar, create: a row of its own, however many there are *)
AddAvatar(r) ==
    /\ At(r, "add_avatar", "begun")
    /\ InsertAvatar(call[r].look)
    /\ Goes(r, "done")

(* patch_avatar skips a 0; update_and_return_datat does not.  No UPDATE when *)
(* the look is the one that was loaded.                                      *)
ChangeAvatar(r) ==
    /\ At(r, "patch_avatar", "begun") \/ At(r, "put_avatar", "begun")
    /\ LET i == call[r].id
           old == view[r].avatar[i]
           new == IF call[r].op = "patch_avatar" /\ call[r].look = 0 THEN old ELSE call[r].look IN
        IF new = old THEN UNCHANGED avatar
        ELSE avatar[i] # None /\ avatar' = [avatar EXCEPT ![i] = new]
    /\ Goes(r, "done")
    /\ UNCHANGED <<bot, prompt, row, chapters, emptied, lastRow, lastAvatar, held>>

(* delete_avatar_by_bot_id: the first row only *)
DropAvatar(r) ==
    /\ At(r, "drop_avatar", "begun")
    /\ avatar' = [avatar EXCEPT ![First(view[r].avatar)] = None]
    /\ Goes(r, "done")
    /\ UNCHANGED <<bot, prompt, row, chapters, emptied, lastRow, lastAvatar, held>>

(* KnowledgeSvc.delete_all commits, for the route that deletes all chapters  *)
(* of a bot and as the first of the two commits of BotService.delete         *)
DropChapters(r) ==
    /\ At(r, "clear", "begun") \/ At(r, "delete", "begun")
    /\ chapters' = FALSE
    /\ emptied' = emptied \cup {r}
    /\ Goes(r, IF call[r].op = "delete" THEN "emptied" ELSE "done")
    /\ UNCHANGED <<bot, prompt, row, avatar, lastRow, lastAvatar, held>>

(* delete_all fails and rolls back; BotService.delete does not ask whether *)
KeepChapters(r) ==
    /\ At(r, "delete", "begun")
    /\ Goes(r, "emptied")
    /\ UNCHANGED <<tables, held>>

(* BotService.delete, its second commit: the rows of the bot go with it, ON  *)
(* DELETE CASCADE.  One that goes after it was read again is no error.       *)
DeleteBot(r) ==
    /\ At(r, "delete", "emptied")
    /\ bot' = "gone"
    /\ prompt' = None
    /\ row' = NoRows /\ avatar' = NoRows /\ chapters' = FALSE
    /\ Goes(r, "done")
    /\ UNCHANGED <<emptied, lastRow, lastAvatar, held>>

Next ==
    \/ \E r \in Requests, c \in {x \in Call : x.op \in Ops} : Begin(r, c)
    \/ \E r \in Requests :
        \/ Fail(r)
        \/ CreateBot(r) \/ CreateAvatar(r) \/ CreateParameters(r) \/ Patch(r)
        \/ ReadAgain(r) \/ WritePrompt(r) \/ ImportTemplate(r) \/ DropParameters(r)
        \/ AddAvatar(r) \/ ChangeAvatar(r) \/ DropAvatar(r)
        \/ DropChapters(r) \/ KeepChapters(r) \/ DeleteBot(r)

Spec == Init /\ [][Next]_vars

-----------------------------------------------------------------------------
(* A request that sets the prompt and is served alone sets it right: to what   *)
(* GET shows the parameters to be, whatever overlapping requests, failures and *)
(* deleted rows had left behind.                                               *)
AlonePromptIsRight ==
    [][\A r \in Requests :
        alone[r] /\ pc[r] = "read" /\ pc'[r] \in {"prompted", "done"} =>
            Exists(row') /\ prompt' = row'[First(row')]]_vars

(* Requests that overlap do not undo each other's changes: what happens to a   *)
(* row that stays is what a PATCH or PUT of this row asks for, field by field. *)
OnlyNamedFieldsChange ==
    [][\A i \in Ids :
        /\ row[i] # None /\ row'[i] # None =>
              \A f \in Fields : row'[i][f] # row[i][f] =>
                  \E r \in Requests :
                      /\ At(r, "patch", "begun") /\ pc'[r] = "stored"
                      /\ First(view[r].row) = i /\ call[r].changes[f] = row'[i][f]
        /\ avatar[i] # None /\ avatar'[i] # None /\ avatar'[i] # avatar[i] =>
              \E r \in Working :
                  /\ call[r] \in AvatarCall /\ pc'[r] = "done"
                  /\ call[r].id = i /\ call[r].look = avatar'[i]]_vars

(* What belongs to a bot is there only as long as the bot, though it is added  *)
(* by requests that have looked for the bot, if at all, in an earlier          *)
(* transaction.                                                                *)
NothingOutlivesItsBot ==
    bot # "there" => row = NoRows /\ avatar = NoRows /\ ~chapters /\ prompt = None

\* Such a request was answered.
Deleted(op) == \E q \in Requests : At(q, op, "done")

(* A creation that was reported done has made all of the bot: what is not      *)
(* there was deleted by a request that says so, the chapters also by a         *)
(* deletion of the bot that has got no further, failed or still under way.     *)
WholeOnceDone ==
    bot = "there" /\ (\E r \in Requests : At(r, "create", "done")) =>
        /\ chapters \/ emptied # {}
        /\ Exists(avatar) \/ Deleted("drop_avatar")
        /\ (Exists(row) /\ prompt # None) \/ Deleted("drop")

=============================================================================
