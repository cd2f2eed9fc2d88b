------------------------------ MODULE Accounts ------------------------------
(***************************************************************************)
(* Who is whose: accounts and their parents, the bots they own, the bots   *)
(* that are given to them and the one they have selected                   *)
(* (UserAdminService, BotService, BotAssignmentService, GoogleAuthentSvc   *)
(* and their routers).                                                     *)
(*                                                                         *)
(* Every request reads, decides and then writes, in one transaction of a   *)
(* database session of its own (MySQL, REPEATABLE READ).  What it decides  *)
(* on is a snapshot, taken by its first read; what it writes meets the     *)
(* rows as they are at its commit.  There, foreign keys are checked, bulk  *)
(* DELETEs and UPDATEs apply to the newest rows, and an UPDATE of a loaded *)
(* row is issued only if its value differs from the one that was loaded,   *)
(* and fails the request when the row is gone.                             *)
(*                                                                         *)
(* A request is sent once; a refused one does not begin.  Its name is the  *)
(* id of the account or of the bot it creates.  Passwords, activation and  *)
(* tokens are in module Access, the sessions and messages of an account in *)
(* module Conversation, the rest of a bot in modules Persona and Knowledge.*)
(***************************************************************************)
EXTENDS Naturals

CONSTANTS
    Users, Bots,    \* the ids of the accounts and bots there are at first
    Requests,
    Mails,
    SuperAdmin,     \* SUPER_ADMIN_LOGIN, a mail
    Start,          \* the databases the system may be found with
    Ops,            \* the operations requests may ask for, in AllOps
    MaxRepeat,      \* bound: how often assigned_bot_ids names one bot
    None

Roles == {"Admin", "User", "Guest"}
People == Users \cup Requests
AllBots == Bots \cup Requests
Writers == Requests \cup {None}

AllOps == {"register", "google", "startup", "guest", "update", "role", "patch",
           "select", "delete", "reassign", "assign", "enable", "disable",
           "unassign", "remove", "create_bot", "give_bot", "delete_bot"}

-----------------------------------------------------------------------------
\* parent None is -1; selected may be any number, there is no foreign key.
Account == [mail : Mails, role : Roles, parent : People \cup {None},
            selected : AllBots \cup {None}]
\* A row of bot_guest_assignment.  Its id is the request that inserted it, made
\* (None for those there were), and which of the rows for its bot it is of that
\* request, copy.  History: vouched, the request that last wrote its assigned_by.
Assignment == [bot : AllBots, user : People, by : People, active : BOOLEAN,
               made : Writers, copy : 1..MaxRepeat, vouched : Writers]
SameRow(x, y) ==
    x.bot = y.bot /\ x.user = y.user /\ x.made = y.made /\ x.copy = y.copy

\* assigned_bot_ids, a list[int]: how often it names each bot, whatever the order
Lists == [AllBots -> 0..MaxRepeat]
Named(list) == {b \in AllBots : list[b] > 0}
Once(b) == [a \in AllBots |-> IF a = b THEN 1 ELSE 0]

DB == [user : [People -> Account \cup {None}], bot : [AllBots -> People \cup {None}],
       assigned : SUBSET Assignment]

(* Databases that requests one after the other may leave behind, as long as  *)
(* nobody has changed hands: each mail is used once, and a guest has been    *)
(* given bots of its parent by its parent.                                   *)
Consistent(d) ==
    /\ \A r \in Requests : d.user[r] = None /\ d.bot[r] = None
    /\ \A p, q \in Users :
          d.user[p] # None /\ d.user[q] # None /\ p # q => d.user[p].mail # d.user[q].mail
    /\ \A p \in Users : d.user[p] # None =>
          /\ d.user[p].parent # None => d.user[d.user[p].parent] # None
          /\ d.user[p].selected # None => d.bot[d.user[p].selected] # None
    /\ \A b \in Bots : d.bot[b] # None => d.user[d.bot[b]] # None
    /\ \A x \in d.assigned :
          /\ d.user[x.user] # None /\ d.user[x.by] # None /\ d.bot[x.bot] # None
          /\ x.made = None /\ x.vouched = None
          /\ d.user[x.user].role = "Guest" =>
                x.by = d.user[x.user].parent /\ d.bot[x.bot] = x.by
          /\ \A y \in d.assigned : SameRow(x, y) => x = y

ASSUME AccountsAssumption ==
    /\ Users \cap Requests = {} /\ Bots \cap Requests = {} /\ Users \cap Bots = {}
    /\ None \notin People \cup AllBots
    /\ None \notin Account \cup DB
    /\ SuperAdmin \in Mails
    /\ MaxRepeat \in Nat \ {0}
    /\ Ops \subseteq AllOps
    /\ Start \subseteq DB
    /\ \A d \in Start : Consistent(d)

VARIABLES
    user,       \* user[p]: the user_account row of p, or None
    bot,        \* bot[b]: the owner of b, or None when there is no b
    assigned,   \* the rows of bot_guest_assignment
    claims,     \* claims[p]: the roles an access token of p may carry
    call,       \* call[r]: what r asks for, or None
    view,       \* view[r]: the database as r has read it, or None
    pc,         \* pc[r]: where r is
    wrote,      \* history: wrote[p].f is the request that last wrote column f of p
    gave,       \* history: gave[b] is the request that last wrote the owner of b
    gone,       \* history: gone[i] is the request that deleted account or bot i
    before,     \* history: before[r], those that had committed when r began
    past        \* history: past[r], those that had committed when r committed

tables == <<user, bot, assigned>>
historyVars == <<wrote, gave, gone>>
vars == <<tables, claims, call, view, pc, historyVars, before, past>>

-----------------------------------------------------------------------------
MailCall == [op : {"register", "google", "startup"}, mail : Mails]
GuestCall == [op : {"guest"}, by : People, mail : Mails, bots : Lists]
UpdateCall == [op : {"update"}, by : People, user : People, mail : Mails]
RoleCall == [op : {"role"}, by : People, user : People, role : {"User", "Guest"}]
\* user None: PATCH /users/me.  bots None: no assigned_bot_ids in the body.
PatchCall == [op : {"patch"}, by : People, user : People \cup {None},
              bot : AllBots \cup {None}, bots : {None} \cup Lists]
DeleteCall == [op : {"delete"}, by : People, user : People]
ReassignCall == [op : {"reassign"}, by : People, old : People \cup {None}, new : People]
PairCall == [op : {"assign", "remove", "give_bot"}, by : People, user : People,
             bot : AllBots]
RowCalls(rows) == [op : {"enable", "disable", "unassign"}, by : People, row : rows]
BotCall == [op : {"select", "delete_bot"}, by : People, bot : AllBots]
CreateCall == [op : {"create_bot"}, by : People]
Calls(rows) ==
    MailCall \cup GuestCall \cup UpdateCall \cup RoleCall \cup PatchCall \cup DeleteCall
    \cup ReassignCall \cup PairCall \cup RowCalls(rows) \cup BotCall \cup CreateCall
Call == Calls(Assignment)

ASSUME NoneAssumption == None \notin Call

Wrote == [mail : Writers, role : Writers, parent : Writers, selected : Writers]

TypeOK ==
    /\ user \in [People -> Account \cup {None}]
    /\ bot \in [AllBots -> People \cup {None}]
    /\ assigned \in SUBSET Assignment
    /\ claims \in [People -> SUBSET Roles]
    /\ call \in [Requests -> Call \cup {None}]
    /\ view \in [Requests -> DB \cup {None}]
    /\ pc \in [Requests -> {"new", "working", "done", "failed"}]
    /\ wrote \in [People -> Wrote]
    /\ gave \in [AllBots -> Writers]
    /\ gone \in [People \cup AllBots -> Writers]
    /\ before \in [Requests -> SUBSET Requests]
    /\ past \in [Requests -> SUBSET Requests]

By(w) == [mail |-> w, role |-> w, parent |-> w, selected |-> w]

Init ==
    /\ \E d \in Start : user = d.user /\ bot = d.bot /\ assigned = d.assigned
    /\ claims = [p \in People |-> IF user[p] = None THEN {} ELSE {user[p].role}]
    /\ call = [r \in Requests |-> None]
    /\ view = [r \in Requests |-> None]
    /\ pc = [r \in Requests |-> "new"]
    /\ wrote = [p \in People |-> By(None)]
    /\ gave = [b \in AllBots |-> None]
    /\ gone = [i \in People \cup AllBots |-> None]
    /\ before = [r \in Requests |-> {}]
    /\ past = [r \in Requests |-> {}]

-----------------------------------------------------------------------------
(* What the requests decide on, in the database d they see. *)

Exists(d, p) == d.user[p] # None

(* require_roles: the roles are those of the token, not of the account. *)
HasRole(p, roles) == claims[p] \cap roles # {}

\* Mutant of MayActOn: an Admin may act on any Admin.
MayActOnAdmins(d, by, p) ==
    /\ Exists(d, by)
    /\ \/ by = p
       \/ /\ Exists(d, p)
          /\ d.user[by].role = "Admin" \/ d.user[p].parent = by

(* authorize_user_scope *)
MayActOn(d, by, p) ==
    /\ Exists(d, by)
    /\ \/ by = p
       \/ /\ Exists(d, p)
          /\ d.user[p].role # "Admin"
          /\ d.user[by].role = "Admin" \/ d.user[p].parent = by

\* Mutant of MailIsFree: nobody looks.
MailIsAssumedFree(d, m) == m \in Mails

(* get_user_by_email finds nobody *)
MailIsFree(d, m) == \A p \in People : Exists(d, p) => d.user[p].mail # m

\* Mutant of Assignable: a guest can be given bots by anyone who owns some.
AssignableByAny(d, by, p, b) ==
    /\ d.bot[b] = by
    /\ Exists(d, p) /\ d.user[p].role \in {"Guest", "User"}

(* _check_assignable *)
Assignable(d, by, p, b) ==
    /\ d.bot[b] = by
    /\ Exists(d, p) /\ d.user[p].role \in {"Guest", "User"}
    /\ d.user[p].role = "Guest" => d.user[p].parent = by

(* can_modify *)
MayModify(d, by, b) ==
    /\ Exists(d, by) /\ d.bot[b] # None
    /\ d.user[by].role = "Admin" \/ d.bot[b] = by

Children(d, p) == {q \in People : Exists(d, q) /\ d.user[q].parent = p}

\* Mutant of MayDelete: the children are not looked for.
MayDeleteParent(d, c) ==
    /\ Exists(d, c.user)
    /\ c.by = c.user \/ (HasRole(c.by, {"Admin", "User"}) /\ MayActOn(d, c.by, c.user))

(* delete_user_self, delete_user_by_id, and delete up to its children check *)
MayDelete(d, c) ==
    /\ Exists(d, c.user)
    /\ c.by = c.user \/ (HasRole(c.by, {"Admin", "User"}) /\ MayActOn(d, c.by, c.user))
    /\ Children(d, c.user) = {}

(* register, verify_google_token when it finds no account, lifespan *)
MayRegister(d, c) ==
    /\ MailIsFree(d, c.mail)
    /\ c.op = "startup" => c.mail = SuperAdmin

(* register_guest: the caller need not exist any more, unless the guest is   *)
(* given bots: replace_user_assignments sees the guest of this transaction.  *)
MayRegisterGuest(d, c) ==
    /\ HasRole(c.by, {"Admin", "User"})
    /\ MailIsFree(d, c.mail)
    /\ \A b \in Named(c.bots) : d.bot[b] = c.by

(* update_users_self, update_users_by_id: nobody looks whose the mail is *)
MayUpdate(d, c) ==
    /\ Exists(d, c.user)
    /\ c.by = c.user \/ (HasRole(c.by, {"Admin", "User"}) /\ MayActOn(d, c.by, c.user))

(* change_role *)
MayChangeRole(d, c) ==
    /\ Exists(d, c.user)
    /\ HasRole(c.by, {"Admin"}) /\ MayActOn(d, c.by, c.user)

(* patch_user_self, patch_user_by_id, patch_user: bot is selected by the     *)
(* caller, whoever the route names; the target of /me is nobody, so that     *)
(* only an empty list passes there.                                          *)
MayPatch(d, c) ==
    /\ Exists(d, c.by)
    /\ c.bot # None => d.bot[c.bot] # None
    /\ IF c.user = None
       THEN c.bots # None => Named(c.bots) = {}
       ELSE /\ HasRole(c.by, {"Admin", "User"}) /\ MayActOn(d, c.by, c.user)
            /\ c.bots # None => \A b \in Named(c.bots) : Assignable(d, c.by, c.user, b)

(* reassign_children: old may be -1, the parent of those who have none *)
MayReassign(d, c) == HasRole(c.by, {"Admin"}) /\ Exists(d, c.new)

(* The checks of the routes about assignments. *)
MayAssign(d, c) ==
    /\ HasRole(c.by, {"Admin", "User"}) /\ Exists(d, c.by)
    /\ Assignable(d, c.by, c.user, c.bot)
MayRemove(d, c) ==
    /\ HasRole(c.by, {"Admin", "User"}) /\ Exists(d, c.by)
    /\ \E x \in d.assigned : x.bot = c.bot /\ x.user = c.user
MayEdit(d, c) ==
    /\ HasRole(c.by, {"Admin", "User"}) /\ Exists(d, c.by)
    /\ c.row \in d.assigned
    /\ d.user[c.by].role = "Admin" \/ c.row.by = c.by

(* create_bot, update_bot_admin, delete_bot *)
MayCreateBot(d, c) == HasRole(c.by, {"Admin", "User"}) /\ Exists(d, c.by)
MayChangeBot(d, c) == HasRole(c.by, {"Admin", "User"}) /\ MayModify(d, c.by, c.bot)

Accepts(d, c) ==
    \/ c.op \in {"register", "google", "startup"} /\ MayRegister(d, c)
    \/ c.op = "guest" /\ MayRegisterGuest(d, c)
    \/ c.op = "update" /\ MayUpdate(d, c)
    \/ c.op = "role" /\ MayChangeRole(d, c)
    \/ c.op = "patch" /\ MayPatch(d, c)
    \/ c.op = "select" /\ Exists(d, c.by)
    \/ c.op = "delete" /\ MayDelete(d, c)
    \/ c.op = "reassign" /\ MayReassign(d, c)
    \/ c.op = "assign" /\ MayAssign(d, c)
    \/ c.op = "remove" /\ MayRemove(d, c)
    \/ c.op \in {"enable", "disable", "unassign"} /\ MayEdit(d, c)
    \/ c.op = "create_bot" /\ MayCreateBot(d, c)
    \/ c.op \in {"give_bot", "delete_bot"} /\ MayChangeBot(d, c)

-----------------------------------------------------------------------------
(* A request *)

Committed == {r \in Requests : pc[r] = "done"}

(* r reads: its snapshot is the database of now. *)
Begin(r, c) ==
    /\ pc[r] = "new"
    /\ c.op \in Ops
    /\ LET d == [user |-> user, bot |-> bot, assigned |-> assigned] IN
        /\ Accepts(d, c)
        /\ view' = [view EXCEPT ![r] = d]
    /\ call' = [call EXCEPT ![r] = c]
    /\ pc' = [pc EXCEPT ![r] = "working"]
    /\ before' = [before EXCEPT ![r] = Committed]
    /\ UNCHANGED <<tables, claims, historyVars, past>>

(* An exception, a foreign key or a row that is gone: nothing was written. *)
Fail(r) ==
    /\ pc[r] = "working"
    /\ pc' = [pc EXCEPT ![r] = "failed"]
    /\ UNCHANGED <<tables, claims, call, view, historyVars, before, past>>

Commits(r, ops) ==
    /\ pc[r] = "working"
    /\ call[r].op \in ops
    /\ pc' = [pc EXCEPT ![r] = "done"]
    /\ past' = [past EXCEPT ![r] = Committed]
    /\ UNCHANGED <<call, view, before>>

(* INSERT of the account r *)
Creates(r, row) ==
    /\ user' = [user EXCEPT ![r] = row]
    /\ wrote' = [wrote EXCEPT ![r] = By(r)]
    /\ claims' = [claims EXCEPT ![r] = {row.role}]

(* INSERTs of assignments, one for each element of the list, repeated or not; *)
(* their foreign keys must hold                                               *)
Rows(r, by, p, list) ==
    {x \in [bot : AllBots, user : {p}, by : {by}, active : {TRUE}, made : {r},
            copy : 1..MaxRepeat, vouched : {r}] : x.copy <= list[x.bot]}

NewRowsHold(by, p, bots) ==
    bots # {} => /\ user[by] # None /\ user[p] # None
                 /\ \A b \in bots : bot[b] # None

(* SET selected_bot_id of p to b, unless r has read that it is b *)
Selects(r, p, b) ==
    IF view[r].user[p].selected = b
    THEN UNCHANGED <<user, wrote>>
    ELSE /\ user[p] # None
         /\ user' = [user EXCEPT ![p].selected = b]
         /\ wrote' = [wrote EXCEPT ![p].selected = r]

(* create, for register_new_user and register_user *)
CommitRegister(r) ==
    /\ Commits(r, {"register", "google", "startup"})
    /\ Creates(r, [mail |-> call[r].mail,
                   role |-> IF call[r].op = "startup" THEN "Admin" ELSE "User",
                   parent |-> None, selected |-> None])
    /\ UNCHANGED <<bot, assigned, gave, gone>>

(* create, for register_new_guest, with its assigned_bot_ids *)
CommitGuest(r) ==
    LET c == call[r] IN
    /\ Commits(r, {"guest"})
    /\ Named(c.bots) # {} => user[c.by] # None /\ \A b \in Named(c.bots) : bot[b] # None
    /\ Creates(r, [mail |-> c.mail, role |-> "Guest", parent |-> c.by, selected |-> None])
    /\ assigned' = assigned \cup Rows(r, c.by, r, c.bots)
    /\ UNCHANGED <<bot, gave, gone>>

(* update: the fields of the body that differ; names are left out *)
CommitUpdate(r) ==
    LET p == call[r].user IN
    /\ Commits(r, {"update"})
    /\ IF view[r].user[p].mail = call[r].mail
       THEN UNCHANGED <<user, wrote>>
       ELSE /\ user[p] # None
            /\ user' = [user EXCEPT ![p].mail = call[r].mail]
            /\ wrote' = [wrote EXCEPT ![p].mail = r]
    /\ UNCHANGED <<bot, assigned, claims, gave, gone>>

(* change_user_role; who logs in from now on carries the new role *)
CommitRole(r) ==
    LET p == call[r].user IN
    /\ Commits(r, {"role"})
    /\ IF view[r].user[p].role = call[r].role
       THEN UNCHANGED <<user, wrote, claims>>
       ELSE /\ user[p] # None
            /\ user' = [user EXCEPT ![p].role = call[r].role]
            /\ wrote' = [wrote EXCEPT ![p].role = r]
            /\ claims' = [claims EXCEPT ![p] = @ \cup {call[r].role}]
    /\ UNCHANGED <<bot, assigned, gave, gone>>

(* replace_user_assignments: one DELETE of what p has by now, then INSERTs *)
Replaced(r, p, rows) == {x \in assigned : x.user # p} \cup rows

(* patch_user *)
CommitPatch(r) ==
    LET c == call[r] IN
    /\ Commits(r, {"patch"})
    /\ IF c.bot = None THEN UNCHANGED <<user, wrote>> ELSE Selects(r, c.by, c.bot)
    /\ IF c.user = None \/ c.bots = None
       THEN UNCHANGED assigned
       ELSE /\ NewRowsHold(c.by, c.user, Named(c.bots))
            /\ assigned' = Replaced(r, c.user, Rows(r, c.by, c.user, c.bots))
    /\ UNCHANGED <<bot, claims, gave, gone>>

(* select_bot *)
CommitSelect(r) ==
    /\ Commits(r, {"select"})
    /\ Selects(r, call[r].by, call[r].bot)
    /\ UNCHANGED <<bot, assigned, claims, gave, gone>>

\* Mutant of CommitDelete: the bots are left without an owner or a trace.
CommitDeleteLoose(r) ==
    LET p == call[r].user
        bots == {b \in AllBots : bot[b] = p}
    IN
    /\ Commits(r, {"delete"})
    /\ user' = [user EXCEPT ![p] = None]
    /\ bot' = [b \in AllBots \ bots |-> bot[b]]
    /\ assigned' = {x \in assigned : p \notin {x.user, x.by}}
    /\ UNCHANGED <<claims, historyVars>>

(* delete: the assignments p has received or made, its bots with the          *)
(* assignments of those, and p itself; who had selected one of the bots is    *)
(* not looked for.  An account that is gone already is no error.              *)
CommitDelete(r) ==
    LET p == call[r].user
        bots == {b \in AllBots : bot[b] = p}
    IN
    /\ Commits(r, {"delete"})
    /\ user' = [user EXCEPT ![p] = None]
    /\ bot' = [b \in AllBots |-> IF b \in bots THEN None ELSE bot[b]]
    /\ assigned' = {x \in assigned : p \notin {x.user, x.by} /\ x.bot \notin bots}
    /\ gone' = [i \in People \cup AllBots |->
                  IF i \in bots \/ (i = p /\ user[p] # None) THEN r ELSE gone[i]]
    /\ UNCHANGED <<claims, wrote, gave>>

(* reassign_children: the children r has read *)
CommitReassign(r) ==
    LET new == call[r].new
        moved == {q \in Children(view[r], call[r].old) :
                    view[r].user[q].parent # new}
    IN
    /\ Commits(r, {"reassign"})
    /\ \A q \in moved : user[q] # None
    /\ user' = [q \in People |->
                  IF q \in moved THEN [user[q] EXCEPT !.parent = new] ELSE user[q]]
    /\ wrote' = [q \in People |->
                   IF q \in moved THEN [wrote[q] EXCEPT !.parent = r] ELSE wrote[q]]
    /\ UNCHANGED <<bot, assigned, claims, gave, gone>>

\* Mutant of CommitAssign: an existing row is not reused.
CommitAssignNew(r) ==
    LET c == call[r] IN
    /\ Commits(r, {"assign"})
    /\ NewRowsHold(c.by, c.user, {c.bot})
    /\ assigned' = assigned \cup Rows(r, c.by, c.user, Once(c.bot))
    /\ UNCHANGED <<user, bot, claims, historyVars>>

(* BotAssignmentService.create: a row r has read is reused; a is is_active *)
CommitAssign(r) ==
    LET c == call[r]
        found == {x \in view[r].assigned : x.bot = c.bot /\ x.user = c.user}
    IN
    /\ Commits(r, {"assign"})
    /\ \E a \in BOOLEAN :
        IF found = {}
        THEN /\ NewRowsHold(c.by, c.user, {c.bot})
             /\ assigned' = assigned \cup
                    {[x EXCEPT !.active = a] : x \in Rows(r, c.by, c.user, Once(c.bot))}
        ELSE \E x \in found, y \in assigned :
                /\ SameRow(x, y)
                /\ user[c.by] # None
                /\ assigned' = (assigned \ {y}) \cup
                       {[y EXCEPT !.active = IF x.active = a THEN @ ELSE a,
                                  !.by = c.by, !.vouched = r]}
    /\ UNCHANGED <<user, bot, claims, historyVars>>

(* BotAssignmentService.update *)
CommitEdit(r) ==
    LET x == call[r].row
        a == call[r].op = "enable"
    IN
    /\ Commits(r, {"enable", "disable"})
    /\ IF x.active = a
       THEN UNCHANGED assigned
       ELSE \E y \in assigned :
                /\ SameRow(x, y)
                /\ assigned' = (assigned \ {y}) \cup {[y EXCEPT !.active = a]}
    /\ UNCHANGED <<user, bot, claims, historyVars>>

(* BotAssignmentService.delete; a row that is gone already is no error *)
CommitUnassign(r) ==
    /\ Commits(r, {"unassign"})
    /\ assigned' = {y \in assigned : ~SameRow(call[r].row, y)}
    /\ UNCHANGED <<user, bot, claims, historyVars>>

(* remove_assignment: the first row of the pair that it has read *)
CommitRemove(r) ==
    /\ Commits(r, {"remove"})
    /\ \E x \in view[r].assigned :
        /\ x.bot = call[r].bot /\ x.user = call[r].user
        /\ assigned' = {y \in assigned : ~SameRow(x, y)}
    /\ UNCHANGED <<user, bot, claims, historyVars>>

(* create_random_bot, its first commit *)
CommitCreateBot(r) ==
    /\ Commits(r, {"create_bot"})
    /\ user[call[r].by] # None
    /\ bot' = [bot EXCEPT ![r] = call[r].by]
    /\ gave' = [gave EXCEPT ![r] = r]
    /\ UNCHANGED <<user, assigned, claims, wrote, gone>>

(* BotService.update with a user_account_id *)
CommitGiveBot(r) ==
    LET c == call[r] IN
    /\ Commits(r, {"give_bot"})
    /\ IF view[r].bot[c.bot] = c.user
       THEN UNCHANGED <<bot, gave>>
       ELSE /\ bot[c.bot] # None /\ user[c.user] # None
            /\ bot' = [bot EXCEPT ![c.bot] = c.user]
            /\ gave' = [gave EXCEPT ![c.bot] = r]
    /\ UNCHANGED <<user, assigned, claims, wrote, gone>>

Unselected(b) ==
    [p \in People |-> IF user[p] # None /\ user[p].selected = b
                      THEN [user[p] EXCEPT !.selected = None] ELSE user[p]]

\* Mutant of CommitDeleteBot: clear_selected_bot is left to the foreign key.
CommitDeleteBotOnly(r) ==
    LET b == call[r].bot IN
    /\ Commits(r, {"delete_bot"})
    /\ bot' = [bot EXCEPT ![b] = None]
    /\ assigned' = {x \in assigned : x.bot # b}
    /\ gone' = [gone EXCEPT ![b] = IF bot[b] = None THEN @ ELSE r]
    /\ UNCHANGED <<user, claims, wrote, gave>>

(* BotService.delete.  The bot is read again after delete_all has committed, *)
(* so that nothing happens if it is gone by then; one that goes after that   *)
(* is no error.                                                              *)
CommitDeleteBot(r) ==
    LET b == call[r].bot IN
    /\ Commits(r, {"delete_bot"})
    /\ user' \in IF bot[b] = None THEN {user, Unselected(b)} ELSE {Unselected(b)}
    /\ bot' = [bot EXCEPT ![b] = None]
    /\ assigned' = {x \in assigned : x.bot # b}
    /\ gone' = [gone EXCEPT ![b] = IF bot[b] = None THEN @ ELSE r]
    /\ UNCHANGED <<claims, wrote, gave>>

Commit(r) ==
    \/ CommitRegister(r) \/ CommitGuest(r) \/ CommitUpdate(r) \/ CommitRole(r)
    \/ CommitPatch(r) \/ CommitSelect(r) \/ CommitDelete(r) \/ CommitReassign(r)
    \/ CommitAssign(r) \/ CommitEdit(r) \/ CommitUnassign(r) \/ CommitRemove(r)
    \/ CommitCreateBot(r) \/ CommitGiveBot(r) \/ CommitDeleteBot(r)

Next ==
    \E r \in Requests :
        \/ pc[r] = "new" /\ \E c \in Calls(assigned) : Begin(r, c)
        \/ Commit(r)
        \/ Fail(r)

Spec == Init /\ [][Next]_vars

-----------------------------------------------------------------------------
(* Only an update, which does not look, gives an account a mail that another *)
(* one had when its request began.  Registrations, first Google logins and   *)
(* startups that do not overlap never share a mail, however many there are;  *)
(* those that do overlap may (mail is not unique).                           *)
MailsClashOnlyByRace ==
    \A p, q \in People :
        LET t == wrote[q].mail IN
        p # q /\ user[p] # None /\ user[q] # None /\ user[p].mail = user[q].mail
            /\ t # None
        => call[t].op = "update" \/ wrote[p].mail \notin before[t] \cup {None}

(* Nobody who was a child of an account when its deletion began is left      *)
(* without a parent: the orphans there are got that parent from a request    *)
(* that overlapped the deletion or came after it.                            *)
NoChildIsOverlooked ==
    \A p \in People :
        user[p] # None /\ user[p].parent # None =>
            LET d == gone[user[p].parent] IN
            d # None => wrote[p].parent \notin before[d] \cup {None}

(* A deleted bot is selected by nobody, but for those who selected it when   *)
(* its deletion had committed, and unless it went with its owner.            *)
DeletedBotsAreUnselected ==
    \A p \in People :
        user[p] # None /\ user[p].selected # None =>
            LET d == gone[user[p].selected] IN
            d # None /\ call[d].op = "delete_bot" =>
                wrote[p].selected \notin past[d] \cup {None}

\* The body of the request names the bot more than once.
Repeats(c, b) == c.op \in {"guest", "patch"} /\ c.bots[b] > 1

(* A bot is assigned to a user once: the rows of a pair that has several come  *)
(* from requests that overlapped, or from one whose assigned_bot_ids names the *)
(* bot more than once.                                                         *)
PairsAreAssignedOnce ==
    \A x, y \in assigned :
        x.bot = y.bot /\ x.user = y.user /\ x # y /\ y.made # None =>
            \/ x.made # y.made /\ x.made \notin before[y.made] \cup {None}
            \/ x.made = y.made /\ Repeats(call[y.made], y.bot)

(* What a guest has been given is its parent's, by its parent, until someone *)
(* moves the guest, changes its role or gives the bot away: had all who did  *)
(* that committed before the assignment was checked, it was refused.         *)
GuestsGetTheirParentsBots ==
    \A x \in assigned :
        LET w == x.vouched
            known == {None, w} \cup (IF w = None THEN {} ELSE before[w])
        IN
        /\ user[x.user].role = "Guest"
        /\ wrote[x.user].role \in known /\ wrote[x.user].parent \in known
        /\ gave[x.bot] \in known
        => user[x.user].parent = x.by /\ bot[x.bot] = x.by

(* What an Admin is and is called, and that it is there, changes only by its *)
(* own requests, and only a startup makes an account an Admin's: whatever    *)
(* the requests of other Admins read while it changes.  Its parent is        *)
(* another matter: reassign_children takes -1 for the parent of top accounts.*)
AdminsAreTheirOwn ==
    [][\A p \in People :
        LET IsAdmin(u) == u # None /\ u.role = "Admin" IN
        /\ IsAdmin(user[p]) =>
              \/ user'[p] # None /\ user'[p].role = "Admin" /\ user'[p].mail = user[p].mail
              \/ \E r \in Requests :
                    pc[r] = "working" /\ pc'[r] = "done"
                    /\ call[r].op \in {"update", "role", "delete"} /\ call[r].by = p
        /\ IsAdmin(user'[p]) =>
              IsAdmin(user[p]) \/ (p \in Requests /\ call[p].op = "startup")]_vars

=============================================================================
