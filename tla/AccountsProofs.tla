---------------------------- MODULE AccountsProofs ----------------------------
(***************************************************************************)
(* Proofs about module Accounts, for any accounts, bots, mails, databases  *)
(* to start from and any number of requests.                               *)
(***************************************************************************)
EXTENDS Accounts, TLAPS

Opening == {"register", "google", "startup", "guest"}

AccountIds == Users \cup {r \in Committed : call[r].op \in Opening}
BotIds == Bots \cup {r \in Committed : call[r].op = "create_bot"}

(* What a request with call c has found in the database d it has read, as    *)
(* far as that does not depend on the token it came with.                    *)
Saw(d, c) ==
    /\ c.op \in Opening => MailIsFree(d, c.mail)
    /\ c.op = "guest" => \A b \in Named(c.bots) : d.bot[b] = c.by
    /\ c.op \in {"update", "role", "delete"} =>
          Exists(d, c.user) /\ (c.by = c.user \/ MayActOn(d, c.by, c.user))
    /\ c.op = "delete" => Children(d, c.user) = {}
    /\ c.op = "patch" =>
          /\ Exists(d, c.by)
          /\ c.user # None /\ c.bots # None =>
                \A b \in Named(c.bots) : Assignable(d, c.by, c.user, b)
    /\ c.op = "select" => Exists(d, c.by)
    /\ c.op = "assign" => Assignable(d, c.by, c.user, c.bot)
    /\ c.op = "reassign" => Exists(d, c.new)

Fits(r) ==
    /\ pc[r] = "new" <=> call[r] = None
    /\ pc[r] # "new" =>
          /\ view[r] # None /\ Saw(view[r], call[r])
          /\ call[r].op = "guest" => call[r].by \in AccountIds
    /\ before[r] \subseteq Committed \ {r} /\ past[r] \subseteq Committed \ {r}

(* No id is used before the request that stands for it has committed. *)
Known ==
    /\ \A p \in People : user[p] # None =>
          p \in AccountIds /\ user[p].parent \in AccountIds \cup {None}
    /\ \A p \in People : claims[p] # {} => p \in AccountIds
    /\ \A b \in AllBots : bot[b] # None => b \in BotIds /\ user[bot[b]] # None
    /\ \A x \in assigned : user[x.user] # None /\ user[x.by] # None /\ bot[x.bot] # None
    /\ \A r \in Requests : pc[r] # "new" =>
          /\ \A p \in People : view[r].user[p] # None => p \in AccountIds
          /\ \A x \in view[r].assigned : x.user # r

(* The history names requests that have committed. *)
Past == Committed \cup {None}
Traced ==
    /\ \A p \in People : /\ wrote[p].mail \in Past /\ wrote[p].role \in Past
                         /\ wrote[p].parent \in Past /\ wrote[p].selected \in Past
    /\ \A b \in AllBots : gave[b] \in Past
    /\ \A i \in People \cup AllBots : gone[i] \in Past
    /\ \A x \in assigned : x.made \in Past /\ x.vouched \in Past

Typed == TypeOK /\ (\A r \in Requests : Fits(r)) /\ Known /\ Traced

-----------------------------------------------------------------------------
(* Requests *)

(* The calls, by what they ask for. *)
LEMMA CallTypes ==
    ASSUME NEW c \in Call
    PROVE  /\ c.op \in {"register", "google", "startup", "guest", "update"} => c.mail \in Mails
           /\ c.op = "guest" => c.by \in People /\ c.bots \in Lists
           /\ c.op \in {"update", "role", "delete", "assign", "remove", "give_bot"} =>
                 c.by \in People /\ c.user \in People
           /\ c.op = "role" => c.role \in {"User", "Guest"}
           /\ c.op = "patch" =>
                 /\ c.by \in People /\ c.user \in People \cup {None}
                 /\ c.bot \in AllBots \cup {None} /\ c.bots \in {None} \cup Lists
           /\ c.op = "reassign" => c.by \in People /\ c.old \in People \cup {None} /\ c.new \in People
           /\ c.op \in {"assign", "remove", "give_bot"} => c.bot \in AllBots
           /\ c.op \in {"enable", "disable", "unassign"} => c.by \in People /\ c.row \in Assignment
           /\ c.op \in {"select", "delete_bot"} => c.by \in People /\ c.bot \in AllBots
           /\ c.op = "create_bot" => c.by \in People
    BY DEF Call, Calls, MailCall, GuestCall, UpdateCall, RoleCall, PatchCall, DeleteCall,
       ReassignCall, PairCall, RowCalls, BotCall, CreateCall

(* Whatever it does, a request commits once. *)
LEMMA CommitFrame ==
    ASSUME TypeOK, NEW r \in Requests, Commit(r)
    PROVE  /\ pc[r] = "working" /\ pc' = [pc EXCEPT ![r] = "done"]
           /\ past' = [past EXCEPT ![r] = Committed]
           /\ call' = call /\ view' = view /\ before' = before
           /\ Committed' = Committed \cup {r} /\ r \notin Committed
<1>1. PICK ops : Commits(r, ops)
  BY DEF Commit, CommitRegister, CommitGuest, CommitUpdate, CommitRole, CommitPatch, CommitSelect,
     CommitDelete, CommitReassign, CommitAssign, CommitEdit, CommitUnassign, CommitRemove,
     CommitCreateBot, CommitGiveBot, CommitDeleteBot
<1>. QED
  BY <1>1 DEF Commits, TypeOK, Committed

(* What a request has found does not rest on its token alone. *)
LEMMA AcceptsSaw ==
    ASSUME NEW d, NEW c \in Call, Accepts(d, c)
    PROVE  Saw(d, c)
<1>. USE DEF Accepts, Saw, Opening
<1>1. CASE c.op \in {"register", "google", "startup", "guest"}
  BY <1>1 DEF MayRegister, MayRegisterGuest
<1>2. CASE c.op \in {"update", "role", "delete"}
  BY <1>2 DEF MayUpdate, MayChangeRole, MayDelete
<1>3. CASE c.op = "patch"
  BY <1>3 DEF MayPatch
<1>4. CASE c.op \in {"select", "assign", "reassign"}
  BY <1>4 DEF MayAssign, MayReassign
<1>5. CASE c.op \notin {"register", "google", "startup", "guest", "update", "role", "delete",
                       "patch", "select", "assign", "reassign"}
  BY <1>5
<1>. QED
  BY <1>1, <1>2, <1>3, <1>4, <1>5

LEMMA RowsType ==
    ASSUME NEW r \in Requests, NEW by \in People, NEW p \in People, NEW list
    PROVE  Rows(r, by, p, list) \in SUBSET Assignment
    BY DEF Rows, Assignment, Writers

(* A list that names one bot, once. *)
LEMMA OnceIsAList ==
    ASSUME NEW b \in AllBots
    PROVE  /\ Once(b) \in Lists
           /\ \A a \in AllBots : \A n \in 1..MaxRepeat : n <= Once(b)[a] => a = b /\ n = 1
<1>1. 0 \in 0..MaxRepeat /\ 1 \in 0..MaxRepeat
  BY AccountsAssumption
<1>2. ASSUME NEW a \in AllBots, NEW n \in 1..MaxRepeat, n <= Once(b)[a] PROVE a = b /\ n = 1
  <2>1. n \in Nat /\ n >= 1
    BY AccountsAssumption
  <2>2. CASE a = b
    BY <1>2, <2>1, <2>2 DEF Once
  <2>3. CASE a # b
    BY <1>2, <2>1, <2>3 DEF Once
  <2>. QED
    BY <2>2, <2>3
<1>. QED
  BY <1>1, <1>2 DEF Once, Lists

(* The rows of a list are for the bots it names, and differ in their ids. *)
LEMMA RowsOfAList ==
    ASSUME NEW r, NEW by, NEW p, NEW list \in Lists, NEW x \in Rows(r, by, p, list)
    PROVE  /\ x.user = p /\ x.by = by /\ x.made = r /\ x.vouched = r
           /\ x.bot \in Named(list) /\ x.copy <= list[x.bot] /\ x.copy \in 1..MaxRepeat
           /\ \A y \in Rows(r, by, p, list) : SameRow(x, y) => x = y
<1>1. /\ x.user = p /\ x.by = by /\ x.made = r /\ x.vouched = r /\ x.bot \in AllBots
      /\ x.copy <= list[x.bot] /\ x.copy \in 1..MaxRepeat
  BY DEF Rows
<1>2. list[x.bot] \in Nat /\ x.copy \in Nat /\ x.copy >= 1
  BY <1>1, AccountsAssumption DEF Lists
<1>3. x.bot \in Named(list)
  BY <1>1, <1>2 DEF Named
<1>4. \A y \in Rows(r, by, p, list) : SameRow(x, y) => x = y
  <2>1. ASSUME NEW z \in Rows(r, by, p, list)
        PROVE  z = [bot |-> z.bot, user |-> p, by |-> by, active |-> TRUE, made |-> r,
                    copy |-> z.copy, vouched |-> r]
    BY <2>1 DEF Rows
  <2>. QED
    BY <2>1 DEF SameRow
<1>. QED
  BY <1>1, <1>3, <1>4

LEMMA SelectsType ==
    ASSUME TypeOK, NEW r \in Requests, NEW p \in People, NEW b \in AllBots \cup {None},
           Selects(r, p, b)
    PROVE  user' \in [People -> Account \cup {None}] /\ wrote' \in [People -> Wrote]
<1>1. CASE view[r].user[p].selected = b
  BY <1>1 DEF Selects, TypeOK
<1>2. CASE view[r].user[p].selected # b
  <2>1. /\ user[p] # None
        /\ user' = [user EXCEPT ![p].selected = b]
        /\ wrote' = [wrote EXCEPT ![p].selected = r]
    BY <1>2 DEF Selects
  <2>2. user[p] \in Account /\ wrote[p] \in Wrote
    BY <2>1 DEF TypeOK
  <2>3. [user[p] EXCEPT !.selected = b] \in Account /\ [wrote[p] EXCEPT !.selected = r] \in Wrote
    BY <2>2 DEF Account, Wrote, Writers
  <2>. QED
    BY <2>1, <2>3 DEF TypeOK
<1>. QED
  BY <1>1, <1>2

(* The tables and what is noted about them. *)
TablesOK ==
    /\ user \in [People -> Account \cup {None}]
    /\ bot \in [AllBots -> People \cup {None}]
    /\ assigned \in SUBSET Assignment
    /\ claims \in [People -> SUBSET Roles]
    /\ wrote \in [People -> Wrote]
    /\ gave \in [AllBots -> Writers]
    /\ gone \in [People \cup AllBots -> Writers]

LEMMA CommitTypes ==
    ASSUME TypeOK, NEW r \in Requests, call[r] \in Call, view[r] \in DB, Commit(r)
    PROVE  TablesOK'
<1>1. TablesOK
  BY DEF TypeOK, TablesOK
<1>. USE DEF TablesOK
<1>2. r \in People /\ r \in AllBots /\ r \in Writers
  BY DEF People, AllBots, Writers
<1>3. ASSUME NEW row \in Account, Creates(r, row)
      PROVE  /\ user' \in [People -> Account \cup {None}] /\ wrote' \in [People -> Wrote]
             /\ claims' \in [People -> SUBSET Roles]
  <2>1. By(r) \in Wrote /\ {row.role} \in SUBSET Roles
    BY <1>2 DEF By, Wrote, Account
  <2>. QED
    BY <1>1, <1>2, <1>3, <2>1 DEF Creates
<1>4. CASE CommitRegister(r)
  <2>1. call[r].mail \in Mails
    BY <1>4, CallTypes DEF CommitRegister, Commits
  <2>2. [mail |-> call[r].mail, role |-> IF call[r].op = "startup" THEN "Admin" ELSE "User",
         parent |-> None, selected |-> None] \in Account
    BY <2>1 DEF Account, Roles
  <2>. QED
    BY <1>1, <1>3, <1>4, <2>2 DEF CommitRegister
<1>5. CASE CommitGuest(r)
  <2>1. call[r].mail \in Mails /\ call[r].by \in People /\ call[r].bots \in Lists
    BY <1>5, CallTypes DEF CommitGuest, Commits
  <2>2. [mail |-> call[r].mail, role |-> "Guest", parent |-> call[r].by, selected |-> None] \in Account
    BY <2>1 DEF Account, Roles
  <2>3. Rows(r, call[r].by, r, call[r].bots) \in SUBSET Assignment
    BY <1>2, <2>1, RowsType
  <2>. QED
    BY <1>1, <1>3, <1>5, <2>2, <2>3 DEF CommitGuest
<1>6. CASE CommitUpdate(r)
  <2>. DEFINE p == call[r].user
  <2>1. call[r].mail \in Mails /\ p \in People
    BY <1>6, CallTypes DEF CommitUpdate, Commits
  <2>2. ASSUME user[p] # None
        PROVE  [user[p] EXCEPT !.mail = call[r].mail] \in Account
    BY <1>1, <2>1, <2>2 DEF Account
  <2>3. [wrote[p] EXCEPT !.mail = r] \in Wrote
    BY <1>1, <1>2, <2>1 DEF Wrote
  <2>. HIDE DEF p
  <2>. QED
    BY <1>1, <1>6, <2>1, <2>2, <2>3 DEF CommitUpdate, p
<1>7. CASE CommitRole(r)
  <2>. DEFINE p == call[r].user
  <2>1. call[r].role \in {"User", "Guest"} /\ p \in People
    BY <1>7, CallTypes DEF CommitRole, Commits
  <2>2. ASSUME user[p] # None
        PROVE  [user[p] EXCEPT !.role = call[r].role] \in Account
    BY <1>1, <2>1, <2>2 DEF Account, Roles
  <2>3. [wrote[p] EXCEPT !.role = r] \in Wrote /\ claims[p] \cup {call[r].role} \in SUBSET Roles
    BY <1>1, <1>2, <2>1 DEF Wrote, Roles
  <2>. HIDE DEF p
  <2>. QED
    BY <1>1, <1>7, <2>1, <2>2, <2>3 DEF CommitRole, p
<1>8. CASE CommitPatch(r)
  <2>1. /\ call[r].by \in People /\ call[r].user \in People \cup {None}
        /\ call[r].bot \in AllBots \cup {None} /\ call[r].bots \in {None} \cup Lists
    BY <1>8, CallTypes DEF CommitPatch, Commits
  <2>2. user' \in [People -> Account \cup {None}] /\ wrote' \in [People -> Wrote]
    BY <1>1, <1>8, <2>1, SelectsType DEF CommitPatch
  <2>3. assigned' \in SUBSET Assignment
    <3>1. CASE call[r].user = None \/ call[r].bots = None
      BY <1>1, <1>8, <3>1 DEF CommitPatch
    <3>2. CASE call[r].user # None /\ call[r].bots # None
      <4>1. Rows(r, call[r].by, call[r].user, call[r].bots) \in SUBSET Assignment
        BY <2>1, <3>2, RowsType
      <4>. QED
        BY <1>1, <1>8, <3>2, <4>1 DEF CommitPatch, Replaced
    <3>. QED
      BY <3>1, <3>2
  <2>. QED
    BY <1>1, <1>8, <2>2, <2>3 DEF CommitPatch
<1>9. CASE CommitSelect(r)
  <2>1. call[r].by \in People /\ call[r].bot \in AllBots
    BY <1>9, CallTypes DEF CommitSelect, Commits
  <2>2. user' \in [People -> Account \cup {None}] /\ wrote' \in [People -> Wrote]
    BY <1>9, <2>1, SelectsType DEF CommitSelect
  <2>. QED
    BY <1>1, <1>9, <2>2 DEF CommitSelect
<1>10. CASE CommitDelete(r)
  BY <1>1, <1>2, <1>10 DEF CommitDelete
<1>11. CASE CommitReassign(r)
  <2>. DEFINE new == call[r].new
              moved == {q \in Children(view[r], call[r].old) : view[r].user[q].parent # new}
  <2>1. new \in People /\ \A q \in moved : user[q] # None
    BY <1>11, CallTypes DEF CommitReassign, Commits
  <2>2. /\ user' = [q \in People |->
                      IF q \in moved THEN [user[q] EXCEPT !.parent = new] ELSE user[q]]
        /\ wrote' = [q \in People |->
                       IF q \in moved THEN [wrote[q] EXCEPT !.parent = r] ELSE wrote[q]]
    BY <1>11 DEF CommitReassign
  <2>. HIDE DEF new, moved
  <2>3. ASSUME NEW q \in People
        PROVE  /\ q \in moved => [user[q] EXCEPT !.parent = new] \in Account
               /\ [wrote[q] EXCEPT !.parent = r] \in Wrote
    BY <1>1, <1>2, <2>1 DEF Account, Wrote
  <2>4. user' \in [People -> Account \cup {None}]
    BY <1>1, <2>2, <2>3
  <2>5. wrote' \in [People -> Wrote]
    BY <1>1, <2>2, <2>3
  <2>. QED
    BY <1>1, <1>11, <2>4, <2>5 DEF CommitReassign
<1>12. CASE CommitAssign(r)
  <2>1. call[r].by \in People /\ call[r].user \in People /\ call[r].bot \in AllBots
    BY <1>12, CallTypes DEF CommitAssign, Commits
  <2>2. Rows(r, call[r].by, call[r].user, Once(call[r].bot)) \in SUBSET Assignment
    BY <2>1, RowsType
  <2>3. \A a \in BOOLEAN : \A x \in Assignment :
           /\ [x EXCEPT !.active = a] \in Assignment
           /\ [x EXCEPT !.active = a, !.by = call[r].by, !.vouched = r] \in Assignment
    BY <1>2, <2>1 DEF Assignment
  <2>4. PICK a \in BOOLEAN :
          \/ assigned' = assigned \cup
                {[x EXCEPT !.active = a] : x \in Rows(r, call[r].by, call[r].user, Once(call[r].bot))}
          \/ \E x, y \in assigned : \E b \in BOOLEAN :
                assigned' = (assigned \ {y}) \cup
                    {[y EXCEPT !.active = b, !.by = call[r].by, !.vouched = r]}
    <3>1. view[r].assigned \in SUBSET Assignment
      BY DEF DB
    <3>. QED
      BY <1>1, <1>12, <3>1 DEF CommitAssign, Assignment
  <2>5. assigned' \in SUBSET Assignment
    <3>. DEFINE new == Rows(r, call[r].by, call[r].user, Once(call[r].bot))
    <3>. HIDE DEF new
    <3>1. ASSUME assigned' = assigned \cup {[x EXCEPT !.active = a] : x \in new}
          PROVE  assigned' \in SUBSET Assignment
      BY <1>1, <2>2, <2>3, <3>1 DEF new
    <3>2. ASSUME NEW x \in assigned, NEW y \in assigned, NEW b \in BOOLEAN,
                 assigned' = (assigned \ {y}) \cup
                    {[y EXCEPT !.active = b, !.by = call[r].by, !.vouched = r]}
          PROVE  assigned' \in SUBSET Assignment
      BY <1>1, <2>3, <3>2
    <3>. QED
      BY <2>4, <3>1, <3>2 DEF new
  <2>. QED
    BY <1>1, <1>12, <2>5 DEF CommitAssign, historyVars
<1>13. CASE CommitEdit(r)
  <2>1. \A a \in BOOLEAN : \A x \in Assignment : [x EXCEPT !.active = a] \in Assignment
    BY DEF Assignment
  <2>2. \/ assigned' = assigned
        \/ \E y \in assigned : \E a \in BOOLEAN :
              assigned' = (assigned \ {y}) \cup {[y EXCEPT !.active = a]}
    BY <1>13 DEF CommitEdit
  <2>3. assigned' \in SUBSET Assignment
    BY <1>1, <2>1, <2>2
  <2>. QED
    BY <1>1, <1>13, <2>3 DEF CommitEdit, historyVars
<1>14. CASE CommitUnassign(r) \/ CommitRemove(r)
  BY <1>1, <1>14 DEF CommitUnassign, CommitRemove, historyVars
<1>15. CASE CommitCreateBot(r)
  <2>1. call[r].by \in People
    BY <1>15, CallTypes DEF CommitCreateBot, Commits
  <2>. QED
    BY <1>1, <1>2, <1>15, <2>1 DEF CommitCreateBot
<1>16. CASE CommitGiveBot(r)
  <2>1. call[r].user \in People
    BY <1>16, CallTypes DEF CommitGiveBot, Commits
  <2>. QED
    BY <1>1, <1>2, <1>16, <2>1 DEF CommitGiveBot
<1>17. CASE CommitDeleteBot(r)
  <2>1. call[r].bot \in AllBots
    BY <1>17, CallTypes DEF CommitDeleteBot, Commits
  <2>2. \A p \in People : user[p] # None => [user[p] EXCEPT !.selected = None] \in Account
    BY <1>1 DEF Account
  <2>3. Unselected(call[r].bot) \in [People -> Account \cup {None}]
    BY <1>1, <2>2 DEF Unselected
  <2>. QED
    BY <1>1, <1>2, <1>17, <2>1, <2>3 DEF CommitDeleteBot
<1>. QED
  BY <1>4, <1>5, <1>6, <1>7, <1>8, <1>9, <1>10, <1>11, <1>12, <1>13, <1>14, <1>15, <1>16, <1>17
     DEF Commit

-----------------------------------------------------------------------------
(* What a commit does to each column: it leaves it as it is, or writes what   *)
(* was asked for and is noted for it.  A selection may also be cleared.       *)
UsersEffect(r) ==
    \A p \in People :
        /\ wrote'[p].mail \in {wrote[p].mail, r} /\ wrote'[p].role \in {wrote[p].role, r}
        /\ wrote'[p].parent \in {wrote[p].parent, r} /\ wrote'[p].selected \in {wrote[p].selected, r}
        /\ user[p] # None /\ user'[p] = None => call[r].op = "delete" /\ call[r].user = p
        /\ user[p] # None /\ user'[p] # None =>
              /\ \/ user'[p].mail = user[p].mail /\ wrote'[p].mail = wrote[p].mail
                 \/ /\ call[r].op = "update" /\ call[r].user = p
                    /\ user'[p].mail = call[r].mail /\ wrote'[p].mail = r
              /\ \/ user'[p].role = user[p].role /\ wrote'[p].role = wrote[p].role
                 \/ /\ call[r].op = "role" /\ call[r].user = p
                    /\ user'[p].role = call[r].role /\ wrote'[p].role = r
              /\ \/ user'[p].parent = user[p].parent /\ wrote'[p].parent = wrote[p].parent
                 \/ /\ call[r].op = "reassign"
                    /\ user'[p].parent = call[r].new /\ wrote'[p].parent = r
              /\ \/ user'[p].selected \in {user[p].selected, None}
                    /\ wrote'[p].selected = wrote[p].selected
                 \/ wrote'[p].selected = r
        /\ user[p] = None /\ user'[p] # None =>
              /\ p = r /\ call[r].op \in Opening /\ wrote'[p] = By(r)
              /\ user'[p].mail = call[r].mail /\ user'[p].selected = None
              /\ user'[p].role = "Admin" => call[r].op = "startup"
              /\ user'[p].parent = IF call[r].op = "guest" THEN call[r].by ELSE None

BotsEffect(r) ==
    \A b \in AllBots :
        /\ gave'[b] \in {gave[b], r}
        /\ bot[b] # None /\ bot'[b] # None =>
              \/ bot'[b] = bot[b] /\ gave'[b] = gave[b]
              \/ /\ call[r].op = "give_bot" /\ gave'[b] = r
                 /\ bot'[b] = call[r].user /\ user[call[r].user] # None
        /\ bot[b] = None /\ bot'[b] # None =>
              /\ b = r /\ call[r].op = "create_bot" /\ gave'[b] = r
              /\ bot'[b] = call[r].by /\ user[call[r].by] # None
        /\ bot[b] # None /\ bot'[b] = None => call[r].op \in {"delete", "delete_bot"}

GoneEffect(r) ==
    \A i \in People \cup AllBots :
        \/ gone'[i] = gone[i]
        \/ /\ gone'[i] = r
           /\ \/ call[r].op = "delete" /\ (i = call[r].user \/ (i \in AllBots /\ bot[i] = call[r].user))
              \/ call[r].op = "delete_bot" /\ i = call[r].bot /\ bot[i] # None

(* The rows after a commit: kept, turned on or off, vouched for, or new. *)
Vouches(r, x) ==
    /\ call[r].op = "assign" /\ x.vouched = r
    /\ x.bot = call[r].bot /\ x.user = call[r].user
    /\ x.by = call[r].by /\ user[x.by] # None

Inserts(r, x) ==
    /\ x.made = r /\ x.vouched = r /\ x.by = call[r].by
    /\ user[x.by] # None /\ bot[x.bot] # None
    /\ \/ /\ call[r].op = "guest" /\ x.user = r
          /\ x.bot \in Named(call[r].bots) /\ x.copy <= call[r].bots[x.bot]
       \/ /\ call[r].op = "patch" /\ call[r].user # None /\ call[r].bots # None
          /\ x.user = call[r].user /\ user[x.user] # None
          /\ x.bot \in Named(call[r].bots) /\ x.copy <= call[r].bots[x.bot]
       \/ /\ call[r].op = "assign"
          /\ x.user = call[r].user /\ x.bot = call[r].bot /\ x.copy = 1 /\ user[x.user] # None
          /\ \A y \in view[r].assigned : ~(y.bot = x.bot /\ y.user = x.user)

RowsEffect(r) ==
    \A x \in assigned' :
        \/ \E y \in assigned :
              SameRow(x, y) /\ ((x.vouched = y.vouched /\ x.by = y.by) \/ Vouches(r, x))
        \/ Inserts(r, x)

LEMMA SelectsEffect ==
    ASSUME TypeOK, NEW r \in Requests, NEW p \in People, NEW b \in AllBots \cup {None},
           Selects(r, p, b)
    PROVE  /\ UsersEffect(r)
           /\ \A q \in People : user'[q] # None <=> user[q] # None
<1>1. CASE view[r].user[p].selected = b
  BY <1>1 DEF Selects, UsersEffect
<1>2. CASE view[r].user[p].selected # b
  <2>1. /\ user[p] # None
        /\ user' = [user EXCEPT ![p].selected = b]
        /\ wrote' = [wrote EXCEPT ![p].selected = r]
    BY <1>2 DEF Selects
  <2>2. user[p] \in Account /\ wrote[p] \in Wrote
    BY <2>1 DEF TypeOK
  <2>3. /\ user'[p].mail = user[p].mail /\ user'[p].role = user[p].role /\ user'[p].parent = user[p].parent
        /\ wrote'[p].mail = wrote[p].mail /\ wrote'[p].role = wrote[p].role
        /\ wrote'[p].parent = wrote[p].parent /\ wrote'[p].selected = r
    BY <2>1, <2>2 DEF TypeOK, Account, Wrote
  <2>5. user'[p] # None
    <3>1. [user[p] EXCEPT !.selected = b] \in Account
      BY <2>2 DEF Account
    <3>. QED
      BY <2>1, <3>1, AccountsAssumption DEF TypeOK
  <2>4. \A q \in People \ {p} : user'[q] = user[q] /\ wrote'[q] = wrote[q]
    BY <2>1 DEF TypeOK
  <2>. QED
    BY <2>1, <2>3, <2>4, <2>5 DEF UsersEffect
<1>. QED
  BY <1>1, <1>2

LEMMA InHand ==
    ASSUME Typed, NEW r \in Requests, pc[r] # "new"
    PROVE  call[r] \in Call /\ view[r] \in DB /\ Saw(view[r], call[r])
    BY DEF Typed, Fits, TypeOK

LEMMA Unused ==
    ASSUME Typed, NEW r \in Requests, r \notin Committed
    PROVE  r \in People /\ r \in AllBots /\ user[r] = None /\ bot[r] = None /\ r \notin AccountIds
    BY AccountsAssumption DEF Typed, Known, AccountIds, BotIds, People, AllBots

LEMMA UsersStep ==
    ASSUME Typed, NEW r \in Requests, Commit(r)
    PROVE  UsersEffect(r)
<1>1. /\ TypeOK /\ call[r] \in Call /\ view[r] \in DB /\ r \notin Committed
      /\ user[r] = None /\ r \in People
  BY CommitFrame, InHand, Unused DEF Typed
<1>2. ASSUME UNCHANGED <<user, wrote>> PROVE UsersEffect(r)
  BY <1>2 DEF UsersEffect
<1>3. ASSUME NEW row, Creates(r, row), call[r].op \in Opening,
             row.mail = call[r].mail, row.selected = None,
             row.role = "Admin" => call[r].op = "startup",
             row.parent = IF call[r].op = "guest" THEN call[r].by ELSE None
      PROVE  UsersEffect(r)
  <2>1. user' = [user EXCEPT ![r] = row] /\ wrote' = [wrote EXCEPT ![r] = By(r)]
    BY <1>3 DEF Creates
  <2>2. /\ wrote'[r] = By(r) /\ user'[r] = row
        /\ \A q \in People \ {r} : user'[q] = user[q] /\ wrote'[q] = wrote[q]
    BY <1>1, <2>1 DEF TypeOK
  <2>. QED
    BY <1>1, <1>3, <2>2 DEF UsersEffect, By
<1>4. CASE CommitRegister(r)
  BY <1>3, <1>4 DEF CommitRegister, Commits, Opening
<1>5. CASE CommitGuest(r)
  BY <1>3, <1>5 DEF CommitGuest, Commits, Opening
<1>6. CASE CommitUpdate(r)
  <2>. DEFINE p == call[r].user
  <2>1. p \in People /\ call[r].mail \in Mails
    BY <1>1, <1>6, CallTypes DEF CommitUpdate, Commits
  <2>2. CASE view[r].user[p].mail = call[r].mail
    BY <1>2, <1>6, <2>2 DEF CommitUpdate
  <2>3. CASE view[r].user[p].mail # call[r].mail
    <3>1. /\ user[p] # None /\ user' = [user EXCEPT ![p].mail = call[r].mail]
          /\ wrote' = [wrote EXCEPT ![p].mail = r]
          /\ call[r].op = "update" /\ call[r].user = p
      BY <1>6, <2>3 DEF CommitUpdate, Commits
    <3>. HIDE DEF p
    <3>2. user[p] \in Account /\ wrote[p] \in Wrote
      BY <1>1, <2>1, <3>1 DEF TypeOK
    <3>3. /\ user'[p].mail = call[r].mail
          /\ user'[p].role = user[p].role /\ user'[p].parent = user[p].parent
          /\ user'[p].selected = user[p].selected
          /\ wrote'[p].mail = r /\ wrote'[p].role = wrote[p].role
          /\ wrote'[p].parent = wrote[p].parent /\ wrote'[p].selected = wrote[p].selected
      BY <1>1, <2>1, <3>1, <3>2 DEF TypeOK, Account, Wrote
    <3>4. \A q \in People \ {p} : user'[q] = user[q] /\ wrote'[q] = wrote[q]
      BY <1>1, <3>1 DEF TypeOK
    <3>5. [user[p] EXCEPT !.mail = call[r].mail] \in Account
      BY <2>1, <3>2 DEF Account
    <3>6. user'[p] # None
      BY <1>1, <2>1, <3>1, <3>5, AccountsAssumption DEF TypeOK
    <3>. QED
      BY <3>1, <3>3, <3>4, <3>6 DEF UsersEffect
  <2>. QED
    BY <2>2, <2>3
<1>7. CASE CommitRole(r)
  <2>. DEFINE p == call[r].user
  <2>1. p \in People /\ call[r].role \in {"User", "Guest"}
    BY <1>1, <1>7, CallTypes DEF CommitRole, Commits
  <2>2. CASE view[r].user[p].role = call[r].role
    BY <1>2, <1>7, <2>2 DEF CommitRole
  <2>3. CASE view[r].user[p].role # call[r].role
    <3>1. /\ user[p] # None /\ user' = [user EXCEPT ![p].role = call[r].role]
          /\ wrote' = [wrote EXCEPT ![p].role = r]
          /\ call[r].op = "role" /\ call[r].user = p
      BY <1>7, <2>3 DEF CommitRole, Commits
    <3>. HIDE DEF p
    <3>2. user[p] \in Account /\ wrote[p] \in Wrote
      BY <1>1, <2>1, <3>1 DEF TypeOK
    <3>3. /\ user'[p].mail = user[p].mail /\ user'[p].parent = user[p].parent
          /\ user'[p].role = call[r].role /\ user'[p].selected = user[p].selected
          /\ wrote'[p].mail = wrote[p].mail /\ wrote'[p].role = r
          /\ wrote'[p].parent = wrote[p].parent /\ wrote'[p].selected = wrote[p].selected
      BY <1>1, <2>1, <3>1, <3>2 DEF TypeOK, Account, Wrote
    <3>4. \A q \in People \ {p} : user'[q] = user[q] /\ wrote'[q] = wrote[q]
      BY <1>1, <3>1 DEF TypeOK
    <3>5. [user[p] EXCEPT !.role = call[r].role] \in Account
      BY <2>1, <3>2 DEF Account, Roles
    <3>6. user'[p] # None
      BY <1>1, <2>1, <3>1, <3>5, AccountsAssumption DEF TypeOK
    <3>. QED
      BY <3>1, <3>3, <3>4, <3>6 DEF UsersEffect
  <2>. QED
    BY <2>2, <2>3
<1>8. CASE CommitPatch(r)
  <2>1. call[r].by \in People /\ call[r].bot \in AllBots \cup {None}
    BY <1>1, <1>8, CallTypes DEF CommitPatch, Commits
  <2>. QED
    BY <1>1, <1>2, <1>8, <2>1, SelectsEffect DEF CommitPatch
<1>9. CASE CommitSelect(r)
  <2>1. call[r].by \in People /\ call[r].bot \in AllBots
    BY <1>1, <1>9, CallTypes DEF CommitSelect, Commits
  <2>. QED
    BY <1>1, <1>9, <2>1, SelectsEffect DEF CommitSelect
<1>10. CASE CommitDelete(r)
  <2>1. /\ wrote' = wrote /\ call[r].op = "delete"
        /\ \A q \in People : user'[q] = user[q] \/ (user'[q] = None /\ q = call[r].user)
    BY <1>1, <1>10 DEF CommitDelete, Commits, TypeOK
  <2>. QED
    BY <2>1 DEF UsersEffect
<1>11. CASE CommitReassign(r)
  <2>. DEFINE new == call[r].new
              moved == {q \in Children(view[r], call[r].old) : view[r].user[q].parent # new}
  <2>1. call[r].op = "reassign" /\ new \in People /\ \A q \in moved : user[q] # None
    BY <1>1, <1>11, CallTypes DEF CommitReassign, Commits
  <2>2. /\ user' = [q \in People |->
                      IF q \in moved THEN [user[q] EXCEPT !.parent = new] ELSE user[q]]
        /\ wrote' = [q \in People |->
                       IF q \in moved THEN [wrote[q] EXCEPT !.parent = r] ELSE wrote[q]]
    BY <1>11 DEF CommitReassign
  <2>. HIDE DEF new, moved
  <2>3. ASSUME NEW q \in People, q \in moved
        PROVE  /\ user[q] # None /\ user'[q] # None
               /\ user'[q].mail = user[q].mail /\ user'[q].role = user[q].role
               /\ user'[q].parent = new /\ user'[q].selected = user[q].selected
               /\ wrote'[q].mail = wrote[q].mail /\ wrote'[q].role = wrote[q].role
               /\ wrote'[q].parent = r /\ wrote'[q].selected = wrote[q].selected
    <3>1. user[q] \in Account /\ wrote[q] \in Wrote
      BY <1>1, <2>1, <2>3 DEF TypeOK
    <3>2. user'[q] = [user[q] EXCEPT !.parent = new] /\ wrote'[q] = [wrote[q] EXCEPT !.parent = r]
      BY <2>2, <2>3
    <3>3. [user[q] EXCEPT !.parent = new] \in Account
      BY <2>1, <3>1 DEF Account
    <3>. QED
      BY <2>1, <2>3, <3>1, <3>2, <3>3, AccountsAssumption DEF Account, Wrote
  <2>4. \A q \in People : q \notin moved => user'[q] = user[q] /\ wrote'[q] = wrote[q]
    BY <2>2
  <2>. QED
    BY <2>1, <2>3, <2>4 DEF UsersEffect, new
<1>12. CASE CommitAssign(r) \/ CommitEdit(r) \/ CommitUnassign(r) \/ CommitRemove(r)
  BY <1>2, <1>12 DEF CommitAssign, CommitEdit, CommitUnassign, CommitRemove, historyVars
<1>13. CASE CommitCreateBot(r) \/ CommitGiveBot(r)
  BY <1>2, <1>13 DEF CommitCreateBot, CommitGiveBot
<1>14. CASE CommitDeleteBot(r)
  <2>1. wrote' = wrote /\ (user' = user \/ user' = Unselected(call[r].bot))
    BY <1>14 DEF CommitDeleteBot
  <2>2. CASE user' = user
    BY <1>2, <2>1, <2>2
  <2>3. CASE user' = Unselected(call[r].bot)
    <3>1. ASSUME NEW q \in People
          PROVE  /\ user'[q] # None <=> user[q] # None
                 /\ user'[q] # None =>
                      /\ user'[q].mail = user[q].mail /\ user'[q].role = user[q].role
                      /\ user'[q].parent = user[q].parent
                      /\ user'[q].selected \in {user[q].selected, None}
      <4>1. user[q] # None => user[q] \in Account
        BY <1>1 DEF TypeOK
      <4>2. user[q] # None => [user[q] EXCEPT !.selected = None] \in Account
        BY <4>1 DEF Account
      <4>. QED
        BY <2>3, <4>1, <4>2, AccountsAssumption DEF Unselected, Account
    <3>. QED
      BY <2>1, <3>1 DEF UsersEffect
  <2>. QED
    BY <2>1, <2>2, <2>3
<1>. QED
  BY <1>4, <1>5, <1>6, <1>7, <1>8, <1>9, <1>10, <1>11, <1>12, <1>13, <1>14 DEF Commit

LEMMA BotsStep ==
    ASSUME Typed, NEW r \in Requests, Commit(r)
    PROVE  BotsEffect(r)
<1>1. /\ TypeOK /\ call[r] \in Call /\ bot[r] = None /\ r \in AllBots
      /\ None \notin People
  BY CommitFrame, InHand, Unused, AccountsAssumption DEF Typed
<1>2. ASSUME UNCHANGED <<bot, gave>> PROVE BotsEffect(r)
  BY <1>2 DEF BotsEffect
<1>3. CASE CommitRegister(r) \/ CommitGuest(r) \/ CommitUpdate(r) \/ CommitRole(r)
  BY <1>2, <1>3 DEF CommitRegister, CommitGuest, CommitUpdate, CommitRole
<1>4. CASE CommitPatch(r) \/ CommitSelect(r) \/ CommitReassign(r)
  BY <1>2, <1>4 DEF CommitPatch, CommitSelect, CommitReassign
<1>5. CASE CommitAssign(r) \/ CommitEdit(r) \/ CommitUnassign(r) \/ CommitRemove(r)
  BY <1>2, <1>5 DEF CommitAssign, CommitEdit, CommitUnassign, CommitRemove, historyVars
<1>6. CASE CommitDelete(r)
  <2>1. /\ gave' = gave /\ call[r].op = "delete"
        /\ \A b \in AllBots : bot'[b] \in {bot[b], None}
    BY <1>6 DEF CommitDelete, Commits
  <2>. QED
    BY <2>1 DEF BotsEffect
<1>7. CASE CommitDeleteBot(r)
  <2>1. /\ gave' = gave /\ call[r].op = "delete_bot"
        /\ \A b \in AllBots : bot'[b] \in {bot[b], None}
    BY <1>1, <1>7 DEF CommitDeleteBot, Commits, TypeOK
  <2>. QED
    BY <2>1 DEF BotsEffect
<1>8. CASE CommitCreateBot(r)
  <2>1. /\ call[r].op = "create_bot" /\ user[call[r].by] # None
        /\ bot' = [bot EXCEPT ![r] = call[r].by] /\ gave' = [gave EXCEPT ![r] = r]
    BY <1>8 DEF CommitCreateBot, Commits
  <2>. QED
    BY <1>1, <2>1 DEF BotsEffect, TypeOK
<1>9. CASE CommitGiveBot(r)
  <2>1. CASE view[r].bot[call[r].bot] = call[r].user
    BY <1>2, <1>9, <2>1 DEF CommitGiveBot
  <2>2. CASE view[r].bot[call[r].bot] # call[r].user
    <3>1. /\ call[r].op = "give_bot" /\ user[call[r].user] # None /\ bot[call[r].bot] # None
          /\ bot' = [bot EXCEPT ![call[r].bot] = call[r].user]
          /\ gave' = [gave EXCEPT ![call[r].bot] = r]
      BY <1>9, <2>2 DEF CommitGiveBot, Commits
    <3>2. call[r].user \in People
      BY <1>1, <3>1, CallTypes
    <3>. QED
      BY <1>1, <3>1, <3>2 DEF BotsEffect, TypeOK
  <2>. QED
    BY <2>1, <2>2
<1>. QED
  BY <1>3, <1>4, <1>5, <1>6, <1>7, <1>8, <1>9 DEF Commit

LEMMA GoneStep ==
    ASSUME Typed, NEW r \in Requests, Commit(r)
    PROVE  GoneEffect(r)
<1>1. TypeOK
  BY DEF Typed
<1>2. ASSUME gone' = gone PROVE GoneEffect(r)
  BY <1>2 DEF GoneEffect
<1>3. CASE CommitRegister(r) \/ CommitGuest(r) \/ CommitUpdate(r) \/ CommitRole(r)
  BY <1>2, <1>3 DEF CommitRegister, CommitGuest, CommitUpdate, CommitRole
<1>4. CASE CommitPatch(r) \/ CommitSelect(r) \/ CommitReassign(r)
  BY <1>2, <1>4 DEF CommitPatch, CommitSelect, CommitReassign
<1>5. CASE CommitAssign(r) \/ CommitEdit(r) \/ CommitUnassign(r) \/ CommitRemove(r)
  BY <1>2, <1>5 DEF CommitAssign, CommitEdit, CommitUnassign, CommitRemove, historyVars
<1>6. CASE CommitCreateBot(r) \/ CommitGiveBot(r)
  BY <1>2, <1>6 DEF CommitCreateBot, CommitGiveBot
<1>7. CASE CommitDelete(r)
  BY <1>7 DEF CommitDelete, Commits, GoneEffect
<1>8. CASE CommitDeleteBot(r)
  BY <1>1, <1>8 DEF CommitDeleteBot, Commits, GoneEffect, TypeOK
<1>. QED
  BY <1>3, <1>4, <1>5, <1>6, <1>7, <1>8 DEF Commit

LEMMA RowsStep ==
    ASSUME Typed, NEW r \in Requests, Commit(r)
    PROVE  RowsEffect(r)
<1>1. TypeOK /\ call[r] \in Call
  BY CommitFrame, InHand DEF Typed
<1>2. ASSUME assigned' \subseteq assigned PROVE RowsEffect(r)
  BY <1>2 DEF RowsEffect, SameRow
<1>3. CASE CommitRegister(r) \/ CommitUpdate(r) \/ CommitRole(r) \/ CommitSelect(r)
  BY <1>2, <1>3 DEF CommitRegister, CommitUpdate, CommitRole, CommitSelect
<1>4. CASE CommitReassign(r) \/ CommitCreateBot(r) \/ CommitGiveBot(r)
  BY <1>2, <1>4 DEF CommitReassign, CommitCreateBot, CommitGiveBot
<1>5. CASE CommitDelete(r) \/ CommitDeleteBot(r)
  BY <1>2, <1>5 DEF CommitDelete, CommitDeleteBot
<1>6. CASE CommitUnassign(r) \/ CommitRemove(r)
  BY <1>2, <1>6 DEF CommitUnassign, CommitRemove
<1>7. CASE CommitGuest(r)
  <2>3. call[r].op = "guest" /\ call[r].bots \in Lists
    BY <1>1, <1>7, CallTypes DEF CommitGuest, Commits
  <2>1. ASSUME NEW x \in Rows(r, call[r].by, r, call[r].bots) PROVE Inserts(r, x)
    <3>1. /\ x.user = r /\ x.by = call[r].by /\ x.made = r /\ x.vouched = r
          /\ x.bot \in Named(call[r].bots) /\ x.copy <= call[r].bots[x.bot]
      BY <2>3, RowsOfAList
    <3>2. user[call[r].by] # None /\ \A b \in Named(call[r].bots) : bot[b] # None
      BY <1>7, <3>1 DEF CommitGuest
    <3>. QED
      BY <2>3, <3>1, <3>2 DEF Inserts
  <2>2. assigned' = assigned \cup Rows(r, call[r].by, r, call[r].bots)
    BY <1>7 DEF CommitGuest
  <2>. QED
    BY <2>1, <2>2 DEF RowsEffect, SameRow
<1>8. CASE CommitPatch(r)
  <2>1. CASE call[r].user = None \/ call[r].bots = None
    BY <1>2, <1>8, <2>1 DEF CommitPatch
  <2>2. CASE call[r].user # None /\ call[r].bots # None
    <3>1. /\ call[r].op = "patch" /\ NewRowsHold(call[r].by, call[r].user, Named(call[r].bots))
          /\ assigned' = Replaced(r, call[r].user, Rows(r, call[r].by, call[r].user, call[r].bots))
      BY <1>8, <2>2 DEF CommitPatch, Commits
    <3>2. ASSUME NEW x \in Rows(r, call[r].by, call[r].user, call[r].bots) PROVE Inserts(r, x)
      <4>1. call[r].bots \in Lists
        BY <1>1, <2>2, <3>1, CallTypes
      <4>2. /\ x.user = call[r].user /\ x.by = call[r].by /\ x.made = r /\ x.vouched = r
            /\ x.bot \in Named(call[r].bots) /\ x.copy <= call[r].bots[x.bot]
        BY <4>1, RowsOfAList
      <4>. QED
        BY <2>2, <3>1, <4>2 DEF NewRowsHold, Inserts
    <3>. QED
      BY <3>1, <3>2 DEF RowsEffect, Replaced, SameRow
  <2>. QED
    BY <2>1, <2>2
<1>9. CASE CommitAssign(r)
  <2>. DEFINE found == {x \in view[r].assigned : x.bot = call[r].bot /\ x.user = call[r].user}
              new == Rows(r, call[r].by, call[r].user, Once(call[r].bot))
  <2>1. call[r].op = "assign"
    BY <1>9 DEF CommitAssign, Commits
  <2>2. CASE found = {}
    <3>1. PICK a \in BOOLEAN : assigned' = assigned \cup {[x EXCEPT !.active = a] : x \in new}
      BY <1>9, <2>2 DEF CommitAssign
    <3>2. user[call[r].by] # None /\ user[call[r].user] # None /\ bot[call[r].bot] # None
      BY <1>9, <2>2 DEF CommitAssign, NewRowsHold
    <3>3. ASSUME NEW x \in new PROVE Inserts(r, [x EXCEPT !.active = a])
      <4>1. x \in Assignment /\ x.user = call[r].user /\ x.by = call[r].by /\ x.made = r /\ x.vouched = r
            /\ x.bot = call[r].bot /\ x.copy = 1
        <5>1. call[r].bot \in AllBots /\ call[r].by \in People /\ call[r].user \in People
          BY <1>1, <2>1, CallTypes
        <5>2. x \in Assignment
          BY <5>1, RowsType
        <5>3. Once(call[r].bot) \in Lists
          BY <5>1, OnceIsAList
        <5>4. /\ x.user = call[r].user /\ x.by = call[r].by /\ x.made = r /\ x.vouched = r
              /\ x.copy <= Once(call[r].bot)[x.bot] /\ x.copy \in 1..MaxRepeat
          BY <5>3, RowsOfAList
        <5>. QED
          BY <5>1, <5>2, <5>4, OnceIsAList DEF Assignment
      <4>. DEFINE w == [x EXCEPT !.active = a]
      <4>2. /\ w.user = x.user /\ w.by = x.by /\ w.made = x.made /\ w.vouched = x.vouched
            /\ w.bot = x.bot /\ w.copy = x.copy
        BY <4>1 DEF Assignment
      <4>3. \A y \in view[r].assigned : ~(y.bot = call[r].bot /\ y.user = call[r].user)
        BY <2>2
      <4>. HIDE DEF w
      <4>4. Inserts(r, w)
        BY <2>1, <3>2, <4>1, <4>2, <4>3 DEF Inserts
      <4>. QED
        BY <4>4 DEF w
    <3>. HIDE DEF new
    <3>. QED
      BY <3>1, <3>3 DEF RowsEffect, SameRow
  <2>3. CASE found # {}
    <3>1. PICK a \in BOOLEAN, x \in found, y \in assigned :
            /\ SameRow(x, y) /\ user[call[r].by] # None
            /\ assigned' = (assigned \ {y}) \cup
                 {[y EXCEPT !.active = IF x.active = a THEN @ ELSE a,
                            !.by = call[r].by, !.vouched = r]}
      BY <1>9, <2>3 DEF CommitAssign
    <3>. DEFINE z == [y EXCEPT !.active = IF x.active = a THEN @ ELSE a,
                               !.by = call[r].by, !.vouched = r]
    <3>2. y \in Assignment
      BY <1>1 DEF TypeOK
    <3>3. SameRow(z, y) /\ z.by = call[r].by /\ z.vouched = r
      BY <3>2 DEF SameRow, Assignment
    <3>4. y.bot = call[r].bot /\ y.user = call[r].user
      BY <3>1 DEF SameRow
    <3>. HIDE DEF z
    <3>5. Vouches(r, z)
      BY <2>1, <3>1, <3>3, <3>4 DEF Vouches, SameRow
    <3>6. assigned' = (assigned \ {y}) \cup {z}
      BY <3>1 DEF z
    <3>. QED
      BY <3>3, <3>5, <3>6 DEF RowsEffect, SameRow
  <2>. QED
    BY <2>2, <2>3
<1>10. CASE CommitEdit(r)
  <2>1. CASE assigned' = assigned
    BY <1>2, <2>1
  <2>2. CASE assigned' # assigned
    <3>. DEFINE a == call[r].op = "enable"
    <3>1. PICK y \in assigned : assigned' = (assigned \ {y}) \cup {[y EXCEPT !.active = a]}
      BY <1>10, <2>2 DEF CommitEdit
    <3>. DEFINE z == [y EXCEPT !.active = a]
    <3>2. y \in Assignment
      BY <1>1 DEF TypeOK
    <3>3. SameRow(z, y) /\ z.by = y.by /\ z.vouched = y.vouched
      BY <3>2 DEF SameRow, Assignment
    <3>. HIDE DEF a, z
    <3>4. assigned' = (assigned \ {y}) \cup {z}
      BY <3>1 DEF z
    <3>. QED
      BY <3>3, <3>4 DEF RowsEffect, SameRow
  <2>. QED
    BY <2>1, <2>2
<1>. QED
  BY <1>3, <1>4, <1>5, <1>6, <1>7, <1>8, <1>9, <1>10 DEF Commit

-----------------------------------------------------------------------------
(* Types, ids and the history *)

LEMMA IdsGrow ==
    ASSUME TypeOK, NEW r \in Requests, Commit(r)
    PROVE  /\ AccountIds \subseteq AccountIds' /\ BotIds \subseteq BotIds' /\ Past' = Past \cup {r}
           /\ call[r].op \in Opening => r \in AccountIds'
           /\ call[r].op = "create_bot" => r \in BotIds'
    BY CommitFrame DEF AccountIds, BotIds, Past

LEMMA FitsCommit ==
    ASSUME Typed, NEW r \in Requests, Commit(r)
    PROVE  \A q \in Requests : Fits(q)'
<1>1. /\ pc[r] = "working" /\ pc' = [pc EXCEPT ![r] = "done"]
      /\ past' = [past EXCEPT ![r] = Committed]
      /\ call' = call /\ view' = view /\ before' = before
      /\ Committed' = Committed \cup {r} /\ r \notin Committed
      /\ AccountIds \subseteq AccountIds' /\ TypeOK
  BY CommitFrame, IdsGrow DEF Typed
<1>. SUFFICES ASSUME NEW q \in Requests PROVE Fits(q)'
  OBVIOUS
<1>2. Fits(q)
  BY DEF Typed
<1>3. /\ pc'[q] = "new" <=> pc[q] = "new"
      /\ past'[q] \subseteq Committed' \ {q}
  BY <1>1, <1>2 DEF TypeOK, Fits
<1>. QED
  BY <1>1, <1>2, <1>3 DEF Fits

LEMMA ClaimsStep ==
    ASSUME Typed, NEW r \in Requests, Commit(r), NEW p \in People, claims'[p] # {}
    PROVE  claims[p] # {} \/ p \in AccountIds'
<1>1. TypeOK /\ r \in People
  BY DEF Typed, People
<1>2. CASE CommitRegister(r) \/ CommitGuest(r)
  <2>1. call[r].op \in Opening /\ \E role : claims' = [claims EXCEPT ![r] = {role}]
    BY <1>2 DEF CommitRegister, CommitGuest, Commits, Creates, Opening
  <2>. QED
    BY <1>1, <2>1, IdsGrow DEF TypeOK
<1>3. CASE CommitRole(r)
  <2>1. \/ claims' = claims
        \/ user[call[r].user] # None /\ \E set : claims' = [claims EXCEPT ![call[r].user] = set]
    BY <1>3 DEF CommitRole
  <2>2. p = call[r].user /\ user[p] # None => p \in AccountIds
    BY DEF Typed, Known
  <2>. QED
    BY <1>1, <2>1, <2>2, IdsGrow DEF TypeOK
<1>4. CASE CommitUpdate(r) \/ CommitPatch(r) \/ CommitSelect(r) \/ CommitDelete(r) \/ CommitReassign(r)
  BY <1>4 DEF CommitUpdate, CommitPatch, CommitSelect, CommitDelete, CommitReassign
<1>5. CASE CommitAssign(r) \/ CommitEdit(r) \/ CommitUnassign(r) \/ CommitRemove(r)
  BY <1>5 DEF CommitAssign, CommitEdit, CommitUnassign, CommitRemove
<1>6. CASE CommitCreateBot(r) \/ CommitGiveBot(r) \/ CommitDeleteBot(r)
  BY <1>6 DEF CommitCreateBot, CommitGiveBot, CommitDeleteBot
<1>. QED
  BY <1>2, <1>3, <1>4, <1>5, <1>6 DEF Commit

(* The foreign keys of bots and assignments. *)
KeysHold ==
    /\ \A b \in AllBots : bot[b] # None => user[bot[b]] # None
    /\ \A x \in assigned : user[x.user] # None /\ user[x.by] # None /\ bot[x.bot] # None

LEMMA KeysStep ==
    ASSUME Typed, NEW r \in Requests, Commit(r)
    PROVE  KeysHold'
<1>1. /\ TypeOK /\ KeysHold /\ call[r] \in Call /\ r \in People /\ user[r] = None
      /\ None \notin People
  BY CommitFrame, InHand, Unused, AccountsAssumption DEF Typed, Known, KeysHold
<1>2. CASE CommitDelete(r)
  <2>. DEFINE p == call[r].user
  <2>1. p \in People
    BY <1>1, <1>2, CallTypes DEF CommitDelete, Commits
  <2>2. \A q \in People \ {p} : user'[q] = user[q]
    BY <1>2 DEF CommitDelete
  <2>3. \A b \in AllBots : bot'[b] # None => bot'[b] = bot[b] /\ bot[b] \in People \ {p}
    BY <1>1, <1>2 DEF CommitDelete, TypeOK
  <2>4. \A x \in assigned' : x \in assigned /\ x.user # p /\ x.by # p /\ bot[x.bot] # p
    BY <1>1, <1>2 DEF CommitDelete, TypeOK, Assignment
  <2>5. \A x \in assigned' : bot'[x.bot] = bot[x.bot]
    BY <1>1, <1>2, <2>4 DEF CommitDelete, TypeOK, Assignment
  <2>6. \A x \in assigned' : x.user \in People \ {p} /\ x.by \in People \ {p}
    BY <1>1, <2>4 DEF TypeOK, Assignment
  <2>. HIDE DEF p
  <2>. QED
    BY <1>1, <2>2, <2>3, <2>4, <2>5, <2>6 DEF KeysHold
<1>3. CASE CommitDeleteBot(r)
  <2>1. /\ \A b \in AllBots : bot'[b] # None => bot'[b] = bot[b]
        /\ \A x \in assigned' : x \in assigned /\ x.bot # call[r].bot
        /\ \A b \in AllBots \ {call[r].bot} : bot'[b] = bot[b]
        /\ call[r].op = "delete_bot"
    BY <1>1, <1>3 DEF CommitDeleteBot, Commits, TypeOK
  <2>2. \A q \in People : user[q] # None => user'[q] # None
    BY <2>1, UsersStep DEF UsersEffect
  <2>3. \A x \in assigned' : x.bot \in AllBots \ {call[r].bot} /\ x.user \in People /\ x.by \in People
    BY <1>1, <2>1 DEF TypeOK, Assignment
  <2>. QED
    BY <1>1, <2>1, <2>2, <2>3 DEF KeysHold, TypeOK
<1>4. CASE ~CommitDelete(r) /\ ~CommitDeleteBot(r)
  <2>1. call[r].op \notin {"delete", "delete_bot"}
    BY <1>4 DEF Commit, Commits, CommitRegister, CommitGuest, CommitUpdate, CommitRole, CommitPatch,
       CommitSelect, CommitReassign, CommitAssign, CommitEdit, CommitUnassign, CommitRemove,
       CommitCreateBot, CommitGiveBot
  <2>2. \A q \in People : user[q] # None => user'[q] # None
    BY <2>1, UsersStep DEF UsersEffect
  <2>3. \A b \in AllBots : bot[b] # None => bot'[b] # None
    BY <2>1, BotsStep DEF BotsEffect
  <2>4. ASSUME NEW b \in AllBots, bot'[b] # None PROVE user'[bot'[b]] # None
    <3>1. bot'[b] \in People
      BY <1>1, <2>4, CommitTypes, CommitFrame, InHand DEF Typed, TablesOK
    <3>2. bot'[b] = bot[b] \/ user[bot'[b]] # None
      BY <2>4, BotsStep DEF BotsEffect
    <3>. QED
      BY <1>1, <2>2, <2>4, <3>1, <3>2 DEF KeysHold
  <2>5. ASSUME NEW x \in assigned'
        PROVE  user'[x.user] # None /\ user'[x.by] # None /\ bot'[x.bot] # None
    <3>1. x \in Assignment
      BY <1>1, <2>5, CommitTypes, CommitFrame, InHand DEF Typed, TablesOK
    <3>2. x.user \in People /\ x.by \in People /\ x.bot \in AllBots
      BY <3>1 DEF Assignment
    <3>3. CASE Inserts(r, x)
      <4>1. user[x.by] # None /\ bot[x.bot] # None /\ (user[x.user] # None \/ (x.user = r /\ call[r].op = "guest"))
        BY <3>3 DEF Inserts
      <4>2. call[r].op = "guest" => user'[r] # None
        <5>. SUFFICES ASSUME call[r].op = "guest" PROVE user'[r] # None
          OBVIOUS
        <5>1. CommitGuest(r)
          BY DEF Commit, Commits, CommitRegister, CommitGuest, CommitUpdate, CommitRole, CommitPatch,
             CommitSelect, CommitDelete, CommitReassign, CommitAssign, CommitEdit, CommitUnassign,
             CommitRemove, CommitCreateBot, CommitGiveBot, CommitDeleteBot
        <5>2. call[r].mail \in Mails /\ call[r].by \in People
          BY <1>1, CallTypes
        <5>3. [mail |-> call[r].mail, role |-> "Guest", parent |-> call[r].by, selected |-> None]
                 \in Account
          BY <5>2 DEF Account, Roles
        <5>. QED
          BY <1>1, <5>1, <5>3, AccountsAssumption DEF CommitGuest, Creates, TypeOK
      <4>. QED
        BY <2>2, <2>3, <3>2, <4>1, <4>2
    <3>4. ASSUME NEW y \in assigned, SameRow(x, y),
                 (x.vouched = y.vouched /\ x.by = y.by) \/ Vouches(r, x)
          PROVE  user'[x.user] # None /\ user'[x.by] # None /\ bot'[x.bot] # None
      <4>1. user[y.user] # None /\ user[y.by] # None /\ bot[y.bot] # None /\ x.user = y.user /\ x.bot = y.bot
        BY <1>1, <3>4 DEF KeysHold, SameRow
      <4>2. user[x.by] # None
        BY <3>4, <4>1 DEF Vouches
      <4>. QED
        BY <2>2, <2>3, <3>2, <4>1, <4>2
    <3>. QED
      BY <3>3, <3>4, RowsStep DEF RowsEffect
  <2>. QED
    BY <2>4, <2>5 DEF KeysHold
<1>. QED
  BY <1>2, <1>3, <1>4

LEMMA KnownCommit ==
    ASSUME Typed, NEW r \in Requests, Commit(r)
    PROVE  Known'
<1>1. /\ TypeOK /\ Known /\ call[r] \in Call /\ KeysHold' /\ call[r].op \in {call[r].op}
      /\ AccountIds \subseteq AccountIds' /\ BotIds \subseteq BotIds' /\ None \notin People
      /\ pc[r] = "working" /\ view' = view /\ pc' = [pc EXCEPT ![r] = "done"]
  BY CommitFrame, IdsGrow, InHand, KeysStep, AccountsAssumption DEF Typed
<1>2. ASSUME NEW p \in People, user'[p] # None
      PROVE  p \in AccountIds' /\ user'[p].parent \in AccountIds' \cup {None}
  <2>1. CASE user[p] = None
    <3>1. /\ p = r /\ call[r].op \in Opening
          /\ user'[p].parent = IF call[r].op = "guest" THEN call[r].by ELSE None
      BY <1>2, <2>1, UsersStep DEF UsersEffect
    <3>2. call[r].op = "guest" => call[r].by \in AccountIds
      BY <1>1 DEF Typed, Fits
    <3>. QED
      BY <1>1, <3>1, <3>2, IdsGrow
  <2>2. CASE user[p] # None
    <3>1. p \in AccountIds /\ user[p].parent \in AccountIds \cup {None}
      BY <1>1, <2>2 DEF Known
    <3>2. user'[p].parent = user[p].parent \/ (call[r].op = "reassign" /\ user'[p].parent = call[r].new)
      BY <1>2, <2>2, UsersStep DEF UsersEffect
    <3>3. ASSUME call[r].op = "reassign" PROVE call[r].new \in AccountIds
      <4>1. Exists(view[r], call[r].new) /\ call[r].new \in People
        BY <1>1, <3>3, InHand, CallTypes DEF Saw
      <4>. QED
        BY <1>1, <4>1 DEF Known, Exists
    <3>. QED
      BY <1>1, <3>1, <3>2, <3>3
  <2>. QED
    BY <2>1, <2>2
<1>3. ASSUME NEW p \in People, claims'[p] # {} PROVE p \in AccountIds'
  BY <1>1, <1>3, ClaimsStep DEF Known
<1>4. ASSUME NEW b \in AllBots, bot'[b] # None PROVE b \in BotIds'
  <2>1. bot[b] # None \/ (b = r /\ call[r].op = "create_bot")
    BY <1>4, BotsStep DEF BotsEffect
  <2>. QED
    BY <1>1, <2>1, IdsGrow DEF Known
<1>5. ASSUME NEW q \in Requests, pc'[q] # "new"
      PROVE  /\ \A p \in People : view'[q].user[p] # None => p \in AccountIds'
             /\ \A x \in view'[q].assigned : x.user # q
  <2>1. pc[q] # "new" /\ view'[q] = view[q]
    BY <1>1, <1>5 DEF TypeOK
  <2>. QED
    BY <1>1, <2>1 DEF Known
<1>. QED
  BY <1>1, <1>2, <1>3, <1>4, <1>5 DEF Known, KeysHold

LEMMA TracedCommit ==
    ASSUME Typed, NEW r \in Requests, Commit(r)
    PROVE  Traced'
<1>1. TypeOK /\ Traced /\ Past' = Past \cup {r}
  BY IdsGrow DEF Typed
<1>2. \A p \in People :
         /\ wrote'[p].mail \in Past' /\ wrote'[p].role \in Past'
         /\ wrote'[p].parent \in Past' /\ wrote'[p].selected \in Past'
  BY <1>1, UsersStep DEF UsersEffect, Traced
<1>3. \A b \in AllBots : gave'[b] \in Past'
  BY <1>1, BotsStep DEF BotsEffect, Traced
<1>4. \A i \in People \cup AllBots : gone'[i] \in Past'
  BY <1>1, GoneStep DEF GoneEffect, Traced
<1>5. \A x \in assigned' : x.made \in Past' /\ x.vouched \in Past'
  BY <1>1, RowsStep DEF RowsEffect, Traced, SameRow, Inserts, Vouches
<1>. QED
  BY <1>1, <1>2, <1>3, <1>4, <1>5 DEF Traced

LEMMA TypedCommit ==
    ASSUME Typed, NEW r \in Requests, Commit(r)
    PROVE  Typed'
<1>1. /\ TypeOK /\ TablesOK' /\ pc' = [pc EXCEPT ![r] = "done"]
      /\ past' = [past EXCEPT ![r] = Committed] /\ call' = call /\ view' = view /\ before' = before
  BY CommitFrame, CommitTypes, InHand DEF Typed
<1>2. TypeOK'
  BY <1>1 DEF TypeOK, TablesOK, Committed
<1>. QED
  BY <1>2, FitsCommit, KnownCommit, TracedCommit DEF Typed

LEMMA TypedBegin ==
    ASSUME Typed, NEW r \in Requests, NEW c \in Call, Begin(r, c)
    PROVE  Typed'
<1>. DEFINE d == [user |-> user, bot |-> bot, assigned |-> assigned]
<1>1. /\ TypeOK /\ pc[r] = "new" /\ pc' = [pc EXCEPT ![r] = "working"]
      /\ Accepts(d, c) /\ view' = [view EXCEPT ![r] = d] /\ call' = [call EXCEPT ![r] = c]
      /\ before' = [before EXCEPT ![r] = Committed]
      /\ UNCHANGED <<user, bot, assigned, claims, wrote, gave, gone, past>>
  BY DEF Begin, Typed, tables, historyVars
<1>2. d \in DB /\ d.user = user /\ d.bot = bot /\ d.assigned = assigned
  BY <1>1 DEF DB, TypeOK
<1>. HIDE DEF d
<1>3. r \notin Committed /\ Committed' = Committed
  BY <1>1 DEF Committed, TypeOK
<1>4. \A q \in Committed : call'[q] = call[q]
  BY <1>1, <1>3 DEF TypeOK, Committed
<1>5. AccountIds' = AccountIds /\ BotIds' = BotIds /\ Past' = Past
  BY <1>3, <1>4 DEF AccountIds, BotIds, Past
<1>6. TypeOK'
  BY <1>1, <1>2 DEF TypeOK, Committed
<1>7. Saw(d, c)
  BY <1>1, AcceptsSaw
<1>8. c.op = "guest" => c.by \in AccountIds
  <2>1. c.op = "guest" => claims[c.by] # {} /\ c.by \in People
    BY <1>1, CallTypes DEF Accepts, MayRegisterGuest, HasRole
  <2>. QED
    BY <2>1 DEF Typed, Known
<1>9. ASSUME NEW q \in Requests PROVE Fits(q)'
  <2>1. CASE q = r
    <3>1. call'[r] = c /\ view'[r] = d /\ pc'[r] = "working" /\ before'[r] = Committed
      BY <1>1 DEF TypeOK
    <3>2. past'[r] \subseteq Committed \ {r}
      BY <1>1 DEF Typed, Fits
    <3>3. c # None /\ d # None
      BY <1>2, NoneAssumption, AccountsAssumption
    <3>. QED
      BY <1>3, <1>5, <1>7, <1>8, <2>1, <3>1, <3>2, <3>3 DEF Fits
  <2>2. CASE q # r
    <3>1. call'[q] = call[q] /\ view'[q] = view[q] /\ pc'[q] = pc[q] /\ before'[q] = before[q]
          /\ past'[q] = past[q]
      BY <1>1, <2>2 DEF TypeOK
    <3>. QED
      BY <1>3, <1>5, <3>1 DEF Typed, Fits
  <2>. QED
    BY <2>1, <2>2
<1>10. Known'
  <2>1. user[r] = None
    BY <1>3, Unused
  <2>2. /\ \A p \in People : d.user[p] # None => p \in AccountIds
        /\ \A x \in d.assigned : x.user # r
    BY <1>2, <2>1 DEF Typed, Known
  <2>3. ASSUME NEW q \in Requests, pc'[q] # "new"
        PROVE  /\ \A p \in People : view'[q].user[p] # None => p \in AccountIds
               /\ \A x \in view'[q].assigned : x.user # q
    <3>1. CASE q = r
      BY <1>1, <2>2, <3>1 DEF TypeOK
    <3>2. CASE q # r
      <4>1. view'[q] = view[q] /\ pc[q] # "new"
        BY <1>1, <2>3, <3>2 DEF TypeOK
      <4>. QED
        BY <4>1 DEF Typed, Known
    <3>. QED
      BY <3>1, <3>2
  <2>. QED
    BY <1>1, <1>5, <2>3 DEF Typed, Known
<1>11. Traced'
  BY <1>1, <1>5 DEF Typed, Traced
<1>. QED
  BY <1>6, <1>9, <1>10, <1>11 DEF Typed

LEMMA TypedFail ==
    ASSUME Typed, NEW r \in Requests, Fail(r)
    PROVE  Typed'
<1>1. /\ TypeOK /\ pc[r] = "working" /\ pc' = [pc EXCEPT ![r] = "failed"]
      /\ UNCHANGED <<user, bot, assigned, claims, call, view, wrote, gave, gone, before, past>>
  BY DEF Fail, Typed, tables, historyVars
<1>2. Committed' = Committed /\ TypeOK'
  BY <1>1 DEF TypeOK, Committed
<1>3. AccountIds' = AccountIds /\ BotIds' = BotIds /\ Past' = Past
  BY <1>1, <1>2 DEF AccountIds, BotIds, Past
<1>4. \A q \in Requests : pc'[q] = "new" <=> pc[q] = "new"
  BY <1>1 DEF TypeOK
<1>5. \A q \in Requests : Fits(q)'
  BY <1>1, <1>2, <1>3, <1>4 DEF Typed, Fits
<1>6. Known' /\ Traced'
  BY <1>1, <1>3, <1>4 DEF Typed, Known, Traced
<1>. QED
  BY <1>2, <1>5, <1>6 DEF Typed

LEMMA TypedInit == Init => Typed
<1>. SUFFICES ASSUME Init PROVE Typed
  OBVIOUS
<1>1. PICK d \in Start : user = d.user /\ bot = d.bot /\ assigned = d.assigned
  BY DEF Init
<1>2. d \in DB /\ Consistent(d) /\ None \notin Account
  BY AccountsAssumption
<1>3. /\ user \in [People -> Account \cup {None}] /\ bot \in [AllBots -> People \cup {None}]
      /\ assigned \in SUBSET Assignment
  BY <1>1, <1>2 DEF DB
<1>4. claims \in [People -> SUBSET Roles]
  BY <1>3 DEF Init, Account
<1>5. By(None) \in Wrote /\ None \in Writers
  BY DEF By, Wrote, Writers
<1>6. TypeOK
  BY <1>3, <1>4, <1>5 DEF Init, TypeOK
<1>7. Committed = {}
  BY DEF Init, Committed
<1>8. AccountIds = Users /\ BotIds = Bots /\ Past = {None}
  BY <1>7 DEF AccountIds, BotIds, Past
<1>9. \A r \in Requests : user[r] = None /\ bot[r] = None
  BY <1>1, <1>2 DEF Consistent
<1>10. ASSUME NEW p \in People, user[p] # None
       PROVE  p \in Users /\ user[p].parent \in Users \cup {None}
  <2>1. p \in Users
    BY <1>9, <1>10 DEF People
  <2>2. user[p].parent \in People \cup {None}
    BY <1>3, <1>10 DEF Account
  <2>3. user[p].parent # None => user[user[p].parent] # None
    BY <1>1, <1>2, <1>10, <2>1 DEF Consistent
  <2>. QED
    BY <1>9, <2>1, <2>2, <2>3 DEF People
<1>11. ASSUME NEW b \in AllBots, bot[b] # None PROVE b \in Bots /\ user[bot[b]] # None
  <2>1. b \in Bots
    BY <1>9, <1>11 DEF AllBots
  <2>. QED
    BY <1>1, <1>2, <1>11, <2>1 DEF Consistent
<1>12. \A x \in assigned : /\ user[x.user] # None /\ user[x.by] # None /\ bot[x.bot] # None
                           /\ x.made = None /\ x.vouched = None
  BY <1>1, <1>2 DEF Consistent
<1>13. \A p \in People : claims[p] # {} => p \in Users
  BY <1>10 DEF Init
<1>14. Known
  BY <1>8, <1>10, <1>11, <1>12, <1>13 DEF Init, Known
<1>15. Traced
  BY <1>8, <1>12 DEF Init, Traced, By
<1>16. \A r \in Requests : Fits(r)
  BY <1>7 DEF Init, Fits
<1>. QED
  BY <1>6, <1>14, <1>15, <1>16 DEF Typed

LEMMA CallsAreCalls ==
    ASSUME TypeOK, NEW c \in Calls(assigned)
    PROVE  c \in Call
    BY DEF TypeOK, Call, Calls, RowCalls

LEMMA TypedNext ==
    ASSUME Typed, [Next]_vars
    PROVE  Typed'
<1>1. ASSUME UNCHANGED vars PROVE Typed'
  BY <1>1 DEF vars, tables, historyVars, Typed, TypeOK, Fits, Known, Traced, Past, Committed,
     AccountIds, BotIds
<1>. QED
  BY <1>1, TypedBegin, TypedCommit, TypedFail, CallsAreCalls DEF Next, Typed

(* Every variable has its type: in particular no request is ever carried out  *)
(* on behalf of, or for, an account or a bot that never was.                  *)
THEOREM AccountsTypes == Spec => []TypeOK
<1>1. Typed => TypeOK
  BY DEF Typed
<1>. QED
  BY <1>1, TypedInit, TypedNext, PTL DEF Spec

-----------------------------------------------------------------------------
(* What a request has read, and what has become of it since. *)

(* A column that was last written before r began is as r has read it. *)
Read(r) ==
    LET old == before[r] \cup {None} IN
    pc[r] # "new" =>
    /\ \A p \in People : user[p] # None =>
          /\ wrote[p].mail \in old =>
                Exists(view[r], p) /\ view[r].user[p].mail = user[p].mail
          /\ wrote[p].role \in old =>
                Exists(view[r], p) /\ view[r].user[p].role = user[p].role
          /\ wrote[p].parent \in old =>
                Exists(view[r], p) /\ view[r].user[p].parent = user[p].parent
    /\ \A b \in AllBots : bot[b] # None /\ gave[b] \in old => view[r].bot[b] = bot[b]
    /\ \A x \in assigned : x.made \in old => \E y \in view[r].assigned : SameRow(x, y)

AllRead == \A r \in Requests : Read(r)

(* Who was no Admin when a request read it does not become one. *)
NeverPromoted ==
    \A r \in Requests, p \in People :
        pc[r] # "new" /\ Exists(view[r], p) /\ view[r].user[p].role # "Admin"
            /\ user[p] # None
        => user[p].role # "Admin"

LEMMA ReadInit == Init => AllRead /\ NeverPromoted
    BY DEF Init, AllRead, Read, NeverPromoted

LEMMA ReadCommit ==
    ASSUME Typed, AllRead, NEW r \in Requests, Commit(r)
    PROVE  AllRead'
<1>. SUFFICES ASSUME NEW q \in Requests PROVE Read(q)'
  BY DEF AllRead
<1>. DEFINE old == before[q] \cup {None}
<1>1. /\ TypeOK /\ Read(q) /\ r \notin old /\ before' = before /\ view' = view
      /\ pc'[q] # "new" <=> pc[q] # "new"
  <2>1. r # None
    BY AccountsAssumption DEF People
  <2>. QED
    BY <2>1, CommitFrame DEF Typed, AllRead, Fits, TypeOK
<1>. HIDE DEF old
<1>2. SUFFICES ASSUME pc[q] # "new" PROVE Read(q)'
  BY <1>1 DEF Read
<1>3. ASSUME NEW p \in People, user'[p] # None
      PROVE  /\ wrote'[p].mail \in old =>
                   Exists(view[q], p) /\ view[q].user[p].mail = user'[p].mail
             /\ wrote'[p].role \in old =>
                   Exists(view[q], p) /\ view[q].user[p].role = user'[p].role
             /\ wrote'[p].parent \in old =>
                   Exists(view[q], p) /\ view[q].user[p].parent = user'[p].parent
  <2>1. CASE user[p] = None
    <3>1. wrote'[p] = By(r)
      BY <1>3, <2>1, UsersStep DEF UsersEffect
    <3>. QED
      BY <1>1, <3>1 DEF By
  <2>2. CASE user[p] # None
    <3>1. /\ wrote'[p].mail \in old => user'[p].mail = user[p].mail /\ wrote'[p].mail = wrote[p].mail
          /\ wrote'[p].role \in old => user'[p].role = user[p].role /\ wrote'[p].role = wrote[p].role
          /\ wrote'[p].parent \in old =>
                user'[p].parent = user[p].parent /\ wrote'[p].parent = wrote[p].parent
      BY <1>1, <1>3, <2>2, UsersStep DEF UsersEffect
    <3>. QED
      BY <1>1, <1>2, <2>2, <3>1 DEF Read, old
  <2>. QED
    BY <2>1, <2>2
<1>4. ASSUME NEW b \in AllBots, bot'[b] # None, gave'[b] \in old
      PROVE  view[q].bot[b] = bot'[b]
  <2>1. bot[b] # None /\ bot'[b] = bot[b] /\ gave'[b] = gave[b]
    BY <1>1, <1>4, BotsStep DEF BotsEffect
  <2>. QED
    BY <1>1, <1>2, <1>4, <2>1 DEF Read, old
<1>5. ASSUME NEW x \in assigned', x.made \in old
      PROVE  \E y \in view[q].assigned : SameRow(x, y)
  <2>1. PICK y \in assigned : SameRow(x, y)
    BY <1>1, <1>5, RowsStep DEF RowsEffect, Inserts
  <2>2. PICK z \in view[q].assigned : SameRow(y, z)
    BY <1>1, <1>2, <1>5, <2>1 DEF Read, SameRow, old
  <2>. QED
    BY <2>1, <2>2 DEF SameRow
<1>. QED
  BY <1>1, <1>3, <1>4, <1>5 DEF Read, old, Exists

LEMMA ReadBegin ==
    ASSUME Typed, AllRead, NeverPromoted, NEW r \in Requests, NEW c \in Call, Begin(r, c)
    PROVE  AllRead' /\ NeverPromoted'
<1>. DEFINE d == [user |-> user, bot |-> bot, assigned |-> assigned]
<1>1. /\ TypeOK /\ view' = [view EXCEPT ![r] = d] /\ pc' = [pc EXCEPT ![r] = "working"]
      /\ before' = [before EXCEPT ![r] = Committed]
      /\ UNCHANGED <<user, bot, assigned, wrote, gave>>
  BY DEF Begin, Typed, tables, historyVars
<1>2. d.user = user /\ d.bot = bot /\ d.assigned = assigned
  OBVIOUS
<1>. HIDE DEF d
<1>3. /\ view'[r] = d
      /\ \A q \in Requests \ {r} : view'[q] = view[q] /\ pc'[q] = pc[q] /\ before'[q] = before[q]
  BY <1>1 DEF TypeOK
<1>4. ASSUME NEW q \in Requests PROVE Read(q)'
  <2>1. CASE q = r
    BY <1>1, <1>2, <1>3, <2>1 DEF Read, Exists, SameRow
  <2>2. CASE q # r
    BY <1>1, <1>3, <2>2 DEF AllRead, Read, Exists
  <2>. QED
    BY <2>1, <2>2
<1>5. NeverPromoted'
  BY <1>1, <1>2, <1>3 DEF NeverPromoted, Exists
<1>. QED
  BY <1>4, <1>5 DEF AllRead

LEMMA PromotedCommit ==
    ASSUME Typed, NeverPromoted, NEW r \in Requests, Commit(r)
    PROVE  NeverPromoted'
<1>. SUFFICES ASSUME NEW q \in Requests, NEW p \in People, pc'[q] # "new",
                     Exists(view'[q], p), view'[q].user[p].role # "Admin", user'[p] # None
              PROVE  user'[p].role # "Admin"
  BY DEF NeverPromoted
<1>1. pc[q] # "new" /\ view'[q] = view[q] /\ TypeOK /\ call[r] \in Call
  BY CommitFrame, InHand DEF Typed, TypeOK
<1>2. user[p] # None
  <2>1. p \in AccountIds
    BY <1>1 DEF Typed, Known, Exists
  <2>2. r \notin AccountIds
    BY CommitFrame, Unused DEF Typed
  <2>. QED
    BY <2>1, <2>2, UsersStep DEF UsersEffect
<1>3. user[p].role # "Admin"
  BY <1>1, <1>2 DEF NeverPromoted
<1>4. user'[p].role = user[p].role \/ (call[r].op = "role" /\ user'[p].role = call[r].role)
  BY <1>2, UsersStep DEF UsersEffect
<1>. QED
  BY <1>1, <1>3, <1>4, CallTypes

LEMMA ReadFail ==
    ASSUME Typed, AllRead, NeverPromoted, NEW r \in Requests, Fail(r)
    PROVE  AllRead' /\ NeverPromoted'
<1>1. /\ UNCHANGED <<user, bot, assigned, wrote, gave, view, before>>
      /\ \A q \in Requests : pc'[q] # "new" => pc[q] # "new"
  BY DEF Fail, tables, historyVars, Typed, TypeOK
<1>. QED
  BY <1>1 DEF AllRead, Read, NeverPromoted, Exists

-----------------------------------------------------------------------------
(* What the history stands for. *)

(* The mails that were not given by an update were free when they were taken. *)
MailsTaken ==
    \A q \in People :
        user[q] # None /\ wrote[q].mail # None =>
            LET t == wrote[q].mail IN
            /\ call[t].op \in Opening \cup {"update"}
            /\ call[t].op # "update" => user[q].mail = call[t].mail

(* An account goes by a deletion of its own. *)
GoneBy ==
    \A i \in People \cup AllBots :
        gone[i] # None =>
            /\ i \in AccountIds \cup BotIds
            /\ i \in AccountIds => call[gone[i]].op = "delete" /\ call[gone[i]].user = i

(* A request that sets the bots of a user has not left a row it could see. *)
PatchesReplace ==
    \A t \in Requests, x \in assigned :
        t \in Committed /\ call[t].op = "patch" /\ call[t].user = x.user
            /\ call[t].user # None /\ call[t].bots # None
        => x.made \notin before[t] \cup {None}

(* A request inserts no more rows for a bot than its list names it. *)
MadeBy ==
    \A y \in assigned :
        y.made # None =>
            LET c == call[y.made] IN
            \/ c.op = "guest" /\ y.user = y.made /\ y.copy <= c.bots[y.bot]
            \/ /\ c.op = "patch" /\ c.user # None /\ c.bots # None /\ c.user = y.user
               /\ y.copy <= c.bots[y.bot]
            \/ /\ c.op = "assign" /\ y.copy = 1
               /\ \A x \in view[y.made].assigned : ~(x.bot = y.bot /\ x.user = y.user)

(* An id stands for one row. *)
OneRow == \A x, y \in assigned : SameRow(x, y) => x = y

VouchedBy ==
    \A x \in assigned :
        x.vouched # None =>
            LET c == call[x.vouched]
                d == view[x.vouched]
            IN
            \/ c.op = "guest" /\ x.user = x.vouched /\ c.by = x.by /\ d.bot[x.bot] = x.by
            \/ c.op \in {"patch", "assign"} /\ Assignable(d, x.by, x.user, x.bot)

(* What there was at first, as far as nobody has changed it. *)
AtFirst ==
    \A x \in assigned :
        /\ x.vouched = None /\ user[x.user].role = "Guest"
        /\ wrote[x.user].role = None /\ wrote[x.user].parent = None /\ gave[x.bot] = None
        => user[x.user].parent = x.by /\ bot[x.bot] = x.by

WrittenBy ==
    /\ \A p \in People : user[p] # None =>
          /\ wrote[p].role # None => call[wrote[p].role].op \in Opening \cup {"role"}
          /\ wrote[p].parent # None => call[wrote[p].parent].op \in Opening \cup {"reassign"}
          /\ p \in Requests =>
                /\ wrote[p].parent \notin before[p] \cup {None}
                /\ wrote[p].role \notin before[p] \cup {None}
                /\ wrote[p].parent = p /\ call[p].op = "guest" => user[p].parent = call[p].by
    /\ \A b \in AllBots :
          bot[b] # None /\ gave[b] # None => call[gave[b]].op \in {"create_bot", "give_bot"}

Settled ==
    /\ MailsTaken /\ GoneBy /\ PatchesReplace /\ MadeBy /\ OneRow /\ VouchedBy /\ AtFirst /\ WrittenBy
    /\ DeletedBotsAreUnselected

(* A request that begins or fails leaves all that as it is. *)
Quiet ==
    /\ UNCHANGED <<user, bot, assigned, wrote, gave, gone, past>>
    /\ Committed' = Committed /\ AccountIds' = AccountIds /\ BotIds' = BotIds
    /\ \A q \in Committed :
          call'[q] = call[q] /\ view'[q] = view[q] /\ before'[q] = before[q]

LEMMA BeginIsQuiet ==
    ASSUME TypeOK, NEW r \in Requests, NEW c, Begin(r, c)
    PROVE  Quiet
<1>1. /\ pc[r] = "new" /\ pc' = [pc EXCEPT ![r] = "working"]
      /\ UNCHANGED <<user, bot, assigned, wrote, gave, gone, past>>
      /\ \A q \in Requests \ {r} :
            call'[q] = call[q] /\ view'[q] = view[q] /\ before'[q] = before[q]
  BY DEF Begin, tables, historyVars, TypeOK
<1>2. r \notin Committed /\ Committed' = Committed
  BY <1>1 DEF Committed, TypeOK
<1>3. \A q \in Committed : q \in Requests \ {r}
  BY <1>2 DEF Committed
<1>4. AccountIds' = AccountIds /\ BotIds' = BotIds
  BY <1>1, <1>2, <1>3 DEF AccountIds, BotIds
<1>. QED
  BY <1>1, <1>2, <1>3, <1>4 DEF Quiet

LEMMA FailIsQuiet ==
    ASSUME TypeOK, NEW r \in Requests, Fail(r)
    PROVE  Quiet
<1>1. Committed' = Committed
  BY DEF Fail, TypeOK, Committed
<1>. QED
  BY <1>1 DEF Fail, tables, historyVars, Quiet, AccountIds, BotIds

LEMMA SettledQuiet ==
    ASSUME Typed, Settled, Quiet
    PROVE  Settled'
<1>1. /\ UNCHANGED <<user, bot, assigned, wrote, gave, gone, past>>
      /\ Committed' = Committed /\ AccountIds' = AccountIds /\ BotIds' = BotIds
      /\ \A q \in Committed :
            call'[q] = call[q] /\ view'[q] = view[q] /\ before'[q] = before[q]
  BY DEF Quiet
<1>2. /\ \A p \in People : /\ wrote[p].mail # None => wrote[p].mail \in Committed
                           /\ wrote[p].role # None => wrote[p].role \in Committed
                           /\ wrote[p].parent # None => wrote[p].parent \in Committed
      /\ \A b \in AllBots : gave[b] # None => gave[b] \in Committed
      /\ \A i \in People \cup AllBots : gone[i] # None => gone[i] \in Committed
      /\ \A x \in assigned : /\ x.made # None => x.made \in Committed
                             /\ x.vouched # None => x.vouched \in Committed
  BY DEF Typed, Traced, Past
<1>3. MailsTaken'
  BY <1>1, <1>2 DEF Settled, MailsTaken
<1>4. GoneBy'
  BY <1>1, <1>2 DEF Settled, GoneBy
<1>5. PatchesReplace'
  BY <1>1 DEF Settled, PatchesReplace
<1>6. MadeBy'
  BY <1>1, <1>2 DEF Settled, MadeBy
<1>11. OneRow'
  BY <1>1 DEF Settled, OneRow, SameRow
<1>7. VouchedBy'
  BY <1>1, <1>2 DEF Settled, VouchedBy, Assignable, Exists
<1>8. AtFirst'
  BY <1>1 DEF Settled, AtFirst
<1>9. WrittenBy'
  <2>1. \A p \in Requests : user[p] # None => p \in Committed
    BY Unused DEF Typed
  <2>. QED
    BY <1>1, <1>2, <2>1 DEF Settled, WrittenBy
<1>10. DeletedBotsAreUnselected'
  <2>1. \A p \in People : user[p] # None => user[p].selected \in AllBots \cup {None}
    BY DEF Typed, TypeOK, Account
  <2>. QED
    BY <1>1, <1>2, <2>1 DEF Settled, DeletedBotsAreUnselected
<1>. QED
  BY <1>3, <1>4, <1>5, <1>6, <1>7, <1>8, <1>9, <1>10, <1>11 DEF Settled

LEMMA SettledInit == Init => Settled
<1>. SUFFICES ASSUME Init PROVE Settled
  OBVIOUS
<1>1. PICK d \in Start : user = d.user /\ bot = d.bot /\ assigned = d.assigned
  BY DEF Init
<1>2. d \in DB /\ Consistent(d)
  BY <1>1, AccountsAssumption
<1>3. /\ \A p \in People : wrote[p] = By(None)
      /\ \A b \in AllBots : gave[b] = None
      /\ \A i \in People \cup AllBots : gone[i] = None
      /\ Committed = {}
  BY DEF Init, Committed
<1>4. \A x \in assigned : x.made = None /\ x.vouched = None
  BY <1>1, <1>2 DEF Consistent
<1>5. /\ \A x \in assigned : user[x.user].role = "Guest" =>
            user[x.user].parent = x.by /\ bot[x.bot] = x.by
      /\ \A p \in Requests : user[p] = None
  BY <1>1, <1>2 DEF Consistent
<1>6. MailsTaken /\ WrittenBy
  BY <1>3, <1>5 DEF MailsTaken, WrittenBy, By
<1>7. GoneBy /\ PatchesReplace
  BY <1>3 DEF GoneBy, PatchesReplace
<1>8. MadeBy /\ VouchedBy /\ AtFirst
  BY <1>4, <1>5 DEF MadeBy, VouchedBy, AtFirst
<1>10. OneRow
  BY <1>1, <1>2 DEF Consistent, OneRow
<1>9. DeletedBotsAreUnselected
  <2>1. \A p \in People : user[p] # None => user[p].selected \in AllBots \cup {None}
    BY <1>1, <1>2 DEF DB, Account
  <2>. QED
    BY <1>3, <2>1 DEF DeletedBotsAreUnselected
<1>. QED
  BY <1>6, <1>7, <1>8, <1>9, <1>10 DEF Settled

-----------------------------------------------------------------------------
(* Commits *)

LEMMA MailsCommit ==
    ASSUME Typed, MailsTaken, NEW r \in Requests, Commit(r)
    PROVE  MailsTaken'
<1>1. call' = call
  BY CommitFrame DEF Typed
<1>. SUFFICES ASSUME NEW q \in People, user'[q] # None, wrote'[q].mail # None
              PROVE  /\ call[wrote'[q].mail].op \in Opening \cup {"update"}
                     /\ call[wrote'[q].mail].op # "update" =>
                           user'[q].mail = call[wrote'[q].mail].mail
  BY <1>1 DEF MailsTaken
<1>2. CASE user[q] = None
  <2>1. call[r].op \in Opening /\ wrote'[q] = By(r) /\ user'[q].mail = call[r].mail
    BY <1>2, UsersStep DEF UsersEffect
  <2>2. wrote'[q].mail = r
    BY <2>1 DEF By
  <2>. QED
    BY <2>1, <2>2
<1>3. CASE user[q] # None
  <2>1. \/ user'[q].mail = user[q].mail /\ wrote'[q].mail = wrote[q].mail
        \/ call[r].op = "update" /\ wrote'[q].mail = r
    BY <1>3, UsersStep DEF UsersEffect
  <2>. QED
    BY <1>3, <2>1 DEF MailsTaken
<1>. QED
  BY <1>2, <1>3

(* Nothing is both an account and a bot. *)
LEMMA IdsApart == AccountIds \cap BotIds = {}
    BY AccountsAssumption DEF AccountIds, BotIds, Opening, Committed

LEMMA GoneCommit ==
    ASSUME Typed, GoneBy, NEW r \in Requests, Commit(r)
    PROVE  GoneBy'
<1>1. /\ call' = call /\ AccountIds \subseteq AccountIds' /\ BotIds \subseteq BotIds'
      /\ view[r] \in DB /\ call[r] \in Call /\ Saw(view[r], call[r]) /\ pc[r] # "new" /\ TypeOK
  BY CommitFrame, IdsGrow, InHand DEF Typed
<1>2. (AccountIds \cap BotIds = {})'
  BY IdsApart, AccountsAssumption DEF AccountIds, BotIds, Opening, Committed
<1>. SUFFICES ASSUME NEW i \in People \cup AllBots, gone'[i] # None
              PROVE  /\ i \in AccountIds \cup BotIds
                     /\ i \in AccountIds => call[gone'[i]].op = "delete" /\ call[gone'[i]].user = i
  BY <1>1, <1>2 DEF GoneBy
<1>3. CASE gone'[i] = gone[i]
  BY <1>3 DEF GoneBy
<1>4. CASE gone'[i] = r /\ call[r].op = "delete" /\ i = call[r].user
  <2>1. i \in People /\ view[r].user[i] # None
    BY <1>1, <1>4, CallTypes DEF Saw, Exists
  <2>. QED
    BY <1>1, <1>4, <2>1 DEF Typed, Known
<1>5. CASE gone'[i] = r /\ call[r].op = "delete" /\ i \in AllBots /\ bot[i] = call[r].user
  <2>1. bot[i] # None
    BY <1>1, <1>5, CallTypes, AccountsAssumption
  <2>. QED
    BY <1>5, <2>1, IdsApart DEF Typed, Known
<1>6. CASE gone'[i] = r /\ call[r].op = "delete_bot" /\ i = call[r].bot /\ bot[i] # None
  <2>1. i \in BotIds
    BY <1>1, <1>6, CallTypes DEF Typed, Known
  <2>. QED
    BY <2>1, IdsApart
<1>. QED
  BY <1>3, <1>4, <1>5, <1>6, GoneStep DEF GoneEffect

LEMMA PatchesCommit ==
    ASSUME Typed, PatchesReplace, NEW r \in Requests, Commit(r)
    PROVE  PatchesReplace'
<1>1. /\ call' = call /\ before' = before /\ Committed' = Committed \cup {r} /\ r \notin Committed
      /\ r # None /\ \A t \in Requests : before[t] \subseteq Committed
  BY CommitFrame, AccountsAssumption DEF Typed, Fits, People
<1>. SUFFICES ASSUME NEW t \in Requests, NEW x \in assigned', t \in Committed \cup {r},
                     call[t].op = "patch", call[t].user = x.user, call[t].user # None,
                     call[t].bots # None
              PROVE  x.made \notin before[t] \cup {None}
  BY <1>1 DEF PatchesReplace
<1>2. CASE t = r
  <2>1. CommitPatch(r)
    BY <1>2 DEF Commit, Commits, CommitRegister, CommitGuest, CommitUpdate, CommitRole,
       CommitSelect, CommitDelete, CommitReassign, CommitAssign, CommitEdit, CommitUnassign,
       CommitRemove, CommitCreateBot, CommitGiveBot, CommitDeleteBot
  <2>2. x \in Rows(r, call[r].by, call[r].user, call[r].bots)
    BY <1>2, <2>1 DEF CommitPatch, Replaced
  <2>. QED
    BY <1>1, <1>2, <2>2 DEF Rows
<1>3. CASE t # r
  <2>1. CASE Inserts(r, x)
    BY <1>1, <2>1 DEF Inserts
  <2>2. ASSUME NEW y \in assigned, SameRow(x, y) PROVE x.made \notin before[t] \cup {None}
    BY <1>3, <2>2 DEF PatchesReplace, SameRow
  <2>. QED
    BY <2>1, <2>2, RowsStep DEF RowsEffect
<1>. QED
  BY <1>2, <1>3

LEMMA MadeCommit ==
    ASSUME Typed, MadeBy, NEW r \in Requests, Commit(r)
    PROVE  MadeBy'
<1>1. call' = call /\ view' = view
  BY CommitFrame DEF Typed
<1>. DEFINE Right(y) ==
              LET c == call[y.made] IN
              \/ c.op = "guest" /\ y.user = y.made /\ y.copy <= c.bots[y.bot]
              \/ /\ c.op = "patch" /\ c.user # None /\ c.bots # None /\ c.user = y.user
                 /\ y.copy <= c.bots[y.bot]
              \/ /\ c.op = "assign" /\ y.copy = 1
                 /\ \A x \in view[y.made].assigned : ~(x.bot = y.bot /\ x.user = y.user)
<1>2. SUFFICES ASSUME NEW y \in assigned', y.made # None PROVE Right(y)
  BY <1>1 DEF MadeBy
<1>3. CASE Inserts(r, y)
  BY <1>3 DEF Inserts
<1>4. ASSUME NEW z \in assigned, SameRow(y, z) PROVE Right(y)
  BY <1>2, <1>4 DEF MadeBy, SameRow
<1>. QED
  BY <1>3, <1>4, RowsStep DEF RowsEffect

LEMMA OneRowCommit ==
    ASSUME Typed, OneRow, NEW r \in Requests, Commit(r)
    PROVE  OneRow'
<1>1. TypeOK /\ call[r] \in Call /\ \A x \in assigned : x.made # r
  <2>1. r # None /\ r \notin Committed
    BY CommitFrame, AccountsAssumption DEF Typed, People
  <2>. QED
    BY <2>1, CommitFrame, InHand DEF Typed, Traced, Past
<1>2. ASSUME assigned' \subseteq assigned PROVE OneRow'
  BY <1>2 DEF OneRow
<1>3. ASSUME NEW old \in SUBSET assigned, NEW new, assigned' = old \cup new,
             \A x \in new : x.made = r, \A x, y \in new : SameRow(x, y) => x = y
      PROVE  OneRow'
  BY <1>1, <1>3 DEF OneRow, SameRow
<1>4. ASSUME NEW y \in assigned, NEW z, SameRow(z, y), assigned' = (assigned \ {y}) \cup {z}
      PROVE  OneRow'
  <2>1. ASSUME NEW x \in assigned \ {y} PROVE ~SameRow(x, z) /\ ~SameRow(z, x)
    BY <1>4 DEF OneRow, SameRow
  <2>. QED
    BY <1>4, <2>1 DEF OneRow
<1>5. CASE CommitRegister(r) \/ CommitUpdate(r) \/ CommitRole(r) \/ CommitSelect(r)
  BY <1>2, <1>5 DEF CommitRegister, CommitUpdate, CommitRole, CommitSelect
<1>6. CASE CommitReassign(r) \/ CommitCreateBot(r) \/ CommitGiveBot(r)
  BY <1>2, <1>6 DEF CommitReassign, CommitCreateBot, CommitGiveBot
<1>7. CASE CommitDelete(r) \/ CommitDeleteBot(r)
  BY <1>2, <1>7 DEF CommitDelete, CommitDeleteBot
<1>8. CASE CommitUnassign(r) \/ CommitRemove(r)
  BY <1>2, <1>8 DEF CommitUnassign, CommitRemove
<1>9. CASE CommitGuest(r)
  <2>. DEFINE new == Rows(r, call[r].by, r, call[r].bots)
  <2>1. call[r].bots \in Lists /\ assigned' = assigned \cup new
    BY <1>1, <1>9, CallTypes DEF CommitGuest, Commits
  <2>2. (\A x \in new : x.made = r) /\ \A x, y \in new : SameRow(x, y) => x = y
    BY <2>1, RowsOfAList
  <2>. QED
    BY <1>3, <2>1, <2>2
<1>10. CASE CommitPatch(r)
  <2>1. CASE call[r].user = None \/ call[r].bots = None
    BY <1>2, <1>10, <2>1 DEF CommitPatch
  <2>2. CASE call[r].user # None /\ call[r].bots # None
    <3>. DEFINE new == Rows(r, call[r].by, call[r].user, call[r].bots)
                old == {x \in assigned : x.user # call[r].user}
    <3>1. call[r].bots \in Lists /\ assigned' = old \cup new
      BY <1>1, <1>10, <2>2, CallTypes DEF CommitPatch, Commits, Replaced
    <3>2. (\A x \in new : x.made = r) /\ \A x, y \in new : SameRow(x, y) => x = y
      BY <3>1, RowsOfAList
    <3>3. old \in SUBSET assigned
      OBVIOUS
    <3>. HIDE DEF new, old
    <3>. QED
      BY <1>3, <3>1, <3>2, <3>3
  <2>. QED
    BY <2>1, <2>2
<1>11. CASE CommitAssign(r)
  <2>. DEFINE found == {x \in view[r].assigned : x.bot = call[r].bot /\ x.user = call[r].user}
              rows == Rows(r, call[r].by, call[r].user, Once(call[r].bot))
  <2>1. call[r].bot \in AllBots /\ call[r].by \in People /\ call[r].user \in People
    BY <1>1, <1>11, CallTypes DEF CommitAssign, Commits
  <2>2. CASE found = {}
    <3>1. PICK a \in BOOLEAN : assigned' = assigned \cup {[x EXCEPT !.active = a] : x \in rows}
      BY <1>11, <2>2 DEF CommitAssign
    <3>. DEFINE new == {[x EXCEPT !.active = a] : x \in rows}
    <3>2. \A x, y \in rows : SameRow(x, y) => x = y
      BY <2>1, OnceIsAList, RowsOfAList
    <3>3. \A x \in rows : x \in Assignment /\ x.made = r
      BY <2>1, OnceIsAList, RowsOfAList, RowsType
    <3>. HIDE DEF rows
    <3>4. \A x \in rows : [x EXCEPT !.active = a].made = r /\ SameRow([x EXCEPT !.active = a], x)
      BY <3>3 DEF Assignment, SameRow
    <3>5. \A x \in new : x.made = r
      BY <3>4
    <3>6. ASSUME NEW x \in rows, NEW y \in rows,
                 SameRow([x EXCEPT !.active = a], [y EXCEPT !.active = a])
          PROVE  x = y
      BY <3>2, <3>4, <3>6 DEF SameRow
    <3>7. \A x, y \in new : SameRow(x, y) => x = y
      BY <3>6
    <3>8. assigned' = assigned \cup new
      BY <3>1
    <3>. HIDE DEF new
    <3>. QED
      BY <1>3, <3>5, <3>7, <3>8
  <2>3. CASE found # {}
    <3>1. PICK a \in BOOLEAN, x \in found, y \in assigned :
            assigned' = (assigned \ {y}) \cup
                 {[y EXCEPT !.active = IF x.active = a THEN @ ELSE a,
                            !.by = call[r].by, !.vouched = r]}
      BY <1>11, <2>3 DEF CommitAssign
    <3>2. SameRow([y EXCEPT !.active = IF x.active = a THEN @ ELSE a,
                            !.by = call[r].by, !.vouched = r], y)
      BY <1>1 DEF SameRow, Assignment, TypeOK
    <3>. QED
      BY <1>4, <3>1, <3>2
  <2>. QED
    BY <2>2, <2>3
<1>12. CASE CommitEdit(r)
  <2>1. CASE assigned' = assigned
    BY <1>2, <2>1
  <2>2. CASE assigned' # assigned
    <3>. DEFINE a == call[r].op = "enable"
    <3>1. PICK y \in assigned : assigned' = (assigned \ {y}) \cup {[y EXCEPT !.active = a]}
      BY <1>12, <2>2 DEF CommitEdit
    <3>2. SameRow([y EXCEPT !.active = a], y)
      BY <1>1 DEF SameRow, Assignment, TypeOK
    <3>. HIDE DEF a
    <3>. QED
      BY <1>4, <3>1, <3>2
  <2>. QED
    BY <2>1, <2>2
<1>. QED
  BY <1>5, <1>6, <1>7, <1>8, <1>9, <1>10, <1>11, <1>12 DEF Commit

LEMMA VouchedCommit ==
    ASSUME Typed, VouchedBy, NEW r \in Requests, Commit(r)
    PROVE  VouchedBy'
<1>1. call' = call /\ view' = view /\ Saw(view[r], call[r])
  BY CommitFrame, InHand DEF Typed
<1>. DEFINE Right(x) ==
              LET c == call[x.vouched]
                  d == view[x.vouched]
              IN
              \/ c.op = "guest" /\ x.user = x.vouched /\ c.by = x.by /\ d.bot[x.bot] = x.by
              \/ c.op \in {"patch", "assign"} /\ Assignable(d, x.by, x.user, x.bot)
<1>2. SUFFICES ASSUME NEW x \in assigned', x.vouched # None PROVE Right(x)
  BY <1>1 DEF VouchedBy, Assignable, Exists
<1>3. CASE Inserts(r, x)
  BY <1>1, <1>3 DEF Inserts, Saw
<1>4. CASE Vouches(r, x)
  BY <1>1, <1>4 DEF Vouches, Saw
<1>5. ASSUME NEW y \in assigned, SameRow(x, y), x.vouched = y.vouched /\ x.by = y.by
      PROVE  Right(x)
  BY <1>2, <1>5 DEF VouchedBy, SameRow
<1>. QED
  BY <1>3, <1>4, <1>5, RowsStep DEF RowsEffect

LEMMA FirstCommit ==
    ASSUME Typed, AtFirst, NEW r \in Requests, Commit(r)
    PROVE  AtFirst'
<1>1. r # None /\ TypeOK /\ TypeOK' /\ Known /\ Known'
  BY TypedCommit, AccountsAssumption DEF Typed, People
<1>. SUFFICES ASSUME NEW x \in assigned', x.vouched = None, user'[x.user].role = "Guest",
                     wrote'[x.user].role = None, wrote'[x.user].parent = None, gave'[x.bot] = None
              PROVE  user'[x.user].parent = x.by /\ bot'[x.bot] = x.by
  BY DEF AtFirst
<1>2. PICK y \in assigned : SameRow(x, y) /\ x.vouched = y.vouched /\ x.by = y.by
  BY <1>1, RowsStep DEF RowsEffect, Inserts, Vouches
<1>3. x.user = y.user /\ x.bot = y.bot /\ x.user \in People /\ x.bot \in AllBots
  BY <1>1, <1>2 DEF SameRow, TypeOK, Assignment
<1>4. /\ user[x.user] # None /\ user'[x.user] # None
      /\ bot[x.bot] # None /\ bot'[x.bot] # None
  BY <1>1, <1>2, <1>3 DEF Known
<1>5. /\ user'[x.user].role = user[x.user].role /\ wrote'[x.user].role = wrote[x.user].role
      /\ user'[x.user].parent = user[x.user].parent
      /\ wrote'[x.user].parent = wrote[x.user].parent
  BY <1>1, <1>3, <1>4, UsersStep DEF UsersEffect
<1>6. bot'[x.bot] = bot[x.bot] /\ gave'[x.bot] = gave[x.bot]
  BY <1>1, <1>3, <1>4, BotsStep DEF BotsEffect
<1>. QED
  BY <1>2, <1>3, <1>5, <1>6 DEF AtFirst

LEMMA WrittenCommit ==
    ASSUME Typed, WrittenBy, NEW r \in Requests, Commit(r)
    PROVE  WrittenBy'
<1>1. /\ call' = call /\ before' = before /\ r \notin Committed /\ r # None
      /\ \A q \in Requests : before[q] \subseteq Committed
  BY CommitFrame, AccountsAssumption DEF Typed, Fits, People
<1>2. ASSUME NEW p \in People, user'[p] # None
      PROVE  /\ wrote'[p].role # None => call[wrote'[p].role].op \in Opening \cup {"role"}
             /\ wrote'[p].parent # None => call[wrote'[p].parent].op \in Opening \cup {"reassign"}
             /\ p \in Requests =>
                   /\ wrote'[p].parent \notin before[p] \cup {None}
                   /\ wrote'[p].role \notin before[p] \cup {None}
                   /\ wrote'[p].parent = p /\ call[p].op = "guest" =>
                         user'[p].parent = call[p].by
  <2>1. CASE user[p] = None
    <3>1. /\ p = r /\ call[r].op \in Opening /\ wrote'[p] = By(r)
          /\ user'[p].parent = IF call[r].op = "guest" THEN call[r].by ELSE None
      BY <1>2, <2>1, UsersStep DEF UsersEffect
    <3>. QED
      BY <1>1, <3>1 DEF By
  <2>2. CASE user[p] # None
    <3>1. /\ \/ wrote'[p].role = wrote[p].role
             \/ call[r].op = "role" /\ wrote'[p].role = r
          /\ \/ user'[p].parent = user[p].parent /\ wrote'[p].parent = wrote[p].parent
             \/ call[r].op = "reassign" /\ wrote'[p].parent = r
      BY <1>2, <2>2, UsersStep DEF UsersEffect
    <3>. QED
      BY <1>1, <2>2, <3>1 DEF WrittenBy
  <2>. QED
    BY <2>1, <2>2
<1>3. ASSUME NEW b \in AllBots, bot'[b] # None, gave'[b] # None
      PROVE  call[gave'[b]].op \in {"create_bot", "give_bot"}
  <2>1. \/ bot[b] # None /\ gave'[b] = gave[b]
        \/ gave'[b] = r /\ call[r].op \in {"create_bot", "give_bot"}
    BY <1>3, BotsStep DEF BotsEffect
  <2>. QED
    BY <1>3, <2>1 DEF WrittenBy
<1>. QED
  BY <1>1, <1>2, <1>3 DEF WrittenBy

LEMMA UnselectedCommit ==
    ASSUME Typed, DeletedBotsAreUnselected, NEW r \in Requests, Commit(r)
    PROVE  DeletedBotsAreUnselected'
<1>1. /\ call' = call /\ past' = [past EXCEPT ![r] = Committed] /\ r \notin Committed
      /\ r # None /\ TypeOK /\ TypeOK' /\ \A q \in Requests : past[q] \subseteq Committed
  BY CommitFrame, TypedCommit, AccountsAssumption DEF Typed, Fits, People
<1>. SUFFICES ASSUME NEW p \in People, user'[p] # None, user'[p].selected # None,
                     gone'[user'[p].selected] # None,
                     call[gone'[user'[p].selected]].op = "delete_bot"
              PROVE  wrote'[p].selected \notin past'[gone'[user'[p].selected]] \cup {None}
  BY <1>1 DEF DeletedBotsAreUnselected
<1>. DEFINE b == user'[p].selected
            d == gone'[b]
<1>2. b \in AllBots
  BY <1>1 DEF TypeOK, Account
<1>3. d \in Committed \/ d = r
  BY <1>1, <1>2, GoneStep DEF GoneEffect, Typed, Traced, Past
<1>4. r \notin past'[d]
  BY <1>1, <1>3 DEF TypeOK, Committed
<1>5. CASE wrote'[p].selected = r
  BY <1>1, <1>4, <1>5
<1>6. CASE wrote'[p].selected # r
  <2>1. user[p] # None
    BY <1>6, UsersStep DEF UsersEffect, By
  <2>2. b = user[p].selected /\ wrote'[p].selected = wrote[p].selected
    BY <1>6, <2>1, UsersStep DEF UsersEffect
  <2>3. CASE d = gone[b]
    <3>1. d \in Committed /\ past'[d] = past[d]
      BY <1>1, <1>2, <2>3 DEF Typed, Traced, Past, TypeOK, Committed
    <3>. HIDE DEF d, b
    <3>2. wrote[p].selected \notin past[d] \cup {None}
      BY <2>1, <2>2, <2>3 DEF DeletedBotsAreUnselected, d, b
    <3>. QED
      BY <2>2, <3>1, <3>2 DEF d, b
  <2>4. CASE d # gone[b]
    <3>1. call[r].op = "delete_bot" /\ b = call[r].bot /\ bot[b] # None
      BY <1>2, <2>4, GoneStep DEF GoneEffect
    <3>2. CommitDeleteBot(r)
      BY <3>1 DEF Commit, Commits, CommitRegister, CommitGuest, CommitUpdate, CommitRole,
         CommitPatch, CommitSelect, CommitDelete, CommitReassign, CommitAssign, CommitEdit,
         CommitUnassign, CommitRemove, CommitCreateBot, CommitGiveBot
    <3>3. user' = Unselected(b)
      BY <3>1, <3>2 DEF CommitDeleteBot
    <3>4. user'[p] = [user[p] EXCEPT !.selected = None]
      BY <2>1, <2>2, <3>3 DEF Unselected
    <3>5. user'[p].selected = None
      BY <1>1, <2>1, <3>4 DEF TypeOK, Account
    <3>. QED
      BY <3>5
  <2>. QED
    BY <2>3, <2>4
<1>. QED
  BY <1>5, <1>6

LEMMA SettledCommit ==
    ASSUME Typed, Settled, NEW r \in Requests, Commit(r)
    PROVE  Settled'
    BY MailsCommit, GoneCommit, PatchesCommit, MadeCommit, OneRowCommit, VouchedCommit,
       FirstCommit, WrittenCommit, UnselectedCommit DEF Settled

-----------------------------------------------------------------------------
(* The properties *)

Inv == Typed /\ AllRead /\ NeverPromoted /\ Settled

LEMMA InvNext ==
    ASSUME Inv, [Next]_vars
    PROVE  Inv'
<1>1. Typed'
  BY TypedNext DEF Inv
<1>2. ASSUME UNCHANGED vars PROVE (AllRead /\ NeverPromoted /\ Settled)'
  <2>1. (AllRead /\ NeverPromoted)'
    BY <1>2 DEF Inv, vars, tables, historyVars, AllRead, Read, NeverPromoted, Exists
  <2>2. Quiet
    BY <1>2 DEF vars, tables, historyVars, Quiet, Committed, AccountIds, BotIds
  <2>. QED
    BY <2>1, <2>2, SettledQuiet DEF Inv
<1>3. ASSUME NEW r \in Requests, NEW c \in Calls(assigned), Begin(r, c)
      PROVE  (AllRead /\ NeverPromoted /\ Settled)'
  <2>1. TypeOK /\ c \in Call
    BY CallsAreCalls DEF Inv, Typed
  <2>. QED
    BY <1>3, <2>1, ReadBegin, BeginIsQuiet, SettledQuiet DEF Inv
<1>4. ASSUME NEW r \in Requests, Commit(r)
      PROVE  (AllRead /\ NeverPromoted /\ Settled)'
  BY <1>4, ReadCommit, PromotedCommit, SettledCommit DEF Inv
<1>5. ASSUME NEW r \in Requests, Fail(r)
      PROVE  (AllRead /\ NeverPromoted /\ Settled)'
  BY <1>5, ReadFail, FailIsQuiet, SettledQuiet DEF Inv, Typed
<1>. QED
  BY <1>1, <1>2, <1>3, <1>4, <1>5 DEF Inv, Next

LEMMA Invariance == Spec => []Inv
<1>1. Init => Inv
  BY TypedInit, ReadInit, SettledInit DEF Inv
<1>. QED
  BY <1>1, InvNext, PTL DEF Spec

(* The writers that the history names have read, and found what they needed. *)
LEMMA Writer ==
    ASSUME Inv, NEW t \in Committed
    PROVE  /\ t \in Requests /\ pc[t] # "new"
           /\ call[t] \in Call /\ view[t] \in DB /\ Saw(view[t], call[t]) /\ Read(t)
<1>1. t \in Requests /\ pc[t] # "new"
  BY DEF Committed
<1>. QED
  BY <1>1, InHand DEF Inv, AllRead

(* Two accounts share a mail only if one has been updated to the mail of the *)
(* other or if the requests that wrote the two overlapped.                   *)
THEOREM MailsAreApart == Spec => []MailsClashOnlyByRace
<1>1. ASSUME Inv PROVE MailsClashOnlyByRace
  <2>. SUFFICES ASSUME NEW p \in People, NEW q \in People, p # q, user[p] # None, user[q] # None,
                       user[p].mail = user[q].mail, wrote[q].mail # None,
                       call[wrote[q].mail].op # "update",
                       wrote[p].mail \in before[wrote[q].mail] \cup {None}
                PROVE  FALSE
    BY DEF MailsClashOnlyByRace
  <2>. DEFINE t == wrote[q].mail
  <2>1. t \in Committed
    BY <1>1 DEF Inv, Typed, Traced, Past
  <2>2. call[t].op \in Opening /\ user[q].mail = call[t].mail
    BY <1>1 DEF Inv, Settled, MailsTaken
  <2>3. Read(t) /\ pc[t] # "new" /\ Saw(view[t], call[t])
    BY <1>1, <2>1, Writer
  <2>4. MailIsFree(view[t], call[t].mail)
    BY <2>2, <2>3 DEF Saw
  <2>5. Exists(view[t], p) /\ view[t].user[p].mail = user[p].mail
    BY <2>3 DEF Read
  <2>. QED
    BY <2>2, <2>4, <2>5 DEF MailIsFree
<1>. QED
  BY <1>1, Invariance, PTL

(* An account whose parent has been deleted got that parent from a request   *)
(* that the deletion could not see.                                          *)
THEOREM ChildrenAreSeen == Spec => []NoChildIsOverlooked
<1>1. ASSUME Inv PROVE NoChildIsOverlooked
  <2>. SUFFICES ASSUME NEW p \in People, user[p] # None, user[p].parent # None,
                       gone[user[p].parent] # None,
                       wrote[p].parent \in before[gone[user[p].parent]] \cup {None}
                PROVE  FALSE
    BY DEF NoChildIsOverlooked
  <2>. DEFINE i == user[p].parent
              d == gone[i]
  <2>1. i \in AccountIds /\ i \in People
    BY <1>1 DEF Inv, Typed, Known, TypeOK, Account
  <2>2. d \in Committed
    BY <1>1, <2>1 DEF Inv, Typed, Traced, Past
  <2>3. call[d].op = "delete" /\ call[d].user = i
    BY <1>1, <2>1 DEF Inv, Settled, GoneBy
  <2>4. Read(d) /\ pc[d] # "new" /\ Saw(view[d], call[d])
    BY <1>1, <2>2, Writer
  <2>5. Children(view[d], i) = {}
    BY <2>3, <2>4 DEF Saw
  <2>6. Exists(view[d], p) /\ view[d].user[p].parent = i
    BY <2>4 DEF Read
  <2>. QED
    BY <2>5, <2>6 DEF Children
<1>. QED
  BY <1>1, Invariance, PTL

(* Nobody is left with a deleted bot selected, but for those who selected it *)
(* when its deletion had committed.                                          *)
THEOREM SelectionsAreCleared == Spec => []DeletedBotsAreUnselected
<1>1. Inv => DeletedBotsAreUnselected
  BY DEF Inv, Settled
<1>. QED
  BY <1>1, Invariance, PTL

(* A pair has a second row only if the requests that inserted the two         *)
(* overlapped, or if one request inserted both, whose list names the bot more *)
(* than once.                                                                 *)
THEOREM PairsAreUnique == Spec => []PairsAreAssignedOnce
<1>1. ASSUME Inv PROVE PairsAreAssignedOnce
  <2>. SUFFICES ASSUME NEW x \in assigned, NEW y \in assigned, x.bot = y.bot, x.user = y.user,
                       x # y, y.made # None
                PROVE  \/ x.made # y.made /\ x.made \notin before[y.made] \cup {None}
                       \/ x.made = y.made /\ Repeats(call[y.made], y.bot)
    BY DEF PairsAreAssignedOnce
  <2>. DEFINE t == y.made
              c == call[t]
  <2>1. t \in Committed
    BY <1>1 DEF Inv, Typed, Traced, Past
  <2>2. Read(t) /\ pc[t] # "new" /\ t \in Requests /\ TypeOK
    BY <1>1, <2>1, Writer DEF Inv, Typed
  <2>3. CASE x.made # t
    <3>. SUFFICES ASSUME x.made \in before[t] \cup {None} PROVE FALSE
      BY <2>3
    <3>1. PICK z \in view[t].assigned : SameRow(x, z)
      BY <2>2 DEF Read
    <3>2. z.user # t
      BY <1>1, <2>2, <3>1 DEF Inv, Typed, Known
    <3>3. \/ c.op = "guest" /\ y.user = t
          \/ c.op = "patch" /\ c.user # None /\ c.bots # None /\ c.user = y.user
          \/ \A v \in view[t].assigned : ~(v.bot = y.bot /\ v.user = y.user)
      BY <1>1 DEF Inv, Settled, MadeBy
    <3>4. ~(c.op = "patch" /\ c.user # None /\ c.bots # None /\ c.user = y.user)
      BY <1>1, <2>1, <2>2 DEF Inv, Settled, PatchesReplace
    <3>. QED
      BY <3>1, <3>2, <3>3, <3>4 DEF SameRow
  <2>4. CASE x.made = t
    <3>1. x.copy # y.copy
      BY <1>1, <2>4 DEF Inv, Settled, OneRow, SameRow
    <3>2. x.copy \in 1..MaxRepeat /\ y.copy \in 1..MaxRepeat /\ y.bot \in AllBots
      BY <2>2 DEF TypeOK, Assignment
    <3>3. /\ \/ c.op = "guest" \/ (c.op = "patch" /\ c.bots # None)
             \/ c.op = "assign" /\ x.copy = 1 /\ y.copy = 1
          /\ c.op # "assign" => x.copy <= c.bots[y.bot] /\ y.copy <= c.bots[y.bot]
      BY <1>1, <2>4 DEF Inv, Settled, MadeBy
    <3>4. /\ c.op = "guest" \/ (c.op = "patch" /\ c.bots # None)
          /\ x.copy <= c.bots[y.bot] /\ y.copy <= c.bots[y.bot]
      BY <3>1, <3>3
    <3>5. c.bots[y.bot] \in Nat
      <4>1. c \in Call
        BY <1>1, <2>2, InHand DEF Inv
      <4>2. c.bots \in Lists
        BY <3>4, <4>1, CallTypes
      <4>. QED
        BY <3>2, <4>2, AccountsAssumption DEF Lists
    <3>6. c.bots[y.bot] > 1
      <4>1. x.copy \in Nat /\ y.copy \in Nat /\ x.copy >= 1 /\ y.copy >= 1
        BY <3>2, AccountsAssumption
      <4>. QED
        BY <3>1, <3>4, <3>5, <4>1
    <3>. QED
      BY <2>4, <3>4, <3>6 DEF Repeats
  <2>. QED
    BY <2>3, <2>4
<1>. QED
  BY <1>1, Invariance, PTL

(* A guest has a bot that is not its parent's, or not from its parent, only  *)
(* if the guest was moved, its role changed or the bot given away by a       *)
(* request that the one who assigned the bot could not see.                  *)
THEOREM GuestsHaveTheirParentsBots == Spec => []GuestsGetTheirParentsBots
<1>1. ASSUME Inv PROVE GuestsGetTheirParentsBots
  <2>. DEFINE known(x) == {None, x.vouched} \cup (IF x.vouched = None THEN {} ELSE before[x.vouched])
  <2>1. SUFFICES ASSUME NEW x \in assigned, user[x.user].role = "Guest",
                        wrote[x.user].role \in known(x), wrote[x.user].parent \in known(x),
                        gave[x.bot] \in known(x)
                 PROVE  user[x.user].parent = x.by /\ bot[x.bot] = x.by
    BY DEF GuestsGetTheirParentsBots
  <2>. DEFINE p == x.user
              b == x.bot
              w == x.vouched
  <2>2. /\ p \in People /\ b \in AllBots /\ user[p] # None /\ bot[b] # None
    BY <1>1 DEF Inv, Typed, TypeOK, Assignment, Known
  <2>3. CASE w = None
    BY <1>1, <2>1, <2>3 DEF Inv, Settled, AtFirst
  <2>4. CASE w # None
    <3>. DEFINE old == before[w] \cup {None}
    <3>1. w \in Committed
      BY <1>1, <2>4 DEF Inv, Typed, Traced, Past
    <3>2. Read(w) /\ pc[w] # "new" /\ w \in Requests
      BY <1>1, <3>1, Writer
    <3>3. /\ wrote[p].role \in old \cup {w} /\ wrote[p].parent \in old \cup {w}
          /\ gave[b] \in old \cup {w}
      BY <2>1, <2>4
    <3>4. \/ call[w].op = "guest" /\ p = w /\ call[w].by = x.by /\ view[w].bot[b] = x.by
          \/ call[w].op \in {"patch", "assign"} /\ Assignable(view[w], x.by, p, b)
      BY <1>1, <2>4 DEF Inv, Settled, VouchedBy
    <3>5. WrittenBy
      BY <1>1 DEF Inv, Settled
    <3>6. gave[b] \in old
      <4>1. gave[b] = w => call[w].op \in {"create_bot", "give_bot"}
        BY <2>2, <2>4, <3>5 DEF WrittenBy
      <4>. QED
        BY <3>3, <3>4, <4>1
    <3>7. bot[b] = view[w].bot[b]
      BY <2>2, <3>2, <3>6 DEF Read
    <3>8. CASE call[w].op = "guest" /\ p = w /\ call[w].by = x.by /\ view[w].bot[b] = x.by
      <4>1. wrote[p].parent = p
        BY <2>2, <3>2, <3>3, <3>5, <3>8 DEF WrittenBy
      <4>. QED
        BY <2>2, <3>2, <3>5, <3>7, <3>8, <4>1 DEF WrittenBy
    <3>9. CASE call[w].op \in {"patch", "assign"} /\ Assignable(view[w], x.by, p, b)
      <4>1. /\ wrote[p].role = w => call[w].op \in Opening \cup {"role"}
            /\ wrote[p].parent = w => call[w].op \in Opening \cup {"reassign"}
        BY <2>2, <2>4, <3>5 DEF WrittenBy
      <4>2. wrote[p].role \in old /\ wrote[p].parent \in old
        BY <3>3, <3>9, <4>1 DEF Opening
      <4>3. view[w].user[p].role = user[p].role /\ view[w].user[p].parent = user[p].parent
        BY <2>2, <3>2, <4>2 DEF Read
      <4>. QED
        BY <2>1, <3>7, <3>9, <4>3 DEF Assignable
    <3>. QED
      BY <3>4, <3>8, <3>9
  <2>. QED
    BY <2>3, <2>4
<1>. QED
  BY <1>1, Invariance, PTL

(* An Admin keeps its role, its mail and its account unless it asks itself   *)
(* for another, and only a startup makes one.                                *)
THEOREM AdminsAnswerToThemselves == Spec => AdminsAreTheirOwn
<1>. DEFINE Keeps(p) ==
              user[p] # None /\ user[p].role = "Admin" =>
                  \/ user'[p] # None /\ user'[p].role = "Admin" /\ user'[p].mail = user[p].mail
                  \/ \E r \in Requests :
                        pc[r] = "working" /\ pc'[r] = "done"
                        /\ call[r].op \in {"update", "role", "delete"} /\ call[r].by = p
            Becomes(p) ==
              user'[p] # None /\ user'[p].role = "Admin" =>
                  \/ user[p] # None /\ user[p].role = "Admin"
                  \/ p \in Requests /\ call[p].op = "startup"
<1>1. ASSUME Inv, [Next]_vars, NEW p \in People PROVE Keeps(p) /\ Becomes(p)
  <2>1. CASE user' = user
    BY <2>1
  <2>2. CASE user' # user
    <3>1. PICK r \in Requests : Commit(r)
      BY <1>1, <2>2 DEF Next, Begin, Fail, vars, tables
    <3>2. /\ pc[r] = "working" /\ pc'[r] = "done" /\ Typed /\ NeverPromoted
          /\ call[r] \in Call /\ Saw(view[r], call[r]) /\ UsersEffect(r)
      BY <1>1, <3>1, CommitFrame, InHand, UsersStep DEF Inv, Typed, TypeOK
    <3>3. Keeps(p)
      <4>1. SUFFICES ASSUME user[p] # None, user[p].role = "Admin",
                            call[r].op \in {"update", "role", "delete"}, call[r].user = p
                     PROVE  call[r].by = p
        BY <3>2 DEF UsersEffect
      <4>2. ~MayActOn(view[r], call[r].by, p) \/ call[r].by = p
        BY <3>2, <4>1 DEF NeverPromoted, MayActOn
      <4>. QED
        BY <3>2, <4>1, <4>2 DEF Saw
    <3>4. Becomes(p)
      <4>1. CASE user[p] = None
        BY <3>2, <4>1 DEF UsersEffect
      <4>2. CASE user[p] # None
        <5>1. user'[p] # None =>
                 user'[p].role = user[p].role
                 \/ (call[r].op = "role" /\ user'[p].role = call[r].role)
          BY <3>2, <4>2 DEF UsersEffect
        <5>. QED
          BY <3>2, <4>2, <5>1, CallTypes
      <4>. QED
        BY <4>1, <4>2
    <3>. QED
      BY <3>3, <3>4
  <2>. QED
    BY <2>1, <2>2
<1>2. ASSUME Inv, [Next]_vars
      PROVE  [\A p \in People :
                 LET IsAdmin(u) == u # None /\ u.role = "Admin" IN
                 /\ IsAdmin(user[p]) =>
                       \/ user'[p] # None /\ user'[p].role = "Admin" /\ user'[p].mail = user[p].mail
                       \/ \E r \in Requests :
                             pc[r] = "working" /\ pc'[r] = "done"
                             /\ call[r].op \in {"update", "role", "delete"} /\ call[r].by = p
                 /\ IsAdmin(user'[p]) =>
                       IsAdmin(user[p]) \/ (p \in Requests /\ call[p].op = "startup")]_vars
  BY <1>1, <1>2
<1>. QED
  BY <1>2, Invariance, PTL DEF Spec, AdminsAreTheirOwn

=============================================================================
