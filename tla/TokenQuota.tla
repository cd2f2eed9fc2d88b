----------------------------- MODULE TokenQuota -----------------------------
(***************************************************************************)
(* The token quota: what chat requests are let through                     *)
(* (ChatFacade._enforce_token_quota, TokenTrackingService) and what their  *)
(* answers are billed (TokenCountingCallback), while accounts are moved    *)
(* and deleted.                                                            *)
(*                                                                         *)
(* A guest spends the quota of its parent.  The quota is read before the   *)
(* answer is asked for and the tokens are recorded when it has ended, in   *)
(* separate transactions, and the billed account is computed anew: for a   *)
(* plain answer in the transaction that reads the prompt, once the         *)
(* question is stored, for a streamed one when the answer has ended.       *)
(* Which bots a user may ask is left to module Accounts, the messages to   *)
(* module Conversation.                                                    *)
(***************************************************************************)
EXTENDS Naturals, FiniteSets

CONSTANTS
    Users,
    Admins,     \* the users whose role is Admin
    Requests,   \* the chat requests served at one time
    Limit,      \* TOKEN_LIMIT_PER_USER_24H; 0 is unlimited
    MaxCost,    \* bound: the tokens of one question and its answer
    MaxFree,    \* bound: the answers an account is billed without a look at it
    MaxFaults,  \* bound: quota reads that fail and children moved
    None

ASSUME QuotaAssumption ==
    /\ Admins \subseteq Users
    /\ IsFiniteSet(Requests)
    /\ Limit \in Nat
    /\ MaxCost \in Nat \ {0}
    /\ MaxFree \in Nat
    /\ MaxFaults \in Nat
    /\ None \notin Users

VARIABLES
    present,    \* the users that have a row in user_account
    parent,     \* parent[u]: the parent_id of u, None for -1
    used,       \* used[u]: the tokens u was billed in the last 24 hours
    call,       \* call[r]: what r asks for and what it has read, or None
    pc,         \* pc[r]: the step r is at
    faults,     \* how many of the MaxFaults have happened
    unchecked   \* history: unchecked[u] counts the answers billed to u that its
                \* quota did not let through, since it last let one through

vars == <<present, parent, used, call, pc, faults, unchecked>>
accounts == <<present, parent>>

-----------------------------------------------------------------------------
\* What a request has in hand.  payer: the account its answer is billed to,
\* once it is fixed.  History: against, the account whose quota let it through
\* (None when no quota applied or it was not read), and moved, whether its user
\* got another parent before the payer was fixed.
Call == [user : Users, payer : Users \cup {None}, against : Users \cup {None},
         moved : BOOLEAN]

ASSUME NoneAssumption == None \notin Call

\* checked: the quota let it through; streaming: its answer is on the way and
\* nobody is told to pay yet; bound: the payer is fixed.
Steps == {"idle", "checked", "streaming", "bound"}

TypeOK ==
    /\ present \in SUBSET Users
    /\ parent \in [Users -> Users \cup {None}]
    /\ used \in [Users -> Nat]
    /\ call \in [Requests -> Call \cup {None}]
    /\ pc \in [Requests -> Steps]
    /\ faults \in 0..MaxFaults
    /\ unchecked \in [Users -> Nat]

\* parent_id has no foreign key: a parent may be gone, and reassign_children
\* lets an account be its own parent and gives a parent to an Admin.
Init ==
    /\ present \in SUBSET Users
    /\ parent \in [Users -> Users \cup {None}]
    /\ used = [u \in Users |-> 0]
    /\ call = [r \in Requests |-> None]
    /\ pc = [r \in Requests |-> "idle"]
    /\ faults = 0
    /\ unchecked = [u \in Users |-> 0]

-----------------------------------------------------------------------------
(* The two places that tell which account pays for u. *)
Payer(u) == IF parent[u] = None THEN u ELSE parent[u]

(* Admins spend without limit, whoever is billed; their guests do not. *)
Limited(u) == Limit > 0 /\ u \notin Admins

\* Mutant of Refused: the request that would reach the limit is let through.
RefusedAbove(u, tokens) == Limited(u) /\ tokens > Limit

(* get_token_quota: exceeded, when the account of u was billed tokens *)
Refused(u, tokens) == Limited(u) /\ tokens >= Limit

Begins(r, u, account) ==
    /\ pc[r] = "idle" /\ u \in present
    /\ pc' = [pc EXCEPT ![r] = "checked"]
    /\ call' = [call EXCEPT ![r] = [user |-> u, payer |-> None,
                                    against |-> account, moved |-> FALSE]]
    /\ unchecked' = [a \in Users |-> IF a = account THEN 0 ELSE unchecked[a]]

(* _load_user, _authorize: the quota is read and leaves room *)
Check(r, u) ==
    /\ ~Refused(u, used[Payer(u)])
    /\ Begins(r, u, IF Limited(u) THEN Payer(u) ELSE None)
    /\ UNCHANGED <<accounts, used, faults>>

(* the same when the sum cannot be read: an SQLAlchemyError counts as 0 *)
CheckBlind(r, u) ==
    /\ faults < MaxFaults
    /\ ~Refused(u, 0)
    /\ Begins(r, u, None)
    /\ faults' = faults + 1
    /\ UNCHANGED <<accounts, used>>

(* The account to bill is fixed.  When the user is gone there is none: the
   exception is swallowed, nothing is recorded. *)
BindPayer(r) ==
    /\ pc' = [pc EXCEPT ![r] = "bound"]
    /\ call' = [call EXCEPT ![r].payer =
                   IF call[r].user \in present THEN Payer(call[r].user) ELSE None]
    /\ UNCHANGED <<accounts, used, faults, unchecked>>

(* ask, welcome: the question is stored and the prompt read.  The transaction
   this opens stays open until the usage is recorded: the parent that
   _record_usage reads in it is the one of now. *)
Ask(r) == pc[r] = "checked" /\ BindPayer(r)

(* stream, stream_welcome: the question is stored and the prompt read, and the
   answer is sent in a session of its own, with no transaction open *)
Stream(r) ==
    /\ pc[r] = "checked"
    /\ pc' = [pc EXCEPT ![r] = "streaming"]
    /\ UNCHANGED <<accounts, used, call, faults, unchecked>>

(* The streamed answer has ended.  _record_usage reads the user, and opens the
   transaction in which it records: the parent is the one of now. *)
EndStream(r) == pc[r] = "streaming" /\ BindPayer(r)

Ends(r) ==
    /\ pc' = [pc EXCEPT ![r] = "idle"]
    /\ call' = [call EXCEPT ![r] = None]

Bill(a, cost, checked) ==
    /\ checked \/ unchecked[a] < MaxFree
    /\ used' = [used EXCEPT ![a] = @ + cost]
    /\ unchecked' = [unchecked EXCEPT ![a] = IF checked THEN @ ELSE @ + 1]

\* Mutant of Record: the parent is read anew when the usage is recorded.
RecordLate(r) ==
    /\ pc[r] = "bound"
    /\ LET a == Payer(call[r].user) IN
        IF a \in present
        THEN \E cost \in 1..MaxCost : Bill(a, cost, call[r].against = a)
        ELSE UNCHANGED <<used, unchecked>>
    /\ Ends(r)
    /\ UNCHANGED <<accounts, faults>>

(* on_llm_end, _record_usage, record_token_usage.  The foreign key of user_id
   refuses a billed account that is gone: rollback, False, nothing recorded. *)
Record(r) ==
    /\ pc[r] = "bound"
    /\ IF call[r].payer \in present
       THEN \E cost \in 1..MaxCost :
                Bill(call[r].payer, cost, call[r].against = call[r].payer)
       ELSE UNCHANGED <<used, unchecked>>
    /\ Ends(r)
    /\ UNCHANGED <<accounts, faults>>

(* The model fails, the client goes away before the answer ends (on_llm_end is
   not called), no usage comes with it or it cannot be stored. *)
Lose(r) ==
    /\ pc[r] # "idle"
    /\ Ends(r)
    /\ UNCHANGED <<accounts, used, faults, unchecked>>

\* Mutant of Age: the sum is taken without its since, over all there ever was.
AgeNever(u) == used[u] = 0 /\ UNCHANGED vars

(* Rows of u leave the 24 hours that sum_total_tokens looks at. *)
Age(u) ==
    /\ used[u] > 0
    /\ \E n \in 0..(used[u] - 1) : used' = [used EXCEPT ![u] = n]
    /\ UNCHANGED <<accounts, call, pc, faults, unchecked>>

(* reassign_children: every child of old gets the parent new.  With -1 for old
   that is every account without a parent, Admins and new itself included. *)
Reassign(old, new) ==
    /\ faults < MaxFaults
    /\ new \in present
    /\ LET children == {u \in present : parent[u] = old} IN
        /\ parent' = [u \in Users |-> IF u \in children THEN new ELSE parent[u]]
        /\ call' = [r \in Requests |->
                      IF pc[r] \in {"checked", "streaming"} /\ call[r].user \in children
                      THEN [call[r] EXCEPT !.moved = TRUE] ELSE call[r]]
    /\ faults' = faults + 1
    /\ UNCHANGED <<present, used, pc, unchecked>>

\* Mutant of Delete: what the account was billed is left undefined.
DeleteTwice(u) ==
    /\ u \in present
    /\ \A v \in present : parent[v] # u
    /\ present' = present \ {u}
    /\ used' = [v \in Users \ {u} |-> used[v]]
    /\ UNCHANGED <<parent, call, pc, faults, unchecked>>

(* delete: its usage rows go with a user, who must have no children *)
Delete(u) ==
    /\ u \in present
    /\ \A v \in present : parent[v] # u
    /\ present' = present \ {u}
    /\ used' = [used EXCEPT ![u] = 0]
    /\ UNCHANGED <<parent, call, pc, faults, unchecked>>

Next ==
    \/ \E r \in Requests, u \in Users : Check(r, u) \/ CheckBlind(r, u)
    \/ \E r \in Requests : Ask(r) \/ Stream(r) \/ EndStream(r)
    \/ \E r \in Requests : Record(r) \/ Lose(r)
    \/ \E u \in Users : Age(u) \/ Delete(u)
    \/ \E old \in Users \cup {None}, new \in Users : Reassign(old, new)

\* Time passes: a row is a day old some day.
Fairness == \A u \in Users : WF_vars(Age(u))

Spec == Init /\ [][Next]_vars
FairSpec == Spec /\ Fairness

-----------------------------------------------------------------------------
(* The cap is soft by a known amount.  However requests overlap, whoever's     *)
(* guests they are, an account is never billed more than one answer for each   *)
(* request served at once above the last token of its limit, and one for each  *)
(* answer billed to it that its quota did not let through (an Admin's, one     *)
(* after a failed read, one of a guest moved on the way).                      *)
OvershootBounded ==
    \A u \in Users :
        Limit > 0 =>
            used[u] <= (Limit - 1) + (Cardinality(Requests) + unchecked[u]) * MaxCost

(* An account is billed for an answer only if its own quota let the question   *)
(* through, unless no quota applied, it could not be read, or the user was     *)
(* moved on the way: before its question was stored, or, when the answer is    *)
(* streamed, before it had ended.  A plain answer under way is billed to the   *)
(* account it was begun for, wherever its user is moved meanwhile.             *)
BilledWhereChecked ==
    [][\A u \in Users :
        used'[u] > used[u] =>
            \E r \in Requests :
                /\ pc[r] = "bound" /\ pc'[r] = "idle"
                /\ call[r].payer = u
                /\ call[r].against \in {u, None} \/ call[r].moved]_vars

(* A limit that is reached does not stay reached: while it is, no request of   *)
(* the account or of its guests gets through, and the window moves on.  Not so *)
(* for an account that an Admin's was put below: that one spends on.           *)
QuotaRecovers ==
    \A u \in Users \ Admins :
        (Limit > 0 /\ used[u] >= Limit)
            ~> (used[u] < Limit \/ \E a \in Admins : parent[a] = u)

=============================================================================
