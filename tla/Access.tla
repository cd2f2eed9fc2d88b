------------------------------- MODULE Access -------------------------------
(***************************************************************************)
(* Getting in and out: password, demo and magic link logins, access        *)
(* tokens and their revocation, and the account operations they race with  *)
(* (AuthenticationService, MagicLinkService, dependencies/auth.py,         *)
(* UserAdminService).                                                      *)
(*                                                                         *)
(* Requests is the set of requests served at one time, by any of the       *)
(* workers; one that ends leaves its place to another.  Each has its own   *)
(* database session and is split at its awaits; workers share nothing but  *)
(* the database.  An exception anywhere rolls back and ends the request.   *)
(***************************************************************************)
EXTENDS Naturals

CONSTANTS
    Users, Links, Requests,
    Tokens,      \* bound: the jtis that may be issued
    Passwords,
    DemoUser,    \* DEMO_ACCOUNT_EMAIL's account
    TokenLife,   \* JWT_ACCESS_TOKEN_EXPIRES
    MaxTime,     \* bound: the clock stops here
    Ops,         \* the operations requests may ask for, in AllOps
    None, Deleted

AllOps == {"redeem", "login", "demo", "change", "use", "logout"}

ASSUME AccessAssumption ==
    /\ TokenLife \in Nat
    /\ MaxTime \in Nat
    /\ DemoUser \in Users
    /\ Ops \subseteq AllOps

VARIABLES
    now,        \* the clock
    account,    \* account[u]: the user_account row of u, or None
    link,       \* link[l]: the magic_link row of l, None or Deleted
    rowLock,    \* rowLock[l]: the request whose UPDATE of l is uncommitted
    revoked,    \* the jtis in revoked_token
    token,      \* token[t]: the exp claim of the token with jti t, or None
    call,       \* call[r]: what r asks for and what it has read, or None
    pc,         \* pc[r]: the step r is at
    grants,     \* history: grants[l] counts the tokens issued through l
    chosen,     \* history: chosen[u] is the password u last chose
    loggedOut   \* history: the tokens whose logout was committed

dbVars == <<account, link, rowLock, revoked>>
localVars == <<call, pc>>
historyVars == <<grants, chosen, loggedOut>>
vars == <<now, dbVars, token, localVars, historyVars>>

-----------------------------------------------------------------------------
Account == [active : BOOLEAN, password : Passwords, legacy : BOOLEAN]
Link == [user : Users, expires : Nat, used : BOOLEAN]
\* What a request has in hand.  at: the time it computed as its now; row:
\* the account it read; seen: whether the SELECT of its merge found the jti.
RedeemCall == [op : {"redeem"}, link : Links, at : Nat]
LoginCall == [op : {"login"}, user : Users, password : Passwords, row : Account]
ChangeCall == [op : {"change"}, user : Users, old : Passwords, new : Passwords,
               row : Account]
TokenCall == [op : {"use", "logout"}, jti : Tokens]
LogoutCall == [op : {"logout"}, jti : Tokens, at : Nat, seen : BOOLEAN]
Call == RedeemCall \cup LoginCall \cup ChangeCall \cup TokenCall \cup LogoutCall
Steps == {"idle", "consume", "commit", "account", "verify", "rehash", "store",
          "check", "accepted", "purge", "insert"}

ASSUME NoneAssumption ==
    /\ None \notin Account \cup Link \cup Call \cup Requests \cup Nat \cup {Deleted}
    /\ Deleted \notin Link

TypeOK ==
    /\ now \in Nat
    /\ account \in [Users -> Account \cup {None}]
    /\ link \in [Links -> Link \cup {None, Deleted}]
    /\ rowLock \in [Links -> Requests \cup {None}]
    /\ revoked \in SUBSET Tokens
    /\ token \in [Tokens -> Nat \cup {None}]
    /\ call \in [Requests -> Call \cup {None}]
    /\ pc \in [Requests -> Steps]
    /\ grants \in [Links -> Nat]
    /\ chosen \in [Users -> Passwords]
    /\ loggedOut \in SUBSET Tokens

Init ==
    /\ now = 0
    /\ account \in [Users -> Account]
    /\ link = [l \in Links |-> None]
    /\ rowLock = [l \in Links |-> None]
    /\ revoked = {}
    /\ token = [t \in Tokens |-> None]
    /\ call = [r \in Requests |-> None]
    /\ pc = [r \in Requests |-> "idle"]
    /\ grants = [l \in Links |-> 0]
    /\ chosen = [u \in Users |-> account[u].password]
    /\ loggedOut = {}

IsLink(l) == link[l] \notin {None, Deleted}

Starts(r, c, step) ==
    /\ pc[r] = "idle"
    /\ c.op \in Ops
    /\ call' = [call EXCEPT ![r] = c]
    /\ pc' = [pc EXCEPT ![r] = step]

Goes(r, step) ==
    /\ pc' = [pc EXCEPT ![r] = step]
    /\ UNCHANGED call

Ends(r) ==
    /\ pc' = [pc EXCEPT ![r] = "idle"]
    /\ call' = [call EXCEPT ![r] = None]

\* Mutant of Issue: exp lies in the past.
IssueBackdated ==
    \E t \in Tokens :
        /\ token[t] = None
        /\ token' = [token EXCEPT ![t] = now - TokenLife]

(* issue_access_token; the jti is a new uuid4 *)
Issue ==
    \E t \in Tokens :
        /\ token[t] = None
        /\ token' = [token EXCEPT ![t] = now + TokenLife]

-----------------------------------------------------------------------------
(* Magic links *)

(* MagicLinkService.create *)
CreateLink(l, u, e) ==
    /\ link[l] = None
    /\ account[u] # None
    /\ account[u].active
    /\ e > now
    /\ link' = [link EXCEPT ![l] = [user |-> u, expires |-> e, used |-> FALSE]]
    /\ UNCHANGED <<now, account, rowLock, revoked, token, localVars, historyVars>>

(* MagicLinkService.redeem up to its first await: its now is computed      *)
(* before the UPDATE, which may have to wait for the row.                  *)
Redeem(r, l) ==
    /\ link[l] # None
    /\ Starts(r, [op |-> "redeem", link |-> l, at |-> now], "consume")
    /\ UNCHANGED <<now, dbVars, token, historyVars>>

\* Mutant of Usable: used_at is not looked at.
UsableTwice(l, t) ==
    /\ IsLink(l)
    /\ link[l].expires > t

Usable(l, t) ==
    /\ IsLink(l)
    /\ ~link[l].used
    /\ link[l].expires > t

(* MagicLinkRepository.consume: one conditional UPDATE.  It waits while    *)
(* another transaction holds the row, then sees what that one committed.   *)
Consume(r) ==
    LET l == call[r].link
    IN  /\ pc[r] = "consume"
        /\ rowLock[l] = None
        /\ \/ /\ Usable(l, call[r].at)
              /\ rowLock' = [rowLock EXCEPT ![l] = r]
              /\ Goes(r, "commit")
           \/ /\ ~Usable(l, call[r].at)
              /\ UNCHANGED rowLock
              /\ Ends(r)
        /\ UNCHANGED <<now, account, link, revoked, token, historyVars>>

CommitRedeem(r) ==
    LET l == call[r].link
    IN  /\ pc[r] = "commit"
        /\ link' = [link EXCEPT ![l].used = TRUE]
        /\ rowLock' = [rowLock EXCEPT ![l] = None]
        /\ Goes(r, "account")
        /\ UNCHANGED <<now, account, revoked, token, historyVars>>

(* The account is read after the link is burnt.  A link that is gone by    *)
(* now went with its account.                                              *)
ReadAccount(r) ==
    LET l == call[r].link
        mayLogIn == /\ IsLink(l)
                    /\ account[link[l].user] # None
                    /\ account[link[l].user].active
    IN  /\ pc[r] = "account"
        /\ \/ mayLogIn /\ Issue /\ grants' = [grants EXCEPT ![l] = @ + 1]
           \/ ~mayLogIn /\ UNCHANGED <<token, grants>>
        /\ Ends(r)
        /\ UNCHANGED <<now, dbVars, chosen, loggedOut>>

-----------------------------------------------------------------------------
(* Passwords *)

(* AuthenticationService.login reads the account and refuses an inactive   *)
(* one before the password is verified.                                    *)
ReadLogin(r, u, p) ==
    /\ account[u] # None
    /\ account[u].active
    /\ Starts(r, [op |-> "login", user |-> u, password |-> p, row |-> account[u]],
              "verify")
    /\ UNCHANGED <<now, dbVars, token, historyVars>>

(* verify_password on the row that was read, in the thread pool *)
VerifyLogin(r) ==
    LET match == call[r].row.password = call[r].password
    IN  /\ pc[r] = "verify"
        /\ call[r].op = "login"
        /\ \/ ~match /\ Ends(r) /\ UNCHANGED token
           \/ match /\ call[r].row.legacy /\ Goes(r, "rehash") /\ UNCHANGED token
           \/ match /\ ~call[r].row.legacy /\ Issue /\ Ends(r)
        /\ UNCHANGED <<now, dbVars, historyVars>>

(* The password of the request, hashed anew, replaces the stored one. *)
Rehash(r) ==
    LET u == call[r].user
    IN  /\ pc[r] = "rehash"
        /\ account[u] # None
        /\ account' = [account EXCEPT ![u].password = call[r].password,
                                      ![u].legacy = FALSE]
        /\ Issue
        /\ Ends(r)
        /\ UNCHANGED <<now, link, rowLock, revoked, historyVars>>

(* AuthenticationService.login_demo has a single await. *)
LoginDemo ==
    /\ "demo" \in Ops
    /\ account[DemoUser] # None
    /\ account[DemoUser].active
    /\ Issue
    /\ UNCHANGED <<now, dbVars, localVars, historyVars>>

(* change_password of the router, which refuses a password that stays as it  *)
(* is, and of UserAdminService                                               *)
ReadChange(r, u, old, new) ==
    /\ old # new
    /\ account[u] # None
    /\ Starts(r, [op |-> "change", user |-> u, old |-> old, new |-> new,
                  row |-> account[u]], "verify")
    /\ UNCHANGED <<now, dbVars, token, historyVars>>

VerifyChange(r) ==
    LET match == call[r].row.password = call[r].old
    IN  /\ pc[r] = "verify"
        /\ call[r].op = "change"
        /\ \/ match /\ Goes(r, "store")
           \/ ~match /\ Ends(r)
        /\ UNCHANGED <<now, dbVars, token, historyVars>>

StoreChange(r) ==
    LET u == call[r].user
    IN  /\ pc[r] = "store"
        /\ account[u] # None
        /\ account' = [account EXCEPT ![u].password = call[r].new,
                                      ![u].legacy = FALSE]
        /\ chosen' = [chosen EXCEPT ![u] = call[r].new]
        /\ Ends(r)
        /\ UNCHANGED <<now, link, rowLock, revoked, token,
                       grants, loggedOut>>

-----------------------------------------------------------------------------
(* Access tokens *)

(* get_current_claims: decode_access_token, which refuses an expired token *)
(* on the spot, up to the SELECT of is_revoked.                            *)
Decode(r, op, t) ==
    /\ token[t] # None
    /\ token[t] > now
    /\ Starts(r, [op |-> op, jti |-> t], "check")
    /\ UNCHANGED <<now, dbVars, token, historyVars>>

CheckRevoked(r) ==
    /\ pc[r] = "check"
    /\ \/ call[r].jti \in revoked /\ Ends(r)
       \/ /\ call[r].jti \notin revoked
          /\ Goes(r, IF call[r].op = "use" THEN "accepted" ELSE "purge")
    /\ UNCHANGED <<now, dbVars, token, historyVars>>

(* The handler behind the guard is done. *)
Respond(r) ==
    /\ pc[r] = "accepted"
    /\ Ends(r)
    /\ UNCHANGED <<now, dbVars, token, historyVars>>

Expired(time) == {t \in revoked : token[t] < time}

(* AuthenticationService.logout: its now, the DELETE of purge_expired and  *)
(* the SELECT of merge, which sees that DELETE.                            *)
Purge(r) ==
    LET t == call[r].jti
    IN  /\ pc[r] = "purge"
        /\ call' = [call EXCEPT ![r] = [op |-> "logout", jti |-> t, at |-> now,
                                        seen |-> t \in revoked \ Expired(now)]]
        /\ pc' = [pc EXCEPT ![r] = "insert"]
        /\ UNCHANGED <<now, dbVars, token, historyVars>>

\* Mutant of CommitLogout: a token of the very second is purged as well.
CommitLogoutPurgingEarly(r) ==
    LET t == call[r].jti
        kept == revoked \ Expired(call[r].at + 1)
    IN  /\ pc[r] = "insert"
        /\ call[r].seen <=> t \in kept
        /\ revoked' = kept \cup {t}
        /\ loggedOut' = loggedOut \cup {t}
        /\ Ends(r)
        /\ UNCHANGED <<now, account, link, rowLock, token,
                       grants, chosen>>

(* The rest of merge and the commit: the INSERT of the row, or an UPDATE   *)
(* of the one found.  A row that has come since the SELECT makes the       *)
(* INSERT fail on its key, one that has gone the UPDATE: both are Fail(r). *)
CommitLogout(r) ==
    LET t == call[r].jti
        kept == revoked \ Expired(call[r].at)
    IN  /\ pc[r] = "insert"
        /\ call[r].seen <=> t \in kept
        /\ revoked' = kept \cup {t}
        /\ loggedOut' = loggedOut \cup {t}
        /\ Ends(r)
        /\ UNCHANGED <<now, account, link, rowLock, token,
                       grants, chosen>>

-----------------------------------------------------------------------------
(* Administration, failures and time *)

(* UserAdminService.activate_user and deactivate_user *)
SetActive(u, active) ==
    /\ account[u] # None
    /\ account' = [account EXCEPT ![u].active = active]
    /\ UNCHANGED <<now, link, rowLock, revoked, token, localVars, historyVars>>

LinksOf(u) == {l \in Links : IsLink(l) /\ link[l].user = u}

(* UserAdminService.delete: the database deletes the account's links with  *)
(* it, once no other transaction holds them.                               *)
DeleteUser(u) ==
    /\ account[u] # None
    /\ \A l \in LinksOf(u) : rowLock[l] = None
    /\ account' = [account EXCEPT ![u] = None]
    /\ link' = [l \in Links |-> IF l \in LinksOf(u) THEN Deleted ELSE link[l]]
    /\ UNCHANGED <<now, rowLock, revoked, token, localVars, historyVars>>

(* A database error, the client or the worker going away: rolled back. *)
Fail(r) ==
    /\ pc[r] # "idle"
    /\ rowLock' = [l \in Links |-> IF rowLock[l] = r THEN None ELSE rowLock[l]]
    /\ Ends(r)
    /\ UNCHANGED <<now, account, link, revoked, token, historyVars>>

Tick ==
    /\ now < MaxTime
    /\ now' = now + 1
    /\ UNCHANGED <<dbVars, token, localVars, historyVars>>

Start(r) ==
    \/ \E l \in Links : Redeem(r, l)
    \/ \E u \in Users, p \in Passwords : ReadLogin(r, u, p)
    \/ \E u \in Users, old, new \in Passwords : ReadChange(r, u, old, new)
    \/ \E op \in {"use", "logout"}, t \in Tokens : Decode(r, op, t)

Advance(r) ==
    \/ Consume(r) \/ CommitRedeem(r) \/ ReadAccount(r)
    \/ VerifyLogin(r) \/ Rehash(r) \/ VerifyChange(r) \/ StoreChange(r)
    \/ CheckRevoked(r) \/ Respond(r) \/ Purge(r) \/ CommitLogout(r)
    \/ Fail(r)

Administer ==
    \/ \E l \in Links, u \in Users, e \in 1..MaxTime : CreateLink(l, u, e)
    \/ \E u \in Users : SetActive(u, TRUE) \/ SetActive(u, FALSE) \/ DeleteUser(u)

Next ==
    \/ \E r \in Requests : Start(r) \/ Advance(r)
    \/ LoginDemo
    \/ Administer
    \/ Tick

Spec == Init /\ [][Next]_vars

-----------------------------------------------------------------------------
(* Properties *)

(* "single-use": whatever redemptions, failures, deactivations and         *)
(* deletions interleave, each link lives the life OneTimeLink gives it.    *)
LinkStatus(l) ==
    IF link[l] = None THEN "none"
    ELSE IF link[l] = Deleted THEN "void"
    ELSE IF link[l].used THEN "redeemed" ELSE "unused"

OneTime == INSTANCE OneTimeLink
    WITH status <- [l \in Links |-> LinkStatus(l)], logins <- grants

LinksAreOneTime == OneTime!Spec

(* "Logout revokes a token by its jti": once a logout is committed, no     *)
(* worker lets the token through the guard again, whatever concurrent      *)
(* logouts purge, unless the check ran on after the token had expired.     *)
LogoutIsFinal ==
    [][\A r \in Requests :
         (pc[r] = "check" /\ pc'[r] \in {"accepted", "purge"})
           => call[r].jti \notin loggedOut \/ token[call[r].jti] < now]_vars

(* AuthenticationService.login: "Upgrade hashes written by an older        *)
(* scheme": the password itself stays the one the user last chose.         *)
PasswordKept ==
    \A u \in Users : account[u] # None => account[u].password = chosen[u]
=============================================================================
