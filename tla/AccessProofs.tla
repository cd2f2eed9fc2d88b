---------------------------- MODULE AccessProofs ----------------------------
(***************************************************************************)
(* Proofs about module Access, for any sets of accounts, links, requests   *)
(* and tokens, any token life and any clock.  The inductive invariant is   *)
(* AccessInv: types (TypeOK, CallOK), who holds and who has spent a link   *)
(* (LinkInv), and why a logged-out token stays refused (RevokedInv).       *)
(***************************************************************************)
EXTENDS Access, TLAPS

(* What a request has in hand at each of its steps. *)
CallOK ==
    \A r \in Requests :
        /\ pc[r] \in {"consume", "commit", "account"} => call[r] \in RedeemCall
        /\ pc[r] = "verify" => call[r] \in LoginCall \cup ChangeCall
        /\ pc[r] = "rehash" => call[r] \in LoginCall
        /\ pc[r] = "store" => call[r] \in ChangeCall
        /\ pc[r] \in {"check", "accepted", "purge"} => call[r] \in TokenCall
        /\ pc[r] = "insert" => call[r] \in LogoutCall

Typed == TypeOK /\ CallOK

(* An unused link has given no login; the row of a link is locked exactly  *)
(* by the request that is about to commit its use; after that commit one   *)
(* request, and no other, may still log in with it.                        *)
LinkInv ==
    /\ \A l \in Links : link[l] = None => grants[l] = 0
    /\ \A l \in Links : IsLink(l) /\ ~link[l].used => grants[l] = 0
    /\ \A l \in Links : rowLock[l] # None =>
          pc[rowLock[l]] = "commit" /\ call[rowLock[l]].link = l
    /\ \A r \in Requests : pc[r] \in {"consume", "commit", "account"} =>
          link[call[r].link] # None
    /\ \A r \in Requests : pc[r] = "commit" =>
          /\ rowLock[call[r].link] = r
          /\ IsLink(call[r].link)
          /\ ~link[call[r].link].used
    /\ \A r \in Requests : pc[r] = "account" =>
          /\ IsLink(call[r].link) => link[call[r].link].used
          /\ grants[call[r].link] = 0
          /\ \A q \in Requests \ {r} :
                pc[q] = "account" => call[q].link # call[r].link

(* A logged-out token is in revoked_token until it has expired. *)
RevokedInv ==
    /\ \A t \in loggedOut : token[t] # None /\ (t \in revoked \/ token[t] < now)
    /\ \A t \in revoked : token[t] # None
    /\ \A r \in Requests : pc[r] \in {"check", "accepted", "purge", "insert"} =>
          token[call[r].jti] # None
    /\ \A r \in Requests : pc[r] = "insert" => call[r].at <= now

AccessInv == Typed /\ LinkInv /\ RevokedInv

-----------------------------------------------------------------------------
(* Types *)

(* A jti is issued at most once, and its exp claim never changes. *)
LEMMA IssueType ==
    ASSUME TypeOK, Issue
    PROVE  /\ token' \in [Tokens -> Nat \cup {None}]
           /\ \A t \in Tokens : token[t] # None => token'[t] = token[t]
           /\ \A t \in Tokens : token[t] # None => token'[t] # None
BY AccessAssumption, NoneAssumption DEF TypeOK, Issue

LEMMA TypedInit == Init => Typed
BY AccessAssumption, NoneAssumption
   DEF Init, Typed, TypeOK, CallOK, Account, Steps

(* A request that starts has in hand what its first step needs. *)
LEMMA TypedStart ==
    ASSUME Typed, NEW r \in Requests, Start(r)
    PROVE  Typed'
<1> USE DEF Typed, TypeOK, CallOK, vars, dbVars, localVars, historyVars, Steps, Starts
<1>1. CASE \E l \in Links : Redeem(r, l)
  <2>1. PICK l \in Links : Redeem(r, l)
    BY <1>1
  <2>2. [op |-> "redeem", link |-> l, at |-> now] \in RedeemCall
    BY DEF RedeemCall
  <2>. QED
    BY <2>1, <2>2 DEF Redeem, Call
<1>2. CASE \E u \in Users, p \in Passwords : ReadLogin(r, u, p)
  <2>1. PICK u \in Users, p \in Passwords : ReadLogin(r, u, p)
    BY <1>2
  <2>2. account[u] \in Account
    BY <2>1 DEF ReadLogin
  <2>3. [op |-> "login", user |-> u, password |-> p, row |-> account[u]] \in LoginCall
    BY <2>2 DEF LoginCall
  <2>. QED
    BY <2>1, <2>3 DEF ReadLogin, Call
<1>3. CASE \E u \in Users, old, new \in Passwords : ReadChange(r, u, old, new)
  <2>1. PICK u \in Users, old \in Passwords, new \in Passwords : ReadChange(r, u, old, new)
    BY <1>3
  <2>2. account[u] \in Account
    BY <2>1 DEF ReadChange
  <2>3. [op |-> "change", user |-> u, old |-> old, new |-> new, row |-> account[u]]
           \in ChangeCall
    BY <2>2 DEF ChangeCall
  <2>. QED
    BY <2>1, <2>3 DEF ReadChange, Call
<1>4. CASE \E op \in {"use", "logout"}, t \in Tokens : Decode(r, op, t)
  <2>1. PICK op \in {"use", "logout"}, t \in Tokens : Decode(r, op, t)
    BY <1>4
  <2>2. [op |-> op, jti |-> t] \in TokenCall
    BY DEF TokenCall
  <2>. QED
    BY <2>1, <2>2 DEF Decode, Call
<1>. QED
  BY <1>1, <1>2, <1>3, <1>4 DEF Start

(* The steps of a request whose call stays in place or is dropped. *)
LEMMA TypedAdvance ==
    ASSUME Typed, LinkInv, NEW r \in Requests, Advance(r)
    PROVE  Typed'
<1> USE NoneAssumption
    DEF Typed, TypeOK, CallOK, vars, dbVars, localVars, historyVars, Steps, Goes, Ends
<1>1. CASE Consume(r)
  BY <1>1 DEF Consume
<1>2. CASE CommitRedeem(r)
  <2>1. call[r].link \in Links /\ link[call[r].link] \in Link
    BY <1>2 DEF CommitRedeem, LinkInv, IsLink, RedeemCall
  <2>2. link' \in [Links -> Link \cup {None, Deleted}]
    BY <1>2, <2>1 DEF CommitRedeem, Link
  <2>. QED
    BY <1>2, <2>2 DEF CommitRedeem
<1>3. CASE ReadAccount(r)
  <2>1. token' \in [Tokens -> Nat \cup {None}]
    BY <1>3, IssueType DEF ReadAccount
  <2>2. grants' \in [Links -> Nat]
    BY <1>3 DEF ReadAccount
  <2>. QED
    BY <1>3, <2>1, <2>2 DEF ReadAccount
<1>4. CASE VerifyLogin(r)
  <2>1. token' \in [Tokens -> Nat \cup {None}]
    BY <1>4, IssueType DEF VerifyLogin
  <2>2. call[r] \in LoginCall
    BY <1>4 DEF VerifyLogin, LoginCall, ChangeCall
  <2>. QED
    BY <1>4, <2>1, <2>2 DEF VerifyLogin
<1>5. CASE Rehash(r)
  <2>1. token' \in [Tokens -> Nat \cup {None}]
    BY <1>5, IssueType DEF Rehash
  <2>2. call[r] \in LoginCall
    BY <1>5 DEF Rehash
  <2>3. account' \in [Users -> Account \cup {None}]
    BY <1>5, <2>2 DEF Rehash, LoginCall, Account
  <2>. QED
    BY <1>5, <2>1, <2>3 DEF Rehash
<1>6. CASE VerifyChange(r)
  <2>1. call[r] \in ChangeCall
    BY <1>6 DEF VerifyChange, LoginCall, ChangeCall
  <2>. QED
    BY <1>6, <2>1 DEF VerifyChange
<1>7. CASE StoreChange(r)
  <2>1. call[r] \in ChangeCall
    BY <1>7 DEF StoreChange
  <2>2. account' \in [Users -> Account \cup {None}]
    BY <1>7, <2>1 DEF StoreChange, ChangeCall, Account
  <2>3. chosen' \in [Users -> Passwords]
    BY <1>7, <2>1 DEF StoreChange, ChangeCall
  <2>. QED
    BY <1>7, <2>2, <2>3 DEF StoreChange
<1>8. CASE CheckRevoked(r)
  BY <1>8 DEF CheckRevoked
<1>9. CASE Respond(r)
  BY <1>9 DEF Respond
<1>10. CASE Purge(r)
  <2>1. call[r] \in TokenCall
    BY <1>10 DEF Purge
  <2>2. [op |-> "logout", jti |-> call[r].jti, at |-> now,
         seen |-> call[r].jti \in revoked \ Expired(now)] \in LogoutCall
    BY <2>1 DEF TokenCall, LogoutCall
  <2>. QED
    BY <1>10, <2>2 DEF Purge, Call
<1>11. CASE CommitLogout(r)
  <2>1. call[r].jti \in Tokens
    BY <1>11 DEF CommitLogout, LogoutCall
  <2>. QED
    BY <1>11, <2>1 DEF CommitLogout
<1>12. CASE Fail(r)
  BY <1>12 DEF Fail
<1>. QED
  BY <1>1, <1>2, <1>3, <1>4, <1>5, <1>6, <1>7, <1>8, <1>9, <1>10, <1>11, <1>12
     DEF Advance

LEMMA TypedStep == Typed /\ LinkInv /\ [Next]_vars => Typed'
<1> SUFFICES ASSUME Typed, LinkInv, [Next]_vars
             PROVE  Typed'
  OBVIOUS
<1>1. CASE \E r \in Requests : Start(r) \/ Advance(r)
  BY <1>1, TypedStart, TypedAdvance
<1>2. CASE LoginDemo
  BY <1>2, IssueType
     DEF LoginDemo, Typed, TypeOK, CallOK, dbVars, localVars, historyVars
<1>3. CASE Administer
  <2>1. CASE \E l \in Links, u \in Users, e \in 1..MaxTime : CreateLink(l, u, e)
    BY <2>1, AccessAssumption
       DEF CreateLink, Typed, TypeOK, CallOK, localVars, historyVars, Link
  <2>2. CASE \E u \in Users : SetActive(u, TRUE) \/ SetActive(u, FALSE)
    <3>1. PICK u \in Users, b \in BOOLEAN : SetActive(u, b)
      BY <2>2
    <3>2. account' \in [Users -> Account \cup {None}]
      BY <3>1 DEF SetActive, Typed, TypeOK, Account
    <3>. QED
      BY <3>1, <3>2 DEF SetActive, Typed, TypeOK, CallOK, localVars, historyVars
  <2>3. CASE \E u \in Users : DeleteUser(u)
    BY <2>3 DEF DeleteUser, Typed, TypeOK, CallOK, localVars, historyVars
  <2>. QED
    BY <1>3, <2>1, <2>2, <2>3 DEF Administer
<1>4. CASE Tick
  BY <1>4 DEF Tick, Typed, TypeOK, CallOK, dbVars, localVars, historyVars
<1>5. CASE UNCHANGED vars
  BY <1>5 DEF vars, Typed, TypeOK, CallOK, dbVars, localVars, historyVars
<1>. QED
  BY <1>1, <1>2, <1>3, <1>4, <1>5 DEF Next
-----------------------------------------------------------------------------
(* Links *)

LEMMA LinkInit == Init => LinkInv
BY NoneAssumption DEF Init, LinkInv, IsLink

(* Every action that leaves links and locks alone and moves no request     *)
(* into a step of a redemption.                                            *)
LEMMA LinkUnchanged ==
    ASSUME Typed, LinkInv, UNCHANGED <<link, rowLock, grants>>,
           \A r \in Requests : \/ pc'[r] = pc[r] /\ call'[r] = call[r]
                               \/ pc'[r] \notin {"consume", "commit", "account"}
                                  /\ pc[r] # "commit"
    PROVE  LinkInv'
BY DEF LinkInv, IsLink, Typed, TypeOK

LEMMA LinkStart ==
    ASSUME Typed, LinkInv, NEW r \in Requests, Start(r)
    PROVE  LinkInv'
<1> USE DEF Starts, dbVars, historyVars
<1>1. CASE \E l \in Links : Redeem(r, l)
  <2>1. PICK l \in Links : Redeem(r, l)
    BY <1>1
  <2>2. /\ pc[r] = "idle" /\ pc' = [pc EXCEPT ![r] = "consume"]
        /\ call' = [call EXCEPT ![r] = [op |-> "redeem", link |-> l, at |-> now]]
        /\ link[l] # None
        /\ UNCHANGED <<link, rowLock, grants>>
    BY <2>1 DEF Redeem
  <2>3. pc'[r] = "consume" /\ call'[r].link = l
    BY <2>2 DEF Typed, TypeOK
  <2>4. \A q \in Requests \ {r} : pc'[q] = pc[q] /\ call'[q] = call[q]
    BY <2>2 DEF Typed, TypeOK
  <2>. QED
    BY <2>2, <2>3, <2>4, NoneAssumption DEF LinkInv, IsLink, Typed, TypeOK
<1>2. CASE ~ \E l \in Links : Redeem(r, l)
  <2>1. UNCHANGED <<link, rowLock, grants>> /\ pc[r] = "idle"
    BY <1>2 DEF Start, ReadLogin, ReadChange, Decode
  <2>2. \E step \in {"verify", "check"} : pc' = [pc EXCEPT ![r] = step]
    BY <1>2 DEF Start, ReadLogin, ReadChange, Decode
  <2>3. \A q \in Requests \ {r} : pc'[q] = pc[q] /\ call'[q] = call[q]
    BY <1>2 DEF Start, ReadLogin, ReadChange, Decode, Typed, TypeOK
  <2>. QED
    BY <2>1, <2>2, <2>3, LinkUnchanged DEF Typed, TypeOK
<1>. QED
  BY <1>1, <1>2

LEMMA LinkAdvance ==
    ASSUME Typed, LinkInv, NEW r \in Requests, Advance(r)
    PROVE  LinkInv'
<1> DEFINE l == call[r].link
<1> USE NoneAssumption DEF Goes, Ends, dbVars, historyVars
<1>0. \A q \in Requests \ {r} : pc'[q] = pc[q] /\ call'[q] = call[q]
  BY DEF Advance, Consume, CommitRedeem, ReadAccount, VerifyLogin, Rehash,
         VerifyChange, StoreChange, CheckRevoked, Respond, Purge, CommitLogout,
         Fail, Typed, TypeOK
<1>1. CASE Consume(r)
  <2>1. l \in Links /\ rowLock[l] = None
    BY <1>1 DEF Consume, Typed, CallOK, RedeemCall
  <2>2. UNCHANGED <<link, grants>>
    BY <1>1 DEF Consume
  <2>3. CASE Usable(l, call[r].at)
    <3>1. pc'[r] = "commit" /\ call'[r] = call[r] /\ rowLock' = [rowLock EXCEPT ![l] = r]
      BY <1>1, <2>3 DEF Consume, Typed, TypeOK
    <3>. QED
      BY <1>0, <1>1, <2>1, <2>2, <2>3, <3>1
         DEF Consume, Usable, LinkInv, IsLink, Typed, TypeOK
  <2>4. CASE ~Usable(l, call[r].at)
    <3>1. pc'[r] = "idle" /\ UNCHANGED <<link, rowLock, grants>> /\ pc[r] # "commit"
      BY <1>1, <2>4 DEF Consume, Typed, TypeOK
    <3>. QED
      BY <1>0, <3>1, LinkUnchanged
  <2>. QED
    BY <2>3, <2>4
<1>2. CASE CommitRedeem(r)
  <2>1. /\ l \in Links /\ link[l] \in Link /\ ~link[l].used
        /\ rowLock[l] = r /\ grants[l] = 0
    BY <1>2 DEF CommitRedeem, LinkInv, IsLink, Typed, TypeOK, CallOK, RedeemCall
  <2>2. pc'[r] = "account" /\ call'[r] = call[r] /\ grants' = grants
    BY <1>2 DEF CommitRedeem, Typed, TypeOK
  <2>3. /\ link'[l] \in Link /\ link'[l].used
        /\ \A k \in Links \ {l} : link'[k] = link[k]
    BY <1>2, <2>1 DEF CommitRedeem, Typed, TypeOK, Link
  <2>4. rowLock'[l] = None /\ \A k \in Links \ {l} : rowLock'[k] = rowLock[k]
    BY <1>2, <2>1 DEF CommitRedeem, Typed, TypeOK
  <2>5. \A q \in Requests \ {r} : pc[q] = "commit" => call[q].link # l
    BY <2>1 DEF LinkInv
  <2>6. \A q \in Requests \ {r} : pc[q] = "account" => call[q].link # l
    BY <2>1 DEF LinkInv, IsLink
  <2>7. \A q \in Requests : pc[q] \in {"consume", "commit", "account"} =>
            call[q].link \in Links
    BY DEF Typed, CallOK, RedeemCall
  <2>. QED
    BY <1>0, <2>1, <2>2, <2>3, <2>4, <2>5, <2>6, <2>7 DEF LinkInv, IsLink, Typed, TypeOK
<1>3. CASE ReadAccount(r)
  <2>1. /\ l \in Links /\ grants[l] = 0 /\ link[l] # None
        /\ IsLink(l) => link[l].used
        /\ \A q \in Requests \ {r} : pc[q] = "account" => call[q].link # l
    BY <1>3 DEF ReadAccount, LinkInv, Typed, CallOK, RedeemCall
  <2>2. /\ pc'[r] = "idle" /\ UNCHANGED <<link, rowLock>>
        /\ \A k \in Links \ {l} : grants'[k] = grants[k]
    BY <1>3 DEF ReadAccount, Typed, TypeOK
  <2>3. \A q \in Requests : pc[q] \in {"consume", "commit", "account"} =>
            call[q].link \in Links
    BY DEF Typed, CallOK, RedeemCall
  <2>4. \A k \in Links : link'[k] = None => grants'[k] = 0
    BY <2>1, <2>2 DEF LinkInv
  <2>5. \A k \in Links : IsLink(k)' /\ ~link'[k].used => grants'[k] = 0
    BY <2>1, <2>2 DEF LinkInv, IsLink
  <2>6. \A k \in Links : rowLock'[k] # None =>
            pc'[rowLock'[k]] = "commit" /\ call'[rowLock'[k]].link = k
    BY <1>0, <1>3, <2>2 DEF ReadAccount, LinkInv, Typed, TypeOK
  <2>7. \A q \in Requests \ {r} : pc[q] = "account" => grants'[call[q].link] = 0
    BY <2>1, <2>2, <2>3 DEF LinkInv
  <2>8. \A q \in Requests : pc'[q] \in {"consume", "commit", "account"} =>
            pc'[q] = pc[q] /\ call'[q] = call[q] /\ q # r
    BY <1>0, <2>2
  <2>. QED
    BY <2>2, <2>4, <2>5, <2>6, <2>7, <2>8 DEF LinkInv, IsLink
<1>4. CASE Fail(r)
  <2>1. pc'[r] = "idle" /\ UNCHANGED <<link, grants>>
    BY <1>4 DEF Fail, Typed, TypeOK
  <2>2. \A k \in Links : rowLock'[k] = IF rowLock[k] = r THEN None ELSE rowLock[k]
    BY <1>4 DEF Fail
  <2>3. \A q \in Requests : pc[q] \in {"consume", "commit", "account"} =>
            call[q].link \in Links
    BY DEF Typed, CallOK, RedeemCall
  <2>. QED
    BY <1>0, <2>1, <2>2, <2>3 DEF LinkInv, IsLink, Typed, TypeOK
<1>5. CASE \/ VerifyLogin(r) \/ Rehash(r) \/ VerifyChange(r) \/ StoreChange(r)
           \/ CheckRevoked(r) \/ Respond(r) \/ Purge(r) \/ CommitLogout(r)
  <2>1. UNCHANGED <<link, rowLock, grants>> /\ pc[r] # "commit"
    BY <1>5 DEF VerifyLogin, Rehash, VerifyChange, StoreChange, CheckRevoked,
                Respond, Purge, CommitLogout
  <2>2. pc'[r] \notin {"consume", "commit", "account"}
    BY <1>5 DEF VerifyLogin, Rehash, VerifyChange, StoreChange, CheckRevoked,
                Respond, Purge, CommitLogout, Typed, TypeOK
  <2>. QED
    BY <1>0, <2>1, <2>2, LinkUnchanged
<1>. QED
  BY <1>1, <1>2, <1>3, <1>4, <1>5 DEF Advance

LEMMA LinkStep == Typed /\ LinkInv /\ [Next]_vars => LinkInv'
<1> SUFFICES ASSUME Typed, LinkInv, [Next]_vars
             PROVE  LinkInv'
  OBVIOUS
<1>1. CASE \E r \in Requests : Start(r) \/ Advance(r)
  BY <1>1, LinkStart, LinkAdvance
<1>2. CASE LoginDemo \/ Tick \/ UNCHANGED vars
  <2>1. UNCHANGED <<link, rowLock, grants, pc, call>>
    BY <1>2 DEF LoginDemo, Tick, vars, dbVars, localVars, historyVars
  <2>. QED
    BY <2>1, LinkUnchanged
<1>3. CASE Administer
  <2>1. CASE \E k \in Links, u \in Users, e \in 1..MaxTime : CreateLink(k, u, e)
    <3>1. PICK k \in Links, u \in Users, e \in 1..MaxTime : CreateLink(k, u, e)
      BY <2>1
    <3>2. /\ link[k] = None
          /\ link' = [link EXCEPT ![k] = [user |-> u, expires |-> e, used |-> FALSE]]
          /\ UNCHANGED <<rowLock, grants, pc, call>>
      BY <3>1 DEF CreateLink, localVars, historyVars
    <3>3. \A q \in Requests : pc[q] \in {"consume", "commit", "account"} =>
              call[q].link \in Links \ {k}
      BY <3>2 DEF LinkInv, Typed, CallOK, RedeemCall
    <3>4. \A j \in Links \ {k} : link'[j] = link[j]
      BY <3>2 DEF Typed, TypeOK
    <3>5. grants[k] = 0
      BY <3>2 DEF LinkInv
    <3>. QED
      BY <3>2, <3>3, <3>4, <3>5 DEF LinkInv, IsLink, Typed, TypeOK
  <2>2. CASE \E u \in Users : SetActive(u, TRUE) \/ SetActive(u, FALSE)
    <3>1. UNCHANGED <<link, rowLock, grants, pc, call>>
      BY <2>2 DEF SetActive, localVars, historyVars
    <3>. QED
      BY <3>1, LinkUnchanged
  <2>3. CASE \E u \in Users : DeleteUser(u)
    <3>1. PICK u \in Users : DeleteUser(u)
      BY <2>3
    <3>2. /\ \A k \in LinksOf(u) : rowLock[k] = None
          /\ link' = [k \in Links |-> IF k \in LinksOf(u) THEN Deleted ELSE link[k]]
          /\ UNCHANGED <<rowLock, grants, pc, call>>
      BY <3>1 DEF DeleteUser, localVars, historyVars
    <3>3. \A q \in Requests : pc[q] \in {"consume", "commit", "account"} =>
              call[q].link \in Links
      BY DEF Typed, CallOK, RedeemCall
    <3>4. \A q \in Requests : pc[q] = "commit" => call[q].link \notin LinksOf(u)
      BY <3>2, NoneAssumption DEF LinkInv
    <3>. QED
      BY <3>2, <3>3, <3>4, NoneAssumption DEF LinkInv, IsLink, LinksOf, Typed, TypeOK
  <2>. QED
    BY <1>3, <2>1, <2>2, <2>3 DEF Administer
<1>. QED
  BY <1>1, <1>2, <1>3 DEF Next
-----------------------------------------------------------------------------
(* Tokens *)

LEMMA RevokedInit == Init => RevokedInv
BY DEF Init, RevokedInv

(* Every action but a committed logout: revoked_token stays, tokens are at *)
(* most issued, the clock at most advances, and no request comes to the    *)
(* steps of the guard without a token.                                     *)
LEMMA RevokedUnchanged ==
    ASSUME Typed, RevokedInv, UNCHANGED <<revoked, loggedOut>>,
           now' \in Nat, now <= now',
           \A t \in Tokens : token[t] # None => token'[t] = token[t],
           \A r \in Requests :
               \/ pc'[r] = pc[r] /\ call'[r] = call[r]
               \/ pc'[r] \notin {"check", "accepted", "purge", "insert"}
    PROVE  RevokedInv'
<1>1. \A r \in Requests : pc[r] \in {"check", "accepted", "purge", "insert"} =>
          call[r].jti \in Tokens
  BY DEF Typed, CallOK, TokenCall, LogoutCall
<1>2. \A r \in Requests : pc[r] = "insert" => call[r].at \in Nat
  BY DEF Typed, CallOK, LogoutCall
<1>3. \A t \in loggedOut \cup revoked : t \in Tokens /\ token[t] \in Nat
  BY DEF Typed, TypeOK, RevokedInv
<1>. QED
  BY <1>1, <1>2, <1>3 DEF RevokedInv, Typed, TypeOK

LEMMA RevokedStep == Typed /\ RevokedInv /\ [Next]_vars => RevokedInv'
<1> SUFFICES ASSUME Typed, RevokedInv, [Next]_vars
             PROVE  RevokedInv'
  OBVIOUS
<1>1. now \in Nat
  BY DEF Typed, TypeOK
<1>2. ASSUME NEW r \in Requests, Start(r)
      PROVE  RevokedInv'
  <2>1. UNCHANGED <<now, revoked, loggedOut, token>>
    BY <1>2 DEF Start, Redeem, ReadLogin, ReadChange, Decode, dbVars, historyVars
  <2>2. \A q \in Requests \ {r} : pc'[q] = pc[q] /\ call'[q] = call[q]
    BY <1>2 DEF Start, Starts, Redeem, ReadLogin, ReadChange, Decode, Typed, TypeOK
  <2>3. CASE \E op \in {"use", "logout"}, t \in Tokens : Decode(r, op, t)
    <3>1. PICK op \in {"use", "logout"}, t \in Tokens : Decode(r, op, t)
      BY <2>3
    <3>2. pc'[r] = "check" /\ call'[r].jti = t /\ token[t] # None
      BY <3>1 DEF Decode, Starts, Typed, TypeOK
    <3>. QED
      BY <2>1, <2>2, <3>2 DEF RevokedInv
  <2>4. CASE pc'[r] \in {"consume", "verify"}
    BY <1>1, <2>1, <2>2, <2>4, RevokedUnchanged
  <2>. QED
    BY <1>2, <2>3, <2>4
       DEF Start, Starts, Redeem, ReadLogin, ReadChange, Typed, TypeOK
<1>3. ASSUME NEW r \in Requests, Advance(r)
      PROVE  RevokedInv'
  <2> USE <1>3 DEF Goes, Ends, dbVars, historyVars
  <2>0. \A q \in Requests \ {r} : pc'[q] = pc[q] /\ call'[q] = call[q]
    BY DEF Advance, Consume, CommitRedeem, ReadAccount, VerifyLogin, Rehash,
           VerifyChange, StoreChange, CheckRevoked, Respond, Purge, CommitLogout,
           Fail, Typed, TypeOK
  <2>1. CASE \/ Consume(r) \/ CommitRedeem(r) \/ ReadAccount(r) \/ VerifyLogin(r)
             \/ Rehash(r) \/ VerifyChange(r) \/ StoreChange(r) \/ Respond(r) \/ Fail(r)
    <3>1. UNCHANGED <<now, revoked, loggedOut>>
      BY <2>1 DEF Consume, CommitRedeem, ReadAccount, VerifyLogin, Rehash,
                  VerifyChange, StoreChange, Respond, Fail
    <3>2. pc'[r] \notin {"check", "accepted", "purge", "insert"}
      BY <2>1 DEF Consume, CommitRedeem, ReadAccount, VerifyLogin, Rehash,
                  VerifyChange, StoreChange, Respond, Fail, Typed, TypeOK
    <3>3. UNCHANGED token \/ Issue
      BY <2>1 DEF Consume, CommitRedeem, ReadAccount, VerifyLogin, Rehash,
                  VerifyChange, StoreChange, Respond, Fail
    <3>4. \A t \in Tokens : token[t] # None => token'[t] = token[t]
      BY <3>3, IssueType DEF Typed
    <3>. QED
      BY <1>1, <2>0, <3>1, <3>2, <3>4, RevokedUnchanged
  <2>2. CASE CheckRevoked(r)
    <3>1. UNCHANGED <<now, revoked, loggedOut, token>>
      BY <2>2 DEF CheckRevoked
    <3>2. /\ pc[r] = "check"
          /\ pc'[r] \in {"accepted", "purge"} => call'[r] = call[r]
          /\ pc'[r] \in {"idle", "accepted", "purge"}
      BY <2>2 DEF CheckRevoked, Typed, TypeOK
    <3>. QED
      BY <2>0, <3>1, <3>2 DEF RevokedInv
  <2>3. CASE Purge(r)
    <3>1. UNCHANGED <<now, revoked, loggedOut, token>>
      BY <2>3 DEF Purge
    <3>2. /\ pc[r] = "purge" /\ pc'[r] = "insert"
          /\ call'[r].jti = call[r].jti /\ call'[r].at = now
      BY <2>3 DEF Purge, Typed, TypeOK
    <3>. QED
      BY <1>1, <2>0, <3>1, <3>2 DEF RevokedInv
  <2>4. CASE CommitLogout(r)
    <3> DEFINE t == call[r].jti
    <3>1. /\ pc[r] = "insert" /\ pc'[r] = "idle" /\ UNCHANGED <<now, token>>
          /\ revoked' = (revoked \ Expired(call[r].at)) \cup {t}
          /\ loggedOut' = loggedOut \cup {t}
      BY <2>4 DEF CommitLogout, Typed, TypeOK
    <3>2. token[t] # None /\ call[r].at <= now
      BY <3>1 DEF RevokedInv
    <3>3. call[r].at \in Nat
      BY <3>1 DEF Typed, CallOK, LogoutCall
    <3>4. \A x \in revoked : token[x] \in Nat
      BY DEF RevokedInv, Typed, TypeOK
    <3>5. \A x \in Expired(call[r].at) : token[x] < now
      BY <1>1, <3>2, <3>3, <3>4 DEF Expired
    <3>6. \A x \in loggedOut' : token[x] # None /\ (x \in revoked' \/ token[x] < now)
      BY <3>1, <3>2, <3>5 DEF RevokedInv
    <3>7. \A x \in revoked' : token[x] # None
      BY <3>1, <3>2 DEF RevokedInv
    <3>. QED
      BY <2>0, <3>1, <3>6, <3>7 DEF RevokedInv
  <2>. QED
    BY <2>1, <2>2, <2>3, <2>4 DEF Advance
<1>4. CASE LoginDemo \/ Administer \/ Tick \/ UNCHANGED vars
  <2>1. UNCHANGED <<revoked, loggedOut, pc, call>>
    BY <1>4 DEF LoginDemo, Administer, Tick, vars, dbVars, localVars, historyVars,
                CreateLink, SetActive, DeleteUser
  <2>2. now' \in Nat /\ now <= now'
    BY <1>1, <1>4 DEF LoginDemo, Administer, Tick, vars, CreateLink, SetActive, DeleteUser
  <2>3. UNCHANGED token \/ Issue
    BY <1>4 DEF LoginDemo, Administer, Tick, vars, CreateLink, SetActive, DeleteUser
  <2>4. \A t \in Tokens : token[t] # None => token'[t] = token[t]
    BY <2>3, IssueType DEF Typed
  <2>. QED
    BY <2>1, <2>2, <2>4, RevokedUnchanged
<1>. QED
  BY <1>2, <1>3, <1>4 DEF Next

-----------------------------------------------------------------------------
(* The guarantees *)

(* The invariant the guarantees follow from: every reachable state is well *)
(* typed, its links are locked and spent as LinkInv says and its revoked   *)
(* tokens kept as RevokedInv says.                                         *)
THEOREM AccessInvariant == Spec => []AccessInv
<1>1. Init => AccessInv
  BY TypedInit, LinkInit, RevokedInit DEF AccessInv
<1>2. AccessInv /\ [Next]_vars => AccessInv'
  BY TypedStep, LinkStep, RevokedStep DEF AccessInv
<1>. QED
  BY <1>1, <1>2, PTL DEF Spec

(* Every variable keeps its type. *)
THEOREM AccessTypes == Spec => []TypeOK
<1>1. AccessInv => TypeOK
  BY DEF AccessInv, Typed
<1>. QED
  BY <1>1, AccessInvariant, PTL

(* The guard of dependencies/auth.py: a token whose logout is committed is *)
(* let through only by a check that runs on after the token has expired,   *)
(* whatever other logouts have purged from revoked_token by then.          *)
THEOREM LogoutFinal == Spec => LogoutIsFinal
<1>1. ASSUME AccessInv, [Next]_vars, NEW r \in Requests,
             pc[r] = "check", pc'[r] \in {"accepted", "purge"}
      PROVE  call[r].jti \notin loggedOut \/ token[call[r].jti] < now
  <2>1. CheckRevoked(r)
    <3>1. ~UNCHANGED pc
      BY <1>1 DEF AccessInv, Typed, TypeOK
    <3>2. PICK q \in Requests : Start(q) \/ Advance(q)
      BY <1>1, <3>1 DEF Next, LoginDemo, Administer, Tick, vars, localVars,
                        CreateLink, SetActive, DeleteUser
    <3>3. q = r
      BY <1>1, <3>2 DEF Start, Starts, Redeem, ReadLogin, ReadChange, Decode, Advance,
           Goes, Ends, Consume, CommitRedeem, ReadAccount, VerifyLogin, Rehash,
           VerifyChange, StoreChange, CheckRevoked, Respond, Purge, CommitLogout, Fail,
           AccessInv, Typed, TypeOK
    <3>. QED
      BY <1>1, <3>2, <3>3 DEF Start, Starts, Redeem, ReadLogin, ReadChange, Decode,
           Advance, Ends, Consume, CommitRedeem, ReadAccount, VerifyLogin, Rehash,
           VerifyChange, StoreChange, Respond, Purge, CommitLogout, Fail,
           AccessInv, Typed, TypeOK
  <2>2. call[r].jti \notin revoked
    BY <1>1, <2>1 DEF CheckRevoked, Ends, AccessInv, Typed, TypeOK
  <2>. QED
    BY <2>2, <1>1 DEF AccessInv, RevokedInv
<1>2. AccessInv /\ [Next]_vars =>
        [\A r \in Requests :
           (pc[r] = "check" /\ pc'[r] \in {"accepted", "purge"})
             => call[r].jti \notin loggedOut \/ token[call[r].jti] < now]_vars
  BY <1>1
<1>. QED
  BY <1>2, AccessInvariant, PTL DEF Spec, LogoutIsFinal
(* A link's life in the abstract specification, from its row. *)
LEMMA StatusOf ==
    ASSUME TypeOK, NEW l \in Links
    PROVE  /\ LinkStatus(l) = "none" <=> link[l] = None
           /\ LinkStatus(l) = "void" <=> link[l] = Deleted
           /\ LinkStatus(l) = "redeemed" <=> IsLink(l) /\ link[l].used
           /\ LinkStatus(l) = "unused" <=> IsLink(l) /\ ~link[l].used
BY NoneAssumption DEF LinkStatus, IsLink, TypeOK

LEMMA LinksInit == Init => OneTime!Init
BY DEF Init, OneTime!Init, LinkStatus

(* Every step is a step of OneTimeLink or leaves its links as they are. *)
LEMMA LinksStep == AccessInv /\ [Next]_vars =>
    [OneTime!Next]_<<[l \in Links |-> LinkStatus(l)], grants>>
<1> SUFFICES ASSUME AccessInv, [Next]_vars
             PROVE  OneTime!Next \/ UNCHANGED <<[l \in Links |-> LinkStatus(l)], grants>>
  OBVIOUS
<1>0. TypeOK /\ LinkInv
  BY DEF AccessInv, Typed
<1>1. ASSUME UNCHANGED <<link, grants>>
      PROVE  UNCHANGED <<[l \in Links |-> LinkStatus(l)], grants>>
  BY <1>1 DEF LinkStatus
<1>2. ASSUME NEW r \in Requests, CommitRedeem(r)
      PROVE  OneTime!Next
  <2>1. /\ call[r].link \in Links /\ link[call[r].link] \in Link
        /\ ~link[call[r].link].used
    BY <1>0, <1>2 DEF CommitRedeem, LinkInv, IsLink, TypeOK, AccessInv, Typed, CallOK, RedeemCall
  <2>2. PICK l \in Links : l = call[r].link
    BY <2>1
  <2>3. link' = [link EXCEPT ![l].used = TRUE] /\ UNCHANGED grants
    BY <1>2, <2>2 DEF CommitRedeem, historyVars
  <2>4. LinkStatus(l) = "unused"
    BY <1>0, <2>1, <2>2, StatusOf, NoneAssumption DEF IsLink
  <2>5. link'[l] \in Link /\ link'[l].used
    BY <1>0, <2>1, <2>2, <2>3 DEF TypeOK, Link
  <2>6. LinkStatus(l)' = "redeemed"
    BY <2>5, NoneAssumption DEF LinkStatus
  <2>7. \A k \in Links \ {l} : LinkStatus(k)' = LinkStatus(k)
    BY <1>0, <2>3 DEF LinkStatus, TypeOK
  <2>8. OneTime!Redeem(l)
    BY <2>3, <2>4, <2>6, <2>7 DEF OneTime!Redeem
  <2>. QED
    BY <2>8 DEF OneTime!Next
<1>3. ASSUME NEW r \in Requests, ReadAccount(r)
      PROVE  OneTime!Next \/ UNCHANGED <<link, grants>>
  <2> DEFINE l == call[r].link
  <2>1. l \in Links /\ grants[l] = 0 /\ (IsLink(l) => link[l].used)
    BY <1>3 DEF ReadAccount, LinkInv, AccessInv, Typed, CallOK, RedeemCall
  <2>2. UNCHANGED link
    BY <1>3 DEF ReadAccount, dbVars
  <2>3. ASSUME IsLink(l), grants' = [grants EXCEPT ![l] = @ + 1]
        PROVE  OneTime!Next
    <3>1. LinkStatus(l) = "redeemed"
      BY <1>0, <2>1, <2>3, StatusOf
    <3>2. UNCHANGED [k \in Links |-> LinkStatus(k)]
      BY <2>2 DEF LinkStatus
    <3>3. grants' = [grants EXCEPT ![l] = 1]
      BY <1>0, <2>1, <2>3 DEF TypeOK
    <3>4. OneTime!Grant(l)
      BY <2>1, <3>1, <3>2, <3>3 DEF OneTime!Grant
    <3>. QED
      BY <2>1, <3>4 DEF OneTime!Next
  <2>. QED
    BY <1>3, <2>2, <2>3 DEF ReadAccount
<1>4. ASSUME NEW k \in Links, NEW u \in Users, NEW e \in 1..MaxTime, CreateLink(k, u, e)
      PROVE  OneTime!Next
  <2>1. /\ link[k] = None /\ UNCHANGED grants
        /\ link' = [link EXCEPT ![k] = [user |-> u, expires |-> e, used |-> FALSE]]
    BY <1>4 DEF CreateLink, historyVars
  <2>2. [user |-> u, expires |-> e, used |-> FALSE] \in Link
    BY AccessAssumption DEF Link
  <2>3. LinkStatus(k) = "none" /\ LinkStatus(k)' = "unused"
    BY <1>0, <2>1, <2>2, NoneAssumption DEF LinkStatus, TypeOK
  <2>4. \A j \in Links \ {k} : LinkStatus(j)' = LinkStatus(j)
    BY <1>0, <2>1 DEF LinkStatus, TypeOK
  <2>5. OneTime!Create(k)
    BY <2>1, <2>3, <2>4 DEF OneTime!Create
  <2>. QED
    BY <2>5 DEF OneTime!Next
<1>5. ASSUME NEW u \in Users, DeleteUser(u)
      PROVE  OneTime!Next
  <2>1. /\ link' = [k \in Links |-> IF k \in LinksOf(u) THEN Deleted ELSE link[k]]
        /\ UNCHANGED grants
    BY <1>5 DEF DeleteUser, historyVars
  <2>2. \A k \in LinksOf(u) : LinkStatus(k) \in {"unused", "redeemed"}
    BY DEF LinksOf, IsLink, LinkStatus
  <2>3. \A k \in Links : LinkStatus(k)' = IF k \in LinksOf(u) THEN "void" ELSE LinkStatus(k)
    BY <2>1, NoneAssumption DEF LinkStatus
  <2>4. LinksOf(u) \in SUBSET Links
    BY DEF LinksOf
  <2>5. OneTime!Void(LinksOf(u))
    BY <2>1, <2>2, <2>3, <2>4 DEF OneTime!Void
  <2>. QED
    BY <2>4, <2>5 DEF OneTime!Next
<1>6. CASE \E r \in Requests : Start(r) \/ Advance(r)
  <2>1. PICK r \in Requests : Start(r) \/ Advance(r)
    BY <1>6
  <2>2. CASE CommitRedeem(r) \/ ReadAccount(r)
    BY <2>2, <1>1, <1>2, <1>3
  <2>3. CASE ~CommitRedeem(r) /\ ~ReadAccount(r)
    <3>1. UNCHANGED <<link, grants>>
      BY <2>1, <2>3 DEF Start, Redeem, ReadLogin, ReadChange, Decode, Advance, Consume,
            VerifyLogin, Rehash, VerifyChange, StoreChange, CheckRevoked, Respond,
            Purge, CommitLogout, Fail, dbVars, historyVars
    <3>. QED
      BY <3>1, <1>1
  <2>. QED
    BY <2>2, <2>3
<1>7. CASE Administer
  <2>1. CASE \E u \in Users : SetActive(u, TRUE) \/ SetActive(u, FALSE)
    BY <2>1, <1>1 DEF SetActive, historyVars
  <2>. QED
    BY <1>7, <1>4, <1>5, <2>1 DEF Administer
<1>8. CASE LoginDemo \/ Tick \/ UNCHANGED vars
  BY <1>8, <1>1 DEF LoginDemo, Tick, vars, dbVars, historyVars
<1>. QED
  BY <1>6, <1>7, <1>8 DEF Next

(* MagicLinkService keeps the promises of OneTimeLink: redemptions that    *)
(* race, fail halfway or meet a deactivated or deleted account never use a *)
(* link twice, never log in twice with it and never bring it back.         *)
THEOREM OneTimeLinks == Spec => LinksAreOneTime
<1>1. Init => OneTime!Init
  BY LinksInit
<1>2. AccessInv /\ [Next]_vars =>
        [OneTime!Next]_<<[l \in Links |-> LinkStatus(l)], grants>>
  BY LinksStep
<1>. QED
  BY <1>1, <1>2, AccessInvariant, PTL DEF Spec, OneTime!Spec, LinksAreOneTime
=============================================================================
