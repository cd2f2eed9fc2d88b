-------------------------- MODULE TokenQuotaProofs --------------------------
(***************************************************************************)
(* Proofs about module TokenQuota, for any sets of users and requests, any *)
(* limit and any cost of an answer.  The inductive invariant is QuotaInv:  *)
(* types (Typed), how a call came by its payer (Traced), and how much an   *)
(* account may still be billed by the calls it let through (Reserved).     *)
(***************************************************************************)
EXTENDS TokenQuota, FiniteSetTheorems, TLAPS

(* An idle request has nothing in hand. *)
Typed ==
    /\ TypeOK
    /\ \A r \in Requests : pc[r] = "idle" <=> call[r] = None

(* Until its payer is fixed a call that a quota let through would be billed *)
(* to the account of that quota, unless its user has been moved; so the     *)
(* payer, once fixed, is that account.                                      *)
Traced ==
    \A r \in Requests :
        /\ pc[r] \in {"checked", "streaming"} =>
              call[r].against \in {Payer(call[r].user), None} \/ call[r].moved
        /\ pc[r] = "bound" /\ call[r].payer # None =>
              call[r].against \in {call[r].payer, None} \/ call[r].moved

(* The requests without a call that the quota of u let through. *)
Spare(u) == {r \in Requests : call[r] = None \/ call[r].against # u}

(* Every call that the quota of u let through began when u was under its    *)
(* limit, and can be billed once: what u is billed so far leaves room for   *)
(* those still under way.                                                   *)
Reserved ==
    \A u \in Users :
        Limit > 0 => used[u] <= (Limit - 1) + (Cardinality(Spare(u)) + unchecked[u]) * MaxCost

QuotaInv == Typed /\ Traced /\ Reserved

-----------------------------------------------------------------------------
(* Types *)

(* Who pays for a user is a user. *)
LEMMA PayerType ==
    ASSUME TypeOK, NEW u \in Users
    PROVE  Payer(u) \in Users
    BY DEF TypeOK, Payer

LEMMA TypedInit == Init => Typed
    BY QuotaAssumption DEF Init, Typed, TypeOK, Steps

LEMMA TypedStep == Typed /\ [Next]_vars => Typed'
<1>. SUFFICES ASSUME Typed, [Next]_vars PROVE Typed'
  OBVIOUS
<1>. USE QuotaAssumption, NoneAssumption
<1>1. ASSUME NEW r \in Requests, NEW u \in Users, Check(r, u) \/ CheckBlind(r, u)
      PROVE  Typed'
  <2>1. Payer(u) \in Users
    BY PayerType DEF Typed
  <2>2. PICK a \in Users \cup {None} : Begins(r, u, a)
    BY <1>1, <2>1 DEF Check, CheckBlind
  <2>3. [user |-> u, payer |-> None, against |-> a, moved |-> FALSE] \in Call
    BY DEF Call
  <2>4. TypeOK'
    BY <1>1, <2>2, <2>3 DEF Check, CheckBlind, Begins, Typed, TypeOK, Steps, accounts
  <2>5. \A q \in Requests : pc'[q] = "idle" <=> call'[q] = None
    BY <2>2, <2>3 DEF Begins, Typed, TypeOK
  <2>. QED
    BY <2>4, <2>5 DEF Typed
<1>2. ASSUME NEW r \in Requests, Ask(r) \/ EndStream(r)
      PROVE  Typed'
  <2>1. call[r] \in Call /\ BindPayer(r)
    BY <1>2 DEF Ask, EndStream, Typed, TypeOK
  <2>2. call[r].user \in Users
    BY <2>1 DEF Call
  <2>3. Payer(call[r].user) \in Users
    BY <2>2, PayerType DEF Typed
  <2>4. call'[r] \in Call /\ \A q \in Requests \ {r} : call'[q] = call[q]
    BY <2>1, <2>3 DEF BindPayer, Typed, TypeOK, Call
  <2>5. TypeOK'
    BY <2>1, <2>4 DEF BindPayer, Typed, TypeOK, Steps, accounts
  <2>6. \A q \in Requests : pc'[q] = "idle" <=> call'[q] = None
    BY <2>1, <2>4 DEF BindPayer, Typed, TypeOK
  <2>. QED
    BY <2>5, <2>6 DEF Typed
<1>3. ASSUME NEW r \in Requests, Record(r)
      PROVE  Typed'
  <2>1. call[r] \in Call
    BY <1>3 DEF Record, Typed, TypeOK
  <2>2. used' \in [Users -> Nat] /\ unchecked' \in [Users -> Nat]
    <3>1. CASE call[r].payer \in present
      <4>1. PICK cost \in 1..MaxCost :
              Bill(call[r].payer, cost, call[r].against = call[r].payer)
        BY <1>3, <3>1 DEF Record
      <4>2. used' = [used EXCEPT ![call[r].payer] = @ + cost]
        BY <4>1 DEF Bill
      <4>3. unchecked' = [unchecked EXCEPT ![call[r].payer] =
                             IF call[r].against = call[r].payer THEN @ ELSE @ + 1]
        BY <4>1 DEF Bill
      <4>4. used' \in [Users -> Nat]
        BY <3>1, <4>2 DEF Typed, TypeOK
      <4>5. call[r].payer \in Users /\ unchecked \in [Users -> Nat]
        BY <3>1 DEF Typed, TypeOK
      <4>6. (IF call[r].against = call[r].payer THEN unchecked[call[r].payer]
                                                ELSE unchecked[call[r].payer] + 1) \in Nat
        BY <4>5
      <4>7. unchecked' \in [Users -> Nat]
        BY <4>3, <4>5, <4>6
      <4>. QED
        BY <4>4, <4>7
    <3>2. CASE call[r].payer \notin present
      BY <1>3, <3>2 DEF Record, Typed, TypeOK
    <3>. QED
      BY <3>1, <3>2
  <2>. QED
    BY <1>3, <2>2 DEF Record, Ends, Typed, TypeOK, Steps, accounts
<1>4. ASSUME NEW r \in Requests, Stream(r) \/ Lose(r)
      PROVE  Typed'
  BY <1>4 DEF Stream, Lose, Ends, Typed, TypeOK, Steps, accounts
<1>5. ASSUME NEW u \in Users, Age(u) \/ Delete(u)
      PROVE  Typed'
  BY <1>5 DEF Age, Delete, Typed, TypeOK, accounts
<1>6. ASSUME NEW old \in Users \cup {None}, NEW new \in Users, Reassign(old, new)
      PROVE  Typed'
  <2>1. \A r \in Requests :
          \/ call'[r] = call[r]
          \/ call[r] # None /\ call'[r] = [call[r] EXCEPT !.moved = TRUE]
    BY <1>6 DEF Reassign, Typed, TypeOK
  <2>2. \A r \in Requests : call'[r] \in Call \cup {None} /\ (call'[r] = None <=> call[r] = None)
    <3>. TAKE r \in Requests
    <3>1. CASE call'[r] = call[r]
      BY <3>1 DEF Typed, TypeOK
    <3>2. CASE call[r] # None /\ call'[r] = [call[r] EXCEPT !.moved = TRUE]
      <4>1. call[r] \in Call
        BY <3>2 DEF Typed, TypeOK
      <4>2. [call[r] EXCEPT !.moved = TRUE] \in Call
        BY <4>1 DEF Call
      <4>. QED
        BY <3>2, <4>2
    <3>. QED
      BY <2>1, <3>1, <3>2
  <2>3. call' \in [Requests -> Call \cup {None}]
    BY <1>6, <2>2 DEF Reassign
  <2>4. parent' \in [Users -> Users \cup {None}]
    BY <1>6 DEF Reassign, Typed, TypeOK
  <2>. QED
    BY <1>6, <2>2, <2>3, <2>4 DEF Reassign, Typed, TypeOK
<1>7. CASE UNCHANGED vars
  BY <1>7 DEF vars, Typed, TypeOK
<1>. QED
  BY <1>1, <1>2, <1>3, <1>4, <1>5, <1>6, <1>7 DEF Next

-----------------------------------------------------------------------------
(* Who is billed *)

LEMMA TracedStep == Typed /\ Traced /\ [Next]_vars => Traced'
<1>. SUFFICES ASSUME Typed, Traced, [Next]_vars PROVE Traced'
  OBVIOUS
<1>. USE QuotaAssumption, NoneAssumption
<1>1. ASSUME NEW r \in Requests, NEW u \in Users, Check(r, u) \/ CheckBlind(r, u)
      PROVE  Traced'
  <2>1. PICK a \in {Payer(u), None} : Begins(r, u, a)
    BY <1>1 DEF Check, CheckBlind
  <2>2. UNCHANGED parent /\ pc' = [pc EXCEPT ![r] = "checked"]
    BY <1>1, <2>1 DEF Check, CheckBlind, Begins, accounts
  <2>3. /\ call'[r].user = u /\ call'[r].against = a
        /\ pc'[r] = "checked"
        /\ \A q \in Requests \ {r} : call'[q] = call[q] /\ pc'[q] = pc[q]
    BY <2>1, <2>2 DEF Begins, Typed, TypeOK
  <2>. QED
    BY <2>2, <2>3 DEF Traced, Payer
<1>2. ASSUME NEW r \in Requests, Ask(r) \/ EndStream(r)
      PROVE  Traced'
  <2>1. call[r] \in Call /\ BindPayer(r) /\ pc[r] \in {"checked", "streaming"}
    BY <1>2 DEF Ask, EndStream, Typed, TypeOK
  <2>2. /\ call'[r].payer \in {Payer(call[r].user), None}
        /\ call'[r].against = call[r].against /\ call'[r].moved = call[r].moved
        /\ pc'[r] = "bound"
        /\ \A q \in Requests \ {r} : call'[q] = call[q] /\ pc'[q] = pc[q]
    BY <2>1 DEF BindPayer, Typed, TypeOK, Call
  <2>3. UNCHANGED parent
    BY <2>1 DEF BindPayer, accounts
  <2>. QED
    BY <2>1, <2>2, <2>3 DEF Traced, Payer
<1>3. ASSUME NEW r \in Requests, Stream(r) \/ Record(r) \/ Lose(r)
      PROVE  Traced'
  BY <1>3 DEF Stream, Record, Lose, Ends, Typed, TypeOK, accounts, Traced, Payer
<1>4. ASSUME NEW u \in Users, Age(u) \/ Delete(u)
      PROVE  Traced'
  BY <1>4 DEF Age, Delete, accounts, Traced, Payer
<1>5. ASSUME NEW old \in Users \cup {None}, NEW new \in Users, Reassign(old, new)
      PROVE  Traced'
  <2>. DEFINE Children == {u \in present : parent[u] = old}
  <2>1. /\ parent' = [u \in Users |-> IF u \in Children THEN new ELSE parent[u]]
        /\ call' = [r \in Requests |->
                      IF pc[r] \in {"checked", "streaming"} /\ call[r].user \in Children
                      THEN [call[r] EXCEPT !.moved = TRUE] ELSE call[r]]
        /\ UNCHANGED pc
    BY <1>5 DEF Reassign
  <2>2. ASSUME NEW r \in Requests, pc[r] \in {"checked", "streaming"}
        PROVE  (call[r].against \in {Payer(call[r].user), None} \/ call[r].moved)'
    <3>1. call[r] \in Call
      BY <2>2 DEF Typed, TypeOK
    <3>2. CASE call[r].user \in Children
      BY <2>1, <2>2, <3>1, <3>2 DEF Call
    <3>3. CASE call[r].user \notin Children
      <4>1. call'[r] = call[r] /\ call[r].user \in Users
        BY <2>1, <2>2, <3>1, <3>3 DEF Call
      <4>2. PICK w \in Users : w = call[r].user
        BY <4>1
      <4>3. parent'[w] = parent[w]
        BY <2>1, <3>3, <4>2
      <4>4. Payer(w)' = Payer(w)
        BY <4>3 DEF Payer
      <4>5. call[r].against \in {Payer(w), None} \/ call[r].moved
        BY <2>2, <4>2 DEF Traced
      <4>6. (call[r].against \in {Payer(w), None} \/ call[r].moved)'
        BY <4>1, <4>4, <4>5
      <4>7. call'[r].user = w
        BY <4>1, <4>2
      <4>. QED
        BY <4>6, <4>7 DEF Payer
    <3>. QED
      BY <3>2, <3>3
  <2>3. ASSUME NEW r \in Requests, pc[r] \notin {"checked", "streaming"}
        PROVE  call'[r] = call[r]
    BY <2>1, <2>3
  <2>. QED
    BY <2>1, <2>2, <2>3 DEF Traced
<1>6. CASE UNCHANGED vars
  BY <1>6 DEF vars, Traced, Payer
<1>. QED
  BY <1>1, <1>2, <1>3, <1>4, <1>5, <1>6 DEF Next

-----------------------------------------------------------------------------
(* How much is billed *)

LEMMA Products ==
    ASSUME NEW m \in Nat, NEW n \in Nat
    PROVE  /\ n * m \in Nat
           /\ (n + 1) * m = n * m + m
    OBVIOUS

LEMMA ProductsGrow ==
    ASSUME NEW m \in Nat, NEW k \in Nat, NEW n \in Nat, k <= n
    PROVE  k * m <= n * m
    OBVIOUS

LEMMA SpareFinite ==
    ASSUME NEW u
    PROVE  /\ IsFiniteSet(Spare(u))
           /\ Cardinality(Spare(u)) \in Nat
           /\ Cardinality(Spare(u)) <= Cardinality(Requests)
           /\ Cardinality(Requests) \in Nat
<1>1. Spare(u) \in SUBSET Requests
  BY DEF Spare
<1>. QED
  BY <1>1, QuotaAssumption, FS_Subset, FS_CardinalityType

(* A call that ends is spare again for the account that let it through, and *)
(* no call that goes on becomes one.                                        *)
LEMMA SpareGrows ==
    ASSUME TypeOK, NEW r \in Requests, NEW u \in Users,
           call[r] # None, call[r].against = u,
           call' = [call EXCEPT ![r] = None]
    PROVE  Cardinality(Spare(u)') = Cardinality(Spare(u)) + 1
<1>1. Spare(u)' = Spare(u) \cup {r} /\ r \notin Spare(u)
  BY DEF Spare, TypeOK
<1>2. IsFiniteSet(Spare(u))
  BY SpareFinite
<1>. QED
  BY <1>1, <1>2, FS_AddElement

LEMMA SpareKept ==
    ASSUME NEW u, Spare(u) \subseteq Spare(u)'
    PROVE  Cardinality(Spare(u)) <= Cardinality(Spare(u)')
<1>1. Spare(u)' \in SUBSET Requests
  BY DEF Spare
<1>2. IsFiniteSet(Spare(u)')
  BY <1>1, QuotaAssumption, FS_Subset
<1>. QED
  BY <1>2, FS_Subset

(* The bound of an account after a step: still kept when nothing is billed   *)
(* and no room is lost, when it was under its limit, and when one answer is  *)
(* billed and room for it is freed.                                          *)
LEMMA Bounds ==
    ASSUME NEW before \in Nat, NEW after \in Nat, NEW room \in Nat, NEW room2 \in Nat,
           Limit > 0,
           \/ before <= (Limit - 1) + room * MaxCost /\ after <= before /\ room <= room2
           \/ after <= Limit - 1
           \/ /\ before <= (Limit - 1) + room * MaxCost
              /\ after <= before + MaxCost
              /\ room + 1 <= room2
    PROVE  after <= (Limit - 1) + room2 * MaxCost
<1>. /\ MaxCost \in Nat /\ Limit \in Nat
  BY QuotaAssumption
<1>1. room * MaxCost \in Nat /\ room2 * MaxCost \in Nat
  BY Products
<1>2. CASE before <= (Limit - 1) + room * MaxCost /\ after <= before /\ room <= room2
  <2>1. room * MaxCost <= room2 * MaxCost
    BY <1>2, ProductsGrow
  <2>. QED
    BY <1>1, <1>2, <2>1
<1>3. CASE after <= Limit - 1
  BY <1>1, <1>3
<1>4. CASE /\ before <= (Limit - 1) + room * MaxCost
           /\ after <= before + MaxCost
           /\ room + 1 <= room2
  <2>1. (room + 1) * MaxCost = room * MaxCost + MaxCost
    BY Products
  <2>2. (room + 1) * MaxCost <= room2 * MaxCost
    BY <1>4, ProductsGrow
  <2>. QED
    BY <1>1, <1>4, <2>1, <2>2
<1>. QED
  BY <1>2, <1>3, <1>4

LEMMA ReservedInit == Init => Reserved
<1>. SUFFICES ASSUME Init, NEW u \in Users, Limit > 0
              PROVE  used[u] <= (Limit - 1) + (Cardinality(Spare(u)) + unchecked[u]) * MaxCost
  BY DEF Reserved
<1>1. used[u] = 0 /\ unchecked[u] = 0
  BY DEF Init
<1>2. Cardinality(Spare(u)) + unchecked[u] \in Nat
  BY <1>1, SpareFinite
<1>3. 0 <= Limit - 1
  BY QuotaAssumption
<1>. QED
  BY <1>1, <1>2, <1>3, Bounds

LEMMA ReservedStep == Typed /\ Typed' /\ Reserved /\ [Next]_vars => Reserved'
<1>. SUFFICES ASSUME Typed, Typed', Reserved, [Next]_vars,
                     NEW u \in Users, Limit > 0
              PROVE  used'[u] <= (Limit - 1)
                        + (Cardinality(Spare(u)') + unchecked'[u]) * MaxCost
  BY DEF Reserved
<1>. DEFINE room == Cardinality(Spare(u)) + unchecked[u]
<1>. DEFINE room2 == Cardinality(Spare(u)') + unchecked'[u]
<1>. USE QuotaAssumption, NoneAssumption
<1>1. used[u] \in Nat /\ used'[u] \in Nat /\ unchecked[u] \in Nat /\ unchecked'[u] \in Nat
  BY DEF Typed, TypeOK
<1>2. Cardinality(Spare(u)) \in Nat
  BY SpareFinite
<1>3. Cardinality(Spare(u)') \in Nat
  <2>1. Spare(u)' \in SUBSET Requests
    BY DEF Spare
  <2>. QED
    BY <2>1, FS_Subset, FS_CardinalityType
<1>4. room \in Nat /\ room2 \in Nat
  BY <1>1, <1>2, <1>3
<1>5. used[u] <= (Limit - 1) + room * MaxCost
  BY DEF Reserved
<1>6. ASSUME used'[u] <= used[u], unchecked'[u] >= unchecked[u], Spare(u) \subseteq Spare(u)'
      PROVE  used'[u] <= (Limit - 1) + room2 * MaxCost
  <2>1. room <= room2
    BY <1>1, <1>2, <1>3, <1>6, SpareKept
  <2>. HIDE DEF room, room2
  <2>. QED
    BY <1>1, <1>4, <1>5, <1>6, <2>1, Bounds
<1>7. ASSUME used'[u] <= Limit - 1
      PROVE  used'[u] <= (Limit - 1) + room2 * MaxCost
  <2>. HIDE DEF room, room2
  <2>. QED
    BY <1>1, <1>4, <1>7, Bounds
<1>8. ASSUME used'[u] <= used[u] + MaxCost, room + 1 <= room2
      PROVE  used'[u] <= (Limit - 1) + room2 * MaxCost
  <2>. HIDE DEF room, room2
  <2>. QED
    BY <1>1, <1>4, <1>5, <1>8, Bounds
<1>10. ASSUME NEW r \in Requests, NEW v \in Users, NEW a \in Users \cup {None},
              Begins(r, v, a), a # u, UNCHANGED used
       PROVE  used'[u] <= (Limit - 1) + room2 * MaxCost
  <2>1. unchecked'[u] = unchecked[u]
    BY <1>10 DEF Begins, Typed, TypeOK
  <2>2. call'[r] # None /\ call'[r].against = a /\ call[r] = None
    BY <1>10 DEF Begins, Typed, TypeOK
  <2>3. Spare(u) \subseteq Spare(u)'
    BY <1>10, <2>2 DEF Begins, Spare, Typed, TypeOK
  <2>. QED
    BY <1>1, <1>10, <2>1, <2>3, <1>6
<1>11. ASSUME NEW r \in Requests, NEW v \in Users, Check(r, v) \/ CheckBlind(r, v)
       PROVE  used'[u] <= (Limit - 1) + room2 * MaxCost
  <2>1. UNCHANGED used
    BY <1>11 DEF Check, CheckBlind
  <2>2. CASE Check(r, v) /\ Limited(v) /\ Payer(v) = u
    <3>1. used[u] < Limit
      BY <1>1, <2>2 DEF Check, Refused
    <3>2. used'[u] <= Limit - 1
      BY <1>1, <2>1, <3>1
    <3>. QED
      BY <3>2, <1>7
  <2>3. CASE ~ (Check(r, v) /\ Limited(v) /\ Payer(v) = u)
    <3>1. Payer(v) \in Users
      BY PayerType DEF Typed
    <3>2. PICK a \in Users \cup {None} : a # u /\ Begins(r, v, a)
      BY <1>11, <2>3, <3>1 DEF Check, CheckBlind
    <3>. QED
      BY <2>1, <3>2, <1>10
  <2>. QED
    BY <2>2, <2>3
<1>12. ASSUME NEW r \in Requests, Ask(r) \/ EndStream(r)
       PROVE  used'[u] <= (Limit - 1) + room2 * MaxCost
  <2>1. call[r] \in Call /\ BindPayer(r)
    BY <1>12 DEF Ask, EndStream, Typed, TypeOK
  <2>2. /\ call'[r].against = call[r].against
        /\ \A q \in Requests \ {r} : call'[q] = call[q]
    BY <2>1 DEF BindPayer, Typed, TypeOK, Call
  <2>3. Spare(u) \subseteq Spare(u)'
    BY <2>1, <2>2 DEF Spare
  <2>. QED
    BY <1>1, <2>1, <2>3, <1>6 DEF BindPayer
<1>13. ASSUME NEW r \in Requests, Record(r)
       PROVE  used'[u] <= (Limit - 1) + room2 * MaxCost
  <2>1. call[r] \in Call /\ call' = [call EXCEPT ![r] = None]
    BY <1>13 DEF Record, Ends, Typed, TypeOK
  <2>2. Spare(u) \subseteq Spare(u)'
    BY <2>1 DEF Spare, Typed, TypeOK
  <2>3. CASE call[r].payer \in present
    <3>1. PICK cost \in 1..MaxCost :
            Bill(call[r].payer, cost, call[r].against = call[r].payer)
      BY <1>13, <2>3 DEF Record
    <3>2. CASE call[r].payer # u
      <4>1. used'[u] = used[u] /\ unchecked'[u] = unchecked[u]
        BY <3>1, <3>2 DEF Bill, Typed, TypeOK
      <4>. QED
        BY <1>1, <2>2, <4>1, <1>6
    <3>3. CASE call[r].payer = u
      <4>1. used'[u] = used[u] + cost
        BY <3>1, <3>3 DEF Bill, Typed, TypeOK
      <4>2. used'[u] <= used[u] + MaxCost
        BY <1>1, <4>1
      <4>3. CASE call[r].against = u
        <5>1. unchecked'[u] = unchecked[u]
          BY <3>1, <3>3, <4>3 DEF Bill, Typed, TypeOK
        <5>2. Cardinality(Spare(u)') = Cardinality(Spare(u)) + 1
          BY <2>1, <4>3, SpareGrows DEF Typed
        <5>. QED
          BY <1>1, <1>2, <1>3, <4>2, <5>1, <5>2, <1>8
      <4>4. CASE call[r].against # u
        <5>1. unchecked'[u] = unchecked[u] + 1
          BY <3>1, <3>3, <4>4 DEF Bill, Typed, TypeOK
        <5>2. Cardinality(Spare(u)) <= Cardinality(Spare(u)')
          BY <2>2, SpareKept
        <5>. QED
          BY <1>1, <1>2, <1>3, <4>2, <5>1, <5>2, <1>8
      <4>. QED
        BY <4>3, <4>4
    <3>. QED
      BY <3>2, <3>3
  <2>4. CASE call[r].payer \notin present
    BY <1>1, <1>13, <2>2, <2>4, <1>6 DEF Record
  <2>. QED
    BY <2>3, <2>4
<1>14. ASSUME NEW r \in Requests, Stream(r) \/ Lose(r)
       PROVE  used'[u] <= (Limit - 1) + room2 * MaxCost
  <2>1. Spare(u) \subseteq Spare(u)'
    BY <1>14 DEF Stream, Lose, Ends, Spare, Typed, TypeOK
  <2>. QED
    BY <1>1, <1>14, <2>1, <1>6 DEF Stream, Lose
<1>15. ASSUME NEW v \in Users, Age(v) \/ Delete(v)
       PROVE  used'[u] <= (Limit - 1) + room2 * MaxCost
  <2>1. used'[u] <= used[u]
    BY <1>1, <1>15 DEF Age, Delete, Typed, TypeOK
  <2>2. Spare(u) \subseteq Spare(u)' /\ UNCHANGED unchecked
    BY <1>15 DEF Age, Delete, Spare
  <2>. QED
    BY <1>1, <2>1, <2>2, <1>6
<1>16. ASSUME NEW old \in Users \cup {None}, NEW new \in Users, Reassign(old, new)
       PROVE  used'[u] <= (Limit - 1) + room2 * MaxCost
  <2>1. \A r \in Requests :
          \/ call'[r] = call[r]
          \/ call[r] # None /\ call'[r] = [call[r] EXCEPT !.moved = TRUE]
    BY <1>16 DEF Reassign, Typed, TypeOK
  <2>2. \A r \in Requests : call[r] # None => call'[r].against = call[r].against
    BY <2>1 DEF Typed, TypeOK, Call
  <2>3. Spare(u) \subseteq Spare(u)'
    BY <2>1, <2>2 DEF Spare
  <2>. QED
    BY <1>1, <1>16, <2>3, <1>6 DEF Reassign
<1>17. CASE UNCHANGED vars
  BY <1>1, <1>17, <1>6 DEF vars, Spare
<1>. QED
  BY <1>11, <1>12, <1>13, <1>14, <1>15, <1>16, <1>17 DEF Next

-----------------------------------------------------------------------------
(* The theorems *)

(* The inductive invariant holds in every reachable state. *)
THEOREM QuotaInvariant == Spec => []QuotaInv
<1>1. Init => QuotaInv
  BY TypedInit, ReservedInit DEF QuotaInv, Traced, Init
<1>2. QuotaInv /\ [Next]_vars => QuotaInv'
  BY TypedStep, TracedStep, ReservedStep DEF QuotaInv
<1>. QED
  BY <1>1, <1>2, PTL DEF Spec

(* Accounts, calls and counts stay of their types. *)
THEOREM QuotaTypes == Spec => []TypeOK
<1>1. QuotaInv => TypeOK
  BY DEF QuotaInv, Typed
<1>. QED
  BY <1>1, QuotaInvariant, PTL

(* However many requests are served at once, whatever an answer costs and    *)
(* whoever is moved or deleted meanwhile, the soft cap is soft by one answer *)
(* a request and one for each answer its quota did not let through.          *)
THEOREM OvershootIsBounded == Spec => []OvershootBounded
<1>1. QuotaInv => OvershootBounded
  <2>. SUFFICES ASSUME QuotaInv, NEW u \in Users, Limit > 0
                PROVE  used[u] <= (Limit - 1)
                          + (Cardinality(Requests) + unchecked[u]) * MaxCost
    BY DEF OvershootBounded
  <2>. DEFINE room == Cardinality(Spare(u)) + unchecked[u]
  <2>. DEFINE room2 == Cardinality(Requests) + unchecked[u]
  <2>1. used[u] \in Nat /\ unchecked[u] \in Nat
    BY DEF QuotaInv, Typed, TypeOK
  <2>2. room \in Nat /\ room2 \in Nat /\ room <= room2
    BY <2>1, SpareFinite
  <2>3. used[u] <= (Limit - 1) + room * MaxCost
    BY DEF QuotaInv, Reserved
  <2>. HIDE DEF room, room2
  <2>4. used[u] <= (Limit - 1) + room2 * MaxCost
    BY <2>1, <2>2, <2>3, Bounds
  <2>. QED
    BY <2>4 DEF room2
<1>. QED
  BY <1>1, QuotaInvariant, PTL

(* No account pays for an answer its quota did not let through, but for the  *)
(* failed reads and the guests moved before their question was stored or,    *)
(* streamed, answered.                                                       *)
THEOREM BillsAreChecked == Spec => BilledWhereChecked
<1>1. QuotaInv /\ [Next]_vars =>
        [\A u \in Users :
          used'[u] > used[u] =>
            \E r \in Requests :
                /\ pc[r] = "bound" /\ pc'[r] = "idle"
                /\ call[r].payer = u
                /\ call[r].against \in {u, None} \/ call[r].moved]_vars
  <2>. SUFFICES ASSUME QuotaInv, [Next]_vars, NEW u \in Users, used'[u] > used[u]
                PROVE  \E r \in Requests :
                          /\ pc[r] = "bound" /\ pc'[r] = "idle"
                          /\ call[r].payer = u
                          /\ call[r].against \in {u, None} \/ call[r].moved
    OBVIOUS
  <2>1. used \in [Users -> Nat] /\ pc \in [Requests -> Steps]
    BY DEF QuotaInv, Typed, TypeOK
  <2>2. used' # used
    BY <2>1
  <2>3. ~ \E v \in Users : Age(v) \/ Delete(v)
    BY <2>1 DEF Age, Delete
  <2>4. PICK r \in Requests : Record(r)
    BY <2>2, <2>3 DEF Next, vars, Check, CheckBlind, Ask, Stream, EndStream, BindPayer,
                           Lose, Reassign
  <2>5. PICK cost \in 1..MaxCost :
          Bill(call[r].payer, cost, call[r].against = call[r].payer)
    BY <2>2, <2>4 DEF Record
  <2>6. call[r].payer = u
    BY <2>1, <2>5 DEF Bill
  <2>7. pc[r] = "bound" /\ pc'[r] = "idle"
    BY <2>1, <2>4 DEF Record, Ends
  <2>8. call[r].against \in {u, None} \/ call[r].moved
    BY <2>6, <2>7, QuotaAssumption DEF QuotaInv, Traced
  <2>. QED
    BY <2>6, <2>7, <2>8
<1>. QED
  BY <1>1, QuotaInvariant, PTL DEF Spec, BilledWhereChecked
=============================================================================
