---------------------------- MODULE PersonaProofs ----------------------------
(***************************************************************************)
(* Proofs about module Persona, for any fields, values and looks and any   *)
(* finite set of requests.                                                 *)
(***************************************************************************)
EXTENDS Persona, FiniteSetTheorems, WellFoundedInduction, TLAPS

(* Those that may still insert a row of parameters, and an avatar. *)
MayStore == {r \in Requests : pc[r] \in {"new", "begun", "bot", "dressed"}}
MayDress == {r \in Requests : pc[r] \in {"new", "begun", "bot"}}

(* There is an id for every row that may still be inserted, and no row has  *)
(* an id that was not given yet.                                            *)
Counted ==
    /\ lastRow + Cardinality(MayStore) <= Cardinality(Requests)
    /\ lastAvatar + Cardinality(MayDress) <= Cardinality(Requests)
    /\ \A i \in Ids : (i > lastRow => row[i] = None) /\ (i > lastAvatar => avatar[i] = None)

(* What a request has in hand at each of its places. *)
Fits(r) ==
    /\ pc[r] = "new" <=> call[r] = None
    /\ r \in Working => view[r] # None
    /\ pc[r] \in {"new", "begun", "bot", "dressed", "prompted"} => held[r] = None
    /\ pc[r] \in {"bot", "dressed", "prompted"} => call[r].op = "create"
    /\ pc[r] \in {"stored", "read"} => call[r].op \in {"create", "put", "patch"}
    /\ pc[r] = "stored" /\ call[r].op # "patch" => held[r] = None
    /\ pc[r] = "read" => held[r] # None
    /\ pc[r] = "read" /\ call[r].op = "create" => view[r].prompt = None
    /\ pc[r] = "begun" /\ call[r].op \in {"patch", "drop"} => Exists(view[r].row)
    /\ pc[r] = "begun" /\ call[r].op = "drop_avatar" => Exists(view[r].avatar)

Placed == \A r \in Requests : Fits(r)

Typed == TypeOK /\ Placed /\ Counted

-----------------------------------------------------------------------------
(* Ids and rows *)

LEMMA Counts == Cardinality(Requests) \in Nat /\ Ids \subseteq Nat
<1>1. Cardinality(Requests) \in Nat
  BY PersonaAssumption, FS_CardinalityType
<1>. QED
  BY <1>1 DEF Ids

(* .first() finds a row when there is one, and none before it. *)
LEMMA FirstExists ==
    ASSUME NEW t, Exists(t)
    PROVE  /\ First(t) \in Ids
           /\ t[First(t)] # None
           /\ \A j \in Ids : t[j] # None => First(t) <= j
<1>. DEFINE S == {i \in Ids : t[i] # None}
<1>1. S \subseteq Nat /\ S # {}
  BY Counts DEF Exists
<1>2. PICK n \in S : \A m \in S : n <= m
  <2>1. PICK n \in S : \A m \in S : <<m, n>> \notin OpToRel(<, Nat)
    BY <1>1, NatLessThanWellFounded, WFMin
  <2>2. ASSUME NEW m \in S PROVE n <= m
    <3>1. <<m, n>> \notin OpToRel(<, Nat)
      BY <2>1
    <3>2. m \in Nat /\ n \in Nat
      BY <1>1
    <3>3. ~(m < n)
      BY <3>1, <3>2 DEF OpToRel
    <3>. QED
      BY <3>2, <3>3
  <2>. QED
    BY <2>2
<1>3. n \in Ids /\ n \in Nat /\ t[n] # None
  BY <1>1, <1>2
<1>4. \A j \in 0..(n - 1) : t[j] = None
  <2>. SUFFICES ASSUME NEW j \in 0..(n - 1), t[j] # None PROVE FALSE
    OBVIOUS
  <2>1. j \in Ids
    BY <1>3, Counts DEF Ids
  <2>2. j \in S
    BY <2>1
  <2>3. n <= j
    BY <1>2, <2>2
  <2>. QED
    BY <1>3, <2>3
<1>5. First(t) \in Ids /\ t[First(t)] # None /\ \A j \in 0..(First(t) - 1) : t[j] = None
  BY <1>3, <1>4 DEF First
<1>6. ASSUME NEW j \in Ids, t[j] # None PROVE First(t) <= j
  <2>1. j \in Nat /\ First(t) \in Nat
    BY <1>5, Counts
  <2>2. ~(j \in 0..(First(t) - 1))
    BY <1>5, <1>6
  <2>. QED
    BY <2>1, <2>2
<1>. QED
  BY <1>5, <1>6

(* Inserting a row for one of those who may leaves the others their ids. *)
LEMMA Room ==
    ASSUME NEW S \in SUBSET Requests, NEW r \in S, NEW n \in Nat,
           n + Cardinality(S) <= Cardinality(Requests)
    PROVE  /\ n + 1 \in Ids
           /\ n + 1 + Cardinality(S \ {r}) <= Cardinality(Requests)
<1>1. IsFiniteSet(S)
  BY PersonaAssumption, FS_Subset
<1>2. Cardinality(S) \in Nat /\ Cardinality(S \ {r}) = Cardinality(S) - 1
  BY <1>1, FS_CardinalityType, FS_RemoveElement
<1>3. Cardinality(S \ {r}) \in Nat
  BY <1>1, FS_RemoveElement, FS_CardinalityType
<1>. QED
  BY <1>2, <1>3, Counts DEF Ids

(* Fewer that may insert need fewer ids. *)
LEMMA LessNeedsLess ==
    ASSUME NEW S \in SUBSET Requests, NEW T \in SUBSET S, NEW n \in Nat,
           n + Cardinality(S) <= Cardinality(Requests)
    PROVE  n + Cardinality(T) <= Cardinality(Requests)
<1>1. IsFiniteSet(S) /\ IsFiniteSet(T)
  BY PersonaAssumption, FS_Subset
<1>2. Cardinality(T) <= Cardinality(S)
  BY <1>1, FS_Subset
<1>3. Cardinality(S) \in Nat /\ Cardinality(T) \in Nat
  BY <1>1, FS_CardinalityType
<1>. QED
  BY <1>2, <1>3, Counts

-----------------------------------------------------------------------------
(* Types *)

Acts(r) ==
    \/ Fail(r)
    \/ CreateBot(r) \/ CreateAvatar(r) \/ CreateParameters(r) \/ Patch(r)
    \/ ReadAgain(r) \/ WritePrompt(r) \/ ImportTemplate(r) \/ DropParameters(r)
    \/ AddAvatar(r) \/ ChangeAvatar(r) \/ DropAvatar(r)
    \/ DropChapters(r) \/ KeepChapters(r) \/ DeleteBot(r)

Moves(r) ==
    /\ r \in Working
    /\ call' = call
    /\ pc'[r] # "new"
    /\ alone'[r] \in {alone[r], FALSE}
    /\ \A q \in Requests \ {r} :
          pc'[q] = pc[q] /\ view'[q] = view[q] /\ held'[q] = held[q] /\ alone'[q] = alone[q]

(* A step of a request that is being served changes nothing the others hold. *)
LEMMA MovesOnly ==
    ASSUME TypeOK, NEW r \in Requests, Acts(r)
    PROVE  Moves(r)
<1>. USE DEF TypeOK
<1>1. ASSUME NEW place \in {"bot", "dressed", "stored", "prompted", "emptied", "done", "failed"},
             r \in Working, Goes(r, place)
      PROVE  /\ call' = call /\ pc'[r] = place /\ alone'[r] \in {alone[r], FALSE}
             /\ \A q \in Requests \ {r} :
                   pc'[q] = pc[q] /\ view'[q] = view[q] /\ alone'[q] = alone[q]
  BY <1>1 DEF Goes
<1>2. CASE Fail(r)
  BY <1>2, <1>1 DEF Fail, Moves
<1>3. CASE CreateBot(r)
  BY <1>3, <1>1 DEF CreateBot, At, Working, Moves
<1>4. CASE CreateAvatar(r)
  BY <1>4, <1>1 DEF CreateAvatar, InsertAvatar, At, Working, Moves
<1>5. CASE CreateParameters(r)
  BY <1>5, <1>1 DEF CreateParameters, At, Working, Moves
<1>6. CASE Patch(r)
  BY <1>6, <1>1 DEF Patch, At, Working, Moves
<1>7. CASE ReadAgain(r)
  <2>1. CASE Exists(row)
    BY <1>7, <2>1 DEF ReadAgain, Moves
  <2>2. CASE ~Exists(row)
    BY <1>7, <2>2, <1>1 DEF ReadAgain, After, Moves
  <2>. QED
    BY <2>1, <2>2
<1>8. CASE WritePrompt(r)
  BY <1>8, <1>1 DEF WritePrompt, After, Moves
<1>9. CASE ImportTemplate(r)
  BY <1>9, <1>1 DEF ImportTemplate, At, Working, Moves
<1>10. CASE DropParameters(r) \/ DeleteBot(r)
  BY <1>10, <1>1 DEF DropParameters, DeleteBot, At, Working, Moves
<1>12. CASE DropChapters(r) \/ KeepChapters(r)
  BY <1>12, <1>1 DEF DropChapters, KeepChapters, At, Working, Moves
<1>11. CASE AddAvatar(r) \/ ChangeAvatar(r) \/ DropAvatar(r)
  BY <1>11, <1>1 DEF AddAvatar, InsertAvatar, ChangeAvatar, DropAvatar, At, Working, Moves
<1>. QED
  BY <1>2, <1>3, <1>4, <1>5, <1>6, <1>7, <1>8, <1>9, <1>10, <1>11, <1>12 DEF Acts

(* What a PATCH makes of a profile is a profile. *)
LEMMA PatchedType ==
    ASSUME NEW p \in Profiles, NEW c \in [Fields -> Values \cup {None}]
    PROVE  Patched(p, c) \in Profiles
<1>1. \A f \in Fields : (IF f \in Applied(c) THEN c[f] ELSE p[f]) \in Values
  BY DEF Applied, Profiles
<1>. QED
  BY <1>1 DEF Patched, Profiles

(* The calls, by what they ask for. *)
LEMMA CallTypes ==
    ASSUME NEW c \in Call
    PROVE  /\ c.op \in {"create", "put"} => c.profile \in Profiles
           /\ c.op = "patch" => c.changes \in [Fields -> Values \cup {None}]
           /\ c.op = "add_avatar" => c.look \in Looks
           /\ c.op \in {"patch_avatar", "put_avatar"} =>
                 c \in AvatarCall /\ c.id \in Ids /\ c.look \in Looks
    BY DEF Call, ProfileCall, PatchCall, LookCall, AvatarCall, BareCall

LEMMA NowType == TypeOK => Now \in View
    BY DEF TypeOK, Now, View

(* What a request that holds a row for the new prompt has read. *)
LEMMA SourceType ==
    ASSUME TypeOK, NEW r \in Requests, Exists(row)
    PROVE  [id |-> First(row), profile |-> Source(r, row)] \in [id : Ids, profile : Profiles]
<1>1. First(row) \in Ids /\ row[First(row)] # None
  BY FirstExists
<1>2. row[First(row)] \in Profiles
  BY <1>1 DEF TypeOK
<1>3. held[r] # None => held[r].profile \in Profiles
  BY DEF TypeOK
<1>. QED
  BY <1>1, <1>2, <1>3 DEF Source

LEMMA TypesBegin ==
    ASSUME TypeOK, NEW r \in Requests, NEW c \in Call, Begin(r, c)
    PROVE  TypeOK'
    BY NowType DEF TypeOK, Begin, tables, parts

LEMMA TypesStep ==
    ASSUME Typed, NEW r \in Requests, Acts(r)
    PROVE  TypeOK'
<1>. USE DEF TypeOK
<1>1. TypeOK /\ call[r] # None /\ call[r] \in Call /\ pc[r] # "new"
  BY MovesOnly DEF Typed, Placed, Fits, Moves, Working
<1>2. Cardinality(Requests) \in Nat /\ Ids \subseteq Nat
  BY Counts
<1>3. ASSUME NEW place \in {"bot", "dressed", "stored", "prompted", "emptied", "done", "failed"},
             Goes(r, place)
      PROVE  /\ call' \in [Requests -> Call \cup {None}]
             /\ view' \in [Requests -> View \cup {None}]
             /\ pc' \in [Requests -> {"new", "begun", "bot", "dressed", "stored", "read",
                                      "prompted", "emptied", "done", "failed"}]
             /\ alone' \in [Requests -> BOOLEAN]
  BY <1>1, <1>3 DEF Goes
<1>4. CASE Fail(r)
  BY <1>1, <1>3, <1>4 DEF Fail, tables, parts
<1>5. CASE CreateBot(r)
  BY <1>1, <1>3, <1>5 DEF CreateBot, parts
<1>6. ASSUME NEW look \in Looks, InsertAvatar(look), r \in MayDress
      PROVE  /\ bot' = bot /\ prompt' = prompt /\ row' = row /\ chapters' = chapters
             /\ emptied' = emptied /\ lastRow' = lastRow /\ held' = held
             /\ lastAvatar' \in Ids
             /\ avatar' \in [Ids -> Looks \cup {None}]
  <2>1. lastAvatar + 1 \in Ids
    BY <1>2, <1>6, Room DEF Typed, Counted, MayDress
  <2>. QED
    BY <1>6, <2>1, <1>1 DEF InsertAvatar
<1>7. CASE CreateAvatar(r)
  BY <1>1, <1>3, <1>6, <1>7 DEF CreateAvatar, At, MayDress
<1>8. CASE CreateParameters(r)
  <2>1. r \in MayStore
    BY <1>8 DEF CreateParameters, At, MayStore
  <2>2. lastRow + 1 \in Ids
    BY <1>2, <2>1, Room DEF Typed, Counted, MayStore
  <2>3. call[r].profile \in Profiles
    BY <1>1, <1>8, CallTypes DEF CreateParameters, At
  <2>. QED
    BY <1>1, <1>3, <1>8, <2>2, <2>3 DEF CreateParameters
<1>9. CASE Patch(r)
  <2>. DEFINE i == First(view[r].row)
              old == view[r].row[i]
              mine == Patched(old, call[r].changes)
  <2>1. Exists(view[r].row) /\ view[r] # None
    BY <1>9 DEF Patch, At, Typed, Placed, Fits, Working
  <2>2. i \in Ids /\ old # None
    BY <2>1, FirstExists
  <2>3. view[r] \in View
    BY <2>1, <1>1
  <2>4. old \in Profiles
    BY <2>2, <2>3 DEF View
  <2>5. mine \in Profiles
    BY <1>1, <1>9, <2>4, PatchedType, CallTypes DEF Patch, At
  <2>6. ASSUME row[i] # None
        PROVE  [f \in Fields |-> IF mine[f] # old[f] THEN mine[f] ELSE row[i][f]] \in Profiles
    <3>1. row[i] \in Profiles
      BY <1>1, <2>2, <2>6
    <3>2. \A f \in Fields : mine[f] \in Values /\ row[i][f] \in Values
      BY <2>5, <3>1 DEF Profiles
    <3>. HIDE DEF mine, old, i
    <3>. QED
      BY <3>2 DEF Profiles
  <2>7. row' \in [Ids -> Profiles \cup {None}]
    <3>1. CASE row[i] = None
      BY <1>9, <3>1, <1>1 DEF Patch
    <3>2. CASE row[i] # None
      <4>1. row' = [row EXCEPT ![i] = [f \in Fields |->
                       IF mine[f] # old[f] THEN mine[f] ELSE row[i][f]]]
        BY <1>9, <3>2 DEF Patch
      <4>. HIDE DEF mine, old, i
      <4>. QED
        BY <4>1, <2>6, <3>2, <1>1
    <3>. QED
      BY <3>1, <3>2
  <2>8. held' \in [Requests -> [id : Ids, profile : Profiles] \cup {None}]
    <3>1. held' = [held EXCEPT ![r] = [id |-> i, profile |-> mine]]
      BY <1>9 DEF Patch
    <3>. HIDE DEF mine, old, i
    <3>. QED
      BY <3>1, <2>2, <2>5, <1>1
  <2>. QED
    BY <1>1, <1>3, <1>9, <2>7, <2>8 DEF Patch
<1>10. CASE ReadAgain(r)
  <2>1. CASE Exists(row)
    <3>1. [Now EXCEPT !.prompt = IF call[r].op = "create" THEN None ELSE prompt] \in View
      BY <1>1 DEF Now, View
    <3>2. [id |-> First(row), profile |-> Source(r, row)] \in [id : Ids, profile : Profiles]
      BY <1>1, <2>1, SourceType
    <3>3. held' \in [Requests -> [id : Ids, profile : Profiles] \cup {None}]
      BY <1>1, <1>10, <2>1, <3>2 DEF ReadAgain
    <3>4. view' \in [Requests -> View \cup {None}]
      BY <1>1, <1>10, <2>1, <3>1 DEF ReadAgain
    <3>. QED
      BY <1>1, <1>10, <2>1, <3>3, <3>4 DEF ReadAgain, tables, parts
  <2>2. CASE ~Exists(row)
    BY <1>1, <1>3, <1>10, <2>2 DEF ReadAgain, After, tables, parts
  <2>. QED
    BY <2>1, <2>2
<1>11. CASE WritePrompt(r)
  <2>1. held[r].profile \in Profiles
    BY <1>1, <1>11 DEF WritePrompt, Typed, Placed, Fits
  <2>. QED
    BY <1>1, <1>3, <1>11, <2>1 DEF WritePrompt, After, parts
<1>12. CASE ImportTemplate(r)
  BY <1>1, <1>3, <1>12 DEF ImportTemplate
<1>13. CASE DropParameters(r)
  BY <1>1, <1>3, <1>13 DEF DropParameters
<1>14. CASE AddAvatar(r)
  <2>1. call[r].look \in Looks
    BY <1>1, <1>14, CallTypes DEF AddAvatar, At
  <2>. QED
    BY <1>1, <1>3, <1>6, <1>14, <2>1 DEF AddAvatar, At, MayDress
<1>15. CASE ChangeAvatar(r)
  <2>1. call[r].look \in Looks /\ call[r].id \in Ids
    BY <1>1, <1>15, CallTypes DEF ChangeAvatar, At
  <2>2. avatar' \in [Ids -> Looks \cup {None}]
    BY <1>1, <1>15, <2>1 DEF ChangeAvatar
  <2>. QED
    BY <1>1, <1>3, <1>15, <2>2 DEF ChangeAvatar
<1>16. CASE DropAvatar(r)
  BY <1>1, <1>3, <1>16 DEF DropAvatar
<1>17. CASE DeleteBot(r)
  BY <1>1, <1>3, <1>17 DEF DeleteBot, NoRows
<1>18. CASE DropChapters(r)
  BY <1>1, <1>3, <1>18 DEF DropChapters
<1>19. CASE KeepChapters(r)
  BY <1>1, <1>3, <1>19 DEF KeepChapters, tables, parts
<1>. QED
  BY <1>4, <1>5, <1>7, <1>8, <1>9, <1>10, <1>11, <1>12, <1>13, <1>14, <1>15, <1>16, <1>17,
     <1>18, <1>19 DEF Acts

(* What r has in hand follows it from place to place. *)
LEMMA PlacedStep ==
    ASSUME Typed, NEW r \in Requests, Acts(r)
    PROVE  Placed'
<1>1. TypeOK /\ Moves(r) /\ call[r] # None /\ pc[r] # "new"
  BY MovesOnly DEF Typed, Placed, Fits, Moves, Working
<1>2. TypeOK'
  BY TypesStep
<1>3. \A q \in Requests : Fits(q)
  BY DEF Typed, Placed
<1>4. ASSUME NEW q \in Requests \ {r} PROVE Fits(q)'
  BY <1>1, <1>3, <1>4 DEF Fits, Moves, Working
<1>. SUFFICES Fits(r)'
  BY <1>4 DEF Placed
<1>5. ASSUME NEW place \in {"bot", "dressed", "stored", "prompted", "emptied", "done", "failed"},
             Goes(r, place)
      PROVE  /\ pc'[r] = place /\ call' = call
             /\ place \notin {"done", "failed"} => view'[r] = view[r]
  BY <1>1, <1>5 DEF Goes, TypeOK
<1>6. ASSUME Goes(r, "done") \/ Goes(r, "failed") PROVE Fits(r)'
  <2>1. pc'[r] \in {"done", "failed"} /\ call'[r] # None
    BY <1>1, <1>5, <1>6
  <2>. QED
    BY <2>1 DEF Fits, Working
<1>7. CASE CreateBot(r) \/ CreateAvatar(r)
  <2>1. r \in Working /\ held' = held /\ call[r].op = "create" /\ held[r] = None
    BY <1>1, <1>3, <1>7 DEF CreateBot, CreateAvatar, InsertAvatar, At, Moves, Fits
  <2>2. pc'[r] \in {"bot", "dressed"} /\ call' = call /\ view'[r] = view[r]
    BY <1>5, <1>7 DEF CreateBot, CreateAvatar
  <2>. QED
    BY <1>1, <1>3, <2>1, <2>2 DEF Fits, Working
<1>8. CASE CreateParameters(r)
  <2>1. r \in Working /\ held' = held /\ call[r].op \in {"create", "put"} /\ held[r] = None
    BY <1>1, <1>3, <1>8 DEF CreateParameters, At, Moves, Fits
  <2>2. pc'[r] = "stored" /\ call' = call /\ view'[r] = view[r]
    BY <1>5, <1>8 DEF CreateParameters
  <2>. QED
    BY <1>1, <1>3, <2>1, <2>2 DEF Fits, Working
<1>9. CASE Patch(r)
  <2>1. r \in Working /\ call[r].op = "patch"
    BY <1>1, <1>9 DEF Patch, At, Moves
  <2>2. pc'[r] = "stored" /\ call' = call /\ view'[r] = view[r]
    BY <1>5, <1>9 DEF Patch
  <2>. QED
    BY <1>1, <1>3, <2>1, <2>2 DEF Fits, Working
<1>10. CASE ReadAgain(r)
  <2>1. CASE Exists(row)
    <3>1. r \in Working /\ pc[r] = "stored" /\ pc'[r] = "read" /\ call' = call
      BY <1>1, <1>10, <2>1 DEF ReadAgain, Moves, TypeOK
    <3>2. held'[r] = [id |-> First(row), profile |-> Source(r, row)]
      BY <1>1, <1>10, <2>1 DEF ReadAgain, TypeOK
    <3>3. held'[r] # None
      BY <3>2, <1>1, <2>1, SourceType, NoneAssumption
    <3>4. view'[r] = [Now EXCEPT !.prompt = IF call[r].op = "create" THEN None ELSE prompt]
      BY <1>1, <1>10, <2>1 DEF ReadAgain, TypeOK
    <3>5. view'[r] \in View /\ (call[r].op = "create" => view'[r].prompt = None)
      BY <3>4, <1>1, NowType DEF View, TypeOK, Now
    <3>. QED
      BY <1>1, <1>3, <3>1, <3>3, <3>5, NoneAssumption DEF Fits, Working
  <2>2. CASE ~Exists(row)
    <3>1. pc[r] = "stored" /\ held' = held /\ Goes(r, After(r))
      BY <1>10, <2>2 DEF ReadAgain
    <3>2. CASE call[r].op = "create"
      <4>1. pc'[r] = "prompted" /\ call' = call /\ view'[r] = view[r]
        BY <3>1, <3>2, <1>5 DEF After
      <4>. QED
        BY <1>1, <1>3, <3>1, <3>2, <4>1 DEF Fits, Working, Moves
    <3>3. CASE call[r].op # "create"
      BY <3>1, <3>3, <1>6 DEF After
    <3>. QED
      BY <3>2, <3>3
  <2>. QED
    BY <2>1, <2>2
<1>11. CASE WritePrompt(r)
  <2>1. pc[r] = "read" /\ held'[r] = None /\ Goes(r, After(r))
    BY <1>1, <1>11 DEF WritePrompt, TypeOK
  <2>2. CASE call[r].op = "create"
    <3>1. pc'[r] = "prompted" /\ call' = call /\ view'[r] = view[r]
      BY <2>1, <2>2, <1>5 DEF After
    <3>. QED
      BY <1>1, <1>3, <2>1, <2>2, <3>1 DEF Fits, Working, Moves
  <2>3. CASE call[r].op # "create"
    BY <2>1, <2>3, <1>6 DEF After
  <2>. QED
    BY <2>2, <2>3
<1>12. CASE Fail(r) \/ ImportTemplate(r) \/ DropParameters(r) \/ DeleteBot(r)
  BY <1>6, <1>12 DEF Fail, ImportTemplate, DropParameters, DeleteBot
<1>13. CASE AddAvatar(r) \/ ChangeAvatar(r) \/ DropAvatar(r)
  BY <1>6, <1>13 DEF AddAvatar, ChangeAvatar, DropAvatar
<1>14. CASE DropChapters(r) \/ KeepChapters(r)
  <2>1. CASE Goes(r, "done")
    BY <1>6, <2>1
  <2>2. CASE Goes(r, "emptied")
    <3>1. pc'[r] = "emptied" /\ call' = call /\ view'[r] = view[r]
      BY <1>5, <2>2
    <3>. QED
      BY <1>1, <1>3, <3>1 DEF Fits, Moves
  <2>. QED
    BY <1>14, <2>1, <2>2 DEF DropChapters, KeepChapters
<1>. QED
  BY <1>7, <1>8, <1>9, <1>10, <1>11, <1>12, <1>13, <1>14 DEF Acts

LEMMA PlacedBegin ==
    ASSUME Typed, NEW r \in Requests, NEW c \in Call, Begin(r, c)
    PROVE  Placed'
<1>1. TypeOK /\ Placed /\ c # None /\ c \in Call
  BY NoneAssumption DEF Typed
<1>2. /\ pc[r] = "new" /\ pc'[r] = "begun" /\ call'[r] = c /\ view'[r] = Now /\ held' = held
      /\ \A q \in Requests \ {r} : pc'[q] = pc[q] /\ call'[q] = call[q] /\ view'[q] = view[q]
  BY <1>1 DEF Begin, TypeOK
<1>3. Now \in View /\ Now # None
  BY <1>1, NowType, NoneAssumption
<1>4. c.op \in {"patch", "drop"} => Exists(Now.row)
  BY DEF Begin, Accepts, Now
<1>5. c.op = "drop_avatar" => Exists(Now.avatar)
  BY DEF Begin, Accepts, Now
<1>. QED
  BY <1>1, <1>2, <1>3, <1>4, <1>5 DEF Placed, Fits, Working

(* Whoever moves on may insert no more than before, and one row less when it  *)
(* inserts one.                                                              *)
LEMMA CountedStep ==
    ASSUME Typed, NEW r \in Requests, Acts(r)
    PROVE  Counted'
<1>1. TypeOK /\ Counted /\ Moves(r)
  BY MovesOnly DEF Typed
<1>2. lastRow \in Nat /\ lastAvatar \in Nat
  BY <1>1, Counts DEF TypeOK
<1>3. ASSUME NEW place \in {"bot", "dressed", "stored", "prompted", "emptied", "done", "failed"},
             Goes(r, place)
      PROVE  pc'[r] = place
  BY <1>1, <1>3 DEF Goes, TypeOK
<1>4. MayStore' \subseteq MayStore /\ MayDress' \subseteq MayDress
  <2>1. /\ pc'[r] \in {"new", "begun", "bot", "dressed"} => r \in MayStore
        /\ pc'[r] \in {"new", "begun", "bot"} => r \in MayDress
    <3>1. CASE CreateBot(r) \/ CreateAvatar(r)
      BY <1>3, <3>1 DEF CreateBot, CreateAvatar, At, MayStore, MayDress
    <3>2. CASE CreateParameters(r) \/ Patch(r)
      BY <1>3, <3>2 DEF CreateParameters, Patch
    <3>3. CASE ReadAgain(r)
      BY <1>1, <1>3, <3>3 DEF ReadAgain, After, TypeOK
    <3>4. CASE WritePrompt(r) \/ ImportTemplate(r) \/ Fail(r)
      BY <1>3, <3>4 DEF WritePrompt, After, ImportTemplate, Fail
    <3>5. CASE DropParameters(r) \/ DeleteBot(r)
      BY <1>3, <3>5 DEF DropParameters, DeleteBot
    <3>6. CASE AddAvatar(r) \/ ChangeAvatar(r) \/ DropAvatar(r)
      BY <1>3, <3>6 DEF AddAvatar, ChangeAvatar, DropAvatar
    <3>7. CASE DropChapters(r) \/ KeepChapters(r)
      BY <1>3, <3>7 DEF DropChapters, KeepChapters
    <3>. QED
      BY <3>1, <3>2, <3>3, <3>4, <3>5, <3>6, <3>7 DEF Acts
  <2>. QED
    BY <1>1, <2>1 DEF MayStore, MayDress, Moves
<1>5. /\ lastRow' + Cardinality(MayStore') <= Cardinality(Requests)
      /\ \A i \in Ids : i > lastRow' => row'[i] = None
  <2>1. CASE CreateParameters(r)
    <3>1. /\ lastRow' = lastRow + 1 /\ pc'[r] = "stored" /\ r \in MayStore
          /\ row' = [row EXCEPT ![lastRow + 1] = call[r].profile]
      BY <1>3, <2>1 DEF CreateParameters, At, MayStore
    <3>2. MayStore' \in SUBSET (MayStore \ {r})
      BY <1>4, <3>1 DEF MayStore
    <3>3. lastRow + 1 + Cardinality(MayStore \ {r}) <= Cardinality(Requests)
      BY <1>1, <1>2, <3>1, Room DEF Counted, MayStore
    <3>4. MayStore \ {r} \in SUBSET Requests /\ lastRow + 1 \in Nat
      BY <1>2 DEF MayStore
    <3>5. lastRow' + Cardinality(MayStore') <= Cardinality(Requests)
      BY <3>1, <3>2, <3>3, <3>4, LessNeedsLess
    <3>6. ASSUME NEW i \in Ids, i > lastRow' PROVE row'[i] = None
      <4>1. i \in Nat /\ i > lastRow /\ i # lastRow + 1
        BY <1>2, <3>1, <3>6, Counts
      <4>. QED
        BY <1>1, <3>1, <4>1 DEF Counted, TypeOK
    <3>. QED
      BY <3>5, <3>6
  <2>2. CASE ~CreateParameters(r)
    <3>1. lastRow' = lastRow /\ \A i \in Ids : row[i] = None => row'[i] = None
      <4>1. CASE Patch(r)
        BY <1>1, <4>1 DEF Patch, TypeOK
      <4>2. CASE CreateBot(r) \/ CreateAvatar(r) \/ AddAvatar(r)
        BY <1>1, <4>2 DEF CreateBot, CreateAvatar, AddAvatar, InsertAvatar, parts
      <4>3. CASE ReadAgain(r) \/ WritePrompt(r) \/ ImportTemplate(r) \/ Fail(r)
        BY <1>1, <4>3 DEF ReadAgain, WritePrompt, ImportTemplate, Fail, tables, parts
      <4>4. CASE DropParameters(r)
        BY <1>1, <4>4 DEF DropParameters, TypeOK
      <4>5. CASE DeleteBot(r) \/ ChangeAvatar(r) \/ DropAvatar(r)
        BY <1>1, <4>5 DEF DeleteBot, ChangeAvatar, DropAvatar, NoRows
      <4>6. CASE DropChapters(r) \/ KeepChapters(r)
        BY <1>1, <4>6 DEF DropChapters, KeepChapters, tables, parts
      <4>. QED
        BY <2>2, <4>1, <4>2, <4>3, <4>4, <4>5, <4>6 DEF Acts
    <3>2. MayStore' \in SUBSET MayStore /\ MayStore \in SUBSET Requests
      BY <1>4 DEF MayStore
    <3>3. lastRow + Cardinality(MayStore') <= Cardinality(Requests)
      BY <1>1, <1>2, <3>2, LessNeedsLess DEF Counted
    <3>. QED
      BY <1>1, <3>1, <3>3 DEF Counted
  <2>. QED
    BY <2>1, <2>2
<1>6. /\ lastAvatar' + Cardinality(MayDress') <= Cardinality(Requests)
      /\ \A i \in Ids : i > lastAvatar' => avatar'[i] = None
  <2>1. CASE CreateAvatar(r) \/ AddAvatar(r)
    <3>1. /\ lastAvatar' = lastAvatar + 1 /\ pc'[r] \in {"dressed", "done"} /\ r \in MayDress
          /\ \E look : avatar' = [avatar EXCEPT ![lastAvatar + 1] = look]
      BY <1>3, <2>1 DEF CreateAvatar, AddAvatar, InsertAvatar, At, MayDress
    <3>2. MayDress' \in SUBSET (MayDress \ {r})
      BY <1>4, <3>1 DEF MayDress
    <3>3. lastAvatar + 1 + Cardinality(MayDress \ {r}) <= Cardinality(Requests)
      BY <1>1, <1>2, <3>1, Room DEF Counted, MayDress
    <3>4. MayDress \ {r} \in SUBSET Requests /\ lastAvatar + 1 \in Nat
      BY <1>2 DEF MayDress
    <3>5. lastAvatar' + Cardinality(MayDress') <= Cardinality(Requests)
      BY <3>1, <3>2, <3>3, <3>4, LessNeedsLess
    <3>6. ASSUME NEW i \in Ids, i > lastAvatar' PROVE avatar'[i] = None
      <4>1. i \in Nat /\ i > lastAvatar /\ i # lastAvatar + 1
        BY <1>2, <3>1, <3>6, Counts
      <4>. QED
        BY <1>1, <3>1, <4>1 DEF Counted, TypeOK
    <3>. QED
      BY <3>5, <3>6
  <2>2. CASE ~(CreateAvatar(r) \/ AddAvatar(r))
    <3>1. lastAvatar' = lastAvatar /\ \A i \in Ids : avatar[i] = None => avatar'[i] = None
      <4>1. CASE CreateParameters(r) \/ Patch(r)
        BY <1>1, <4>1 DEF CreateParameters, Patch
      <4>2. CASE CreateBot(r)
        BY <1>1, <4>2 DEF CreateBot, parts
      <4>3. CASE ReadAgain(r) \/ WritePrompt(r) \/ ImportTemplate(r) \/ Fail(r)
        BY <1>1, <4>3 DEF ReadAgain, WritePrompt, ImportTemplate, Fail, tables, parts
      <4>4. CASE DropParameters(r) \/ DeleteBot(r)
        BY <1>1, <4>4 DEF DropParameters, DeleteBot, NoRows
      <4>5. CASE ChangeAvatar(r)
        BY <1>1, <4>5 DEF ChangeAvatar, TypeOK
      <4>6. CASE DropAvatar(r)
        BY <1>1, <4>6 DEF DropAvatar, TypeOK
      <4>7. CASE DropChapters(r) \/ KeepChapters(r)
        BY <1>1, <4>7 DEF DropChapters, KeepChapters, tables, parts
      <4>. QED
        BY <2>2, <4>1, <4>2, <4>3, <4>4, <4>5, <4>6, <4>7 DEF Acts
    <3>2. MayDress' \in SUBSET MayDress /\ MayDress \in SUBSET Requests
      BY <1>4 DEF MayDress
    <3>3. lastAvatar + Cardinality(MayDress') <= Cardinality(Requests)
      BY <1>1, <1>2, <3>2, LessNeedsLess DEF Counted
    <3>. QED
      BY <1>1, <3>1, <3>3 DEF Counted
  <2>. QED
    BY <2>1, <2>2
<1>. QED
  BY <1>5, <1>6 DEF Counted

LEMMA CountedBegin ==
    ASSUME Typed, NEW r \in Requests, NEW c \in Call, Begin(r, c)
    PROVE  Counted'
<1>1. MayStore' = MayStore /\ MayDress' = MayDress
  BY DEF Typed, TypeOK, Begin, MayStore, MayDress
<1>. QED
  BY <1>1 DEF Typed, Counted, Begin, tables, parts

LEMMA TypedInit == Init => Typed
<1>. SUFFICES ASSUME Init PROVE Typed
  OBVIOUS
<1>1. 0 \in Ids /\ NoRows \in [Ids -> {None}]
  BY Counts DEF Ids, NoRows
<1>2. /\ row \in [Ids -> Profiles \cup {None}]
      /\ avatar \in [Ids -> Looks \cup {None}]
      /\ \A i \in Ids : i > 0 => row[i] = None /\ avatar[i] = None
  BY <1>1 DEF Init
<1>3. TypeOK
  BY <1>1, <1>2 DEF Init, TypeOK
<1>4. MayStore = Requests /\ MayDress = Requests /\ Working = {}
  BY DEF Init, MayStore, MayDress, Working
<1>5. Counted
  BY <1>2, <1>4, Counts DEF Init, Counted
<1>6. Placed
  BY <1>4 DEF Init, Placed, Fits
<1>. QED
  BY <1>3, <1>5, <1>6 DEF Typed

LEMMA TypedNext ==
    ASSUME Typed, [Next]_vars
    PROVE  Typed'
<1>1. ASSUME NEW r \in Requests, NEW c \in Call, Begin(r, c) PROVE Typed'
  BY <1>1, TypesBegin, PlacedBegin, CountedBegin DEF Typed
<1>2. ASSUME NEW r \in Requests, Acts(r) PROVE Typed'
  BY <1>2, TypesStep, PlacedStep, CountedStep DEF Typed
<1>3. CASE UNCHANGED vars
  BY <1>3 DEF vars, tables, parts, Typed, TypeOK, Placed, Fits, Counted, Working, MayStore, MayDress
<1>. QED
  BY <1>1, <1>2, <1>3 DEF Next, Acts

(* Every variable has its type, and the ids suffice: no request ever needs   *)
(* one more than there are.                                                  *)
THEOREM PersonaTypes == Spec => []TypeOK
<1>1. Typed => TypeOK
  BY DEF Typed
<1>. QED
  BY <1>1, TypedInit, TypedNext, PTL DEF Spec

-----------------------------------------------------------------------------
(* A bot and its parts *)

LEMMA NothingOutlivesNext ==
    ASSUME Typed, NothingOutlivesItsBot, [Next]_vars
    PROVE  NothingOutlivesItsBot'
<1>. SUFFICES ASSUME bot' # "there"
              PROVE  row' = NoRows /\ avatar' = NoRows /\ ~chapters' /\ prompt' = None
  BY DEF NothingOutlivesItsBot, NoRows
<1>1. \A i \in Ids : NoRows[i] = None
  BY DEF NoRows
<1>2. ASSUME bot' = bot
      PROVE  row = NoRows /\ avatar = NoRows /\ ~chapters /\ prompt = None /\ ~HasBot
  BY <1>2 DEF NothingOutlivesItsBot, HasBot
<1>3. ASSUME NEW r \in Requests, Acts(r)
      PROVE  row' = NoRows /\ avatar' = NoRows /\ ~chapters' /\ prompt' = None
  <2>1. CASE CreateBot(r)
    BY <2>1 DEF CreateBot
  <2>2. CASE CreateAvatar(r) \/ CreateParameters(r) \/ AddAvatar(r)
    BY <1>2, <2>2 DEF CreateAvatar, AddAvatar, InsertAvatar, CreateParameters
  <2>3. CASE Patch(r)
    <3>1. Exists(view[r].row)
      BY <2>3 DEF Patch, At, Typed, Placed, Fits
    <3>2. First(view[r].row) \in Ids
      BY <3>1, FirstExists
    <3>3. row = NoRows /\ avatar' = avatar /\ chapters' = chapters /\ prompt' = prompt
      BY <1>2, <2>3 DEF Patch
    <3>4. row' = row
      BY <1>1, <2>3, <3>2, <3>3 DEF Patch
    <3>. QED
      BY <1>2, <2>3, <3>3, <3>4 DEF Patch
  <2>4. CASE ReadAgain(r) \/ Fail(r)
    BY <1>2, <2>4 DEF ReadAgain, Fail, tables, parts
  <2>5. CASE WritePrompt(r) \/ ImportTemplate(r)
    BY <1>2, <2>5 DEF WritePrompt, ImportTemplate, parts
  <2>6. CASE DropParameters(r)
    BY <1>2, <2>6 DEF DropParameters, NoRows
  <2>7. CASE DropAvatar(r)
    BY <1>2, <2>7 DEF DropAvatar, NoRows
  <2>8. CASE ChangeAvatar(r)
    <3>1. call[r] \in Call
      BY <2>8 DEF ChangeAvatar, At, Typed, TypeOK
    <3>2. call[r].id \in Ids
      BY <2>8, <3>1, CallTypes DEF ChangeAvatar, At
    <3>. QED
      BY <1>1, <1>2, <2>8, <3>2 DEF ChangeAvatar
  <2>9. CASE DeleteBot(r)
    BY <2>9 DEF DeleteBot
  <2>10. CASE DropChapters(r) \/ KeepChapters(r)
    BY <1>2, <2>10 DEF DropChapters, KeepChapters, tables, parts
  <2>. QED
    BY <1>3, <2>1, <2>2, <2>3, <2>4, <2>5, <2>6, <2>7, <2>8, <2>9, <2>10 DEF Acts
<1>4. ASSUME NEW r \in Requests, NEW c \in Call, Begin(r, c)
      PROVE  row' = NoRows /\ avatar' = NoRows /\ ~chapters' /\ prompt' = None
  BY <1>2, <1>4 DEF Begin, tables, parts
<1>5. CASE UNCHANGED vars
  BY <1>2, <1>5 DEF vars, tables, parts
<1>. QED
  BY <1>3, <1>4, <1>5 DEF Next, Acts

(* No parameters, avatar, chapters or prompt without the bot: the requests    *)
(* that add them have looked for it, if at all, in an earlier transaction.    *)
THEOREM PartsNeedTheBot == Spec => []NothingOutlivesItsBot
<1>1. Init => NothingOutlivesItsBot
  BY DEF Init, NothingOutlivesItsBot
<1>. QED
  BY <1>1, TypedInit, TypedNext, NothingOutlivesNext, PTL DEF Spec

LEMMA OnlyNamedFieldsStep ==
    ASSUME Typed, NEW r \in Requests, Acts(r), NEW i \in Ids
    PROVE  /\ row[i] # None /\ row'[i] # None =>
                \A f \in Fields : row'[i][f] # row[i][f] =>
                    /\ At(r, "patch", "begun") /\ pc'[r] = "stored"
                    /\ First(view[r].row) = i /\ call[r].changes[f] = row'[i][f]
           /\ avatar[i] # None /\ avatar'[i] # None /\ avatar'[i] # avatar[i] =>
                /\ call[r] \in AvatarCall /\ pc'[r] = "done"
                /\ call[r].id = i /\ call[r].look = avatar'[i]
<1>1. TypeOK /\ Counted
  BY DEF Typed
<1>2. lastRow \in Nat /\ lastAvatar \in Nat /\ Ids \subseteq Nat
  BY <1>1, Counts DEF TypeOK
<1>3. row[i] # None => i # lastRow + 1
  BY <1>1, <1>2 DEF Counted
<1>4. avatar[i] # None => i # lastAvatar + 1
  BY <1>1, <1>2 DEF Counted
<1>5. CASE CreateParameters(r)
  BY <1>1, <1>3, <1>5 DEF CreateParameters, TypeOK
<1>6. CASE CreateAvatar(r) \/ AddAvatar(r)
  BY <1>1, <1>4, <1>6 DEF CreateAvatar, AddAvatar, InsertAvatar, TypeOK
<1>7. CASE Patch(r)
  <2>. DEFINE k == First(view[r].row)
              old == view[r].row[k]
              mine == Patched(old, call[r].changes)
  <2>1. At(r, "patch", "begun") /\ pc'[r] = "stored" /\ avatar' = avatar
    BY <1>1, <1>7 DEF Patch, Goes, TypeOK
  <2>2. ASSUME row[i] # None, NEW f \in Fields, row'[i][f] # row[i][f]
        PROVE  k = i /\ row'[i][f] = mine[f] /\ mine[f] # old[f]
    <3>1. row[k] # None
      BY <1>7, <2>2 DEF Patch
    <3>2. row' = [row EXCEPT ![k] = [g \in Fields |->
                     IF mine[g] # old[g] THEN mine[g] ELSE row[k][g]]]
      BY <1>7, <3>1 DEF Patch
    <3>. HIDE DEF k, old, mine
    <3>3. k = i
      BY <1>1, <2>2, <3>2 DEF TypeOK
    <3>4. row'[i][f] = IF mine[f] # old[f] THEN mine[f] ELSE row[i][f]
      BY <1>1, <2>2, <3>2, <3>3 DEF TypeOK
    <3>. QED
      BY <2>2, <3>3, <3>4
  <2>3. ASSUME NEW f \in Fields, mine[f] # old[f]
        PROVE  mine[f] = call[r].changes[f]
    BY <2>3 DEF Patched
  <2>. HIDE DEF old, mine
  <2>4. ASSUME row[i] # None, NEW f \in Fields, row'[i][f] # row[i][f]
        PROVE  First(view[r].row) = i /\ call[r].changes[f] = row'[i][f]
    BY <2>2, <2>3, <2>4
  <2>. QED
    BY <2>1, <2>4
<1>8. CASE ReadAgain(r) \/ Fail(r)
  BY <1>8 DEF ReadAgain, Fail, tables, parts
<1>9. CASE WritePrompt(r) \/ ImportTemplate(r) \/ CreateBot(r)
  BY <1>9 DEF WritePrompt, ImportTemplate, CreateBot, parts
<1>10. CASE DropParameters(r)
  BY <1>1, <1>10 DEF DropParameters, TypeOK
<1>11. CASE DropAvatar(r)
  BY <1>1, <1>11 DEF DropAvatar, TypeOK
<1>12. CASE DeleteBot(r)
  BY <1>12 DEF DeleteBot, NoRows
<1>13. CASE ChangeAvatar(r)
  <2>1. call[r] \in Call /\ pc'[r] = "done" /\ row' = row
    BY <1>1, <1>13 DEF ChangeAvatar, At, Goes, TypeOK
  <2>2. call[r] \in AvatarCall
    BY <1>13, <2>1, CallTypes DEF ChangeAvatar, At
  <2>3. ASSUME avatar'[i] # avatar[i]
        PROVE  call[r].id = i /\ call[r].look = avatar'[i]
    BY <1>1, <1>13, <2>3 DEF ChangeAvatar, TypeOK
  <2>. QED
    BY <2>1, <2>2, <2>3
<1>14. CASE DropChapters(r) \/ KeepChapters(r)
  BY <1>14 DEF DropChapters, KeepChapters, tables, parts
<1>. QED
  BY <1>5, <1>6, <1>7, <1>8, <1>9, <1>10, <1>11, <1>12, <1>13, <1>14 DEF Acts

(* A field or a look changes only to what the PATCH or PUT of this very row   *)
(* asks for: one that loaded the row earlier does not take it back.           *)
THEOREM ChangesAreKept == Spec => OnlyNamedFieldsChange
<1>. DEFINE Kept == \A i \in Ids :
                /\ row[i] # None /\ row'[i] # None =>
                      \A f \in Fields : row'[i][f] # row[i][f] =>
                          \E r \in Requests :
                              /\ At(r, "patch", "begun") /\ pc'[r] = "stored"
                              /\ First(view[r].row) = i /\ call[r].changes[f] = row'[i][f]
                /\ avatar[i] # None /\ avatar'[i] # None /\ avatar'[i] # avatar[i] =>
                      \E r \in Working :
                          /\ call[r] \in AvatarCall /\ pc'[r] = "done"
                          /\ call[r].id = i /\ call[r].look = avatar'[i]
<1>1. ASSUME Typed, [Next]_vars PROVE [Kept]_vars
  <2>1. ASSUME NEW r \in Requests, NEW c \in Call, Begin(r, c) PROVE Kept
    BY <2>1 DEF Begin, tables, parts
  <2>2. ASSUME NEW r \in Requests, Acts(r) PROVE Kept
    <3>1. r \in Working
      BY <1>1, <2>2, MovesOnly DEF Typed, Moves
    <3>. QED
      BY <1>1, <2>2, <3>1, OnlyNamedFieldsStep
  <2>. HIDE DEF Kept
  <2>. QED
    BY <1>1, <2>1, <2>2 DEF Next, Acts
<1>. QED
  BY <1>1, TypedInit, TypedNext, PTL DEF Spec, OnlyNamedFieldsChange

-----------------------------------------------------------------------------
(* Requests that are served alone *)

(* While no other request is served, what r has seen is still so. *)
Served(r) ==
    /\ alone[r] => Working = {r}
    /\ alone[r] /\ pc[r] = "begun" => view[r] = Now
    /\ alone[r] /\ pc[r] = "stored" /\ held[r] # None => row[held[r].id] = held[r].profile
    /\ alone[r] /\ pc[r] = "read" =>
          /\ Exists(row) /\ held[r].profile = row[First(row)]
          /\ view[r].prompt \in {prompt, None}

AllServed == \A r \in Requests : Served(r)

LEMMA ServedStep ==
    ASSUME Typed, AllServed, NEW r \in Requests, Acts(r)
    PROVE  AllServed'
<1>1. TypeOK /\ Moves(r) /\ r \in Working /\ call[r] \in Call /\ Served(r) /\ Fits(r)
  BY MovesOnly, NoneAssumption DEF Typed, Placed, Fits, Moves, Working, AllServed, TypeOK
<1>2. ASSUME NEW q \in Requests \ {r} PROVE Served(q)'
  <2>1. ~alone[q]
    BY <1>1, <1>2 DEF AllServed, Served
  <2>. QED
    BY <1>1, <1>2, <2>1 DEF Moves, Served
<1>. SUFFICES ASSUME alone'[r] PROVE Served(r)'
  BY <1>2 DEF AllServed, Served
<1>3. alone[r] /\ Working = {r}
  BY <1>1 DEF Moves, Served, TypeOK
<1>4. ASSUME NEW place \in {"bot", "dressed", "stored", "prompted", "emptied", "done", "failed"},
             Goes(r, place)
      PROVE  pc'[r] = place /\ place \notin {"done", "failed"}
  BY <1>1, <1>4 DEF Goes, TypeOK
<1>5. ASSUME pc'[r] \notin {"new", "done", "failed"} PROVE Working' = {r}
  BY <1>1, <1>3, <1>5 DEF Moves, Working
<1>6. CASE CreateBot(r) \/ CreateAvatar(r)
  <2>1. pc'[r] \in {"bot", "dressed"}
    BY <1>4, <1>6 DEF CreateBot, CreateAvatar
  <2>. QED
    BY <1>5, <2>1 DEF Served
<1>7. CASE CreateParameters(r)
  <2>1. pc'[r] = "stored" /\ held'[r] = None
    BY <1>1, <1>4, <1>7 DEF CreateParameters, At, Fits
  <2>. QED
    BY <1>5, <2>1 DEF Served
<1>8. CASE Patch(r)
  <2>. DEFINE i == First(row)
              mine == Patched(row[i], call[r].changes)
  <2>1. pc'[r] = "stored"
    BY <1>4, <1>8 DEF Patch
  <2>2. view[r].row = row
    BY <1>1, <1>3, <1>8 DEF Patch, At, Served, Now
  <2>3. Exists(row)
    BY <1>1, <1>8, <2>2 DEF Patch, At, Fits
  <2>4. i \in Ids /\ row[i] # None /\ row[i] \in Profiles
    BY <1>1, <2>3, FirstExists DEF TypeOK
  <2>5. mine \in Profiles
    BY <1>1, <1>8, <2>4, PatchedType, CallTypes DEF Patch, At
  <2>6. row' = [row EXCEPT ![i] = [f \in Fields |->
                   IF mine[f] # row[i][f] THEN mine[f] ELSE row[i][f]]]
    BY <1>8, <2>2, <2>4 DEF Patch
  <2>7. held' = [held EXCEPT ![r] = [id |-> i, profile |-> mine]]
    BY <1>8, <2>2 DEF Patch
  <2>. HIDE DEF i, mine
  <2>8. [f \in Fields |-> IF mine[f] # row[i][f] THEN mine[f] ELSE row[i][f]] = mine
    BY <2>5 DEF Profiles
  <2>9. row'[i] = mine /\ held'[r].id = i /\ held'[r].profile = mine
    BY <1>1, <2>4, <2>6, <2>7, <2>8 DEF TypeOK
  <2>. QED
    BY <1>5, <2>1, <2>9 DEF Served
<1>9. CASE ReadAgain(r)
  <2>1. CASE Exists(row)
    <3>1. pc[r] = "stored" /\ pc'[r] = "read" /\ row' = row /\ prompt' = prompt
      BY <1>1, <1>9, <2>1 DEF ReadAgain, TypeOK, tables, parts
    <3>2. held'[r].profile = Source(r, row)
      BY <1>1, <1>9, <2>1 DEF ReadAgain, TypeOK
    <3>3. Source(r, row) = row[First(row)]
      BY <1>1, <1>3, <3>1 DEF Source, Served
    <3>4. view'[r] = [Now EXCEPT !.prompt = IF call[r].op = "create" THEN None ELSE prompt]
      BY <1>1, <1>9, <2>1 DEF ReadAgain, TypeOK
    <3>5. view'[r].prompt \in {prompt, None}
      BY <3>4 DEF Now
    <3>. QED
      BY <1>5, <2>1, <3>1, <3>2, <3>3, <3>5 DEF Served, Exists, First
  <2>2. CASE ~Exists(row)
    <3>1. pc'[r] = "prompted"
      BY <1>4, <1>9, <2>2 DEF ReadAgain, After
    <3>. QED
      BY <1>5, <3>1 DEF Served
  <2>. QED
    BY <2>1, <2>2
<1>10. CASE WritePrompt(r)
  <2>1. pc'[r] = "prompted"
    BY <1>4, <1>10 DEF WritePrompt, After
  <2>. QED
    BY <1>5, <2>1 DEF Served
<1>11. CASE ImportTemplate(r) \/ DropParameters(r) \/ DeleteBot(r) \/ Fail(r)
  BY <1>4, <1>11 DEF ImportTemplate, DropParameters, DeleteBot, Fail
<1>12. CASE AddAvatar(r) \/ ChangeAvatar(r) \/ DropAvatar(r)
  BY <1>4, <1>12 DEF AddAvatar, ChangeAvatar, DropAvatar
<1>13. CASE DropChapters(r) \/ KeepChapters(r)
  <2>1. pc'[r] = "emptied"
    BY <1>4, <1>13 DEF DropChapters, KeepChapters
  <2>. QED
    BY <1>5, <2>1 DEF Served
<1>. QED
  BY <1>6, <1>7, <1>8, <1>9, <1>10, <1>11, <1>12, <1>13 DEF Acts

LEMMA ServedBegin ==
    ASSUME Typed, NEW r \in Requests, NEW c \in Call, Begin(r, c)
    PROVE  AllServed'
<1>1. /\ \A q \in Requests : alone'[q] <=> q = r /\ Working = {}
      /\ pc'[r] = "begun" /\ view'[r] = Now /\ Now' = Now
      /\ \A q \in Requests \ {r} : pc'[q] = pc[q]
  BY DEF Typed, TypeOK, Begin, Now, tables, parts
<1>2. Working = {} => Working' = {r}
  BY <1>1 DEF Working
<1>. QED
  BY <1>1, <1>2 DEF AllServed, Served

LEMMA ServedNext ==
    ASSUME Typed, AllServed, [Next]_vars
    PROVE  AllServed'
<1>1. ASSUME UNCHANGED vars PROVE AllServed'
  BY <1>1 DEF vars, tables, parts, AllServed, Served, Working, Now
<1>. QED
  BY <1>1, ServedStep, ServedBegin DEF Next, Acts

(* The step that sets the prompt of a request that is served alone. *)
LEMMA AloneStep ==
    ASSUME Typed, AllServed, Next, NEW r \in Requests,
           alone[r], pc[r] = "read", pc'[r] \in {"prompted", "done"}
    PROVE  Exists(row') /\ prompt' = row'[First(row')]
<1>1. /\ TypeOK /\ r \in Working /\ held[r] # None
      /\ Exists(row) /\ held[r].profile = row[First(row)] /\ view[r].prompt \in {prompt, None}
  BY DEF Typed, Placed, Fits, AllServed, Served, Working
<1>2. Acts(r)
  <2>1. ASSUME NEW q \in Requests, NEW c \in Call, Begin(q, c) PROVE FALSE
    BY <1>1, <2>1 DEF Begin, TypeOK
  <2>2. ASSUME NEW q \in Requests, Acts(q) PROVE q = r
    BY <1>1, <2>2, MovesOnly DEF Moves
  <2>. QED
    BY <2>1, <2>2 DEF Next, Acts
<1>3. ~Fail(r)
  BY <1>1 DEF Fail, Goes, TypeOK
<1>4. WritePrompt(r)
  BY <1>2, <1>3 DEF Acts, CreateBot, CreateAvatar, CreateParameters, Patch, ReadAgain,
     ImportTemplate, DropParameters, AddAvatar, ChangeAvatar, DropAvatar, DropChapters,
     KeepChapters, DeleteBot, At
<1>5. row' = row /\ held[r].profile # None
  <2>1. held[r].profile \in Profiles
    BY <1>1 DEF TypeOK
  <2>. QED
    BY <1>4, <2>1, PersonaAssumption DEF WritePrompt, parts
<1>6. prompt' = held[r].profile
  BY <1>1, <1>4, <1>5 DEF WritePrompt
<1>. QED
  BY <1>1, <1>5, <1>6

(* Whatever state overlapping requests, failures and deletions have left, a   *)
(* request that is served alone builds the prompt from the parameters that    *)
(* are shown for the bot.                                                     *)
THEOREM PromptIsRightAlone == Spec => AlonePromptIsRight
<1>. DEFINE Right == \A r \in Requests :
                alone[r] /\ pc[r] = "read" /\ pc'[r] \in {"prompted", "done"} =>
                    Exists(row') /\ prompt' = row'[First(row')]
<1>1. Init => AllServed
  BY DEF Init, AllServed, Served
<1>2. Typed /\ AllServed /\ Next => Right
  BY AloneStep
<1>. HIDE DEF Right
<1>3. Typed /\ AllServed /\ [Next]_vars => [Right]_vars
  BY <1>2
<1>4. Spec => [][Right]_vars
  BY <1>1, <1>3, TypedInit, TypedNext, ServedNext, PTL DEF Spec
<1>. QED
  BY <1>4 DEF AlonePromptIsRight, Right

-----------------------------------------------------------------------------
(* Creations *)

HasAvatar == Exists(avatar) \/ Deleted("drop_avatar")
HasRow == Exists(row) \/ Deleted("drop")
HasPrompt == prompt # None \/ Deleted("drop")
HasChapters == chapters \/ emptied # {}

(* What a creation has made by each of its places, unless it was deleted. *)
Made(r) ==
    call[r] # None /\ call[r].op = "create" =>
        /\ pc[r] \in {"bot", "dressed", "stored", "read", "prompted", "done"} => bot # "unborn"
        /\ bot = "there" =>
            /\ pc[r] \in {"dressed", "stored", "read", "prompted", "done"} => HasAvatar
            /\ pc[r] \in {"stored", "read", "prompted", "done"} => HasRow
            /\ pc[r] \in {"prompted", "done"} => HasPrompt
            /\ pc[r] = "done" => HasChapters

AllMade == \A r \in Requests : Made(r)

(* A deletion that was answered stays answered. *)
LEMMA DeletedStays ==
    ASSUME TypeOK, NEW q \in Requests, Acts(q), NEW op, Deleted(op)
    PROVE  Deleted(op)'
<1>1. PICK p \in Requests : At(p, op, "done")
  BY DEF Deleted
<1>2. Moves(q)
  BY MovesOnly
<1>3. p # q
  BY <1>1, <1>2 DEF Moves, Working, At
<1>4. At(p, op, "done")'
  BY <1>1, <1>2, <1>3 DEF Moves, At
<1>. QED
  BY <1>4 DEF Deleted

(* Only a deletion of it takes a part away from a bot that stays. *)
LEMMA PartsStay ==
    ASSUME Typed, NEW q \in Requests, Acts(q), bot' = "there"
    PROVE  /\ bot = "there" \/ (bot = "unborn" /\ CreateBot(q))
           /\ HasAvatar => HasAvatar'
           /\ HasRow => HasRow'
           /\ HasPrompt => HasPrompt'
           /\ HasChapters => HasChapters'
<1>1. TypeOK /\ Counted /\ call[q] \in Call
  BY MovesOnly, NoneAssumption DEF Typed, Placed, Fits, Moves, Working, TypeOK
<1>2. lastRow \in Nat /\ lastAvatar \in Nat /\ None \notin Profiles \cup Looks
  BY <1>1, Counts, PersonaAssumption DEF TypeOK
<1>3. ASSUME NEW op, At(q, op, "begun"), Goes(q, "done") PROVE Deleted(op)'
  BY <1>1, <1>3 DEF Goes, At, Deleted, TypeOK
<1>4. /\ bot = "there" \/ (bot = "unborn" /\ CreateBot(q))
      /\ HasChapters => HasChapters'
      /\ prompt # None => prompt' # None
  <2>1. CASE WritePrompt(q)
    <3>1. held[q].profile \in Profiles
      BY <1>1, <2>1 DEF WritePrompt, Typed, Placed, Fits, TypeOK
    <3>. QED
      BY <1>2, <2>1, <3>1 DEF WritePrompt, parts, HasChapters
  <2>2. CASE CreateBot(q)
    BY <2>2 DEF CreateBot, parts, HasChapters
  <2>3. CASE CreateAvatar(q) \/ AddAvatar(q) \/ ChangeAvatar(q) \/ DropAvatar(q)
    BY <2>3 DEF CreateAvatar, AddAvatar, InsertAvatar, ChangeAvatar, DropAvatar, HasChapters
  <2>4. CASE CreateParameters(q) \/ Patch(q) \/ DropParameters(q) \/ ImportTemplate(q)
    BY <2>4 DEF CreateParameters, Patch, DropParameters, ImportTemplate, HasChapters
  <2>5. CASE ReadAgain(q) \/ Fail(q)
    BY <2>5 DEF ReadAgain, Fail, tables, parts, HasChapters
  <2>6. CASE DeleteBot(q)
    BY <2>6 DEF DeleteBot
  <2>7. CASE DropChapters(q)
    BY <2>7 DEF DropChapters, HasChapters
  <2>8. CASE KeepChapters(q)
    BY <2>8 DEF KeepChapters, tables, parts, HasChapters
  <2>. QED
    BY <2>1, <2>2, <2>3, <2>4, <2>5, <2>6, <2>7, <2>8 DEF Acts
<1>5. ASSUME Exists(avatar) PROVE HasAvatar'
  <2>1. PICK i \in Ids : avatar[i] # None
    BY <1>5 DEF Exists
  <2>2. i # lastAvatar + 1
    BY <1>1, <1>2, <2>1, Counts DEF Counted
  <2>3. CASE DropAvatar(q)
    BY <1>3, <2>3 DEF DropAvatar, HasAvatar
  <2>4. CASE ~DropAvatar(q)
    <3>1. CASE CreateAvatar(q) \/ AddAvatar(q)
      <4>1. avatar'[i] = avatar[i]
        BY <1>1, <2>1, <2>2, <3>1 DEF CreateAvatar, AddAvatar, InsertAvatar, TypeOK
      <4>. QED
        BY <2>1, <4>1 DEF HasAvatar, Exists
    <3>2. CASE ChangeAvatar(q)
      <4>1. call[q].look \in Looks
        BY <1>1, <3>2, CallTypes DEF ChangeAvatar, At
      <4>2. avatar' = avatar \/ avatar' = [avatar EXCEPT ![call[q].id] = call[q].look]
        BY <3>2 DEF ChangeAvatar
      <4>3. avatar'[i] # None
        BY <1>1, <1>2, <2>1, <4>1, <4>2 DEF TypeOK
      <4>. QED
        BY <4>3 DEF HasAvatar, Exists
    <3>3. CASE CreateBot(q) \/ CreateParameters(q) \/ Patch(q) \/ DropParameters(q)
      BY <2>1, <3>3 DEF CreateBot, CreateParameters, Patch, DropParameters, parts, HasAvatar, Exists
    <3>4. CASE ReadAgain(q) \/ Fail(q) \/ WritePrompt(q) \/ ImportTemplate(q)
      BY <2>1, <3>4 DEF ReadAgain, Fail, WritePrompt, ImportTemplate, tables, parts, HasAvatar, Exists
    <3>5. CASE DeleteBot(q)
      BY <3>5 DEF DeleteBot
    <3>7. CASE DropChapters(q) \/ KeepChapters(q)
      BY <2>1, <3>7 DEF DropChapters, KeepChapters, tables, parts, HasAvatar, Exists
    <3>6. avatar'[i] # None => HasAvatar'
      BY DEF HasAvatar, Exists
    <3>. QED
      BY <2>4, <3>1, <3>2, <3>3, <3>4, <3>5, <3>6, <3>7 DEF Acts
  <2>. QED
    BY <2>3, <2>4
<1>6. ASSUME Exists(row) PROVE HasRow'
  <2>1. PICK i \in Ids : row[i] # None
    BY <1>6 DEF Exists
  <2>2. i # lastRow + 1
    BY <1>1, <1>2, <2>1, Counts DEF Counted
  <2>3. CASE DropParameters(q)
    BY <1>3, <2>3 DEF DropParameters, HasRow
  <2>4. CASE ~DropParameters(q)
    <3>1. CASE CreateParameters(q)
      <4>1. row'[i] = row[i]
        BY <1>1, <2>2, <3>1 DEF CreateParameters, TypeOK
      <4>. QED
        BY <2>1, <4>1 DEF HasRow, Exists
    <3>2. CASE Patch(q)
      <4>1. row'[i] # None
        <5>. DEFINE k == First(view[q].row)
                    old == view[q].row[k]
                    mine == Patched(old, call[q].changes)
                    new == [f \in Fields |-> IF mine[f] # old[f] THEN mine[f] ELSE row[k][f]]
        <5>1. row' = row \/ (row[k] # None /\ row' = [row EXCEPT ![k] = new])
          BY <3>2 DEF Patch
        <5>2. k \in Ids /\ old \in Profiles /\ mine \in Profiles
          <6>1. Exists(view[q].row) /\ view[q] \in View
            BY <1>1, <3>2 DEF Patch, At, Typed, Placed, Fits, Working, TypeOK
          <6>2. k \in Ids /\ old # None
            BY <6>1, FirstExists
          <6>3. old \in Profiles
            BY <6>1, <6>2 DEF View
          <6>. QED
            BY <1>1, <3>2, <6>2, <6>3, PatchedType, CallTypes DEF Patch, At
        <5>. HIDE DEF k, old, mine
        <5>3. row[k] # None => new \in Profiles
          BY <1>1, <5>2 DEF TypeOK, Profiles
        <5>. HIDE DEF new
        <5>. QED
          BY <1>1, <1>2, <2>1, <5>1, <5>2, <5>3 DEF TypeOK
      <4>. QED
        BY <4>1 DEF HasRow, Exists
    <3>3. CASE CreateBot(q) \/ CreateAvatar(q) \/ AddAvatar(q)
      BY <2>1, <3>3 DEF CreateBot, CreateAvatar, AddAvatar, InsertAvatar, parts, HasRow, Exists
    <3>4. CASE ReadAgain(q) \/ Fail(q) \/ WritePrompt(q) \/ ImportTemplate(q)
      BY <2>1, <3>4 DEF ReadAgain, Fail, WritePrompt, ImportTemplate, tables, parts, HasRow, Exists
    <3>5. CASE ChangeAvatar(q) \/ DropAvatar(q)
      BY <2>1, <3>5 DEF ChangeAvatar, DropAvatar, HasRow, Exists
    <3>6. CASE DeleteBot(q)
      BY <3>6 DEF DeleteBot
    <3>7. CASE DropChapters(q) \/ KeepChapters(q)
      BY <2>1, <3>7 DEF DropChapters, KeepChapters, tables, parts, HasRow, Exists
    <3>. QED
      BY <2>4, <3>1, <3>2, <3>3, <3>4, <3>5, <3>6, <3>7 DEF Acts
  <2>. QED
    BY <2>3, <2>4
<1>. QED
  BY <1>1, <1>4, <1>5, <1>6, DeletedStays DEF HasAvatar, HasRow, HasPrompt

LEMMA MadeStep ==
    ASSUME Typed, AllMade, NEW q \in Requests, Acts(q)
    PROVE  AllMade'
<1>1. TypeOK /\ Moves(q) /\ q \in Working /\ call' = call /\ Fits(q) /\ Counted
  BY MovesOnly DEF Typed, Placed, Moves
<1>2. bot # "unborn" => bot' # "unborn"
  BY DEF Acts, Fail, CreateBot, CreateAvatar, InsertAvatar, CreateParameters, Patch, ReadAgain,
     WritePrompt, ImportTemplate, DropParameters, AddAvatar, ChangeAvatar, DropAvatar, DropChapters,
     KeepChapters, DeleteBot, tables
<1>3. ASSUME NEW r \in Requests, r # q PROVE Made(r)'
  <2>1. pc'[r] = pc[r] /\ call'[r] = call[r] /\ Made(r)
    BY <1>1, <1>3 DEF Moves, AllMade
  <2>. HIDE DEF HasAvatar, HasRow, HasPrompt, HasChapters
  <2>2. CASE bot' = "there" /\ bot = "there"
    BY <1>2, <2>1, <2>2, PartsStay DEF Made
  <2>3. CASE bot' = "there" /\ bot = "unborn"
    BY <2>1, <2>3 DEF Made
  <2>4. CASE bot' # "there"
    BY <1>2, <2>1, <2>4 DEF Made
  <2>. QED
    BY <2>2, <2>3, <2>4, PartsStay
<1>. SUFFICES ASSUME call[q].op = "create" PROVE Made(q)'
  BY <1>1, <1>3 DEF AllMade, Made
<1>4. Made(q) /\ call[q] # None
  BY <1>1 DEF AllMade, Fits, Working
<1>5. ASSUME NEW place \in {"bot", "dressed", "stored", "prompted", "emptied", "done", "failed"},
             Goes(q, place)
      PROVE  pc'[q] = place
  BY <1>1, <1>5 DEF Goes, TypeOK
<1>6. CASE CreateBot(q)
  <2>1. pc'[q] = "bot" /\ bot' = "there"
    BY <1>5, <1>6 DEF CreateBot
  <2>. QED
    BY <2>1 DEF Made
<1>7. CASE CreateAvatar(q)
  <2>1. pc'[q] = "dressed" /\ bot' = "there"
    BY <1>5, <1>7 DEF CreateAvatar, InsertAvatar, HasBot
  <2>2. PICK look \in Looks : avatar' = [avatar EXCEPT ![lastAvatar + 1] = look]
    BY <1>7 DEF CreateAvatar, InsertAvatar
  <2>3. q \in MayDress /\ lastAvatar \in Nat
    BY <1>1, <1>7, Counts DEF CreateAvatar, At, MayDress, TypeOK
  <2>4. lastAvatar + 1 \in Ids
    BY <1>1, <2>3, Room DEF Counted, MayDress
  <2>5. avatar'[lastAvatar + 1] # None
    BY <1>1, <2>2, <2>4, PersonaAssumption DEF TypeOK
  <2>6. HasAvatar'
    BY <2>4, <2>5 DEF HasAvatar, Exists
  <2>. QED
    BY <2>1, <2>6 DEF Made
<1>8. CASE CreateParameters(q)
  <2>1. pc'[q] = "stored" /\ bot' = "there" /\ bot = "there" /\ pc[q] = "dressed"
    BY <1>5, <1>8 DEF CreateParameters, HasBot, At
  <2>2. HasAvatar'
    BY <1>4, <2>1, PartsStay DEF Made
  <2>3. q \in MayStore /\ lastRow \in Nat
    BY <1>1, <2>1, Counts DEF MayStore, TypeOK
  <2>4. lastRow + 1 \in Ids
    BY <1>1, <2>3, Room DEF Counted, MayStore
  <2>5. call[q].profile \in Profiles
    BY <1>1, <1>4, CallTypes DEF TypeOK
  <2>6. row'[lastRow + 1] # None
    BY <1>1, <1>8, <2>4, <2>5, PersonaAssumption DEF CreateParameters, TypeOK
  <2>7. HasRow'
    BY <2>4, <2>6 DEF HasRow, Exists
  <2>. QED
    BY <2>1, <2>2, <2>7 DEF Made
<1>9. CASE ReadAgain(q)
  <2>1. pc[q] = "stored" /\ bot' = bot
    BY <1>9 DEF ReadAgain, tables
  <2>2. bot = "there" => HasAvatar' /\ HasRow'
    BY <1>4, <2>1, PartsStay DEF Made
  <2>3. CASE Exists(row)
    <3>1. pc'[q] = "read"
      BY <1>1, <1>9, <2>3 DEF ReadAgain, TypeOK
    <3>. QED
      BY <1>4, <2>1, <2>2, <3>1 DEF Made
  <2>4. CASE ~Exists(row)
    <3>1. pc'[q] = "prompted"
      BY <1>5, <1>9, <2>4 DEF ReadAgain, After
    <3>2. bot = "there" => Deleted("drop")
      BY <1>4, <2>1, <2>4 DEF Made, HasRow
    <3>3. bot = "there" => HasPrompt'
      BY <1>1, <3>2, DeletedStays DEF HasPrompt
    <3>. QED
      BY <1>4, <2>1, <2>2, <3>1, <3>3 DEF Made
  <2>. QED
    BY <2>3, <2>4
<1>10. CASE WritePrompt(q)
  <2>1. pc[q] = "read" /\ pc'[q] = "prompted" /\ bot' = bot
    BY <1>5, <1>10 DEF WritePrompt, After
  <2>2. bot = "there" => HasAvatar' /\ HasRow'
    BY <1>4, <2>1, PartsStay DEF Made
  <2>3. held[q].profile \in Profiles /\ view[q].prompt = None
    BY <1>1, <2>1 DEF Fits, TypeOK
  <2>4. HasPrompt'
    BY <1>10, <2>3, PersonaAssumption DEF WritePrompt, HasPrompt
  <2>. QED
    BY <1>4, <2>1, <2>2, <2>4 DEF Made
<1>11. CASE ImportTemplate(q)
  <2>1. pc[q] = "prompted" /\ pc'[q] = "done" /\ bot' = bot /\ bot = "there" /\ HasChapters'
    BY <1>5, <1>11 DEF ImportTemplate, At, HasBot, HasChapters
  <2>2. HasAvatar' /\ HasRow' /\ HasPrompt'
    BY <1>4, <2>1, PartsStay DEF Made
  <2>. QED
    BY <2>1, <2>2 DEF Made
<1>12. CASE Fail(q)
  <2>1. pc'[q] = "failed"
    BY <1>5, <1>12 DEF Fail
  <2>. QED
    BY <2>1 DEF Made
<1>. QED
  BY <1>6, <1>7, <1>8, <1>9, <1>10, <1>11, <1>12
     DEF Acts, At, Patch, DropParameters, AddAvatar, ChangeAvatar, DropAvatar, DropChapters,
     KeepChapters, DeleteBot

LEMMA MadeNext ==
    ASSUME Typed, AllMade, [Next]_vars
    PROVE  AllMade'
<1>1. ASSUME NEW r \in Requests, NEW c \in Call, Begin(r, c) PROVE AllMade'
  <2>1. /\ pc'[r] = "begun" /\ \A q \in Requests \ {r} : pc'[q] = pc[q] /\ call'[q] = call[q]
        /\ pc[r] = "new" /\ UNCHANGED tables
    BY <1>1 DEF Typed, TypeOK, Begin
  <2>2. \A op : Deleted(op) => Deleted(op)'
    BY <2>1 DEF Deleted, At
  <2>3. (HasAvatar => HasAvatar') /\ (HasRow => HasRow') /\ (HasPrompt => HasPrompt')
    BY <2>1, <2>2 DEF HasAvatar, HasRow, HasPrompt, Exists, tables, parts
  <2>4. ASSUME NEW q \in Requests PROVE Made(q)'
    BY <2>1, <2>3 DEF AllMade, Made, HasChapters, tables, parts
  <2>. QED
    BY <2>4 DEF AllMade
<1>2. ASSUME UNCHANGED vars PROVE AllMade'
  BY <1>2 DEF vars, tables, parts, AllMade, Made, HasAvatar, HasRow, HasPrompt, HasChapters,
     Exists, Deleted, At
<1>. QED
  BY <1>1, <1>2, MadeStep DEF Next, Acts

(* A creation that was answered has made all of its bot: what is missing from *)
(* a bot that is there was deleted by a request that says so, the chapters    *)
(* also by a deletion of the bot that has got no further.                     *)
THEOREM CreationsAreWhole == Spec => []WholeOnceDone
<1>1. Init => AllMade
  BY DEF Init, AllMade, Made
<1>2. ASSUME AllMade PROVE WholeOnceDone
  <2>. SUFFICES ASSUME bot = "there", NEW r \in Requests, At(r, "create", "done")
                PROVE  HasAvatar /\ HasRow /\ HasPrompt /\ HasChapters
    BY DEF WholeOnceDone, HasAvatar, HasRow, HasPrompt, HasChapters
  <2>. QED
    BY <1>2 DEF AllMade, Made, At
<1>. QED
  BY <1>1, <1>2, TypedInit, TypedNext, MadeNext, PTL DEF Spec

=============================================================================
