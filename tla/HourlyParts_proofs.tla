------------------------- MODULE HourlyParts_proofs -------------------------
(***************************************************************************)
(* What surrounds an hourly reservation keeps its limits and ends what has   *)
(* ended, for any numbers of customers, reservations, offers, entries of the *)
(* waitlist, requests and jobs.  Every component has an inductive invariant: *)
(* its types, and what a request that has locked a row and looked at it may  *)
(* rely on until it commits.                                                 *)
(***************************************************************************)
EXTENDS HourlyParts, TLAPS, FiniteSetTheorems

-----------------------------------------------------------------------------
(* An instance has names of its own for the operators that its module        *)
(* extends; they mean the same.                                              *)

LEMMA SameCardinality ==
  /\ \A S : Extras!Cardinality(S) = Cardinality(S)
  /\ \A S : Blocks!Cardinality(S) = Cardinality(S)
  /\ \A S : Transfers!Cardinality(S) = Cardinality(S)
  /\ \A S : Reminders!Cardinality(S) = Cardinality(S)
  BY DEF Extras!Cardinality, Blocks!Cardinality, Transfers!Cardinality,
         Reminders!Cardinality, Cardinality

LEMMA SameBijection ==
  /\ \A S, T : Extras!Bijection(S, T) = Bijection(S, T)
  /\ \A S, T : Blocks!Bijection(S, T) = Bijection(S, T)
  BY DEF Extras!Bijection, Extras!Injection, Extras!Surjection,
         Extras!IsInjective, Blocks!Bijection, Blocks!Injection,
         Blocks!Surjection, Blocks!IsInjective,
         Bijection, Injection, Surjection, IsInjective

-----------------------------------------------------------------------------
(* Add-ons and promotions. *)

\* The rows, and what a request has read and asks for.
Shapes(users, requests) ==
  [user : users \cup {None}, resource : {r.resource : r \in requests} \cup {None},
   slot : Hours \cup {None}, quantity : Nat, code : BOOLEAN, active : BOOLEAN]

RequestWork(users, requests) ==
  [op : {"book", "move"}, step : {"user", "resource", "addon", "promotion", "commit"},
   user : users, resource : {r.resource : r \in requests} \cup {None},
   slots : SUBSET Hours, quantity : Nat, code : BOOLEAN, row : Ids \cup {None}]
ExtrasWork(users, requests) ==
  [op : {"idle"}] \cup RequestWork(users, requests)
  \cup [op : {"unblock"}, user : users]

ExtrasType ==
  /\ bookings \in [Ids -> Shapes(Customers, Wishes)]
  /\ promotion \in [active : BOOLEAN, count : Nat]
  /\ work \in [Sessions -> ExtrasWork(Customers, Wishes)]

\* What a request says of the rows: a move names a booking, and its pieces.
RowNamed(w) ==
  /\ w.op = "book" => w.row = None
  /\ w.op = "move" =>
       /\ w.row \in Ids /\ bookings[w.row].user = w.user
       /\ bookings[w.row].quantity = w.quantity /\ ~w.code
  /\ w.op \in {"book", "move"} => IsFiniteSet(w.slots)

\* The requests that keep the add-on's row and the promotion's, and what they
\* found there.
Taking(w) ==
  /\ w.op \in {"book", "move"} /\ w.step \in Extras!AfterAddOn
  /\ w.quantity > 0
Room(w) ==
  \A slot \in w.slots :
    Cardinality(Extras!Pieces(slot, Ids \ {w.row})) + w.quantity <= Stock
Redeeming(w) == w.op \in {"book", "move"} /\ w.step = "commit" /\ w.code
Redeemable(w) == promotion.count + Cardinality(w.slots) <= MaxRedemptions

KeptBy(w, s) ==
  /\ RowNamed(w)
  /\ Taking(w) => Room(w) /\ \A t \in Sessions : Taking(work[t]) => t = s
  /\ Redeeming(w) =>
       Redeemable(w) /\ \A t \in Sessions : Redeeming(work[t]) => t = s
ExtrasKept == \A s \in Sessions : KeptBy(work[s], s)

Redeemed == {i \in Ids : bookings[i].code}
ExtrasCounted ==
  /\ \A slot \in Hours : Cardinality(Extras!Pieces(slot, Ids)) <= Stock
  /\ promotion.count = Cardinality(Redeemed) /\ promotion.count <= MaxRedemptions

ExtrasInv ==
  /\ ExtrasType /\ ExtrasKept /\ ExtrasCounted
  /\ \A i \in Ids : bookings[i].active => bookings[i].user \in Customers

LEMMA PiecesOf ==
  ASSUME NEW slot, NEW ids
  PROVE  \A x : x \in Extras!Pieces(slot, ids) <=>
           \E i \in ids : /\ bookings[i].active /\ bookings[i].slot = slot
                          /\ x \in {i} \X (1 .. bookings[i].quantity)
  BY DEF Extras!Pieces

LEMMA PiecesFinite ==
  ASSUME ExtrasType, NEW slot, NEW ids \in SUBSET Ids
  PROVE  /\ IsFiniteSet(Extras!Pieces(slot, ids))
         /\ Cardinality(Extras!Pieces(slot, ids)) \in Nat
  <1> DEFINE rows == {i \in ids : bookings[i].active /\ bookings[i].slot = slot}
             pieces(i) == {i} \X (1 .. bookings[i].quantity)
             f == [i \in rows |-> pieces(i)]
             S == {pieces(i) : i \in rows}
  <1>1. IsFiniteSet(rows)
    BY ExtrasAssumption, FS_Subset
  <1>2. f \in Surjection(rows, S)
    BY DEF Surjection
  <1>3. IsFiniteSet(S)
    BY <1>1, <1>2, FS_Surjection
  <1>4. ASSUME NEW i \in rows
        PROVE  IsFiniteSet(pieces(i))
    <2>1. IsFiniteSet({i})
      BY FS_Singleton
    <2>2. bookings[i].quantity \in Nat
      BY DEF ExtrasType, Shapes
    <2>3. IsFiniteSet(1 .. bookings[i].quantity)
      BY <2>2, FS_Interval
    <2> QED BY <2>1, <2>3, FS_Product
  <1>5. IsFiniteSet(UNION S)
    BY <1>3, <1>4, FS_UNION
  <1>6. Extras!Pieces(slot, ids) = UNION S
    BY DEF Extras!Pieces
  <1> QED BY <1>5, <1>6, FS_CardinalityType

LEMMA Added ==
  ASSUME NEW A, NEW B, NEW i, NEW n \in Nat, IsFiniteSet(A),
         B \subseteq A \cup ({i} \X (1 .. n))
  PROVE  Cardinality(B) <= Cardinality(A) + n
  <1> DEFINE C == {i} \X (1 .. n)
  <1>1. IsFiniteSet(C) /\ Cardinality(C) = n
    <2>1. IsFiniteSet({i}) /\ Cardinality({i}) = 1
      BY FS_Singleton
    <2>2. IsFiniteSet(1 .. n) /\ Cardinality(1 .. n) = n
      BY FS_Interval
    <2>3. IsFiniteSet(C) /\ Cardinality(C) = 1 * n
      BY <2>1, <2>2, FS_Product
    <2> QED BY <2>3
  <1> HIDE DEF C
  <1>2. /\ IsFiniteSet(A \cup C)
        /\ Cardinality(A \cup C) = Cardinality(A) + Cardinality(C) - Cardinality(A \cap C)
    BY <1>1, FS_Union
  <1>3. /\ Cardinality(A) \in Nat /\ Cardinality(A \cap C) \in Nat
        /\ Cardinality(A \cup C) \in Nat
    BY <1>1, <1>2, FS_Intersection, FS_CardinalityType
  <1>4. Cardinality(B) <= Cardinality(A \cup C) /\ Cardinality(B) \in Nat
    BY <1>2, FS_Subset, FS_CardinalityType DEF C
  <1> QED BY <1>1, <1>2, <1>3, <1>4

LEMMA ExtrasStart == Extras!Init => ExtrasInv
  <1> SUFFICES ASSUME Extras!Init PROVE ExtrasInv
    OBVIOUS
  <1>1. ExtrasType
    BY DEF Extras!Init, Extras!NoBooking, Extras!Idle, ExtrasType, Shapes, ExtrasWork
  <1>2. ExtrasKept
    BY DEF Extras!Init, Extras!Idle, ExtrasKept, KeptBy, RowNamed, Taking, Redeeming
  <1>3. \A slot : Extras!Pieces(slot, Ids) = {}
    BY DEF Extras!Init, Extras!NoBooking, Extras!Pieces
  <1>4. Redeemed = {}
    BY DEF Extras!Init, Extras!NoBooking, Redeemed
  <1>5. ExtrasCounted
    <2>1. Cardinality({}) = 0
      BY ONLY FS_EmptySet
    <2>2. 0 <= Stock /\ 0 <= MaxRedemptions
      BY ExtrasAssumption
    <2>3. promotion.count = 0
      BY DEF Extras!Init
    <2> QED
      BY ONLY <1>3, <1>4, <2>1, <2>2, <2>3 DEF ExtrasCounted
  <1> QED
    BY <1>1, <1>2, <1>5 DEF ExtrasInv, Extras!Init, Extras!NoBooking

LEMMA ExtrasBoundedThen == ExtrasInv => Extras!ExtrasBounded
  <1> SUFFICES ASSUME ExtrasInv PROVE Extras!ExtrasBounded
    OBVIOUS
  <1>1. \A slot \in Hours : Cardinality(Extras!Pieces(slot, Ids)) \in Nat
    BY PiecesFinite DEF ExtrasInv
  <1>2. \A slot \in Hours : Extras!Reserved(slot, Ids) + 0 <= Stock
    BY <1>1, SameCardinality, ExtrasAssumption DEF ExtrasInv, ExtrasCounted,
       Extras!Reserved
  <1> QED
    BY <1>2, SameCardinality DEF ExtrasInv, ExtrasCounted, Redeemed,
       Extras!ExtrasBounded, Extras!InStock

\* A request goes on: the rows are as they were.
LEMMA ExtrasGoesOn ==
  ASSUME ExtrasInv, NEW s \in Sessions, NEW w \in ExtrasWork(Customers, Wishes),
         work' = [work EXCEPT ![s] = w], UNCHANGED <<bookings, promotion>>,
         RowNamed(w),
         Taking(w) => Room(w) /\ \A t \in Sessions \ {s} : ~Taking(work[t]),
         Redeeming(w) => Redeemable(w) /\ \A t \in Sessions \ {s} : ~Redeeming(work[t])
  PROVE  ExtrasInv'
  <1>1. ExtrasType'
    BY DEF ExtrasInv, ExtrasType
  <1>2. \A t \in Sessions : work'[t] = IF t = s THEN w ELSE work[t]
    BY DEF ExtrasInv, ExtrasType
  <1>3. \A slot, ids : Extras!Pieces(slot, ids)' = Extras!Pieces(slot, ids)
    BY DEF Extras!Pieces
  <1>4. /\ \A v : (RowNamed(v) <=> RowNamed(v)')
        /\ \A v : (Room(v) <=> Room(v)') /\ (Redeemable(v) <=> Redeemable(v)')
    BY <1>3 DEF RowNamed, Room, Redeemable
  <1>5. ExtrasKept'
    <2>1. ASSUME NEW t \in Sessions, NEW v, v = work'[t]
          PROVE  /\ RowNamed(v)
                 /\ Taking(v) =>
                      Room(v) /\ \A u \in Sessions : Taking(work'[u]) => u = t
                 /\ Redeeming(v) =>
                      /\ Redeemable(v)
                      /\ \A u \in Sessions : Redeeming(work'[u]) => u = t
      BY <1>2, <2>1 DEF ExtrasInv, ExtrasKept, KeptBy
    <2>2. ASSUME NEW t \in Sessions, NEW v, v = work'[t]
          PROVE  KeptBy(v, t)'
      BY <1>4, <2>1, <2>2 DEF KeptBy, Taking, Redeeming
    <2> QED BY <2>2 DEF ExtrasKept, KeptBy, RowNamed, Room, Redeemable, Taking,
               Redeeming
  <1>6. ExtrasCounted'
    BY <1>3 DEF ExtrasInv, ExtrasCounted, Redeemed
  <1> QED BY <1>1, <1>5, <1>6 DEF ExtrasInv

LEMMA ExtrasBegins ==
  ASSUME ExtrasInv, NEW s \in Sessions,
         \/ \E r \in Wishes : Extras!BookStart(s, r)
         \/ \E i \in Ids, slot \in Hours : Extras!MoveStart(s, i, slot)
         \/ Extras!Abort(s) \/ Extras!UnblockCommit(s)
         \/ \E u \in Customers : Extras!UnblockRead(s, u)
  PROVE  ExtrasInv'
  <1> USE DEF Extras!Start, Extras!Finish, Extras!Idle
  <1>1. ASSUME NEW r \in Wishes, Extras!BookStart(s, r)
        PROVE  ExtrasInv'
    <2> DEFINE w == [op |-> "book", step |-> "user", user |-> r.user,
                     resource |-> r.resource, slots |-> r.slots,
                     quantity |-> r.quantity, code |-> r.code, row |-> None]
    <2>1. w \in ExtrasWork(Customers, Wishes)
      BY ExtrasAssumption DEF ExtrasWork, RequestWork
    <2>2. RowNamed(w) /\ ~Taking(w) /\ ~Redeeming(w)
      BY ExtrasAssumption DEF RowNamed, Taking, Redeeming, Extras!AfterAddOn
    <2>3. work' = [work EXCEPT ![s] = w] /\ UNCHANGED <<bookings, promotion>>
      BY <1>1 DEF Extras!BookStart
    <2> HIDE DEF w
    <2> QED BY ONLY ExtrasInv, s \in Sessions, <2>1, <2>2, <2>3, ExtrasGoesOn
  <1>2. ASSUME NEW i \in Ids, NEW slot \in Hours, Extras!MoveStart(s, i, slot)
        PROVE  ExtrasInv'
    <2> DEFINE w == [op |-> "move", step |-> "user", user |-> bookings[i].user,
                     resource |-> bookings[i].resource, slots |-> {slot},
                     quantity |-> bookings[i].quantity, code |-> FALSE, row |-> i]
    <2>0. bookings[i] \in Shapes(Customers, Wishes) /\ bookings[i].user \in Customers
      BY <1>2 DEF ExtrasInv, ExtrasType, Extras!MoveStart
    <2>1. w \in ExtrasWork(Customers, Wishes)
      BY <2>0 DEF ExtrasWork, RequestWork, Shapes
    <2>2. RowNamed(w) /\ ~Taking(w) /\ ~Redeeming(w)
      BY FS_Singleton DEF RowNamed, Taking, Redeeming, Extras!AfterAddOn
    <2>3. work' = [work EXCEPT ![s] = w] /\ UNCHANGED <<bookings, promotion>>
      BY <1>2 DEF Extras!MoveStart
    <2> HIDE DEF w
    <2> QED BY ONLY ExtrasInv, s \in Sessions, <2>1, <2>2, <2>3, ExtrasGoesOn
  <1>3. ASSUME Extras!Abort(s) \/ Extras!UnblockCommit(s)
        PROVE  ExtrasInv'
    <2>1. /\ work' = [work EXCEPT ![s] = Extras!Idle]
          /\ UNCHANGED <<bookings, promotion>>
      BY <1>3 DEF Extras!Abort, Extras!UnblockCommit
    <2>2. /\ Extras!Idle \in ExtrasWork(Customers, Wishes)
          /\ RowNamed(Extras!Idle) /\ ~Taking(Extras!Idle) /\ ~Redeeming(Extras!Idle)
      BY DEF ExtrasWork, RowNamed, Taking, Redeeming
    <2> HIDE DEF Extras!Idle
    <2> QED BY ONLY ExtrasInv, s \in Sessions, <2>1, <2>2, ExtrasGoesOn
  <1>4. ASSUME NEW u \in Customers, Extras!UnblockRead(s, u)
        PROVE  ExtrasInv'
    <2> DEFINE w == [op |-> "unblock", user |-> u]
    <2>1. work' = [work EXCEPT ![s] = w] /\ UNCHANGED <<bookings, promotion>>
      BY <1>4 DEF Extras!UnblockRead
    <2>2. /\ w \in ExtrasWork(Customers, Wishes)
          /\ RowNamed(w) /\ ~Taking(w) /\ ~Redeeming(w)
      BY DEF ExtrasWork, RowNamed, Taking, Redeeming
    <2> HIDE DEF w
    <2> QED BY ONLY ExtrasInv, s \in Sessions, <2>1, <2>2, ExtrasGoesOn
  <1> QED BY <1>1, <1>2, <1>3, <1>4

\* A request takes its next lock.
LEMMA ExtrasLocks ==
  ASSUME ExtrasInv, NEW s \in Sessions,
         \/ Extras!LockUser(s) \/ Extras!LockResource(s)
         \/ Extras!LockAddOn(s) \/ Extras!LockPromotion(s)
  PROVE  ExtrasInv'
  <1>1. work[s] \in RequestWork(Customers, Wishes)
    BY DEF ExtrasInv, ExtrasType, ExtrasWork, Extras!LockUser, Extras!LockResource,
       Extras!LockAddOn, Extras!LockPromotion, Extras!At
  <1>2. RowNamed(work[s])
    BY DEF ExtrasInv, ExtrasKept, KeptBy
  <1> SUFFICES ASSUME NEW step \in {"resource", "addon", "promotion", "commit"},
                      NEW w, w = [work[s] EXCEPT !.step = step],
                      Extras!Continue(s, step),
                      UNCHANGED <<bookings, promotion>>,
                      \/ Extras!LockUser(s) /\ step = "resource"
                      \/ /\ Extras!LockResource(s)
                         /\ step = IF work[s].quantity > 0 THEN "addon"
                                   ELSE IF work[s].code THEN "promotion"
                                        ELSE "commit"
                      \/ /\ Extras!LockAddOn(s)
                         /\ step = IF work[s].code THEN "promotion" ELSE "commit"
                      \/ Extras!LockPromotion(s) /\ step = "commit"
               PROVE  ExtrasInv'
    BY DEF Extras!LockUser, Extras!LockResource, Extras!LockAddOn, Extras!LockPromotion
  <1>3. /\ w \in RequestWork(Customers, Wishes) /\ w.step = step
        /\ w.op = work[s].op /\ w.user = work[s].user /\ w.row = work[s].row
        /\ w.quantity = work[s].quantity /\ w.code = work[s].code
        /\ w.slots = work[s].slots
    BY <1>1 DEF RequestWork
  <1>4. RowNamed(w)
    BY <1>2, <1>3 DEF RowNamed
  <1>5. work' = [work EXCEPT ![s] = w]
    BY <1>1 DEF Extras!Continue
  <1>6. ASSUME Taking(w)
        PROVE  Room(w) /\ \A t \in Sessions \ {s} : ~Taking(work[t])
    <2>1. CASE Taking(work[s])
      BY <1>3, <2>1 DEF ExtrasInv, ExtrasKept, KeptBy, Room
    <2>2. CASE ~Taking(work[s])
      <3>1. Extras!LockAddOn(s)
        BY <1>1, <1>3, <1>6, <2>2 DEF Taking, Extras!LockUser, Extras!LockResource,
           Extras!LockPromotion, Extras!At, Extras!AfterAddOn
      <3>2. \A t \in Sessions : ~Taking(work[t])
        BY <3>1 DEF Extras!LockAddOn, Extras!AddOnFree, Extras!Past, Taking
      <3>3. Room(w)
        BY <1>3, <3>1, SameCardinality DEF Extras!LockAddOn, Extras!InStock,
           Extras!Reserved, Room
      <3> QED BY <3>2, <3>3
    <2> QED BY <2>1, <2>2
  <1>7. ASSUME Redeeming(w)
        PROVE  Redeemable(w) /\ \A t \in Sessions \ {s} : ~Redeeming(work[t])
    <2>1. Extras!LockPromotion(s)
      BY <1>3, <1>7 DEF Redeeming, Extras!LockUser, Extras!LockResource,
         Extras!LockAddOn
    <2>2. \A t \in Sessions : ~Redeeming(work[t])
      BY <2>1 DEF Extras!LockPromotion, Extras!PromotionFree, Extras!Past, Redeeming
    <2>3. Redeemable(w)
      BY <1>3, <2>1, SameCardinality DEF Extras!LockPromotion,
         Extras!StillRedeemable, Extras!Redeemable, Redeemable
    <2> QED BY <2>2, <2>3
  <1>8. w \in ExtrasWork(Customers, Wishes)
    BY <1>3 DEF ExtrasWork
  <1> QED
    BY ONLY ExtrasInv, s \in Sessions, UNCHANGED <<bookings, promotion>>,
       <1>4, <1>5, <1>6, <1>7, <1>8, ExtrasGoesOn

\* Where no piece comes, there is still room.
LEMMA FewerPieces ==
  ASSUME ExtrasType,
         \A slot \in Hours, ids \in SUBSET Ids :
           Extras!Pieces(slot, ids)' \subseteq Extras!Pieces(slot, ids)
  PROVE  \A slot \in Hours, ids \in SUBSET Ids :
           /\ Cardinality(Extras!Pieces(slot, ids)) \in Nat
           /\ Cardinality(Extras!Pieces(slot, ids)') \in Nat
           /\ Cardinality(Extras!Pieces(slot, ids)') <=
                Cardinality(Extras!Pieces(slot, ids))
  BY PiecesFinite, FS_Subset, FS_CardinalityType

LEMMA RoomRemains ==
  ASSUME ExtrasType, NEW w \in RequestWork(Customers, Wishes), Room(w),
         \A slot \in Hours, ids \in SUBSET Ids :
           Extras!Pieces(slot, ids)' \subseteq Extras!Pieces(slot, ids)
  PROVE  \A slot \in w.slots :
           Cardinality(Extras!Pieces(slot, Ids \ {w.row})') + w.quantity <= Stock
  <1> SUFFICES ASSUME NEW slot \in w.slots
               PROVE  Cardinality(Extras!Pieces(slot, Ids \ {w.row})')
                        + w.quantity <= Stock
    OBVIOUS
  <1> DEFINE before == Cardinality(Extras!Pieces(slot, Ids \ {w.row}))
             after == Cardinality(Extras!Pieces(slot, Ids \ {w.row})')
  <1>1. slot \in Hours /\ w.quantity \in Nat
    BY DEF RequestWork
  <1>2. before \in Nat /\ after \in Nat /\ after <= before
    BY <1>1, FewerPieces
  <1>3. before + w.quantity <= Stock
    BY DEF Room
  <1> HIDE DEF before, after
  <1>4. after + w.quantity <= Stock
    BY ONLY <1>1, <1>2, <1>3, ExtrasAssumption
  <1> QED BY <1>4 DEF after

\* What the other requests rely on after a request has committed, or a booking
\* was cancelled.
LEMMA ExtrasOthers ==
  ASSUME ExtrasInv, NEW S \in SUBSET Sessions,
         \A t \in Sessions : work'[t] = IF t \in S THEN Extras!Idle ELSE work[t],
         \A i \in Ids : bookings[i].user \in Customers =>
           /\ bookings'[i].user = bookings[i].user
           /\ bookings'[i].quantity = bookings[i].quantity,
         (\E t \in Sessions \ S : Redeeming(work[t])) => UNCHANGED promotion,
         (\E t \in Sessions \ S : Taking(work[t])) =>
           \A slot \in Hours, ids \in SUBSET Ids :
             Extras!Pieces(slot, ids)' \subseteq Extras!Pieces(slot, ids)
  PROVE  ExtrasKept'
  <1>1. ~Taking(Extras!Idle) /\ ~Redeeming(Extras!Idle)
    BY DEF Extras!Idle, Taking, Redeeming
  <1>2. ASSUME NEW t \in Sessions, NEW v, v = work'[t]
        PROVE  RowNamed(v)'
    <2>1. CASE t \in S
      BY <1>2, <2>1 DEF RowNamed, Extras!Idle
    <2>2. CASE t \notin S
      <3>1. v = work[t] /\ RowNamed(v)
        BY <1>2, <2>2 DEF ExtrasInv, ExtrasKept, KeptBy
      <3>2. v.op = "move" => v.user \in Customers
        BY <3>1 DEF ExtrasInv, ExtrasType, ExtrasWork, RequestWork
      <3> QED BY <3>1, <3>2 DEF RowNamed
    <2> QED BY <2>1, <2>2
  <1>3. ASSUME NEW t \in Sessions, NEW v, v = work'[t], Taking(v)
        PROVE  Room(v)' /\ \A u \in Sessions : Taking(work'[u]) => u = t
    <2>1. t \notin S /\ v = work[t] /\ Taking(work[t])
      BY <1>1, <1>3
    <2>2. v \in RequestWork(Customers, Wishes)
      BY <2>1 DEF ExtrasInv, ExtrasType, ExtrasWork, Taking
    <2>3. Room(v)
      BY <2>1 DEF ExtrasInv, ExtrasKept, KeptBy
    <2>4. \A slot \in Hours, ids \in SUBSET Ids :
            Extras!Pieces(slot, ids)' \subseteq Extras!Pieces(slot, ids)
      BY <2>1
    <2>5. ExtrasType
      BY DEF ExtrasInv
    <2>6. \A slot \in v.slots :
            Cardinality(Extras!Pieces(slot, Ids \ {v.row})') + v.quantity <= Stock
      BY ONLY <2>2, <2>3, <2>4, <2>5, RoomRemains
    <2>7. Room(v)'
      BY <2>6 DEF Room
    <2>8. \A u \in Sessions : Taking(work'[u]) => u = t
      BY <1>1, <2>1 DEF ExtrasInv, ExtrasKept, KeptBy
    <2> QED BY <2>7, <2>8
  <1>4. ASSUME NEW t \in Sessions, NEW v, v = work'[t], Redeeming(v)
        PROVE  /\ Redeemable(v)'
               /\ \A u \in Sessions : Redeeming(work'[u]) => u = t
    <2>1. t \notin S /\ v = work[t] /\ Redeeming(work[t])
      BY <1>1, <1>4
    <2>2. Redeemable(v)'
      BY <2>1 DEF ExtrasInv, ExtrasKept, KeptBy, Redeemable
    <2>3. \A u \in Sessions : Redeeming(work'[u]) => u = t
      BY <1>1, <2>1 DEF ExtrasInv, ExtrasKept, KeptBy
    <2> QED BY <2>2, <2>3
  <1>5. ASSUME NEW t \in Sessions, NEW v, v = work'[t]
        PROVE  KeptBy(v, t)'
    BY <1>2, <1>3, <1>4, <1>5 DEF KeptBy, Taking, Redeeming
  <1> QED BY <1>5 DEF ExtrasKept, KeptBy, RowNamed, Room, Redeemable, Taking, Redeeming

LEMMA ExtrasBooks ==
  ASSUME ExtrasInv, NEW s \in Sessions, Extras!Commit(s), work[s].op = "book"
  PROVE  ExtrasInv'
  <1> DEFINE w == work[s]
  <1>1. /\ w \in RequestWork(Customers, Wishes) /\ w.step = "commit"
        /\ w.row = None /\ IsFiniteSet(w.slots) /\ w.slots \subseteq Hours
        /\ w.user \in Customers /\ w.quantity \in Nat /\ w.code \in BOOLEAN
        /\ Cardinality(w.slots) \in Nat
    <2>1. w \in RequestWork(Customers, Wishes) /\ w.step = "commit"
      BY DEF Extras!Commit, Extras!At, ExtrasInv, ExtrasType, ExtrasWork
    <2>2. w.row = None /\ IsFiniteSet(w.slots)
      BY DEF ExtrasInv, ExtrasKept, KeptBy, RowNamed
    <2> QED BY <2>1, <2>2, FS_CardinalityType DEF RequestWork
  <1>2. PICK rows \in SUBSET {i \in Ids : bookings[i] = Extras!NoBooking} :
          /\ Cardinality(rows) = Cardinality(w.slots)
          /\ \E slot \in Bijection(rows, w.slots) :
               bookings' = [i \in Ids |->
                 IF i \in rows THEN Extras!Occurrence(w, slot[i]) ELSE bookings[i]]
    BY SameBijection, SameCardinality DEF Extras!Commit
  <1>3. PICK slot \in Bijection(rows, w.slots) :
          bookings' = [i \in Ids |->
            IF i \in rows THEN Extras!Occurrence(w, slot[i]) ELSE bookings[i]]
    BY <1>2
  <1>4. /\ promotion' = [promotion EXCEPT
             !.count = promotion.count + IF w.code THEN Cardinality(w.slots) ELSE 0]
        /\ work' = [work EXCEPT ![s] = Extras!Idle]
    BY SameCardinality DEF Extras!Commit, Extras!Finish
  <1>5. /\ Taking(w) <=> w.quantity > 0
        /\ Redeeming(w) <=> w.code
    BY <1>1 DEF Taking, Redeeming, Extras!AfterAddOn
  <1>6. /\ w.quantity > 0 => Room(w)
        /\ w.code => Redeemable(w)
        /\ \A t \in Sessions \ {s} : /\ Taking(work[t]) => w.quantity = 0
                                     /\ Redeeming(work[t]) => ~w.code
    BY <1>1, <1>5 DEF ExtrasInv, ExtrasKept, KeptBy
  <1>7. bookings \in [Ids -> Shapes(Customers, Wishes)]
        /\ promotion \in [active : BOOLEAN, count : Nat]
        /\ work \in [Sessions -> ExtrasWork(Customers, Wishes)]
    BY DEF ExtrasInv, ExtrasType
  <1>8. /\ \A i \in rows :
             /\ bookings'[i].user = w.user /\ bookings'[i].slot = slot[i]
             /\ bookings'[i].quantity = w.quantity /\ bookings'[i].code = w.code
        /\ \A i \in Ids \ rows : bookings'[i] = bookings[i]
    BY <1>3 DEF Extras!Occurrence
  <1>9. ASSUME NEW i \in rows
        PROVE  /\ bookings[i] = Extras!NoBooking /\ slot[i] \in w.slots /\ i \in Ids
               /\ Extras!Occurrence(w, slot[i]) \in Shapes(Customers, Wishes)
    <2>1. slot[i] \in w.slots
      BY DEF Bijection, Injection, Surjection
    <2> QED BY <1>1, <2>1 DEF Shapes, Extras!Occurrence, RequestWork
  <1>10. \A i, j \in rows : slot[i] = slot[j] => i = j
    BY DEF Bijection, Injection, IsInjective
  <1> HIDE DEF w
  <1>11. ExtrasType'
    <2>1. bookings' \in [Ids -> Shapes(Customers, Wishes)]
      BY ONLY <1>3, <1>7, <1>9
    <2>2. promotion' \in [active : BOOLEAN, count : Nat]
      BY ONLY <1>1, <1>4, <1>7
    <2>3. Extras!Idle \in ExtrasWork(Customers, Wishes)
      BY DEF Extras!Idle, ExtrasWork
    <2>4. work' \in [Sessions -> ExtrasWork(Customers, Wishes)]
      BY ONLY <1>4, <1>7, <2>3
    <2> QED BY ONLY <2>1, <2>2, <2>4 DEF ExtrasType
  \* No row that is taken now held a piece, and each takes a time of its own.
  <1>12. ASSUME NEW d \in Hours, NEW ids \in SUBSET Ids
         PROVE  \/ /\ d \notin w.slots \/ w.quantity = 0
                   /\ Extras!Pieces(d, ids)' \subseteq Extras!Pieces(d, ids)
                \/ /\ d \in w.slots
                   /\ \E i \in rows : Extras!Pieces(d, ids)' \subseteq
                        Extras!Pieces(d, ids) \cup ({i} \X (1 .. w.quantity))
    <2>1. ASSUME NEW x \in Extras!Pieces(d, ids)'
          PROVE  \/ x \in Extras!Pieces(d, ids)
                 \/ \E i \in rows : /\ slot[i] = d
                                    /\ x \in {i} \X (1 .. w.quantity)
      <3>1. PICK i \in ids : /\ bookings'[i].active /\ bookings'[i].slot = d
                             /\ x \in {i} \X (1 .. bookings'[i].quantity)
        BY DEF Extras!Pieces
      <3>2. CASE i \in rows
        BY <1>8, <3>1, <3>2
      <3>3. CASE i \notin rows
        BY <1>8, <3>1, <3>3, PiecesOf
      <3> QED BY <3>2, <3>3
    <2>2. CASE \E i \in rows : slot[i] = d
      <3>1. PICK i \in rows : slot[i] = d
        BY <2>2
      <3>2. Extras!Pieces(d, ids)' \subseteq
              Extras!Pieces(d, ids) \cup ({i} \X (1 .. w.quantity))
        BY <1>10, <2>1, <3>1
      <3> QED BY <1>9, <3>1, <3>2
    <2>3. CASE ~\E i \in rows : slot[i] = d
      <3>1. Extras!Pieces(d, ids)' \subseteq Extras!Pieces(d, ids)
        BY <2>1, <2>3
      <3>2. d \notin w.slots
        BY <2>3 DEF Bijection, Surjection
      <3> QED BY <3>1, <3>2
    <2> QED BY <2>2, <2>3
  <1>13. ExtrasKept'
    <2>1. \A t \in Sessions : work'[t] = IF t \in {s} THEN Extras!Idle ELSE work[t]
      BY <1>4, <1>7
    <2>2. \A i \in Ids : bookings[i].user \in Customers =>
            /\ bookings'[i].user = bookings[i].user
            /\ bookings'[i].quantity = bookings[i].quantity
      BY <1>8, <1>9, ExtrasAssumption DEF Extras!NoBooking
    <2>3. (\E t \in Sessions \ {s} : Redeeming(work[t])) => UNCHANGED promotion
      BY <1>4, <1>6, <1>7
    <2>4. w.quantity = 0 => 1 .. w.quantity = {}
      OBVIOUS
    <2>5. (\E t \in Sessions \ {s} : Taking(work[t])) =>
            \A d \in Hours, ids \in SUBSET Ids :
              Extras!Pieces(d, ids)' \subseteq Extras!Pieces(d, ids)
      BY <1>6, <1>12, <2>4
    <2>6. {s} \in SUBSET Sessions
      OBVIOUS
    <2> QED BY ONLY ExtrasInv, <2>1, <2>2, <2>3, <2>5, <2>6, ExtrasOthers
  <1>14. ASSUME NEW d \in Hours
         PROVE  Cardinality(Extras!Pieces(d, Ids))' <= Stock
    <2>1. /\ IsFiniteSet(Extras!Pieces(d, Ids))
          /\ Cardinality(Extras!Pieces(d, Ids)) \in Nat
          /\ Cardinality(Extras!Pieces(d, Ids)) <= Stock
      BY PiecesFinite DEF ExtrasInv, ExtrasCounted
    <2>2. /\ IsFiniteSet(Extras!Pieces(d, Ids)')
          /\ Cardinality(Extras!Pieces(d, Ids)') \in Nat
      <3>1. CASE Extras!Pieces(d, Ids)' \subseteq Extras!Pieces(d, Ids)
        BY <2>1, <3>1, FS_Subset, FS_CardinalityType
      <3>2. ASSUME NEW i, Extras!Pieces(d, Ids)' \subseteq
                     Extras!Pieces(d, Ids) \cup ({i} \X (1 .. w.quantity))
            PROVE  IsFiniteSet(Extras!Pieces(d, Ids)')
        <4>1. IsFiniteSet({i}) /\ IsFiniteSet(1 .. w.quantity)
          <5>1. 1 \in Int /\ w.quantity \in Int
            BY <1>1
          <5>2. IsFiniteSet(1 .. w.quantity)
            BY ONLY <5>1, FS_Interval
          <5> QED BY <5>2, FS_Singleton
        <4>2. IsFiniteSet({i} \X (1 .. w.quantity))
          BY <4>1, FS_Product
        <4>3. IsFiniteSet(Extras!Pieces(d, Ids) \cup ({i} \X (1 .. w.quantity)))
          BY <2>1, <4>2, FS_Union
        <4> QED BY <3>2, <4>3, FS_Subset
      <3> QED BY <1>12, <3>1, <3>2, FS_CardinalityType
    <2>3. CASE Extras!Pieces(d, Ids)' \subseteq Extras!Pieces(d, Ids)
      <3>1. Cardinality(Extras!Pieces(d, Ids)') <= Cardinality(Extras!Pieces(d, Ids))
        BY <2>1, <2>3, FS_Subset
      <3> QED BY <2>1, <2>2, <3>1, ExtrasAssumption
    <2>4. ASSUME NEW i \in rows, d \in w.slots,
                 Extras!Pieces(d, Ids)' \subseteq
                   Extras!Pieces(d, Ids) \cup ({i} \X (1 .. w.quantity))
          PROVE  Cardinality(Extras!Pieces(d, Ids)') <= Stock
      <3>1. Cardinality(Extras!Pieces(d, Ids)') <=
              Cardinality(Extras!Pieces(d, Ids)) + w.quantity
        BY ONLY <1>1, <2>1, <2>4, Added
      <3>2. Ids \ {w.row} = Ids
        BY <1>1, ExtrasAssumption
      <3>3. w.quantity > 0 =>
              Cardinality(Extras!Pieces(d, Ids)) + w.quantity <= Stock
        BY <1>6, <2>4, <3>2 DEF Room
      <3> QED BY ONLY <1>1, <2>1, <2>2, <3>1, <3>3, ExtrasAssumption
    <2> QED BY <1>12, <2>3, <2>4
  <1>15. /\ promotion'.count = Cardinality(Redeemed')
         /\ promotion'.count <= MaxRedemptions
    <2>1. /\ IsFiniteSet(Redeemed) /\ Cardinality(Redeemed) \in Nat
          /\ IsFiniteSet(rows) /\ Redeemed \cap rows = {}
          /\ promotion.count = Cardinality(Redeemed)
          /\ promotion.count <= MaxRedemptions
      <3>1. IsFiniteSet(Redeemed) /\ IsFiniteSet(rows)
        BY ExtrasAssumption, FS_Subset DEF Redeemed
      <3>2. Redeemed \cap rows = {}
        BY <1>9 DEF Redeemed, Extras!NoBooking
      <3> QED BY <3>1, <3>2, FS_CardinalityType DEF ExtrasInv, ExtrasCounted
    <2>2. CASE w.code
      <3>1. Redeemed' = Redeemed \cup rows
        BY <1>8, <1>9, <2>2 DEF Redeemed
      <3>2. Cardinality(Redeemed') = Cardinality(Redeemed) + Cardinality(rows)
        <4>1. Cardinality(Redeemed') =
                Cardinality(Redeemed) + Cardinality(rows) - Cardinality(Redeemed \cap rows)
          BY ONLY <2>1, <3>1, FS_Union
        <4>2. Cardinality(rows) \in Nat
          BY <2>1, FS_CardinalityType
        <4>3. Cardinality(Redeemed \cap rows) = 0
          BY <2>1, FS_EmptySet
        <4> QED BY ONLY <2>1, <4>1, <4>2, <4>3
      <3>3. promotion'.count = promotion.count + Cardinality(w.slots)
        BY <1>4, <1>7, <2>2
      <3>4. promotion.count + Cardinality(w.slots) <= MaxRedemptions
        BY <1>6, <2>2 DEF Redeemable
      <3> QED BY <1>2, <2>1, <3>2, <3>3, <3>4
    <2>3. CASE ~w.code
      <3>1. Redeemed' = Redeemed
        BY <1>8, <1>9, <2>3 DEF Redeemed, Extras!NoBooking
      <3>2. promotion'.count = promotion.count
        BY <1>4, <1>7, <2>1, <2>3
      <3> QED BY <2>1, <3>1, <3>2
    <2> QED BY <2>2, <2>3
  <1>16. (\A i \in Ids : bookings[i].active => bookings[i].user \in Customers)'
    BY <1>1, <1>8 DEF ExtrasInv
  <1> QED BY <1>11, <1>13, <1>14, <1>15, <1>16 DEF ExtrasInv, ExtrasCounted

LEMMA ExtrasMoves ==
  ASSUME ExtrasInv, NEW s \in Sessions, Extras!Commit(s), work[s].op = "move"
  PROVE  ExtrasInv'
  <1> DEFINE w == work[s]
  <1>1. /\ w \in RequestWork(Customers, Wishes) /\ w.step = "commit"
        /\ w.row \in Ids /\ w.slots \subseteq Hours /\ w.quantity \in Nat
        /\ bookings[w.row].quantity = w.quantity
    <2>1. w \in RequestWork(Customers, Wishes) /\ w.step = "commit"
      BY DEF Extras!Commit, Extras!At, ExtrasInv, ExtrasType, ExtrasWork
    <2>2. w.row \in Ids /\ bookings[w.row].quantity = w.quantity
      BY DEF ExtrasInv, ExtrasKept, KeptBy, RowNamed
    <2> QED BY <2>1, <2>2 DEF RequestWork
  <1>2. PICK slot \in w.slots : bookings' = [bookings EXCEPT ![w.row].slot = slot]
    BY DEF Extras!Commit
  <1>3. UNCHANGED promotion /\ work' = [work EXCEPT ![s] = Extras!Idle]
    BY DEF Extras!Commit, Extras!Finish
  <1>4. Taking(w) <=> w.quantity > 0
    BY <1>1 DEF Taking, Extras!AfterAddOn
  <1>5. /\ w.quantity > 0 => Room(w)
        /\ \A t \in Sessions \ {s} : Taking(work[t]) => w.quantity = 0
    BY <1>1, <1>4 DEF ExtrasInv, ExtrasKept, KeptBy
  <1>6. /\ bookings \in [Ids -> Shapes(Customers, Wishes)]
        /\ promotion \in [active : BOOLEAN, count : Nat]
        /\ work \in [Sessions -> ExtrasWork(Customers, Wishes)]
    BY DEF ExtrasInv, ExtrasType
  <1> HIDE DEF w
  <1>7. slot \in Hours
    BY <1>1
  <1>8. /\ bookings' \in [Ids -> Shapes(Customers, Wishes)]
        /\ bookings'[w.row].slot = slot
        /\ \A i \in Ids :
             /\ bookings'[i].user = bookings[i].user
             /\ bookings'[i].quantity = bookings[i].quantity
             /\ bookings'[i].code = bookings[i].code
             /\ bookings'[i].active = bookings[i].active
             /\ i # w.row => bookings'[i] = bookings[i]
    BY ONLY <1>1, <1>2, <1>6, <1>7 DEF Shapes
  <1>9. ExtrasType'
    <2>1. Extras!Idle \in ExtrasWork(Customers, Wishes)
      BY DEF Extras!Idle, ExtrasWork
    <2>2. work' \in [Sessions -> ExtrasWork(Customers, Wishes)]
      BY ONLY <1>3, <1>6, <2>1
    <2> QED BY ONLY <1>3, <1>6, <1>8, <2>2 DEF ExtrasType
  \* The row that is moved takes its pieces along.
  <1>10. ASSUME NEW d \in Hours, NEW ids \in SUBSET Ids
         PROVE  /\ d # slot \/ w.quantity = 0 =>
                     Extras!Pieces(d, ids)' \subseteq Extras!Pieces(d, ids)
                /\ Extras!Pieces(d, ids)' \subseteq
                     Extras!Pieces(d, ids \ {w.row})
                       \cup ({w.row} \X (1 .. w.quantity))
    <2>1. ASSUME NEW x \in Extras!Pieces(d, ids)'
          PROVE  \/ x \in Extras!Pieces(d, ids \ {w.row}) /\ x \in Extras!Pieces(d, ids)
                 \/ d = slot /\ x \in {w.row} \X (1 .. w.quantity)
      <3>1. PICK i \in ids : /\ bookings'[i].active /\ bookings'[i].slot = d
                             /\ x \in {i} \X (1 .. bookings'[i].quantity)
        BY DEF Extras!Pieces
      <3>2. CASE i = w.row
        BY <1>1, <1>8, <3>1, <3>2
      <3>3. CASE i # w.row
        <4>1. bookings'[i] = bookings[i]
          BY <1>8, <3>3
        <4> QED BY <3>1, <3>3, <4>1, PiecesOf
      <3> QED BY <3>2, <3>3
    <2>2. w.quantity = 0 => 1 .. w.quantity = {}
      OBVIOUS
    <2> QED BY <2>1, <2>2
  <1>11. ExtrasKept'
    <2>1. \A t \in Sessions : work'[t] = IF t \in {s} THEN Extras!Idle ELSE work[t]
      BY <1>3, <1>6
    <2>2. \A i \in Ids : bookings[i].user \in Customers =>
            /\ bookings'[i].user = bookings[i].user
            /\ bookings'[i].quantity = bookings[i].quantity
      BY <1>8
    <2>3. (\E t \in Sessions \ {s} : Redeeming(work[t])) => UNCHANGED promotion
      BY <1>3
    <2>4. (\E t \in Sessions \ {s} : Taking(work[t])) =>
            \A d \in Hours, ids \in SUBSET Ids :
              Extras!Pieces(d, ids)' \subseteq Extras!Pieces(d, ids)
      BY <1>5, <1>10
    <2>5. {s} \in SUBSET Sessions
      OBVIOUS
    <2> QED BY ONLY ExtrasInv, <2>1, <2>2, <2>3, <2>4, <2>5, ExtrasOthers
  <1>12. ASSUME NEW d \in Hours
         PROVE  Cardinality(Extras!Pieces(d, Ids))' <= Stock
    <2> DEFINE others == Extras!Pieces(d, Ids \ {w.row})
               pieces == Extras!Pieces(d, Ids)
    <2>1. /\ IsFiniteSet(pieces) /\ Cardinality(pieces) \in Nat
          /\ IsFiniteSet(others) /\ Cardinality(others) \in Nat
          /\ Cardinality(pieces) <= Stock
      BY PiecesFinite DEF ExtrasInv, ExtrasCounted
    <2>2. CASE d # slot \/ w.quantity = 0
      <3>1. pieces' \subseteq pieces
        BY <1>10, <2>2
      <3>2. Cardinality(pieces') <= Cardinality(pieces) /\ Cardinality(pieces') \in Nat
        BY <2>1, <3>1, FS_Subset, FS_CardinalityType
      <3> QED BY <2>1, <3>2, ExtrasAssumption
    <2>3. CASE d = slot /\ w.quantity # 0
      <3>1. pieces' \subseteq others \cup ({w.row} \X (1 .. w.quantity))
        BY <1>10
      <3>2. Cardinality(pieces') <= Cardinality(others) + w.quantity
        BY ONLY <1>1, <2>1, <3>1, Added
      <3>3. Cardinality(others) + w.quantity <= Stock
        BY <1>1, <1>2, <1>5, <2>3 DEF Room
      <3>4. Cardinality(pieces') \in Nat
        <4>1. 1 \in Int /\ w.quantity \in Int
          BY <1>1
        <4>2. IsFiniteSet({w.row}) /\ IsFiniteSet(1 .. w.quantity)
          BY ONLY <4>1, FS_Interval, FS_Singleton
        <4>3. IsFiniteSet({w.row} \X (1 .. w.quantity))
          BY <4>2, FS_Product
        <4>4. IsFiniteSet(others \cup ({w.row} \X (1 .. w.quantity)))
          BY <2>1, <4>3, FS_Union
        <4> QED BY <3>1, <4>4, FS_Subset, FS_CardinalityType
      <3> HIDE DEF pieces, others
      <3>5. Cardinality(pieces') <= Stock
        BY ONLY <1>1, <2>1, <3>2, <3>3, <3>4, ExtrasAssumption
      <3> QED BY <3>5 DEF pieces
    <2> QED BY <2>2, <2>3
  <1>13. Redeemed' = Redeemed
    BY <1>8 DEF Redeemed
  <1>14. ExtrasCounted'
    BY <1>3, <1>12, <1>13 DEF ExtrasInv, ExtrasCounted
  <1>15. (\A i \in Ids : bookings[i].active => bookings[i].user \in Customers)'
    BY <1>8 DEF ExtrasInv
  <1> QED BY <1>9, <1>11, <1>14, <1>15 DEF ExtrasInv

LEMMA ExtrasCancel ==
  ASSUME ExtrasInv, NEW i \in Ids, Extras!Cancel(i)
  PROVE  ExtrasInv'
  <1>1. /\ bookings' = [bookings EXCEPT ![i].active = FALSE]
        /\ UNCHANGED <<promotion, work>>
    BY DEF Extras!Cancel
  <1>2. /\ bookings \in [Ids -> Shapes(Customers, Wishes)]
        /\ promotion \in [active : BOOLEAN, count : Nat]
        /\ work \in [Sessions -> ExtrasWork(Customers, Wishes)]
    BY DEF ExtrasInv, ExtrasType
  <1>3. /\ bookings' \in [Ids -> Shapes(Customers, Wishes)]
        /\ \A k \in Ids :
             /\ bookings'[k].user = bookings[k].user
             /\ bookings'[k].slot = bookings[k].slot
             /\ bookings'[k].quantity = bookings[k].quantity
             /\ bookings'[k].code = bookings[k].code
             /\ bookings'[k].active => bookings[k].active
    BY ONLY <1>1, <1>2 DEF Shapes
  <1>4. \A d \in Hours, ids \in SUBSET Ids :
          Extras!Pieces(d, ids)' \subseteq Extras!Pieces(d, ids)
    <2> SUFFICES ASSUME NEW d \in Hours, NEW ids \in SUBSET Ids,
                        NEW x \in Extras!Pieces(d, ids)'
                 PROVE  x \in Extras!Pieces(d, ids)
      OBVIOUS
    <2>1. PICK k \in ids : /\ bookings'[k].active /\ bookings'[k].slot = d
                           /\ x \in {k} \X (1 .. bookings'[k].quantity)
      BY DEF Extras!Pieces
    <2> QED BY <1>3, <2>1, PiecesOf
  <1>5. ExtrasKept'
    <2>1. \A t \in Sessions : work'[t] = IF t \in {} THEN Extras!Idle ELSE work[t]
      BY <1>1
    <2>2. \A k \in Ids : bookings[k].user \in Customers =>
            /\ bookings'[k].user = bookings[k].user
            /\ bookings'[k].quantity = bookings[k].quantity
      BY <1>3
    <2>3. (\E t \in Sessions \ {} : Redeeming(work[t])) => UNCHANGED promotion
      BY <1>1
    <2>4. (\E t \in Sessions \ {} : Taking(work[t])) =>
            \A d \in Hours, ids \in SUBSET Ids :
              Extras!Pieces(d, ids)' \subseteq Extras!Pieces(d, ids)
      BY <1>4
    <2>5. {} \in SUBSET Sessions
      OBVIOUS
    <2> QED BY ONLY ExtrasInv, <2>1, <2>2, <2>3, <2>4, <2>5, ExtrasOthers
  <1>6. \A d \in Hours : Cardinality(Extras!Pieces(d, Ids)') <= Stock
    <2>1. ExtrasType
      BY DEF ExtrasInv
    <2>2. \A d \in Hours, ids \in SUBSET Ids :
            /\ Cardinality(Extras!Pieces(d, ids)) \in Nat
            /\ Cardinality(Extras!Pieces(d, ids)') \in Nat
            /\ Cardinality(Extras!Pieces(d, ids)') <=
                 Cardinality(Extras!Pieces(d, ids))
      BY ONLY <1>4, <2>1, FewerPieces
    <2> QED BY <2>2, ExtrasAssumption DEF ExtrasInv, ExtrasCounted
  <1>7. Redeemed' = Redeemed
    BY <1>3 DEF Redeemed
  <1>8. ExtrasCounted'
    BY <1>1, <1>6, <1>7 DEF ExtrasInv, ExtrasCounted
  <1>9. (\A k \in Ids : bookings[k].active => bookings[k].user \in Customers)'
    BY <1>3 DEF ExtrasInv
  <1>10. ExtrasType'
    BY <1>1, <1>2, <1>3 DEF ExtrasType
  <1> QED BY <1>5, <1>8, <1>9, <1>10 DEF ExtrasInv

\* The owner switches the add-on or the promotion off; nobody who has looked at
\* it under its lock is in between.
LEMMA ExtrasOwner ==
  ASSUME ExtrasInv,
         \/ Extras!Deactivate \/ Extras!SwitchAddOn
         \/ \E u \in Customers :
              \/ Extras!BlockElapses(u)
              \/ \E dated \in BOOLEAN : Extras!Block(u, dated)
  PROVE  ExtrasInv'
  <1>1. /\ UNCHANGED <<bookings, work>>
        /\ promotion' \in [active : BOOLEAN, count : Nat]
        /\ promotion'.count = promotion.count
    BY DEF Extras!Deactivate, Extras!SwitchAddOn, Extras!BlockElapses, Extras!Block,
       ExtrasInv, ExtrasType
  <1>2. \A slot, ids : Extras!Pieces(slot, ids)' = Extras!Pieces(slot, ids)
    BY <1>1 DEF Extras!Pieces
  <1>3. ExtrasType' /\ ExtrasCounted'
    BY <1>1, <1>2 DEF ExtrasInv, ExtrasType, ExtrasCounted, Redeemed
  <1>4. ExtrasKept'
    BY <1>1, <1>2 DEF ExtrasInv, ExtrasKept, KeptBy, RowNamed, Room, Redeemable,
       Taking, Redeeming
  <1> QED BY <1>1, <1>3, <1>4 DEF ExtrasInv

LEMMA ExtrasStep == ASSUME ExtrasInv, Extras!Next PROVE ExtrasInv'
  <1>1. ASSUME NEW s \in Sessions, Extras!Commit(s)
        PROVE  ExtrasInv'
    BY <1>1, ExtrasBooks, ExtrasMoves DEF Extras!Commit
  <1> QED
    BY <1>1, ExtrasBegins, ExtrasLocks, ExtrasCancel, ExtrasOwner DEF Extras!Next

-----------------------------------------------------------------------------
(* Customers whom the venue blocks. *)

BlocksType ==
  /\ bookings \in [Ids -> Shapes(Regulars, PlainWishes)]
  /\ block \in [Regulars -> [active : BOOLEAN, dated : BOOLEAN, times : Nat]]
  /\ work \in [Sessions -> ExtrasWork(Regulars, PlainWishes)]

\* What a move writes is a row of the customer whom it has locked, and nobody
\* blocks a customer whose row a request keeps.
BlocksKept ==
  \A s \in Sessions :
    /\ work[s].op = "move" =>
         work[s].row \in Ids /\ bookings[work[s].row].user = work[s].user
    /\ Blocks!Past(s, Blocks!AfterUser) => ~block[work[s].user].active

BlocksInv ==
  /\ BlocksType /\ BlocksKept
  /\ \A i \in Ids : bookings[i].active => bookings[i].user \in Regulars

LEMMA BlocksStart == Blocks!Init => BlocksInv
  BY DEF Blocks!Init, Blocks!Idle, Blocks!NoBooking, Blocks!NoBlock, Blocks!Past,
         BlocksInv, BlocksType, BlocksKept, Shapes, ExtrasWork, RequestWork

LEMMA BlocksBookings ==
  ASSUME BlocksInv, NEW s \in Sessions,
         \/ \E r \in PlainWishes : Blocks!BookStart(s, r)
         \/ \E i \in Ids, slot \in Hours : Blocks!MoveStart(s, i, slot)
         \/ Blocks!LockUser(s) \/ Blocks!LockResource(s)
         \/ Blocks!LockAddOn(s) \/ Blocks!LockPromotion(s)
         \/ Blocks!Abort(s) \/ \E u \in Regulars : Blocks!UnblockRead(s, u)
  PROVE  BlocksInv' /\ Blocks!BlockedStays
  <1> USE DEF BlocksInv, BlocksType, BlocksKept, Blocks!BlockedStays,
              Blocks!Past, Blocks!AfterUser, Blocks!At,
              Blocks!Start, Blocks!Finish, Blocks!Continue, Blocks!Idle,
              ExtrasWork, RequestWork
  <1>1. ASSUME NEW r \in PlainWishes, Blocks!BookStart(s, r)
        PROVE  BlocksInv' /\ Blocks!BlockedStays
    BY <1>1, ExtrasAssumption DEF Blocks!BookStart
  <1>2. ASSUME NEW i \in Ids, NEW slot \in Hours, Blocks!MoveStart(s, i, slot)
        PROVE  BlocksInv' /\ Blocks!BlockedStays
    BY <1>2 DEF Blocks!MoveStart, Shapes
  <1>3. CASE Blocks!LockUser(s)
    BY <1>3 DEF Blocks!LockUser
  <1>4. CASE Blocks!LockResource(s)
    BY <1>4 DEF Blocks!LockResource
  <1>5. CASE Blocks!LockAddOn(s)
    BY <1>5 DEF Blocks!LockAddOn
  <1>6. CASE Blocks!LockPromotion(s)
    BY <1>6 DEF Blocks!LockPromotion
  <1>7. CASE Blocks!Abort(s)
    BY <1>7 DEF Blocks!Abort
  <1>8. CASE \E u \in Regulars : Blocks!UnblockRead(s, u)
    BY <1>8 DEF Blocks!UnblockRead
  <1> QED
    BY <1>1, <1>2, <1>3, <1>4, <1>5, <1>6, <1>7, <1>8

LEMMA BlocksCommit ==
  ASSUME BlocksInv, NEW s \in Sessions, Blocks!Commit(s)
  PROVE  BlocksInv' /\ Blocks!BlockedStays
  <1> USE DEF BlocksInv, BlocksType, BlocksKept, Blocks!BlockedStays,
              Blocks!Past, Blocks!AfterUser, Blocks!At, Blocks!Finish, Blocks!Idle
  <1>1. /\ work[s] \in RequestWork(Regulars, PlainWishes)
        /\ ~block[work[s].user].active
        /\ block' = block /\ work' = [work EXCEPT ![s] = Blocks!Idle]
    BY DEF Blocks!Commit, ExtrasWork, RequestWork
  <1>2. ASSUME NEW rows \in SUBSET {i \in Ids : bookings[i] = Blocks!NoBooking},
               NEW slot \in Bijection(rows, work[s].slots),
               bookings' = [i \in Ids |->
                 IF i \in rows THEN Blocks!Occurrence(work[s], slot[i])
                 ELSE bookings[i]]
        PROVE  BlocksInv' /\ Blocks!BlockedStays
    <2>1. \A i \in rows : slot[i] \in Hours
      BY <1>1 DEF Bijection, Injection, Surjection, RequestWork
    <2>2. \A i \in rows :
            /\ Blocks!Occurrence(work[s], slot[i]) \in Shapes(Regulars, PlainWishes)
            /\ Blocks!Occurrence(work[s], slot[i]).user = work[s].user
      BY <1>1, <2>1 DEF Shapes, RequestWork, Blocks!Occurrence
    <2> HIDE DEF BlocksInv
    <2>3. BlocksType'
      BY <1>1, <1>2, <2>2 DEF BlocksInv, ExtrasWork
    <2>4. \A i \in Ids \ rows : bookings'[i] = bookings[i]
      BY <1>2
    <2>5. \A i \in rows : bookings'[i].user = work[s].user /\ work[s].user \in Regulars
      BY <1>1, <1>2, <2>2 DEF RequestWork
    <2>6. \A t \in Sessions : work[t].op = "move" => work[t].row \notin rows
      <3> SUFFICES ASSUME NEW t \in Sessions, work[t].op = "move",
                          work[t].row \in rows
                   PROVE  FALSE
        OBVIOUS
      <3>1. work[t].user \in Regulars
        BY DEF BlocksInv, ExtrasWork, RequestWork
      <3> QED BY <3>1, ExtrasAssumption DEF BlocksInv, Blocks!NoBooking
    <2>7. BlocksKept'
      BY <1>1, <2>4, <2>6 DEF BlocksInv
    <2>8. (\A i \in Ids : bookings[i].active => bookings[i].user \in Regulars)'
      BY <2>4, <2>5 DEF BlocksInv
    <2>9. Blocks!BlockedStays
      BY <1>1, <2>4, <2>5
    <2> QED
      BY <2>3, <2>7, <2>8, <2>9 DEF BlocksInv
  <1>3. ASSUME work[s].op = "move", NEW slot \in work[s].slots,
               bookings' = [bookings EXCEPT ![work[s].row].slot = slot]
        PROVE  BlocksInv' /\ Blocks!BlockedStays
    <2>1. slot \in Hours /\ work[s].row \in Ids
      BY <1>1, <1>3 DEF RequestWork
    <2>2. bookings' \in [Ids -> Shapes(Regulars, PlainWishes)]
      BY <1>3, <2>1 DEF Shapes
    <2>3. \A i \in Ids :
            /\ bookings'[i].user = bookings[i].user
            /\ bookings'[i].active = bookings[i].active
            /\ i # work[s].row => bookings'[i] = bookings[i]
      BY <1>3, <2>1 DEF Shapes
    <2> HIDE DEF BlocksInv
    <2>4. BlocksType'
      BY <1>1, <2>2 DEF BlocksInv, ExtrasWork
    <2>5. BlocksKept'
      BY <1>1, <2>3 DEF BlocksInv
    <2>6. Blocks!BlockedStays
      BY <1>1, <1>3, <2>1, <2>3 DEF BlocksInv
    <2> QED
      BY <2>3, <2>4, <2>5, <2>6 DEF BlocksInv
  <1>4. CASE work[s].op = "book"
    <2>1. PICK rows \in SUBSET {i \in Ids : bookings[i] = Blocks!NoBooking} :
            \E slot \in Bijection(rows, work[s].slots) :
              bookings' = [i \in Ids |->
                IF i \in rows THEN Blocks!Occurrence(work[s], slot[i])
                ELSE bookings[i]]
      BY <1>4, SameBijection DEF Blocks!Commit
    <2>2. PICK slot \in Bijection(rows, work[s].slots) :
            bookings' = [i \in Ids |->
              IF i \in rows THEN Blocks!Occurrence(work[s], slot[i])
              ELSE bookings[i]]
      BY <2>1
    <2> QED
      BY ONLY <1>2, <2>2
  <1>5. CASE work[s].op = "move"
    <2>1. PICK slot \in work[s].slots :
            bookings' = [bookings EXCEPT ![work[s].row].slot = slot]
      BY <1>5 DEF Blocks!Commit
    <2> QED
      BY ONLY <1>3, <1>5, <2>1
  <1> QED
    BY <1>4, <1>5 DEF Blocks!Commit

LEMMA BlocksOwner ==
  ASSUME BlocksInv,
         \/ Blocks!Deactivate \/ Blocks!SwitchAddOn
         \/ \E i \in Ids : Blocks!Cancel(i)
         \/ \E u \in Regulars :
              \/ Blocks!BlockElapses(u)
              \/ \E dated \in BOOLEAN : Blocks!Block(u, dated)
         \/ \E s \in Sessions : Blocks!UnblockCommit(s)
  PROVE  BlocksInv' /\ Blocks!BlockedStays
  <1> USE DEF BlocksInv, BlocksType, BlocksKept, Blocks!BlockedStays,
              Blocks!Past, Blocks!AfterUser
  <1>1. CASE Blocks!Deactivate \/ Blocks!SwitchAddOn
    BY <1>1 DEF Blocks!Deactivate, Blocks!SwitchAddOn
  <1>2. ASSUME NEW i \in Ids, Blocks!Cancel(i)
        PROVE  BlocksInv' /\ Blocks!BlockedStays
    <2>0. /\ bookings \in [Ids -> Shapes(Regulars, PlainWishes)]
          /\ bookings' = [bookings EXCEPT ![i].active = FALSE]
      BY <1>2 DEF Blocks!Cancel
    <2>1. bookings' \in [Ids -> Shapes(Regulars, PlainWishes)]
      BY ONLY <2>0 DEF Shapes
    <2>2. \A j \in Ids :
            /\ bookings'[j].user = bookings[j].user
            /\ bookings'[j].slot = bookings[j].slot
            /\ bookings'[j].active => bookings[j].active
      BY ONLY <2>0 DEF Shapes
    <2>3. UNCHANGED <<block, work>>
      BY <1>2 DEF Blocks!Cancel
    <2>4. BlocksType' /\ BlocksKept'
      BY <2>1, <2>2, <2>3
    <2> QED
      BY <2>2, <2>4
  <1>3. ASSUME NEW u \in Regulars, Blocks!BlockElapses(u)
        PROVE  BlocksInv' /\ Blocks!BlockedStays
    BY <1>3 DEF Blocks!BlockElapses, ExtrasWork, RequestWork
  <1>4. ASSUME NEW u \in Regulars, NEW dated \in BOOLEAN, Blocks!Block(u, dated)
        PROVE  BlocksInv' /\ Blocks!BlockedStays
    BY <1>4 DEF Blocks!Block, Blocks!UserFree, ExtrasWork, RequestWork
  <1>5. ASSUME NEW s \in Sessions, Blocks!UnblockCommit(s)
        PROVE  BlocksInv' /\ Blocks!BlockedStays
    <2>1. work[s].user \in Regulars
      BY <1>5 DEF Blocks!UnblockCommit, ExtrasWork, RequestWork
    <2>a. /\ block \in [Regulars -> [active : BOOLEAN, dated : BOOLEAN, times : Nat]]
          /\ block' = [block EXCEPT ![work[s].user].active = FALSE]
      BY <1>5 DEF Blocks!UnblockCommit
    <2>b. block' \in [Regulars -> [active : BOOLEAN, dated : BOOLEAN, times : Nat]]
      BY ONLY <2>1, <2>a
    <2>2. BlocksType'
      BY <1>5, <2>1, <2>b DEF Blocks!UnblockCommit, Blocks!Finish, Blocks!Idle,
         ExtrasWork
    <2>3. \A u \in Regulars : block'[u].active => block[u].active
      BY <1>5, <2>1 DEF Blocks!UnblockCommit
    <2>4. \A t \in Sessions : work'[t] = IF t = s THEN Blocks!Idle ELSE work[t]
      BY <1>5 DEF Blocks!UnblockCommit, Blocks!Finish
    <2>5. \A t \in Sessions : Blocks!Past(t, Blocks!AfterUser) => work[t].user \in Regulars
      BY DEF ExtrasWork, RequestWork
    <2>6. UNCHANGED bookings
      BY <1>5 DEF Blocks!UnblockCommit
    <2> QED
      BY <2>2, <2>3, <2>4, <2>5, <2>6 DEF Blocks!Idle
  <1> QED
    BY <1>1, <1>2, <1>3, <1>4, <1>5

LEMMA BlocksStep ==
  ASSUME BlocksInv, Blocks!Next
  PROVE  BlocksInv' /\ Blocks!BlockedStays
  BY BlocksBookings, BlocksCommit, BlocksOwner DEF Blocks!Next

-----------------------------------------------------------------------------
(* The waitlist. *)

WaitlistType ==
  /\ entry \in [Entries -> [status : {"none", "waiting", "notified", "left"},
                            user : Members \cup {None}, time : Int \X Int,
                            since : Nat]]
  /\ inbox \in [Entries -> Nat]
  /\ work \in [Sessions -> [op : {"idle"}]
                 \cup [op : {"join"}, user : Members, time : Int \X Int]
                 \cup [op : {"mark", "tell"}, entry : Entries]]
  /\ count \in [bookings : Nat, entries : Nat]

Tells(s, e) == work[s].op \in {"mark", "tell"} /\ work[s].entry = e

\* One session at a time tells an entry, which was not told before: while it
\* marks the entry nobody leaves it, and afterwards nobody picks it again.
ToldByOne ==
  /\ \A e \in Entries :
       /\ inbox[e] <= 1
       /\ entry[e].status \in {"none", "waiting"} =>
            /\ inbox[e] = 0
            /\ \A s \in Sessions : Tells(s, e) => work[s].op = "mark"
  /\ \A s \in Sessions, e \in Entries : Tells(s, e) =>
       /\ inbox[e] = 0
       /\ work[s].op = "mark" => entry[e].status = "waiting"
       /\ \A t \in Sessions : Tells(t, e) => t = s

WaitlistInv == WaitlistType /\ ToldByOne

LEMMA WaitlistStart == Waiting!Init => WaitlistInv
  BY DEF Waiting!Init, Waiting!NoEntry, Waiting!Idle, WaitlistInv, WaitlistType,
         ToldByOne, Tells

LEMMA WaitlistToldOnce == WaitlistInv => Waiting!ToldOnce
  BY DEF WaitlistInv, ToldByOne, Waiting!ToldOnce

LEMMA WaitlistBookings ==
  ASSUME WaitlistInv,
         \/ \E b \in booked : Waiting!Free(b)
         \/ \E t \in Waiting!Times :
              \/ Waiting!PickNobody(t)
              \/ \E u \in Members : Waiting!Book(u, t)
  PROVE  WaitlistInv' /\ UNCHANGED work
  <1> USE DEF WaitlistInv, WaitlistType, ToldByOne, Tells
  <1>1. CASE \E b \in booked : Waiting!Free(b)
    BY <1>1 DEF Waiting!Free
  <1>2. CASE \E t \in Waiting!Times : Waiting!PickNobody(t)
    BY <1>2 DEF Waiting!PickNobody
  <1>3. CASE \E t \in Waiting!Times, u \in Members : Waiting!Book(u, t)
    BY <1>3 DEF Waiting!Book
  <1> QED
    BY <1>1, <1>2, <1>3

LEMMA WaitlistJoin ==
  ASSUME WaitlistInv, NEW s \in Sessions,
         \/ \E t \in Waiting!Times, u \in Members : Waiting!JoinRead(s, u, t)
         \/ Waiting!JoinCommit(s) \/ Waiting!JoinRefuse(s)
  PROVE  WaitlistInv' /\ work'[s].op # "mark"
                      /\ \A t \in Sessions \ {s} : work'[t] = work[t]
  <1> USE DEF WaitlistInv, WaitlistType, ToldByOne, Tells,
              Waiting!Finish, Waiting!Idle
  <1>1. ASSUME NEW t \in Waiting!Times, NEW u \in Members, Waiting!JoinRead(s, u, t)
        PROVE  WaitlistInv' /\ work'[s].op # "mark"
                            /\ \A x \in Sessions \ {s} : work'[x] = work[x]
    <2>1. t \in Int \X Int
      BY WaitlistAssumption DEF Waiting!Times
    <2>2. /\ work' = [work EXCEPT ![s] = [op |-> "join", user |-> u, time |-> t]]
          /\ UNCHANGED <<entry, inbox, count>>
      BY <1>1 DEF Waiting!JoinRead
    <2>3. WaitlistType'
      BY <2>1, <2>2
    <2>4. /\ work'[s].op = "join"
          /\ \A x \in Sessions \ {s} : work'[x] = work[x]
      BY <2>2
    <2>5. ToldByOne'
      BY <2>2, <2>4
    <2> QED
      BY <2>3, <2>4, <2>5
  <1>2. CASE Waiting!JoinCommit(s)
    BY <1>2 DEF Waiting!JoinCommit
  <1>3. CASE Waiting!JoinRefuse(s)
    BY <1>3 DEF Waiting!JoinRefuse
  <1> HIDE DEF WaitlistInv
  <1> QED
    BY <1>1, <1>2, <1>3

LEMMA WaitlistLeave ==
  ASSUME WaitlistInv, NEW e \in Entries, Waiting!Leave(e)
  PROVE  WaitlistInv' /\ UNCHANGED work
  BY DEF WaitlistInv, WaitlistType, ToldByOne, Tells, Waiting!Leave, Waiting!Locked

LEMMA WaitlistPick ==
  ASSUME WaitlistInv, NEW s \in Sessions, NEW t \in Waiting!Times, Waiting!Pick(s, t)
  PROVE  WaitlistInv'
  BY DEF WaitlistInv, WaitlistType, ToldByOne, Tells, Waiting!Pick,
         Waiting!Candidates, Waiting!Locked, Waiting!Idle

LEMMA WaitlistTell ==
  ASSUME WaitlistInv, NEW s \in Sessions,
         Waiting!MarkNotified(s) \/ Waiting!Tell(s)
  PROVE  WaitlistInv' /\ work'[s].op # "mark"
                      /\ \A t \in Sessions \ {s} : work'[t] = work[t]
  <1> USE DEF WaitlistInv, WaitlistType, ToldByOne, Tells,
              Waiting!Finish, Waiting!Idle
  <1>1. CASE Waiting!MarkNotified(s)
    BY <1>1 DEF Waiting!MarkNotified
  <1>2. CASE Waiting!Tell(s)
    BY <1>2 DEF Waiting!Tell
  <1> QED
    BY <1>1, <1>2

\* The pick compares the entries that nobody is telling; Within is transitive,
\* so a shorter wish inside the picked entry's was compared as well.
LEMMA WaitlistOrder ==
  ASSUME WaitlistInv, NEW s \in Sessions, NEW t \in Waiting!Times, Waiting!Pick(s, t)
  PROVE  Waiting!PicksOldest
  <1> SUFFICES ASSUME NEW x \in Sessions, NEW e \in Entries, work'[x] # work[x],
                      work'[x] = [op |-> "mark", entry |-> e],
                      NEW f \in Entries, entry[f].status = "waiting",
                      Waiting!Within(entry[f].time, entry[e].time),
                      entry[f].since < entry[e].since
               PROVE  \E y \in Sessions \ {x} :
                        work[y] = [op |-> "mark", entry |-> f]
    BY DEF Waiting!PicksOldest
  <1> USE DEF WaitlistInv, WaitlistType
  <1>1. x = s /\ work[s] = Waiting!Idle
    BY DEF Waiting!Pick
  <1>2. /\ e \in Waiting!Candidates(t)
        /\ Waiting!Oldest(e, t)
    BY <1>1 DEF Waiting!Pick
  <1>3. Waiting!Within(entry[e].time, t)
    BY <1>2 DEF Waiting!Candidates
  <1>4. entry[e].time \in Int \X Int /\ entry[f].time \in Int \X Int /\ t \in Int \X Int
    BY WaitlistAssumption DEF Waiting!Times
  <1>5. Waiting!Within(entry[f].time, t)
    BY <1>3, <1>4 DEF Waiting!Within
  <1>6. entry[e].since \in Nat /\ entry[f].since \in Nat
    OBVIOUS
  <1>7. f \notin Waiting!Candidates(t)
    BY <1>2, <1>6 DEF Waiting!Oldest
  <1>8. PICK y \in Sessions : work[y].op = "mark" /\ work[y].entry = f
    BY <1>5, <1>7 DEF Waiting!Candidates, Waiting!Locked
  <1>9. work[y] = [op |-> "mark", entry |-> f]
    BY <1>8
  <1>10. y # x
    BY <1>1, <1>8 DEF Waiting!Idle
  <1> QED
    BY <1>9, <1>10

LEMMA WaitlistStep ==
  ASSUME WaitlistInv, Waiting!Next
  PROVE  WaitlistInv' /\ Waiting!PicksOldest
  <1>1. CASE \/ \E b \in booked : Waiting!Free(b)
             \/ \E t \in Waiting!Times :
                  \/ Waiting!PickNobody(t)
                  \/ \E u \in Members : Waiting!Book(u, t)
    BY <1>1, WaitlistBookings DEF Waiting!PicksOldest
  <1>2. CASE \E e \in Entries : Waiting!Leave(e)
    BY <1>2, WaitlistLeave DEF Waiting!PicksOldest
  <1>3. ASSUME NEW s \in Sessions,
               \/ \E t \in Waiting!Times, u \in Members : Waiting!JoinRead(s, u, t)
               \/ Waiting!JoinCommit(s) \/ Waiting!JoinRefuse(s)
               \/ Waiting!MarkNotified(s) \/ Waiting!Tell(s)
        PROVE  WaitlistInv' /\ Waiting!PicksOldest
    BY <1>3, WaitlistJoin, WaitlistTell DEF Waiting!PicksOldest
  <1>4. CASE \E s \in Sessions, t \in Waiting!Times : Waiting!Pick(s, t)
    BY <1>4, WaitlistPick, WaitlistOrder
  <1> QED
    BY <1>1, <1>2, <1>3, <1>4 DEF Waiting!Next

-----------------------------------------------------------------------------
(* Transfers of reservations. *)

HeldStatus == {"none", "confirmed", "started", "cancelled"}
OfferStatus == {"none", "pending", "expired", "accepted", "declined", "revoked"}

OfferRow ==
  [status : OfferStatus, of : Transferred \cup {None}, from : Members \cup {None},
   to : Members \cup {None}, late : BOOLEAN]

TransfersWork ==
  [op : {"idle"}] \cup [op : {"book"}, user : Members]
  \cup [op : {"cancel"}, of : Transferred]
  \cup [op : {"offer"}, user : Members, of : Transferred, to : Members,
        expired : BOOLEAN]
  \cup [op : {"accept"}, user : Members, offer : Offers, decided : BOOLEAN]
  \cup [op : {"revoke"}, which : Offers]

TransfersType ==
  /\ reservation \in [Transferred -> [owner : Members \cup {None}, status : HeldStatus]]
  /\ offer \in [Offers -> OfferRow]
  /\ work \in [Sessions -> TransfersWork]

\* What was offered and never taken has no owner; an offer once made names a
\* reservation and its recipient.
Owned ==
  /\ \A r \in Transferred : reservation[r].status = "none" => reservation[r].owner = None
  /\ \A o \in Offers : offer[o].status # "none" =>
       offer[o].of \in Transferred /\ offer[o].to \in Members

Adds(s) == work[s].op = "book" \/ Transfers!Handing(s)

\* Who adds a reservation to a customer does so alone and has room for it; who
\* has decided to hand a reservation over keeps it confirmed.
RoomKept ==
  /\ \A u \in Members : Cardinality(Transfers!Active(u)) <= Limit
  /\ \A s \in Sessions : Adds(s) =>
       /\ Cardinality(Transfers!Active(work[s].user)) < Limit
       /\ \A t \in Sessions : Adds(t) /\ work[t].user = work[s].user => t = s
OfferNamed(w) ==
  /\ w.op = "accept" => offer[w.offer].status # "none"
  /\ w.op = "revoke" => offer[w.which].status # "none"
LiveKept ==
  \A s \in Sessions :
    /\ OfferNamed(work[s])
    /\ Transfers!Handing(s) =>
         /\ reservation[offer[work[s].offer].of].status = "confirmed"
         /\ \A t \in Sessions :
              Transfers!Handing(t) /\ offer[work[t].offer].of = offer[work[s].offer].of => t = s

TransfersInv == TransfersType /\ Owned /\ RoomKept /\ LiveKept

LEMMA ActiveFinite ==
  ASSUME NEW u
  PROVE  IsFiniteSet(Transfers!Active(u)) /\ Cardinality(Transfers!Active(u)) \in Nat
  <1>1. Transfers!Active(u) \subseteq Transferred
    BY DEF Transfers!Active
  <1> QED BY <1>1, TransfersAssumption, FS_Subset, FS_CardinalityType

LEMMA TransfersStart == Transfers!Init => TransfersInv
  <1> SUFFICES ASSUME Transfers!Init PROVE TransfersInv
    OBVIOUS
  <1>1. \A u \in Members : Transfers!Active(u) = {}
    BY DEF Transfers!Init, Transfers!Active
  <1>2. \A u \in Members : Cardinality(Transfers!Active(u)) <= Limit
    BY <1>1, FS_EmptySet, TransfersAssumption
  <1>3. TransfersType
    BY DEF Transfers!Init, Transfers!NoOffer, Transfers!Idle, TransfersType,
       TransfersWork,
           HeldStatus, OfferRow, OfferStatus
  <1>4. Owned
    BY DEF Transfers!Init, Transfers!NoOffer, Owned
  <1>5. \A s \in Sessions : work[s].op = "idle"
    BY DEF Transfers!Init, Transfers!Idle
  <1> QED
    BY <1>2, <1>3, <1>4, <1>5 DEF TransfersInv, RoomKept, LiveKept, OfferNamed,
       Adds, Transfers!Handing

LEMMA TransfersLimit == TransfersInv => Transfers!LimitKept
  BY SameCardinality DEF TransfersInv, RoomKept, Transfers!LimitKept

LEMMA OneMore ==
  ASSUME NEW A, NEW B, NEW r, IsFiniteSet(A), B \subseteq A \cup {r}
  PROVE  /\ Cardinality(B) <= Cardinality(A) + 1
         /\ B \subseteq A => Cardinality(B) <= Cardinality(A)
  <1>a. Cardinality(A) \in Nat
    BY FS_CardinalityType
  <1>b. /\ IsFiniteSet(A \cup {r})
        /\ Cardinality(A \cup {r})
             = IF r \in A THEN Cardinality(A) ELSE Cardinality(A) + 1
    BY FS_AddElement
  <1>1. /\ IsFiniteSet(A \cup {r})
        /\ Cardinality(A \cup {r}) <= Cardinality(A) + 1
    BY ONLY <1>a, <1>b
  <1>2. /\ Cardinality(B) <= Cardinality(A \cup {r})
        /\ Cardinality(B) \in Nat
    BY <1>1, FS_Subset, FS_CardinalityType
  <1>3. Cardinality(A) \in Nat /\ Cardinality(A \cup {r}) \in Nat
    BY <1>1, FS_CardinalityType
  <1>4. B \subseteq A => Cardinality(B) <= Cardinality(A)
    BY FS_Subset
  <1> QED BY <1>1, <1>2, <1>3, <1>4

\* Requests that look, and offers that are made, taken back or refused.
LEMMA TransfersBesides ==
  ASSUME TransfersInv, TransfersType', UNCHANGED reservation,
         \A s \in Sessions :
           \/ work'[s] = work[s]
           \/ /\ ~Adds(s)'
              /\ OfferNamed(work'[s]),
         \A o \in Offers :
           /\ offer[o].status # "none" =>
                offer'[o].status # "none" /\ offer'[o].of = offer[o].of
           /\ offer'[o].status # "none" =>
                offer'[o].of \in Transferred /\ offer'[o].to \in Members
  PROVE  TransfersInv' /\ Transfers!HandsLiveOver
  <1>1. Owned' /\ Transfers!HandsLiveOver
    BY DEF TransfersInv, Owned, Transfers!HandsLiveOver
  <1>2. \A u : Transfers!Active(u)' = Transfers!Active(u)
    BY DEF Transfers!Active
  <1>3. \A s \in Sessions : Adds(s)' => Adds(s) /\ work'[s] = work[s]
    BY DEF Adds, Transfers!Handing
  <1>4. RoomKept'
    BY <1>2, <1>3 DEF TransfersInv, RoomKept
  <1>5. \A s \in Sessions : OfferNamed(work'[s]) /\ work'[s] \in TransfersWork
    BY DEF TransfersInv, TransfersType, LiveKept
  <1>a. \A s \in Sessions : OfferNamed(work[s])'
    BY <1>5 DEF OfferNamed, TransfersWork
  <1>6. \A s \in Sessions : Transfers!Handing(s)' =>
          /\ Transfers!Handing(s) /\ work'[s] = work[s]
          /\ offer'[work'[s].offer].of = offer[work[s].offer].of
    BY <1>3, <1>5 DEF Adds, Transfers!Handing, OfferNamed, TransfersWork
  <1>7. LiveKept'
    <2>1. \A s \in Sessions : Transfers!Handing(s)' =>
            reservation'[offer'[work'[s].offer].of].status = "confirmed"
      BY <1>6 DEF TransfersInv, LiveKept
    <2>2. \A s, t \in Sessions :
            Transfers!Handing(s)' /\ Transfers!Handing(t)'
              /\ offer'[work'[t].offer].of = offer'[work'[s].offer].of => t = s
      BY <1>6 DEF TransfersInv, LiveKept
    <2> QED BY <1>a, <2>1, <2>2 DEF LiveKept
  <1> QED BY <1>1, <1>4, <1>7 DEF TransfersInv

\* A session that finds room for a customer, under the customer's lock, and a
\* reservation to hand over, under the reservation's lock.
LEMMA TransfersDecided ==
  ASSUME TransfersInv, TransfersType', UNCHANGED <<reservation, offer>>,
         NEW s \in Sessions, \A t \in Sessions \ {s} : work'[t] = work[t],
         Adds(s)', NEW u \in Members, work'[s].user = u,
         Cardinality(Transfers!Active(u)) < Limit,
         \A t \in Sessions \ {s} : Adds(t) => work[t].user # u,
         work'[s].op = "accept" =>
           /\ offer[work'[s].offer].status # "none"
           /\ reservation[offer[work'[s].offer].of].status = "confirmed"
           /\ \A t \in Sessions \ {s} : Transfers!Handing(t) =>
                offer[work[t].offer].of # offer[work'[s].offer].of
  PROVE  TransfersInv' /\ Transfers!HandsLiveOver
  <1>1. Owned' /\ Transfers!HandsLiveOver
    BY DEF TransfersInv, Owned, Transfers!HandsLiveOver
  <1>2. \A v : Transfers!Active(v)' = Transfers!Active(v)
    BY DEF Transfers!Active
  <1>3. \A t \in Sessions \ {s} :
          /\ Adds(t)' <=> Adds(t)
          /\ Transfers!Handing(t)' <=> Transfers!Handing(t)
    BY DEF Adds, Transfers!Handing
  <1>4. RoomKept'
    BY <1>2, <1>3 DEF TransfersInv, RoomKept
  <1>a. \A t \in Sessions : OfferNamed(work[t])'
    BY DEF TransfersInv, LiveKept, OfferNamed, Adds, Transfers!Handing
  <1>5. LiveKept'
    BY <1>3, <1>a DEF TransfersInv, LiveKept, Transfers!Handing
  <1> QED BY <1>1, <1>4, <1>5 DEF TransfersInv

LEMMA TransfersDecide ==
  ASSUME TransfersInv, NEW s \in Sessions,
         \/ \E u \in Members : Transfers!BookDecide(s, u)
         \/ Transfers!AcceptDecide(s)
  PROVE  TransfersInv' /\ Transfers!HandsLiveOver
  <1>1. ASSUME NEW u \in Members, Transfers!BookDecide(s, u)
        PROVE  TransfersInv' /\ Transfers!HandsLiveOver
    <2>1. /\ work' = [work EXCEPT ![s] = [op |-> "book", user |-> u]]
          /\ UNCHANGED <<reservation, offer>>
          /\ Cardinality(Transfers!Active(u)) < Limit
      BY <1>1, SameCardinality DEF Transfers!BookDecide
    <2>2. /\ TransfersType'
          /\ \A t \in Sessions \ {s} : work'[t] = work[t]
          /\ work'[s].op = "book" /\ work'[s].user = u
      BY <2>1 DEF TransfersInv, TransfersType, TransfersWork
    <2>3. \A t \in Sessions \ {s} : Adds(t) => work[t].user # u
      BY <1>1 DEF Transfers!BookDecide, Transfers!UserFree, Adds, Transfers!Handing
    <2>4. Adds(s)'
      BY <2>2 DEF Adds
    <2> QED BY ONLY TransfersInv, <2>1, <2>2, <2>3, <2>4, TransfersDecided
  <1>2. CASE Transfers!AcceptDecide(s)
    <2> DEFINE u == work[s].user
               o == work[s].offer
    <2>1. /\ work[s].op = "accept" /\ u \in Members /\ o \in Offers
          /\ offer[o].status # "none"
      BY <1>2 DEF Transfers!AcceptDecide, TransfersInv, TransfersType,
         TransfersWork, LiveKept, OfferNamed
    <2>2. /\ work' = [work EXCEPT ![s].decided = TRUE]
          /\ UNCHANGED <<reservation, offer>>
          /\ reservation[offer[o].of].status = "confirmed"
          /\ Cardinality(Transfers!Active(u)) < Limit
      BY <1>2, SameCardinality DEF Transfers!AcceptDecide, Transfers!Transferable
    <2>3. /\ TransfersType'
          /\ \A t \in Sessions \ {s} : work'[t] = work[t]
          /\ work'[s].op = "accept" /\ work'[s].decided
          /\ work'[s].user = u /\ work'[s].offer = o
      BY <2>1, <2>2 DEF TransfersInv, TransfersType, TransfersWork
    <2>4. \A t \in Sessions \ {s} :
            /\ Adds(t) => work[t].user # u
            /\ Transfers!Handing(t) => offer[work[t].offer].of # offer[o].of
      BY <1>2 DEF Transfers!AcceptDecide, Transfers!UserFree, Transfers!RowFree,
                  Adds, Transfers!Handing
    <2>5. Adds(s)'
      BY <2>3 DEF Adds, Transfers!Handing
    <2> HIDE DEF u, o
    <2> QED BY ONLY TransfersInv, <2>1, <2>2, <2>3, <2>4, <2>5, TransfersDecided
  <1> QED BY <1>1, <1>2

\* The commits: the session that added is done, and what it added fits.
LEMMA TransfersWrites ==
  ASSUME TransfersInv, TransfersType', Owned',
         NEW s \in Sessions, \A t \in Sessions \ {s} : work'[t] = work[t],
         NEW r \in Transferred,
         \A q \in Transferred \ {r} : reservation'[q] = reservation[q],
         \A o \in Offers :
           offer[o].status # "none" =>
             offer'[o].status # "none" /\ offer'[o].of = offer[o].of,
         \A v \in Members : r \in Transfers!Active(v)' =>
           \/ r \in Transfers!Active(v)
           \/ Adds(s) /\ work[s].user = v,
         work'[s].op = "idle",
         reservation'[r].status = "confirmed" \/
           \A t \in Sessions : Transfers!Handing(t) => offer[work[t].offer].of # r
  PROVE  RoomKept' /\ LiveKept'
  <1>1. \A t \in Sessions : Adds(t)' => t # s /\ Adds(t) /\ work'[t] = work[t]
    BY DEF Adds, Transfers!Handing
  <1>2. \A v \in Members :
          /\ Transfers!Active(v)' \subseteq Transfers!Active(v) \cup {r}
          /\ ~(Adds(s) /\ work[s].user = v) =>
               Transfers!Active(v)' \subseteq Transfers!Active(v)
    BY DEF Transfers!Active
  <1>3. \A v \in Members :
          /\ Cardinality(Transfers!Active(v)') <= Cardinality(Transfers!Active(v)) + 1
          /\ ~(Adds(s) /\ work[s].user = v) =>
               Cardinality(Transfers!Active(v)') <= Cardinality(Transfers!Active(v))
    BY <1>2, OneMore, ActiveFinite
  <1>4. \A v \in Members :
          /\ Cardinality(Transfers!Active(v)) \in Nat
          /\ Cardinality(Transfers!Active(v)') \in Nat
    BY <1>2, ActiveFinite, FS_AddElement, FS_Subset, FS_CardinalityType
  <1>5. RoomKept'
    <2>1. \A v \in Members : Cardinality(Transfers!Active(v)') <= Limit
      <3> TAKE v \in Members
      <3>1. CASE Adds(s) /\ work[s].user = v
        BY <1>3, <1>4, <3>1, TransfersAssumption DEF TransfersInv, RoomKept
      <3>2. CASE ~(Adds(s) /\ work[s].user = v)
        BY <1>3, <1>4, <3>2, TransfersAssumption DEF TransfersInv, RoomKept
      <3> QED BY <3>1, <3>2
    <2>2. ASSUME NEW t \in Sessions, Adds(t)', NEW v \in Members, work[t].user = v
          PROVE  Cardinality(Transfers!Active(v)') < Limit
      <3>1. t # s /\ Adds(t)
        BY <1>1, <2>2
      <3>2. Cardinality(Transfers!Active(v)) < Limit
        BY <2>2, <3>1 DEF TransfersInv, RoomKept
      <3>3. ~(Adds(s) /\ work[s].user = v)
        BY <2>2, <3>1 DEF TransfersInv, RoomKept
      <3>4. Cardinality(Transfers!Active(v)') <= Cardinality(Transfers!Active(v))
        BY <1>3, <3>3
      <3> QED BY ONLY <1>4, <3>2, <3>4, TransfersAssumption
    <2>3. \A t \in Sessions : Adds(t)' =>
            work'[t].user \in Members /\ work'[t].user = work[t].user
      BY <1>1 DEF TransfersInv, TransfersType, TransfersWork, Adds, Transfers!Handing
    <2>4. \A t \in Sessions, v \in Members : Adds(t)' /\ work'[t].user = v =>
            Cardinality(Transfers!Active(v)') < Limit
      BY <2>2, <2>3
    <2>5. \A t \in Sessions : Adds(t)' =>
            Cardinality(Transfers!Active(work[t].user)') < Limit
      BY <2>3, <2>4
    <2>6. \A t, x \in Sessions :
            Adds(t)' /\ Adds(x)' /\ work'[x].user = work'[t].user => x = t
      BY <1>1 DEF TransfersInv, RoomKept
    <2> QED
      BY <2>1, <2>5, <2>6 DEF RoomKept
  <1>6. LiveKept'
    <2>1. \A t \in Sessions : Transfers!Handing(t)' =>
            t # s /\ Transfers!Handing(t) /\ work'[t] = work[t]
      BY <1>1 DEF Adds, Transfers!Handing
    <2>2. \A t \in Sessions : OfferNamed(work[t])'
      BY DEF TransfersInv, TransfersType, TransfersWork, LiveKept, OfferNamed
    <2>a. \A t \in Sessions : Transfers!Handing(t) =>
            work[t].offer \in Offers /\ offer[work[t].offer].status # "none"
      BY DEF TransfersInv, TransfersType, TransfersWork, LiveKept, OfferNamed,
         Transfers!Handing
    <2>3. \A t \in Sessions : Transfers!Handing(t)' =>
            /\ offer'[work'[t].offer].of = offer[work[t].offer].of
            /\ offer[work[t].offer].of \in Transferred
      BY <2>1, <2>a DEF TransfersInv, Owned, Transfers!Handing
    <2>4. \A t \in Sessions : Transfers!Handing(t)' =>
            reservation'[offer'[work'[t].offer].of].status = "confirmed"
      BY <2>1, <2>3 DEF TransfersInv, LiveKept
    <2> QED BY <2>1, <2>2, <2>3, <2>4 DEF TransfersInv, LiveKept
  <1> QED BY <1>5, <1>6

LEMMA TransfersBegin ==
  ASSUME TransfersInv,
         \/ \E r \in Transferred : Transfers!Begin(r)
         \/ \E s \in Sessions : Transfers!CancelCommit(s)
  PROVE  TransfersInv' /\ Transfers!HandsLiveOver
  <1>1. ASSUME NEW r \in Transferred, Transfers!Begin(r)
        PROVE  TransfersInv' /\ Transfers!HandsLiveOver
    <2>1. /\ reservation[r].status = "confirmed"
          /\ reservation' = [reservation EXCEPT ![r].status = "started"]
          /\ UNCHANGED <<offer, work>>
      BY <1>1 DEF Transfers!Begin
    <2>2. /\ TransfersType' /\ Owned'
          /\ \A q \in Transferred : reservation'[q].owner = reservation[q].owner
          /\ \A q \in Transferred \ {r} : reservation'[q] = reservation[q]
      BY <2>1 DEF TransfersInv, TransfersType, TransfersWork, Owned, HeldStatus
    <2>3. \A v : Transfers!Active(v)' = Transfers!Active(v)
      BY <2>1, <2>2 DEF Transfers!Active, TransfersInv, TransfersType, TransfersWork
    <2>4. \A t \in Sessions : Transfers!Handing(t) => offer[work[t].offer].of # r
      BY <1>1 DEF Transfers!Begin, Transfers!RowFree, Transfers!Handing
    <2>5. RoomKept'
      BY <2>1, <2>3 DEF TransfersInv, RoomKept, Adds, Transfers!Handing
    <2>6. \A t \in Sessions : Transfers!Handing(t) => offer[work[t].offer].of \in Transferred
      BY DEF TransfersInv, TransfersType, TransfersWork, Owned, LiveKept, OfferNamed,
             Transfers!Handing
    <2>7. LiveKept'
      BY <2>1, <2>2, <2>4, <2>6 DEF TransfersInv, LiveKept, OfferNamed,
         Transfers!Handing
    <2> QED BY <2>2, <2>5, <2>7 DEF TransfersInv, Transfers!HandsLiveOver
  <1>2. ASSUME NEW s \in Sessions, Transfers!CancelCommit(s)
        PROVE  TransfersInv' /\ Transfers!HandsLiveOver
    <2> DEFINE r == work[s].of
    <2>1. /\ r \in Transferred /\ work[s].op = "cancel"
          /\ reservation' = [reservation EXCEPT ![r].status = "cancelled"]
          /\ work' = [work EXCEPT ![s] = [op |-> "idle"]] /\ UNCHANGED offer
      BY <1>2 DEF Transfers!CancelCommit, Transfers!Finish, Transfers!Idle,
         TransfersInv, TransfersType, TransfersWork
    <2>2. /\ \A t \in Sessions \ {s} : work'[t] = work[t]
          /\ work'[s].op = "idle"
          /\ ~Adds(s) /\ ~Adds(s)'
      BY <2>1 DEF TransfersInv, TransfersType, TransfersWork, Adds, Transfers!Handing
    <2> HIDE DEF r
    <2>3. /\ reservation' \in [Transferred -> [owner : Members \cup {None}, status : HeldStatus]]
          /\ \A q \in Transferred : reservation'[q].owner = reservation[q].owner
          /\ \A q \in Transferred \ {r} : reservation'[q] = reservation[q]
          /\ reservation'[r].status = "cancelled"
      <3>1. reservation \in [Transferred -> [owner : Members \cup {None}, status : HeldStatus]]
        BY DEF TransfersInv, TransfersType, TransfersWork
      <3>2. r \in Transferred /\ reservation' = [reservation EXCEPT ![r].status = "cancelled"]
        BY <2>1
      <3> QED BY ONLY <3>1, <3>2 DEF HeldStatus
    <2>4. TransfersType'
      BY <2>1, <2>3 DEF TransfersInv, TransfersType, TransfersWork
    <2>5. Owned'
      BY <2>1, <2>3 DEF TransfersInv, Owned
    <2>6. \A v : r \notin Transfers!Active(v)'
      BY <2>3 DEF Transfers!Active
    <2>7. \A t \in Sessions : Transfers!Handing(t) => offer[work[t].offer].of # r
      BY <1>2, <2>2 DEF Transfers!CancelCommit, Transfers!RowFree,
         Transfers!Handing, Adds, r
    <2>8. RoomKept' /\ LiveKept'
      BY ONLY TransfersInv, <2>1, <2>2, <2>3, <2>4, <2>5, <2>6, <2>7, TransfersWrites
    <2> QED BY <2>3, <2>4, <2>5, <2>8 DEF TransfersInv, Transfers!HandsLiveOver
  <1> QED BY <1>1, <1>2

LEMMA TransfersCommit ==
  ASSUME TransfersInv, NEW s \in Sessions,
         Transfers!BookCommit(s) \/ Transfers!AcceptCommit(s)
  PROVE  TransfersInv' /\ Transfers!HandsLiveOver
  <1>0. /\ reservation \in [Transferred -> [owner : Members \cup {None}, status : HeldStatus]]
        /\ work' = [work EXCEPT ![s] = [op |-> "idle"]]
        /\ Adds(s) /\ work[s].user \in Members /\ ~Adds(s)'
        /\ work'[s].op = "idle" /\ work'[s] # work[s]
        /\ \A t \in Sessions \ {s} : work'[t] = work[t]
    BY DEF TransfersInv, TransfersType, TransfersWork, Transfers!BookCommit,
       Transfers!AcceptCommit,
           Transfers!Handing, Adds, Transfers!Finish, Transfers!Idle
  <1>1. CASE Transfers!BookCommit(s)
    <2>1. PICK r \in Transferred :
            /\ reservation[r].status = "none"
            /\ reservation' = [reservation EXCEPT ![r] =
                 [owner |-> work[s].user, status |-> "confirmed"]]
      BY <1>1 DEF Transfers!BookCommit
    <2>2. UNCHANGED offer
      BY <1>1 DEF Transfers!BookCommit
    <2>3. /\ reservation' \in [Transferred -> [owner : Members \cup {None}, status : HeldStatus]]
          /\ reservation'[r].owner = work[s].user /\ reservation'[r].status = "confirmed"
          /\ \A q \in Transferred \ {r} : reservation'[q] = reservation[q]
      BY ONLY <1>0, <2>1 DEF HeldStatus
    <2>4. TransfersType' /\ Owned'
      BY <1>0, <2>2, <2>3 DEF TransfersInv, TransfersType, TransfersWork, Owned
    <2>5. \A v \in Members : r \in Transfers!Active(v)' => Adds(s) /\ work[s].user = v
      BY <1>0, <2>3 DEF Transfers!Active
    <2>6. RoomKept' /\ LiveKept'
      BY ONLY TransfersInv, <1>0, <2>2, <2>3, <2>4, <2>5, TransfersWrites
    <2>7. reservation[r].owner = None
      BY <2>1 DEF TransfersInv, Owned
    <2> QED BY <2>3, <2>4, <2>6, <2>7 DEF TransfersInv, Transfers!HandsLiveOver
  <1>2. CASE Transfers!AcceptCommit(s)
    <2> SUFFICES ASSUME NEW o \in Offers, work[s].offer = o,
                        NEW r \in Transferred, offer[o].of = r
                 PROVE  TransfersInv' /\ Transfers!HandsLiveOver
      <3>1. work[s].op = "accept" /\ work[s].offer \in Offers
        BY <1>2 DEF Transfers!AcceptCommit, Transfers!Handing, TransfersInv,
                    TransfersType, TransfersWork
      <3>2. offer[work[s].offer].of \in Transferred
        BY <3>1 DEF TransfersInv, LiveKept, OfferNamed, Owned
      <3> QED BY <3>1, <3>2
    <2>1. /\ Transfers!Handing(s) /\ reservation[r].status = "confirmed"
          /\ offer[o].status # "none" /\ offer[o].to \in Members
          /\ reservation' = [reservation EXCEPT ![r].owner = work[s].user]
          /\ offer' = [offer EXCEPT ![o].status = "accepted"]
      BY <1>2 DEF Transfers!AcceptCommit, Transfers!Handing, TransfersInv,
         LiveKept, OfferNamed, Owned
    <2>2. /\ reservation' \in [Transferred -> [owner : Members \cup {None}, status : HeldStatus]]
          /\ reservation'[r].owner = work[s].user /\ reservation'[r].status = "confirmed"
          /\ \A q \in Transferred \ {r} : reservation'[q] = reservation[q]
      BY ONLY <1>0, <2>1 DEF HeldStatus
    <2>a. offer' \in [Offers -> OfferRow]
      <3>1. offer \in [Offers -> OfferRow]
        BY DEF TransfersInv, TransfersType
      <3> QED BY ONLY <3>1, <2>1 DEF OfferRow, OfferStatus
    <2>3. /\ TransfersType'
          /\ \A p \in Offers :
               /\ offer'[p].of = offer[p].of /\ offer'[p].to = offer[p].to
               /\ offer[p].status # "none" => offer'[p].status # "none"
               /\ offer'[p].status # "none" => offer[p].status # "none"
      BY <1>0, <2>1, <2>2, <2>a DEF TransfersInv, TransfersType, TransfersWork
    <2>4. Owned'
      BY <2>2, <2>3 DEF TransfersInv, Owned
    <2>5. \A v \in Members : r \in Transfers!Active(v)' => Adds(s) /\ work[s].user = v
      BY <1>0, <2>2 DEF Transfers!Active
    <2>b. \A p \in Offers : offer[p].status # "none" =>
            offer'[p].status # "none" /\ offer'[p].of = offer[p].of
      BY <2>3
    <2>c. TransfersType'
      BY <2>3
    <2>6. RoomKept' /\ LiveKept'
      BY ONLY TransfersInv, <1>0, <2>2, <2>b, <2>c, <2>4, <2>5, TransfersWrites
    <2> QED BY <2>1, <2>2, <2>3, <2>4, <2>6 DEF TransfersInv, Transfers!HandsLiveOver
  <1> QED BY <1>1, <1>2

\* A session looks and goes on to something that adds nothing yet.
LEMMA TransfersGoesOn ==
  ASSUME TransfersInv, NEW s \in Sessions, NEW w \in TransfersWork,
         work' = [work EXCEPT ![s] = w], UNCHANGED <<reservation, offer>>,
         w.op # "book", w.op = "accept" => ~w.decided, OfferNamed(w)
  PROVE  TransfersInv' /\ Transfers!HandsLiveOver
  <1>1. TransfersType'
    BY DEF TransfersInv, TransfersType
  <1>2. \A t \in Sessions : work'[t] = IF t = s THEN w ELSE work[t]
    BY DEF TransfersInv, TransfersType
  <1>3. \A t \in Sessions :
          \/ work'[t] = work[t]
          \/ /\ ~Adds(t)'
             /\ OfferNamed(work'[t])
    BY <1>2 DEF Adds, Transfers!Handing
  <1>4. \A o \in Offers :
          /\ offer[o].status # "none" =>
               offer'[o].status # "none" /\ offer'[o].of = offer[o].of
          /\ offer'[o].status # "none" =>
               offer'[o].of \in Transferred /\ offer'[o].to \in Members
    BY DEF TransfersInv, Owned
  <1> QED
    BY ONLY TransfersInv, <1>1, <1>3, <1>4, UNCHANGED <<reservation, offer>>,
            TransfersBesides

LEMMA TransfersLook ==
  ASSUME TransfersInv, NEW s \in Sessions,
         \/ Transfers!BookRefuse(s) \/ Transfers!OfferRefuse(s)
         \/ Transfers!AcceptRefuse(s)
         \/ \E u \in Members, r \in Transferred :
              \/ Transfers!CancelRead(s, u, r)
              \/ \E to \in Members : Transfers!Offer(s, u, r, to)
         \/ \E o \in Offers :
              \/ Transfers!AcceptLock(s, o)
              \/ \E u \in Members : Transfers!RevokeRead(s, u, o)
  PROVE  TransfersInv' /\ Transfers!HandsLiveOver
  <1> DEFINE Goes(w) ==
        /\ w \in TransfersWork /\ work' = [work EXCEPT ![s] = w]
        /\ UNCHANGED <<reservation, offer>>
        /\ w.op # "book"
        /\ w.op = "accept" => ~w.decided
        /\ OfferNamed(w)
  <1>1. CASE Transfers!BookRefuse(s) \/ Transfers!OfferRefuse(s) \/ Transfers!AcceptRefuse(s)
    <2>1. Goes([op |-> "idle"])
      BY <1>1 DEF Transfers!BookRefuse, Transfers!OfferRefuse, Transfers!AcceptRefuse,
         Transfers!Finish, Transfers!Idle, TransfersWork, OfferNamed
    <2> QED BY ONLY TransfersInv, <2>1, TransfersGoesOn
  <1>2. ASSUME NEW u \in Members, NEW r \in Transferred, Transfers!CancelRead(s, u, r)
        PROVE  TransfersInv' /\ Transfers!HandsLiveOver
    <2>1. Goes([op |-> "cancel", of |-> r])
      BY <1>2 DEF Transfers!CancelRead, TransfersWork, OfferNamed
    <2> QED BY ONLY TransfersInv, <2>1, TransfersGoesOn
  <1>3. ASSUME NEW u \in Members, NEW r \in Transferred, NEW to \in Members,
               Transfers!Offer(s, u, r, to)
        PROVE  TransfersInv' /\ Transfers!HandsLiveOver
    <2>1. Goes([op |-> "offer", user |-> u, of |-> r, to |-> to, expired |-> FALSE])
      BY <1>3 DEF Transfers!Offer, TransfersWork, OfferNamed
    <2> QED BY ONLY TransfersInv, <2>1, TransfersGoesOn
  <1>4. ASSUME NEW o \in Offers, Transfers!AcceptLock(s, o)
        PROVE  TransfersInv' /\ Transfers!HandsLiveOver
    <2>1. offer[o].status # "none" /\ offer[o].to \in Members
      BY <1>4 DEF Transfers!AcceptLock, TransfersInv, Owned
    <2>2. Goes([op |-> "accept", user |-> offer[o].to, offer |-> o, decided |-> FALSE])
      BY <1>4, <2>1 DEF Transfers!AcceptLock, TransfersWork, OfferNamed
    <2> QED BY ONLY TransfersInv, <2>2, TransfersGoesOn
  <1>5. ASSUME NEW u \in Members, NEW o \in Offers, Transfers!RevokeRead(s, u, o)
        PROVE  TransfersInv' /\ Transfers!HandsLiveOver
    <2>1. Goes([op |-> "revoke", which |-> o])
      BY <1>5 DEF Transfers!RevokeRead, TransfersWork, OfferNamed
    <2> QED BY ONLY TransfersInv, <2>1, TransfersGoesOn
  <1> QED BY <1>1, <1>2, <1>3, <1>4, <1>5

\* Writes of the transfers' rows keep what they name.
LEMMA TransfersRows ==
  ASSUME TransfersInv, UNCHANGED reservation, NEW s \in Sessions, NEW w \in TransfersWork,
         work' = [work EXCEPT ![s] = w],
         w = work[s] \/ w.op \in {"idle", "offer"},
         offer' \in [Offers -> OfferRow],
         \A o \in Offers :
           \/ offer'[o] = offer[o]
           \/ /\ offer[o].status # "none" /\ offer'[o].status # "none"
              /\ offer'[o].of = offer[o].of /\ offer'[o].to = offer[o].to
           \/ /\ offer[o].status = "none"
              /\ offer'[o].of \in Transferred /\ offer'[o].to \in Members
  PROVE  TransfersInv' /\ Transfers!HandsLiveOver
  <1>1. TransfersType'
    BY DEF TransfersInv, TransfersType
  <1>2. \A t \in Sessions : work'[t] = IF t = s THEN w ELSE work[t]
    BY DEF TransfersInv, TransfersType
  <1>3. \A t \in Sessions :
          \/ work'[t] = work[t]
          \/ ~Adds(t)' /\ OfferNamed(work'[t])
    BY <1>2 DEF Adds, Transfers!Handing, OfferNamed
  <1>4. \A o \in Offers :
          /\ offer[o].status # "none" =>
               offer'[o].status # "none" /\ offer'[o].of = offer[o].of
          /\ offer'[o].status # "none" =>
               offer'[o].of \in Transferred /\ offer'[o].to \in Members
    BY DEF TransfersInv, Owned
  <1> QED
    BY ONLY TransfersInv, <1>1, <1>3, <1>4, UNCHANGED reservation, TransfersBesides

LEMMA TransfersOffers ==
  ASSUME TransfersInv, NEW s \in Sessions,
         \/ Transfers!ExpirePending(s) \/ Transfers!OfferCommit(s)
         \/ Transfers!RevokeCommit(s)
         \/ \E o \in Offers : Transfers!AnswerLate(s, o) \/ Transfers!Decline(s, o)
  PROVE  TransfersInv' /\ Transfers!HandsLiveOver
  <1>a. offer \in [Offers -> OfferRow] /\ work[s] \in TransfersWork
         /\ work = [work EXCEPT ![s] = work[s]]
    BY DEF TransfersInv, TransfersType
  <1>1. ASSUME NEW o \in Offers,
               Transfers!AnswerLate(s, o) \/ Transfers!Decline(s, o)
        PROVE  TransfersInv' /\ Transfers!HandsLiveOver
    <2>1. /\ offer[o].status = "pending" /\ UNCHANGED <<work, reservation>>
          /\ \/ offer' = [offer EXCEPT ![o].status = "expired"]
             \/ offer' = [offer EXCEPT ![o].status = "declined"]
      BY <1>1 DEF Transfers!AnswerLate, Transfers!Decline, Transfers!Expired
    <2>2. /\ offer' \in [Offers -> OfferRow]
          /\ offer'[o].status # "none" /\ offer'[o].of = offer[o].of /\ offer'[o].to = offer[o].to
          /\ \A p \in Offers \ {o} : offer'[p] = offer[p]
      <3>2. CASE offer' = [offer EXCEPT ![o].status = "expired"]
        BY ONLY <1>a, <3>2 DEF OfferRow, OfferStatus
      <3>3. CASE offer' = [offer EXCEPT ![o].status = "declined"]
        BY ONLY <1>a, <3>3 DEF OfferRow, OfferStatus
      <3> QED BY ONLY <2>1, <3>2, <3>3
    <2>3. \A p \in Offers :
           \/ offer'[p] = offer[p]
           \/ /\ offer[p].status # "none" /\ offer'[p].status # "none"
              /\ offer'[p].of = offer[p].of /\ offer'[p].to = offer[p].to
      BY ONLY <2>1, <2>2
    <2>4. work' = [work EXCEPT ![s] = work[s]]
      BY <1>a, <2>1
    <2> QED
      BY ONLY TransfersInv, <1>a, <2>1, <2>2, <2>3, <2>4, TransfersRows
  <1>2. CASE Transfers!ExpirePending(s)
    <2> DEFINE overdue ==
          {o \in Offers : /\ offer[o].of = work[s].of
                         /\ offer[o].status = "pending" /\ offer[o].late}
    <2>1. /\ work[s].op = "offer" /\ UNCHANGED reservation
          /\ work' = [work EXCEPT ![s].expired = TRUE]
          /\ offer' = [o \in Offers |->
               IF o \in overdue THEN [offer[o] EXCEPT !.status = "expired"]
               ELSE offer[o]]
      BY <1>2 DEF Transfers!ExpirePending, Transfers!Expired
    <2>2. \A o \in Offers :
            /\ [offer[o] EXCEPT !.status = "expired"] \in OfferRow
            /\ [offer[o] EXCEPT !.status = "expired"].status = "expired"
            /\ [offer[o] EXCEPT !.status = "expired"].of = offer[o].of
            /\ [offer[o] EXCEPT !.status = "expired"].to = offer[o].to
      BY ONLY <1>a DEF OfferRow, OfferStatus
    <2> DEFINE w == [work[s] EXCEPT !.expired = TRUE]
    <2>3. w \in TransfersWork /\ w.op = "offer" /\ work' = [work EXCEPT ![s] = w]
      BY ONLY <1>a, <2>1 DEF TransfersWork
    <2> HIDE DEF w
    <2>4. offer' \in [Offers -> OfferRow]
      BY ONLY <1>a, <2>1, <2>2
    <2>5. \A p \in Offers :
           \/ offer'[p] = offer[p]
           \/ /\ offer[p].status # "none" /\ offer'[p].status # "none"
              /\ offer'[p].of = offer[p].of /\ offer'[p].to = offer[p].to
      BY ONLY <2>1, <2>2
    <2> QED
      BY ONLY TransfersInv, <2>1, <2>3, <2>4, <2>5, TransfersRows
  <1>3. CASE Transfers!OfferCommit(s)
    <2>1. PICK o \in Offers :
            /\ offer[o] = Transfers!NoOffer
            /\ offer' = [offer EXCEPT ![o] =
                 [status |-> "pending", of |-> work[s].of, from |-> work[s].user,
                  to |-> work[s].to, late |-> FALSE]]
      BY <1>3 DEF Transfers!OfferCommit
    <2>2. /\ work[s].op = "offer" /\ UNCHANGED reservation
          /\ work' = [work EXCEPT ![s] = [op |-> "idle"]]
          /\ work[s].of \in Transferred /\ work[s].user \in Members /\ work[s].to \in Members
      BY <1>3, <1>a DEF Transfers!OfferCommit, Transfers!Finish,
         Transfers!Idle, TransfersWork
    <2>3. /\ offer' \in [Offers -> OfferRow]
          /\ offer[o].status = "none"
          /\ offer'[o].of \in Transferred /\ offer'[o].to \in Members
          /\ \A p \in Offers \ {o} : offer'[p] = offer[p]
      BY ONLY <1>a, <2>1, <2>2 DEF OfferRow, OfferStatus, Transfers!NoOffer
    <2>4. [op |-> "idle"] \in TransfersWork
      BY DEF TransfersWork
    <2>5. \A p \in Offers :
           \/ offer'[p] = offer[p]
           \/ /\ offer[p].status = "none"
              /\ offer'[p].of \in Transferred /\ offer'[p].to \in Members
      BY ONLY <2>3
    <2> QED
      BY ONLY TransfersInv, <2>2, <2>3, <2>4, <2>5, TransfersRows
  <1>4. CASE Transfers!RevokeCommit(s)
    <2>1. PICK o \in Offers : o = work[s].which
      BY <1>4, <1>a DEF Transfers!RevokeCommit, TransfersWork
    <2>2. /\ offer[o].status # "none" /\ UNCHANGED reservation
          /\ offer' = [offer EXCEPT ![o].status = "revoked"]
          /\ work' = [work EXCEPT ![s] = [op |-> "idle"]]
          /\ work[s].op = "revoke"
      BY <1>4, <2>1 DEF Transfers!RevokeCommit, Transfers!Finish, Transfers!Idle,
                         TransfersInv, LiveKept, OfferNamed
    <2>3. /\ offer' \in [Offers -> OfferRow]
          /\ offer'[o].status # "none" /\ offer'[o].of = offer[o].of /\ offer'[o].to = offer[o].to
          /\ \A p \in Offers \ {o} : offer'[p] = offer[p]
      BY ONLY <1>a, <2>2 DEF OfferRow, OfferStatus
    <2>4. [op |-> "idle"] \in TransfersWork
      BY DEF TransfersWork
    <2>5. \A p \in Offers :
           \/ offer'[p] = offer[p]
           \/ /\ offer[p].status # "none" /\ offer'[p].status # "none"
              /\ offer'[p].of = offer[p].of /\ offer'[p].to = offer[p].to
      BY ONLY <2>2, <2>3
    <2> QED
      BY ONLY TransfersInv, <2>2, <2>3, <2>4, <2>5, TransfersRows
  <1> QED BY <1>1, <1>2, <1>3, <1>4

LEMMA TransfersOverdue ==
  ASSUME TransfersInv, NEW o \in Offers, Transfers!Overdue(o)
  PROVE  TransfersInv' /\ Transfers!HandsLiveOver
  <1>1. /\ offer[o].status = "pending" /\ UNCHANGED <<work, reservation>>
        /\ offer' = [offer EXCEPT ![o].late = TRUE]
    BY DEF Transfers!Overdue
  <1>2. offer \in [Offers -> OfferRow]
    BY DEF TransfersInv, TransfersType
  <1>3. /\ offer' \in [Offers -> OfferRow]
        /\ \A p \in Offers :
             /\ offer'[p].status = offer[p].status
             /\ offer'[p].of = offer[p].of /\ offer'[p].to = offer[p].to
    BY ONLY <1>1, <1>2 DEF OfferRow, OfferStatus
  <1>4. TransfersType'
    BY <1>1, <1>3 DEF TransfersInv, TransfersType
  <1>5. \A p \in Offers :
          /\ offer[p].status # "none" =>
               offer'[p].status # "none" /\ offer'[p].of = offer[p].of
          /\ offer'[p].status # "none" =>
               offer'[p].of \in Transferred /\ offer'[p].to \in Members
    BY <1>3 DEF TransfersInv, Owned
  <1> QED
    BY ONLY TransfersInv, <1>1, <1>4, <1>5, TransfersBesides

LEMMA TransfersStep ==
  ASSUME TransfersInv, Transfers!Next
  PROVE  TransfersInv' /\ Transfers!HandsLiveOver
  BY TransfersBegin, TransfersDecide, TransfersCommit, TransfersLook,
     TransfersOffers, TransfersOverdue DEF Transfers!Next

-----------------------------------------------------------------------------
(* Invitations of guests. *)

InvitationStatus == {"none", "pending", "accepted", "declined", "revoked"}
InvitationWork ==
  [op : {"idle"}] \cup [op : {"invite", "revoke"}, guest : Guests]
  \cup [op : {"respond"}, guest : Guests, answer : {"accepted", "declined"}]

InvitationsInv ==
  /\ invitation \in [Guests -> [status : InvitationStatus, late : BOOLEAN]]
  /\ work \in [Sessions -> InvitationWork]

LEMMA InvitationsStart == Invitations!Init => InvitationsInv
  BY DEF Invitations!Init, Invitations!Idle, InvitationsInv, InvitationStatus,
         InvitationWork

\* An answer is written only where the conditional UPDATE finds the invitation
\* open; every other write sets another status.
LEMMA InvitationsStep ==
  ASSUME InvitationsInv, Invitations!Next
  PROVE  InvitationsInv' /\ Invitations!AnswersOpenOnly
  <1> USE DEF InvitationsInv, InvitationStatus, InvitationWork,
              Invitations!AnswersOpenOnly, Invitations!Answers,
              Invitations!Finish, Invitations!Idle
  <1>1. CASE Invitations!End
    BY <1>1 DEF Invitations!End
  <1>2. ASSUME NEW g \in Guests, Invitations!TimeOver(g)
        PROVE  InvitationsInv' /\ Invitations!AnswersOpenOnly
    BY <1>2 DEF Invitations!TimeOver
  <1>3. ASSUME NEW s \in Sessions, Invitations!InviteCommit(s)
        PROVE  InvitationsInv' /\ Invitations!AnswersOpenOnly
    BY <1>3 DEF Invitations!InviteCommit
  <1>4. ASSUME NEW s \in Sessions, Invitations!RespondCommit(s)
        PROVE  InvitationsInv' /\ Invitations!AnswersOpenOnly
    BY <1>4 DEF Invitations!RespondCommit, Invitations!StillOpen, Invitations!Open
  <1>5. ASSUME NEW s \in Sessions, Invitations!RevokeCommit(s)
        PROVE  InvitationsInv' /\ Invitations!AnswersOpenOnly
    BY <1>5 DEF Invitations!RevokeCommit
  <1>6. ASSUME NEW s \in Sessions, NEW g \in Guests,
               \/ Invitations!InviteRead(s, g)
               \/ Invitations!RevokeRead(s, g)
               \/ \E answer \in Invitations!Answers :
                    Invitations!RespondRead(s, g, answer)
        PROVE  InvitationsInv' /\ Invitations!AnswersOpenOnly
    BY <1>6 DEF Invitations!InviteRead, Invitations!RevokeRead,
                Invitations!RespondRead
  <1> QED
    BY <1>1, <1>2, <1>3, <1>4, <1>5, <1>6 DEF Invitations!Next

-----------------------------------------------------------------------------
(* Reminders. *)

ReminderKeys == Reminders!Reminders

\* What a run holds: the reminders that are left, and the one it is sending.
IsRun(j) ==
  /\ j = [step |-> j.step, left |-> j.left, starts |-> j.starts, key |-> j.key]
  /\ j.left \subseteq ReminderKeys
  /\ \/ j.step = "note"
     \/ j.step \in {"mail", "audit"} /\ j.key \in ReminderKeys

RemindersType ==
  /\ mailed \in [ReminderKeys -> Nat] /\ audited \in [ReminderKeys -> Nat]
  /\ dismissed \in [ReminderKeys -> Nat]
  /\ inbox \subseteq [key : ReminderKeys, read : BOOLEAN]
  /\ \A m, n \in inbox : m.key = n.key => m = n
  /\ work = [w \in Sessions |-> work[w]]
  /\ \A w \in Sessions : work[w] = Reminders!Idle \/ IsRun(work[w])

\* The runs that have committed the notification but not sent the email, and
\* those that have sent it but not recorded it.
RunsAt(step, k) == {w \in Sessions : work[w].step = step /\ work[w].key = k}
There(k) == IF Reminders!Sent(k) THEN 1 ELSE 0

\* Every email has a notification that is there or was dismissed, and every
\* record an email.
SentFor(k) ==
  /\ mailed[k] + Cardinality(RunsAt("mail", k)) <= dismissed[k] + There(k)
  /\ audited[k] + Cardinality(RunsAt("audit", k)) <= mailed[k]
RemindersInv == RemindersType /\ \A k \in ReminderKeys : SentFor(k)

LEMMA RunsFinite ==
  ASSUME NEW step, NEW k
  PROVE  /\ IsFiniteSet(RunsAt(step, k)) /\ Cardinality(RunsAt(step, k)) \in Nat
  <1>1. RunsAt(step, k) \subseteq Sessions
    BY DEF RunsAt
  <1> QED BY <1>1, RemindersAssumption, FS_Subset, FS_CardinalityType

LEMMA RemindersStart == Reminders!Init => RemindersInv
  <1> SUFFICES ASSUME Reminders!Init PROVE RemindersInv
    OBVIOUS
  <1>1. RemindersType
    BY DEF Reminders!Init, RemindersType, ReminderKeys
  <1>2. \A step \in {"mail", "audit"} : \A k : RunsAt(step, k) = {}
    BY DEF Reminders!Init, Reminders!Idle, RunsAt
  <1>3. \A k \in ReminderKeys : SentFor(k)
    BY <1>2, FS_EmptySet DEF Reminders!Init, SentFor, There, Reminders!Sent,
       ReminderKeys
  <1> QED BY <1>1, <1>3 DEF RemindersInv

LEMMA RemindersBounded == RemindersInv => Reminders!RemindedOnce
  <1> SUFFICES ASSUME RemindersInv, NEW k \in ReminderKeys
               PROVE  mailed[k] <= 1 + dismissed[k] /\ audited[k] <= mailed[k]
    BY DEF Reminders!RemindedOnce, ReminderKeys
  <1>1. /\ mailed[k] \in Nat /\ audited[k] \in Nat /\ dismissed[k] \in Nat
    BY DEF RemindersInv, RemindersType
  <1>2. There(k) \in {0, 1}
    BY DEF There
  <1>3. SentFor(k)
    BY DEF RemindersInv
  <1> QED BY <1>1, <1>2, <1>3, RunsFinite DEF SentFor

\* A run that takes up or drops reminders sends none.
LEMMA RemindersRun ==
  ASSUME RemindersInv, NEW w \in Sessions, Reminders!Run(w) \/ Reminders!Stop(w)
  PROVE  RemindersInv'
  <1>1. /\ UNCHANGED <<inbox, mailed, audited, dismissed>>
        /\ \E j : /\ work' = [work EXCEPT ![w] = j]
                  /\ \/ j = Reminders!Idle
                     \/ IsRun(j) /\ j.step = "note"
    <2>1. CASE Reminders!Run(w)
      <3> DEFINE due == {Reminders!Due(id, now) : id \in Reminders!Candidates}
                 j == [step |-> "note", left |-> due,
                       starts |-> [id \in Reminders!Candidates |-> reservation[id].start],
                       key |-> None]
      <3>1. due \subseteq ReminderKeys
        <4>1. ASSUME NEW id \in Reminders!Candidates
              PROVE  Reminders!Due(id, now) \in ReminderKeys
          <5>1. id \in Reminded
            BY DEF Reminders!Candidates
          <5>2. (IF reservation[id].start <= now + Final THEN "final" ELSE "first")
                  \in {"first", "final"}
            OBVIOUS
          <5> QED BY <5>1, <5>2 DEF Reminders!Due, ReminderKeys, Reminders!Reminders,
                                    Reminders!Kinds
        <4> QED BY <4>1
      <3>2. IsRun(j) /\ j.step = "note"
        BY <3>1 DEF IsRun
      <3> QED BY <2>1, <3>2 DEF Reminders!Run
    <2>2. CASE Reminders!Stop(w)
      <3>1. /\ work' = [work EXCEPT ![w] = Reminders!Idle]
            /\ UNCHANGED <<inbox, mailed, audited, dismissed>>
        BY <2>2 DEF Reminders!Stop
      <3> QED BY <3>1
    <2> QED BY <2>1, <2>2
  <1>2. RemindersType'
    BY <1>1 DEF RemindersInv, RemindersType
  <1>3. \A x \in Sessions : work'[x] = work[x] \/ work'[x].step \notin {"mail", "audit"}
    BY <1>1 DEF RemindersInv, RemindersType, Reminders!Idle
  <1>4. \A step \in {"mail", "audit"}, k \in ReminderKeys :
          RunsAt(step, k)' \subseteq RunsAt(step, k)
    BY <1>3 DEF RunsAt
  <1>5. ASSUME NEW k \in ReminderKeys
        PROVE  SentFor(k)'
    <2>1. \A step \in {"mail", "audit"} :
            /\ Cardinality(RunsAt(step, k)') <= Cardinality(RunsAt(step, k))
            /\ Cardinality(RunsAt(step, k)) \in Nat /\ Cardinality(RunsAt(step, k)') \in Nat
      BY <1>4, RunsFinite, FS_Subset, FS_CardinalityType
    <2>2. There(k)' = There(k)
      BY <1>1 DEF There, Reminders!Sent
    <2>3. mailed[k] \in Nat /\ audited[k] \in Nat /\ dismissed[k] \in Nat /\ There(k) \in {0, 1}
      BY DEF RemindersInv, RemindersType, There
    <2>4. SentFor(k)
      BY DEF RemindersInv
    <2> QED BY <1>1, <2>1, <2>2, <2>3, <2>4 DEF SentFor
  <1> QED BY <1>2, <1>5 DEF RemindersInv

\* Whether a run is at a step of a reminder.
Here(w, step, k) == IF work[w].step = step /\ work[w].key = k THEN 1 ELSE 0

LEMMA Without ==
  ASSUME NEW A, IsFiniteSet(A), NEW w
  PROVE  Cardinality(A) = Cardinality(A \ {w}) + (IF w \in A THEN 1 ELSE 0)
  <1>1. Cardinality(A) \in Nat
    BY FS_CardinalityType
  <1>2. Cardinality(A \ {w}) = IF w \in A THEN Cardinality(A) - 1 ELSE Cardinality(A)
    BY FS_RemoveElement
  <1> QED BY ONLY <1>1, <1>2

LEMMA RunsMove ==
  ASSUME NEW w \in Sessions, \A x \in Sessions \ {w} : work'[x] = work[x],
         NEW step, NEW k
  PROVE  Cardinality(RunsAt(step, k)') + Here(w, step, k)
           = Cardinality(RunsAt(step, k)) + Here(w, step, k)'
  <1> DEFINE A == RunsAt(step, k)
             B == RunsAt(step, k)'
  <1>1. A \ {w} = B \ {w}
    BY DEF RunsAt
  <1>2. /\ Here(w, step, k) = IF w \in A THEN 1 ELSE 0
        /\ Here(w, step, k)' = IF w \in B THEN 1 ELSE 0
    BY DEF RunsAt, Here
  <1>3. IsFiniteSet(A) /\ IsFiniteSet(B) /\ Cardinality(A) \in Nat
    <2>1. A \subseteq Sessions /\ B \subseteq Sessions
      BY DEF RunsAt
    <2> QED BY <2>1, RemindersAssumption, FS_Subset, FS_CardinalityType
  <1> HIDE DEF A, B
  <1>4. /\ Cardinality(A) = Cardinality(A \ {w}) + (IF w \in A THEN 1 ELSE 0)
        /\ Cardinality(B) = Cardinality(A \ {w}) + (IF w \in B THEN 1 ELSE 0)
    BY <1>1, <1>3, Without
  <1>5. Cardinality(A \ {w}) \in Nat
    BY <1>3, FS_Subset, FS_CardinalityType
  <1>6. Cardinality(B) + Here(w, step, k) = Cardinality(A) + Here(w, step, k)'
    BY ONLY <1>2, <1>4, <1>5
  <1> QED BY ONLY <1>6 DEF A, B

LEMMA SentForMove ==
  ASSUME RemindersInv, RemindersType', NEW k \in ReminderKeys, NEW w \in Sessions,
         \A x \in Sessions \ {w} : work'[x] = work[x],
         (mailed'[k] - mailed[k]) + (Here(w, "mail", k)' - Here(w, "mail", k))
           <= (dismissed'[k] - dismissed[k]) + (There(k)' - There(k)),
         (audited'[k] - audited[k]) + (Here(w, "audit", k)' - Here(w, "audit", k))
           <= mailed'[k] - mailed[k]
  PROVE  SentFor(k)'
  <1>1. /\ Cardinality(RunsAt("mail", k)') + Here(w, "mail", k)
             = Cardinality(RunsAt("mail", k)) + Here(w, "mail", k)'
        /\ Cardinality(RunsAt("audit", k)') + Here(w, "audit", k)
             = Cardinality(RunsAt("audit", k)) + Here(w, "audit", k)'
    BY RunsMove
  <1>2. /\ mailed[k] \in Nat /\ audited[k] \in Nat /\ dismissed[k] \in Nat
        /\ mailed'[k] \in Nat /\ audited'[k] \in Nat /\ dismissed'[k] \in Nat
    BY DEF RemindersInv, RemindersType
  <1>3. /\ There(k) \in Nat /\ There(k)' \in Nat
        /\ Here(w, "mail", k) \in Nat /\ Here(w, "mail", k)' \in Nat
        /\ Here(w, "audit", k) \in Nat /\ Here(w, "audit", k)' \in Nat
    BY DEF There, Here
  <1>4. /\ Cardinality(RunsAt("mail", k)) \in Nat /\ Cardinality(RunsAt("audit", k)) \in Nat
        /\ Cardinality(RunsAt("mail", k)') \in Nat /\ Cardinality(RunsAt("audit", k)') \in Nat
    <2>1. \A step \in {"mail", "audit"} :
            RunsAt(step, k) \subseteq Sessions /\ RunsAt(step, k)' \subseteq Sessions
      BY DEF RunsAt
    <2> QED BY <2>1, RemindersAssumption, FS_Subset, FS_CardinalityType
  <1>5. SentFor(k)
    BY DEF RemindersInv
  <1> QED BY <1>1, <1>2, <1>3, <1>4, <1>5 DEF SentFor

\* One notification for each key: what is in the inbox stays told apart.
LEMMA RemindersNote ==
  ASSUME RemindersInv, NEW w \in Sessions, Reminders!Note(w)
  PROVE  RemindersInv'
  <1>1. PICK key \in work[w].left :
          IF ~Reminders!Sent(key)
          THEN /\ inbox' = inbox \cup {[key |-> key, read |-> FALSE]}
               /\ work' = [work EXCEPT ![w].left = work[w].left \ {key}, ![w].key = key,
                                       ![w].step = "mail"]
          ELSE /\ work' = [work EXCEPT ![w].left = work[w].left \ {key}]
               /\ UNCHANGED inbox
    BY DEF Reminders!Note, Reminders!NextOne, Reminders!KeyFree
  <1>2. UNCHANGED <<mailed, audited, dismissed>>
    BY DEF Reminders!Note
  <1>3. /\ IsRun(work[w]) /\ work[w].step = "note" /\ key \in ReminderKeys
        /\ work = [x \in Sessions |-> work[x]]
    BY DEF Reminders!Note, Reminders!Idle, RemindersInv, RemindersType, IsRun
  <1>4. CASE Reminders!Sent(key)
    <2>1. /\ IsRun(work'[w]) /\ work'[w].step = "note"
          /\ \A x \in Sessions \ {w} : work'[x] = work[x]
          /\ work' = [x \in Sessions |-> work'[x]]
      BY <1>1, <1>3, <1>4 DEF IsRun
    <2>2. UNCHANGED inbox
      BY <1>1, <1>4
    <2>3. RemindersType'
      BY <1>2, <2>1, <2>2 DEF RemindersInv, RemindersType
    <2>4. ASSUME NEW k \in ReminderKeys
          PROVE  SentFor(k)'
      <3>1. There(k)' = There(k)
        BY <2>2 DEF There, Reminders!Sent
      <3>2. /\ Here(w, "mail", k) = 0 /\ Here(w, "mail", k)' = 0
            /\ Here(w, "audit", k) = 0 /\ Here(w, "audit", k)' = 0
        BY <1>3, <2>1 DEF Here
      <3>3. /\ mailed[k] \in Nat /\ audited[k] \in Nat /\ dismissed[k] \in Nat
            /\ There(k) \in Nat
        BY DEF RemindersInv, RemindersType, There
      <3>4. /\ (mailed'[k] - mailed[k]) + (Here(w, "mail", k)' - Here(w, "mail", k))
                 <= (dismissed'[k] - dismissed[k]) + (There(k)' - There(k))
            /\ (audited'[k] - audited[k]) + (Here(w, "audit", k)' - Here(w, "audit", k))
                 <= mailed'[k] - mailed[k]
        BY ONLY <1>2, <3>1, <3>2, <3>3
      <3> QED BY ONLY RemindersInv, <2>1, <2>3, <3>4, SentForMove
    <2> QED BY <2>3, <2>4 DEF RemindersInv
  <1>5. CASE ~Reminders!Sent(key)
    <2> DEFINE note == [key |-> key, read |-> FALSE]
    <2>0. /\ inbox' = inbox \cup {note}
          /\ work' = [work EXCEPT ![w].left = work[w].left \ {key}, ![w].key = key,
                                  ![w].step = "mail"]
      BY <1>1, <1>5
    <2>1. /\ IsRun(work'[w]) /\ work'[w].step = "mail" /\ work'[w].key = key
          /\ \A x \in Sessions \ {w} : work'[x] = work[x]
          /\ work' = [x \in Sessions |-> work'[x]]
      BY ONLY <1>3, <2>0 DEF IsRun
    <2>a. note \in [key : ReminderKeys, read : BOOLEAN] /\ note.key = key
      BY <1>3
    <2>b. \A m \in inbox : m.key # key
      BY <1>5 DEF Reminders!Sent
    <2> HIDE DEF note
    <2>2. inbox' = inbox \cup {note}
      BY <2>0
    <2>c. /\ inbox' \subseteq [key : ReminderKeys, read : BOOLEAN]
          /\ \A m, n \in inbox' : m.key = n.key => m = n
      BY <2>2, <2>a, <2>b DEF RemindersInv, RemindersType
    <2>3. RemindersType'
      BY <1>2, <2>1, <2>c DEF RemindersInv, RemindersType
    <2>4. ASSUME NEW k \in ReminderKeys
          PROVE  SentFor(k)'
      <3>1. /\ k = key => There(k) = 0 /\ There(k)' = 1
            /\ k # key => There(k)' = There(k)
        BY <2>2, <2>a, <2>b DEF There, Reminders!Sent
      <3>2. /\ Here(w, "mail", k) = 0
            /\ Here(w, "mail", k)' = IF k = key THEN 1 ELSE 0
            /\ Here(w, "audit", k) = 0 /\ Here(w, "audit", k)' = 0
        BY <1>3, <2>1 DEF Here
      <3>3. /\ mailed[k] \in Nat /\ audited[k] \in Nat /\ dismissed[k] \in Nat
            /\ There(k) \in Nat
        BY DEF RemindersInv, RemindersType, There
      <3>4. /\ (mailed'[k] - mailed[k]) + (Here(w, "mail", k)' - Here(w, "mail", k))
                 <= (dismissed'[k] - dismissed[k]) + (There(k)' - There(k))
            /\ (audited'[k] - audited[k]) + (Here(w, "audit", k)' - Here(w, "audit", k))
                 <= mailed'[k] - mailed[k]
        BY ONLY <1>2, <3>1, <3>2, <3>3
      <3> QED BY ONLY RemindersInv, <2>1, <2>3, <3>4, SentForMove
    <2> QED BY <2>3, <2>4 DEF RemindersInv
  <1> QED BY <1>4, <1>5

\* The email is sent and then recorded.
LEMMA RemindersMail ==
  ASSUME RemindersInv, NEW w \in Sessions, Reminders!Mail(w) \/ Reminders!Audit(w)
  PROVE  RemindersInv'
  <1>1. /\ work[w].step \in {"mail", "audit"} /\ IsRun(work[w])
        /\ work = [x \in Sessions |-> work[x]]
    BY DEF Reminders!Mail, Reminders!Audit, Reminders!Idle, RemindersInv, RemindersType
  <1>2. PICK key \in ReminderKeys : key = work[w].key
    BY <1>1 DEF IsRun
  <1>3. CASE Reminders!Mail(w)
    <2>1. /\ work[w].step = "mail"
          /\ work' = [work EXCEPT ![w].step = "audit"]
          /\ mailed' = [mailed EXCEPT ![key] = mailed[key] + 1]
          /\ UNCHANGED <<inbox, audited, dismissed>>
      BY <1>2, <1>3 DEF Reminders!Mail
    <2>2. /\ IsRun(work'[w]) /\ work'[w].step = "audit" /\ work'[w].key = key
          /\ \A x \in Sessions \ {w} : work'[x] = work[x]
          /\ work' = [x \in Sessions |-> work'[x]]
      BY <1>1, <1>2, <2>1 DEF IsRun
    <2>3. RemindersType'
      BY <2>1, <2>2 DEF RemindersInv, RemindersType
    <2>4. ASSUME NEW k \in ReminderKeys
          PROVE  SentFor(k)'
      <3>1. There(k)' = There(k)
        BY <2>1 DEF There, Reminders!Sent
      <3>2. /\ Here(w, "mail", k) = (IF k = key THEN 1 ELSE 0) /\ Here(w, "mail", k)' = 0
            /\ Here(w, "audit", k) = 0 /\ Here(w, "audit", k)' = IF k = key THEN 1 ELSE 0
        BY <1>2, <2>1, <2>2 DEF Here
      <3>3. /\ mailed[k] \in Nat /\ audited[k] \in Nat /\ dismissed[k] \in Nat
            /\ There(k) \in Nat
        BY DEF RemindersInv, RemindersType, There
      <3>4. mailed'[k] = IF k = key THEN mailed[k] + 1 ELSE mailed[k]
        BY <2>1 DEF RemindersInv, RemindersType
      <3>5. /\ (mailed'[k] - mailed[k]) + (Here(w, "mail", k)' - Here(w, "mail", k))
                 <= (dismissed'[k] - dismissed[k]) + (There(k)' - There(k))
            /\ (audited'[k] - audited[k]) + (Here(w, "audit", k)' - Here(w, "audit", k))
                 <= mailed'[k] - mailed[k]
        BY ONLY <2>1, <3>1, <3>2, <3>3, <3>4
      <3> QED BY ONLY RemindersInv, <2>2, <2>3, <3>5, SentForMove
    <2> QED BY <2>3, <2>4 DEF RemindersInv
  <1>4. CASE Reminders!Audit(w)
    <2>1. /\ work[w].step = "audit"
          /\ work' = [work EXCEPT ![w].step = "note", ![w].key = None]
          /\ audited' = [audited EXCEPT ![key] = audited[key] + 1]
          /\ UNCHANGED <<inbox, mailed, dismissed>>
      BY <1>2, <1>4 DEF Reminders!Audit
    <2>2. /\ IsRun(work'[w]) /\ work'[w].step = "note"
          /\ \A x \in Sessions \ {w} : work'[x] = work[x]
          /\ work' = [x \in Sessions |-> work'[x]]
      BY <1>1, <2>1 DEF IsRun
    <2>3. RemindersType'
      BY <2>1, <2>2 DEF RemindersInv, RemindersType
    <2>4. ASSUME NEW k \in ReminderKeys
          PROVE  SentFor(k)'
      <3>1. There(k)' = There(k)
        BY <2>1 DEF There, Reminders!Sent
      <3>2. /\ Here(w, "mail", k) = 0 /\ Here(w, "mail", k)' = 0
            /\ Here(w, "audit", k) = (IF k = key THEN 1 ELSE 0) /\ Here(w, "audit", k)' = 0
        BY <1>2, <2>1, <2>2 DEF Here
      <3>3. /\ mailed[k] \in Nat /\ audited[k] \in Nat /\ dismissed[k] \in Nat
            /\ There(k) \in Nat
        BY DEF RemindersInv, RemindersType, There
      <3>4. audited'[k] = IF k = key THEN audited[k] + 1 ELSE audited[k]
        BY <2>1 DEF RemindersInv, RemindersType
      <3>5. /\ (mailed'[k] - mailed[k]) + (Here(w, "mail", k)' - Here(w, "mail", k))
                 <= (dismissed'[k] - dismissed[k]) + (There(k)' - There(k))
            /\ (audited'[k] - audited[k]) + (Here(w, "audit", k)' - Here(w, "audit", k))
                 <= mailed'[k] - mailed[k]
        BY ONLY <2>1, <3>1, <3>2, <3>3, <3>4
      <3> QED BY ONLY RemindersInv, <2>2, <2>3, <3>5, SentForMove
    <2> QED BY <2>3, <2>4 DEF RemindersInv
  <1> QED BY <1>3, <1>4

\* The runs go on as they were; the inbox changes.
LEMMA RemindersInbox ==
  ASSUME RemindersInv, RemindersType', UNCHANGED <<mailed, audited, work>>,
         \A k \in ReminderKeys : dismissed[k] + There(k) <= dismissed'[k] + There(k)'
  PROVE  RemindersInv'
  <1>1. ASSUME NEW k \in ReminderKeys
        PROVE  SentFor(k)'
    <2>1. RunsAt("mail", k)' = RunsAt("mail", k) /\ RunsAt("audit", k)' = RunsAt("audit", k)
      BY DEF RunsAt
    <2>2. /\ mailed[k] \in Nat /\ dismissed[k] \in Nat /\ dismissed'[k] \in Nat
          /\ There(k) \in Nat /\ There(k)' \in Nat
      BY DEF RemindersInv, RemindersType, There
    <2>3. SentFor(k)
      BY DEF RemindersInv
    <2> QED BY <2>1, <2>2, <2>3, RunsFinite DEF SentFor
  <1> QED BY <1>1 DEF RemindersInv

LEMMA RemindersRead ==
  ASSUME RemindersInv, NEW note \in inbox, Reminders!MarkRead(note)
  PROVE  RemindersInv'
  <1> DEFINE copy == [note EXCEPT !.read = TRUE]
  <1>1. /\ inbox' = (inbox \ {note}) \cup {copy}
        /\ UNCHANGED <<mailed, audited, dismissed, work>>
    BY DEF Reminders!MarkRead
  <1>2. copy \in [key : ReminderKeys, read : BOOLEAN] /\ copy.key = note.key
    BY DEF RemindersInv, RemindersType
  <1> HIDE DEF copy
  <1>3. RemindersType'
    BY <1>1, <1>2 DEF RemindersInv, RemindersType
  <1>4. \A k : Reminders!Sent(k)' <=> Reminders!Sent(k)
    BY <1>1, <1>2 DEF Reminders!Sent
  <1>5. \A k \in ReminderKeys : dismissed[k] + There(k) <= dismissed'[k] + There(k)'
    BY <1>1, <1>4 DEF There, RemindersInv, RemindersType
  <1> QED BY ONLY RemindersInv, <1>1, <1>3, <1>5, RemindersInbox

LEMMA RemindersDismiss ==
  ASSUME RemindersInv, NEW notes \in SUBSET inbox, Reminders!Dismiss(notes)
  PROVE  RemindersInv'
  <1>1. /\ inbox' = inbox \ notes /\ UNCHANGED <<mailed, audited, work>>
        /\ dismissed' = [k \in ReminderKeys |->
             dismissed[k] + Cardinality({note \in notes : note.key = k})]
    BY SameCardinality DEF Reminders!Dismiss, ReminderKeys
  <1>2. ASSUME NEW k \in ReminderKeys
        PROVE  /\ dismissed'[k] \in Nat
               /\ dismissed[k] + There(k) <= dismissed'[k] + There(k)'
    <2> DEFINE gone == {note \in notes : note.key = k}
    <2>1. dismissed[k] \in Nat /\ There(k) \in {0, 1} /\ There(k)' \in {0, 1}
      BY DEF RemindersInv, RemindersType, There
    <2>2. dismissed'[k] = dismissed[k] + Cardinality(gone)
      BY <1>1
    <2>3. CASE gone = {}
      <3>1. There(k)' = There(k)
        BY <1>1, <2>3 DEF There, Reminders!Sent
      <3>2. Cardinality(gone) = 0
        BY <2>3, FS_EmptySet
      <3> QED BY ONLY <2>1, <2>2, <3>1, <3>2
    <2>4. CASE gone # {}
      <3>1. PICK n : gone = {n}
        BY <2>4 DEF RemindersInv, RemindersType
      <3>2. Cardinality(gone) = 1
        BY <3>1, FS_Singleton
      <3> HIDE DEF gone
      <3> QED BY ONLY <2>1, <2>2, <3>2
    <2> QED BY <2>3, <2>4
  <1>3. RemindersType'
    BY <1>1, <1>2 DEF RemindersInv, RemindersType
  <1> QED BY ONLY RemindersInv, <1>1, <1>2, <1>3, RemindersInbox

LEMMA RemindersStep ==
  ASSUME RemindersInv, Reminders!Next
  PROVE  RemindersInv'
  <1>1. ASSUME UNCHANGED <<inbox, mailed, audited, dismissed, work>>
        PROVE  RemindersInv'
    BY <1>1 DEF RemindersInv, RemindersType, SentFor, RunsAt, There, Reminders!Sent
  <1>2. CASE Reminders!Tick
    BY <1>1, <1>2 DEF Reminders!Tick
  <1>3. CASE \E id \in Reminded :
               Reminders!Cancel(id) \/ \E start \in Starts : Reminders!Reschedule(id, start)
    BY <1>1, <1>3 DEF Reminders!Cancel, Reminders!Reschedule
  <1>4. CASE Reminders!DismissOne
    BY <1>4, RemindersDismiss DEF Reminders!DismissOne
  <1>5. CASE Reminders!DismissRead
    BY <1>5, RemindersDismiss DEF Reminders!DismissRead
  <1>6. CASE \E note \in inbox : Reminders!MarkRead(note)
    BY <1>6, RemindersRead
  <1>7. CASE \E w \in Sessions :
               \/ Reminders!Run(w) \/ Reminders!Note(w) \/ Reminders!Mail(w)
               \/ Reminders!Audit(w) \/ Reminders!Stop(w)
    BY <1>7, RemindersRun, RemindersNote, RemindersMail
  <1> QED
    BY <1>2, <1>3, <1>4, <1>5, <1>6, <1>7 DEF Reminders!Next

-----------------------------------------------------------------------------
(* The scenes. *)

PartsInv ==
  /\ scene = "extras" => ExtrasInv
  /\ scene = "blocks" => BlocksInv
  /\ scene = "waitlist" => WaitlistInv
  /\ scene = "transfers" => TransfersInv
  /\ scene = "guests" => InvitationsInv
  /\ scene = "reminders" => RemindersInv

LEMMA PartsStart == PartsInit => PartsInv
  BY ExtrasStart, BlocksStart, WaitlistStart, TransfersStart, InvitationsStart,
     RemindersStart DEF PartsInit, PartsInv

\* A step of the scene's component keeps its invariant; the others do not run.
LEMMA PartsSteps ==
  ASSUME PartsInv, PartsNext
  PROVE  /\ PartsInv'
         /\ scene = "blocks" => Blocks!BlockedStays
         /\ scene = "waitlist" => Waiting!PicksOldest
         /\ scene = "transfers" => Transfers!HandsLiveOver
         /\ scene = "guests" => Invitations!AnswersOpenOnly
  <1>1. scene' = scene
    BY DEF PartsNext
  <1>2. CASE scene = "life"
    BY <1>1, <1>2 DEF PartsInv
  <1>3. CASE scene = "extras"
    <2>1. ExtrasInv /\ Extras!Next
      BY <1>3 DEF PartsInv, PartsNext
    <2> QED BY <1>1, <1>3, <2>1, ExtrasStep DEF PartsInv
  <1>4. CASE scene = "blocks"
    <2>1. BlocksInv /\ Blocks!Next
      BY <1>4 DEF PartsInv, PartsNext
    <2> QED BY <1>1, <1>4, <2>1, BlocksStep DEF PartsInv
  <1>5. CASE scene = "waitlist"
    <2>1. WaitlistInv /\ Waiting!Next
      BY <1>5 DEF PartsInv, PartsNext
    <2> QED BY <1>1, <1>5, <2>1, WaitlistStep DEF PartsInv
  <1>6. CASE scene = "transfers"
    <2>1. TransfersInv /\ Transfers!Next
      BY <1>6 DEF PartsInv, PartsNext
    <2> QED BY <1>1, <1>6, <2>1, TransfersStep DEF PartsInv
  <1>7. CASE scene = "guests"
    <2>1. InvitationsInv /\ Invitations!Next
      BY <1>7 DEF PartsInv, PartsNext
    <2> QED BY <1>1, <1>7, <2>1, InvitationsStep DEF PartsInv
  <1>8. CASE scene = "reminders"
    <2>1. RemindersInv /\ Reminders!Next
      BY <1>8 DEF PartsInv, PartsNext
    <2> QED BY <1>1, <1>8, <2>1, RemindersStep DEF PartsInv
  <1> QED
    BY <1>2, <1>3, <1>4, <1>5, <1>6, <1>7, <1>8 DEF PartsNext

\* Nothing happens: every component's invariant stays.
LEMMA PartsStutter == PartsInv /\ UNCHANGED partsVars => PartsInv'
  <1> SUFFICES ASSUME PartsInv, UNCHANGED partsVars PROVE PartsInv'
    OBVIOUS
  <1>1. /\ UNCHANGED <<scene, work, bookings, promotion, addOn, block>>
        /\ UNCHANGED <<booked, entry, freed, inbox, count, reservation, offer>>
        /\ UNCHANGED <<invitation, live, mailed, audited, dismissed>>
    BY DEF partsVars
  <1>2. ExtrasInv => ExtrasInv'
    BY <1>1 DEF ExtrasInv, ExtrasType, ExtrasKept, KeptBy, RowNamed, Taking, Room,
       Redeeming, Redeemable, ExtrasCounted, Redeemed, Extras!Pieces
  <1>3. BlocksInv => BlocksInv'
    BY <1>1 DEF BlocksInv, BlocksType, BlocksKept, Blocks!Past
  <1>4. WaitlistInv => WaitlistInv'
    BY <1>1 DEF WaitlistInv, WaitlistType, ToldByOne, Tells
  <1>5. TransfersInv => TransfersInv'
    BY <1>1 DEF TransfersInv, TransfersType, Owned, RoomKept, LiveKept, Adds,
       OfferNamed, Transfers!Handing, Transfers!Active
  <1>6. InvitationsInv => InvitationsInv'
    BY <1>1 DEF InvitationsInv
  <1>7. RemindersInv => RemindersInv'
    BY <1>1 DEF RemindersInv, RemindersType, IsRun, SentFor, RunsAt, There,
       Reminders!Sent
  <1> QED
    BY <1>1, <1>2, <1>3, <1>4, <1>5, <1>6, <1>7 DEF PartsInv

LEMMA PartsInvariance == PartsSpec => []PartsInv
  <1>1. PartsInv /\ [PartsNext]_partsVars => PartsInv'
    BY PartsSteps, PartsStutter
  <1> QED BY <1>1, PartsStart, PTL DEF PartsSpec

\* Requests that arrive together never exceed what is limited: the stock of an
\* add-on at any time, the redemptions of a promotion, and the reservations of a
\* customer who books and is handed one, however many requests, occurrences of a
\* series, moves and cancellations run (reservation_service, and accept of
\* reservation_transfer_service).
THEOREM LimitsKeptAlways == PartsSpec => []LimitsKept
  <1>1. PartsInv => LimitsKept
    BY ExtrasBoundedThen, TransfersLimit DEF PartsInv, LimitsKept
  <1> QED BY <1>1, PartsInvariance, PTL

\* Freed times that are processed together tell an entry of the waitlist once
\* (notify_next_for_slot), and overlapping runs of the reminders send one once,
\* and once more for each time that its notification was dismissed, in whatever
\* order the runs and the customers' changes come (send_due_reminders).
THEOREM ToldOnceAlways == PartsSpec => []ToldOnce
  <1>1. PartsInv => ToldOnce
    BY WaitlistToldOnce, RemindersBounded DEF PartsInv, ToldOnce
  <1> QED BY <1>1, PartsInvariance, PTL

\* No booking and no move of a customer commits while the venue blocks the
\* customer: both sides look under the lock of the customer's row
\* (reservation_service, venue_customer_block_service).
THEOREM BlockedNeverBookAlways == PartsSpec => BlockedNeverBook
  <1>1. PartsInv /\ [PartsNext]_partsVars =>
          [scene = "blocks" => Blocks!BlockedStays]_partsVars
    BY PartsSteps
  <1> QED BY <1>1, PartsInvariance, PTL DEF PartsSpec, BlockedNeverBook

\* An answer that was on its way revives nothing: only a confirmed reservation
\* is handed over, and only an open invitation is answered
\* (accept of reservation_transfer_service, respond of reservation_guest_service).
THEOREM EndedStaysEndedAlways == PartsSpec => EndedStaysEnded
  <1>1. PartsInv /\ [PartsNext]_partsVars =>
          [/\ scene = "transfers" => Transfers!HandsLiveOver
           /\ scene = "guests" => Invitations!AnswersOpenOnly]_partsVars
    BY PartsSteps
  <1> QED BY <1>1, PartsInvariance, PTL DEF PartsSpec, EndedStaysEnded

\* Whom the waitlist picks nobody has waited longer than, except those whom a
\* concurrent request is telling (notify_next_for_slot, whose query skips locked
\* entries).
THEOREM OldestFirstAlways == PartsSpec => OldestFirst
  <1>1. PartsInv /\ [PartsNext]_partsVars =>
          [scene = "waitlist" => Waiting!PicksOldest]_partsVars
    BY PartsSteps
  <1> QED BY <1>1, PartsInvariance, PTL DEF PartsSpec, OldestFirst

=============================================================================
