------------------------- MODULE EmoticonMarketProofs -------------------------
(***************************************************************************)
(* The emoticon market for every finite set of members and packs, every    *)
(* set of requests and without a bound on prices, sales or updates: what   *)
(* is for sale was reviewed, and the books balance.  The balance is of     *)
(* sums over members and packs, so the lemmas on sums come between.        *)
(***************************************************************************)
EXTENDS EmoticonMarket, FiniteSetTheorems, TLAPS

-----------------------------------------------------------------------------
(* The part of the type invariant that concerns packs and requests.        *)

PackRow == [status: Statuses, price: Nat, deleted: BOOLEAN, sales: Nat,
            content: Nat, reviewed: Nat, overtaken: BOOLEAN]
Request == [pc: Steps, user: Users \union {None}, pack: Packs \union {None},
            price: Nat, status: Statuses, buyers: [Users -> Nat]]

RowsOK ==
  /\ pack \in [Packs -> PackRow]
  /\ owned \in [Packs -> [Users -> Nat]]
  /\ req \in [Requests -> Request]
  /\ \A r \in Requests : req[r].pc # "idle" => req[r].pack \in Packs

\* An update under way that found its pack pending finds it not approved when it
\* commits, or the approval overtook it.
PendingStays ==
  \A r \in Requests :
    req[r].pc = "updating" /\ req[r].status = "pending" =>
      pack[req[r].pack].status # "approved" \/ pack[req[r].pack].overtaken

\* A request that is over is a request at rest.
LEMMA IdleType == Idle \in Request /\ Idle.pc = "idle"
BY DEF Idle, Request, Steps, Statuses, Nobody

\* A request that starts, goes on or ends leaves the other requests alone.
LEMMA BecomeType ==
  ASSUME NEW r \in Requests, NEW state \in Request, req \in [Requests -> Request],
         Become(r, state)
  PROVE  /\ req' \in [Requests -> Request]
         /\ req'[r] = state
         /\ \A q \in Requests \ {r} : req'[q] = req[q]
BY DEF Become

\* Ending a request keeps the types.
LEMMA DoneType ==
  ASSUME NEW r \in Requests, req \in [Requests -> Request], Done(r)
  PROVE  /\ req' \in [Requests -> Request]
         /\ req'[r].pc = "idle"
         /\ \A q \in Requests \ {r} : req'[q] = req[q]
BY IdleType, BecomeType DEF Done

\* Both parts survive a step that ends a request, leaves the status, contents and
\* reviews of all packs alone, and keeps the types.
LEMMA DoneStep ==
  ASSUME NEW r \in Requests, RowsOK, PendingStays, ReviewedBeforeSale, Done(r),
         pack' \in [Packs -> PackRow], owned' \in [Packs -> [Users -> Nat]],
         \A p \in Packs : /\ pack'[p].status = pack[p].status
                          /\ pack'[p].content = pack[p].content
                          /\ pack'[p].reviewed = pack[p].reviewed
                          /\ pack'[p].overtaken = pack[p].overtaken
  PROVE  RowsOK' /\ PendingStays' /\ ReviewedBeforeSale'
<1>1. /\ req' \in [Requests -> Request]
      /\ req'[r].pc = "idle"
      /\ \A q \in Requests \ {r} : req'[q] = req[q]
  BY DoneType DEF RowsOK
<1>2. RowsOK'
  BY <1>1 DEF RowsOK
<1>3. PendingStays'
  BY <1>1 DEF PendingStays, RowsOK
<1>4. ReviewedBeforeSale'
  BY DEF ReviewedBeforeSale
<1>5. QED
  BY <1>2, <1>3, <1>4

\* Both parts survive a step by which a request starts or goes on and that
\* changes no row.
LEMMA ReadStep ==
  ASSUME NEW r \in Requests, NEW state \in Request, RowsOK, PendingStays,
         ReviewedBeforeSale, Become(r, state), state.pack \in Packs,
         UNCHANGED <<pack, owned>>,
         state.pc = "updating" => state.status = pack[state.pack].status
  PROVE  RowsOK' /\ PendingStays' /\ ReviewedBeforeSale'
<1>1. /\ req' \in [Requests -> Request]
      /\ req'[r] = state
      /\ \A q \in Requests \ {r} : req'[q] = req[q]
  BY BecomeType DEF RowsOK
<1>2. RowsOK'
  BY <1>1 DEF RowsOK
<1>3. PendingStays'
  BY <1>1 DEF PendingStays
<1>4. ReviewedBeforeSale'
  BY DEF ReviewedBeforeSale
<1>5. QED
  BY <1>2, <1>3, <1>4

\* The steps of administrators keep the types and what is known of updates.
LEMMA AdministrationStep ==
  ASSUME NEW p \in Packs, RowsOK, PendingStays, ReviewedBeforeSale, Administration(p)
  PROVE  RowsOK' /\ PendingStays' /\ ReviewedBeforeSale'
<1> USE DEF RowsOK, PackRow
<1>1. UNCHANGED <<owned, req>>
  BY DEF Administration, CreatePack, UpdatePrice, UpdateStatus, Remove, Restore, books
<1>2. ASSUME NEW price \in Prices, CreatePack(p, price)
      PROVE  RowsOK' /\ PendingStays' /\ ReviewedBeforeSale'
  <2>1. RowsOK'
    <3> DEFINE row == [pack[p] EXCEPT !.status = "pending", !.price = price, !.content = 1]
    <3>1. pack' = [pack EXCEPT ![p] = row]
      BY <1>2 DEF CreatePack
    <3>2. row \in PackRow
      <4>1. pack[p] \in PackRow /\ price \in Nat /\ "pending" \in Statuses
        BY ConstantsAssumption DEF ConstantsAssumption, Statuses
      <4>2. QED
        BY <4>1
    <3>3. pack' \in [Packs -> PackRow]
      BY <3>1, <3>2
    <3>4. QED
      BY <1>1, <3>3
  <2>2. PendingStays'
    BY <1>1, <1>2 DEF CreatePack, PendingStays
  <2>3. ReviewedBeforeSale'
    BY <1>2 DEF CreatePack, ReviewedBeforeSale
  <2>4. QED
    BY <2>1, <2>2, <2>3
<1>3. ASSUME NEW status \in Statuses \ {"none"}, UpdateStatus(p, status)
      PROVE  RowsOK' /\ PendingStays' /\ ReviewedBeforeSale'
  <2>0. Updating(p) \in BOOLEAN
    BY DEF Updating
  <2>1. RowsOK'
    <3>1. pack' \in [Packs -> PackRow]
      <4> DEFINE row == [pack[p] EXCEPT !.status = status,
                   !.reviewed = IF status = "approved" THEN pack[p].content ELSE @,
                   !.overtaken = IF status = "approved" THEN Updating(p) ELSE @]
      <4>1. pack' = [pack EXCEPT ![p] = row]
        BY <1>3 DEF UpdateStatus
      <4>2. row \in PackRow
        BY <1>3, <2>0
      <4>3. QED
        BY <4>1, <4>2
    <3>2. QED
      BY <1>1, <3>1
  <2>2. PendingStays'
    <3>1. SUFFICES ASSUME NEW r \in Requests, req[r].pc = "updating",
                          req[r].status = "pending"
                   PROVE  \/ pack'[req[r].pack].status # "approved"
                          \/ pack'[req[r].pack].overtaken
      BY <1>1 DEF PendingStays
    <3>2. req[r].pack \in Packs
      BY <3>1
    <3>3. CASE req[r].pack = p /\ status = "approved"
      <4>1. Updating(p)
        BY <3>1, <3>3 DEF Updating
      <4>2. pack'[p].overtaken = Updating(p)
        BY <1>3, <3>3 DEF UpdateStatus
      <4>3. QED
        BY <3>3, <4>1, <4>2
    <3>4. CASE req[r].pack = p /\ status # "approved"
      BY <1>3, <3>4 DEF UpdateStatus
    <3>5. CASE req[r].pack # p
      BY <1>3, <3>1, <3>2, <3>5 DEF UpdateStatus, PendingStays
    <3>6. QED
      BY <3>3, <3>4, <3>5
  <2>3. ReviewedBeforeSale'
    BY <1>3, <2>0 DEF UpdateStatus, ReviewedBeforeSale
  <2>4. QED
    BY <2>1, <2>2, <2>3
<1>4. ASSUME \/ \E price \in Prices : UpdatePrice(p, price)
             \/ Remove(p)
             \/ Restore(p)
      PROVE  RowsOK' /\ PendingStays' /\ ReviewedBeforeSale'
  <2>0. PICK price \in Nat, deleted \in BOOLEAN :
          pack' = [pack EXCEPT ![p] = [pack[p] EXCEPT !.price = price, !.deleted = deleted]]
    <3>1. ASSUME NEW price \in Prices, UpdatePrice(p, price)
          PROVE  /\ price \in Nat
                 /\ pack[p].deleted \in BOOLEAN
                 /\ pack' = [pack EXCEPT ![p] = [pack[p] EXCEPT !.price = price,
                                                               !.deleted = pack[p].deleted]]
      BY <3>1, ConstantsAssumption DEF UpdatePrice, ConstantsAssumption
    <3>2. ASSUME Remove(p) \/ Restore(p)
          PROVE  \E deleted \in BOOLEAN :
                   /\ pack[p].price \in Nat
                   /\ pack' = [pack EXCEPT ![p] = [pack[p] EXCEPT !.price = pack[p].price,
                                                                 !.deleted = deleted]]
      BY <3>2 DEF Remove, Restore
    <3>3. QED
      BY <1>4, <3>1, <3>2
  <2>1. pack' \in [Packs -> PackRow]
    BY <2>0
  <2>2. \A q \in Packs : /\ pack'[q].status = pack[q].status
                         /\ pack'[q].content = pack[q].content
                         /\ pack'[q].reviewed = pack[q].reviewed
                         /\ pack'[q].overtaken = pack[q].overtaken
    BY <2>0
  <2>3. QED
    BY <1>1, <2>1, <2>2 DEF PendingStays, ReviewedBeforeSale
<1>5. QED
  BY <1>2, <1>3, <1>4 DEF Administration

\* A committed update writes a pack.
LEMMA UpdatedType ==
  ASSUME NEW old \in PackRow, NEW price \in Nat, NEW content \in Nat,
         NEW status \in Statuses
  PROVE  [old EXCEPT !.price = price, !.content = content, !.status = status] \in PackRow
BY DEF PackRow

\* An update that found the pack pending meets one that is not approved, or one
\* that was overtaken; any other makes it wait for a review.
LEMMA CommitUpdateStep ==
  ASSUME NEW r \in Requests, RowsOK, PendingStays, ReviewedBeforeSale, CommitUpdate(r)
  PROVE  RowsOK' /\ PendingStays' /\ ReviewedBeforeSale'
<1> DEFINE p == req[r].pack
<1>1. /\ p \in Packs
      /\ req[r] \in Request
      /\ req[r].pc = "updating"
  BY DEF RowsOK, CommitUpdate
<1>2. /\ req' \in [Requests -> Request]
      /\ req'[r].pc = "idle"
      /\ \A q \in Requests \ {r} : req'[q] = req[q]
  BY DoneType DEF RowsOK, CommitUpdate
<1>3. pack' = [pack EXCEPT ![p].price = req[r].price,
                           ![p].content = @ + 1,
                           ![p].status = IF req[r].status = "pending" THEN @ ELSE "pending"]
  BY DEF CommitUpdate
<1>4. /\ pack'[p].overtaken = pack[p].overtaken
      /\ pack'[p].status = IF req[r].status = "pending" THEN pack[p].status ELSE "pending"
      /\ \A q \in Packs \ {p} : pack'[q] = pack[q]
  BY <1>1, <1>3 DEF RowsOK, PackRow
<1>5. RowsOK'
  <2>1. pack' \in [Packs -> PackRow]
    <3> DEFINE row == [pack[p] EXCEPT !.price = req[r].price, !.content = @ + 1,
                 !.status = IF req[r].status = "pending" THEN @ ELSE "pending"]
    <3>1. pack' = [pack EXCEPT ![p] = row]
      BY <1>3
    <3>2. req[r].price \in Nat /\ pack[p] \in PackRow
      BY <1>1 DEF Request, RowsOK
    <3>3. row \in PackRow
      <4>1. (IF req[r].status = "pending" THEN pack[p].status ELSE "pending") \in Statuses
        BY <3>2 DEF PackRow, Statuses
      <4>3. pack[p].content + 1 \in Nat
        BY <3>2 DEF PackRow
      <4>4. QED
        BY <3>2, <4>1, <4>3, UpdatedType
    <3>4. QED
      BY <3>1, <3>3 DEF RowsOK
  <2>2. owned' = owned
    BY DEF CommitUpdate, books
  <2>3. QED
    BY <1>2, <2>1, <2>2 DEF RowsOK
<1>6. PendingStays'
  <2>1. SUFFICES ASSUME NEW q \in Requests, req'[q].pc = "updating",
                        req'[q].status = "pending"
                 PROVE  \/ pack'[req'[q].pack].status # "approved"
                        \/ pack'[req'[q].pack].overtaken
    BY DEF PendingStays
  <2>2. q # r /\ req'[q] = req[q] /\ req[q].pack \in Packs
    BY <1>2, <2>1 DEF RowsOK
  <2>3. \/ pack[req[q].pack].status # "approved"
        \/ pack[req[q].pack].overtaken
    BY <2>1, <2>2 DEF PendingStays
  <2>4. QED
    BY <1>4, <2>2, <2>3
<1>7. ReviewedBeforeSale'
  <2>1. pack'[p].status = "approved" => pack'[p].overtaken
    BY <1>1, <1>4 DEF PendingStays
  <2>2. QED
    BY <1>4, <2>1 DEF ReviewedBeforeSale
<1>8. QED
  BY <1>5, <1>6, <1>7

\* The steps of requests keep the types and what is known of updates.
LEMMA ServeStep ==
  ASSUME NEW r \in Requests, RowsOK, PendingStays, ReviewedBeforeSale, Serve(r)
  PROVE  RowsOK' /\ PendingStays' /\ ReviewedBeforeSale'
<1>0. req[r] \in Request
  BY DEF RowsOK
<1>1. ASSUME NEW p \in Packs, NEW price \in Prices, BeginUpdate(r, p, price)
      PROVE  RowsOK' /\ PendingStays' /\ ReviewedBeforeSale'
  <2> DEFINE state == [Idle EXCEPT !.pc = "updating", !.pack = p, !.price = price,
                                   !.status = pack[p].status]
  <2>1. Become(r, state) /\ UNCHANGED <<pack, owned>>
    BY <1>1 DEF BeginUpdate, Begin, books
  <2>2. state \in Request
    BY IdleType, ConstantsAssumption
       DEF Request, Idle, Steps, RowsOK, PackRow, ConstantsAssumption
  <2>3. state.pack = p /\ state.pc = "updating" /\ state.status = pack[p].status
    BY DEF Idle
  <2>4. QED
    BY <2>1, <2>2, <2>3, ReadStep
<1>2. ASSUME NEW p \in Packs, NEW u \in Users, BeginPurchase(r, u, p)
      PROVE  RowsOK' /\ PendingStays' /\ ReviewedBeforeSale'
  <2> DEFINE state == [Idle EXCEPT !.pc = "buying", !.user = u, !.pack = p,
                                   !.price = pack[p].price]
  <2>1. Become(r, state) /\ UNCHANGED <<pack, owned>>
    BY <1>2 DEF BeginPurchase, Begin, books
  <2>2. state \in Request
    BY IdleType DEF Request, Idle, Steps, RowsOK, PackRow
  <2>3. state.pack = p /\ state.pc # "updating"
    BY DEF Idle
  <2>4. QED
    BY <2>1, <2>2, <2>3, ReadStep
<1>3. ASSUME NEW p \in Packs, BeginForce(r, p)
      PROVE  RowsOK' /\ PendingStays' /\ ReviewedBeforeSale'
  <2> DEFINE state == [Idle EXCEPT !.pc = "forcing", !.pack = p, !.price = pack[p].price]
  <2>1. Become(r, state) /\ UNCHANGED <<pack, owned>>
    BY <1>3 DEF BeginForce, Begin, books
  <2>2. state \in Request
    BY IdleType DEF Request, Idle, Steps, RowsOK, PackRow
  <2>3. state.pack = p /\ state.pc # "updating"
    BY DEF Idle
  <2>4. QED
    BY <2>1, <2>2, <2>3, ReadStep
<1>4. CASE CheckOwned(r)
  <2> DEFINE state == [req[r] EXCEPT !.pc = "paying"]
  <2>1. UNCHANGED <<pack, owned>> /\ req[r].pc = "buying"
    BY <1>4 DEF CheckOwned, books
  <2>2. state \in Request /\ state.pack \in Packs /\ state.pc = "paying"
    BY <1>0, <2>1 DEF Request, Steps, RowsOK
  <2>3. Done(r) \/ Become(r, state)
    BY <1>4 DEF CheckOwned
  <2>4. CASE Become(r, state)
    BY <2>1, <2>2, <2>4, ReadStep
  <2>5. CASE Done(r)
    BY <2>1, <2>5, DoneStep DEF RowsOK
  <2>6. QED
    BY <2>3, <2>4, <2>5
<1>5. CASE FindBuyers(r)
  <2> DEFINE state == [req[r] EXCEPT !.pc = "refunding", !.buyers = owned[req[r].pack]]
  <2>1. Become(r, state) /\ UNCHANGED <<pack, owned>> /\ req[r].pc = "forcing"
    BY <1>5 DEF FindBuyers, books
  <2>2. state \in Request /\ state.pack \in Packs /\ state.pc = "refunding"
    BY <1>0, <2>1 DEF Request, Steps, RowsOK
  <2>3. QED
    BY <2>1, <2>2, ReadStep
<1>6. CASE Pay(r)
  <2>1. req[r].pack \in Packs /\ req[r].pc = "paying" /\ Done(r)
    BY <1>6 DEF Pay, RowsOK
  <2>2. pack' = [pack EXCEPT ![req[r].pack].sales = @ + 1]
    BY <1>6 DEF Pay
  <2>3. pack' \in [Packs -> PackRow]
    <3>1. pack[req[r].pack] \in PackRow
      BY <2>1 DEF RowsOK
    <3>2. [pack[req[r].pack] EXCEPT !.sales = @ + 1] \in PackRow
      BY <3>1 DEF PackRow
    <3>3. pack' = [pack EXCEPT ![req[r].pack] = [pack[req[r].pack] EXCEPT !.sales = @ + 1]]
      BY <2>2
    <3>4. QED
      BY <3>2, <3>3 DEF RowsOK
  <2>4. owned' \in [Packs -> [Users -> Nat]]
    <3>1. owned' = [owned EXCEPT ![req[r].pack] =
                      [owned[req[r].pack] EXCEPT ![req[r].user] = @ + 1]]
      BY <1>6 DEF Pay
    <3>2. owned[req[r].pack] \in [Users -> Nat]
      BY <2>1 DEF RowsOK
    <3>3. [owned[req[r].pack] EXCEPT ![req[r].user] = @ + 1] \in [Users -> Nat]
      <4>1. CASE req[r].user \in Users
        BY <3>2, <4>1
      <4>2. CASE req[r].user \notin Users
        BY <3>2, <4>2
      <4>3. QED
        BY <4>1, <4>2
    <3>4. QED
      BY <3>1, <3>3 DEF RowsOK
  <2>5. \A p \in Packs : /\ pack'[p].status = pack[p].status
                         /\ pack'[p].content = pack[p].content
                         /\ pack'[p].reviewed = pack[p].reviewed
                         /\ pack'[p].overtaken = pack[p].overtaken
    BY <2>2 DEF RowsOK, PackRow
  <2>6. QED
    BY <2>1, <2>3, <2>4, <2>5, DoneStep
<1>7. CASE Refund(r)
  <2>1. req[r].pack \in Packs /\ Done(r)
    BY <1>7 DEF Refund, RowsOK
  <2>2. pack' = [pack EXCEPT ![req[r].pack].deleted = TRUE]
    BY <1>7 DEF Refund
  <2>3. pack' \in [Packs -> PackRow]
    BY <2>1, <2>2 DEF RowsOK, PackRow
  <2>4. owned' \in [Packs -> [Users -> Nat]]
    BY <1>7, <2>1 DEF Refund, RowsOK, Nobody
  <2>5. \A p \in Packs : /\ pack'[p].status = pack[p].status
                         /\ pack'[p].content = pack[p].content
                         /\ pack'[p].reviewed = pack[p].reviewed
                         /\ pack'[p].overtaken = pack[p].overtaken
    BY <2>2 DEF RowsOK, PackRow
  <2>6. QED
    BY <2>1, <2>3, <2>4, <2>5, DoneStep
<1>8. CASE Fail(r)
  BY <1>8, DoneStep DEF Fail, books, RowsOK
<1>9. QED
  BY <1>1, <1>2, <1>3, <1>4, <1>5, <1>6, <1>7, <1>8, CommitUpdateStep DEF Serve

\* The types of the rows, and what is known of updates and reviews, always hold.
LEMMA ReviewsInvariant == Spec => [](RowsOK /\ PendingStays /\ ReviewedBeforeSale)
<1> DEFINE Inv == RowsOK /\ PendingStays /\ ReviewedBeforeSale
<1>1. Init => Inv
  <2> SUFFICES ASSUME Init PROVE Inv
    OBVIOUS
  <2>1. RowsOK
    BY IdleType DEF Init, RowsOK, PackRow, Statuses, Nobody
  <2>2. PendingStays
    BY IdleType DEF Init, PendingStays
  <2>3. ReviewedBeforeSale
    BY DEF Init, ReviewedBeforeSale
  <2>4. QED
    BY <2>1, <2>2, <2>3
<1>2. Inv /\ [Next]_vars => Inv'
  <2> SUFFICES ASSUME RowsOK, PendingStays, ReviewedBeforeSale, [Next]_vars
               PROVE  Inv'
    OBVIOUS
  <2>1. CASE UNCHANGED vars
    BY <2>1 DEF vars, RowsOK, PendingStays, ReviewedBeforeSale
  <2>2. CASE Next
    BY <2>2, AdministrationStep, ServeStep DEF Next
  <2>3. QED
    BY <2>1, <2>2
<1>3. QED
  BY <1>1, <1>2, PTL DEF Spec

\* What is for sale is what an admin approved, unless the approval overtook an
\* update: for every number of members, packs and requests.
THEOREM ReviewedBeforeSaleCorrect == Spec => []ReviewedBeforeSale
BY ReviewsInvariant, PTL

-----------------------------------------------------------------------------
(* Sums.  Induction over sets is by a least set that breaks the claim.     *)

Pick(s) == CHOOSE x \in s : TRUE

\* g[s] is the sum of f over s, for the subsets s of T, as Total computes it
IsSum(f, T, g) ==
  g = [s \in SUBSET T |-> IF s = {} THEN 0 ELSE f[Pick(s)] + g[s \ {Pick(s)}]]

SumOf(f, T) == CHOOSE g : IsSum(f, T, g)

\* A nonempty set has elements, and Pick gives one.
LEMMA PickCorrect == ASSUME NEW s, s # {} PROVE Pick(s) \in s
BY DEF Pick

\* Among some subsets of a finite set there is one that has no other of them in it.
LEMMA LeastSet ==
  ASSUME NEW S, IsFiniteSet(S), NEW Bad \in SUBSET SUBSET S, Bad # {}
  PROVE  \E T \in Bad : \A U \in Bad : U \subseteq T => U = T
<1>1. IsWellFoundedOn(StrictSubsetOrdering(S), FiniteSubsetsOf(S))
  BY FS_StrictSubsetOrderingWellFounded
<1>2. Bad \subseteq FiniteSubsetsOf(S)
  BY FS_FiniteSubsetsOfFinite
<1>3. \E T \in Bad : \A U \in Bad : ~(<<U, T>> \in StrictSubsetOrdering(S))
  BY <1>1, <1>2, WFMin
<1> QED
  BY <1>3 DEF StrictSubsetOrdering

\* There is one such g only.
LEMMA SumUnique ==
  ASSUME NEW T, IsFiniteSet(T), NEW f, NEW g, NEW h, IsSum(f, T, g), IsSum(f, T, h)
  PROVE  g = h
<1> DEFINE Bad == {s \in SUBSET T : g[s] # h[s]}
<1>0. Bad \in SUBSET SUBSET T
  OBVIOUS
<1> HIDE DEF Bad
<1>1. ASSUME Bad # {} PROVE FALSE
  <2>1. PICK s \in Bad : \A U \in Bad : U \subseteq s => U = s
    BY <1>0, <1>1, LeastSet
  <2> USE DEF Bad
  <2>2. s # {}
    BY <2>1 DEF IsSum
  <2>3. s \ {Pick(s)} \subseteq s /\ s \ {Pick(s)} # s
    BY <2>2, PickCorrect
  <2>4. g[s \ {Pick(s)}] = h[s \ {Pick(s)}]
    BY <2>1, <2>3
  <2>5. g[s] = f[Pick(s)] + g[s \ {Pick(s)}] /\ h[s] = f[Pick(s)] + h[s \ {Pick(s)}]
    BY <2>1, <2>2 DEF IsSum
  <2> QED
    BY <2>1, <2>4, <2>5
<1>2. \A s \in SUBSET T : g[s] = h[s]
  BY <1>1 DEF Bad
<1> QED
  BY <1>2 DEF IsSum

\* What sums the subsets of T sums those of its subsets.
LEMMA SumRestricted ==
  ASSUME NEW T, NEW U \in SUBSET T, NEW f, NEW g, IsSum(f, T, g)
  PROVE  IsSum(f, U, [s \in SUBSET U |-> g[s]])
<1> DEFINE h == [s \in SUBSET U |-> g[s]]
<1>1. ASSUME NEW s \in SUBSET U
      PROVE  h[s] = IF s = {} THEN 0 ELSE f[Pick(s)] + h[s \ {Pick(s)}]
  <2>1. s \in SUBSET T /\ s \ {Pick(s)} \in SUBSET U
    OBVIOUS
  <2>2. g[s] = IF s = {} THEN 0 ELSE f[Pick(s)] + g[s \ {Pick(s)}]
    BY <2>1 DEF IsSum
  <2> QED
    BY <2>1, <2>2
<1>2. h = [s \in SUBSET U |-> h[s]]
  OBVIOUS
<1>3. [s \in SUBSET U |-> h[s]] =
        [s \in SUBSET U |-> IF s = {} THEN 0 ELSE f[Pick(s)] + h[s \ {Pick(s)}]]
  BY <1>1
<1> HIDE DEF h
<1>4. IsSum(f, U, h)
  BY <1>2, <1>3 DEF IsSum
<1> QED
  BY <1>4 DEF h

\* There is such a g.
LEMMA SumExists ==
  ASSUME NEW S, IsFiniteSet(S), NEW f
  PROVE  IsSum(f, S, SumOf(f, S))
<1> DEFINE Bad == {T \in SUBSET S : ~IsSum(f, T, SumOf(f, T))}
<1>0. Bad \in SUBSET SUBSET S
  OBVIOUS
<1> HIDE DEF Bad
<1>1. ASSUME Bad # {} PROVE FALSE
  <2>1. PICK T \in Bad : \A U \in Bad : U \subseteq T => U = T
    BY <1>0, <1>1, LeastSet
  <2>2. \A U \in SUBSET T : U # T => IsSum(f, U, SumOf(f, U))
    BY <2>1 DEF Bad
  <2> DEFINE Rest(s) == s \ {Pick(s)}
             g == [s \in SUBSET T |-> IF s = {} THEN 0 ELSE f[Pick(s)] + SumOf(f, Rest(s))[Rest(s)]]
  <2>3. ASSUME NEW s \in SUBSET T, s # T
        PROVE  g[s] = SumOf(f, s)[s]
    <3>1. IsSum(f, s, SumOf(f, s))
      BY <2>2, <2>3
    <3>2. SumOf(f, s)[s] = IF s = {} THEN 0 ELSE f[Pick(s)] + SumOf(f, s)[Rest(s)]
      <4>1. s \in SUBSET s
        OBVIOUS
      <4> QED
        BY <3>1, <4>1 DEF IsSum
    <3>3. CASE s = {}
      BY <3>2, <3>3
    <3>4. CASE s # {}
      <4>1. Rest(s) \in SUBSET s /\ Rest(s) \in SUBSET T /\ Rest(s) # T
        BY <2>3, <3>4, PickCorrect
      <4>2. IsSum(f, Rest(s), SumOf(f, Rest(s)))
        BY <2>2, <4>1
      <4>3. IsSum(f, Rest(s), [r \in SUBSET Rest(s) |-> SumOf(f, s)[r]])
        <5> HIDE DEF Rest
        <5> QED
          BY <3>1, <4>1, SumRestricted
      <4>4. IsFiniteSet(Rest(s))
        BY <2>1, <4>1, FS_Subset DEF Bad
      <4>5. SumOf(f, Rest(s)) = [r \in SUBSET Rest(s) |-> SumOf(f, s)[r]]
        BY <4>2, <4>3, <4>4, SumUnique
      <4>6. SumOf(f, Rest(s))[Rest(s)] = SumOf(f, s)[Rest(s)]
        <5> HIDE DEF Rest
        <5>1. Rest(s) \in SUBSET Rest(s)
          OBVIOUS
        <5>2. [r \in SUBSET Rest(s) |-> SumOf(f, s)[r]][Rest(s)] = SumOf(f, s)[Rest(s)]
          BY <5>1
        <5> QED
          BY <4>5, <5>2
      <4> QED
        BY <2>3, <3>2, <3>4, <4>6
    <3> QED
      BY <3>3, <3>4
  <2>4. ASSUME NEW s \in SUBSET T, s # {}
        PROVE  g[s] = f[Pick(s)] + g[Rest(s)]
    <3>1. Rest(s) \in SUBSET T /\ Rest(s) # T
      BY <2>4, PickCorrect
    <3> QED
      BY <2>3, <2>4, <3>1
  <2>5. g = [s \in SUBSET T |-> IF s = {} THEN 0 ELSE f[Pick(s)] + g[s \ {Pick(s)}]]
    <3>1. \A s \in SUBSET T : g[s] = IF s = {} THEN 0 ELSE f[Pick(s)] + g[s \ {Pick(s)}]
      BY <2>4
    <3> DEFINE h == [s \in SUBSET T |-> IF s = {} THEN 0 ELSE f[Pick(s)] + g[s \ {Pick(s)}]]
    <3>2. \A s \in SUBSET T : h[s] = IF s = {} THEN 0 ELSE f[Pick(s)] + g[s \ {Pick(s)}]
      OBVIOUS
    <3>3. DOMAIN h = SUBSET T /\ DOMAIN g = SUBSET T
      OBVIOUS
    <3>4. g = [s \in DOMAIN g |-> g[s]] /\ h = [s \in DOMAIN h |-> h[s]]
      OBVIOUS
    <3> HIDE DEF g, h
    <3>5. g = h
      BY <3>1, <3>2, <3>3, <3>4
    <3> QED
      BY <3>5 DEF h
  <2> HIDE DEF g
  <2>6. IsSum(f, T, g)
    BY <2>5 DEF IsSum
  <2>7. IsSum(f, T, SumOf(f, T))
    BY <2>6 DEF SumOf
  <2> QED
    BY <2>1, <2>7 DEF Bad
<1>2. S \notin Bad
  BY <1>1
<1> QED
  BY <1>2 DEF Bad

\* The total of a function is its sum over its domain.
LEMMA TotalIsSum ==
  ASSUME NEW S, NEW f, DOMAIN f = S
  PROVE  Total(f) = SumOf(f, S)[S]
BY DEF Total, FoldFunction, FoldFunctionOnSet, MapThenFoldSet, IsSum, SumOf, Pick

\* Sums of integers are integers, and do not depend on the order of the summands.
LEMMA SumSplit ==
  ASSUME NEW S, IsFiniteSet(S), NEW f \in [S -> Int]
  PROVE  /\ SumOf(f, S)[{}] = 0
         /\ \A T \in SUBSET S : SumOf(f, S)[T] \in Int
         /\ \A T \in SUBSET S : \A x \in T : SumOf(f, S)[T] = f[x] + SumOf(f, S)[T \ {x}]
<1> DEFINE g == SumOf(f, S)
<1>1. IsSum(f, S, g)
  BY SumExists
<1> HIDE DEF g
<1>2. /\ g[{}] = 0
      /\ \A s \in SUBSET S : s # {} => g[s] = f[Pick(s)] + g[s \ {Pick(s)}]
  BY <1>1 DEF IsSum
<1>3. \A T \in SUBSET S : g[T] \in Int
  <2> DEFINE Bad == {T \in SUBSET S : g[T] \notin Int}
  <2>1. SUFFICES ASSUME Bad # {} PROVE FALSE
    OBVIOUS
  <2>0. Bad \in SUBSET SUBSET S
    OBVIOUS
  <2>2. PICK T \in Bad : \A U \in Bad : U \subseteq T => U = T
    <3> HIDE DEF Bad
    <3> QED
      BY <2>0, <2>1, LeastSet
  <2>3. T # {} /\ T \in SUBSET S
    <3>1. g[{}] \in Int
      BY <1>2
    <3> QED
      BY <2>2, <3>1
  <2>4. Pick(T) \in S /\ T \ {Pick(T)} # T
    BY <2>3, PickCorrect
  <2>5. g[T \ {Pick(T)}] \in Int /\ f[Pick(T)] \in Int
    BY <2>2, <2>3, <2>4
  <2>6. f[Pick(T)] + g[T \ {Pick(T)}] \in Int
    BY <2>5
  <2>7. g[T] \in Int
    BY <1>2, <2>3, <2>6
  <2> QED
    BY <2>2, <2>7
<1>4. \A T \in SUBSET S : \A x \in T : g[T] = f[x] + g[T \ {x}]
  <2> DEFINE Bad == {T \in SUBSET S : \E x \in T : g[T] # f[x] + g[T \ {x}]}
  <2>1. SUFFICES ASSUME Bad # {} PROVE FALSE
    OBVIOUS
  <2>0. Bad \in SUBSET SUBSET S
    OBVIOUS
  <2>2. PICK T \in Bad : \A U \in Bad : U \subseteq T => U = T
    <3> HIDE DEF Bad
    <3> QED
      BY <2>0, <2>1, LeastSet
  <2>3. PICK x \in T : g[T] # f[x] + g[T \ {x}]
    BY <2>2
  <2> DEFINE c == Pick(T)
             rest == T \ {c}
  <2>4. T \in SUBSET S /\ c \in T /\ g[T] = f[c] + g[rest]
    BY <1>2, <2>2, <2>3, PickCorrect
  <2>5. x # c
    BY <2>3, <2>4
  <2>6. g[rest] = f[x] + g[rest \ {x}]
    <3>1. rest \notin Bad
      BY <2>2, <2>4
    <3> QED
      BY <2>4, <2>5, <3>1
  <2>7. g[T \ {x}] = f[c] + g[(T \ {x}) \ {c}]
    <3>1. T \ {x} \notin Bad
      BY <2>2
    <3> QED
      BY <2>4, <2>5, <3>1
  <2>8. (T \ {x}) \ {c} = rest \ {x}
    OBVIOUS
  <2>9. f[c] \in Int /\ f[x] \in Int /\ g[rest \ {x}] \in Int
    BY <1>3, <2>4
  <2>10. f[c] + (f[x] + g[rest \ {x}]) = f[x] + (f[c] + g[rest \ {x}])
    BY <2>9
  <2> QED
    BY <2>3, <2>4, <2>6, <2>7, <2>8, <2>10
<1> QED
  BY <1>2, <1>3, <1>4 DEF g

\* Where every summand of h is one of f and one of g together, so is every sum of
\* summands of h.
LEMMA SumPlus ==
  ASSUME NEW S, IsFiniteSet(S), NEW f \in [S -> Int], NEW g \in [S -> Int],
         NEW h \in [S -> Int], NEW T \in SUBSET S, \A x \in T : h[x] = f[x] + g[x]
  PROVE  SumOf(h, S)[T] = SumOf(f, S)[T] + SumOf(g, S)[T]
<1> DEFINE F == SumOf(f, S)
           G == SumOf(g, S)
           H == SumOf(h, S)
           Bad == {U \in SUBSET T : H[U] # F[U] + G[U]}
<1>1. /\ F[{}] = 0
      /\ \A U \in SUBSET S : F[U] \in Int
      /\ \A U \in SUBSET S : \A x \in U : F[U] = f[x] + F[U \ {x}]
  BY SumSplit
<1>2. /\ G[{}] = 0
      /\ \A U \in SUBSET S : G[U] \in Int
      /\ \A U \in SUBSET S : \A x \in U : G[U] = g[x] + G[U \ {x}]
  BY SumSplit
<1>3. /\ H[{}] = 0
      /\ \A U \in SUBSET S : H[U] \in Int
      /\ \A U \in SUBSET S : \A x \in U : H[U] = h[x] + H[U \ {x}]
  BY SumSplit
<1> HIDE DEF F, G, H
<1>4. ASSUME Bad # {} PROVE FALSE
  <2>0. Bad \in SUBSET SUBSET S
    OBVIOUS
  <2>1. PICK U \in Bad : \A V \in Bad : V \subseteq U => V = U
    <3> HIDE DEF Bad
    <3> QED
      BY <1>4, <2>0, LeastSet
  <2>2. U # {}
    <3>1. H[{}] = F[{}] + G[{}]
      BY <1>1, <1>2, <1>3
    <3> QED
      BY <2>1, <3>1
  <2>3. PICK x \in U : TRUE
    BY <2>2
  <2> DEFINE V == U \ {x}
  <2>4. V \in SUBSET T /\ V \in SUBSET S /\ U \in SUBSET S /\ x \in S /\ x \in T
    BY <2>1
  <2>5. H[V] = F[V] + G[V]
    <3>1. V \notin Bad
      BY <2>1
    <3> QED
      BY <2>4, <3>1
  <2>6. H[U] = h[x] + H[V] /\ F[U] = f[x] + F[V] /\ G[U] = g[x] + G[V]
    BY <1>1, <1>2, <1>3, <2>3, <2>4
  <2>7. F[V] \in Int /\ G[V] \in Int /\ f[x] \in Int /\ g[x] \in Int /\ h[x] = f[x] + g[x]
    BY <1>1, <1>2, <2>4
  <2>8. (f[x] + g[x]) + (F[V] + G[V]) = (f[x] + F[V]) + (g[x] + G[V])
    BY <2>7
  <2> QED
    BY <2>1, <2>5, <2>6, <2>7, <2>8
<1> QED
  BY <1>4 DEF F, G, H

\* The sum of nothing but zeros is zero.
LEMMA SumZero ==
  ASSUME NEW S, IsFiniteSet(S), NEW z \in [S -> {0}], NEW T \in SUBSET S
  PROVE  SumOf(z, S)[T] = 0
<1>1. z \in [S -> Int] /\ \A x \in T : z[x] = z[x] + z[x]
  OBVIOUS
<1>2. SumOf(z, S)[T] = SumOf(z, S)[T] + SumOf(z, S)[T]
  BY <1>1, SumPlus
<1>3. SumOf(z, S)[T] \in Int
  BY <1>1, SumSplit
<1>4. \A n \in Int : n = n + n => n = 0
  OBVIOUS
<1> QED
  BY <1>2, <1>3, <1>4

\* Totals of integers are integers.
LEMMA TotalType ==
  ASSUME NEW S, IsFiniteSet(S), NEW f \in [S -> Int]
  PROVE  Total(f) \in Int
<1>1. S \in SUBSET S
  OBVIOUS
<1>2. SumOf(f, S)[S] \in Int
  BY <1>1, SumSplit
<1> QED
  BY <1>2, TotalIsSum

\* The total of sums is the sum of the totals.
LEMMA TotalPlus ==
  ASSUME NEW S, IsFiniteSet(S), NEW f \in [S -> Int], NEW g \in [S -> Int],
         NEW h \in [S -> Int], \A x \in S : h[x] = f[x] + g[x]
  PROVE  Total(h) = Total(f) + Total(g)
<1>1. SumOf(h, S)[S] = SumOf(f, S)[S] + SumOf(g, S)[S]
  BY SumPlus
<1> QED
  BY <1>1, TotalIsSum

\* The total of nothing but zeros is zero.
LEMMA TotalZero ==
  ASSUME NEW S, IsFiniteSet(S), NEW z \in [S -> {0}]
  PROVE  Total(z) = 0
<1>1. SumOf(z, S)[S] = 0
  BY SumZero
<1> QED
  BY <1>1, TotalIsSum

\* A total is one summand and the sum of the others.
LEMMA TotalSplit ==
  ASSUME NEW S, IsFiniteSet(S), NEW f \in [S -> Int], NEW x \in S
  PROVE  /\ Total(f) = f[x] + SumOf(f, S)[S \ {x}]
         /\ SumOf(f, S)[S \ {x}] \in Int
<1> DEFINE F == SumOf(f, S)
<1>1. /\ \A T \in SUBSET S : F[T] \in Int
      /\ \A T \in SUBSET S : \A y \in T : F[T] = f[y] + F[T \ {y}]
  BY SumSplit
<1>2. Total(f) = F[S]
  BY TotalIsSum
<1> HIDE DEF F
<1>3. F[S] = f[x] + F[S \ {x}] /\ F[S \ {x}] \in Int
  BY <1>1
<1> QED
  BY <1>2, <1>3 DEF F

\* Where one entry changes, the total changes by as much.
LEMMA TotalChange ==
  ASSUME NEW S, IsFiniteSet(S), NEW f \in [S -> Int], NEW h \in [S -> Int],
         NEW x \in S, \A y \in S \ {x} : h[y] = f[y]
  PROVE  Total(h) = Total(f) + (h[x] - f[x])
<1> DEFINE rest == S \ {x}
           z == [y \in S |-> 0]
           F == SumOf(f, S)
           H == SumOf(h, S)
<1>1. Total(f) = f[x] + F[rest] /\ F[rest] \in Int
  BY TotalSplit
<1>2. Total(h) = h[x] + H[rest]
  BY TotalSplit
<1>3. H[rest] = F[rest]
  <2>1. z \in [S -> Int] /\ z \in [S -> {0}] /\ rest \in SUBSET S
    OBVIOUS
  <2>2. \A y \in rest : h[y] = f[y] + z[y]
    OBVIOUS
  <2> HIDE DEF z, rest
  <2>3. H[rest] = F[rest] + SumOf(z, S)[rest]
    BY <2>1, <2>2, SumPlus
  <2>4. SumOf(z, S)[rest] = 0
    BY <2>1, SumZero
  <2> QED
    BY <1>1, <2>3, <2>4
<1>4. f[x] \in Int /\ h[x] \in Int
  OBVIOUS
<1> HIDE DEF F, H, rest
<1> QED
  BY <1>1, <1>2, <1>3, <1>4

\* Totals of natural numbers are natural numbers.
LEMMA TotalNat ==
  ASSUME NEW S, IsFiniteSet(S), NEW f \in [S -> Nat]
  PROVE  Total(f) \in Nat
<1> DEFINE F == SumOf(f, S)
           Bad == {U \in SUBSET S : F[U] \notin Nat}
<1>0. f \in [S -> Int]
  OBVIOUS
<1>1. /\ F[{}] = 0
      /\ \A U \in SUBSET S : \A x \in U : F[U] = f[x] + F[U \ {x}]
  BY <1>0, SumSplit
<1> HIDE DEF F
<1>2. ASSUME Bad # {} PROVE FALSE
  <2>0. Bad \in SUBSET SUBSET S
    OBVIOUS
  <2>1. PICK U \in Bad : \A V \in Bad : V \subseteq U => V = U
    <3> HIDE DEF Bad
    <3> QED
      BY <1>2, <2>0, LeastSet
  <2>2. U # {} /\ U \in SUBSET S
    <3>1. F[{}] \in Nat
      BY <1>1
    <3> QED
      BY <2>1, <3>1
  <2>3. PICK x \in U : TRUE
    BY <2>2
  <2>4. F[U \ {x}] \in Nat
    <3>1. U \ {x} \notin Bad
      BY <2>1
    <3> QED
      BY <2>2, <3>1
  <2>5. f[x] \in Nat /\ F[U] = f[x] + F[U \ {x}]
    BY <1>1, <2>2, <2>3
  <2>6. f[x] + F[U \ {x}] \in Nat
    BY <2>4, <2>5
  <2> QED
    BY <2>1, <2>5, <2>6
<1>3. F[S] \in Nat
  BY <1>2
<1> QED
  BY <1>3, TotalIsSum DEF F

-----------------------------------------------------------------------------
(* The books.  Every row has its type, a purchase under way has a buyer    *)
(* who is not the author, and the points of all members together are what  *)
(* they began with and the refunds that no author paid for.                *)

BooksOK ==
  /\ wallet \in [Users -> PointsRow]
  /\ spent \in [Packs -> [Users -> Nat]]
  /\ sold \in [Packs -> Nat]
  /\ refunded \in [Packs -> [Users -> Nat]]
  /\ clawed \in [Packs -> Nat]

\* A purchase under way is one of a member that did not write the pack.
BuyerIsNotAuthor ==
  \A r \in Requests : req[r].pc \in {"buying", "paying"} =>
    req[r].user \in Users /\ req[r].user # Author[req[r].pack]

BooksInv == BooksOK /\ BuyerIsNotAuthor /\ PointsConserved /\ ClawbackCovered

\* What the members hold, and what of the refunds for a pack no author paid for.
Held == [u \in Users |-> wallet[u].available]
Unpaid == [p \in Packs |-> Total(refunded[p]) - clawed[p]]

\* The two constants that the totals run over are finite, and what each member
\* begins with is a number.
LEMMA Constants ==
  /\ IsFiniteSet(Users)
  /\ IsFiniteSet(Packs)
  /\ Author \in [Packs -> Users]
  /\ StartPoints \in [Users -> Nat]
BY ConstantsAssumption DEF ConstantsAssumption

\* The maps that are summed up are maps to integers.
LEMMA SummandsType ==
  ASSUME BooksOK
  PROVE  /\ Held \in [Users -> Int]
         /\ \A p \in Packs : Total(refunded[p]) \in Nat
         /\ Unpaid \in [Packs -> Int]
<1>1. Held \in [Users -> Int]
  BY DEF Held, BooksOK, PointsRow
<1>2. \A p \in Packs : Total(refunded[p]) \in Nat
  <2>1. SUFFICES ASSUME NEW p \in Packs PROVE Total(refunded[p]) \in Nat
    OBVIOUS
  <2>2. refunded[p] \in [Users -> Nat]
    BY DEF BooksOK
  <2> QED
    BY <2>2, Constants, TotalNat
<1>3. Unpaid \in [Packs -> Int]
  <2>1. SUFFICES ASSUME NEW p \in Packs PROVE Total(refunded[p]) - clawed[p] \in Int
    BY DEF Unpaid
  <2>2. Total(refunded[p]) \in Nat /\ clawed[p] \in Nat
    BY <1>2 DEF BooksOK
  <2> QED
    BY <2>2
<1> QED
  BY <1>1, <1>2, <1>3

\* A sale moves its price from the buyer to the author.
LEMMA PayStep ==
  ASSUME NEW r \in Requests, RowsOK, BooksOK, BuyerIsNotAuthor, Pay(r)
  PROVE  /\ BooksOK'
         /\ Total(Held') = Total(Held)
         /\ UNCHANGED <<refunded, clawed>>
<1> DEFINE p == req[r].pack
           u == req[r].user
           a == Author[p]
           price == req[r].price
<1>1. /\ p \in Packs
      /\ u \in Users
      /\ a \in Users
      /\ u # a
      /\ price \in Nat
  <2>1. req[r].pc = "paying" /\ req[r] \in Request
    BY DEF Pay, RowsOK
  <2> QED
    BY <2>1, Constants DEF RowsOK, BuyerIsNotAuthor, Request
<1>2. /\ wallet[u].available >= price
      /\ wallet' = [v \in Users |-> Paid(wallet[v], pack[p].price, price, p, u, v)]
      /\ spent' = [spent EXCEPT ![p][u] = @ + price]
      /\ sold' = [sold EXCEPT ![p] = @ + price]
      /\ UNCHANGED <<refunded, clawed>>
  BY DEF Pay, Affords
<1> HIDE DEF p, u, price
<1>3. /\ wallet'[a] = [accumulated |-> wallet[a].accumulated + price,
                       available |-> wallet[a].available + price]
      /\ wallet'[a] \in PointsRow
  <2>1. wallet[a] \in PointsRow
    BY <1>1 DEF BooksOK
  <2>2. /\ wallet[a].accumulated + price \in Nat
        /\ wallet[a].available + price \in Nat
    BY <1>1, <2>1 DEF PointsRow
  <2>3. wallet'[a] = Applied(wallet[a], price, price)
    BY <1>1, <1>2 DEF Paid
  <2> QED
    BY <2>2, <2>3 DEF Applied, AtLeastZero, PointsRow
<1>4. /\ wallet'[u] = [wallet[u] EXCEPT !.available = @ - price]
      /\ wallet'[u] \in PointsRow
      /\ wallet'[u].available = wallet[u].available - price
  <2>1. wallet[u] \in PointsRow
    BY <1>1 DEF BooksOK
  <2>2. wallet[u].available - price \in Nat
    BY <1>1, <1>2, <2>1 DEF PointsRow
  <2>3. wallet'[u] = Deducted(wallet[u], price)
    BY <1>1, <1>2 DEF Paid
  <2> QED
    BY <2>1, <2>2, <2>3 DEF Deducted, PointsRow
<1>5. \A v \in Users \ {a, u} : wallet'[v] = wallet[v]
  BY <1>2 DEF Paid
<1>6. BooksOK'
  <2>1. wallet' \in [Users -> PointsRow]
    <3>1. \A v \in Users : wallet'[v] \in PointsRow
      BY <1>3, <1>4, <1>5 DEF BooksOK
    <3> QED
      BY <1>2, <3>1
  <2>2. spent' \in [Packs -> [Users -> Nat]] /\ sold' \in [Packs -> Nat]
    BY <1>1, <1>2 DEF BooksOK
  <2> QED
    BY <1>2, <2>1, <2>2 DEF BooksOK
<1>7. Total(Held') = Total(Held)
  <2> DEFINE mid == [Held EXCEPT ![a] = @ + price]
  <2>1. /\ Held \in [Users -> Int]
        /\ Held' \in [Users -> Int]
    BY <1>6, SummandsType DEF Held, BooksOK, PointsRow
  <2>2. mid \in [Users -> Int]
    BY <1>1, <2>1
  <2>3. /\ mid[a] = Held[a] + price
        /\ \A v \in Users \ {a} : mid[v] = Held[v]
    BY <1>1, <2>1
  <2>4. /\ Held'[u] = Held[u] - price
        /\ \A v \in Users \ {u} : Held'[v] = mid[v]
    <3>1. Held'[u] = Held[u] - price
      BY <1>1, <1>4 DEF Held
    <3>2. Held'[a] = mid[a]
      BY <1>1, <1>3, <2>3 DEF Held
    <3>3. \A v \in Users \ {a, u} : Held'[v] = Held[v]
      BY <1>5 DEF Held
    <3> QED
      BY <1>1, <2>3, <3>1, <3>2, <3>3
  <2> DEFINE later == Held'
  <2> HIDE DEF mid, a, later
  <2>5. Total(mid) = Total(Held) + (mid[a] - Held[a])
    <3>1. a \in Users /\ \A v \in Users \ {a} : mid[v] = Held[v]
      BY <1>1, <2>3
    <3> QED
      BY <2>1, <2>2, <3>1, Constants, TotalChange
  <2>6. later \in [Users -> Int] /\ \A v \in Users \ {u} : later[v] = mid[v]
    BY <2>1, <2>4 DEF later
  <2>7. Total(later) = Total(mid) + (later[u] - mid[u])
    BY <1>1, <2>2, <2>6, Constants, TotalChange
  <2>8. later[u] = mid[u] - price
    BY <1>1, <2>3, <2>4 DEF later
  <2>9. Total(Held) \in Int /\ mid[u] \in Int /\ Held[a] \in Int
    BY <1>1, <2>1, <2>2, Constants, TotalType
  <2>10. Total(later) = Total(Held)
    BY <1>1, <2>3, <2>5, <2>7, <2>8, <2>9
  <2> QED
    BY <2>10 DEF later
<1> QED
  BY <1>2, <1>6, <1>7

\* A forced removal adds as much to what the members hold as it adds to the
\* refunds that no author paid for, and takes from no author more than it refunds.
LEMMA RefundStep ==
  ASSUME NEW r \in Requests, RowsOK, BooksOK, Refund(r)
  PROVE  /\ BooksOK'
         /\ Total(Held') - Total(Held) = Total(Unpaid') - Total(Unpaid)
         /\ ClawbackCovered => ClawbackCovered'
<1> DEFINE p == req[r].pack
           a == Author[p]
           back == Refunds(r)
           debt == Debt(r)
           paidBack == [u \in Users |-> Applied(wallet[u], back[u], back[u])]
           taken == ClawedBack(r, paidBack[a])
<1>1. /\ p \in Packs
      /\ a \in Users
      /\ back \in [Users -> Nat]
  <2>1. p \in Packs /\ req[r] \in Request
    BY DEF RowsOK, Refund
  <2>2. req[r].buyers \in [Users -> Nat] /\ req[r].price \in Nat
    BY <2>1 DEF Request
  <2>3. \A u \in Users : req[r].buyers[u] * req[r].price \in Nat
    BY <2>2
  <2> QED
    BY <2>1, <2>3, Constants DEF Refunds
<1>2. debt = Total(back) /\ debt \in Nat
  BY <1>1, Constants, TotalNat DEF Debt
<1>3. /\ wallet' = [paidBack EXCEPT ![a] = Deducted(@, taken)]
      /\ refunded' = [refunded EXCEPT ![p] = [u \in Users |-> @[u] + back[u]]]
      /\ clawed' = [clawed EXCEPT ![p] = @ + taken]
      /\ UNCHANGED <<spent, sold>>
  BY DEF Refund
<1>4. ASSUME NEW u \in Users
      PROVE  /\ paidBack[u] \in PointsRow
             /\ paidBack[u].available = wallet[u].available + back[u]
  <2>1. wallet[u] \in PointsRow /\ back[u] \in Nat
    BY <1>1 DEF BooksOK
  <2>2. /\ wallet[u].accumulated + back[u] \in Nat
        /\ wallet[u].available + back[u] \in Nat
    BY <2>1 DEF PointsRow
  <2>3. paidBack[u] = Applied(wallet[u], back[u], back[u])
    OBVIOUS
  <2> HIDE DEF paidBack, back
  <2> QED
    BY <2>2, <2>3 DEF Applied, AtLeastZero, PointsRow
<1>5. taken \in Nat /\ taken <= debt /\ taken <= paidBack[a].available
  <2>1. paidBack[a] \in PointsRow
    BY <1>1, <1>4
  <2>2. taken = IF paidBack[a].available >= debt THEN debt ELSE 0
    BY DEF ClawedBack, Affords
  <2> HIDE DEF taken, paidBack, debt
  <2> QED
    BY <1>2, <2>1, <2>2 DEF PointsRow
<1> HIDE DEF p, back, debt, taken, paidBack
<1>6. /\ DOMAIN paidBack = Users
      /\ \A u \in Users \ {a} : wallet'[u] = paidBack[u]
      /\ wallet'[a] = [paidBack[a] EXCEPT !.available = @ - taken]
  BY <1>1, <1>3 DEF paidBack, Deducted
<1>7. /\ wallet'[a] \in PointsRow
      /\ wallet'[a].available = paidBack[a].available - taken
  <2>1. paidBack[a] \in PointsRow
    BY <1>1, <1>4
  <2>2. paidBack[a].available - taken \in Nat
    BY <1>5, <2>1 DEF PointsRow
  <2> QED
    BY <1>6, <2>1, <2>2 DEF PointsRow
<1>8. /\ refunded'[p] = [u \in Users |-> refunded[p][u] + back[u]]
      /\ refunded'[p] \in [Users -> Nat]
      /\ \A q \in Packs \ {p} : refunded'[q] = refunded[q]
      /\ clawed'[p] = clawed[p] + taken
      /\ clawed'[p] \in Nat
      /\ \A q \in Packs \ {p} : clawed'[q] = clawed[q]
  BY <1>1, <1>3, <1>5 DEF BooksOK
<1>9. BooksOK'
  <2>1. wallet' \in [Users -> PointsRow]
    <3>1. \A v \in Users : wallet'[v] \in PointsRow
      BY <1>4, <1>6, <1>7
    <3>2. wallet' = [v \in Users |-> wallet'[v]]
      BY <1>3, <1>6
    <3> QED
      BY <3>1, <3>2
  <2>2. refunded' \in [Packs -> [Users -> Nat]]
    BY <1>3, <1>8 DEF BooksOK
  <2>3. clawed' \in [Packs -> Nat]
    BY <1>3, <1>8 DEF BooksOK
  <2> QED
    BY <1>3, <2>1, <2>2, <2>3 DEF BooksOK
<1>10. Total(refunded'[p]) = Total(refunded[p]) + debt
  <2>1. /\ refunded[p] \in [Users -> Int]
        /\ refunded'[p] \in [Users -> Int]
        /\ back \in [Users -> Int]
    BY <1>1, <1>8 DEF BooksOK
  <2>2. \A u \in Users : refunded'[p][u] = refunded[p][u] + back[u]
    BY <1>8
  <2> QED
    BY <1>2, <2>1, <2>2, Constants, TotalPlus
<1>11. /\ Total(refunded[p]) \in Nat
       /\ clawed[p] \in Nat
  BY <1>1, SummandsType DEF BooksOK
<1>12. Total(Held') = Total(Held) + (debt - taken)
  <2> DEFINE mid == [u \in Users |-> paidBack[u].available]
             later == Held'
  <2>1. Held \in [Users -> Int] /\ back \in [Users -> Int]
    BY <1>1, SummandsType
  <2>2. later \in [Users -> Int]
    BY <1>9 DEF Held, BooksOK, PointsRow
  <2>3. mid \in [Users -> Int] /\ \A u \in Users : mid[u] = Held[u] + back[u]
    BY <1>4 DEF Held, PointsRow
  <2>4. later[a] = mid[a] - taken
    BY <1>1, <1>7 DEF Held
  <2>5. \A u \in Users \ {a} : later[u] = mid[u]
    BY <1>6 DEF Held
  <2> HIDE DEF mid, later, a
  <2>6. Total(mid) = Total(Held) + debt
    BY <1>2, <2>1, <2>3, Constants, TotalPlus
  <2>7. Total(later) = Total(mid) + (later[a] - mid[a])
    BY <1>1, <2>2, <2>3, <2>5, Constants, TotalChange
  <2>8. Total(Held) \in Int /\ mid[a] \in Int
    BY <1>1, <2>1, <2>3, Constants, TotalType
  <2>9. Total(later) = Total(Held) + (debt - taken)
    BY <1>2, <1>5, <2>4, <2>6, <2>7, <2>8
  <2> QED
    BY <2>9 DEF later
<1>13. Total(Unpaid') = Total(Unpaid) + (debt - taken)
  <2> DEFINE later == Unpaid'
  <2>1. Unpaid \in [Packs -> Int]
    BY SummandsType
  <2>2. \A q \in Packs : later[q] = Total(refunded'[q]) - clawed'[q]
    BY DEF Unpaid
  <2>3. \A q \in Packs : Unpaid[q] = Total(refunded[q]) - clawed[q]
    BY DEF Unpaid
  <2>4. later[p] = Unpaid[p] + (debt - taken) /\ later[p] \in Int
    BY <1>1, <1>2, <1>5, <1>8, <1>10, <1>11, <2>2, <2>3
  <2>5. \A q \in Packs \ {p} : later[q] = Unpaid[q]
    BY <1>8, <2>2, <2>3
  <2>6. later \in [Packs -> Int]
    <3>1. later = [q \in Packs |-> later[q]]
      BY DEF Unpaid
    <3> HIDE DEF later
    <3>2. \A q \in Packs : later[q] \in Int
      BY <2>1, <2>4, <2>5
    <3> QED
      BY <3>1, <3>2
  <2> HIDE DEF later
  <2>7. Total(later) = Total(Unpaid) + (later[p] - Unpaid[p])
    BY <1>1, <2>1, <2>5, <2>6, Constants, TotalChange
  <2>8. Total(Unpaid) \in Int /\ Unpaid[p] \in Int
    BY <1>1, <2>1, Constants, TotalType
  <2>9. Total(later) = Total(Unpaid) + (debt - taken)
    BY <1>2, <1>5, <2>4, <2>7, <2>8
  <2> QED
    BY <2>9 DEF later
<1>14. Total(Held) \in Int /\ Total(Unpaid) \in Int
  BY SummandsType, Constants, TotalType
<1>15. ClawbackCovered => ClawbackCovered'
  <2>1. SUFFICES ASSUME ClawbackCovered, NEW q \in Packs
                 PROVE  clawed'[q] <= Total(refunded'[q])
    BY DEF ClawbackCovered
  <2>2. clawed[q] <= Total(refunded[q])
    BY <2>1 DEF ClawbackCovered
  <2>3. CASE q = p
    BY <1>2, <1>5, <1>8, <1>10, <1>11, <2>2, <2>3
  <2>4. CASE q # p
    BY <1>8, <2>2, <2>4
  <2> QED
    BY <2>3, <2>4
<1>16. Total(Held') - Total(Held) = Total(Unpaid') - Total(Unpaid)
  <2>1. \A h, n, d \in Int : (h + d) - h = (n + d) - n
    OBVIOUS
  <2>2. debt - taken \in Int
    BY <1>2, <1>5
  <2> QED
    BY <1>12, <1>13, <1>14, <2>1, <2>2
<1> QED
  BY <1>9, <1>15, <1>16

\* Only these two steps touch the books.
LEMMA OtherSteps ==
  ASSUME [Next]_vars, \A r \in Requests : ~Pay(r) /\ ~Refund(r)
  PROVE  UNCHANGED <<wallet, spent, sold, refunded, clawed>>
<1>1. CASE UNCHANGED vars
  BY <1>1 DEF vars
<1>2. ASSUME NEW p \in Packs, Administration(p)
      PROVE  UNCHANGED <<wallet, spent, sold, refunded, clawed>>
  BY <1>2 DEF Administration, CreatePack, UpdatePrice, UpdateStatus, Remove, Restore, books
<1>3. ASSUME NEW r \in Requests, Serve(r)
      PROVE  UNCHANGED <<wallet, spent, sold, refunded, clawed>>
  BY <1>3 DEF Serve, BeginUpdate, CommitUpdate, BeginPurchase, CheckOwned, BeginForce,
              FindBuyers, Fail, books
<1> QED
  BY <1>1, <1>2, <1>3 DEF Next

\* A step begins purchases for members who did not write the pack, and changes
\* neither the member nor the pack of one under way.
LEMMA BuyerStep ==
  ASSUME RowsOK, BuyerIsNotAuthor, [Next]_vars
  PROVE  BuyerIsNotAuthor'
<1>1. CASE UNCHANGED req
  BY <1>1 DEF BuyerIsNotAuthor
<1>2. ASSUME NEW r \in Requests, NEW state \in Request, Become(r, state),
             state.pc \in {"buying", "paying"} =>
               state.user \in Users /\ state.user # Author[state.pack]
      PROVE  BuyerIsNotAuthor'
  <2>1. /\ req'[r] = state
        /\ \A q \in Requests \ {r} : req'[q] = req[q]
    BY <1>2, BecomeType DEF RowsOK
  <2> QED
    BY <1>2, <2>1 DEF BuyerIsNotAuthor
<1>3. ASSUME NEW p \in Packs, Administration(p)
      PROVE  UNCHANGED req
  BY <1>3 DEF Administration, CreatePack, UpdatePrice, UpdateStatus, Remove, Restore
<1>4. ASSUME NEW r \in Requests, Done(r)
      PROVE  BuyerIsNotAuthor'
  BY <1>2, <1>4, IdleType DEF Done
<1>5. ASSUME NEW r \in Requests, Serve(r)
      PROVE  BuyerIsNotAuthor'
  <2>0. req[r] \in Request
    BY DEF RowsOK
  <2>1. ASSUME NEW p \in Packs, NEW price \in Prices, BeginUpdate(r, p, price)
        PROVE  BuyerIsNotAuthor'
    <3> DEFINE state == [Idle EXCEPT !.pc = "updating", !.pack = p, !.price = price,
                                     !.status = pack[p].status]
    <3>1. state \in Request /\ state.pc = "updating"
      BY IdleType, ConstantsAssumption
         DEF Request, Idle, Steps, RowsOK, PackRow, ConstantsAssumption
    <3>2. Become(r, state)
      BY <2>1 DEF BeginUpdate, Begin
    <3> QED
      BY <1>2, <3>1, <3>2
  <2>2. ASSUME NEW p \in Packs, NEW u \in Users, BeginPurchase(r, u, p)
        PROVE  BuyerIsNotAuthor'
    <3> DEFINE state == [Idle EXCEPT !.pc = "buying", !.user = u, !.pack = p,
                                     !.price = pack[p].price]
    <3>1. state \in Request /\ state.user = u /\ state.pack = p
      BY IdleType DEF Request, Idle, Steps, RowsOK, PackRow
    <3>2. Become(r, state) /\ Author[p] # u
      BY <2>2 DEF BeginPurchase, Begin
    <3> QED
      BY <1>2, <3>1, <3>2
  <2>3. ASSUME NEW p \in Packs, BeginForce(r, p)
        PROVE  BuyerIsNotAuthor'
    <3> DEFINE state == [Idle EXCEPT !.pc = "forcing", !.pack = p, !.price = pack[p].price]
    <3>1. state \in Request /\ state.pc = "forcing"
      BY IdleType DEF Request, Idle, Steps, RowsOK, PackRow
    <3>2. Become(r, state)
      BY <2>3 DEF BeginForce, Begin
    <3> QED
      BY <1>2, <3>1, <3>2
  <2>4. CASE CheckOwned(r)
    <3> DEFINE state == [req[r] EXCEPT !.pc = "paying"]
    <3>1. /\ state \in Request
          /\ state.user = req[r].user
          /\ state.pack = req[r].pack
      BY <2>0 DEF Request, Steps
    <3>2. req[r].user \in Users /\ req[r].user # Author[req[r].pack]
      BY <2>4 DEF CheckOwned, BuyerIsNotAuthor
    <3>3. CASE Become(r, state)
      BY <1>2, <3>1, <3>2, <3>3
    <3>4. Done(r) \/ Become(r, state)
      BY <2>4 DEF CheckOwned
    <3> QED
      BY <1>4, <3>3, <3>4
  <2>5. CASE FindBuyers(r)
    <3> DEFINE state == [req[r] EXCEPT !.pc = "refunding", !.buyers = owned[req[r].pack]]
    <3>1. Become(r, state) /\ req[r].pc = "forcing"
      BY <2>5 DEF FindBuyers
    <3>2. state \in Request /\ state.pc = "refunding"
      BY <2>0, <3>1 DEF Request, Steps, RowsOK
    <3> QED
      BY <1>2, <3>1, <3>2
  <2>6. CASE CommitUpdate(r) \/ Pay(r) \/ Refund(r) \/ Fail(r)
    BY <1>4, <2>6 DEF CommitUpdate, Pay, Refund, Fail
  <2> QED
    BY <1>5, <2>1, <2>2, <2>3, <2>4, <2>5, <2>6 DEF Serve
<1> QED
  BY <1>1, <1>3, <1>5 DEF Next, vars

\* What the books say stays true.
LEMMA BooksStep ==
  ASSUME RowsOK, BooksInv, [Next]_vars
  PROVE  BooksInv'
<1> USE DEF BooksInv
<1>1. BuyerIsNotAuthor'
  BY BuyerStep
<1>2. Total(Held) = Total(StartPoints) + Total(Unpaid)
  BY DEF PointsConserved, Held, Unpaid
<1>3. Total(Held) \in Int /\ Total(Unpaid) \in Int /\ Total(StartPoints) \in Int
  BY SummandsType, Constants, TotalType, TotalNat
<1>4. ASSUME BooksOK', ClawbackCovered',
             Total(Held') - Total(Held) = Total(Unpaid') - Total(Unpaid)
      PROVE  BooksInv'
  <2>1. Total(Held') \in Int /\ Total(Unpaid') \in Int
    <3>0. Held' \in [Users -> Int]
      BY <1>4 DEF Held, BooksOK, PointsRow
    <3>1. Unpaid' \in [Packs -> Int]
      <4>1. SUFFICES ASSUME NEW p \in Packs PROVE Total(refunded'[p]) - clawed'[p] \in Int
        BY DEF Unpaid
      <4>2. refunded'[p] \in [Users -> Nat] /\ clawed'[p] \in Nat
        BY <1>4 DEF BooksOK
      <4>3. Total(refunded'[p]) \in Nat
        BY <4>2, Constants, TotalNat
      <4> QED
        BY <4>2, <4>3
    <3> DEFINE h == Held'
               n == Unpaid'
    <3> HIDE DEF h, n
    <3>2. h \in [Users -> Int] /\ n \in [Packs -> Int]
      BY <3>0, <3>1 DEF h, n
    <3>3. Total(h) \in Int /\ Total(n) \in Int
      BY <3>2, Constants, TotalType
    <3> QED
      BY <3>3 DEF h, n
  <2>2. Total(Held') = Total(StartPoints) + Total(Unpaid')
    BY <1>2, <1>3, <1>4, <2>1
  <2>3. PointsConserved'
    BY <2>2 DEF PointsConserved, Held, Unpaid
  <2> QED
    BY <1>1, <1>4, <2>3
<1>5. ASSUME NEW r \in Requests, Pay(r) PROVE BooksInv'
  <2>1. BooksOK' /\ Total(Held') = Total(Held) /\ UNCHANGED <<refunded, clawed>>
    BY <1>5, PayStep
  <2>2. Unpaid' = Unpaid /\ ClawbackCovered'
    BY <2>1 DEF Unpaid, ClawbackCovered
  <2>3. Total(Held') - Total(Held) = Total(Unpaid') - Total(Unpaid)
    BY <1>3, <2>1, <2>2
  <2> QED
    BY <1>4, <2>1, <2>2, <2>3
<1>6. ASSUME NEW r \in Requests, Refund(r) PROVE BooksInv'
  BY <1>4, <1>6, RefundStep
<1>7. CASE \A r \in Requests : ~Pay(r) /\ ~Refund(r)
  <2>1. UNCHANGED <<wallet, spent, sold, refunded, clawed>>
    BY <1>7, OtherSteps
  <2> QED
    BY <1>1, <2>1 DEF BooksOK, PointsConserved, ClawbackCovered
<1> QED
  BY <1>5, <1>6, <1>7

\* The books are right from the start, where nothing was sold or refunded.
LEMMA BooksInit ==
  ASSUME Init
  PROVE  BooksInv
<1>1. BooksOK
  <2>1. \A u \in Users : StartPoints[u] \in Nat
    BY Constants
  <2> QED
    BY <2>1 DEF Init, BooksOK, PointsRow, Nobody
<1>2. BuyerIsNotAuthor
  BY DEF Init, BuyerIsNotAuthor, Idle
<1>3. \A p \in Packs : Total(refunded[p]) = 0 /\ clawed[p] = 0
  <2>1. Nobody \in [Users -> {0}]
    BY DEF Nobody
  <2>2. Total(Nobody) = 0
    BY <2>1, Constants, TotalZero
  <2> QED
    BY <2>2 DEF Init
<1>4. Total(Unpaid) = 0
  <2>1. Unpaid \in [Packs -> {0}]
    BY <1>3 DEF Unpaid
  <2> QED
    BY <2>1, Constants, TotalZero
<1>5. Held = StartPoints
  BY Constants DEF Init, Held
<1>6. Total(StartPoints) \in Int
  BY Constants, TotalNat
<1>7. PointsConserved
  <2>1. Total(Held) = Total(StartPoints) + Total(Unpaid)
    BY <1>4, <1>5, <1>6
  <2> QED
    BY <2>1 DEF PointsConserved, Held, Unpaid
<1>8. ClawbackCovered
  BY <1>3 DEF ClawbackCovered
<1> QED
  BY <1>1, <1>2, <1>7, <1>8 DEF BooksInv

\* The books are right at all times.
LEMMA BooksInvariant == Spec => []BooksInv
<1>1. Init => BooksInv
  BY BooksInit
<1>2. RowsOK /\ BooksInv /\ [Next]_vars => BooksInv'
  BY BooksStep
<1> QED
  BY <1>1, <1>2, ReviewsInvariant, PTL DEF Spec

\* Every row has its type, so no balance is ever negative, for every number of
\* members, packs and requests, whatever is bought and refunded at once.
THEOREM TypeCorrect == Spec => []TypeOK
<1>1. RowsOK /\ BooksInv => TypeOK
  BY DEF RowsOK, BooksInv, BooksOK, TypeOK, PackRow, Request
<1> QED
  BY <1>1, ReviewsInvariant, BooksInvariant, PTL

\* No sale makes or destroys points, and a forced removal makes those only that no
\* author paid back, for every number of members, packs and requests at once.
THEOREM PointsConservedCorrect == Spec => []PointsConserved
<1>1. BooksInv => PointsConserved
  BY DEF BooksInv
<1> QED
  BY <1>1, BooksInvariant, PTL

\* At no time has an author given back more than was refunded for the pack.
THEOREM ClawbackCoveredCorrect == Spec => []ClawbackCovered
<1>1. BooksInv => ClawbackCovered
  BY DEF BooksInv
<1> QED
  BY <1>1, BooksInvariant, PTL

=============================================================================
