---------------------------- MODULE EmoticonMarket ----------------------------
(***************************************************************************)
(* Emoticon packs, bought with points: emoticons.service.ts, its           *)
(* repository and the point operations it calls within its transactions.   *)
(*                                                                         *)
(* READ COMMITTED, as everywhere: what a request reads before or within    *)
(* its transaction is a step of its own; the writes, all under row locks   *)
(* and computed from the rows as they are then, are one step, the commit.  *)
(* No constraint of the database keeps a member from two copies of a pack. *)
(***************************************************************************)
EXTENDS Points, FiniteSets, Functions

CONSTANTS
  Users,        \* members
  Packs,        \* ids of packs
  Author,       \* emoticon_packs.authorId
  Prices,       \* what the author or an admin may ask
  StartPoints,  \* available points of the members at first
  Requests,     \* requests under way at a time
  None,         \* no member, no pack
  MaxSales,     \* bound on the purchases of a pack
  MaxEdits      \* bound on the updates of a pack

ASSUME ConstantsAssumption ==
  /\ IsFiniteSet(Users)
  /\ IsFiniteSet(Packs)
  /\ Author \in [Packs -> Users]
  /\ Prices \subseteq Nat
  /\ StartPoints \in [Users -> Nat]
  /\ None \notin Users
  /\ None \notin Packs
  /\ MaxSales \in Nat
  /\ MaxEdits \in Nat

VARIABLES
  pack,      \* emoticon_packs; content counts the versions of its images, and as
             \* history: reviewed, the one that the last approval met, and
             \* overtaken, whether that came while an update was under way
  owned,     \* user_emoticon_packs: rows of a member for a pack
  wallet,    \* user_points
  spent,     \* point_history: what a member paid for a pack
  sold,      \* point_history: what the author got for the sales of a pack
  refunded,  \* point_history: what a member got back for a pack
  clawed,    \* point_history: what the author gave back for a pack
  req        \* what each request knows

vars == <<pack, owned, wallet, spent, sold, refunded, clawed, req>>
books == <<owned, wallet, spent, sold, refunded, clawed>>

Statuses == {"none", "pending", "approved", "rejected"}
Steps == {"idle", "updating", "buying", "paying", "forcing", "refunding"}

Nobody == [u \in Users |-> 0]
Idle == [pc |-> "idle", user |-> None, pack |-> None, price |-> 0,
         status |-> "none", buyers |-> Nobody]

\* Types; no balance is ever negative, whatever is bought and refunded at once.
TypeOK ==
  /\ pack \in [Packs -> [status: Statuses, price: Nat, deleted: BOOLEAN, sales: Nat,
                        content: Nat, reviewed: Nat, overtaken: BOOLEAN]]
  /\ owned \in [Packs -> [Users -> Nat]]
  /\ wallet \in [Users -> PointsRow]
  /\ spent \in [Packs -> [Users -> Nat]]
  /\ sold \in [Packs -> Nat]
  /\ refunded \in [Packs -> [Users -> Nat]]
  /\ clawed \in [Packs -> Nat]
  /\ req \in [Requests -> [pc: Steps, user: Users \union {None},
                          pack: Packs \union {None}, price: Nat, status: Statuses,
                          buyers: [Users -> Nat]]]

Init ==
  /\ pack = [p \in Packs |-> [status |-> "none", price |-> 0, deleted |-> FALSE,
                              sales |-> 0, content |-> 0, reviewed |-> 0,
                              overtaken |-> FALSE]]
  /\ owned = [p \in Packs |-> Nobody]
  /\ wallet = [u \in Users |-> [accumulated |-> 0, available |-> StartPoints[u]]]
  /\ spent = [p \in Packs |-> Nobody]
  /\ sold = [p \in Packs |-> 0]
  /\ refunded = [p \in Packs |-> Nobody]
  /\ clawed = [p \in Packs |-> 0]
  /\ req = [r \in Requests |-> Idle]

-----------------------------------------------------------------------------
(* Helpers.                                                                *)

Total(f) == FoldFunction(+, 0, f)

Become(r, state) == req' = [req EXCEPT ![r] = state]
Done(r) == Become(r, Idle)

\* a request begins, about pack p; findOne: there is such a pack, deleted or not
Begin(r, p, state) ==
  /\ req[r].pc = "idle"
  /\ pack[p].status # "none"
  /\ Become(r, state)

-----------------------------------------------------------------------------
(* The author and the admins.                                              *)

\* create: a pack waits for its review
CreatePack(p, price) ==
  /\ pack[p].status = "none"
  /\ pack' = [pack EXCEPT ![p].status = "pending", ![p].price = price, ![p].content = 1]
  /\ UNCHANGED <<books, req>>

\* update: the pack is read, then the images are moved
BeginUpdate(r, p, price) ==
  /\ Begin(r, p, [Idle EXCEPT !.pc = "updating", !.pack = p, !.price = price,
                              !.status = pack[p].status])
  /\ pack[p].content < MaxEdits
  /\ UNCHANGED <<pack, books>>

\* mutant: a pack that is changed stays for sale
CommitUpdateApproved(r) ==
  LET p == req[r].pack IN
  /\ req[r].pc = "updating"
  /\ pack' = [pack EXCEPT ![p].price = req[r].price, ![p].content = @ + 1]
  /\ Done(r)
  /\ UNCHANGED books

\* update: the transaction; a status that was not pending becomes pending
CommitUpdate(r) ==
  LET p == req[r].pack IN
  /\ req[r].pc = "updating"
  /\ pack' = [pack EXCEPT ![p].price = req[r].price,
                          ![p].content = @ + 1,
                          ![p].status = IF req[r].status = "pending" THEN @ ELSE "pending"]
  /\ Done(r)
  /\ UNCHANGED books

Updating(p) == \E r \in Requests : req[r].pc = "updating" /\ req[r].pack = p

\* updateStatus
UpdateStatus(p, status) ==
  /\ pack[p].status # "none"
  /\ pack' = [pack EXCEPT ![p].status = status,
       ![p].reviewed = IF status = "approved" THEN pack[p].content ELSE @,
       ![p].overtaken = IF status = "approved" THEN Updating(p) ELSE @]
  /\ UNCHANGED <<books, req>>

\* updatePrice
UpdatePrice(p, price) ==
  /\ pack[p].status # "none"
  /\ pack[p].price # price
  /\ pack' = [pack EXCEPT ![p].price = price]
  /\ UNCHANGED <<books, req>>

\* remove: sales stop, the members keep their copies
Remove(p) ==
  /\ pack[p].status # "none"
  /\ ~pack[p].deleted
  /\ pack' = [pack EXCEPT ![p].deleted = TRUE]
  /\ UNCHANGED <<books, req>>

\* restore
Restore(p) ==
  /\ pack[p].deleted
  /\ pack' = [pack EXCEPT ![p].deleted = FALSE]
  /\ UNCHANGED <<books, req>>

-----------------------------------------------------------------------------
(* Purchases.                                                              *)

\* purchase: the pack is read and may be bought, but not by its author
BeginPurchase(r, u, p) ==
  /\ Begin(r, p, [Idle EXCEPT !.pc = "buying", !.user = u, !.pack = p,
                              !.price = pack[p].price])
  /\ pack[p].status = "approved"
  /\ Author[p] # u
  /\ pack[p].sales < MaxSales
  /\ UNCHANGED <<pack, books>>

\* purchase: hasUserPurchased, in the transaction
CheckOwned(r) ==
  /\ req[r].pc = "buying"
  /\ IF owned[req[r].pack][req[r].user] > 0
       THEN Done(r)
       ELSE Become(r, [req[r] EXCEPT !.pc = "paying"])
  /\ UNCHANGED <<pack, books>>

\* mutant: the buyer pays, and what the author gets is what the pack costs now
PaidToday(row, now, price, p, u, v) ==
  IF v = Author[p] THEN Applied(row, now, now)
  ELSE IF v = u THEN Deducted(row, price) ELSE row

\* what a purchase at this price makes of the row of member v: deductPoints from
\* the buyer, addPoints to the author; now is the price of the pack at the time
Paid(row, now, price, p, u, v) ==
  IF v = Author[p] THEN Applied(row, price, price)
  ELSE IF v = u THEN Deducted(row, price) ELSE row

\* purchase: the writes; without enough points all is rolled back
Pay(r) ==
  LET p == req[r].pack
      u == req[r].user
      price == req[r].price IN
  /\ req[r].pc = "paying"
  /\ Affords(wallet[u], price)
  /\ wallet' = [v \in Users |-> Paid(wallet[v], pack[p].price, price, p, u, v)]
  /\ spent' = [spent EXCEPT ![p][u] = @ + price]
  /\ sold' = [sold EXCEPT ![p] = @ + price]
  /\ pack' = [pack EXCEPT ![p].sales = @ + 1]
  /\ owned' = [owned EXCEPT ![p][u] = @ + 1]
  /\ Done(r)
  /\ UNCHANGED <<refunded, clawed>>

-----------------------------------------------------------------------------
(* forceDeleteWithRefund.                                                  *)

\* the pack is read, with its price
BeginForce(r, p) ==
  /\ Begin(r, p, [Idle EXCEPT !.pc = "forcing", !.pack = p, !.price = pack[p].price])
  /\ UNCHANGED <<pack, books>>

\* findPurchasesByPackId, in the transaction
FindBuyers(r) ==
  /\ req[r].pc = "forcing"
  /\ Become(r, [req[r] EXCEPT !.pc = "refunding", !.buyers = owned[req[r].pack]])
  /\ UNCHANGED <<pack, books>>

\* what the buyers of the request get back, and what the author owes for it
Refunds(r) == [u \in Users |-> req[r].buyers[u] * req[r].price]

\* mutant: the sales of the pack are counted instead of the buyers
DebtOfSales(r) == pack[req[r].pack].sales * req[r].price

Debt(r) == Total(Refunds(r))

\* mutant: the author gives back what is not there
ClawedBackAlways(r, row) == Debt(r)

\* deductPoints: all of the debt, or, its result unread, nothing
ClawedBack(r, row) == IF Affords(row, Debt(r)) THEN Debt(r) ELSE 0

\* the writes: refunds, the clawback, no copies left, and the pack is deleted
Refund(r) ==
  LET p == req[r].pack
      a == Author[p]
      paidBack == [u \in Users |-> Applied(wallet[u], Refunds(r)[u], Refunds(r)[u])]
      taken == ClawedBack(r, paidBack[a]) IN
  /\ req[r].pc = "refunding"
  /\ wallet' = [paidBack EXCEPT ![a] = Deducted(@, taken)]
  /\ refunded' = [refunded EXCEPT ![p] = [u \in Users |-> @[u] + Refunds(r)[u]]]
  /\ clawed' = [clawed EXCEPT ![p] = @ + taken]
  /\ owned' = [owned EXCEPT ![p] = Nobody]
  /\ pack' = [pack EXCEPT ![p].deleted = TRUE]
  /\ Done(r)
  /\ UNCHANGED <<spent, sold>>

\* an exception, too few points among them, or a transaction that the database
\* rolls back (two that pay each other's authors can wait for each other)
Fail(r) ==
  /\ req[r].pc # "idle"
  /\ Done(r)
  /\ UNCHANGED <<pack, books>>

-----------------------------------------------------------------------------

Administration(p) ==
  \/ \E price \in Prices : CreatePack(p, price) \/ UpdatePrice(p, price)
  \/ \E status \in Statuses \ {"none"} : UpdateStatus(p, status)
  \/ Remove(p)
  \/ Restore(p)

Serve(r) ==
  \/ \E p \in Packs, price \in Prices : BeginUpdate(r, p, price)
  \/ CommitUpdate(r)
  \/ \E p \in Packs, u \in Users : BeginPurchase(r, u, p)
  \/ CheckOwned(r)
  \/ Pay(r)
  \/ \E p \in Packs : BeginForce(r, p)
  \/ FindBuyers(r)
  \/ Refund(r)
  \/ Fail(r)

Next ==
  \/ \E p \in Packs : Administration(p)
  \/ \E r \in Requests : Serve(r)

Spec == Init /\ [][Next]_vars

-----------------------------------------------------------------------------
(* Properties.                                                             *)

\* What the members hold together changes by refunds that no author paid for, and
\* by nothing else: no sale makes or destroys points, at whatever price and
\* however purchases, price changes and refunds overlap.
PointsConserved ==
  Total([u \in Users |-> wallet[u].available]) =
    Total(StartPoints)
    + Total([p \in Packs |-> Total(refunded[p]) - clawed[p]])

\* An author gives back a whole clawback or nothing of it: at no time more than
\* was refunded.
ClawbackCovered == \A p \in Packs : clawed[p] <= Total(refunded[p])

\* What is for sale is what an admin approved: no sequence of updates and reviews
\* puts other content on sale, unless the approval came while an update was under
\* way, which then goes by the status it read before.
ReviewedBeforeSale ==
  \A p \in Packs :
    pack[p].status = "approved" /\ ~pack[p].overtaken => pack[p].content = pack[p].reviewed

=============================================================================
