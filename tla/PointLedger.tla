------------------------------ MODULE PointLedger ------------------------------
(***************************************************************************)
(* The points of members: points.service.ts, its listener and repository.  *)
(* Posts and comments are created and removed; each change is followed, in *)
(* memory, by an event whose handler runs on its own.  A handler reads the *)
(* policy, the history, and writes, all with other handlers in between;    *)
(* what a transaction writes is one step, its commit (READ COMMITTED: the  *)
(* row of user_points is locked from the first write on, and the values    *)
(* are computed by the database from the row as it then is).               *)
(***************************************************************************)
EXTENDS Points, Sequences

CONSTANTS
  Users,      \* members
  Items,      \* posts and comments that earn points
  Once,       \* the items whose removals emit one event between them: comments
              \* on the post of another, which softDeleteComment marks once (the
              \* removal of a post gives back its writer's own comments as well)
  Owner,      \* who wrote an item
  Policies,   \* what an active policy may be set to, experience alone included
  Amounts,    \* of grants, sales and purchases
  Handlers,   \* requests and event handlers under way at a time
  None,       \* no item
  MaxPoints   \* bound on grants and sales

Off == [experience |-> 0, available |-> 0]

ASSUME ConstantsAssumption ==
  /\ Owner \in [Items -> Users]
  /\ Once \subseteq Items
  /\ None \notin Items
  /\ Policies \subseteq [experience: Nat, available: Nat] \ {Off}
  /\ Amounts \subseteq Nat \ {0}
  /\ MaxPoints \in Nat

VARIABLES
  policy,    \* point_policies: Off when inactive or all zero
  item,      \* what became of each post or comment
  wallet,    \* user_points
  entries,   \* point_history: the rows with this relatedId, oldest first
  recorded,  \* point_history: the sum of the rows of a member that record available
             \* points (a policy that gives none shows its experience instead)
  handler,   \* a removal, or the handler of an event
  lost,      \* history: items one of whose handlers failed or met no policy
  late       \* history: items removed before the handler of their award was done

vars == <<policy, item, wallet, entries, recorded, handler, lost, late>>

Idle == [pc |-> "idle", item |-> None, policy |-> Off]

Awarding == {"award policy", "award"}
Revoking == {"revoke policy", "check", "revoke"}
Steps == {"idle", "removing"} \union Awarding \union Revoking

TypeOK ==
  /\ policy \in Policies \union {Off}
  /\ item \in [Items -> {"none", "live", "removed"}]
  /\ wallet \in [Users -> PointsRow]
  /\ entries \in [Items -> Seq(Int)]
  /\ recorded \in [Users -> Int]
  /\ handler \in [Handlers -> [pc: Steps, item: Items \union {None},
                              policy: Policies \union {Off}]]
  /\ \A h \in Handlers :
       /\ handler[h].pc # "idle" => handler[h].item \in Items
       /\ handler[h].pc \in {"award", "check", "revoke"} =>
            handler[h].policy \in Policies
  /\ lost \in SUBSET Items
  /\ late \in SUBSET Items

Init ==
  /\ policy \in Policies
  /\ item = [i \in Items |-> "none"]
  /\ wallet = [u \in Users |-> NoPoints]
  /\ entries = [i \in Items |-> <<>>]
  /\ recorded = [u \in Users |-> 0]
  /\ handler = [h \in Handlers |-> Idle]
  /\ lost = {}
  /\ late = {}

-----------------------------------------------------------------------------
(* Helpers.                                                                *)

Busy(h, pcs, i) == handler[h].pc \in pcs /\ handler[h].item = i

Become(h, r) == handler' = [handler EXCEPT ![h] = r]
Goto(h, pc) == Become(h, [handler[h] EXCEPT !.pc = pc])
Done(h) == Become(h, Idle)

\* points: policy.availablePoints || policy.experiencePoints
Shown(p) == IF p.available # 0 THEN p.available ELSE p.experience

\* the available points among what a row of policy p shows
AvailableIn(p, points) == IF p.available # 0 THEN points ELSE 0

\* mutant: the minus is forgotten
ShownAgain(p) == Shown(p)

\* points of the row that records a revoke
TakenRow(p) == -Shown(p)

\* mutant: the two amounts are swapped
TakenSwapped(row, p) == Applied(row, -p.available, -p.experience)

\* what a revoke leaves of a row of user_points
Taken(row, p) == Applied(row, -p.experience, -p.available)

HasAward(rows) == \E k \in DOMAIN rows : rows[k] > 0
HasRevoke(rows) == \E k \in DOMAIN rows : rows[k] < 0

\* revokePoints: awarded && !revoked
Revocable(rows) == HasAward(rows) /\ ~HasRevoke(rows)

\* one more row of point_history for item i, by policy p
Record(i, p, points) ==
  /\ entries' = [entries EXCEPT ![i] = Append(@, points)]
  /\ recorded' = [recorded EXCEPT ![Owner[i]] = @ + AvailableIn(p, points)]

-----------------------------------------------------------------------------
(* Posts and comments: what emits the events.                              *)

\* create, then post.created or comment.created: the handler starts at once
Create(h, i) ==
  /\ handler[h].pc = "idle"
  /\ item[i] = "none"
  /\ item' = [item EXCEPT ![i] = "live"]
  /\ Become(h, [Idle EXCEPT !.pc = "award policy", !.item = i])
  /\ UNCHANGED <<policy, wallet, entries, recorded, lost, late>>

\* remove: the item is found
BeginRemove(h, i) ==
  /\ handler[h].pc = "idle"
  /\ item[i] = "live"
  /\ Become(h, [Idle EXCEPT !.pc = "removing", !.item = i])
  /\ UNCHANGED <<policy, item, wallet, entries, recorded, lost, late>>

\* mutant: the event is emitted whether or not this request marked the comment
EmitsAlways(i) == item[i] # "none"

\* a removal emits points.revoke: of a post always, of a comment that it marked
Emits(i) == i \in Once => item[i] = "live"

\* remove: the item is marked, and points.revoke emitted
CommitRemove(h) ==
  LET i == handler[h].item IN
  /\ handler[h].pc = "removing"
  /\ IF Emits(i) THEN Goto(h, "revoke policy") ELSE Done(h)
  /\ item' = [item EXCEPT ![i] = "removed"]
  /\ late' = IF \E a \in Handlers : Busy(a, Awarding, i) THEN late \union {i} ELSE late
  /\ UNCHANGED <<policy, wallet, entries, recorded, lost>>

-----------------------------------------------------------------------------
(* points.listener.ts: the handlers.                                       *)

\* awardPoints: findPointPolicy
AwardPolicy(h) ==
  /\ handler[h].pc = "award policy"
  /\ IF policy = Off THEN Done(h)
                     ELSE Become(h, [handler[h] EXCEPT !.pc = "award", !.policy = policy])
  /\ UNCHANGED <<policy, item, wallet, entries, recorded, lost, late>>

\* awardPoints: the transaction
Award(h) ==
  LET i == handler[h].item
      p == handler[h].policy IN
  /\ handler[h].pc = "award"
  /\ wallet' = [wallet EXCEPT ![Owner[i]] = Applied(@, p.experience, p.available)]
  /\ Record(i, p, Shown(p))
  /\ Done(h)
  /\ UNCHANGED <<policy, item, lost, late>>

\* revokePoints: findPointPolicy
RevokePolicy(h) ==
  /\ handler[h].pc = "revoke policy"
  /\ IF policy = Off
       THEN Done(h) /\ lost' = lost \union {handler[h].item}
       ELSE /\ Become(h, [handler[h] EXCEPT !.pc = "check", !.policy = policy])
            /\ lost' = lost
  /\ UNCHANGED <<policy, item, wallet, entries, recorded, late>>

\* revokePoints: findHistoryByRelated
CheckHistory(h) ==
  /\ handler[h].pc = "check"
  /\ IF Revocable(entries[handler[h].item]) THEN Goto(h, "revoke") ELSE Done(h)
  /\ UNCHANGED <<policy, item, wallet, entries, recorded, lost, late>>

\* revokePoints: the writes of the transaction
Revoke(h) ==
  LET i == handler[h].item
      p == handler[h].policy IN
  /\ handler[h].pc = "revoke"
  /\ wallet' = [wallet EXCEPT ![Owner[i]] = Taken(@, p)]
  /\ Record(i, p, TakenRow(p))
  /\ Done(h)
  /\ UNCHANGED <<policy, item, lost, late>>

\* an exception, or the API stops: events live in memory, nothing retries them
Fail(h) ==
  /\ handler[h].pc # "idle"
  /\ Done(h)
  /\ lost' = IF handler[h].pc = "removing" THEN lost ELSE lost \union {handler[h].item}
  /\ UNCHANGED <<policy, item, wallet, entries, recorded, late>>

-----------------------------------------------------------------------------
(* Everything else that changes points.                                    *)

\* admin: updatePointPolicy
SetPolicy(p) ==
  /\ policy # p
  /\ policy' = p
  /\ UNCHANGED <<item, wallet, entries, recorded, handler, lost, late>>

\* grantByAdmin: available points only
GrantByAdmin(u, n) ==
  /\ wallet[u].available + n <= MaxPoints
  /\ wallet' = [wallet EXCEPT ![u] = Applied(@, 0, n)]
  /\ recorded' = [recorded EXCEPT ![u] = @ + n]
  /\ UNCHANGED <<policy, item, entries, handler, lost, late>>

\* addPoints, in the transaction of a sale
AddPoints(u, n) ==
  /\ wallet[u].accumulated + n <= MaxPoints
  /\ wallet[u].available + n <= MaxPoints
  /\ wallet' = [wallet EXCEPT ![u] = Applied(@, n, n)]
  /\ recorded' = [recorded EXCEPT ![u] = @ + n]
  /\ UNCHANGED <<policy, item, entries, handler, lost, late>>

\* deductPoints, in the transaction of a purchase
DeductPoints(u, n) ==
  /\ Affords(wallet[u], n)
  /\ wallet' = [wallet EXCEPT ![u] = Deducted(@, n)]
  /\ recorded' = [recorded EXCEPT ![u] = @ - n]
  /\ UNCHANGED <<policy, item, entries, handler, lost, late>>

-----------------------------------------------------------------------------

Handle(h) ==
  \/ \E i \in Items : Create(h, i) \/ BeginRemove(h, i)
  \/ CommitRemove(h)
  \/ AwardPolicy(h)
  \/ Award(h)
  \/ RevokePolicy(h)
  \/ CheckHistory(h)
  \/ Revoke(h)
  \/ Fail(h)

Transfer(u, n) == GrantByAdmin(u, n) \/ AddPoints(u, n) \/ DeductPoints(u, n)

Next ==
  \/ \E h \in Handlers : Handle(h)
  \/ \E u \in Users, n \in Amounts : Transfer(u, n)
  \/ \E p \in Policies \union {Off} : SetPolicy(p)

Spec == Init /\ [][Next]_vars

-----------------------------------------------------------------------------
(* Properties.                                                             *)

\* The balance of a member never falls short of what the history of available
\* points adds up to: a revoke takes what is left, its row records the full
\* amount, and no order of handlers loses an award.  Rows of policies that give
\* experience alone are left out: they show points the balance never had.
WalletCoversHistory == \A u \in Users : wallet[u].available >= recorded[u]

\* Points are taken back only for an item that they were given for before,
\* whatever the order in which the handlers of its events run.
AwardedBeforeRevoked ==
  \A i \in Items : \A k \in DOMAIN entries[i] :
    entries[i][k] < 0 => \E j \in 1 .. k - 1 : entries[i][j] > 0

\* However many requests remove a comment on another's post at once, and whatever
\* the handlers of their events do, its points are taken once.
CommentsRevokedOnce ==
  \A i \in Once : \A j, k \in DOMAIN entries[i] :
    entries[i][j] < 0 /\ entries[i][k] < 0 => j = k

\* the removal of i and the handlers of its events are over
Settled(i) ==
  item[i] = "removed" /\ \A h \in Handlers : handler[h].item # i

\* Once a removal and its handlers are over the points of the item are taken
\* back, unless a handler failed or the removal overtook the award.
TakenBack ==
  \A i \in Items \ (lost \union late) :
    Settled(i) /\ HasAward(entries[i]) => HasRevoke(entries[i])

=============================================================================
