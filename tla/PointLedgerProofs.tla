--------------------------- MODULE PointLedgerProofs ---------------------------
(* Proofs about PointLedger, for any number of members, items and handlers.    *)
EXTENDS PointLedger, TLAPS

-----------------------------------------------------------------------------
(* Helpers.                                                                *)

\* A policy, while active, gives points: the row of an award shows more than 0 and
\* that of a revoke less, and what they show of available points is what they move.
LEMMA PolicyShown ==
  ASSUME NEW p \in Policies
  PROVE  /\ p.experience \in Nat /\ p.available \in Nat
         /\ Shown(p) \in Nat \ {0}
         /\ TakenRow(p) \in Int /\ TakenRow(p) < 0
         /\ AvailableIn(p, Shown(p)) = p.available
         /\ AvailableIn(p, TakenRow(p)) = -p.available
<1>1. /\ p \in [experience: Nat, available: Nat]
      /\ p # [experience |-> 0, available |-> 0]
  BY ConstantsAssumption DEF ConstantsAssumption, Off
<1>2. p.experience \in Nat /\ p.available \in Nat
  BY <1>1
<1>3. p.available # 0 \/ p.experience # 0
  BY <1>1
<1>4. Shown(p) \in Nat \ {0}
  BY <1>2, <1>3 DEF Shown
<1>5. TakenRow(p) \in Int /\ TakenRow(p) < 0
  BY <1>4 DEF TakenRow
<1>6. /\ AvailableIn(p, Shown(p)) = p.available
      /\ AvailableIn(p, TakenRow(p)) = -p.available
  BY <1>2 DEF AvailableIn, Shown, TakenRow
<1>7. QED
  BY <1>2, <1>4, <1>5, <1>6

\* An update of a row of user_points never takes a column below 0.
LEMMA AppliedType ==
  ASSUME NEW row \in PointsRow, NEW acc \in Int, NEW av \in Int
  PROVE  /\ Applied(row, acc, av) \in PointsRow
         /\ Applied(row, acc, av).available >= row.available + av
         /\ av >= 0 => Applied(row, acc, av).available = row.available + av
BY DEF Applied, AtLeastZero, PointsRow

\* A deduction leaves a balance of natural numbers.
LEMMA DeductedType ==
  ASSUME NEW row \in PointsRow, NEW n \in Nat, Affords(row, n)
  PROVE  /\ Deducted(row, n) \in PointsRow
         /\ Deducted(row, n).available = row.available - n
BY DEF Deducted, Affords, PointsRow

\* One more row: what the rows of an item say of awards and revokes afterwards.
LEMMA RecordRows ==
  ASSUME TypeOK, NEW i \in Items, NEW p, NEW n \in Int, Record(i, p, n)
  PROVE  /\ entries' \in [Items -> Seq(Int)]
         /\ recorded' \in [Users -> Int]
         /\ entries'[i] = Append(entries[i], n)
         /\ \A j \in Items \ {i} : entries'[j] = entries[j]
         /\ HasAward(entries[i])' <=> HasAward(entries[i]) \/ n > 0
         /\ HasRevoke(entries[i])' <=> HasRevoke(entries[i]) \/ n < 0
<1>1. /\ entries[i] \in Seq(Int) /\ entries'[i] = Append(entries[i], n)
      /\ entries' \in [Items -> Seq(Int)]
      /\ \A j \in Items \ {i} : entries'[j] = entries[j]
  BY DEF TypeOK, Record
<1>2. recorded' \in [Users -> Int]
  <2>1. Owner[i] \in Users
    BY ConstantsAssumption DEF ConstantsAssumption
  <2> DEFINE sum == recorded[Owner[i]] + AvailableIn(p, n)
  <2>2. recorded[Owner[i]] \in Int /\ AvailableIn(p, n) \in Int
    BY <2>1 DEF TypeOK, AvailableIn
  <2>3. sum \in Int /\ recorded' = [recorded EXCEPT ![Owner[i]] = sum]
    BY <2>2 DEF Record
  <2>4. QED
    BY <2>1, <2>2, <2>3 DEF TypeOK
<1> DEFINE rows == entries[i]
<1>3. /\ Len(rows) \in Nat /\ DOMAIN rows = 1 .. Len(rows)
      /\ DOMAIN Append(rows, n) = 1 .. Len(rows) + 1
      /\ Append(rows, n)[Len(rows) + 1] = n
      /\ \A k \in 1 .. Len(rows) : Append(rows, n)[k] = rows[k]
  BY <1>1
<1>4. HasAward(Append(rows, n)) <=> HasAward(rows) \/ n > 0
  <2>1. ASSUME HasAward(rows) \/ n > 0 PROVE HasAward(Append(rows, n))
    <3>1. CASE n > 0
      BY <1>3, <3>1 DEF HasAward
    <3>2. CASE HasAward(rows)
      <4>1. PICK k \in DOMAIN rows : rows[k] > 0
        BY <3>2 DEF HasAward
      <4>2. k \in DOMAIN Append(rows, n) /\ Append(rows, n)[k] > 0
        BY <4>1, <1>3
      <4>3. QED
        BY <4>2 DEF HasAward
    <3>3. QED
      BY <2>1, <3>1, <3>2
  <2>2. ASSUME HasAward(Append(rows, n)) PROVE HasAward(rows) \/ n > 0
    BY <2>2, <1>3 DEF HasAward
  <2>3. QED
    BY <2>1, <2>2
<1>5. HasRevoke(Append(rows, n)) <=> HasRevoke(rows) \/ n < 0
  <2>1. ASSUME HasRevoke(rows) \/ n < 0 PROVE HasRevoke(Append(rows, n))
    <3>1. CASE n < 0
      BY <1>3, <3>1 DEF HasRevoke
    <3>2. CASE HasRevoke(rows)
      <4>1. PICK k \in DOMAIN rows : rows[k] < 0
        BY <3>2 DEF HasRevoke
      <4>2. k \in DOMAIN Append(rows, n) /\ Append(rows, n)[k] < 0
        BY <4>1, <1>3
      <4>3. QED
        BY <4>2 DEF HasRevoke
    <3>3. QED
      BY <2>1, <3>1, <3>2
  <2>2. ASSUME HasRevoke(Append(rows, n)) PROVE HasRevoke(rows) \/ n < 0
    BY <2>2, <1>3 DEF HasRevoke
  <2>3. QED
    BY <2>1, <2>2
<1>6. QED
  BY <1>1, <1>2, <1>4, <1>5 DEF HasAward, HasRevoke

-----------------------------------------------------------------------------
(* Type correctness: no balance is ever negative.                          *)

\* A handler at rest is a handler.
LEMMA IdleType == Idle \in [pc: Steps, item: Items \union {None},
                            policy: Policies \union {Off}]
BY DEF Idle, Steps, Awarding, Revoking

\* The initial states are of the right types.
LEMMA InitType == Init => TypeOK
<1> SUFFICES ASSUME Init
             PROVE  TypeOK
  OBVIOUS
<1>1. Off \notin Policies
  BY ConstantsAssumption DEF ConstantsAssumption, Off
<1>2. QED
  BY IdleType DEF Init, TypeOK, NoPoints, PointsRow, Idle

\* What a step makes of a handler is a handler.
LEMMA HandlerType ==
  ASSUME TypeOK, NEW h \in Handlers, NEW r,
         Become(h, r),
         r \in [pc: Steps, item: Items \union {None}, policy: Policies \union {Off}],
         r.pc # "idle" => r.item \in Items,
         r.pc \in {"award", "check", "revoke"} => r.policy \in Policies
  PROVE  /\ handler' \in [Handlers -> [pc: Steps, item: Items \union {None},
                                      policy: Policies \union {Off}]]
         /\ \A g \in Handlers :
              /\ handler'[g].pc # "idle" => handler'[g].item \in Items
              /\ handler'[g].pc \in {"award", "check", "revoke"} =>
                   handler'[g].policy \in Policies
BY DEF TypeOK, Become

\* Ending a handler keeps the types.
LEMMA DoneType ==
  ASSUME TypeOK, NEW h \in Handlers, Done(h)
  PROVE  /\ handler' \in [Handlers -> [pc: Steps, item: Items \union {None},
                                      policy: Policies \union {Off}]]
         /\ \A g \in Handlers :
              /\ handler'[g].pc # "idle" => handler'[g].item \in Items
              /\ handler'[g].pc \in {"award", "check", "revoke"} =>
                   handler'[g].policy \in Policies
<1>1. Idle.pc = "idle"
  BY DEF Idle
<1>2. QED
  BY <1>1, IdleType, HandlerType DEF Done, Become

\* Every step keeps the types.
LEMMA NextType == TypeOK /\ [Next]_vars => TypeOK'
<1> SUFFICES ASSUME TypeOK, [Next]_vars
             PROVE  TypeOK'
  OBVIOUS
<1> USE DEF Steps, Awarding, Revoking
<1>1. ASSUME NEW h \in Handlers, NEW i \in Items, Create(h, i)
      PROVE  TypeOK'
  <2> DEFINE r == [Idle EXCEPT !.pc = "award policy", !.item = i]
  <2>1. /\ r \in [pc: Steps, item: Items \union {None}, policy: Policies \union {Off}]
        /\ r.item \in Items /\ r.pc = "award policy"
    BY IdleType DEF Idle
  <2>2. Become(h, r)
    BY <1>1 DEF Create
  <2> HIDE DEF r
  <2>3. QED
    BY <1>1, <2>1, <2>2, HandlerType DEF TypeOK, Create
<1>2. ASSUME NEW h \in Handlers, NEW i \in Items, BeginRemove(h, i)
      PROVE  TypeOK'
  <2> DEFINE r == [Idle EXCEPT !.pc = "removing", !.item = i]
  <2>1. /\ r \in [pc: Steps, item: Items \union {None}, policy: Policies \union {Off}]
        /\ r.item \in Items /\ r.pc = "removing"
    BY IdleType DEF Idle
  <2>2. Become(h, r)
    BY <1>2 DEF BeginRemove
  <2> HIDE DEF r
  <2>3. QED
    BY <1>2, <2>1, <2>2, HandlerType DEF TypeOK, BeginRemove
<1>3. ASSUME NEW h \in Handlers, CommitRemove(h)
      PROVE  TypeOK'
  <2>1. handler[h].item \in Items
    BY <1>3 DEF TypeOK, CommitRemove
  <2>2. item' \in [Items -> {"none", "live", "removed"}] /\ late' \in SUBSET Items
    BY <1>3, <2>1 DEF TypeOK, CommitRemove
  <2>3. CASE Done(h)
    BY <1>3, <2>2, <2>3, DoneType DEF TypeOK, CommitRemove
  <2>4. CASE Goto(h, "revoke policy")
    <3> DEFINE r == [handler[h] EXCEPT !.pc = "revoke policy"]
    <3>1. /\ r \in [pc: Steps, item: Items \union {None}, policy: Policies \union {Off}]
          /\ r.pc # "idle" => r.item \in Items
          /\ r.pc \in {"award", "check", "revoke"} => r.policy \in Policies
      BY <1>3, <2>1, <2>2, <2>4 DEF TypeOK
    <3>2. Become(h, r)
      BY <1>3, <2>1, <2>2, <2>4 DEF CommitRemove, Goto
    <3> HIDE DEF r
    <3>3. QED
      BY <1>3, <2>1, <2>2, <2>4, <3>1, <3>2, HandlerType DEF TypeOK, CommitRemove
  <2>5. QED
    BY <1>3, <2>3, <2>4 DEF CommitRemove
<1>4. ASSUME NEW h \in Handlers, AwardPolicy(h)
      PROVE  TypeOK'
  <2>1. CASE policy = Off
    BY <1>4, <2>1, DoneType DEF TypeOK, AwardPolicy
  <2>2. CASE policy # Off
    <3> DEFINE r == [handler[h] EXCEPT !.pc = "award", !.policy = policy]
    <3>1. /\ r \in [pc: Steps, item: Items \union {None}, policy: Policies \union {Off}]
          /\ r.pc # "idle" => r.item \in Items
          /\ r.pc \in {"award", "check", "revoke"} => r.policy \in Policies
      BY <1>4, <2>2 DEF TypeOK, AwardPolicy
    <3>2. Become(h, r)
      BY <1>4, <2>2 DEF AwardPolicy
    <3> HIDE DEF r
    <3>3. QED
      BY <1>4, <2>2, <3>1, <3>2, HandlerType DEF TypeOK, AwardPolicy
  <2>3. QED
    BY <2>1, <2>2
<1>5. ASSUME NEW h \in Handlers, Award(h)
      PROVE  TypeOK'
  <2> DEFINE i == handler[h].item
             p == handler[h].policy
  <2>1. i \in Items /\ p \in Policies /\ Owner[i] \in Users
    BY <1>5, ConstantsAssumption DEF TypeOK, Award, ConstantsAssumption
  <2>2. entries' \in [Items -> Seq(Int)] /\ recorded' \in [Users -> Int]
    BY <1>5, <2>1, PolicyShown, RecordRows DEF Award
  <2>3. wallet' \in [Users -> PointsRow]
    <3>1. Applied(wallet[Owner[i]], p.experience, p.available) \in PointsRow
      <4>1. wallet[Owner[i]] \in PointsRow
        BY <2>1 DEF TypeOK
      <4>2. p.experience \in Nat /\ p.available \in Nat
        BY <2>1, PolicyShown
      <4>3. p.experience \in Int /\ p.available \in Int
        BY <4>2
      <4>4. QED
        BY <4>1, <4>3, AppliedType
    <3>2. QED
      BY <1>5, <2>1, <3>1 DEF TypeOK, Award
  <2>4. Done(h) /\ UNCHANGED <<policy, item, lost, late>>
    BY <1>5 DEF Award
  <2>5. QED
    BY <2>2, <2>3, <2>4, DoneType DEF TypeOK
<1>6. ASSUME NEW h \in Handlers, RevokePolicy(h)
      PROVE  TypeOK'
  <2>1. handler[h].item \in Items
    BY <1>6 DEF TypeOK, RevokePolicy
  <2>2. CASE policy = Off
    BY <1>6, <2>1, <2>2, DoneType DEF TypeOK, RevokePolicy
  <2>3. CASE policy # Off
    <3> DEFINE r == [handler[h] EXCEPT !.pc = "check", !.policy = policy]
    <3>1. /\ r \in [pc: Steps, item: Items \union {None}, policy: Policies \union {Off}]
          /\ r.pc # "idle" => r.item \in Items
          /\ r.pc \in {"award", "check", "revoke"} => r.policy \in Policies
      BY <1>6, <2>1, <2>3 DEF TypeOK, RevokePolicy
    <3>2. Become(h, r)
      BY <1>6, <2>1, <2>3 DEF RevokePolicy
    <3> HIDE DEF r
    <3>3. QED
      BY <1>6, <2>1, <2>3, <3>1, <3>2, HandlerType DEF TypeOK, RevokePolicy
  <2>4. QED
    BY <2>2, <2>3
<1>7. ASSUME NEW h \in Handlers, CheckHistory(h)
      PROVE  TypeOK'
  <2>1. CASE Done(h)
    BY <1>7, <2>1, DoneType DEF TypeOK, CheckHistory
  <2>2. CASE Goto(h, "revoke")
    <3> DEFINE r == [handler[h] EXCEPT !.pc = "revoke"]
    <3>1. /\ r \in [pc: Steps, item: Items \union {None}, policy: Policies \union {Off}]
          /\ r.pc # "idle" => r.item \in Items
          /\ r.pc \in {"award", "check", "revoke"} => r.policy \in Policies
      BY <1>7, <2>2 DEF TypeOK, CheckHistory
    <3>2. Become(h, r)
      BY <1>7, <2>2 DEF CheckHistory, Goto
    <3> HIDE DEF r
    <3>3. QED
      BY <1>7, <2>2, <3>1, <3>2, HandlerType DEF TypeOK, CheckHistory
  <2>3. QED
    BY <1>7, <2>1, <2>2 DEF CheckHistory
<1>8. ASSUME NEW h \in Handlers, Revoke(h)
      PROVE  TypeOK'
  <2> DEFINE i == handler[h].item
             p == handler[h].policy
  <2>1. i \in Items /\ p \in Policies /\ Owner[i] \in Users
    BY <1>8, ConstantsAssumption DEF TypeOK, Revoke, ConstantsAssumption
  <2>2. entries' \in [Items -> Seq(Int)] /\ recorded' \in [Users -> Int]
    BY <1>8, <2>1, PolicyShown, RecordRows DEF Revoke
  <2>3. wallet' \in [Users -> PointsRow]
    <3>1. Taken(wallet[Owner[i]], p) \in PointsRow
      <4>1. wallet[Owner[i]] \in PointsRow
        BY <2>1 DEF TypeOK
      <4>2. p.experience \in Nat /\ p.available \in Nat
        BY <2>1, PolicyShown
      <4>3. -p.experience \in Int /\ -p.available \in Int
        BY <4>2
      <4>4. QED
        BY <4>1, <4>3, AppliedType DEF Taken
    <3>2. QED
      BY <1>8, <2>1, <3>1 DEF TypeOK, Revoke
  <2>4. Done(h) /\ UNCHANGED <<policy, item, lost, late>>
    BY <1>8 DEF Revoke
  <2>5. QED
    BY <2>2, <2>3, <2>4, DoneType DEF TypeOK
<1>9. ASSUME NEW h \in Handlers, Fail(h)
      PROVE  TypeOK'
  <2>1. lost' \in SUBSET Items
    <3>1. CASE handler[h].pc = "idle"
      BY <1>9, <3>1 DEF TypeOK, Fail
    <3>2. CASE handler[h].pc # "idle"
      BY <1>9, <3>2 DEF TypeOK, Fail
    <3>3. QED
      BY <3>1, <3>2
  <2>2. QED
    BY <1>9, <2>1, DoneType DEF TypeOK, Fail
<1>10. ASSUME NEW u \in Users, NEW n \in Amounts, Transfer(u, n)
       PROVE  TypeOK'
  <2>1. n \in Nat /\ wallet[u] \in PointsRow /\ recorded[u] \in Int
    BY ConstantsAssumption DEF ConstantsAssumption, TypeOK
  <2>2. CASE GrantByAdmin(u, n)
    <3>1. Applied(wallet[u], 0, n) \in PointsRow
      BY <2>1, AppliedType
    <3>2. wallet' \in [Users -> PointsRow]
      BY <2>2, <3>1 DEF TypeOK, GrantByAdmin
    <3>3. recorded[u] + n \in Int
      BY <2>1
    <3>4. recorded' \in [Users -> Int]
      BY <2>2, <3>3 DEF TypeOK, GrantByAdmin
    <3>5. QED
      BY <2>2, <3>2, <3>4 DEF TypeOK, GrantByAdmin
  <2>3. CASE AddPoints(u, n)
    <3>1. Applied(wallet[u], n, n) \in PointsRow
      BY <2>1, AppliedType
    <3>2. wallet' \in [Users -> PointsRow]
      BY <2>3, <3>1 DEF TypeOK, AddPoints
    <3>3. recorded[u] + n \in Int
      BY <2>1
    <3>4. recorded' \in [Users -> Int]
      BY <2>3, <3>3 DEF TypeOK, AddPoints
    <3>5. QED
      BY <2>3, <3>2, <3>4 DEF TypeOK, AddPoints
  <2>4. CASE DeductPoints(u, n)
    <3>1. Deducted(wallet[u], n) \in PointsRow
      BY <2>1, <2>4, DeductedType DEF DeductPoints
    <3>2. wallet' \in [Users -> PointsRow]
      BY <2>4, <3>1 DEF TypeOK, DeductPoints
    <3>3. recorded[u] - n \in Int
      BY <2>1
    <3>4. recorded' \in [Users -> Int]
      BY <2>4, <3>3 DEF TypeOK, DeductPoints
    <3>5. QED
      BY <2>4, <3>2, <3>4 DEF TypeOK, DeductPoints
  <2>5. QED
    BY <1>10, <2>2, <2>3, <2>4 DEF Transfer
<1>11. ASSUME NEW p \in Policies \union {Off}, SetPolicy(p)
       PROVE  TypeOK'
  BY <1>11 DEF TypeOK, SetPolicy
<1>12. CASE UNCHANGED vars
  BY <1>12 DEF TypeOK, vars
<1>13. QED
  BY <1>1, <1>2, <1>3, <1>4, <1>5, <1>6, <1>7, <1>8, <1>9, <1>10, <1>11, <1>12
     DEF Next, Handle

\* Every variable keeps its type; in particular no balance is negative, whatever
\* is spent and taken back at the same time.
THEOREM TypeCorrect == Spec => []TypeOK
BY InitType, NextType, PTL DEF Spec

-----------------------------------------------------------------------------
(* The balance and the history.                                            *)

\* A step that leaves the wallet and the recorded sums as they are, or raises the
\* balance of one member by at least what it records for it, keeps the two in step.
LEMMA BalanceStep ==
  ASSUME TypeOK, WalletCoversHistory, NEW u \in Users, NEW row, NEW n \in Int,
         row.available >= wallet[u].available + n, row.available \in Int,
         wallet' = [wallet EXCEPT ![u] = row],
         recorded' = [recorded EXCEPT ![u] = recorded[u] + n]
  PROVE  WalletCoversHistory'
<1> SUFFICES ASSUME NEW v \in Users
             PROVE  wallet'[v].available >= recorded'[v]
  BY DEF WalletCoversHistory
<1>1. wallet[u].available \in Int /\ recorded[u] \in Int /\ wallet[u].available >= recorded[u]
  BY DEF TypeOK, PointsRow, WalletCoversHistory
<1>2. CASE v = u
  <2>1. wallet'[v] = row /\ recorded'[v] = recorded[u] + n
    BY <1>2 DEF TypeOK
  <2>2. QED
    BY <1>1, <2>1
<1>3. CASE v # u
  BY <1>3 DEF TypeOK, WalletCoversHistory
<1>4. QED
  BY <1>2, <1>3

\* Every step keeps balances from falling short of the history.
LEMMA BalanceNext == TypeOK /\ WalletCoversHistory /\ [Next]_vars => WalletCoversHistory'
<1> SUFFICES ASSUME TypeOK, WalletCoversHistory, [Next]_vars
             PROVE  WalletCoversHistory'
  OBVIOUS
<1>1. ASSUME NEW h \in Handlers, Award(h)
      PROVE  WalletCoversHistory'
  <2> DEFINE i == handler[h].item
             p == handler[h].policy
             row == Applied(wallet[Owner[i]], p.experience, p.available)
             n == p.available
  <2>1. i \in Items /\ p \in Policies /\ Owner[i] \in Users
    BY <1>1, ConstantsAssumption DEF TypeOK, Award, ConstantsAssumption
  <2>2. p.experience \in Int /\ n \in Nat /\ n \in Int /\ AvailableIn(p, Shown(p)) = n
    BY <2>1, PolicyShown
  <2>3. wallet[Owner[i]] \in PointsRow
    BY <2>1 DEF TypeOK
  <2>4. row \in PointsRow /\ row.available >= wallet[Owner[i]].available + n
    BY <2>2, <2>3, AppliedType
  <2>5. row.available \in Int
    BY <2>4 DEF PointsRow
  <2>6. /\ wallet' = [wallet EXCEPT ![Owner[i]] = row]
        /\ recorded' = [recorded EXCEPT ![Owner[i]] = recorded[Owner[i]] + n]
    BY <1>1, <2>2 DEF Award, Record
  <2> HIDE DEF row, i, p, n
  <2>7. QED
    BY <2>1, <2>2, <2>4, <2>5, <2>6, BalanceStep
<1>2. ASSUME NEW h \in Handlers, Revoke(h)
      PROVE  WalletCoversHistory'
  <2> DEFINE i == handler[h].item
             p == handler[h].policy
             row == Taken(wallet[Owner[i]], p)
             n == -p.available
  <2>1. i \in Items /\ p \in Policies /\ Owner[i] \in Users
    BY <1>2, ConstantsAssumption DEF TypeOK, Revoke, ConstantsAssumption
  <2>2. -p.experience \in Int /\ n \in Int /\ AvailableIn(p, TakenRow(p)) = n
    <3>1. /\ p.experience \in Nat /\ p.available \in Nat
          /\ AvailableIn(p, TakenRow(p)) = -p.available
      BY <2>1, PolicyShown
    <3>2. QED
      BY <3>1
  <2>3. wallet[Owner[i]] \in PointsRow
    BY <2>1 DEF TypeOK
  <2>4. row \in PointsRow /\ row.available >= wallet[Owner[i]].available + n
    BY <2>2, <2>3, AppliedType DEF Taken
  <2>5. row.available \in Int
    BY <2>4 DEF PointsRow
  <2>6. /\ wallet' = [wallet EXCEPT ![Owner[i]] = row]
        /\ recorded' = [recorded EXCEPT ![Owner[i]] = recorded[Owner[i]] + n]
    BY <1>2, <2>2 DEF Revoke, Record
  <2> HIDE DEF row, i, p, n
  <2>7. QED
    BY <2>1, <2>2, <2>4, <2>5, <2>6, BalanceStep
<1>3. ASSUME NEW u \in Users, NEW n \in Amounts, Transfer(u, n)
      PROVE  WalletCoversHistory'
  <2>1. n \in Nat /\ n \in Int /\ wallet[u] \in PointsRow /\ recorded[u] \in Int
    BY ConstantsAssumption DEF ConstantsAssumption, TypeOK
  <2>2. CASE GrantByAdmin(u, n) \/ AddPoints(u, n)
    <3>1. PICK acc \in Int : /\ wallet' = [wallet EXCEPT ![u] = Applied(wallet[u], acc, n)]
                             /\ recorded' = [recorded EXCEPT ![u] = recorded[u] + n]
      BY <2>1, <2>2 DEF GrantByAdmin, AddPoints
    <3> DEFINE row == Applied(wallet[u], acc, n)
    <3>2. row \in PointsRow /\ row.available >= wallet[u].available + n
      BY <2>1, AppliedType
    <3>3. row.available \in Int
      BY <3>2 DEF PointsRow
    <3> HIDE DEF row
    <3>4. wallet' = [wallet EXCEPT ![u] = row]
      BY <3>1 DEF row
    <3>5. QED
      BY <2>1, <3>1, <3>2, <3>3, <3>4, BalanceStep
  <2>3. CASE DeductPoints(u, n)
    <3> DEFINE row == Deducted(wallet[u], n)
               change == -n
    <3>1. row \in PointsRow /\ row.available = wallet[u].available - n
      BY <2>1, <2>3, DeductedType DEF DeductPoints
    <3>2. row.available \in Int /\ row.available >= wallet[u].available + change
      BY <2>1, <3>1 DEF PointsRow
    <3>3. recorded' = [recorded EXCEPT ![u] = recorded[u] + change]
      BY <2>1, <2>3 DEF DeductPoints
    <3>4. wallet' = [wallet EXCEPT ![u] = row]
      BY <2>3 DEF DeductPoints
    <3>5. change \in Int
      BY <2>1
    <3> HIDE DEF row, change
    <3>6. QED
      BY <3>2, <3>3, <3>4, <3>5, BalanceStep
  <2>4. QED
    BY <1>3, <2>2, <2>3 DEF Transfer
<1>4. CASE UNCHANGED <<wallet, recorded>>
  BY <1>4 DEF WalletCoversHistory
<1>5. QED
  BY <1>1, <1>2, <1>3, <1>4 DEF Next, Handle, Create, BeginRemove, CommitRemove,
     AwardPolicy, RevokePolicy, CheckHistory, Fail, SetPolicy, vars

\* The balance is never short of what the history of available points adds up to,
\* whatever the policies give: no award, sale or purchase is lost to another one,
\* and a revoke that finds too little left is the only way for the two to differ.
THEOREM WalletCoversHistoryCorrect == Spec => []WalletCoversHistory
<1>1. Init => WalletCoversHistory
  BY DEF Init, WalletCoversHistory, NoPoints
<1>2. QED
  BY <1>1, TypeCorrect, BalanceNext, PTL DEF Spec

-----------------------------------------------------------------------------
(* The order of awards and revokes.                                        *)

\* A handler that is about to take points has seen that they were given.
AwardSeen ==
  \A h \in Handlers : handler[h].pc = "revoke" => HasAward(entries[handler[h].item])

\* Requests and handlers are about items that exist or existed.
Known == \A h \in Handlers : handler[h].pc # "idle" => item[handler[h].item] # "none"

\* Points are taken back for removed items only.
RemovedFirst ==
  \A i \in Items :
    HasRevoke(entries[i]) \/ (\E h \in Handlers : Busy(h, Revoking, i)) =>
      item[i] = "removed"

\* Of an item that emits one event, one handler takes back the points, once.
OneRevoker ==
  \A i \in Once :
    /\ \A g, h \in Handlers : Busy(g, Revoking, i) /\ Busy(h, Revoking, i) => g = h
    /\ HasRevoke(entries[i]) => \A h \in Handlers : ~Busy(h, Revoking, i)

\* A removed item whose award is still to come counts as late.
NoAwardAfter ==
  \A i \in Items \ late :
    item[i] = "removed" => \A h \in Handlers : ~Busy(h, Awarding, i)

\* Points that a removed item still has are being taken back.
Pursued ==
  \A i \in Items \ (lost \union late) :
    item[i] = "removed" /\ Revocable(entries[i]) =>
      \E h \in Handlers : Busy(h, Revoking, i)

Orderly == AwardSeen /\ Known /\ RemovedFirst /\ OneRevoker /\ NoAwardAfter /\ Pursued

\* A step that changes one handler changes no other one.
LEMMA BecomeOne ==
  ASSUME TypeOK, NEW h \in Handlers, NEW r, Become(h, r)
  PROVE  handler'[h] = r /\ \A g \in Handlers \ {h} : handler'[g] = handler[g]
BY DEF TypeOK, Become

\* A handler at rest neither awards nor revokes.
LEMMA IdleApart == Idle.pc = "idle" /\ "idle" \notin Awarding /\ "idle" \notin Revoking
BY DEF Idle, Awarding, Revoking

\* A step of one handler that writes no row and stays about its item keeps the
\* order, if it gives up on points to take back only where there are none, or as
\* a failure.
LEMMA QuietStep ==
  ASSUME TypeOK, Orderly, NEW h \in Handlers, NEW r, Become(h, r),
         UNCHANGED <<item, entries, late>>, lost \subseteq lost',
         r.pc # "idle" => item[r.item] # "none",
         r.pc \in Awarding => Busy(h, Awarding, r.item),
         r.pc \in Revoking => Busy(h, Revoking, r.item),
         handler[h].pc \in Revoking /\ r.pc \notin Revoking =>
           handler[h].item \in lost' \/ ~Revocable(entries[handler[h].item]),
         r.pc = "revoke" => HasAward(entries[r.item])
  PROVE  Orderly'
<1>1. handler'[h] = r /\ \A g \in Handlers \ {h} : handler'[g] = handler[g]
  BY BecomeOne
<1>2. \A g \in Handlers, i \in Items : Busy(g, Awarding, i)' => Busy(g, Awarding, i)
  BY <1>1 DEF Busy
<1>3. \A g \in Handlers, i \in Items : Busy(g, Revoking, i)' => Busy(g, Revoking, i)
  BY <1>1 DEF Busy
<1>4. AwardSeen'
  BY <1>1 DEF Orderly, AwardSeen
<1>5. Known'
  BY <1>1 DEF Orderly, Known
<1>6. RemovedFirst'
  <2>1. SUFFICES ASSUME NEW i \in Items,
                        HasRevoke(entries[i])' \/ \E g \in Handlers : Busy(g, Revoking, i)'
                 PROVE  item'[i] = "removed"
    BY DEF RemovedFirst
  <2>2. HasRevoke(entries[i]) \/ \E g \in Handlers : Busy(g, Revoking, i)
    BY <1>3, <2>1 DEF HasRevoke
  <2>3. QED
    BY <2>2 DEF Orderly, RemovedFirst
<1>7. OneRevoker'
  <2>1. SUFFICES ASSUME NEW i \in Once
                 PROVE  /\ \A f, g \in Handlers :
                             Busy(f, Revoking, i)' /\ Busy(g, Revoking, i)' => f = g
                        /\ HasRevoke(entries[i])' => \A g \in Handlers : ~Busy(g, Revoking, i)'
    BY DEF OneRevoker
  <2>2. i \in Items
    BY ConstantsAssumption DEF ConstantsAssumption
  <2>3. QED
    BY <1>3, <2>2 DEF Orderly, OneRevoker, HasRevoke
<1>8. NoAwardAfter'
  BY <1>2 DEF Orderly, NoAwardAfter
<1>9. Pursued'
  <2>1. SUFFICES ASSUME NEW i \in Items \ (lost' \union late'),
                        item'[i] = "removed", Revocable(entries[i])'
                 PROVE  \E g \in Handlers : Busy(g, Revoking, i)'
    BY DEF Pursued
  <2>2. i \in Items \ (lost \union late) /\ item[i] = "removed" /\ Revocable(entries[i])
    BY <2>1 DEF Revocable, HasAward, HasRevoke
  <2>3. PICK g \in Handlers : Busy(g, Revoking, i)
    BY <2>2 DEF Orderly, Pursued
  <2>4. CASE g = h
    <3>1. handler[h].pc \in Revoking /\ handler[h].item = i
      BY <2>3, <2>4 DEF Busy
    <3>2. r.pc \in Revoking /\ r.item = i
      BY <2>1, <2>2, <3>1 DEF Busy
    <3>3. QED
      BY <1>1, <3>2 DEF Busy
  <2>5. CASE g # h
    BY <1>1, <2>3, <2>5 DEF Busy
  <2>6. QED
    BY <2>4, <2>5
<1>10. QED
  BY <1>4, <1>5, <1>6, <1>7, <1>8, <1>9 DEF Orderly

\* The event of a new item finds no handler of that item.
LEMMA CreateStep ==
  ASSUME TypeOK, Orderly, NEW h \in Handlers, NEW i \in Items, Create(h, i)
  PROVE  Orderly'
<1> DEFINE r == [Idle EXCEPT !.pc = "award policy", !.item = i]
<1>1. r.pc = "award policy" /\ r.item = i
  BY DEF Idle
<1>2. Become(h, r) /\ handler[h].pc = "idle"
  BY DEF Create
<1> HIDE DEF r
<1>3. handler'[h] = r /\ \A g \in Handlers \ {h} : handler'[g] = handler[g]
  BY <1>2, BecomeOne
<1>4. /\ item[i] = "none" /\ item'[i] = "live" /\ \A j \in Items \ {i} : item'[j] = item[j]
      /\ entries' = entries /\ lost' = lost /\ late' = late
  BY DEF Create, TypeOK
<1>5. \A g \in Handlers, j \in Items : Busy(g, Revoking, j)' <=> Busy(g, Revoking, j)
  BY <1>1, <1>2, <1>3 DEF Busy, Revoking
<1>6. \A g \in Handlers, j \in Items \ {i} : Busy(g, Awarding, j)' => Busy(g, Awarding, j)
  BY <1>1, <1>3 DEF Busy
<1>7. AwardSeen'
  BY <1>1, <1>3, <1>4 DEF Orderly, AwardSeen
<1>8. Known'
  <2>1. SUFFICES ASSUME NEW g \in Handlers, handler'[g].pc # "idle"
                 PROVE  item'[handler'[g].item] # "none"
    BY DEF Known
  <2>2. CASE g = h
    BY <1>1, <1>3, <1>4, <2>2
  <2>3. CASE g # h
    <3>1. handler'[g] = handler[g] /\ handler[g].item \in Items
      BY <1>3, <2>1, <2>3 DEF TypeOK
    <3>2. item[handler[g].item] # "none"
      BY <2>1, <3>1 DEF Orderly, Known
    <3>3. QED
      BY <1>4, <3>1, <3>2
  <2>4. QED
    BY <2>2, <2>3
<1>9. RemovedFirst'
  <2>1. SUFFICES ASSUME NEW j \in Items,
                        HasRevoke(entries[j])' \/ \E g \in Handlers : Busy(g, Revoking, j)'
                 PROVE  item'[j] = "removed"
    BY DEF RemovedFirst
  <2>2. HasRevoke(entries[j]) \/ \E g \in Handlers : Busy(g, Revoking, j)
    BY <1>4, <1>5, <2>1 DEF HasRevoke
  <2>3. item[j] = "removed"
    BY <2>2 DEF Orderly, RemovedFirst
  <2>4. QED
    BY <1>4, <2>3
<1>10. OneRevoker'
  <2>1. Once \subseteq Items
    BY ConstantsAssumption DEF ConstantsAssumption
  <2>2. QED
    BY <1>4, <1>5, <2>1 DEF Orderly, OneRevoker, HasRevoke
<1>11. NoAwardAfter'
  BY <1>4, <1>6 DEF Orderly, NoAwardAfter
<1>12. Pursued'
  BY <1>4, <1>5 DEF Orderly, Pursued, Revocable, HasAward, HasRevoke
<1>13. QED
  BY <1>7, <1>8, <1>9, <1>10, <1>11, <1>12 DEF Orderly

\* A removal that emits its event pursues the points of the item; one that does
\* not met a removed item.
LEMMA CommitRemoveStep ==
  ASSUME TypeOK, Orderly, NEW h \in Handlers, CommitRemove(h)
  PROVE  Orderly'
<1> DEFINE i == handler[h].item
           r == IF Emits(i) THEN [handler[h] EXCEPT !.pc = "revoke policy"] ELSE Idle
<1>1. i \in Items /\ handler[h].pc = "removing" /\ item[i] # "none"
  BY DEF TypeOK, CommitRemove, Orderly, Known
<1>2. /\ Emits(i) => r.pc = "revoke policy" /\ r.item = i
      /\ ~Emits(i) => r.pc = "idle"
  <2>1. handler[h] \in [pc: Steps, item: Items \union {None}, policy: Policies \union {Off}]
    BY DEF TypeOK
  <2>2. QED
    BY <2>1, IdleApart
<1>3. Become(h, r)
  BY DEF CommitRemove, Goto, Done
<1>4. ~Emits(i) => item[i] = "removed"
  BY <1>1 DEF Emits, TypeOK
<1>5. Emits(i) /\ i \in Once => item[i] = "live"
  BY DEF Emits
<1>6. item'[i] = "removed" /\ \A j \in Items \ {i} : item'[j] = item[j]
  BY <1>1 DEF CommitRemove, TypeOK
<1>7. /\ entries' = entries /\ lost' = lost /\ late \subseteq late'
      /\ i \notin late' => \A g \in Handlers : ~Busy(g, Awarding, i)
  BY DEF CommitRemove
<1> HIDE DEF i, r
<1>8. handler'[h] = r /\ \A g \in Handlers \ {h} : handler'[g] = handler[g]
  BY <1>3, BecomeOne
<1>9. \A g \in Handlers, j \in Items : Busy(g, Awarding, j)' => Busy(g, Awarding, j)
  BY <1>2, <1>8 DEF Busy, Awarding
<1>10. \A g \in Handlers, j \in Items :
         Busy(g, Revoking, j)' => Busy(g, Revoking, j) \/ (g = h /\ j = i /\ Emits(i))
  BY <1>2, <1>8 DEF Busy, Revoking
<1>11. \A g \in Handlers, j \in Items : Busy(g, Revoking, j) => Busy(g, Revoking, j)'
  BY <1>1, <1>8 DEF Busy, Revoking
<1>12. AwardSeen'
  BY <1>2, <1>7, <1>8 DEF Orderly, AwardSeen
<1>13. Known'
  <2>1. SUFFICES ASSUME NEW g \in Handlers, handler'[g].pc # "idle"
                 PROVE  item'[handler'[g].item] # "none"
    BY DEF Known
  <2>2. CASE g = h
    BY <1>2, <1>6, <1>8, <2>1, <2>2
  <2>3. CASE g # h
    <3>1. handler'[g] = handler[g] /\ handler[g].item \in Items
      BY <1>8, <2>1, <2>3 DEF TypeOK
    <3>2. item[handler[g].item] # "none"
      BY <2>1, <3>1 DEF Orderly, Known
    <3>3. QED
      BY <1>6, <3>1, <3>2
  <2>4. QED
    BY <2>2, <2>3
<1>14. RemovedFirst'
  <2>1. SUFFICES ASSUME NEW j \in Items,
                        HasRevoke(entries[j])' \/ \E g \in Handlers : Busy(g, Revoking, j)'
                 PROVE  item'[j] = "removed"
    BY DEF RemovedFirst
  <2>2. CASE j = i
    BY <1>6, <2>2
  <2>3. CASE j # i
    <3>1. HasRevoke(entries[j]) \/ \E g \in Handlers : Busy(g, Revoking, j)
      BY <1>7, <1>10, <2>1, <2>3 DEF HasRevoke
    <3>2. item[j] = "removed"
      BY <3>1 DEF Orderly, RemovedFirst
    <3>3. QED
      BY <1>6, <2>3, <3>2
  <2>4. QED
    BY <2>2, <2>3
<1>15. OneRevoker'
  <2>1. SUFFICES ASSUME NEW j \in Once
                 PROVE  /\ \A f, g \in Handlers :
                             Busy(f, Revoking, j)' /\ Busy(g, Revoking, j)' => f = g
                        /\ HasRevoke(entries[j])' => \A g \in Handlers : ~Busy(g, Revoking, j)'
    BY DEF OneRevoker
  <2>2. j \in Items
    BY ConstantsAssumption DEF ConstantsAssumption
  <2>3. CASE j = i /\ Emits(i)
    <3>1. item[j] = "live"
      BY <1>5, <2>3
    <3>2. ~HasRevoke(entries[j]) /\ \A g \in Handlers : ~Busy(g, Revoking, j)
      BY <2>2, <3>1 DEF Orderly, RemovedFirst
    <3>3. ~HasRevoke(entries[j])'
      BY <1>7, <3>2 DEF HasRevoke
    <3>4. QED
      BY <1>10, <2>2, <3>2, <3>3
  <2>4. CASE ~(j = i /\ Emits(i))
    <3>1. \A g \in Handlers : Busy(g, Revoking, j)' => Busy(g, Revoking, j)
      BY <1>10, <2>2, <2>4
    <3>2. HasRevoke(entries[j])' => HasRevoke(entries[j])
      BY <1>7 DEF HasRevoke
    <3>3. QED
      BY <3>1, <3>2 DEF Orderly, OneRevoker
  <2>5. QED
    BY <2>3, <2>4
<1>16. NoAwardAfter'
  <2>1. SUFFICES ASSUME NEW j \in Items \ late', item'[j] = "removed", NEW g \in Handlers
                 PROVE  ~Busy(g, Awarding, j)'
    BY DEF NoAwardAfter
  <2>2. CASE j = i
    BY <1>7, <1>9, <2>1, <2>2
  <2>3. CASE j # i
    BY <1>6, <1>7, <1>9, <2>1, <2>3 DEF Orderly, NoAwardAfter
  <2>4. QED
    BY <2>2, <2>3
<1>17. Pursued'
  <2>1. SUFFICES ASSUME NEW j \in Items \ (lost' \union late'),
                        item'[j] = "removed", Revocable(entries[j])'
                 PROVE  \E g \in Handlers : Busy(g, Revoking, j)'
    BY DEF Pursued
  <2>2. Revocable(entries[j]) /\ j \notin lost /\ j \notin late
    BY <1>7, <2>1 DEF Revocable, HasAward, HasRevoke
  <2>3. CASE j = i /\ Emits(i)
    BY <1>2, <1>8, <2>3 DEF Busy, Revoking
  <2>4. CASE ~(j = i /\ Emits(i))
    <3>1. item[j] = "removed"
      BY <1>4, <1>6, <2>1, <2>4
    <3>2. \E g \in Handlers : Busy(g, Revoking, j)
      BY <2>1, <2>2, <3>1 DEF Orderly, Pursued
    <3>3. QED
      BY <1>11, <3>2
  <2>5. QED
    BY <2>3, <2>4
<1>18. QED
  BY <1>12, <1>13, <1>14, <1>15, <1>16, <1>17 DEF Orderly

\* The row of an award is not written for a removed item, unless it is late.
LEMMA AwardStep ==
  ASSUME TypeOK, Orderly, NEW h \in Handlers, Award(h)
  PROVE  Orderly'
<1>0. PICK i, n : i = handler[h].item /\ n = Shown(handler[h].policy)
  OBVIOUS
<1>1. i \in Items /\ handler[h].pc = "award" /\ handler[h].policy \in Policies
  BY <1>0 DEF TypeOK, Award
<1>2. n \in Int /\ n > 0
  BY <1>0, <1>1, PolicyShown
<1>3. Record(i, handler[h].policy, n) /\ Become(h, Idle) /\ item' = item /\ lost' = lost /\ late' = late
  BY <1>0 DEF Award, Done
<1>4. Busy(h, Awarding, i)
  BY <1>0, <1>1 DEF Busy, Awarding
<1>5. handler'[h] = Idle /\ \A g \in Handlers \ {h} : handler'[g] = handler[g]
  BY <1>3, BecomeOne
<1>6. /\ \A j \in Items \ {i} : entries'[j] = entries[j]
      /\ HasAward(entries[i])'
      /\ HasRevoke(entries[i])' <=> HasRevoke(entries[i])
  BY <1>1, <1>2, <1>3, RecordRows
<1>7. \A g \in Handlers, j \in Items : Busy(g, Revoking, j)' <=> Busy(g, Revoking, j)
  BY <1>4, <1>5, IdleApart DEF Busy, Awarding, Revoking
<1>8. \A g \in Handlers, j \in Items : Busy(g, Awarding, j)' => Busy(g, Awarding, j)
  BY <1>5, IdleApart DEF Busy
<1>9. \A j \in Items : HasRevoke(entries[j])' <=> HasRevoke(entries[j])
  BY <1>6 DEF HasRevoke
<1>10. AwardSeen'
  <2>1. SUFFICES ASSUME NEW g \in Handlers, handler'[g].pc = "revoke"
                 PROVE  HasAward(entries'[handler'[g].item])
    BY DEF AwardSeen
  <2>2. g # h /\ handler'[g] = handler[g]
    BY <1>5, <2>1, IdleApart
  <2>3. handler[g].item \in Items /\ HasAward(entries[handler[g].item])
    BY <2>1, <2>2 DEF TypeOK, Orderly, AwardSeen
  <2>4. QED
    BY <1>6, <2>2, <2>3
<1>11. Known'
  BY <1>3, <1>5, IdleApart DEF Orderly, Known
<1>12. RemovedFirst'
  <2>1. SUFFICES ASSUME NEW j \in Items,
                        HasRevoke(entries[j])' \/ \E g \in Handlers : Busy(g, Revoking, j)'
                 PROVE  item'[j] = "removed"
    BY DEF RemovedFirst
  <2>2. HasRevoke(entries[j]) \/ \E g \in Handlers : Busy(g, Revoking, j)
    BY <1>7, <1>9, <2>1
  <2>3. QED
    BY <1>3, <2>2 DEF Orderly, RemovedFirst
<1>13. OneRevoker'
  <2>1. Once \subseteq Items
    BY ConstantsAssumption DEF ConstantsAssumption
  <2>2. QED
    BY <1>7, <1>9, <2>1 DEF Orderly, OneRevoker
<1>14. NoAwardAfter'
  BY <1>3, <1>8 DEF Orderly, NoAwardAfter
<1>15. Pursued'
  <2>1. SUFFICES ASSUME NEW j \in Items \ (lost' \union late'),
                        item'[j] = "removed", Revocable(entries[j])'
                 PROVE  \E g \in Handlers : Busy(g, Revoking, j)'
    BY DEF Pursued
  <2>2. j # i
    BY <1>3, <1>4, <2>1 DEF Orderly, NoAwardAfter
  <2>3. Revocable(entries[j])
    BY <1>6, <2>1, <2>2 DEF Revocable, HasAward, HasRevoke
  <2>4. QED
    BY <1>3, <1>7, <2>1, <2>3 DEF Orderly, Pursued
<1>16. QED
  BY <1>10, <1>11, <1>12, <1>13, <1>14, <1>15 DEF Orderly

\* The row of a revoke ends the pursuit.
LEMMA RevokeStep ==
  ASSUME TypeOK, Orderly, NEW h \in Handlers, Revoke(h)
  PROVE  Orderly'
<1>0. PICK i, n : i = handler[h].item /\ n = TakenRow(handler[h].policy)
  OBVIOUS
<1>1. i \in Items /\ handler[h].pc = "revoke" /\ handler[h].policy \in Policies
  BY <1>0 DEF TypeOK, Revoke
<1>2. n \in Int /\ n < 0
  BY <1>0, <1>1, PolicyShown
<1>3. Record(i, handler[h].policy, n) /\ Become(h, Idle) /\ item' = item /\ lost' = lost /\ late' = late
  BY <1>0 DEF Revoke, Done
<1>4. Busy(h, Revoking, i)
  BY <1>0, <1>1 DEF Busy, Revoking
<1>5. handler'[h] = Idle /\ \A g \in Handlers \ {h} : handler'[g] = handler[g]
  BY <1>3, BecomeOne
<1>6. /\ \A j \in Items \ {i} : entries'[j] = entries[j]
      /\ HasAward(entries[i])' <=> HasAward(entries[i])
      /\ HasRevoke(entries[i])'
  BY <1>1, <1>2, <1>3, RecordRows
<1>7. /\ \A g \in Handlers, j \in Items : Busy(g, Revoking, j)' => Busy(g, Revoking, j) /\ g # h
      /\ \A g \in Handlers, j \in Items \ {i} : Busy(g, Revoking, j) => Busy(g, Revoking, j)'
  BY <1>4, <1>5, IdleApart DEF Busy
<1>8. \A g \in Handlers, j \in Items : Busy(g, Awarding, j)' => Busy(g, Awarding, j)
  BY <1>5, IdleApart DEF Busy
<1>9. AwardSeen'
  <2>1. SUFFICES ASSUME NEW g \in Handlers, handler'[g].pc = "revoke"
                 PROVE  HasAward(entries'[handler'[g].item])
    BY DEF AwardSeen
  <2>2. g # h /\ handler'[g] = handler[g]
    BY <1>5, <2>1, IdleApart
  <2>3. handler[g].item \in Items /\ HasAward(entries[handler[g].item])
    BY <2>1, <2>2 DEF TypeOK, Orderly, AwardSeen
  <2>4. QED
    BY <1>6, <2>2, <2>3
<1>10. Known'
  BY <1>3, <1>5, IdleApart DEF Orderly, Known
<1>11. RemovedFirst'
  <2>1. SUFFICES ASSUME NEW j \in Items,
                        HasRevoke(entries[j])' \/ \E g \in Handlers : Busy(g, Revoking, j)'
                 PROVE  item'[j] = "removed"
    BY DEF RemovedFirst
  <2>2. HasRevoke(entries[j]) \/ \E g \in Handlers : Busy(g, Revoking, j)
    <3>1. CASE j = i
      BY <1>4, <3>1
    <3>2. CASE j # i
      BY <1>6, <1>7, <2>1, <3>2 DEF HasRevoke
    <3>3. QED
      BY <3>1, <3>2
  <2>3. QED
    BY <1>3, <2>2 DEF Orderly, RemovedFirst
<1>12. OneRevoker'
  <2>1. SUFFICES ASSUME NEW j \in Once
                 PROVE  /\ \A f, g \in Handlers :
                             Busy(f, Revoking, j)' /\ Busy(g, Revoking, j)' => f = g
                        /\ HasRevoke(entries[j])' => \A g \in Handlers : ~Busy(g, Revoking, j)'
    BY DEF OneRevoker
  <2>2. j \in Items
    BY ConstantsAssumption DEF ConstantsAssumption
  <2>3. CASE j = i
    <3>1. \A g \in Handlers : ~Busy(g, Revoking, j)'
      BY <1>4, <1>7, <2>1, <2>2, <2>3 DEF Orderly, OneRevoker
    <3>2. QED
      BY <3>1
  <2>4. CASE j # i
    <3>1. HasRevoke(entries[j])' => HasRevoke(entries[j])
      BY <1>6, <2>2, <2>4 DEF HasRevoke
    <3>2. QED
      BY <1>7, <2>2, <3>1 DEF Orderly, OneRevoker
  <2>5. QED
    BY <2>3, <2>4
<1>13. NoAwardAfter'
  BY <1>3, <1>8 DEF Orderly, NoAwardAfter
<1>14. Pursued'
  <2>1. SUFFICES ASSUME NEW j \in Items \ (lost' \union late'),
                        item'[j] = "removed", Revocable(entries[j])'
                 PROVE  \E g \in Handlers : Busy(g, Revoking, j)'
    BY DEF Pursued
  <2>2. j # i
    BY <1>6, <2>1 DEF Revocable, HasRevoke
  <2>3. Revocable(entries[j])
    BY <1>6, <2>1, <2>2 DEF Revocable, HasAward, HasRevoke
  <2>4. \E g \in Handlers : Busy(g, Revoking, j)
    BY <1>3, <2>1, <2>3 DEF Orderly, Pursued
  <2>5. QED
    BY <1>7, <2>1, <2>2, <2>4
<1>15. QED
  BY <1>9, <1>10, <1>11, <1>12, <1>13, <1>14 DEF Orderly

\* Every step keeps the order of awards and revokes.
LEMMA OrderlyNext == TypeOK /\ Orderly /\ [Next]_vars => Orderly'
<1> SUFFICES ASSUME TypeOK, Orderly, [Next]_vars
             PROVE  Orderly'
  OBVIOUS
<1> USE DEF Awarding, Revoking
<1>1. ASSUME NEW h \in Handlers, NEW i \in Items, BeginRemove(h, i)
      PROVE  Orderly'
  <2> DEFINE r == [Idle EXCEPT !.pc = "removing", !.item = i]
  <2>1. r.pc = "removing" /\ r.item = i
    BY DEF Idle
  <2>2. /\ Become(h, r) /\ handler[h].pc = "idle" /\ item[i] = "live"
        /\ UNCHANGED <<item, entries, late, lost>>
    BY <1>1 DEF BeginRemove
  <2> HIDE DEF r
  <2>3. QED
    BY <2>1, <2>2, QuietStep
<1>2. ASSUME NEW h \in Handlers, AwardPolicy(h) \/ RevokePolicy(h)
      PROVE  Orderly'
  <2> DEFINE to == IF handler[h].pc = "award policy" THEN "award" ELSE "check"
             r == IF policy = Off THEN Idle
                  ELSE [handler[h] EXCEPT !.pc = to, !.policy = policy]
  <2>1. /\ handler[h].pc \in {"award policy", "revoke policy"}
        /\ handler[h].item \in Items
    BY <1>2 DEF TypeOK, AwardPolicy, RevokePolicy
  <2>2. /\ Become(h, r)
        /\ UNCHANGED <<item, entries, late>>
        /\ lost \subseteq lost'
        /\ handler[h].pc = "revoke policy" /\ policy = Off => handler[h].item \in lost'
    BY <1>2 DEF AwardPolicy, RevokePolicy, Done
  <2>3. IF policy = Off THEN r.pc = "idle" ELSE r.pc = to /\ r.item = handler[h].item
    <3>1. handler[h] \in [pc: Steps, item: Items \union {None}, policy: Policies \union {Off}]
      BY DEF TypeOK
    <3>2. QED
      BY <3>1, IdleApart
  <2>4. item[handler[h].item] # "none"
    BY <2>1 DEF Orderly, Known
  <2> HIDE DEF r
  <2>5. QED
    BY <2>1, <2>2, <2>3, <2>4, QuietStep DEF Busy
<1>3. ASSUME NEW h \in Handlers, CheckHistory(h)
      PROVE  Orderly'
  <2> DEFINE r == IF Revocable(entries[handler[h].item])
                  THEN [handler[h] EXCEPT !.pc = "revoke"] ELSE Idle
  <2>1. handler[h].pc = "check" /\ item[handler[h].item] # "none"
    BY <1>3 DEF CheckHistory, Orderly, Known
  <2>2. Become(h, r) /\ UNCHANGED <<item, entries, late, lost>>
    BY <1>3 DEF CheckHistory, Goto, Done
  <2>3. IF Revocable(entries[handler[h].item])
          THEN r.pc = "revoke" /\ r.item = handler[h].item
          ELSE r.pc = "idle"
    <3>1. handler[h] \in [pc: Steps, item: Items \union {None}, policy: Policies \union {Off}]
      BY DEF TypeOK
    <3>2. QED
      BY <3>1, IdleApart
  <2>4. Revocable(entries[handler[h].item]) => HasAward(entries[handler[h].item])
    BY DEF Revocable
  <2> HIDE DEF r
  <2>5. QED
    BY <2>1, <2>2, <2>3, <2>4, QuietStep DEF Busy
<1>4. ASSUME NEW h \in Handlers, Fail(h)
      PROVE  Orderly'
  <2>1. /\ Become(h, Idle) /\ UNCHANGED <<item, entries, late>> /\ lost \subseteq lost'
        /\ handler[h].pc \in Revoking => handler[h].item \in lost'
    BY <1>4 DEF Fail, Done
  <2>2. QED
    BY <2>1, IdleApart, QuietStep
<1>5. CASE UNCHANGED <<item, entries, handler, lost, late>>
  <2>1. AwardSeen' /\ Known'
    BY <1>5 DEF Orderly, AwardSeen, Known, HasAward
  <2>2. RemovedFirst'
    BY <1>5 DEF Orderly, RemovedFirst, Busy, HasRevoke
  <2>3. OneRevoker'
    BY <1>5 DEF Orderly, OneRevoker, Busy, HasRevoke
  <2>4. NoAwardAfter'
    BY <1>5 DEF Orderly, NoAwardAfter, Busy
  <2>5. Pursued'
    BY <1>5 DEF Orderly, Pursued, Busy, Revocable, HasAward, HasRevoke
  <2>6. QED
    BY <2>1, <2>2, <2>3, <2>4, <2>5 DEF Orderly
<1>6. QED
  BY <1>1, <1>2, <1>3, <1>4, <1>5, CreateStep, CommitRemoveStep, AwardStep, RevokeStep
     DEF Next, Handle, Transfer, GrantByAdmin, AddPoints, DeductPoints, SetPolicy, vars

\* Initially there is no item, no handler and no history.
LEMMA InitOrderly == Init => Orderly
<1> SUFFICES ASSUME Init
             PROVE  Orderly
  OBVIOUS
<1>1. \A h \in Handlers : handler[h].pc = "idle"
  BY DEF Init, Idle
<1>2. \A i \in Items : ~HasAward(entries[i]) /\ ~HasRevoke(entries[i]) /\ item[i] = "none"
  BY DEF Init, HasAward, HasRevoke
<1>3. Once \subseteq Items
  BY ConstantsAssumption DEF ConstantsAssumption
<1>4. QED
  BY <1>1, <1>2, <1>3 DEF Orderly, AwardSeen, Known, RemovedFirst, OneRevoker,
     NoAwardAfter, Pursued, Busy, Awarding, Revoking

\* Where the handlers of an item stand fits what its history has: a removal that
\* emitted its event is pursued until the history has its row, one handler at most
\* pursues a comment, and no award follows a removal that came after it.
THEOREM OrderlyCorrect == Spec => []Orderly
BY InitOrderly, OrderlyNext, TypeCorrect, PTL DEF Spec

-----------------------------------------------------------------------------
(* What the order of handlers keeps.                                       *)

\* How the rows of an item grow: by an award, or by the revoke of an item that
\* has an award and, when it emits one event, no revoke yet.
LEMMA RowsGrow ==
  ASSUME TypeOK, Orderly, [Next]_vars, NEW i \in Items
  PROVE  \/ entries'[i] = entries[i]
         \/ \E n \in Int :
              /\ entries'[i] = Append(entries[i], n)
              /\ n < 0 => HasAward(entries[i]) /\ (i \in Once => ~HasRevoke(entries[i]))
<1>1. ASSUME NEW h \in Handlers, Award(h) \/ Revoke(h), i = handler[h].item
      PROVE  \E n \in Int :
               /\ entries'[i] = Append(entries[i], n)
               /\ n < 0 => HasAward(entries[i]) /\ (i \in Once => ~HasRevoke(entries[i]))
  <2> DEFINE p == handler[h].policy
  <2>1. p \in Policies
    BY <1>1 DEF TypeOK, Award, Revoke
  <2>2. Shown(p) \in Int /\ Shown(p) > 0 /\ TakenRow(p) \in Int
    BY <2>1, PolicyShown
  <2>3. CASE Award(h)
    <3>1. entries'[i] = Append(entries[i], Shown(p))
      BY <1>1, <2>3 DEF Award, Record, TypeOK
    <3>2. ~(Shown(p) < 0)
      BY <2>2
    <3>3. QED
      BY <2>2, <3>1, <3>2
  <2>4. CASE Revoke(h)
    <3>1. entries'[i] = Append(entries[i], TakenRow(p))
      BY <1>1, <2>4 DEF Revoke, Record, TypeOK
    <3>2. handler[h].pc = "revoke"
      BY <2>4 DEF Revoke
    <3>3. HasAward(entries[i])
      BY <1>1, <3>2 DEF Orderly, AwardSeen
    <3>4. i \in Once => ~HasRevoke(entries[i])
      BY <1>1, <3>2 DEF Orderly, OneRevoker, Busy, Revoking
    <3>5. QED
      BY <2>2, <3>1, <3>3, <3>4
  <2>5. QED
    BY <1>1, <2>3, <2>4
<1>2. ASSUME NEW h \in Handlers, Award(h) \/ Revoke(h), i # handler[h].item
      PROVE  entries'[i] = entries[i]
  BY <1>2 DEF Award, Revoke, Record, TypeOK
<1>3. (\A h \in Handlers : ~Award(h) /\ ~Revoke(h)) => entries' = entries
  BY DEF Next, Handle, Create, BeginRemove, CommitRemove, AwardPolicy, RevokePolicy,
     CheckHistory, Fail, Transfer, GrantByAdmin, AddPoints, DeductPoints, SetPolicy, vars
<1>4. QED
  BY <1>1, <1>2, <1>3

\* Where the entries of an appended sequence come from.
LEMMA AppendIndex ==
  ASSUME NEW rows \in Seq(Int), NEW n \in Int
  PROVE  /\ DOMAIN rows = 1 .. Len(rows) /\ Len(rows) \in Nat
         /\ DOMAIN Append(rows, n) = 1 .. Len(rows) + 1
         /\ Append(rows, n)[Len(rows) + 1] = n
         /\ \A k \in 1 .. Len(rows) : Append(rows, n)[k] = rows[k]
OBVIOUS

\* Points are taken back only for what gave points before, in every order of the
\* handlers of an item's events.
THEOREM AwardedBeforeRevokedCorrect == Spec => []AwardedBeforeRevoked
<1>1. Init => AwardedBeforeRevoked
  BY DEF Init, AwardedBeforeRevoked
<1>2. TypeOK /\ Orderly /\ AwardedBeforeRevoked /\ [Next]_vars => AwardedBeforeRevoked'
  <2> SUFFICES ASSUME TypeOK, Orderly, AwardedBeforeRevoked, [Next]_vars,
                      NEW i \in Items, NEW k \in DOMAIN entries'[i], entries'[i][k] < 0
               PROVE  \E j \in 1 .. k - 1 : entries'[i][j] > 0
    BY DEF AwardedBeforeRevoked
  <2>1. CASE entries'[i] = entries[i]
    BY <2>1 DEF AwardedBeforeRevoked
  <2>2. ASSUME NEW n \in Int, entries'[i] = Append(entries[i], n),
               n < 0 => HasAward(entries[i])
        PROVE  \E j \in 1 .. k - 1 : entries'[i][j] > 0
    <3> DEFINE rows == entries[i]
    <3>1. rows \in Seq(Int)
      BY DEF TypeOK
    <3> HIDE DEF rows
    <3>2. /\ DOMAIN rows = 1 .. Len(rows) /\ Len(rows) \in Nat
          /\ entries'[i] = Append(rows, n) /\ k \in 1 .. Len(rows) + 1
          /\ Append(rows, n)[Len(rows) + 1] = n
          /\ \A m \in 1 .. Len(rows) : Append(rows, n)[m] = rows[m]
      BY <2>2, <3>1, AppendIndex DEF rows
    <3>3. CASE k = Len(rows) + 1
      <4>1. PICK j \in DOMAIN rows : rows[j] > 0
        BY <2>2, <3>2, <3>3 DEF HasAward, rows
      <4>2. j \in 1 .. k - 1 /\ entries'[i][j] > 0
        BY <3>2, <3>3, <4>1
      <4>3. QED
        BY <4>2
    <3>4. CASE k \in 1 .. Len(rows)
      <4>1. PICK j \in 1 .. k - 1 : rows[j] > 0
        BY <3>2, <3>4 DEF AwardedBeforeRevoked, rows
      <4>2. entries'[i][j] > 0
        BY <3>2, <3>4, <4>1
      <4>3. QED
        BY <4>2
    <3>5. QED
      BY <3>2, <3>3, <3>4
  <2>3. QED
    BY <2>1, <2>2, RowsGrow
<1>3. QED
  BY <1>1, <1>2, TypeCorrect, OrderlyCorrect, PTL DEF Spec

\* The points of a comment are taken once, for any number of requests that remove
\* it and any number of handlers.
THEOREM CommentsRevokedOnceCorrect == Spec => []CommentsRevokedOnce
<1>1. Init => CommentsRevokedOnce
  BY ConstantsAssumption DEF Init, CommentsRevokedOnce, ConstantsAssumption
<1>2. TypeOK /\ Orderly /\ CommentsRevokedOnce /\ [Next]_vars => CommentsRevokedOnce'
  <2> SUFFICES ASSUME TypeOK, Orderly, CommentsRevokedOnce, [Next]_vars, NEW i \in Once,
                      NEW j \in DOMAIN entries'[i], NEW k \in DOMAIN entries'[i],
                      entries'[i][j] < 0, entries'[i][k] < 0
               PROVE  j = k
    BY DEF CommentsRevokedOnce
  <2>0. i \in Items
    BY ConstantsAssumption DEF ConstantsAssumption
  <2>1. CASE entries'[i] = entries[i]
    BY <2>1 DEF CommentsRevokedOnce
  <2>2. ASSUME NEW n \in Int, entries'[i] = Append(entries[i], n),
               n < 0 => ~HasRevoke(entries[i])
        PROVE  j = k
    <3> DEFINE rows == entries[i]
    <3>1. rows \in Seq(Int)
      BY <2>0 DEF TypeOK
    <3> HIDE DEF rows
    <3>2. /\ DOMAIN rows = 1 .. Len(rows) /\ Len(rows) \in Nat
          /\ entries'[i] = Append(rows, n)
          /\ j \in 1 .. Len(rows) + 1 /\ k \in 1 .. Len(rows) + 1
          /\ Append(rows, n)[Len(rows) + 1] = n
          /\ \A m \in 1 .. Len(rows) : Append(rows, n)[m] = rows[m]
      BY <2>2, <3>1, AppendIndex DEF rows
    <3>3. CASE n < 0
      <4>1. \A m \in 1 .. Len(rows) : ~(rows[m] < 0)
        BY <2>2, <3>2, <3>3 DEF HasRevoke, rows
      <4>2. QED
        BY <3>2, <4>1
    <3>4. CASE ~(n < 0)
      <4>1. j \in 1 .. Len(rows) /\ k \in 1 .. Len(rows)
        BY <3>2, <3>4
      <4>2. rows[j] < 0 /\ rows[k] < 0
        BY <3>2, <4>1
      <4>3. QED
        BY <3>2, <4>1, <4>2 DEF CommentsRevokedOnce, rows
    <3>5. QED
      BY <3>3, <3>4
  <2>3. QED
    BY <2>0, <2>1, <2>2, RowsGrow
<1>3. QED
  BY <1>1, <1>2, TypeCorrect, OrderlyCorrect, PTL DEF Spec

\* When all is over a removed item holds no points, unless a handler failed or the
\* removal came before the handler of the award was done.
THEOREM TakenBackCorrect == Spec => []TakenBack
<1>1. Orderly => TakenBack
  BY DEF Orderly, Pursued, TakenBack, Settled, Revocable, Busy
<1>2. QED
  BY <1>1, OrderlyCorrect, PTL

=============================================================================
