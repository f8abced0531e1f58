--------------------------- MODULE ChatHistoryProofs --------------------------
(* Proofs about ChatHistory, for every number of requests and messages and   *)
(* every size of the list: what was deleted stays away, nothing is listed    *)
(* twice, and the newest are listed.                                         *)
EXTENDS ChatHistory, FiniteSetTheorems, SequenceTheorems, TLAPS

-------------------------------------------------------------------------------
(* Sequences and their ranges.                                               *)

\* A sequence over S is a function on the places up to its length.
LEMMA Places ==
    ASSUME NEW S, NEW s \in Seq(S)
    PROVE  /\ Len(s) \in Nat /\ DOMAIN s = 1..Len(s)
           /\ \A i \in 1..Len(s) : s[i] \in S
           /\ Range(s) = {s[i] : i \in 1..Len(s)} /\ Range(s) \subseteq S
BY LenProperties, ElementOfSeq, RangeEquality, RangeOfSeq

\* What is listed has a place.
LEMMA Placed ==
    ASSUME NEW s, NEW x
    PROVE  x \in Range(s) <=> \E i \in DOMAIN s : s[i] = x
BY DEF Range

\* The empty list.
LEMMA Nothing ==
    /\ \A S : <<>> \in Seq(S)
    /\ Len(<<>>) = 0 /\ Range(<<>>) = {} /\ IsInjective(<<>>) /\ DOMAIN <<>> = {}
<1>1. /\ \A S : <<>> \in Seq(S)
      /\ Len(<<>>) = 0
  BY EmptySeq
<1>2. DOMAIN <<>> = {}
  BY <1>1, Places
<1> QED
  BY <1>1, <1>2 DEF Range, IsInjective

\* Two lists one behind the other.
LEMMA Joined ==
    ASSUME NEW S, NEW s \in Seq(S), NEW t \in Seq(S)
    PROVE  /\ s \o t \in Seq(S) /\ Len(s \o t) = Len(s) + Len(t)
           /\ DOMAIN (s \o t) = 1..(Len(s) + Len(t))
           /\ \A i \in 1..Len(s) : (s \o t)[i] = s[i]
           /\ \A i \in 1..Len(t) : (s \o t)[Len(s) + i] = t[i]
           /\ Range(s \o t) = Range(s) \cup Range(t)
           /\ IsInjective(s) /\ IsInjective(t) /\ Range(s) \cap Range(t) = {} => IsInjective(s \o t)
<1>1. /\ s \o t \in Seq(S) /\ Len(s \o t) = Len(s) + Len(t)
      /\ \A i \in 1..Len(s) + Len(t) : (s \o t)[i] = IF i <= Len(s) THEN s[i] ELSE t[i - Len(s)]
  BY ConcatProperties
<1>2. /\ Len(s) \in Nat /\ DOMAIN s = 1..Len(s) /\ Len(t) \in Nat /\ DOMAIN t = 1..Len(t)
      /\ DOMAIN (s \o t) = 1..Len(s \o t)
  BY <1>1, Places
<1>3. \A i \in 1..Len(s) : (s \o t)[i] = s[i]
  BY <1>1, <1>2
<1>4. ASSUME NEW i \in 1..Len(t) PROVE (s \o t)[Len(s) + i] = t[i]
  <2>1. Len(s) + i \in 1..Len(s) + Len(t) /\ ~(Len(s) + i <= Len(s)) /\ Len(s) + i - Len(s) = i
    BY <1>2
  <2> QED
    BY <1>1, <2>1
<1>5. Range(s \o t) = Range(s) \cup Range(t)
  BY RangeConcatenation
<1>6. ASSUME IsInjective(s), IsInjective(t), Range(s) \cap Range(t) = {},
             NEW i \in DOMAIN (s \o t), NEW j \in DOMAIN (s \o t), (s \o t)[i] = (s \o t)[j]
      PROVE  i = j
  <2> DEFINE u == s \o t
  <2>0. /\ i \in 1..(Len(s) + Len(t)) /\ j \in 1..(Len(s) + Len(t)) /\ u[i] = u[j]
        /\ \A k \in 1..Len(s) + Len(t) : u[k] = IF k <= Len(s) THEN s[k] ELSE t[k - Len(s)]
    BY <1>1, <1>2, <1>6
  <2> HIDE DEF u
  <2>1. CASE i <= Len(s) /\ j <= Len(s)
    BY <1>2, <1>6, <2>0, <2>1 DEF IsInjective
  <2>2. CASE i > Len(s) /\ j > Len(s)
    <3>1. i - Len(s) \in DOMAIN t /\ j - Len(s) \in DOMAIN t /\ t[i - Len(s)] = t[j - Len(s)]
      BY <1>2, <2>0, <2>2
    <3>2. i - Len(s) = j - Len(s)
      BY <1>6, <3>1 DEF IsInjective
    <3> QED
      BY <1>2, <2>0, <3>2
  <2>3. CASE i <= Len(s) /\ j > Len(s)
    <3>1. i \in DOMAIN s /\ j - Len(s) \in DOMAIN t /\ s[i] = t[j - Len(s)]
      BY <1>2, <2>0, <2>3
    <3> QED
      BY <1>6, <3>1 DEF Range
  <2>4. CASE i > Len(s) /\ j <= Len(s)
    <3>1. j \in DOMAIN s /\ i - Len(s) \in DOMAIN t /\ s[j] = t[i - Len(s)]
      BY <1>2, <2>0, <2>4
    <3> QED
      BY <1>6, <3>1 DEF Range
  <2> QED
    BY <1>2, <2>0, <2>1, <2>2, <2>3, <2>4
<1>7. IsInjective(s) /\ IsInjective(t) /\ Range(s) \cap Range(t) = {} => IsInjective(s \o t)
  BY <1>6 DEF IsInjective
<1> QED
  BY <1>1, <1>2, <1>3, <1>4, <1>5, <1>7

\* Their places only.
LEMMA JoinedAt ==
    ASSUME NEW S, NEW s \in Seq(S), NEW t \in Seq(S)
    PROVE  /\ Len(s \o t) = Len(s) + Len(t) /\ DOMAIN (s \o t) = 1..(Len(s) + Len(t))
           /\ \A i \in 1..Len(s) : (s \o t)[i] = s[i]
           /\ \A i \in 1..Len(t) : (s \o t)[Len(s) + i] = t[i]
BY Joined

\* One entry.
LEMMA Single ==
    ASSUME NEW S, NEW m \in S
    PROVE  <<m>> \in Seq(S) /\ Len(<<m>>) = 1 /\ <<m>>[1] = m /\ Range(<<m>>) = {m} /\ IsInjective(<<m>>)
<1>1. <<m>> \in Seq(S) /\ Len(<<m>>) = 1 /\ <<m>>[1] = m
  OBVIOUS
<1>2. DOMAIN <<m>> = {1}
  BY <1>1, Places
<1> QED
  BY <1>1, <1>2 DEF Range, IsInjective

\* The beginning of a list.
LEMMA Beginning ==
    ASSUME NEW S, NEW s \in Seq(S), NEW n \in 0..Len(s)
    PROVE  LET t == SubSeq(s, 1, n) IN
           /\ t \in Seq(S) /\ Len(t) = n /\ \A i \in 1..n : t[i] = s[i]
           /\ Range(t) \subseteq Range(s) /\ (IsInjective(s) => IsInjective(t))
<1> DEFINE t == SubSeq(s, 1, n)
<1>1. Len(s) \in Nat /\ DOMAIN s = 1..Len(s) /\ \A i \in 1..n : s[i] \in S
  BY Places
<1>2. t \in Seq(S) /\ Len(t) = (IF 1 <= n THEN n - 1 + 1 ELSE 0) /\ \A i \in 1..n - 1 + 1 : t[i] = s[1 + i - 1]
  BY <1>1, SubSeqProperties
<1> HIDE DEF t
<1>3. Len(t) = n /\ \A i \in 1..n : t[i] = s[i]
  BY <1>1, <1>2
<1>4. DOMAIN t = 1..n
  BY <1>2, <1>3, Places
<1>5. Range(t) \subseteq Range(s) /\ (IsInjective(s) => IsInjective(t))
  BY <1>1, <1>3, <1>4 DEF Range, IsInjective
<1> QED
  BY <1>2, <1>3, <1>5 DEF t

\* What ltrim leaves.
LEMMA TrimmedIs ==
    ASSUME NEW S, NEW s \in Seq(S)
    PROVE  /\ Trimmed(s) \in Seq(S) /\ Len(Trimmed(s)) <= Len(s)
           /\ \A i \in 1..Len(Trimmed(s)) : Trimmed(s)[i] = s[i]
           /\ \A i \in 1..Len(s) : i > Len(Trimmed(s)) => i > CacheSize
           /\ Range(Trimmed(s)) \subseteq Range(s) /\ (IsInjective(s) => IsInjective(Trimmed(s)))
<1>1. Len(s) \in Nat /\ CacheSize \in Nat
  BY Places, ChatHistoryAssumption
<1>2. CASE Len(s) > CacheSize
  <2>1. CacheSize \in 0..Len(s) /\ Trimmed(s) = SubSeq(s, 1, CacheSize)
    BY <1>1, <1>2 DEF Trimmed
  <2> QED
    BY <1>1, <2>1, Beginning
<1>3. CASE ~(Len(s) > CacheSize)
  BY <1>1, <1>3 DEF Trimmed
<1> QED
  BY <1>2, <1>3

\* The last entry, and those before it.
LEMMA LastIs ==
    ASSUME NEW S, NEW s \in Seq(S), s # <<>>
    PROVE  /\ Len(s) \in Nat \ {0} /\ Last(s) = s[Len(s)] /\ Last(s) \in Range(s)
           /\ Front(s) \in Seq(S) /\ Len(Front(s)) = Len(s) - 1
           /\ \A i \in 1..Len(s) - 1 : Front(s)[i] = s[i]
           /\ Range(s) = Range(Front(s)) \cup {Last(s)}
           /\ IsInjective(s) => IsInjective(Front(s)) /\ Last(s) \notin Range(Front(s))
           /\ Len(s) # 1 => Front(s) # <<>>
           /\ Len(s) = 1 => Front(s) = <<>>
<1>1. Len(s) \in Nat \ {0} /\ DOMAIN s = 1..Len(s)
  BY Places, EmptySeq
<1> DEFINE n == Len(s) - 1
<1>2. n \in 0..Len(s)
  BY <1>1
<1>3. /\ Front(s) \in Seq(S) /\ Len(Front(s)) = n /\ \A i \in 1..n : Front(s)[i] = s[i]
      /\ Range(Front(s)) \subseteq Range(s) /\ (IsInjective(s) => IsInjective(Front(s)))
  BY <1>2, Beginning DEF Front
<1>4. DOMAIN Front(s) = 1..n
  BY <1>3, Places
<1>5. Last(s) = s[Len(s)] /\ Last(s) \in Range(s)
  BY <1>1 DEF Last, Range
<1>6. Range(s) = Range(Front(s)) \cup {Last(s)}
  BY <1>1, <1>3, <1>4, <1>5 DEF Range
<1>7. ASSUME IsInjective(s) PROVE Last(s) \notin Range(Front(s))
  BY <1>1, <1>3, <1>4, <1>5, <1>7 DEF Range, IsInjective
<1>8. /\ Len(s) # 1 => Front(s) # <<>>
      /\ Len(s) = 1 => Front(s) = <<>>
  BY <1>1, <1>3, EmptySeq
<1> QED
  BY <1>1, <1>3, <1>5, <1>6, <1>7, <1>8

\* The other way round.
LEMMA Reversed ==
    ASSUME NEW S, NEW s \in Seq(S)
    PROVE  /\ Reverse(s) \in Seq(S) /\ Len(Reverse(s)) = Len(s)
           /\ \A i \in 1..Len(s) : Reverse(s)[Len(s) - i + 1] = s[i]
           /\ Range(Reverse(s)) = Range(s) /\ (IsInjective(s) => IsInjective(Reverse(s)))
<1> DEFINE n == Len(s)
           t == Reverse(s)
<1>1. n \in Nat /\ DOMAIN s = 1..n /\ \A i \in 1..n : s[i] \in S
  BY Places
<1>2. t = [i \in 1..n |-> s[(n - i) + 1]]
  BY DEF Reverse
<1>3. t \in Seq(S) /\ Len(t) = n
  <2>1. t \in [1..n -> S]
    BY <1>1, <1>2
  <2>2. t \in Seq(S)
    BY <1>1, <2>1, SeqDef
  <2>3. DOMAIN t = 1..n /\ DOMAIN t = 1..Len(t) /\ Len(t) \in Nat
    BY <1>2, <2>2, Places
  <2> QED
    BY <1>1, <2>2, <2>3
<1> HIDE DEF n, t
<1>4. \A i \in 1..n : (n - i) + 1 \in 1..n /\ t[(n - i) + 1] = s[i] /\ t[i] = s[(n - i) + 1]
  BY <1>1, <1>2
<1>5. Range(t) = Range(s)
  BY <1>1, <1>2, <1>4 DEF Range
<1>6. ASSUME IsInjective(s), NEW i \in 1..n, NEW j \in 1..n, t[i] = t[j] PROVE i = j
  <2>1. (n - i) + 1 \in DOMAIN s /\ (n - j) + 1 \in DOMAIN s /\ s[(n - i) + 1] = s[(n - j) + 1]
    BY <1>1, <1>4, <1>6
  <2>2. (n - i) + 1 = (n - j) + 1
    BY <1>6, <2>1 DEF IsInjective
  <2> QED
    BY <1>1, <2>2
<1>7. IsInjective(s) => IsInjective(t)
  BY <1>2, <1>6 DEF IsInjective
<1> QED
  BY <1>3, <1>4, <1>5, <1>7 DEF n, t

\* The numbers of a finite set, least first: each once, and no others.
LEMMA AscendingIs ==
    ASSUME NEW S \in SUBSET Nat, IsFiniteSet(S)
    PROVE  /\ Ascending(S) \in Seq(S) /\ Len(Ascending(S)) = Cardinality(S)
           /\ Range(Ascending(S)) = S /\ IsInjective(Ascending(S))
<1> DEFINE n == Cardinality(S)
           upTo(m) == {k \in S : k <= m}
           rank == [m \in S |-> Cardinality(upTo(m))]
<1>1. n \in Nat
  BY FS_CardinalityType
<1>2. \A m \in S : IsFiniteSet(upTo(m)) /\ Cardinality(upTo(m)) \in Nat /\ Cardinality(upTo(m)) <= n
  BY FS_Subset, FS_CardinalityType
<1>3. \A m \in S : Cardinality(upTo(m)) # 0
  <2>1. ASSUME NEW m \in S PROVE m \in upTo(m)
    OBVIOUS
  <2> QED
    BY <1>2, <2>1, FS_EmptySet
<1>4. rank \in [S -> 1..n]
  <2> HIDE DEF n, upTo
  <2> QED
    BY <1>1, <1>2, <1>3
<1>5. ASSUME NEW a \in S, NEW b \in S, a < b PROVE rank[a] # rank[b]
  <2>0. a \in Nat /\ b \in Nat /\ b <= b /\ ~(b <= a) /\ \A k \in S : k <= a => k <= b
    BY <1>5
  <2>1. upTo(a) \subseteq upTo(b) /\ b \in upTo(b) /\ b \notin upTo(a)
    BY <2>0
  <2>2. Cardinality(upTo(a)) # Cardinality(upTo(b))
    <3> HIDE DEF upTo
    <3> QED
      BY <1>2, <2>1, FS_Subset
  <2> QED
    BY <2>2
<1>6. IsInjective(rank)
  <2>1. ASSUME NEW a \in S, NEW b \in S, rank[a] = rank[b] PROVE a = b
    <3> HIDE DEF rank
    <3> QED
      BY <1>5, <2>1
  <2> QED
    BY <2>1, <1>4 DEF IsInjective
<1>7. rank \in Injection(S, 1..n)
  BY <1>4, <1>6 DEF Injection
<1>8. rank \in Surjection(S, 1..n)
  <2>1. IsFiniteSet(1..n) /\ Cardinality(1..n) = n
    BY <1>1, FS_Interval
  <2> QED
    BY <1>7, <2>1, FS_Injection
<1> DEFINE at(i) == CHOOSE m \in S : Cardinality({k \in S : k <= m}) = i
<1>9. ASSUME NEW i \in 1..n PROVE at(i) \in S /\ rank[at(i)] = i
  <2>1. \E m \in S : rank[m] = i
    BY <1>8 DEF Surjection
  <2>2. \E m \in S : Cardinality({k \in S : k <= m}) = i
    BY <2>1
  <2> QED
    BY <2>2
<1>10. Ascending(S) = [i \in 1..n |-> at(i)]
  BY DEF Ascending
<1> HIDE DEF at, rank, n
<1>11. Ascending(S) \in [1..n -> S]
  BY <1>9, <1>10
<1>12. Ascending(S) \in Seq(S)
  BY <1>1, <1>11, SeqDef
<1>13. DOMAIN Ascending(S) = 1..n /\ Len(Ascending(S)) = n
  BY <1>1, <1>11, <1>12, Places
<1>14. ASSUME NEW m \in S PROVE \E i \in 1..n : Ascending(S)[i] = m
  <2>1. rank[m] \in 1..n
    BY <1>4
  <2>2. at(rank[m]) \in S /\ rank[at(rank[m])] = rank[m]
    BY <1>9, <2>1
  <2>3. at(rank[m]) = m
    BY <1>4, <1>6, <2>2 DEF IsInjective
  <2> QED
    BY <1>10, <2>1, <2>3
<1>15. Range(Ascending(S)) = S
  BY <1>11, <1>13, <1>14 DEF Range
<1>16. IsInjective(Ascending(S))
  BY <1>9, <1>10, <1>13 DEF IsInjective
<1> QED
  BY <1>12, <1>13, <1>15, <1>16 DEF n

\* A list without some entries has the others, each as often.
LEMMA WithoutIs ==
    ASSUME NEW S, NEW s \in Seq(S), NEW T
    PROVE  /\ Without(s, T) \in Seq(S)
           /\ Range(Without(s, T)) = Range(s) \ T
           /\ IsInjective(s) => IsInjective(Without(s, T))
<1> DEFINE places == {i \in DOMAIN s : s[i] \notin T}
           kept == Ascending(places)
<1>1. Len(s) \in Nat /\ DOMAIN s = 1..Len(s) /\ \A i \in 1..Len(s) : s[i] \in S
  BY Places
<1>2. places \in SUBSET Nat /\ IsFiniteSet(places)
  <2>1. IsFiniteSet(1..Len(s)) /\ places \in SUBSET (1..Len(s))
    BY <1>1, FS_Interval
  <2> QED
    BY <1>1, <2>1, FS_Subset
<1>3. Without(s, T) = [i \in DOMAIN kept |-> s[kept[i]]]
  BY DEF Without
<1>4. kept \in Seq(places) /\ Range(kept) = places /\ IsInjective(kept)
  <2> HIDE DEF places
  <2> QED
    BY <1>2, AscendingIs
<1>5. Len(kept) \in Nat /\ DOMAIN kept = 1..Len(kept) /\ \A i \in 1..Len(kept) : kept[i] \in places
  <2> HIDE DEF places, kept
  <2> QED
    BY <1>4, Places
<1>6. \A i \in places : i \in DOMAIN s /\ s[i] \in S /\ s[i] \notin T
  BY <1>1
<1>7. \A i \in DOMAIN s : s[i] \notin T => i \in places
  OBVIOUS
<1> HIDE DEF kept, places
<1>8. Without(s, T) \in [1..Len(kept) -> S]
  BY <1>3, <1>5, <1>6
<1>9. Without(s, T) \in Seq(S)
  BY <1>5, <1>8, SeqDef
<1>10. Range(Without(s, T)) = Range(s) \ T
  <2>1. ASSUME NEW x \in Range(Without(s, T)) PROVE x \in Range(s) \ T
    BY <1>3, <1>5, <1>6, <2>1 DEF Range
  <2>2. ASSUME NEW x \in Range(s) \ T PROVE x \in Range(Without(s, T))
    <3>1. PICK i \in DOMAIN s : s[i] = x
      BY DEF Range
    <3>2. PICK j \in DOMAIN kept : kept[j] = i
      BY <1>4, <1>7, <3>1 DEF Range
    <3> QED
      BY <1>3, <3>1, <3>2 DEF Range
  <2> QED
    BY <2>1, <2>2
<1>11. ASSUME IsInjective(s) PROVE IsInjective(Without(s, T))
  <2>1. ASSUME NEW i \in DOMAIN kept, NEW j \in DOMAIN kept, s[kept[i]] = s[kept[j]] PROVE i = j
    <3>1. kept[i] = kept[j]
      BY <1>5, <1>6, <1>11, <2>1 DEF IsInjective
    <3> QED
      BY <1>4, <3>1 DEF IsInjective
  <2> QED
    BY <1>3, <2>1 DEF IsInjective
<1> QED
  BY <1>9, <1>10, <1>11

\* What findRecent returns are rows of the table, some if there are any.
LEMMA NewestIs ==
    ASSUME table \subseteq Nat, IsFiniteSet(table)
    PROVE  /\ Newest \in Seq(table) /\ Range(Newest) \subseteq table /\ IsInjective(Newest)
           /\ table # {} => Newest # <<>>
<1> DEFINE up == Ascending(table)
           rows == Reverse(up)
<1>1. up \in Seq(table) /\ Len(up) = Cardinality(table) /\ IsInjective(up)
  BY AscendingIs
<1>2. rows \in Seq(table) /\ Len(rows) = Cardinality(table) /\ IsInjective(rows)
  <2> HIDE DEF up
  <2> QED
    BY <1>1, Reversed
<1>3. Newest = IF Len(rows) > Limit THEN SubSeq(rows, 1, Limit) ELSE rows
  BY DEF Newest
<1>4. Cardinality(table) \in Nat /\ (table # {} => Cardinality(table) # 0) /\ Limit \in Nat \ {0}
  BY FS_CardinalityType, FS_EmptySet, ChatHistoryAssumption
<1> HIDE DEF up, rows
<1>5. Newest \in Seq(table) /\ IsInjective(Newest) /\ (table # {} => Len(Newest) # 0)
  <2>1. CASE Len(rows) > Limit
    <3>1. Limit \in 0..Len(rows)
      BY <1>2, <1>4, <2>1
    <3>2. SubSeq(rows, 1, Limit) \in Seq(table) /\ Len(SubSeq(rows, 1, Limit)) = Limit
          /\ IsInjective(SubSeq(rows, 1, Limit))
      BY <1>2, <3>1, Beginning
    <3> QED
      BY <1>3, <1>4, <2>1, <3>2
  <2>2. CASE ~(Len(rows) > Limit)
    BY <1>2, <1>3, <1>4, <2>2
  <2> QED
    BY <2>1, <2>2
<1>6. Range(Newest) \subseteq table
  BY <1>5, Places
<1>7. Len(<<>>) = 0
  BY Nothing
<1> QED
  BY <1>5, <1>6, <1>7

-------------------------------------------------------------------------------
(* Types.                                                                    *)

ReqState == [pc : Phases, ids : SUBSET Messages, rows : Seq(Messages)]
Sends(r) == r.pc \in {"push", "pushed", "enqueue", "insert"}

\* What a request knows fits what it is doing: it sends one message, and has entries in hand
\* only before it has put them on the list.
Fits(n, r) ==
    /\ r.ids \subseteq 1..n /\ Range(r.rows) \subseteq 1..n
    /\ Sends(r) => \E m \in 1..n : r.ids = {m}
    /\ r.pc \notin {"drop", "fill"} => r.rows = <<>>
    /\ r.pc = "fill" => r.rows # <<>>
    /\ r.pc \in {"new", "find", "over"} => r.ids = {}

TypeInv ==
    /\ TypeOK
    /\ req \in [Requests -> ReqState]
    /\ \A q \in Requests : Fits(created, req[q])
    /\ Range(recent) \subseteq 1..created /\ Range(sent) \subseteq 1..created

\* One request goes on as r, the others stay where they are.
Moved(q, r) ==
    /\ req' \in [Requests -> ReqState]
    /\ req'[q] = r
    /\ \A p \in Requests : p # q => req'[p] = req[p]

\* Some facts to begin with.
LEMMA TypeFacts ==
    ASSUME TypeInv
    PROVE  /\ created \in Nat /\ created <= MaxMessages /\ MaxMessages \in Nat
           /\ 1..created \subseteq Messages
           /\ recent \in Seq(Messages) /\ sent \in Seq(Messages)
           /\ Range(recent) \subseteq 1..created /\ Range(sent) \subseteq 1..created
           /\ table \subseteq 1..created /\ jobs \subseteq 1..created /\ removed \subseteq 1..created
           /\ gone \subseteq 1..created /\ late \subseteq 1..created /\ missed \subseteq 1..created
           /\ held \subseteq 1..created /\ persist \in BOOLEAN /\ crossed \in BOOLEAN
           /\ \A q \in Requests : req[q] \in ReqState /\ Fits(created, req[q])
<1>1. created \in 0..MaxMessages /\ MaxMessages \in Nat
  BY ChatHistoryAssumption DEF TypeInv, TypeOK
<1>2. created \in Nat /\ created <= MaxMessages /\ 1..created \subseteq Messages
  BY <1>1 DEF Messages
<1> QED
  BY <1>1, <1>2 DEF TypeInv, TypeOK

\* What else the types need when the requests have theirs.
LEMMA ToType ==
    ASSUME TypeInv, Trace, req' \in [Requests -> ReqState], \A q \in Requests : Fits(created', req'[q]),
           created' \in Nat, created <= created', created' <= MaxMessages,
           recent' \in Seq(Messages), sent' \in Seq(Messages), persist' \in BOOLEAN,
           Range(recent') \subseteq 1..created', Range(sent') \subseteq 1..created',
           table' \subseteq 1..created', jobs' \subseteq 1..created', removed' \subseteq 1..created',
           gone' \subseteq 1..created', late' \subseteq 1..created', missed' \subseteq 1..created'
    PROVE  TypeInv'
<1>1. held' \subseteq 1..created'
  <2>1. held \subseteq 1..created'
    BY TypeFacts
  <2>2. \A p \in Requests : req'[p].ids \subseteq 1..created'
    BY DEF Fits
  <2> QED
    BY <2>1, <2>2 DEF Trace
<1>2. crossed' \in BOOLEAN
  <2>1. crossed \in BOOLEAN
    BY TypeFacts
  <2> QED
    BY <2>1 DEF Trace
<1>3. created' \in 0..MaxMessages
  BY TypeFacts
<1>4. \A q \in Requests : req'[q].pc \in Phases /\ req'[q].ids \subseteq Messages /\ req'[q].rows \in Seq(Messages)
  BY DEF ReqState
<1> QED
  BY <1>1, <1>2, <1>3, <1>4 DEF TypeInv, TypeOK

\* A step of one request.
LEMMA StepType ==
    ASSUME TypeInv, Trace, NEW q \in Requests, NEW r \in ReqState, Step(q, r), Fits(created', r),
           created' \in Nat, created <= created', created' <= MaxMessages,
           recent' \in Seq(Messages), sent' \in Seq(Messages), persist' \in BOOLEAN,
           Range(recent') \subseteq 1..created', Range(sent') \subseteq 1..created',
           table' \subseteq 1..created', jobs' \subseteq 1..created', removed' \subseteq 1..created',
           gone' \subseteq 1..created', late' \subseteq 1..created', missed' \subseteq 1..created'
    PROVE  TypeInv' /\ Moved(q, r)
<1>1. Moved(q, r)
  BY DEF TypeInv, Step, Moved
<1>2. ASSUME NEW p \in Requests PROVE Fits(created', req'[p])
  <2>1. CASE p = q
    BY <1>1, <2>1 DEF Moved
  <2>2. CASE p # q
    <3>1. req'[p] = req[p] /\ Fits(created, req[p]) /\ 1..created \subseteq 1..created'
      BY <1>1, <2>2, TypeFacts DEF Moved
    <3> QED
      BY <3>1 DEF Fits
  <2> QED
    BY <2>1, <2>2
<1>3. req' \in [Requests -> ReqState]
  BY <1>1 DEF Moved
<1> QED
  BY <1>1, <1>2, <1>3, ToType

\* A step in which the request goes on and nothing else changes but lists of known messages.
LEMMA GoType ==
    ASSUME TypeInv, Trace, NEW q \in Requests, NEW pc \in Phases, Go(q, pc), created' = created,
           pc \in {"pushed", "enqueue", "insert"} => Sends(req[q]),
           pc # "push", pc \in {"new", "find", "over"} => req[q].ids = {},
           pc \in {"drop", "fill"} \/ req[q].rows = <<>>,
           pc = "fill" => req[q].rows # <<>>,
           recent' \in Seq(Messages), sent' \in Seq(Messages), persist' \in BOOLEAN,
           Range(recent') \subseteq 1..created', Range(sent') \subseteq 1..created',
           table' \subseteq 1..created', jobs' \subseteq 1..created', removed' \subseteq 1..created',
           gone' \subseteq 1..created', late' \subseteq 1..created', missed' \subseteq 1..created'
    PROVE  TypeInv' /\ Moved(q, [req[q] EXCEPT !.pc = pc])
<1> DEFINE r == [req[q] EXCEPT !.pc = pc]
<1>1. req[q] \in ReqState /\ Fits(created, req[q]) /\ created \in Nat /\ created <= MaxMessages
  BY TypeFacts
<1>2. r \in ReqState /\ r.pc = pc /\ r.ids = req[q].ids /\ r.rows = req[q].rows
  BY <1>1 DEF ReqState
<1>3. Step(q, r)
  <2>1. req \in [Requests -> ReqState]
    BY DEF TypeInv
  <2> QED
    BY <2>1 DEF Go, Step
<1> HIDE DEF r
<1>4. /\ r.ids \subseteq 1..created' /\ Range(r.rows) \subseteq 1..created'
      /\ Sends(r) => \E m \in 1..created' : r.ids = {m}
  BY <1>1, <1>2 DEF Fits, Sends
<1>5. /\ r.pc \notin {"drop", "fill"} => r.rows = <<>>
      /\ r.pc = "fill" => r.rows # <<>>
      /\ r.pc \in {"new", "find", "over"} => r.ids = {}
  BY <1>2 DEF Rebuilds
<1>6. Fits(created', r)
  BY <1>4, <1>5 DEF Fits
<1>7. created' \in Nat /\ created <= created' /\ created' <= MaxMessages
  BY <1>1
<1>8. r \in ReqState
  BY <1>2
<1>9. TypeInv' /\ Moved(q, r)
  BY <1>3, <1>6, <1>7, <1>8, StepType
<1> QED
  BY <1>9 DEF r

\* The records of requests not begun and over.
LEMMA Records ==
    /\ new \in ReqState /\ new.pc = "new" /\ new.ids = {} /\ new.rows = <<>>
    /\ over \in ReqState /\ over.pc = "over" /\ over.ids = {} /\ over.rows = <<>>
    /\ \A n : Fits(n, new) /\ Fits(n, over)
<1>1. /\ new \in ReqState /\ new.pc = "new" /\ new.ids = {} /\ new.rows = <<>>
      /\ over \in ReqState /\ over.pc = "over" /\ over.ids = {} /\ over.rows = <<>>
  BY Nothing DEF new, over, ReqState, Phases
<1>2. \A n : Fits(n, new) /\ Fits(n, over)
  BY <1>1, Nothing DEF Fits, Sends, Rebuilds
<1> QED
  BY <1>1, <1>2

\* The step in which a request ends.
LEMMA DoneType ==
    ASSUME TypeInv, Trace, NEW q \in Requests, Done(q), created' = created,
           recent' \in Seq(Messages), sent' \in Seq(Messages), persist' \in BOOLEAN,
           Range(recent') \subseteq 1..created', Range(sent') \subseteq 1..created',
           table' \subseteq 1..created', jobs' \subseteq 1..created', removed' \subseteq 1..created',
           gone' \subseteq 1..created', late' \subseteq 1..created', missed' \subseteq 1..created'
    PROVE  TypeInv' /\ Moved(q, over)
<1>1. Step(q, over) /\ over \in ReqState /\ Fits(created', over)
  BY Records DEF Done
<1>2. created' \in Nat /\ created <= created' /\ created' <= MaxMessages
  BY TypeFacts
<1> QED
  BY <1>1, <1>2, StepType

\* The messages in hand of a request that sends: one.
LEMMA Sending ==
    ASSUME TypeInv, NEW q \in Requests, Sends(req[q])
    PROVE  Message(q) \in 1..created /\ req[q].ids = {Message(q)} /\ Message(q) \in Messages
<1>1. PICK m \in 1..created : req[q].ids = {m}
  BY TypeFacts DEF Fits
<1>2. Message(q) = m
  BY <1>1 DEF Message
<1> QED
  BY <1>1, <1>2, TypeFacts

LEMMA CreateType ==
    ASSUME TypeInv, Trace, NEW q \in Requests, Create(q)
    PROVE  TypeInv' /\ Moved(q, [new EXCEPT !.pc = "push", !.ids = {created + 1}])
<1> DEFINE r == [new EXCEPT !.pc = "push", !.ids = {created + 1}]
<1>1. /\ created < MaxMessages /\ created' = created + 1 /\ Step(q, r)
      /\ UNCHANGED <<recent, table, jobs, persist, sent, removed, gone, late, missed>>
  BY DEF Create
<1>2. created' \in Nat /\ created <= created' /\ created' <= MaxMessages /\ created + 1 \in 1..created'
  BY <1>1, TypeFacts
<1>3. r.pc = "push" /\ r.ids = {created + 1} /\ r.rows = <<>> /\ r \in ReqState
  <2>1. created + 1 \in Messages
    BY <1>1, <1>2 DEF Messages
  <2> QED
    BY <2>1, Records DEF ReqState, Phases
<1>4. 1..created \subseteq 1..created'
  BY <1>1, TypeFacts
<1> HIDE DEF r
<1>5. Fits(created', r)
  BY <1>2, <1>3, Nothing DEF Fits, Sends, Rebuilds
<1>6. TypeInv' /\ Moved(q, r)
  <2>1. /\ recent' \in Seq(Messages) /\ sent' \in Seq(Messages) /\ persist' \in BOOLEAN
        /\ Range(recent') \subseteq 1..created' /\ Range(sent') \subseteq 1..created'
        /\ table' \subseteq 1..created' /\ jobs' \subseteq 1..created' /\ removed' \subseteq 1..created'
        /\ gone' \subseteq 1..created' /\ late' \subseteq 1..created' /\ missed' \subseteq 1..created'
    BY <1>1, <1>4, TypeFacts
  <2> QED
    BY <1>1, <1>2, <1>3, <1>5, <2>1, StepType
<1> QED
  BY <1>6 DEF r

\* The lists after a message was pushed.
LEMMA PushLists ==
    ASSUME TypeInv, NEW q \in Requests, Push(q)
    PROVE  /\ Message(q) \in 1..created /\ req[q].ids = {Message(q)}
           /\ recent' \in Seq(Messages) /\ recent' = <<Message(q)>> \o recent
           /\ Range(recent') = {Message(q)} \cup Range(recent)
           /\ sent' \in Seq(Messages) /\ sent' = sent \o <<Message(q)>>
           /\ Range(sent') = Range(sent) \cup {Message(q)}
<1> DEFINE one == <<Message(q)>>
<1>1. Message(q) \in 1..created /\ Message(q) \in Messages /\ req[q].ids = {Message(q)}
  BY Sending DEF Push, At, Sends
<1>2. one \in Seq(Messages) /\ Range(one) = {Message(q)}
  BY <1>1, Single
<1>3. recent' = one \o recent /\ sent' = Append(sent, Message(q))
  BY DEF Push
<1>4. recent \in Seq(Messages) /\ sent \in Seq(Messages)
  BY TypeFacts
<1>5. sent' = sent \o one
  BY <1>1, <1>3, <1>4, AppendIsConcat
<1> HIDE DEF one
<1>6. /\ recent' \in Seq(Messages) /\ Range(recent') = {Message(q)} \cup Range(recent)
      /\ sent' \in Seq(Messages) /\ Range(sent') = Range(sent) \cup {Message(q)}
  BY <1>2, <1>3, <1>4, <1>5, Joined
<1> QED
  BY <1>1, <1>3, <1>5, <1>6 DEF one

LEMMA PushType ==
    ASSUME TypeInv, Trace, NEW q \in Requests, Push(q)
    PROVE  TypeInv' /\ Moved(q, [req[q] EXCEPT !.pc = "pushed"])
<1>1. /\ req[q].pc = "push" /\ missed' \in {missed, missed \cup {Message(q)}} /\ Go(q, "pushed")
      /\ UNCHANGED <<table, jobs, persist, created, removed, gone, late>>
  BY DEF Push, At
<1>2. Sends(req[q]) /\ req[q].rows = <<>> /\ "pushed" \in Phases
  BY <1>1, TypeFacts DEF Fits, Sends, Phases
<1>3. /\ Message(q) \in 1..created
      /\ recent' \in Seq(Messages) /\ Range(recent') = {Message(q)} \cup Range(recent)
      /\ sent' \in Seq(Messages) /\ Range(sent') = Range(sent) \cup {Message(q)}
  BY PushLists
<1>4. /\ persist' \in BOOLEAN /\ created' = created
      /\ Range(recent') \subseteq 1..created' /\ Range(sent') \subseteq 1..created'
      /\ table' \subseteq 1..created' /\ jobs' \subseteq 1..created' /\ removed' \subseteq 1..created'
      /\ gone' \subseteq 1..created' /\ late' \subseteq 1..created' /\ missed' \subseteq 1..created'
  BY <1>1, <1>3, TypeFacts
<1> QED
  BY <1>1, <1>2, <1>3, <1>4, GoType

LEMMA PushTrimType ==
    ASSUME TypeInv, Trace, NEW q \in Requests, PushTrim(q)
    PROVE  TypeInv' /\ Moved(q, [req[q] EXCEPT !.pc = "enqueue"])
<1>1. /\ req[q].pc = "pushed" /\ recent' = Trimmed(recent) /\ Go(q, "enqueue")
      /\ UNCHANGED <<table, jobs, persist, created, sent, removed, gone, late, missed>>
  BY DEF PushTrim, At
<1>2. Sends(req[q]) /\ req[q].rows = <<>> /\ "enqueue" \in Phases
  BY <1>1, TypeFacts DEF Fits, Sends, Rebuilds, Phases
<1>3. recent' \in Seq(Messages) /\ Range(recent') \subseteq Range(recent)
  BY <1>1, TypeFacts, TrimmedIs
<1>4. /\ persist' \in BOOLEAN /\ created' = created /\ sent' \in Seq(Messages)
      /\ Range(recent') \subseteq 1..created' /\ Range(sent') \subseteq 1..created'
      /\ table' \subseteq 1..created' /\ jobs' \subseteq 1..created' /\ removed' \subseteq 1..created'
      /\ gone' \subseteq 1..created' /\ late' \subseteq 1..created' /\ missed' \subseteq 1..created'
  BY <1>1, <1>3, TypeFacts
<1> QED
  BY <1>1, <1>2, <1>3, <1>4, GoType

LEMMA EnqueueType ==
    ASSUME TypeInv, Trace, NEW q \in Requests, Enqueue(q)
    PROVE  TypeInv' /\ (Moved(q, over) \/ Moved(q, [req[q] EXCEPT !.pc = "insert"]))
<1>1. /\ req[q].pc = "enqueue" /\ jobs' \in {jobs, jobs \cup {Message(q)}}
      /\ Done(q) \/ Go(q, "insert")
      /\ UNCHANGED <<recent, table, persist, created, sent, removed, gone, late, missed>>
  BY DEF Enqueue, At
<1>2. Sends(req[q]) /\ req[q].rows = <<>> /\ "insert" \in Phases
  BY <1>1, TypeFacts DEF Fits, Sends, Rebuilds, Phases
<1>3. Message(q) \in 1..created
  BY <1>2, Sending
<1>4. /\ persist' \in BOOLEAN /\ created' = created /\ sent' \in Seq(Messages) /\ recent' \in Seq(Messages)
      /\ Range(recent') \subseteq 1..created' /\ Range(sent') \subseteq 1..created'
      /\ table' \subseteq 1..created' /\ jobs' \subseteq 1..created' /\ removed' \subseteq 1..created'
      /\ gone' \subseteq 1..created' /\ late' \subseteq 1..created' /\ missed' \subseteq 1..created'
  BY <1>1, <1>3, TypeFacts
<1>5. CASE Done(q)
  BY <1>4, <1>5, DoneType
<1>6. CASE Go(q, "insert")
  BY <1>2, <1>4, <1>6, GoType
<1> QED
  BY <1>1, <1>5, <1>6

LEMMA DirectInsertType ==
    ASSUME TypeInv, Trace, NEW q \in Requests, DirectInsert(q)
    PROVE  TypeInv' /\ Moved(q, over)
<1>1. /\ req[q].pc = "insert" /\ Done(q) /\ table' \in {table, table \cup {Message(q)}}
      /\ late' \in {late, late \cup {Message(q)}}
      /\ UNCHANGED <<recent, jobs, persist, created, sent, removed, gone, missed>>
  BY DEF DirectInsert, At, Stored
<1>2. Message(q) \in 1..created
  BY <1>1, Sending DEF Sends
<1>3. /\ persist' \in BOOLEAN /\ created' = created /\ sent' \in Seq(Messages) /\ recent' \in Seq(Messages)
      /\ Range(recent') \subseteq 1..created' /\ Range(sent') \subseteq 1..created'
      /\ table' \subseteq 1..created' /\ jobs' \subseteq 1..created' /\ removed' \subseteq 1..created'
      /\ gone' \subseteq 1..created' /\ late' \subseteq 1..created' /\ missed' \subseteq 1..created'
  BY <1>1, <1>2, TypeFacts
<1> QED
  BY <1>1, <1>3, DoneType

\* Steps that no request takes.
LEMMA OutsideType ==
    ASSUME TypeInv, Trace, (\E m \in Messages : RunJob(m)) \/ SwitchPersistOff \/ LoseList
    PROVE  TypeInv' /\ req' = req
<1>1. /\ req' = req /\ created' = created /\ sent' = sent /\ recent' \in {recent, <<>>} /\ persist' \in {persist, FALSE}
      /\ jobs' \subseteq jobs /\ table' \subseteq table \cup jobs /\ late' \subseteq late \cup jobs
      /\ missed' \subseteq missed \cup Range(sent) /\ UNCHANGED <<removed, gone>>
  BY DEF RunJob, SwitchPersistOff, LoseList, Stored
<1>2. /\ recent' \in Seq(Messages) /\ Range(recent') \subseteq 1..created'
      /\ persist' \in BOOLEAN /\ sent' \in Seq(Messages) /\ Range(sent') \subseteq 1..created'
      /\ table' \subseteq 1..created' /\ jobs' \subseteq 1..created' /\ removed' \subseteq 1..created'
      /\ gone' \subseteq 1..created' /\ late' \subseteq 1..created' /\ missed' \subseteq 1..created'
      /\ created' \in Nat /\ created <= created' /\ created' <= MaxMessages
  <2>1. recent' \in Seq(Messages) /\ Range(recent') \subseteq 1..created'
    BY <1>1, TypeFacts, Nothing
  <2>2. jobs \subseteq 1..created /\ table \subseteq 1..created /\ late \subseteq 1..created
    BY TypeFacts
  <2>3. jobs' \subseteq 1..created /\ table' \subseteq 1..created /\ late' \subseteq 1..created
    BY <1>1, <2>2
  <2>4. missed' \subseteq 1..created
    BY <1>1, TypeFacts
  <2>5. /\ removed' \subseteq 1..created /\ gone' \subseteq 1..created /\ persist' \in BOOLEAN
        /\ sent' \in Seq(Messages) /\ Range(sent') \subseteq 1..created
    BY <1>1, TypeFacts
  <2>6. created' \in Nat /\ created <= created' /\ created' <= MaxMessages /\ created' = created
    BY <1>1, TypeFacts
  <2> QED
    BY <2>1, <2>3, <2>4, <2>5, <2>6
<1>3. req' \in [Requests -> ReqState] /\ \A q \in Requests : Fits(created', req'[q])
  BY <1>1 DEF TypeInv
<1> QED
  BY <1>1, <1>2, <1>3, ToType

LEMMA ReadHistoryType ==
    ASSUME TypeInv, Trace, NEW q \in Requests, ReadHistory(q)
    PROVE  TypeInv' /\ Moved(q, [req[q] EXCEPT !.pc = "find"])
<1>1. /\ req[q].pc = "new" /\ Go(q, "find")
      /\ UNCHANGED <<recent, table, jobs, persist, created, sent, removed, gone, late, missed>>
  BY DEF ReadHistory, At
<1>2. req[q].ids = {} /\ req[q].rows = <<>> /\ "find" \in Phases
  BY <1>1, TypeFacts DEF Fits, Rebuilds, Phases
<1>3. /\ persist' \in BOOLEAN /\ created' = created /\ sent' \in Seq(Messages) /\ recent' \in Seq(Messages)
      /\ Range(recent') \subseteq 1..created' /\ Range(sent') \subseteq 1..created'
      /\ table' \subseteq 1..created' /\ jobs' \subseteq 1..created' /\ removed' \subseteq 1..created'
      /\ gone' \subseteq 1..created' /\ late' \subseteq 1..created' /\ missed' \subseteq 1..created'
  BY <1>1, TypeFacts
<1> QED
  BY <1>1, <1>2, <1>3, GoType

\* The table holds finitely many messages, and what is read of it are messages.
LEMMA NewestType ==
    ASSUME TypeInv
    PROVE  /\ Newest \in Seq(Messages) /\ Range(Newest) \subseteq table /\ IsInjective(Newest)
           /\ table # {} => Newest # <<>>
<1>1. table \in SUBSET (1..created) /\ created \in Nat /\ 1..created \subseteq Messages /\ 1..created \subseteq Nat
  BY TypeFacts
<1>2. IsFiniteSet(table)
  <2>1. IsFiniteSet(1..created)
    BY <1>1, FS_Interval
  <2> QED
    BY <1>1, <2>1, FS_Subset
<1>3. /\ Newest \in Seq(table) /\ Range(Newest) \subseteq table /\ IsInjective(Newest)
      /\ table # {} => Newest # <<>>
  BY <1>1, <1>2, NewestIs
<1>4. Newest \in Seq(Messages)
  BY <1>1, <1>3, SeqMonotonic
<1> QED
  BY <1>3, <1>4

LEMMA FindRecentType ==
    ASSUME TypeInv, Trace, NEW q \in Requests, FindRecent(q)
    PROVE  /\ TypeInv'
           /\ \/ Moved(q, over)
              \/ Moved(q, [new EXCEPT !.pc = "drop", !.rows = Newest])
<1>1. UNCHANGED <<recent, table, jobs, persist, created, sent, removed, gone, late, missed>>
  BY DEF FindRecent
<1>2. /\ persist' \in BOOLEAN /\ created' = created /\ sent' \in Seq(Messages) /\ recent' \in Seq(Messages)
      /\ Range(recent') \subseteq 1..created' /\ Range(sent') \subseteq 1..created'
      /\ table' \subseteq 1..created' /\ jobs' \subseteq 1..created' /\ removed' \subseteq 1..created'
      /\ gone' \subseteq 1..created' /\ late' \subseteq 1..created' /\ missed' \subseteq 1..created'
  BY <1>1, TypeFacts
<1>3. CASE table = {}
  <2>1. Done(q)
    BY <1>3 DEF FindRecent
  <2> QED
    BY <1>2, <2>1, DoneType
<1>4. CASE table # {}
  <2> DEFINE r == [new EXCEPT !.pc = "drop", !.rows = Newest]
  <2>1. Step(q, r)
    BY <1>4 DEF FindRecent, BackfillBegins
  <2>2. r \in ReqState /\ r.pc = "drop" /\ r.ids = {} /\ r.rows = Newest
    BY NewestType, Records DEF ReqState, Phases
  <2>3. Range(Newest) \subseteq 1..created'
    BY <1>1, NewestType, TypeFacts
  <2> HIDE DEF r
  <2>4. Fits(created', r)
    BY <2>2, <2>3 DEF Fits, Sends, Rebuilds
  <2>5. created' \in Nat /\ created <= created' /\ created' <= MaxMessages
    BY <1>1, TypeFacts
  <2>6. TypeInv' /\ Moved(q, r)
    BY <1>2, <2>1, <2>2, <2>4, <2>5, StepType
  <2> QED
    BY <2>6 DEF r
<1> QED
  BY <1>3, <1>4

LEMMA DropType ==
    ASSUME TypeInv, Trace, NEW q \in Requests, Drop(q)
    PROVE  /\ TypeInv'
           /\ Moved(q, [req[q] EXCEPT !.pc = IF req[q].rows = <<>> THEN "row" ELSE "fill"])
           /\ req[q].rows \in Seq(Messages)
           /\ sent' \in Seq(Messages) /\ Range(sent') = Range(sent) \cup Range(req[q].rows)
<1> DEFINE rows == req[q].rows
           pc == IF rows = <<>> THEN "row" ELSE "fill"
<1>1. /\ req[q].pc = "drop" /\ recent' = <<>> /\ missed' = missed \cup (Range(sent) \ Range(rows))
      /\ sent' = Without(sent, Range(rows)) \o Reverse(rows) /\ Go(q, pc)
      /\ UNCHANGED <<table, jobs, persist, created, removed, gone, late>>
  BY DEF Drop, At
<1>2. rows \in Seq(Messages) /\ Range(rows) \subseteq 1..created
  BY TypeFacts DEF ReqState, Fits
<1>3. sent \in Seq(Messages)
  BY TypeFacts
<1>4. sent' \in Seq(Messages) /\ Range(sent') = Range(sent) \cup Range(rows)
  <2> DEFINE s == Without(sent, Range(rows))
             t == Reverse(rows)
  <2>1. s \in Seq(Messages) /\ Range(s) = Range(sent) \ Range(rows)
    <3> HIDE DEF rows
    <3> QED
      BY <1>3, WithoutIs
  <2>2. t \in Seq(Messages) /\ Range(t) = Range(rows)
    BY <1>2, Reversed
  <2>3. sent' = s \o t
    BY <1>1
  <2> HIDE DEF s, t
  <2>4. sent' \in Seq(Messages) /\ Range(sent') = Range(s) \cup Range(t)
    BY <2>1, <2>2, <2>3, Joined
  <2> QED
    BY <2>1, <2>2, <2>4
<1>5. recent' \in Seq(Messages) /\ Range(recent') = {}
  BY <1>1, Nothing
<1>6. Range(sent) \subseteq 1..created /\ missed' \subseteq 1..created
  BY <1>1, TypeFacts
<1>7. /\ persist' \in BOOLEAN /\ created' = created
      /\ Range(recent') \subseteq 1..created' /\ Range(sent') \subseteq 1..created'
      /\ table' \subseteq 1..created' /\ jobs' \subseteq 1..created' /\ removed' \subseteq 1..created'
      /\ gone' \subseteq 1..created' /\ late' \subseteq 1..created' /\ missed' \subseteq 1..created'
  BY <1>1, <1>2, <1>4, <1>5, <1>6, TypeFacts
<1>8. /\ pc \in Phases /\ pc \notin {"pushed", "enqueue", "insert", "push", "new", "find", "over"}
      /\ pc \in {"drop", "fill"} \/ req[q].rows = <<>>
      /\ pc = "fill" => req[q].rows # <<>>
  BY DEF Phases
<1> HIDE DEF pc
<1>9. TypeInv' /\ Moved(q, [req[q] EXCEPT !.pc = pc])
  BY <1>1, <1>4, <1>5, <1>7, <1>8, GoType
<1> QED
  BY <1>2, <1>4, <1>9 DEF pc

LEMMA FillType ==
    ASSUME TypeInv, Trace, NEW q \in Requests, Fill(q)
    PROVE  /\ TypeInv'
           /\ req[q].rows \in Seq(Messages) /\ req[q].rows # <<>>
           /\ \/ /\ req[q].ids = {}
                 /\ recent' = req[q].rows \o recent
                 /\ Moved(q, [req[q] EXCEPT !.rows = <<>>, !.pc = "trim"])
              \/ /\ req[q].ids # {}
                 /\ recent' = <<Last(req[q].rows)>> \o recent
                 /\ Moved(q, [req[q] EXCEPT !.rows = Front(req[q].rows),
                                            !.pc = IF Len(req[q].rows) = 1 THEN "trim" ELSE "fill"])
<1> DEFINE rows == req[q].rows
           r == [req[q] EXCEPT !.rows = IF req[q].ids = {} THEN <<>> ELSE Front(rows),
                               !.pc = IF req[q].ids = {} \/ Len(rows) = 1 THEN "trim" ELSE "fill"]
<1>1. /\ req[q].pc = "fill" /\ recent' = (IF req[q].ids = {} THEN rows ELSE <<Last(rows)>>) \o recent
      /\ Step(q, r)
      /\ UNCHANGED <<table, jobs, persist, created, sent, removed, gone, late, missed>>
  BY DEF Fill, At
<1>2. /\ rows \in Seq(Messages) /\ Range(rows) \subseteq 1..created /\ rows # <<>> /\ req[q].ids \subseteq 1..created
      /\ req[q] \in ReqState /\ recent \in Seq(Messages) /\ Range(recent) \subseteq 1..created
  BY <1>1, TypeFacts DEF ReqState, Fits
<1>3. /\ Front(rows) \in Seq(Messages) /\ Range(Front(rows)) \subseteq 1..created
      /\ Last(rows) \in 1..created /\ Last(rows) \in Messages
      /\ Len(rows) # 1 => Front(rows) # <<>>
      /\ Len(rows) = 1 => Front(rows) = <<>>
  <2> HIDE DEF rows
  <2> QED
    BY <1>2, LastIs, TypeFacts
<1>4. /\ r \in ReqState /\ r.ids = req[q].ids /\ r.pc \in {"trim", "fill"}
      /\ r.rows \in {<<>>, Front(rows)}
      /\ r.pc = "trim" => r.rows = <<>>
      /\ r.pc = "fill" => r.rows # <<>>
  BY <1>2, <1>3, Nothing DEF ReqState, Phases
<1>5. r = IF req[q].ids = {} THEN [req[q] EXCEPT !.rows = <<>>, !.pc = "trim"]
          ELSE [req[q] EXCEPT !.rows = Front(rows), !.pc = IF Len(rows) = 1 THEN "trim" ELSE "fill"]
  OBVIOUS
<1> HIDE DEF r
<1>6. Fits(created', r)
  BY <1>1, <1>2, <1>3, <1>4, Nothing DEF Fits, Sends, Rebuilds
<1>7. recent' \in Seq(Messages) /\ Range(recent') \subseteq 1..created
  <2> DEFINE f == IF req[q].ids = {} THEN rows ELSE <<Last(rows)>>
  <2>1. f \in Seq(Messages) /\ Range(f) \subseteq 1..created
    BY <1>2, <1>3, Single
  <2>2. recent' = f \o recent
    BY <1>1
  <2> HIDE DEF f
  <2> QED
    BY <1>2, <2>1, <2>2, Joined
<1>8. /\ persist' \in BOOLEAN /\ created' \in Nat /\ created <= created' /\ created' <= MaxMessages
      /\ sent' \in Seq(Messages)
      /\ Range(recent') \subseteq 1..created' /\ Range(sent') \subseteq 1..created'
      /\ table' \subseteq 1..created' /\ jobs' \subseteq 1..created' /\ removed' \subseteq 1..created'
      /\ gone' \subseteq 1..created' /\ late' \subseteq 1..created' /\ missed' \subseteq 1..created'
  <2>1. /\ created' = created /\ sent' = sent /\ persist' = persist /\ table' = table /\ jobs' = jobs
        /\ removed' = removed /\ gone' = gone /\ late' = late /\ missed' = missed
    BY <1>1
  <2>2. /\ persist \in BOOLEAN /\ created \in Nat /\ created <= created /\ created <= MaxMessages
        /\ sent \in Seq(Messages) /\ Range(sent) \subseteq 1..created
        /\ table \subseteq 1..created /\ jobs \subseteq 1..created /\ removed \subseteq 1..created
        /\ gone \subseteq 1..created /\ late \subseteq 1..created /\ missed \subseteq 1..created
    BY TypeFacts
  <2> QED
    BY <1>7, <2>1, <2>2
<1>9. TypeInv' /\ Moved(q, r)
  BY <1>1, <1>4, <1>6, <1>7, <1>8, StepType
<1> QED
  BY <1>1, <1>2, <1>5, <1>9

LEMMA TrimType ==
    ASSUME TypeInv, Trace, NEW q \in Requests, Trim(q)
    PROVE  TypeInv' /\ (Moved(q, over) \/ Moved(q, [req[q] EXCEPT !.pc = "row"]))
<1>1. /\ req[q].pc = "trim" /\ recent' = Trimmed(recent) /\ (Done(q) \/ Go(q, "row"))
      /\ UNCHANGED <<table, jobs, persist, created, sent, removed, gone, late, missed>>
  BY DEF Trim, At
<1>2. recent' \in Seq(Messages) /\ Range(recent') \subseteq Range(recent)
  BY <1>1, TypeFacts, TrimmedIs
<1>3. /\ persist' \in BOOLEAN /\ created' = created /\ sent' \in Seq(Messages)
      /\ Range(recent') \subseteq 1..created' /\ Range(sent') \subseteq 1..created'
      /\ table' \subseteq 1..created' /\ jobs' \subseteq 1..created' /\ removed' \subseteq 1..created'
      /\ gone' \subseteq 1..created' /\ late' \subseteq 1..created' /\ missed' \subseteq 1..created'
  BY <1>1, <1>2, TypeFacts
<1>4. CASE Done(q)
  BY <1>2, <1>3, <1>4, DoneType
<1>5. CASE Go(q, "row")
  <2>1. "row" \in Phases /\ req[q].rows = <<>>
    BY <1>1, TypeFacts DEF Phases, Fits
  <2> QED
    BY <1>2, <1>3, <1>5, <2>1, GoType
<1> QED
  BY <1>1, <1>4, <1>5

LEMMA BeginDeleteType ==
    ASSUME TypeInv, Trace, NEW q \in Requests, NEW m \in Messages, BeginDelete(q, m)
    PROVE  TypeInv' /\ Moved(q, [new EXCEPT !.pc = "keep", !.ids = {m}])
<1> DEFINE r == [new EXCEPT !.pc = "keep", !.ids = {m}]
<1>1. /\ m \in Range(recent) \cup table /\ removed' = removed \cup {m} /\ Step(q, r)
      /\ UNCHANGED <<recent, table, jobs, persist, created, sent, gone, late, missed>>
  BY DEF BeginDelete, Found
<1>2. m \in 1..created
  BY <1>1, TypeFacts
<1>3. r \in ReqState /\ r.pc = "keep" /\ r.ids = {m} /\ r.rows = <<>>
  BY Records DEF ReqState, Phases
<1> HIDE DEF r
<1>4. Fits(created', r)
  BY <1>1, <1>2, <1>3, Nothing DEF Fits, Sends
<1>5. /\ persist' \in BOOLEAN /\ created' \in Nat /\ created <= created' /\ created' <= MaxMessages
      /\ sent' \in Seq(Messages) /\ recent' \in Seq(Messages)
      /\ Range(recent') \subseteq 1..created' /\ Range(sent') \subseteq 1..created'
      /\ table' \subseteq 1..created' /\ jobs' \subseteq 1..created' /\ removed' \subseteq 1..created'
      /\ gone' \subseteq 1..created' /\ late' \subseteq 1..created' /\ missed' \subseteq 1..created'
  BY <1>1, <1>2, TypeFacts
<1>6. TypeInv' /\ Moved(q, r)
  BY <1>1, <1>3, <1>4, <1>5, StepType
<1> QED
  BY <1>6 DEF r

LEMMA KeepType ==
    ASSUME TypeInv, Trace, NEW q \in Requests, Keep(q)
    PROVE  /\ TypeInv' /\ Moved(q, [req[q] EXCEPT !.pc = "drop", !.rows = Kept(q)])
           /\ Kept(q) \in Seq(Messages) /\ Range(Kept(q)) = Range(recent) \ req[q].ids
           /\ IsInjective(recent) => IsInjective(Kept(q))
<1> DEFINE r == [req[q] EXCEPT !.pc = "drop", !.rows = Kept(q)]
<1>1. /\ req[q].pc = "keep" /\ Step(q, r)
      /\ UNCHANGED <<recent, table, jobs, persist, created, sent, removed, gone, late, missed>>
  BY DEF Keep, At
<1>2. /\ Kept(q) \in Seq(Messages) /\ Range(Kept(q)) = Range(recent) \ req[q].ids
      /\ IsInjective(recent) => IsInjective(Kept(q))
  BY TypeFacts, WithoutIs DEF Kept
<1>3. req[q] \in ReqState /\ Fits(created, req[q]) /\ Range(recent) \subseteq 1..created
  BY TypeFacts
<1>4. r \in ReqState /\ r.pc = "drop" /\ r.ids = req[q].ids /\ r.rows = Kept(q)
  BY <1>2, <1>3 DEF ReqState, Phases
<1> HIDE DEF r
<1>5. Fits(created', r)
  BY <1>1, <1>2, <1>3, <1>4 DEF Fits, Sends
<1>6. /\ persist' \in BOOLEAN /\ created' \in Nat /\ created <= created' /\ created' <= MaxMessages
      /\ sent' \in Seq(Messages) /\ recent' \in Seq(Messages)
      /\ Range(recent') \subseteq 1..created' /\ Range(sent') \subseteq 1..created'
      /\ table' \subseteq 1..created' /\ jobs' \subseteq 1..created' /\ removed' \subseteq 1..created'
      /\ gone' \subseteq 1..created' /\ late' \subseteq 1..created' /\ missed' \subseteq 1..created'
  BY <1>1, TypeFacts
<1>7. TypeInv' /\ Moved(q, r)
  BY <1>1, <1>4, <1>5, <1>6, StepType
<1> QED
  BY <1>2, <1>7 DEF r

LEMMA DeleteRowType ==
    ASSUME TypeInv, Trace, NEW q \in Requests, DeleteRow(q)
    PROVE  TypeInv' /\ Moved(q, over)
<1>1. /\ Done(q) /\ table' \subseteq table /\ gone' \subseteq gone \cup req[q].ids
      /\ UNCHANGED <<recent, jobs, persist, created, sent, removed, late, missed>>
  BY DEF DeleteRow
<1>2. req[q].ids \subseteq 1..created
  BY TypeFacts DEF Fits
<1>3. /\ persist' \in BOOLEAN /\ created' = created /\ sent' \in Seq(Messages) /\ recent' \in Seq(Messages)
      /\ Range(recent') \subseteq 1..created' /\ Range(sent') \subseteq 1..created'
      /\ table' \subseteq 1..created' /\ jobs' \subseteq 1..created' /\ removed' \subseteq 1..created'
      /\ gone' \subseteq 1..created' /\ late' \subseteq 1..created' /\ missed' \subseteq 1..created'
  BY <1>1, <1>2, TypeFacts
<1> QED
  BY <1>1, <1>3, DoneType

LEMMA ClearListType ==
    ASSUME TypeInv, Trace, NEW q \in Requests, ClearList(q)
    PROVE  /\ TypeInv'
           /\ \/ /\ Moved(q, [new EXCEPT !.pc = "clear", !.ids = Range(recent) \cup table])
                 /\ recent' = <<>> /\ Range(recent) \cup table \subseteq removed'
              \/ /\ Moved(q, [req[q] EXCEPT !.pc = "clear"])
                 /\ recent' = recent /\ removed' = removed
<1> DEFINE r == [new EXCEPT !.pc = "clear", !.ids = Range(recent) \cup table]
<1>0. \/ Step(q, r) /\ recent' = <<>> /\ Range(recent) \cup table \subseteq removed'
      \/ Go(q, "clear") /\ recent' = recent /\ removed' = removed
  BY DEF ClearList
<1>1. /\ req[q].pc = "new" /\ (Step(q, r) \/ Go(q, "clear"))
      /\ recent' \in {recent, <<>>} /\ removed' \in {removed, removed \cup Range(recent) \cup table}
      /\ UNCHANGED <<table, jobs, persist, created, sent, gone, late, missed>>
  BY DEF ClearList, At
<1>2. Range(recent) \cup table \subseteq 1..created
  BY TypeFacts
<1>3. r \in ReqState /\ r.pc = "clear" /\ r.ids = Range(recent) \cup table /\ r.rows = <<>>
  BY <1>2, TypeFacts, Records DEF ReqState, Phases
<1> HIDE DEF r
<1>4. Fits(created', r)
  BY <1>1, <1>2, <1>3, Nothing DEF Fits, Sends
<1>5. recent' \in Seq(Messages) /\ Range(recent') \subseteq 1..created'
  BY <1>1, TypeFacts, Nothing
<1>6. /\ persist' \in BOOLEAN /\ created' \in Nat /\ created <= created' /\ created' <= MaxMessages
      /\ created' = created /\ sent' \in Seq(Messages) /\ Range(sent') \subseteq 1..created'
      /\ table' \subseteq 1..created' /\ jobs' \subseteq 1..created' /\ removed' \subseteq 1..created'
      /\ gone' \subseteq 1..created' /\ late' \subseteq 1..created' /\ missed' \subseteq 1..created'
  BY <1>1, <1>2, TypeFacts
<1>7. CASE Step(q, r) /\ recent' = <<>> /\ Range(recent) \cup table \subseteq removed'
  <2>1. TypeInv' /\ Moved(q, r)
    BY <1>3, <1>4, <1>5, <1>6, <1>7, StepType
  <2> QED
    BY <1>7, <2>1 DEF r
<1>8. CASE Go(q, "clear") /\ recent' = recent /\ removed' = removed
  <2>1. "clear" \in Phases /\ req[q].rows = <<>>
    BY <1>1, TypeFacts DEF Phases, Fits
  <2> QED
    BY <1>5, <1>6, <1>8, <2>1, GoType
<1> QED
  BY <1>0, <1>7, <1>8

LEMMA ClearRowsType ==
    ASSUME TypeInv, Trace, NEW q \in Requests, ClearRows(q)
    PROVE  TypeInv' /\ Moved(q, over)
<1>1. /\ Done(q) /\ table' = {} /\ gone' = gone \cup req[q].ids
      /\ UNCHANGED <<recent, jobs, persist, created, sent, removed, late, missed>>
  BY DEF ClearRows
<1>2. req[q].ids \subseteq 1..created
  BY TypeFacts DEF Fits
<1>3. /\ persist' \in BOOLEAN /\ created' = created /\ sent' \in Seq(Messages) /\ recent' \in Seq(Messages)
      /\ Range(recent') \subseteq 1..created' /\ Range(sent') \subseteq 1..created'
      /\ table' \subseteq 1..created' /\ jobs' \subseteq 1..created' /\ removed' \subseteq 1..created'
      /\ gone' \subseteq 1..created' /\ late' \subseteq 1..created' /\ missed' \subseteq 1..created'
  BY <1>1, <1>2, TypeFacts
<1> QED
  BY <1>1, <1>3, DoneType

LEMMA BreakType ==
    ASSUME TypeInv, Trace, NEW q \in Requests, Break(q)
    PROVE  TypeInv' /\ Moved(q, over)
<1>1. /\ Done(q) /\ missed' \subseteq missed \cup Range(req[q].rows)
      /\ UNCHANGED <<recent, table, jobs, persist, created, sent, removed, gone, late>>
  BY DEF Break
<1>2. Range(req[q].rows) \subseteq 1..created
  BY TypeFacts DEF Fits
<1>3. /\ persist' \in BOOLEAN /\ created' = created /\ sent' \in Seq(Messages) /\ recent' \in Seq(Messages)
      /\ Range(recent') \subseteq 1..created' /\ Range(sent') \subseteq 1..created'
      /\ table' \subseteq 1..created' /\ jobs' \subseteq 1..created' /\ removed' \subseteq 1..created'
      /\ gone' \subseteq 1..created' /\ late' \subseteq 1..created' /\ missed' \subseteq 1..created'
  BY <1>1, <1>2, TypeFacts
<1> QED
  BY <1>1, <1>3, DoneType

\* q does pc with the messages ids and the entries rows from now on, the others what they did.
Now(q, pc, ids, rows) ==
    /\ req'[q].pc = pc /\ req'[q].ids = ids /\ req'[q].rows = rows
    /\ \A p \in Requests : p # q => req'[p] = req[p]

\* What each kind of step makes of the request that takes it.
LEMMA NowIs ==
    ASSUME TypeInv, NEW q \in Requests
    PROVE  /\ Moved(q, over) => Now(q, "over", {}, <<>>)
           /\ \A pc : Moved(q, [req[q] EXCEPT !.pc = pc]) => Now(q, pc, req[q].ids, req[q].rows)
           /\ \A pc, ids : Moved(q, [new EXCEPT !.pc = pc, !.ids = ids]) => Now(q, pc, ids, <<>>)
           /\ \A pc, rows : Moved(q, [new EXCEPT !.pc = pc, !.rows = rows]) => Now(q, pc, {}, rows)
           /\ \A pc, rows : Moved(q, [req[q] EXCEPT !.pc = pc, !.rows = rows]) => Now(q, pc, req[q].ids, rows)
           /\ \A pc, rows : Moved(q, [req[q] EXCEPT !.rows = rows, !.pc = pc]) => Now(q, pc, req[q].ids, rows)
<1>1. req[q] \in ReqState /\ new \in ReqState
  BY TypeFacts, Records
<1>2. /\ over.pc = "over" /\ over.ids = {} /\ over.rows = <<>>
      /\ new.pc = "new" /\ new.ids = {} /\ new.rows = <<>>
  BY Records
<1>3. ASSUME NEW r \in ReqState, NEW pc
      PROVE  [r EXCEPT !.pc = pc].pc = pc /\ [r EXCEPT !.pc = pc].ids = r.ids /\ [r EXCEPT !.pc = pc].rows = r.rows
  BY DEF ReqState
<1>4. ASSUME NEW r \in ReqState, NEW pc, NEW ids
      PROVE  LET t == [r EXCEPT !.pc = pc, !.ids = ids] IN t.pc = pc /\ t.ids = ids /\ t.rows = r.rows
  BY DEF ReqState
<1>5. ASSUME NEW r \in ReqState, NEW pc, NEW rows
      PROVE  LET t == [r EXCEPT !.pc = pc, !.rows = rows] IN t.pc = pc /\ t.rows = rows /\ t.ids = r.ids
  BY DEF ReqState
<1>6. ASSUME NEW r \in ReqState, NEW pc, NEW rows
      PROVE  LET t == [r EXCEPT !.rows = rows, !.pc = pc] IN t.pc = pc /\ t.rows = rows /\ t.ids = r.ids
  BY DEF ReqState
<1>10. Moved(q, over) => Now(q, "over", {}, <<>>)
  BY <1>2 DEF Moved, Now
<1>11. \A pc : Moved(q, [req[q] EXCEPT !.pc = pc]) => Now(q, pc, req[q].ids, req[q].rows)
  BY <1>1, <1>3 DEF Moved, Now
<1>12. \A pc, ids : Moved(q, [new EXCEPT !.pc = pc, !.ids = ids]) => Now(q, pc, ids, <<>>)
  BY <1>1, <1>2, <1>4 DEF Moved, Now
<1>13. \A pc, rows : Moved(q, [new EXCEPT !.pc = pc, !.rows = rows]) => Now(q, pc, {}, rows)
  BY <1>1, <1>2, <1>5 DEF Moved, Now
<1>14. \A pc, rows : Moved(q, [req[q] EXCEPT !.pc = pc, !.rows = rows]) => Now(q, pc, req[q].ids, rows)
  BY <1>1, <1>5 DEF Moved, Now
<1>15. \A pc, rows : Moved(q, [req[q] EXCEPT !.rows = rows, !.pc = pc]) => Now(q, pc, req[q].ids, rows)
  BY <1>1, <1>6 DEF Moved, Now
<1> QED
  BY <1>10, <1>11, <1>12, <1>13, <1>14, <1>15

-------------------------------------------------------------------------------
(* A message that is about to be put on the list is nowhere yet.             *)

Known == Range(recent) \cup Range(sent) \cup table \cup jobs \cup removed
InHand(r) == r.ids \cup Range(r.rows)

FreshInv ==
    \A p \in Requests : req[p].pc = "push" =>
        /\ req[p].ids \cap Known = {}
        /\ \A q \in Requests : q # p => req[p].ids \cap InHand(req[q]) = {}

Removing == {"keep", "drop", "fill", "trim", "row", "clear"}

\* Messages gone, and those that a request deletes, are noted as removed.
RemovedInv ==
    /\ gone \subseteq removed
    /\ \A q \in Requests : req[q].pc \in Removing => req[q].ids \subseteq removed

\* A request that goes on with what was known before leaves fresh messages alone.
LEMMA FreshKept ==
    ASSUME FreshInv, NEW q \in Requests, NEW pc, NEW ids, NEW rows, Now(q, pc, ids, rows), pc # "push",
           Known' \subseteq Known \cup InHand(req[q]), ids \cup Range(rows) \subseteq Known \cup InHand(req[q])
    PROVE  FreshInv'
<1>1. ASSUME NEW p \in Requests, req'[p].pc = "push"
      PROVE  /\ req'[p].ids \cap Known' = {}
             /\ \A o \in Requests : o # p => req'[p].ids \cap InHand(req'[o]) = {}
  <2>1. p # q /\ req'[p] = req[p] /\ req[p].pc = "push"
    BY <1>1 DEF Now
  <2>2. req[p].ids \cap (Known \cup InHand(req[q])) = {}
    BY <2>1 DEF FreshInv
  <2>3. req'[p].ids \cap Known' = {}
    BY <2>1, <2>2
  <2>4. ASSUME NEW o \in Requests, o # p PROVE req'[p].ids \cap InHand(req'[o]) = {}
    <3>1. CASE o = q
      <4>1. InHand(req'[o]) = ids \cup Range(rows)
        BY <3>1 DEF Now, InHand
      <4> QED
        BY <2>1, <2>2, <4>1
    <3>2. CASE o # q
      <4>1. req'[o] = req[o]
        BY <3>2 DEF Now
      <4> QED
        BY <2>1, <2>4, <4>1 DEF FreshInv
    <3> QED
      BY <3>1, <3>2
  <2> QED
    BY <2>3, <2>4
<1> QED
  BY <1>1 DEF FreshInv, InHand

\* Whatever a step deletes next it notes as removed.
LEMMA RemovedKept ==
    ASSUME RemovedInv, NEW q \in Requests, NEW pc, NEW ids, NEW rows, Now(q, pc, ids, rows),
           removed \subseteq removed', gone' \subseteq removed', pc \in Removing => ids \subseteq removed'
    PROVE  RemovedInv'
<1>1. ASSUME NEW p \in Requests, req'[p].pc \in Removing PROVE req'[p].ids \subseteq removed'
  <2>1. CASE p = q
    BY <1>1, <2>1 DEF Now
  <2>2. CASE p # q
    BY <1>1, <2>2 DEF Now, RemovedInv
  <2> QED
    BY <2>1, <2>2
<1> QED
  BY <1>1 DEF RemovedInv

\* What a step that puts entries back does to the list and to those left.
LEMMA FillLists ==
    ASSUME TypeInv, Trace, NEW q \in Requests, Fill(q)
    PROVE  \E pc \in {"trim", "fill"}, rows \in Seq(Messages), front \in Seq(Messages) :
               /\ TypeInv' /\ Now(q, pc, req[q].ids, rows)
               /\ req[q].rows = rows \o front /\ recent' = front \o recent
               /\ Range(recent') = Range(front) \cup Range(recent)
               /\ Range(req[q].rows) = Range(rows) \cup Range(front)
               /\ pc = "trim" => rows = <<>>
<1>1. TypeInv' /\ req[q].rows \in Seq(Messages) /\ req[q].rows # <<>> /\ recent \in Seq(Messages)
  BY FillType, TypeFacts
<1> DEFINE all == req[q].rows
<1>2. CASE req[q].ids = {}
  <2>1. recent' = all \o recent /\ Now(q, "trim", req[q].ids, <<>>)
    BY <1>2, FillType, NowIs
  <2>2. <<>> \in Seq(Messages) /\ all = <<>> \o all
    BY <1>1, Nothing, ConcatEmptySeq
  <2> HIDE DEF all
  <2>3. Range(recent') = Range(all) \cup Range(recent) /\ Range(all) = Range(<<>>) \cup Range(all)
    BY <1>1, <2>1, Joined, Nothing DEF all
  <2> QED
    BY <1>1, <2>1, <2>2, <2>3 DEF all
<1>3. CASE req[q].ids # {}
  <2> DEFINE one == <<Last(all)>>
             pc == IF Len(all) = 1 THEN "trim" ELSE "fill"
  <2>1. recent' = one \o recent /\ Now(q, pc, req[q].ids, Front(all))
    BY <1>3, FillType, NowIs
  <2>2. Front(all) \in Seq(Messages) /\ Last(all) \in Messages /\ (pc = "trim" => Front(all) = <<>>)
    <3>1. Last(all) \in Range(all) /\ Front(all) \in Seq(Messages) /\ (Len(all) = 1 => Front(all) = <<>>)
      BY <1>1, LastIs
    <3>2. Range(all) \subseteq Messages
      BY <1>1, Places
    <3> QED
      BY <3>1, <3>2
  <2>3. one \in Seq(Messages) /\ pc \in {"trim", "fill"}
    BY <2>2, Single
  <2>4. all = Front(all) \o one
    <3>1. Len(all) \in 1..Len(all) /\ 1 \in 1..Len(all) /\ Len(all) \in Nat
      <4>1. Len(all) \in Nat \ {0}
        BY <1>1, EmptySeq
      <4> QED
        BY <4>1
    <3>2. SubSeq(all, 1, Len(all)) = SubSeq(all, 1, Len(all) - 1) \o <<all[Len(all)]>>
      BY <1>1, <3>1, SubSeqRecursiveSecond
    <3>3. SubSeq(all, 1, Len(all)) = all
      BY <1>1, SubSeqFull
    <3> QED
      BY <3>2, <3>3 DEF Front, Last
  <2> HIDE DEF one, pc, all
  <2>5. Range(recent') = Range(one) \cup Range(recent) /\ Range(all) = Range(Front(all)) \cup Range(one)
    <3>1. Range(recent') = Range(one) \cup Range(recent)
      BY <1>1, <2>1, <2>3, Joined
    <3>2. Range(Front(all) \o one) = Range(Front(all)) \cup Range(one)
      BY <2>2, <2>3, Joined
    <3> QED
      BY <2>4, <3>1, <3>2
  <2> QED
    BY <1>1, <2>1, <2>2, <2>3, <2>4, <2>5 DEF all
<1> QED
  BY <1>2, <1>3

\* Every step keeps both, and the types.
LEMMA FreshStep ==
    ASSUME TypeInv, FreshInv, RemovedInv, Next
    PROVE  TypeInv' /\ FreshInv' /\ RemovedInv'
<1>0. Trace
  BY DEF Next
<1>1. ASSUME NEW q \in Requests, Create(q) PROVE TypeInv' /\ FreshInv' /\ RemovedInv'
  <2>1. TypeInv' /\ Now(q, "push", {created + 1}, <<>>)
    BY <1>0, <1>1, CreateType, NowIs
  <2>2. Known' = Known /\ gone' = gone /\ removed' = removed
    BY <1>1 DEF Create, Known
  <2>3. /\ Known \subseteq 1..created /\ created \in Nat
        /\ \A p \in Requests : InHand(req[p]) \subseteq 1..created
    BY TypeFacts DEF Known, InHand, Fits
  <2>4. created + 1 \notin 1..created
    BY <2>3
  <2>5. ASSUME NEW p \in Requests, req'[p].pc = "push"
        PROVE  /\ req'[p].ids \cap Known' = {}
               /\ \A o \in Requests : o # p => req'[p].ids \cap InHand(req'[o]) = {}
    <3>1. CASE p = q
      <4>1. req'[p].ids = {created + 1} /\ \A o \in Requests : o # p => req'[o] = req[o]
        BY <2>1, <3>1 DEF Now
      <4> QED
        BY <2>2, <2>3, <2>4, <4>1
    <3>2. CASE p # q
      <4>1. req'[p] = req[p] /\ req[p].pc = "push" /\ \A o \in Requests : o # q => req'[o] = req[o]
        BY <2>1, <2>5, <3>2 DEF Now
      <4>2. InHand(req'[q]) = {created + 1}
        BY <2>1, Nothing DEF Now, InHand
      <4>3. created + 1 \notin req[p].ids
        BY <2>3, <2>4 DEF InHand
      <4>4. req[p].ids \cap Known = {} /\ \A o \in Requests : o # p => req[p].ids \cap InHand(req[o]) = {}
        BY <4>1 DEF FreshInv
      <4>5. ASSUME NEW o \in Requests, o # p PROVE req'[p].ids \cap InHand(req'[o]) = {}
        <5>1. CASE o = q
          BY <4>1, <4>2, <4>3, <5>1
        <5>2. CASE o # q
          BY <4>1, <4>4, <4>5, <5>2
        <5> QED
          BY <5>1, <5>2
      <4> QED
        BY <2>2, <4>1, <4>4, <4>5
    <3> QED
      BY <3>1, <3>2
  <2>6. FreshInv'
    BY <2>5 DEF FreshInv, InHand
  <2>7. RemovedInv'
    BY <2>1, <2>2, RemovedKept DEF Removing, RemovedInv
  <2> QED
    BY <2>1, <2>6, <2>7
<1>2. ASSUME NEW q \in Requests, Push(q) PROVE TypeInv' /\ FreshInv' /\ RemovedInv'
  <2>1. TypeInv' /\ Now(q, "pushed", req[q].ids, req[q].rows)
    BY <1>0, <1>2, PushType, NowIs
  <2>2. Message(q) \in req[q].ids
    BY <1>2, Sending DEF Push, At, Sends
  <2>3. Range(recent') = {Message(q)} \cup Range(recent) /\ Range(sent') = Range(sent) \cup {Message(q)}
    BY <1>2, PushLists
  <2>4. Known' \subseteq Known \cup InHand(req[q]) /\ removed' = removed /\ gone' = gone
    BY <1>2, <2>2, <2>3 DEF Push, Known, InHand
  <2> QED
    BY <2>1, <2>4, FreshKept, RemovedKept DEF InHand, Removing, RemovedInv
<1>3. ASSUME NEW q \in Requests, PushTrim(q) PROVE TypeInv' /\ FreshInv' /\ RemovedInv'
  <2>1. TypeInv' /\ Now(q, "enqueue", req[q].ids, req[q].rows)
    BY <1>0, <1>3, PushTrimType, NowIs
  <2>2. Range(recent') \subseteq Range(recent)
    BY <1>3, TypeFacts, TrimmedIs DEF PushTrim
  <2>3. Known' \subseteq Known /\ removed' = removed /\ gone' = gone
    BY <1>3, <2>2 DEF PushTrim, Known
  <2> QED
    BY <2>1, <2>3, FreshKept, RemovedKept DEF InHand, Removing, RemovedInv
<1>4. ASSUME NEW q \in Requests, Enqueue(q) PROVE TypeInv' /\ FreshInv' /\ RemovedInv'
  <2>1. TypeInv' /\ (Now(q, "over", {}, <<>>) \/ Now(q, "insert", req[q].ids, req[q].rows))
    BY <1>0, <1>4, EnqueueType, NowIs
  <2>2. Message(q) \in req[q].ids
    BY <1>4, Sending DEF Enqueue, At, Sends
  <2>3. Known' \subseteq Known \cup InHand(req[q]) /\ removed' = removed /\ gone' = gone
    BY <1>4, <2>2 DEF Enqueue, Known, InHand
  <2> QED
    BY <2>1, <2>3, FreshKept, RemovedKept, Nothing DEF InHand, Removing, RemovedInv
<1>5. ASSUME NEW q \in Requests, DirectInsert(q) PROVE TypeInv' /\ FreshInv' /\ RemovedInv'
  <2>1. TypeInv' /\ Now(q, "over", {}, <<>>)
    BY <1>0, <1>5, DirectInsertType, NowIs
  <2>2. Message(q) \in req[q].ids
    BY <1>5, Sending DEF DirectInsert, At, Sends
  <2>3. Known' \subseteq Known \cup InHand(req[q]) /\ removed' = removed /\ gone' = gone
    BY <1>5, <2>2 DEF DirectInsert, Stored, Known, InHand
  <2> QED
    BY <2>1, <2>3, FreshKept, RemovedKept, Nothing DEF InHand, Removing, RemovedInv
<1>6. ASSUME NEW q \in Requests, ReadHistory(q) PROVE TypeInv' /\ FreshInv' /\ RemovedInv'
  <2>1. TypeInv' /\ Now(q, "find", req[q].ids, req[q].rows)
    BY <1>0, <1>6, ReadHistoryType, NowIs
  <2>2. Known' = Known /\ removed' = removed /\ gone' = gone
    BY <1>6 DEF ReadHistory, Known
  <2> QED
    BY <2>1, <2>2, FreshKept, RemovedKept DEF InHand, Removing, RemovedInv
<1>7. ASSUME NEW q \in Requests, FindRecent(q) PROVE TypeInv' /\ FreshInv' /\ RemovedInv'
  <2>1. TypeInv' /\ (Now(q, "over", {}, <<>>) \/ Now(q, "drop", {}, Newest))
    BY <1>0, <1>7, FindRecentType, NowIs
  <2>2. Known' = Known /\ removed' = removed /\ gone' = gone /\ Range(Newest) \subseteq Known
    BY <1>7, NewestType DEF FindRecent, Known
  <2> QED
    BY <2>1, <2>2, FreshKept, RemovedKept, Nothing DEF InHand, Removing, RemovedInv
<1>8. ASSUME NEW q \in Requests, Drop(q) PROVE TypeInv' /\ FreshInv' /\ RemovedInv'
  <2> DEFINE pc == IF req[q].rows = <<>> THEN "row" ELSE "fill"
  <2>1. /\ TypeInv' /\ Now(q, pc, req[q].ids, req[q].rows)
        /\ Range(sent') = Range(sent) \cup Range(req[q].rows)
    BY <1>0, <1>8, DropType, NowIs
  <2>2. pc \in Removing /\ pc # "push" /\ req[q].pc \in Removing
    BY <1>8 DEF Drop, At, Removing
  <2> HIDE DEF pc
  <2>3. Known' \subseteq Known \cup InHand(req[q]) /\ removed' = removed /\ gone' = gone
    BY <1>8, <2>1, Nothing DEF Drop, Known, InHand
  <2> QED
    BY <2>1, <2>2, <2>3, FreshKept, RemovedKept DEF InHand, RemovedInv
<1>9. ASSUME NEW q \in Requests, Fill(q) PROVE TypeInv' /\ FreshInv' /\ RemovedInv'
  <2>1. PICK pc \in {"trim", "fill"}, rows \in Seq(Messages), front \in Seq(Messages) :
               /\ TypeInv' /\ Now(q, pc, req[q].ids, rows)
               /\ req[q].rows = rows \o front /\ recent' = front \o recent
               /\ Range(recent') = Range(front) \cup Range(recent)
               /\ Range(req[q].rows) = Range(rows) \cup Range(front)
               /\ pc = "trim" => rows = <<>>
    BY <1>0, <1>9, FillLists
  <2>2. req[q].pc \in Removing /\ pc \in Removing /\ pc # "push"
    BY <1>9, <2>1 DEF Fill, At, Removing
  <2>3. Known' \subseteq Known \cup InHand(req[q]) /\ removed' = removed /\ gone' = gone
    BY <1>9, <2>1 DEF Fill, Known, InHand
  <2> QED
    BY <2>1, <2>2, <2>3, FreshKept, RemovedKept DEF InHand, RemovedInv
<1>10. ASSUME NEW q \in Requests, Trim(q) PROVE TypeInv' /\ FreshInv' /\ RemovedInv'
  <2>1. TypeInv' /\ (Now(q, "over", {}, <<>>) \/ Now(q, "row", req[q].ids, req[q].rows))
    BY <1>0, <1>10, TrimType, NowIs
  <2>2. Range(recent') \subseteq Range(recent)
    BY <1>10, TypeFacts, TrimmedIs DEF Trim
  <2>3. Known' \subseteq Known /\ removed' = removed /\ gone' = gone /\ req[q].pc = "trim"
    BY <1>10, <2>2 DEF Trim, Known, At
  <2> QED
    BY <2>1, <2>3, FreshKept, RemovedKept, Nothing DEF InHand, Removing, RemovedInv
<1>11. ASSUME NEW q \in Requests, NEW m \in Messages, BeginDelete(q, m) PROVE TypeInv' /\ FreshInv' /\ RemovedInv'
  <2>1. TypeInv' /\ Now(q, "keep", {m}, <<>>)
    BY <1>0, <1>11, BeginDeleteType, NowIs
  <2>2. m \in Known /\ Known' = Known \cup {m} /\ removed' = removed \cup {m} /\ gone' = gone
    BY <1>11 DEF BeginDelete, Found, Known
  <2> QED
    BY <2>1, <2>2, FreshKept, RemovedKept, Nothing DEF InHand, Removing, RemovedInv
<1>12. ASSUME NEW q \in Requests, Keep(q) PROVE TypeInv' /\ FreshInv' /\ RemovedInv'
  <2>1. TypeInv' /\ Now(q, "drop", req[q].ids, Kept(q)) /\ Range(Kept(q)) \subseteq Range(recent)
    BY <1>0, <1>12, KeepType, NowIs
  <2>2. Known' = Known /\ removed' = removed /\ gone' = gone /\ req[q].pc = "keep" /\ Range(Kept(q)) \subseteq Known
    BY <1>12, <2>1 DEF Keep, Known, At
  <2> QED
    BY <2>1, <2>2, FreshKept, RemovedKept DEF InHand, Removing, RemovedInv
<1>13. ASSUME NEW q \in Requests, DeleteRow(q) PROVE TypeInv' /\ FreshInv' /\ RemovedInv'
  <2>1. TypeInv' /\ Now(q, "over", {}, <<>>)
    BY <1>0, <1>13, DeleteRowType, NowIs
  <2>2. Known' \subseteq Known /\ removed' = removed /\ gone' \subseteq gone \cup req[q].ids /\ req[q].pc = "row"
    BY <1>13 DEF DeleteRow, Known, At
  <2> QED
    BY <2>1, <2>2, FreshKept, RemovedKept, Nothing DEF InHand, Removing, RemovedInv
<1>14. ASSUME NEW q \in Requests, ClearList(q) PROVE TypeInv' /\ FreshInv' /\ RemovedInv'
  <2> DEFINE all == Range(recent) \cup table
  <2>1. /\ TypeInv'
        /\ Now(q, "clear", all, <<>>) \/ Now(q, "clear", req[q].ids, req[q].rows)
    BY <1>0, <1>14, ClearListType, NowIs
  <2>2. req[q].ids = {} /\ req[q].rows = <<>>
    BY <1>14, TypeFacts DEF ClearList, At, Fits
  <2>3. Known' \subseteq Known /\ removed \subseteq removed' /\ gone' = gone /\ all \subseteq Known
    BY <1>14, Nothing DEF ClearList, Known
  <2>4. \/ Now(q, "clear", all, <<>>) /\ all \subseteq removed'
        \/ Now(q, "clear", {}, <<>>)
    BY <1>0, <1>14, <2>2, ClearListType, NowIs
  <2> HIDE DEF all
  <2> QED
    BY <2>1, <2>3, <2>4, FreshKept, RemovedKept, Nothing DEF InHand, Removing, RemovedInv
<1>15. ASSUME NEW q \in Requests, ClearRows(q) PROVE TypeInv' /\ FreshInv' /\ RemovedInv'
  <2>1. TypeInv' /\ Now(q, "over", {}, <<>>)
    BY <1>0, <1>15, ClearRowsType, NowIs
  <2>2. Known' \subseteq Known /\ removed' = removed /\ gone' \subseteq gone \cup req[q].ids /\ req[q].pc = "clear"
    BY <1>15 DEF ClearRows, Known, At
  <2> QED
    BY <2>1, <2>2, FreshKept, RemovedKept, Nothing DEF InHand, Removing, RemovedInv
<1>16. ASSUME NEW q \in Requests, Break(q) PROVE TypeInv' /\ FreshInv' /\ RemovedInv'
  <2>1. TypeInv' /\ Now(q, "over", {}, <<>>)
    BY <1>0, <1>16, BreakType, NowIs
  <2>2. Known' = Known /\ removed' = removed /\ gone' = gone
    BY <1>16 DEF Break, Known
  <2> QED
    BY <2>1, <2>2, FreshKept, RemovedKept, Nothing DEF InHand, Removing, RemovedInv
<1>17. ASSUME (\E m \in Messages : RunJob(m)) \/ SwitchPersistOff \/ LoseList PROVE TypeInv' /\ FreshInv' /\ RemovedInv'
  <2>1. TypeInv' /\ req' = req
    BY <1>0, <1>17, OutsideType
  <2>2. Known' \subseteq Known /\ removed' = removed /\ gone' = gone
    BY <1>17, Nothing DEF RunJob, SwitchPersistOff, LoseList, Stored, Known
  <2>3. FreshInv'
    BY <2>1, <2>2 DEF FreshInv, InHand
  <2> QED
    BY <2>1, <2>2, <2>3 DEF RemovedInv
<1> QED
  BY <1>1, <1>2, <1>3, <1>4, <1>5, <1>6, <1>7, <1>8, <1>9, <1>10, <1>11, <1>12, <1>13, <1>14, <1>15,
     <1>16, <1>17 DEF Next, Request

-------------------------------------------------------------------------------
(* A deleted message comes back by a late insert or by a rebuild of the list. *)

Rebuilt == {"fill", "trim", "row", "clear"}

\* Entries that a rebuild carries while another request deletes them are noted as held.
HeldInv ==
    \A p, q \in Requests :
        p # q /\ Deletes(req[p]) /\ Rebuilds(req[q]) => req[p].ids \cap Range(req[q].rows) \subseteq held

\* A request does not put back what it deletes, and once it has emptied the list its
\* messages are on it only as others bring them back; the same for those gone.
GoneInv ==
    /\ \A q \in Requests : Rebuilds(req[q]) => req[q].ids \cap Range(req[q].rows) = {}
    /\ \A q \in Requests : req[q].pc \in Rebuilt => req[q].ids \cap Range(recent) \subseteq held \cup late
    /\ gone \cap table \subseteq late
    /\ gone \cap Range(recent) \subseteq held \cup late
    /\ \A q \in Requests : gone \cap Range(req[q].rows) \subseteq held \cup late

\* Trace notes what is held.
LEMMA HeldNow ==
    ASSUME Trace
    PROVE  HeldInv' /\ held \subseteq held'
<1>1. ASSUME NEW p \in Requests, NEW q \in Requests, p # q, Deletes(req'[p]), Rebuilds(req'[q]),
             NEW m \in req'[p].ids \cap Range(req'[q].rows)
      PROVE  m \in held'
  <2> DEFINE deleting == {o \in Requests : Deletes(req'[o])}
             rebuilding == {o \in Requests : Rebuilds(req'[o])}
  <2>1. held' = held \cup {x \in UNION {req'[o].ids : o \in deleting} :
                  \E d \in deleting, r \in rebuilding : d # r /\ x \in req'[d].ids \cap Range(req'[r].rows)}
    BY DEF Trace
  <2>2. p \in deleting /\ q \in rebuilding
    BY <1>1
  <2>3. m \in UNION {req'[o].ids : o \in deleting}
    BY <1>1, <2>2
  <2> HIDE DEF deleting, rebuilding
  <2> QED
    BY <1>1, <2>1, <2>2, <2>3
<1>2. held \subseteq held'
  BY DEF Trace
<1>3. \A p, q \in Requests :
         p # q /\ Deletes(req'[p]) /\ Rebuilds(req'[q]) => req'[p].ids \cap Range(req'[q].rows) \subseteq held'
  BY <1>1
<1>4. HeldInv'
  BY <1>3 DEF HeldInv, Deletes, Rebuilds
<1> QED
  BY <1>2, <1>4

\* A step that brings nothing back and ends no deletion.
LEMMA GoneKept ==
    ASSUME GoneInv, NEW q \in Requests, NEW pc, NEW ids, NEW rows, NEW F, Now(q, pc, ids, rows),
           held \subseteq held', late \subseteq late', gone' = gone, gone \cap table' \subseteq late',
           Range(recent') \subseteq Range(recent) \cup F, gone \cap F \subseteq held' \cup late',
           \A p \in Requests : p # q /\ req[p].pc \in Rebuilt => req[p].ids \cap F \subseteq held' \cup late',
           gone \cap Range(rows) \subseteq held' \cup late',
           pc \in Rebuilt => ids \cap Range(recent') \subseteq held' \cup late',
           pc \in {"drop", "fill", "trim"} => ids \cap Range(rows) = {}
    PROVE  GoneInv'
<1>1. ASSUME NEW p \in Requests
      PROVE  /\ req'[p].pc \in {"drop", "fill", "trim"} => req'[p].ids \cap Range(req'[p].rows) = {}
             /\ req'[p].pc \in Rebuilt => req'[p].ids \cap Range(recent') \subseteq held' \cup late'
             /\ gone' \cap Range(req'[p].rows) \subseteq held' \cup late'
  <2>1. CASE p = q
    BY <2>1 DEF Now
  <2>2. CASE p # q
    <3>1. req'[p] = req[p]
      BY <2>2 DEF Now
    <3>2. req'[p].pc \in {"drop", "fill", "trim"} => req'[p].ids \cap Range(req'[p].rows) = {}
      BY <3>1 DEF GoneInv, Rebuilds
    <3>3. req'[p].pc \in Rebuilt => req'[p].ids \cap Range(recent') \subseteq held' \cup late'
      BY <2>2, <3>1 DEF GoneInv
    <3>4. gone' \cap Range(req'[p].rows) \subseteq held' \cup late'
      BY <3>1 DEF GoneInv
    <3> QED
      BY <3>2, <3>3, <3>4
  <2> QED
    BY <2>1, <2>2
<1>2. gone' \cap table' \subseteq late' /\ gone' \cap Range(recent') \subseteq held' \cup late'
  BY DEF GoneInv
<1> QED
  BY <1>1, <1>2 DEF GoneInv, Rebuilds

\* The step that ends a deletion.
LEMMA GoneEnds ==
    ASSUME TypeInv, HeldInv, GoneInv, NEW q \in Requests, Now(q, "over", {}, <<>>), req[q].pc \in {"row", "clear"},
           held \subseteq held', late' = late, recent' = recent,
           \/ gone' = gone /\ table' = table
           \/ gone' = gone \cup req[q].ids /\ table' \subseteq table \ req[q].ids
    PROVE  GoneInv'
<1>1. gone' \subseteq gone \cup req[q].ids /\ gone' \cap table' \subseteq late'
  BY DEF GoneInv
<1>2. req[q].ids \cap Range(recent) \subseteq held \cup late
  BY DEF GoneInv, Rebuilt
<1>3. gone' \cap Range(recent') \subseteq held' \cup late'
  BY <1>1, <1>2 DEF GoneInv
<1>4. ASSUME NEW p \in Requests
      PROVE  /\ req'[p].pc \in {"drop", "fill", "trim"} => req'[p].ids \cap Range(req'[p].rows) = {}
             /\ req'[p].pc \in Rebuilt => req'[p].ids \cap Range(recent') \subseteq held' \cup late'
             /\ gone' \cap Range(req'[p].rows) \subseteq held' \cup late'
  <2>1. CASE p = q
    BY <2>1, Nothing DEF Now, Rebuilt
  <2>2. CASE p # q
    <3>1. req'[p] = req[p]
      BY <2>2 DEF Now
    <3>2. req'[p].pc \in {"drop", "fill", "trim"} => req'[p].ids \cap Range(req'[p].rows) = {}
      BY <3>1 DEF GoneInv, Rebuilds
    <3>3. req'[p].pc \in Rebuilt => req'[p].ids \cap Range(recent') \subseteq held' \cup late'
      BY <3>1 DEF GoneInv
    <3>4. req[q].ids \cap Range(req[p].rows) \subseteq held
      <4>1. CASE Rebuilds(req[p]) /\ req[q].ids # {}
        BY <2>2, <4>1 DEF HeldInv, Deletes
      <4>2. CASE ~Rebuilds(req[p])
        <5>1. req[p].rows = <<>>
          BY <4>2, TypeFacts DEF Rebuilds, Fits
        <5> QED
          BY <5>1, Nothing
      <4> QED
        BY <4>1, <4>2
    <3>5. gone' \cap Range(req'[p].rows) \subseteq held' \cup late'
      BY <1>1, <3>1, <3>4 DEF GoneInv
    <3> QED
      BY <3>2, <3>3, <3>5
  <2> QED
    BY <2>1, <2>2
<1> QED
  BY <1>1, <1>3, <1>4 DEF GoneInv, Rebuilds

\* Every step keeps both.
LEMMA GoneStep ==
    ASSUME TypeInv, FreshInv, RemovedInv, HeldInv, GoneInv, Next
    PROVE  HeldInv' /\ GoneInv'
<1>0. Trace /\ HeldInv' /\ held \subseteq held'
  BY HeldNow DEF Next
<1>1. ASSUME NEW q \in Requests, Create(q) PROVE GoneInv'
  <2>1. Now(q, "push", {created + 1}, <<>>)
    BY <1>0, <1>1, CreateType, NowIs
  <2>2. gone' = gone /\ late' = late /\ table' = table /\ recent' = recent
    BY <1>1 DEF Create
  <2> QED
    BY <1>0, <2>1, <2>2, GoneKept, Nothing DEF GoneInv, Rebuilt
<1>2. ASSUME NEW q \in Requests, Push(q) PROVE GoneInv'
  <2> DEFINE F == {Message(q)}
  <2>1. Now(q, "pushed", req[q].ids, req[q].rows) /\ Range(recent') = F \cup Range(recent)
    BY <1>0, <1>2, PushType, PushLists, NowIs
  <2>2. gone' = gone /\ late' = late /\ table' = table /\ req[q].pc = "push"
    BY <1>2 DEF Push, At
  <2>3. F = req[q].ids /\ req[q].rows = <<>>
    BY <2>2, TypeFacts, Sending DEF Fits, Sends
  <2>4. F \cap removed = {} /\ \A p \in Requests : p # q => F \cap req[p].ids = {}
    BY <2>2, <2>3 DEF FreshInv, Known, InHand
  <2>5. gone \cap F = {}
    BY <2>4 DEF RemovedInv
  <2> HIDE DEF F
  <2>6. /\ gone \cap table' \subseteq late' /\ gone \cap Range(req[q].rows) \subseteq held' \cup late'
        /\ "pushed" \notin Rebuilt
    BY <2>2, <2>3, Nothing DEF GoneInv, Rebuilt
  <2>7. \A p \in Requests : p # q => req[p].ids \cap F \subseteq held' \cup late'
    BY <2>4
  <2> QED
    BY <1>0, <2>1, <2>2, <2>5, <2>6, <2>7, GoneKept
<1>3. ASSUME NEW q \in Requests, PushTrim(q) PROVE GoneInv'
  <2>1. Now(q, "enqueue", req[q].ids, req[q].rows)
    BY <1>0, <1>3, PushTrimType, NowIs
  <2>2. gone' = gone /\ late' = late /\ table' = table /\ Range(recent') \subseteq Range(recent)
    BY <1>3, TypeFacts, TrimmedIs DEF PushTrim
  <2> QED
    BY <1>0, <2>1, <2>2, GoneKept, Nothing DEF GoneInv, Rebuilt
<1>4. ASSUME NEW q \in Requests, Enqueue(q) PROVE GoneInv'
  <2>1. Now(q, "over", {}, <<>>) \/ Now(q, "insert", req[q].ids, req[q].rows)
    BY <1>0, <1>4, EnqueueType, NowIs
  <2>2. gone' = gone /\ late' = late /\ table' = table /\ recent' = recent
    BY <1>4 DEF Enqueue
  <2> QED
    BY <1>0, <2>1, <2>2, GoneKept, Nothing DEF GoneInv, Rebuilt
<1>5. ASSUME NEW q \in Requests, DirectInsert(q) PROVE GoneInv'
  <2>1. Now(q, "over", {}, <<>>)
    BY <1>0, <1>5, DirectInsertType, NowIs
  <2>2. gone' = gone /\ late \subseteq late' /\ gone \cap table' \subseteq late' /\ recent' = recent
    BY <1>5 DEF DirectInsert, Stored, GoneInv
  <2> QED
    BY <1>0, <2>1, <2>2, GoneKept, Nothing DEF GoneInv, Rebuilt
<1>6. ASSUME NEW q \in Requests, ReadHistory(q) PROVE GoneInv'
  <2>1. Now(q, "find", req[q].ids, req[q].rows)
    BY <1>0, <1>6, ReadHistoryType, NowIs
  <2>2. gone' = gone /\ late' = late /\ table' = table /\ recent' = recent
    BY <1>6 DEF ReadHistory
  <2> QED
    BY <1>0, <2>1, <2>2, GoneKept, Nothing DEF GoneInv, Rebuilt
<1>7. ASSUME NEW q \in Requests, FindRecent(q) PROVE GoneInv'
  <2>1. Now(q, "over", {}, <<>>) \/ Now(q, "drop", {}, Newest)
    BY <1>0, <1>7, FindRecentType, NowIs
  <2>2. gone' = gone /\ late' = late /\ table' = table /\ recent' = recent
    BY <1>7 DEF FindRecent
  <2>3. gone \cap Range(Newest) \subseteq late /\ gone \cap table \subseteq late
    BY NewestType DEF GoneInv
  <2>4. CASE Now(q, "over", {}, <<>>)
    BY <1>0, <2>2, <2>3, <2>4, GoneKept, Nothing DEF Rebuilt
  <2>5. CASE Now(q, "drop", {}, Newest)
    BY <1>0, <2>2, <2>3, <2>5, GoneKept, Nothing DEF Rebuilt
  <2> QED
    BY <2>1, <2>4, <2>5
<1>8. ASSUME NEW q \in Requests, Drop(q) PROVE GoneInv'
  <2> DEFINE pc == IF req[q].rows = <<>> THEN "row" ELSE "fill"
  <2>1. Now(q, pc, req[q].ids, req[q].rows)
    BY <1>0, <1>8, DropType, NowIs
  <2>2. gone' = gone /\ late' = late /\ table' = table /\ Range(recent') = {} /\ req[q].pc = "drop"
    BY <1>8, Nothing DEF Drop, At
  <2> HIDE DEF pc
  <2>3. req[q].ids \cap Range(req[q].rows) = {} /\ gone \cap Range(req[q].rows) \subseteq held \cup late
    BY <2>2 DEF GoneInv, Rebuilds
  <2>4. gone \cap table \subseteq late
    BY DEF GoneInv
  <2> QED
    BY <1>0, <2>1, <2>2, <2>3, <2>4, GoneKept
<1>9. ASSUME NEW q \in Requests, Fill(q) PROVE GoneInv'
  <2>1. PICK pc \in {"trim", "fill"}, rows \in Seq(Messages), front \in Seq(Messages) :
               /\ TypeInv' /\ Now(q, pc, req[q].ids, rows)
               /\ req[q].rows = rows \o front /\ recent' = front \o recent
               /\ Range(recent') = Range(front) \cup Range(recent)
               /\ Range(req[q].rows) = Range(rows) \cup Range(front)
               /\ pc = "trim" => rows = <<>>
    BY <1>0, <1>9, FillLists
  <2>2. gone' = gone /\ late' = late /\ table' = table /\ req[q].pc = "fill"
    BY <1>9 DEF Fill, At
  <2>3. /\ req[q].ids \cap Range(req[q].rows) = {} /\ gone \cap Range(req[q].rows) \subseteq held \cup late
        /\ req[q].ids \cap Range(recent) \subseteq held \cup late
    BY <2>2 DEF GoneInv, Rebuilds, Rebuilt
  <2>4. ASSUME NEW p \in Requests, p # q, req[p].pc \in Rebuilt
        PROVE  req[p].ids \cap Range(req[q].rows) \subseteq held
    <3>1. CASE req[p].ids # {}
      <4>1. Deletes(req[p]) /\ Rebuilds(req[q])
        BY <2>2, <2>4, <3>1 DEF Rebuilt, Deletes, Rebuilds
      <4> QED
        BY <2>4, <4>1 DEF HeldInv
    <3> QED
      BY <3>1
  <2>5. /\ gone \cap Range(front) \subseteq held \cup late /\ gone \cap Range(rows) \subseteq held \cup late
        /\ req[q].ids \cap Range(rows) = {} /\ req[q].ids \cap Range(recent') \subseteq held \cup late
    BY <2>1, <2>3
  <2>6. \A p \in Requests : p # q /\ req[p].pc \in Rebuilt => req[p].ids \cap Range(front) \subseteq held \cup late
    BY <2>1, <2>4
  <2>7. gone \cap table \subseteq late
    BY DEF GoneInv
  <2> QED
    BY <1>0, <2>1, <2>2, <2>5, <2>6, <2>7, GoneKept
<1>10. ASSUME NEW q \in Requests, Trim(q) PROVE GoneInv'
  <2>1. Now(q, "over", {}, <<>>) \/ Now(q, "row", req[q].ids, req[q].rows)
    BY <1>0, <1>10, TrimType, NowIs
  <2>2. /\ gone' = gone /\ late' = late /\ table' = table /\ Range(recent') \subseteq Range(recent)
        /\ req[q].pc = "trim"
    BY <1>10, TypeFacts, TrimmedIs DEF Trim, At
  <2>3. req[q].ids \cap Range(recent) \subseteq held \cup late
    BY <2>2 DEF GoneInv, Rebuilt
  <2> QED
    BY <1>0, <2>1, <2>2, <2>3, GoneKept, Nothing DEF GoneInv, Rebuilt
<1>11. ASSUME NEW q \in Requests, NEW m \in Messages, BeginDelete(q, m) PROVE GoneInv'
  <2>1. Now(q, "keep", {m}, <<>>)
    BY <1>0, <1>11, BeginDeleteType, NowIs
  <2>2. gone' = gone /\ late' = late /\ table' = table /\ recent' = recent
    BY <1>11 DEF BeginDelete
  <2> QED
    BY <1>0, <2>1, <2>2, GoneKept, Nothing DEF GoneInv, Rebuilt
<1>12. ASSUME NEW q \in Requests, Keep(q) PROVE GoneInv'
  <2>1. Now(q, "drop", req[q].ids, Kept(q)) /\ Range(Kept(q)) = Range(recent) \ req[q].ids
    BY <1>0, <1>12, KeepType, NowIs
  <2>2. gone' = gone /\ late' = late /\ table' = table /\ recent' = recent
    BY <1>12 DEF Keep
  <2>3. gone \cap Range(Kept(q)) \subseteq held \cup late /\ req[q].ids \cap Range(Kept(q)) = {}
    BY <2>1 DEF GoneInv
  <2> QED
    BY <1>0, <2>1, <2>2, <2>3, GoneKept DEF GoneInv, Rebuilt
<1>13. ASSUME NEW q \in Requests, DeleteRow(q) PROVE GoneInv'
  <2>1. Now(q, "over", {}, <<>>)
    BY <1>0, <1>13, DeleteRowType, NowIs
  <2>2. /\ late' = late /\ recent' = recent /\ req[q].pc = "row"
        /\ \/ gone' = gone /\ table' = table
           \/ gone' = gone \cup req[q].ids /\ table' \subseteq table \ req[q].ids
    BY <1>13 DEF DeleteRow, At
  <2> QED
    BY <1>0, <2>1, <2>2, GoneEnds
<1>14. ASSUME NEW q \in Requests, ClearList(q) PROVE GoneInv'
  <2>1. \/ Now(q, "clear", Range(recent) \cup table, <<>>) /\ recent' = <<>>
        \/ Now(q, "clear", req[q].ids, req[q].rows) /\ recent' = recent
    BY <1>0, <1>14, ClearListType, NowIs
  <2>2. gone' = gone /\ late' = late /\ table' = table /\ req[q].pc = "new"
    BY <1>14 DEF ClearList, At
  <2>3. req[q].ids = {} /\ req[q].rows = <<>>
    BY <2>2, TypeFacts DEF Fits
  <2>4. gone \cap table \subseteq late
    BY DEF GoneInv
  <2> QED
    BY <1>0, <2>1, <2>2, <2>3, <2>4, GoneKept, Nothing DEF Rebuilt
<1>15. ASSUME NEW q \in Requests, ClearRows(q) PROVE GoneInv'
  <2>1. Now(q, "over", {}, <<>>)
    BY <1>0, <1>15, ClearRowsType, NowIs
  <2>2. /\ late' = late /\ recent' = recent /\ req[q].pc = "clear"
        /\ gone' = gone \cup req[q].ids /\ table' \subseteq table \ req[q].ids
    BY <1>15 DEF ClearRows, At
  <2> QED
    BY <1>0, <2>1, <2>2, GoneEnds
<1>16. ASSUME NEW q \in Requests, Break(q) PROVE GoneInv'
  <2>1. Now(q, "over", {}, <<>>)
    BY <1>0, <1>16, BreakType, NowIs
  <2>2. gone' = gone /\ late' = late /\ table' = table /\ recent' = recent
    BY <1>16 DEF Break
  <2> QED
    BY <1>0, <2>1, <2>2, GoneKept, Nothing DEF GoneInv, Rebuilt
<1>17. ASSUME (\E m \in Messages : RunJob(m)) \/ SwitchPersistOff \/ LoseList PROVE GoneInv'
  <2>1. req' = req
    BY <1>0, <1>17, OutsideType
  <2>2. /\ gone' = gone /\ late \subseteq late' /\ gone \cap table' \subseteq late'
        /\ Range(recent') \subseteq Range(recent)
    BY <1>17, Nothing DEF RunJob, SwitchPersistOff, LoseList, Stored, GoneInv
  <2>3. \A q \in Requests : req[q].pc \in Rebuilt => req[q].ids \cap Range(recent') \subseteq held' \cup late'
    BY <1>0, <2>2 DEF GoneInv
  <2>4. \A q \in Requests : gone' \cap Range(req[q].rows) \subseteq held' \cup late'
    BY <1>0, <2>2 DEF GoneInv
  <2>5. gone' \cap Range(recent') \subseteq held' \cup late'
    BY <1>0, <2>2 DEF GoneInv
  <2> QED
    BY <2>1, <2>2, <2>3, <2>4, <2>5 DEF GoneInv, Rebuilds
<1> QED
  BY <1>0, <1>1, <1>2, <1>3, <1>4, <1>5, <1>6, <1>7, <1>8, <1>9, <1>10, <1>11, <1>12, <1>13, <1>14, <1>15,
     <1>16, <1>17 DEF Next, Request

-------------------------------------------------------------------------------
(* A message is listed once.                                                 *)

\* While no two rebuilds have crossed: one at most is under way, no list has an entry twice,
\* and what a rebuild has yet to put back is not listed.
OnceInv == crossed \/
    /\ \A p, q \in Requests : Rebuilds(req[p]) /\ Rebuilds(req[q]) => p = q
    /\ IsInjective(recent) /\ IsInjective(sent)
    /\ \A q \in Requests : IsInjective(req[q].rows)
    /\ \A q \in Requests : req[q].pc = "fill" => Range(req[q].rows) \cap Range(recent) = {}

\* Trace notes rebuilds that cross.
LEMMA CrossedNow ==
    ASSUME TypeInv, Trace, ~crossed'
    PROVE  ~crossed /\ \A p, q \in Requests : Rebuilds(req'[p]) /\ Rebuilds(req'[q]) => p = q
<1>1. crossed' = (crossed \/ \E p, q \in {o \in Requests : Rebuilds(req'[o])} : p # q)
  BY DEF Trace
<1>2. crossed \in BOOLEAN
  BY TypeFacts
<1> QED
  BY <1>1, <1>2

\* A list without an entry twice falls into parts that have none in common.
LEMMA Apart ==
    ASSUME NEW S, NEW s \in Seq(S), NEW t \in Seq(S), IsInjective(s \o t)
    PROVE  IsInjective(s) /\ IsInjective(t) /\ Range(s) \cap Range(t) = {}
<1> DEFINE u == s \o t
<1>1. /\ Len(s) \in Nat /\ DOMAIN s = 1..Len(s) /\ Len(t) \in Nat /\ DOMAIN t = 1..Len(t)
      /\ DOMAIN u = 1..(Len(s) + Len(t))
      /\ \A i \in 1..Len(s) : u[i] = s[i]
      /\ \A i \in 1..Len(t) : u[Len(s) + i] = t[i]
  BY Places, Joined
<1>2. \A i, j \in DOMAIN u : u[i] = u[j] => i = j
  BY DEF IsInjective
<1> HIDE DEF u
<1>3. ASSUME NEW i \in DOMAIN s, NEW j \in DOMAIN s, s[i] = s[j] PROVE i = j
  BY <1>1, <1>2, <1>3
<1>4. ASSUME NEW i \in DOMAIN t, NEW j \in DOMAIN t, t[i] = t[j] PROVE i = j
  <2>1. Len(s) + i \in DOMAIN u /\ Len(s) + j \in DOMAIN u /\ u[Len(s) + i] = u[Len(s) + j]
    BY <1>1, <1>4
  <2>2. Len(s) + i = Len(s) + j
    BY <1>2, <2>1
  <2> QED
    BY <1>1, <2>2
<1>5. ASSUME NEW i \in DOMAIN s, NEW j \in DOMAIN t, s[i] = t[j] PROVE FALSE
  <2>1. i \in DOMAIN u /\ Len(s) + j \in DOMAIN u /\ u[i] = u[Len(s) + j]
    BY <1>1, <1>5
  <2>2. i = Len(s) + j
    BY <1>2, <2>1
  <2> QED
    BY <1>1, <2>2
<1> QED
  BY <1>3, <1>4, <1>5 DEF IsInjective, Range

\* A step that lists nothing another rebuild has in hand.
LEMMA OnceKept ==
    ASSUME TypeInv, OnceInv, Trace, NEW q \in Requests, NEW pc, NEW ids, NEW rows, NEW F, Now(q, pc, ids, rows),
           ~crossed => /\ IsInjective(recent') /\ IsInjective(sent') /\ IsInjective(rows)
                       /\ pc = "fill" => Range(rows) \cap Range(recent') = {}
                       /\ Range(recent') \subseteq Range(recent) \cup F
                       /\ \A p \in Requests : p # q /\ req[p].pc = "fill" => Range(req[p].rows) \cap F = {}
    PROVE  OnceInv'
<1>1. CASE crossed'
  BY <1>1 DEF OnceInv
<1>2. CASE ~crossed'
  <2>1. ~crossed /\ \A p, o \in Requests : Rebuilds(req'[p]) /\ Rebuilds(req'[o]) => p = o
    BY <1>2, CrossedNow
  <2>2. ASSUME NEW p \in Requests
        PROVE  /\ IsInjective(req'[p].rows)
               /\ req'[p].pc = "fill" => Range(req'[p].rows) \cap Range(recent') = {}
    <3>1. CASE p = q
      BY <2>1, <3>1 DEF Now
    <3>2. CASE p # q
      <4>1. req'[p] = req[p]
        BY <3>2 DEF Now
      <4> QED
        BY <2>1, <3>2, <4>1 DEF OnceInv
    <3> QED
      BY <3>1, <3>2
  <2> QED
    BY <2>1, <2>2 DEF OnceInv, Rebuilds
<1> QED
  BY <1>1, <1>2

\* Every step keeps that.
LEMMA OnceStep ==
    ASSUME TypeInv, FreshInv, OnceInv, Next
    PROVE  OnceInv'
<1>0. /\ Trace
      /\ ~crossed => /\ IsInjective(recent) /\ IsInjective(sent)
                     /\ \A q \in Requests : IsInjective(req[q].rows)
                     /\ \A q \in Requests : req[q].pc = "fill" => Range(req[q].rows) \cap Range(recent) = {}
      /\ recent \in Seq(Messages) /\ sent \in Seq(Messages)
  BY TypeFacts DEF Next, OnceInv
<1>1. ASSUME NEW q \in Requests, Create(q) PROVE OnceInv'
  <2>1. Now(q, "push", {created + 1}, <<>>)
    BY <1>0, <1>1, CreateType, NowIs
  <2>2. recent' = recent /\ sent' = sent
    BY <1>1 DEF Create
  <2> QED
    BY <1>0, <2>1, <2>2, OnceKept, Nothing
<1>2. ASSUME NEW q \in Requests, Push(q) PROVE OnceInv'
  <2> DEFINE one == <<Message(q)>>
  <2>1. /\ Now(q, "pushed", req[q].ids, req[q].rows) /\ req[q].pc = "push"
        /\ Message(q) \in 1..created /\ req[q].ids = {Message(q)}
        /\ recent' = one \o recent /\ Range(recent') = {Message(q)} \cup Range(recent)
        /\ sent' = sent \o one
    BY <1>0, <1>2, PushType, PushLists, NowIs DEF Push, At
  <2>2. /\ Message(q) \notin Range(recent) /\ Message(q) \notin Range(sent)
        /\ \A p \in Requests : p # q => Message(q) \notin Range(req[p].rows)
    BY <2>1 DEF FreshInv, Known, InHand
  <2>3. one \in Seq(Messages) /\ Range(one) = {Message(q)} /\ IsInjective(one)
    BY <2>1, TypeFacts, Single
  <2> HIDE DEF one
  <2>4. ~crossed => IsInjective(recent') /\ IsInjective(sent')
    <3>1. ~crossed => IsInjective(one \o recent)
      BY <1>0, <2>2, <2>3, Joined
    <3>2. ~crossed => IsInjective(sent \o one)
      BY <1>0, <2>2, <2>3, Joined
    <3> QED
      BY <2>1, <3>1, <3>2
  <2>5. \A p \in Requests : p # q => Range(req[p].rows) \cap {Message(q)} = {}
    BY <2>2
  <2> QED
    BY <1>0, <2>1, <2>4, <2>5, OnceKept
<1>3. ASSUME NEW q \in Requests, PushTrim(q) PROVE OnceInv'
  <2>1. Now(q, "enqueue", req[q].ids, req[q].rows)
    BY <1>0, <1>3, PushTrimType, NowIs
  <2>2. sent' = sent /\ Range(recent') \subseteq Range(recent) /\ (IsInjective(recent) => IsInjective(recent'))
    BY <1>3, <1>0, TrimmedIs DEF PushTrim
  <2> QED
    BY <1>0, <2>1, <2>2, OnceKept, Nothing
<1>4. ASSUME NEW q \in Requests, Enqueue(q) PROVE OnceInv'
  <2>1. Now(q, "over", {}, <<>>) \/ Now(q, "insert", req[q].ids, req[q].rows)
    BY <1>0, <1>4, EnqueueType, NowIs
  <2>2. recent' = recent /\ sent' = sent
    BY <1>4 DEF Enqueue
  <2> QED
    BY <1>0, <2>1, <2>2, OnceKept, Nothing
<1>5. ASSUME NEW q \in Requests, DirectInsert(q) PROVE OnceInv'
  <2>1. Now(q, "over", {}, <<>>)
    BY <1>0, <1>5, DirectInsertType, NowIs
  <2>2. recent' = recent /\ sent' = sent
    BY <1>5 DEF DirectInsert
  <2> QED
    BY <1>0, <2>1, <2>2, OnceKept, Nothing
<1>6. ASSUME NEW q \in Requests, ReadHistory(q) PROVE OnceInv'
  <2>1. Now(q, "find", req[q].ids, req[q].rows)
    BY <1>0, <1>6, ReadHistoryType, NowIs
  <2>2. recent' = recent /\ sent' = sent
    BY <1>6 DEF ReadHistory
  <2> QED
    BY <1>0, <2>1, <2>2, OnceKept, Nothing
<1>7. ASSUME NEW q \in Requests, FindRecent(q) PROVE OnceInv'
  <2>1. Now(q, "over", {}, <<>>) \/ Now(q, "drop", {}, Newest)
    BY <1>0, <1>7, FindRecentType, NowIs
  <2>2. recent' = recent /\ sent' = sent
    BY <1>7 DEF FindRecent
  <2>3. IsInjective(Newest)
    BY NewestType
  <2> QED
    BY <1>0, <2>1, <2>2, <2>3, OnceKept, Nothing
<1>8. ASSUME NEW q \in Requests, Drop(q) PROVE OnceInv'
  <2> DEFINE pc == IF req[q].rows = <<>> THEN "row" ELSE "fill"
             rows == req[q].rows
             s == Without(sent, Range(rows))
             t == Reverse(rows)
  <2>1. Now(q, pc, req[q].ids, rows) /\ rows \in Seq(Messages)
    BY <1>0, <1>8, DropType, NowIs
  <2>2. recent' = <<>> /\ sent' = s \o t
    BY <1>8 DEF Drop
  <2>3. s \in Seq(Messages) /\ Range(s) = Range(sent) \ Range(rows) /\ (IsInjective(sent) => IsInjective(s))
    <3> HIDE DEF rows
    <3> QED
      BY <1>0, WithoutIs
  <2>4. t \in Seq(Messages) /\ Range(t) = Range(rows) /\ (IsInjective(rows) => IsInjective(t))
    BY <2>1, Reversed
  <2> HIDE DEF s, t, pc
  <2>5. ~crossed => IsInjective(s \o t)
    BY <1>0, <2>3, <2>4, Joined
  <2> QED
    BY <1>0, <2>1, <2>2, <2>5, OnceKept, Nothing
<1>9. ASSUME NEW q \in Requests, Fill(q) PROVE OnceInv'
  <2>1. PICK pc \in {"trim", "fill"}, rows \in Seq(Messages), front \in Seq(Messages) :
               /\ TypeInv' /\ Now(q, pc, req[q].ids, rows)
               /\ req[q].rows = rows \o front /\ recent' = front \o recent
               /\ Range(recent') = Range(front) \cup Range(recent)
               /\ Range(req[q].rows) = Range(rows) \cup Range(front)
               /\ pc = "trim" => rows = <<>>
    BY <1>0, <1>9, FillLists
  <2>2. sent' = sent /\ req[q].pc = "fill"
    BY <1>9 DEF Fill, At
  <2>3. ~crossed => /\ IsInjective(rows) /\ IsInjective(front) /\ Range(rows) \cap Range(front) = {}
                    /\ Range(front) \cap Range(recent) = {} /\ Range(rows) \cap Range(recent) = {}
    <3>1. ~crossed => IsInjective(rows \o front) /\ Range(req[q].rows) \cap Range(recent) = {}
      BY <1>0, <2>1, <2>2
    <3> QED
      BY <2>1, <3>1, Apart
  <2>4. ~crossed => IsInjective(recent')
    BY <1>0, <2>1, <2>3, Joined
  <2>5. ASSUME ~crossed, NEW p \in Requests, p # q, req[p].pc = "fill" PROVE FALSE
    BY <2>2, <2>5 DEF OnceInv, Rebuilds
  <2>6. ~crossed => Range(rows) \cap Range(recent') = {}
    BY <2>1, <2>3
  <2> QED
    BY <1>0, <2>1, <2>2, <2>3, <2>4, <2>5, <2>6, OnceKept
<1>10. ASSUME NEW q \in Requests, Trim(q) PROVE OnceInv'
  <2>1. Now(q, "over", {}, <<>>) \/ Now(q, "row", req[q].ids, req[q].rows)
    BY <1>0, <1>10, TrimType, NowIs
  <2>2. sent' = sent /\ Range(recent') \subseteq Range(recent) /\ (IsInjective(recent) => IsInjective(recent'))
    BY <1>10, <1>0, TrimmedIs DEF Trim
  <2> QED
    BY <1>0, <2>1, <2>2, OnceKept, Nothing
<1>11. ASSUME NEW q \in Requests, NEW m \in Messages, BeginDelete(q, m) PROVE OnceInv'
  <2>1. Now(q, "keep", {m}, <<>>)
    BY <1>0, <1>11, BeginDeleteType, NowIs
  <2>2. recent' = recent /\ sent' = sent
    BY <1>11 DEF BeginDelete
  <2> QED
    BY <1>0, <2>1, <2>2, OnceKept, Nothing
<1>12. ASSUME NEW q \in Requests, Keep(q) PROVE OnceInv'
  <2>1. Now(q, "drop", req[q].ids, Kept(q)) /\ (IsInjective(recent) => IsInjective(Kept(q)))
    BY <1>0, <1>12, KeepType, NowIs
  <2>2. recent' = recent /\ sent' = sent
    BY <1>12 DEF Keep
  <2> QED
    BY <1>0, <2>1, <2>2, OnceKept, Nothing
<1>13. ASSUME NEW q \in Requests, DeleteRow(q) PROVE OnceInv'
  <2>1. Now(q, "over", {}, <<>>)
    BY <1>0, <1>13, DeleteRowType, NowIs
  <2>2. recent' = recent /\ sent' = sent
    BY <1>13 DEF DeleteRow
  <2> QED
    BY <1>0, <2>1, <2>2, OnceKept, Nothing
<1>14. ASSUME NEW q \in Requests, ClearList(q) PROVE OnceInv'
  <2>1. \/ Now(q, "clear", Range(recent) \cup table, <<>>) /\ recent' = <<>>
        \/ Now(q, "clear", req[q].ids, req[q].rows) /\ recent' = recent
    BY <1>0, <1>14, ClearListType, NowIs
  <2>2. sent' = sent
    BY <1>14 DEF ClearList
  <2> QED
    BY <1>0, <2>1, <2>2, OnceKept, Nothing
<1>15. ASSUME NEW q \in Requests, ClearRows(q) PROVE OnceInv'
  <2>1. Now(q, "over", {}, <<>>)
    BY <1>0, <1>15, ClearRowsType, NowIs
  <2>2. recent' = recent /\ sent' = sent
    BY <1>15 DEF ClearRows
  <2> QED
    BY <1>0, <2>1, <2>2, OnceKept, Nothing
<1>16. ASSUME NEW q \in Requests, Break(q) PROVE OnceInv'
  <2>1. Now(q, "over", {}, <<>>)
    BY <1>0, <1>16, BreakType, NowIs
  <2>2. recent' = recent /\ sent' = sent
    BY <1>16 DEF Break
  <2> QED
    BY <1>0, <2>1, <2>2, OnceKept, Nothing
<1>17. ASSUME (\E m \in Messages : RunJob(m)) \/ SwitchPersistOff \/ LoseList PROVE OnceInv'
  <2>1. req' = req
    BY <1>0, <1>17, OutsideType
  <2>2. sent' = sent /\ recent' \in {recent, <<>>}
    BY <1>17 DEF RunJob, SwitchPersistOff, LoseList
  <2>3. CASE crossed'
    BY <2>3 DEF OnceInv
  <2>4. CASE ~crossed'
    <3>1. ~crossed /\ \A p, q \in Requests : Rebuilds(req[p]) /\ Rebuilds(req[q]) => p = q
      BY <1>0, <2>1, <2>4, CrossedNow
    <3>2. IsInjective(recent') /\ Range(recent') \subseteq Range(recent)
      BY <1>0, <2>2, <3>1, Nothing
    <3>3. \A q \in Requests : req[q].pc = "fill" => Range(req[q].rows) \cap Range(recent') = {}
      BY <1>0, <3>1, <3>2
    <3> QED
      BY <1>0, <2>1, <2>2, <3>1, <3>2, <3>3 DEF OnceInv, Rebuilds
  <2> QED
    BY <2>3, <2>4
<1> QED
  BY <1>1, <1>2, <1>3, <1>4, <1>5, <1>6, <1>7, <1>8, <1>9, <1>10, <1>11, <1>12, <1>13, <1>14, <1>15,
     <1>16, <1>17 DEF Next, Request

-------------------------------------------------------------------------------
(* The newest are listed.                                                    *)

\* x was put on the list after y.
After(s, x, y) == \E k, l \in DOMAIN s : l < k /\ s[k] = x /\ s[l] = y

\* What rebuilds have yet to put back.
InFill == UNION {Range(req[q].rows) : q \in {p \in Requests : req[p].pc = "fill"}}

\* While no two rebuilds have crossed: the list has what was sent, newer before older, and
\* so has what a rebuild has yet to put on top of it; a message that is on neither was
\* removed or missed, or is older than as many as the list holds.
Aligned ==
    /\ Range(recent) \cup InFill \subseteq Range(sent)
    /\ \A i, j \in 1..Len(recent) : i < j /\ recent[j] \notin missed => After(sent, recent[i], recent[j])
    /\ \A q \in Requests : req[q].pc = "fill" =>
          /\ \A i, j \in 1..Len(req[q].rows) : i < j => After(sent, req[q].rows[i], req[q].rows[j])
          /\ \A x \in Range(req[q].rows), y \in Range(recent) \ missed : After(sent, x, y)
    /\ \A i \in 1..Len(sent) : \/ sent[i] \in Range(recent) \cup removed \cup missed \cup InFill
                               \/ i + CacheSize <= Len(sent)
NewestInv == crossed \/ Aligned

\* A step that puts nothing on the list.
LEMMA NewestKept ==
    ASSUME TypeInv, TypeInv', Aligned, sent' = sent, missed \subseteq missed', removed \subseteq removed',
           \A p \in Requests : req'[p].pc = "fill" => req[p].pc = "fill" /\ req'[p].rows = req[p].rows,
           \A p \in Requests : req[p].pc = "fill" => req'[p].pc = "fill" \/ Range(req[p].rows) \subseteq missed',
           Len(recent') <= Len(recent), \A i \in 1..Len(recent') : recent'[i] = recent[i],
           \A i \in 1..Len(sent) :
               sent[i] \in Range(recent) => \/ sent[i] \in Range(recent') \cup removed' \cup missed'
                                            \/ i + CacheSize <= Len(sent)
    PROVE  Aligned'
<1>1. recent \in Seq(Messages) /\ recent' \in Seq(Messages)
  BY TypeFacts DEF TypeInv, TypeOK
<1>2. /\ Len(recent) \in Nat /\ Len(recent') \in Nat /\ 1..Len(recent') \subseteq 1..Len(recent)
      /\ Range(recent') \subseteq Range(recent)
  <2>1. /\ Len(recent) \in Nat /\ DOMAIN recent = 1..Len(recent)
        /\ Len(recent') \in Nat /\ DOMAIN recent' = 1..Len(recent')
    BY <1>1, Places
  <2>2. 1..Len(recent') \subseteq 1..Len(recent)
    BY <2>1
  <2> QED
    BY <2>1, <2>2 DEF Range
<1>3. InFill' \subseteq InFill
  <2>1. InFill' = UNION {Range(req'[q].rows) : q \in {p \in Requests : req'[p].pc = "fill"}}
    BY DEF InFill
  <2> QED
    BY <2>1 DEF InFill
<1>4. InFill \subseteq InFill' \cup missed'
  <2>1. InFill' = UNION {Range(req'[q].rows) : q \in {p \in Requests : req'[p].pc = "fill"}}
    BY DEF InFill
  <2> QED
    BY <2>1 DEF InFill
<1>5. Range(recent') \cup InFill' \subseteq Range(sent)
  BY <1>2, <1>3 DEF Aligned
<1>6. ASSUME NEW i \in 1..Len(recent'), NEW j \in 1..Len(recent'), i < j, recent'[j] \notin missed'
      PROVE  After(sent, recent'[i], recent'[j])
  BY <1>2, <1>6 DEF Aligned
<1>7. ASSUME NEW q \in Requests, req'[q].pc = "fill"
      PROVE  /\ \A i, j \in 1..Len(req'[q].rows) : i < j => After(sent, req'[q].rows[i], req'[q].rows[j])
             /\ \A x \in Range(req'[q].rows), y \in Range(recent') \ missed' : After(sent, x, y)
  <2>1. req[q].pc = "fill" /\ req'[q].rows = req[q].rows
    BY <1>7
  <2> QED
    BY <1>2, <2>1 DEF Aligned
<1>8. ASSUME NEW i \in 1..Len(sent)
      PROVE  \/ sent[i] \in Range(recent') \cup removed' \cup missed' \cup InFill'
             \/ i + CacheSize <= Len(sent)
  BY <1>4 DEF Aligned
<1> QED
  BY <1>5, <1>6, <1>7, <1>8 DEF Aligned, After

\* A message that ltrim takes off the list is older than as many as it leaves.
LEMMA TrimmedOld ==
    ASSUME TypeInv, Aligned, IsInjective(recent), IsInjective(sent), recent' = Trimmed(recent),
           NEW i \in 1..Len(sent), sent[i] \in Range(recent)
    PROVE  sent[i] \in Range(recent') \cup missed \/ i + CacheSize <= Len(sent)
<1> SUFFICES ASSUME sent[i] \notin Range(recent'), sent[i] \notin missed
             PROVE  i + CacheSize <= Len(sent)
  OBVIOUS
<1> DEFINE n == Len(sent)
           k == Len(Trimmed(recent))
<1>1. /\ recent \in Seq(Messages) /\ sent \in Seq(Messages) /\ CacheSize \in Nat \ {0}
      /\ Len(recent) \in Nat /\ DOMAIN recent = 1..Len(recent)
      /\ n \in Nat /\ DOMAIN sent = 1..n
  BY TypeFacts, Places, ChatHistoryAssumption
<1>2. /\ Trimmed(recent) \in Seq(Messages) /\ k <= Len(recent)
      /\ \A j \in 1..k : Trimmed(recent)[j] = recent[j]
      /\ \A j \in 1..Len(recent) : j > k => j > CacheSize
  BY <1>1, TrimmedIs
<1>3. k \in Nat /\ DOMAIN Trimmed(recent) = 1..k
  BY <1>2, Places
<1> HIDE DEF n, k
<1>4. PICK j \in 1..Len(recent) : recent[j] = sent[i]
  BY <1>1, Placed
<1>5. j > CacheSize
  <2>1. j \notin 1..k
    <3>1. ASSUME j \in 1..k PROVE FALSE
      <4>1. Trimmed(recent)[j] = sent[i] /\ j \in DOMAIN Trimmed(recent)
        BY <1>2, <1>3, <1>4, <3>1
      <4> QED
        BY <4>1, Placed
    <3> QED
      BY <3>1
  <2> QED
    BY <1>1, <1>2, <1>3, <2>1
<1>6. ASSUME NEW c \in 1..CacheSize
      PROVE  c \in 1..Len(recent) /\ \E a \in i+1..n : sent[a] = recent[c]
  <2>1. c \in 1..Len(recent) /\ c < j
    BY <1>1, <1>5
  <2>2. After(sent, recent[c], recent[j])
    BY <1>4, <2>1 DEF Aligned
  <2>3. PICK a \in 1..n, b \in 1..n : b < a /\ sent[a] = recent[c] /\ sent[b] = sent[i]
    BY <1>1, <1>4, <2>2 DEF After
  <2>4. b = i
    BY <1>1, <2>3 DEF IsInjective, n
  <2>5. a \in i+1..n
    BY <1>1, <2>3, <2>4 DEF n
  <2> QED
    BY <2>1, <2>3, <2>5
<1> DEFINE f == [c \in 1..CacheSize |-> CHOOSE a \in i+1..n : sent[a] = recent[c]]
<1>7. \A c \in 1..CacheSize : f[c] \in i+1..n /\ sent[f[c]] = recent[c]
  BY <1>6
<1>8. f \in [1..CacheSize -> i+1..n]
  BY <1>7
<1> HIDE DEF f
<1>9. ASSUME NEW c \in 1..CacheSize, NEW d \in 1..CacheSize, f[c] = f[d] PROVE c = d
  <2>1. recent[c] = recent[d] /\ c \in DOMAIN recent /\ d \in DOMAIN recent
    BY <1>1, <1>6, <1>7, <1>9
  <2> QED
    BY <2>1 DEF IsInjective
<1>10. f \in Injection(1..CacheSize, i+1..n)
  BY <1>8, <1>9 DEF Injection, IsInjective
<1>11. IsFiniteSet(i+1..n) /\ Cardinality(i+1..n) = n - i /\ Cardinality(1..CacheSize) = CacheSize
  <2>1. i + 1 \in Int /\ n \in Int /\ 1 \in Int /\ CacheSize \in Int
    BY <1>1
  <2>2. /\ IsFiniteSet(i+1..n)
        /\ Cardinality(i+1..n) = (IF i + 1 > n THEN 0 ELSE n - (i + 1) + 1)
        /\ Cardinality(1..CacheSize) = (IF 1 > CacheSize THEN 0 ELSE CacheSize - 1 + 1)
    BY <2>1, FS_Interval
  <2>3. i \in Nat /\ i <= n
    BY <1>1 DEF n
  <2> QED
    BY <1>1, <2>2, <2>3
<1>12. Cardinality(1..CacheSize) <= Cardinality(i+1..n)
  BY <1>10, <1>11, FS_Injection
<1> QED
  BY <1>1, <1>11, <1>12 DEF n

\* A message is pushed: it is the newest of all.
LEMMA NewestPush ==
    ASSUME TypeInv, TypeInv', FreshInv, Aligned, NEW q \in Requests, Push(q), Now(q, "pushed", req[q].ids, req[q].rows)
    PROVE  Aligned'
<1> DEFINE m == Message(q)
           one == <<m>>
           n == Len(sent)
           l == Len(recent)
<1>1. /\ m \in 1..created /\ m \in Messages /\ recent' = one \o recent /\ Range(recent') = {m} \cup Range(recent)
      /\ sent' = sent \o one /\ Range(sent') = Range(sent) \cup {m}
  BY PushLists, TypeFacts
<1>2. /\ recent \in Seq(Messages) /\ sent \in Seq(Messages)
      /\ n \in Nat /\ DOMAIN sent = 1..n /\ l \in Nat /\ DOMAIN recent = 1..l
  BY TypeFacts, Places
<1>3. one \in Seq(Messages) /\ Len(one) = 1 /\ one[1] = m
  BY <1>1, Single
<1> HIDE DEF one
<1>4. Len(recent') = 1 + l /\ recent'[1] = m /\ \A i \in 1..l : recent'[1 + i] = recent[i]
  <2> DEFINE u == one \o recent
  <2>1. /\ Len(u) = Len(one) + Len(recent)
        /\ \A i \in 1..Len(one) : u[i] = one[i]
        /\ \A i \in 1..Len(recent) : u[Len(one) + i] = recent[i]
    <3>1. one \in Seq(Messages) /\ recent \in Seq(Messages) /\ sent \in Seq(Messages)
      BY <1>2, <1>3
    <3> QED
      BY <3>1, JoinedAt
  <2>2. recent' = u
    BY <1>1
  <2> HIDE DEF u
  <2>3. 1 \in 1..Len(one)
    BY <1>3
  <2> QED
    BY <1>3, <2>1, <2>2, <2>3
<1>5. Len(sent') = n + 1 /\ DOMAIN sent' = 1..n+1 /\ sent'[n + 1] = m /\ \A i \in 1..n : sent'[i] = sent[i]
  <2> DEFINE u == sent \o one
  <2>1. /\ Len(u) = Len(sent) + Len(one) /\ DOMAIN u = 1..(Len(sent) + Len(one))
        /\ \A i \in 1..Len(sent) : u[i] = sent[i]
        /\ \A i \in 1..Len(one) : u[Len(sent) + i] = one[i]
    <3>1. one \in Seq(Messages) /\ recent \in Seq(Messages) /\ sent \in Seq(Messages)
      BY <1>2, <1>3
    <3> QED
      BY <3>1, JoinedAt
  <2>2. sent' = u
    BY <1>1
  <2> HIDE DEF u
  <2>3. 1 \in 1..Len(one)
    BY <1>3
  <2> QED
    BY <1>3, <2>1, <2>2, <2>3
<1>6. /\ removed' = removed /\ missed \subseteq missed' /\ req[q].pc = "push"
      /\ (\E p \in Requests : Rebuilds(req[p])) => m \in missed'
  BY DEF Push, At
<1> HIDE DEF n, l, m
<1>7. ASSUME NEW x, NEW y, After(sent, x, y) PROVE After(sent', x, y)
  <2>1. PICK a \in 1..n, b \in 1..n : b < a /\ sent[a] = x /\ sent[b] = y
    BY <1>2, <1>7 DEF After
  <2>2. a \in DOMAIN sent' /\ b \in DOMAIN sent' /\ sent'[a] = x /\ sent'[b] = y
    BY <1>2, <1>5, <2>1
  <2> QED
    BY <2>1, <2>2 DEF After
<1>8. ASSUME NEW y \in Range(sent) PROVE After(sent', m, y)
  <2>1. PICK b \in 1..n : sent[b] = y
    BY <1>2, Placed
  <2>2. n + 1 \in DOMAIN sent' /\ b \in DOMAIN sent' /\ b < n + 1 /\ sent'[b] = y
    BY <1>2, <1>5, <2>1
  <2> QED
    BY <1>5, <2>2 DEF After
<1>9. \A p \in Requests : /\ req'[p].pc = "fill" => req[p].pc = "fill" /\ req'[p].rows = req[p].rows
                          /\ req[p].pc = "fill" => req'[p].pc = "fill"
  BY <1>6 DEF Now
<1>10. InFill' = InFill
  <2>1. InFill' = UNION {Range(req'[p].rows) : p \in {o \in Requests : req'[o].pc = "fill"}}
    BY DEF InFill
  <2> QED
    BY <1>9, <2>1 DEF InFill
<1>11. Range(recent') \cup InFill' \subseteq Range(sent')
  BY <1>1, <1>10 DEF Aligned, m
<1>12. ASSUME NEW i \in 1..Len(recent'), NEW j \in 1..Len(recent'), i < j, recent'[j] \notin missed'
       PROVE  After(sent', recent'[i], recent'[j])
  <2>1. j - 1 \in 1..l /\ recent'[j] = recent[j - 1]
    <3>1. j - 1 \in 1..l /\ 1 + (j - 1) = j
      BY <1>2, <1>4, <1>12
    <3> QED
      BY <1>4, <3>1
  <2>2. CASE i = 1
    <3>1. recent[j - 1] \in Range(sent)
      BY <1>2, <2>1, Placed DEF Aligned
    <3> QED
      BY <1>4, <1>8, <2>1, <2>2, <3>1
  <2>3. CASE i # 1
    <3>1. i - 1 \in 1..l /\ 1 + (i - 1) = i /\ i - 1 < j - 1
      BY <1>2, <1>4, <1>12, <2>3
    <3>2. recent'[i] = recent[i - 1]
      BY <1>4, <3>1
    <3>3. recent[j - 1] \notin missed
      BY <1>6, <1>12, <2>1
    <3>4. After(sent, recent[i - 1], recent[j - 1])
      BY <2>1, <3>1, <3>3 DEF Aligned, l
    <3> QED
      BY <1>7, <2>1, <3>2, <3>4
  <2> QED
    BY <2>2, <2>3
<1>13. ASSUME NEW p \in Requests, req'[p].pc = "fill"
       PROVE  /\ \A i, j \in 1..Len(req'[p].rows) : i < j => After(sent', req'[p].rows[i], req'[p].rows[j])
              /\ \A x \in Range(req'[p].rows), y \in Range(recent') \ missed' : After(sent', x, y)
  <2>1. req[p].pc = "fill" /\ req'[p].rows = req[p].rows /\ m \in missed'
    BY <1>6, <1>9, <1>13 DEF Rebuilds
  <2>2. Range(recent') \ missed' \subseteq Range(recent) \ missed
    BY <1>1, <1>6, <2>1 DEF m
  <2> QED
    BY <1>7, <2>1, <2>2 DEF Aligned
<1>14. ASSUME NEW i \in 1..Len(sent')
       PROVE  \/ sent'[i] \in Range(recent') \cup removed' \cup missed' \cup InFill'
              \/ i + CacheSize <= Len(sent')
  <2>1. CASE i = n + 1
    BY <1>1, <1>5, <2>1 DEF m
  <2>2. CASE i \in 1..n
    <3>1. sent'[i] = sent[i]
      BY <1>5, <2>2
    <3>2. \/ sent[i] \in Range(recent) \cup removed \cup missed \cup InFill
          \/ i + CacheSize <= n
      BY <2>2 DEF Aligned, n
    <3>3. CacheSize \in Nat
      BY ChatHistoryAssumption
    <3> QED
      BY <1>1, <1>2, <1>5, <1>6, <1>10, <2>2, <3>1, <3>2, <3>3
  <2> QED
    BY <1>2, <1>5, <2>1, <2>2
<1> QED
  BY <1>11, <1>12, <1>13, <1>14 DEF Aligned, After

\* A rebuild begins to put its entries back: it has every message that is still to be listed.
LEMMA NewestDrop ==
    ASSUME TypeInv, TypeInv', OnceInv, ~crossed, NEW q \in Requests, Drop(q), req[q].rows \in Seq(Messages),
           Now(q, IF req[q].rows = <<>> THEN "row" ELSE "fill", req[q].ids, req[q].rows)
    PROVE  Aligned'
<1> DEFINE rows == req[q].rows
           s == Without(sent, Range(rows))
           t == Reverse(rows)
           pc == IF rows = <<>> THEN "row" ELSE "fill"
<1>1. /\ req[q].pc = "drop" /\ recent' = <<>> /\ removed' = removed
      /\ missed' = missed \cup (Range(sent) \ Range(rows)) /\ sent' = s \o t
      /\ rows \in Seq(Messages) /\ Now(q, pc, req[q].ids, rows)
  BY DEF Drop, At
<1>2. s \in Seq(Messages) /\ Range(s) = Range(sent) \ Range(rows)
  <2> HIDE DEF rows
  <2> QED
    BY TypeFacts, WithoutIs
<1>3. /\ t \in Seq(Messages) /\ Range(t) = Range(rows) /\ Len(t) = Len(rows)
      /\ \A i \in 1..Len(rows) : t[Len(rows) - i + 1] = rows[i]
  <2> HIDE DEF rows
  <2> QED
    BY <1>1, Reversed
<1>4. pc = "fill" \/ rows = <<>>
  OBVIOUS
<1>5. \A p \in Requests : p # q => req'[p].pc # "fill"
  BY <1>1 DEF OnceInv, Rebuilds, Now
<1>6. InFill' = Range(rows)
  <2>1. InFill' = UNION {Range(req'[p].rows) : p \in {o \in Requests : req'[o].pc = "fill"}}
    BY DEF InFill
  <2>2. CASE pc = "fill"
    <3>1. {o \in Requests : req'[o].pc = "fill"} = {q} /\ req'[q].rows = rows
      BY <1>1, <1>5, <2>2 DEF Now
    <3> HIDE DEF rows
    <3> QED
      BY <2>1, <3>1
  <2>3. CASE rows = <<>>
    <3>1. {o \in Requests : req'[o].pc = "fill"} = {}
      BY <1>1, <1>5, <2>3 DEF Now
    <3> HIDE DEF rows
    <3> QED
      BY <2>1, <2>3, <3>1, Nothing
  <2> QED
    BY <1>4, <2>2, <2>3
<1>7. Range(sent') = Range(s) \cup Range(t)
  <2> HIDE DEF s, t
  <2> QED
    BY <1>1, <1>2, <1>3, Joined
<1>8. Len(s) \in Nat /\ Len(rows) \in Nat /\ DOMAIN rows = 1..Len(rows)
  <2> HIDE DEF s, rows
  <2> QED
    BY <1>1, <1>2, Places
<1>9. /\ DOMAIN sent' = 1..(Len(s) + Len(rows)) /\ Len(sent') = Len(s) + Len(rows)
      /\ \A i \in 1..Len(rows) : sent'[Len(s) + (Len(rows) - i + 1)] = rows[i]
  <2> HIDE DEF s, t, rows
  <2>1. /\ DOMAIN (s \o t) = 1..(Len(s) + Len(t)) /\ Len(s \o t) = Len(s) + Len(t)
        /\ \A i \in 1..Len(t) : (s \o t)[Len(s) + i] = t[i]
    <3>1. s \in Seq(Messages) /\ t \in Seq(Messages)
      BY <1>2, <1>3
    <3> QED
      BY <3>1, JoinedAt
  <2>2. \A i \in 1..Len(rows) : Len(rows) - i + 1 \in 1..Len(t)
    BY <1>3, <1>8
  <2>3. /\ DOMAIN sent' = 1..(Len(s) + Len(t)) /\ Len(sent') = Len(s) + Len(t)
        /\ \A i \in 1..Len(t) : sent'[Len(s) + i] = t[i]
    BY <1>1, <2>1
  <2> QED
    BY <1>3, <2>2, <2>3
<1> HIDE DEF s, t, rows
<1>10. ASSUME NEW i \in 1..Len(rows), NEW j \in 1..Len(rows), i < j
       PROVE  After(sent', rows[i], rows[j])
  <2> DEFINE a == Len(s) + (Len(rows) - i + 1)
             b == Len(s) + (Len(rows) - j + 1)
  <2>1. a \in DOMAIN sent' /\ b \in DOMAIN sent' /\ b < a
    BY <1>8, <1>9, <1>10
  <2>2. sent'[a] = rows[i] /\ sent'[b] = rows[j]
    BY <1>9
  <2> HIDE DEF a, b
  <2> QED
    BY <2>1, <2>2 DEF After
<1>11. Range(recent') = {} /\ Len(recent') = 0
  BY <1>1, Nothing
<1>12. Range(recent') \cup InFill' \subseteq Range(sent')
  BY <1>3, <1>6, <1>7, <1>11
<1>13. ASSUME NEW p \in Requests, req'[p].pc = "fill"
       PROVE  /\ \A i, j \in 1..Len(req'[p].rows) : i < j => After(sent', req'[p].rows[i], req'[p].rows[j])
              /\ \A x \in Range(req'[p].rows), y \in Range(recent') \ missed' : After(sent', x, y)
  <2>1. p = q /\ req'[p].rows = rows
    BY <1>1, <1>5, <1>13 DEF Now
  <2> QED
    BY <1>10, <1>11, <2>1
<1>14. ASSUME NEW i \in 1..Len(sent')
       PROVE  sent'[i] \in missed' \cup InFill'
  <2>1. sent'[i] \in Range(sent')
    BY <1>9, <1>14, Placed
  <2> QED
    BY <1>1, <1>2, <1>3, <1>6, <1>7, <2>1
<1> QED
  BY <1>11, <1>12, <1>13, <1>14 DEF Aligned, After

\* The entries put back are newer than the others on the list and older than those left.
LEMMA NewestFill ==
    ASSUME TypeInv, TypeInv', OnceInv, Aligned, ~crossed, NEW q \in Requests, Fill(q),
           NEW pc \in {"trim", "fill"}, NEW rows \in Seq(Messages), NEW front \in Seq(Messages),
           Now(q, pc, req[q].ids, rows), req[q].rows = rows \o front, recent' = front \o recent,
           Range(recent') = Range(front) \cup Range(recent),
           Range(req[q].rows) = Range(rows) \cup Range(front), pc = "trim" => rows = <<>>
    PROVE  Aligned'
<1> DEFINE n == Len(rows)
           f == Len(front)
           l == Len(recent)
<1>1. /\ req[q].pc = "fill" /\ sent' = sent /\ removed' = removed /\ missed' = missed
      /\ recent \in Seq(Messages)
  BY TypeFacts DEF Fill, At
<1>2. /\ n \in Nat /\ DOMAIN rows = 1..n /\ f \in Nat /\ DOMAIN front = 1..f
      /\ l \in Nat /\ DOMAIN recent = 1..l
  BY <1>1, Places
<1>3. /\ Len(req[q].rows) = n + f
      /\ \A i \in 1..n : req[q].rows[i] = rows[i]
      /\ \A i \in 1..f : req[q].rows[n + i] = front[i]
  <2>1. /\ Len(rows \o front) = Len(rows) + Len(front)
        /\ \A i \in 1..Len(rows) : (rows \o front)[i] = rows[i]
        /\ \A i \in 1..Len(front) : (rows \o front)[Len(rows) + i] = front[i]
    BY JoinedAt
  <2> QED
    BY <2>1
<1>4. /\ Len(recent') = f + l
      /\ \A i \in 1..f : recent'[i] = front[i]
      /\ \A i \in 1..l : recent'[f + i] = recent[i]
  <2>1. /\ Len(front \o recent) = Len(front) + Len(recent)
        /\ \A i \in 1..Len(front) : (front \o recent)[i] = front[i]
        /\ \A i \in 1..Len(recent) : (front \o recent)[Len(front) + i] = recent[i]
    BY <1>1, JoinedAt
  <2> QED
    BY <2>1
<1> HIDE DEF n, f, l
<1>5. \A p \in Requests : p # q => req[p].pc # "fill" /\ req'[p].pc # "fill"
  BY <1>1 DEF OnceInv, Rebuilds, Now
<1>6. InFill = Range(req[q].rows)
  <2>1. {p \in Requests : req[p].pc = "fill"} = {q}
    BY <1>1, <1>5
  <2> QED
    BY <2>1 DEF InFill
<1>7. InFill' = Range(rows)
  <2>1. InFill' = UNION {Range(req'[p].rows) : p \in {o \in Requests : req'[o].pc = "fill"}}
    BY DEF InFill
  <2>2. CASE pc = "fill"
    <3>1. {o \in Requests : req'[o].pc = "fill"} = {q} /\ req'[q].rows = rows
      BY <1>5, <2>2 DEF Now
    <3> QED
      BY <2>1, <3>1
  <2>3. CASE pc = "trim"
    <3>1. {o \in Requests : req'[o].pc = "fill"} = {}
      BY <1>5, <2>3 DEF Now
    <3> QED
      BY <2>1, <2>3, <3>1, Nothing
  <2> QED
    BY <2>2, <2>3
<1>8. Range(recent') \cup InFill' = Range(recent) \cup InFill
  BY <1>6, <1>7
<1>9. /\ \A i, j \in 1..n + f : i < j => After(sent, req[q].rows[i], req[q].rows[j])
      /\ \A x \in Range(req[q].rows), y \in Range(recent) \ missed : After(sent, x, y)
  BY <1>1, <1>3 DEF Aligned
<1>10. ASSUME NEW i \in 1..Len(recent'), NEW j \in 1..Len(recent'), i < j, recent'[j] \notin missed'
       PROVE  After(sent', recent'[i], recent'[j])
  <2>1. CASE j \in 1..f
    <3>1. i \in 1..f
      BY <1>2, <1>4, <1>10, <2>1
    <3>2. n + i \in 1..n + f /\ n + j \in 1..n + f /\ n + i < n + j
      BY <1>2, <1>10, <2>1, <3>1
    <3>3. After(sent, req[q].rows[n + i], req[q].rows[n + j])
      BY <1>9, <3>2
    <3> QED
      BY <1>1, <1>3, <1>4, <2>1, <3>1, <3>3
  <2>2. CASE j \notin 1..f
    <3>1. j - f \in 1..l /\ f + (j - f) = j
      BY <1>2, <1>4, <1>10, <2>2
    <3>2. recent'[j] = recent[j - f] /\ recent[j - f] \in Range(recent) \ missed
      BY <1>1, <1>2, <1>4, <1>10, <3>1, Placed
    <3>3. CASE i \in 1..f
      <4>1. recent'[i] = front[i] /\ front[i] \in Range(req[q].rows)
        BY <1>2, <1>4, <3>3, Placed
      <4> QED
        BY <1>1, <1>9, <3>2, <4>1
    <3>4. CASE i \notin 1..f
      <4>1. i - f \in 1..l /\ f + (i - f) = i /\ i - f < j - f
        BY <1>2, <1>4, <1>10, <3>1, <3>4
      <4>2. recent'[i] = recent[i - f]
        BY <1>4, <4>1
      <4>3. After(sent, recent[i - f], recent[j - f])
        BY <3>1, <3>2, <4>1 DEF Aligned, l
      <4> QED
        BY <1>1, <3>2, <4>2, <4>3
    <3> QED
      BY <3>3, <3>4
  <2> QED
    BY <2>1, <2>2
<1>11. ASSUME NEW i \in 1..n, NEW j \in 1..n, i < j PROVE After(sent, rows[i], rows[j])
  <2>1. i \in 1..n + f /\ j \in 1..n + f
    BY <1>2
  <2> QED
    BY <1>3, <1>9, <1>11, <2>1
<1>12. ASSUME NEW x \in Range(rows), NEW y \in Range(recent') \ missed PROVE After(sent, x, y)
  <2>1. CASE y \in Range(recent)
    BY <1>9, <2>1
  <2>2. CASE y \in Range(front)
    <3>1. PICK i \in 1..n : rows[i] = x
      BY <1>2, Placed
    <3>2. PICK j \in 1..f : front[j] = y
      BY <1>2, <2>2, Placed
    <3>3. i \in 1..n + f /\ n + j \in 1..n + f /\ i < n + j
      BY <1>2
    <3>4. After(sent, req[q].rows[i], req[q].rows[n + j])
      BY <1>9, <3>3
    <3> QED
      BY <1>3, <3>1, <3>2, <3>4
  <2> QED
    BY <2>1, <2>2
<1>13. ASSUME NEW p \in Requests, req'[p].pc = "fill"
       PROVE  /\ \A i, j \in 1..Len(req'[p].rows) : i < j => After(sent', req'[p].rows[i], req'[p].rows[j])
              /\ \A x \in Range(req'[p].rows), y \in Range(recent') \ missed' : After(sent', x, y)
  <2>1. p = q /\ req'[p].rows = rows
    BY <1>5, <1>13 DEF Now
  <2> QED
    BY <1>1, <1>11, <1>12, <2>1 DEF n
<1>14. ASSUME NEW i \in 1..Len(sent')
       PROVE  \/ sent'[i] \in Range(recent') \cup removed' \cup missed' \cup InFill'
              \/ i + CacheSize <= Len(sent')
  <2>1. \/ sent[i] \in Range(recent) \cup removed \cup missed \cup InFill
        \/ i + CacheSize <= Len(sent)
    BY <1>1 DEF Aligned
  <2> QED
    BY <1>1, <1>8, <2>1
<1>15. Range(recent') \cup InFill' \subseteq Range(sent')
  BY <1>1, <1>8 DEF Aligned
<1>16. \A i, j \in 1..Len(recent') : i < j /\ recent'[j] \notin missed' => After(sent', recent'[i], recent'[j])
  BY <1>10
<1>17. \A p \in Requests : req'[p].pc = "fill" =>
          /\ \A i, j \in 1..Len(req'[p].rows) : i < j => After(sent', req'[p].rows[i], req'[p].rows[j])
          /\ \A x \in Range(req'[p].rows), y \in Range(recent') \ missed' : After(sent', x, y)
  BY <1>13
<1>18. \A i \in 1..Len(sent') : \/ sent'[i] \in Range(recent') \cup removed' \cup missed' \cup InFill'
                                \/ i + CacheSize <= Len(sent')
  BY <1>14
<1> QED
  BY <1>15, <1>16, <1>17, <1>18, Zenon DEF Aligned, After

\* A step of a request that lists nothing new.
LEMMA NewestQuiet ==
    ASSUME TypeInv, TypeInv', Aligned, NEW q \in Requests, NEW pc, NEW ids, NEW rows, Now(q, pc, ids, rows),
           pc # "fill", req[q].pc # "fill" \/ Range(req[q].rows) \subseteq missed',
           sent' = sent, missed \subseteq missed', removed \subseteq removed',
           \/ recent' = recent
           \/ recent' = <<>> /\ Range(recent) \subseteq removed'
           \/ recent' = Trimmed(recent) /\ IsInjective(recent) /\ IsInjective(sent)
    PROVE  Aligned'
<1>1. \A p \in Requests :
          /\ req'[p].pc = "fill" => req[p].pc = "fill" /\ req'[p].rows = req[p].rows
          /\ req[p].pc = "fill" => req'[p].pc = "fill" \/ Range(req[p].rows) \subseteq missed'
  BY DEF Now
<1>2. recent \in Seq(Messages) /\ Len(recent) \in Nat
  BY TypeFacts, Places
<1>3. CASE recent' = recent
  BY <1>1, <1>2, <1>3, NewestKept
<1>4. CASE recent' = <<>> /\ Range(recent) \subseteq removed'
  BY <1>1, <1>2, <1>4, NewestKept, Nothing
<1>5. CASE recent' = Trimmed(recent) /\ IsInjective(recent) /\ IsInjective(sent)
  <2>1. Len(recent') <= Len(recent) /\ \A i \in 1..Len(recent') : recent'[i] = recent[i]
    BY <1>2, <1>5, TrimmedIs
  <2>2. \A i \in 1..Len(sent) :
            sent[i] \in Range(recent) => sent[i] \in Range(recent') \cup missed \/ i + CacheSize <= Len(sent)
    BY <1>5, TrimmedOld
  <2>3. \A i \in 1..Len(sent) :
            sent[i] \in Range(recent) => \/ sent[i] \in Range(recent') \cup removed' \cup missed'
                                         \/ i + CacheSize <= Len(sent)
    BY <2>2
  <2> QED
    BY <1>1, <2>1, <2>3, NewestKept
<1> QED
  BY <1>3, <1>4, <1>5

\* Every step keeps that.
LEMMA NewestStep ==
    ASSUME TypeInv, TypeInv', FreshInv, OnceInv, NewestInv, Next
    PROVE  NewestInv'
<1> SUFFICES ASSUME ~crossed'
             PROVE  Aligned'
  BY DEF NewestInv
<1>0. /\ Trace /\ ~crossed /\ Aligned /\ IsInjective(recent) /\ IsInjective(sent)
      /\ recent \in Seq(Messages) /\ sent \in Seq(Messages)
  <2>1. Trace
    BY DEF Next
  <2>2. ~crossed
    BY <2>1, CrossedNow
  <2> QED
    BY <2>1, <2>2, TypeFacts DEF NewestInv, OnceInv
<1>1. ASSUME NEW q \in Requests, Create(q) PROVE Aligned'
  <2>1. Now(q, "push", {created + 1}, <<>>)
    BY <1>0, <1>1, CreateType, NowIs
  <2>2. recent' = recent /\ sent' = sent /\ missed' = missed /\ removed \subseteq removed' /\ req[q].pc # "fill"
    BY <1>1 DEF Create, At
  <2> QED
    BY <1>0, <2>1, <2>2, NewestQuiet
<1>2. ASSUME NEW q \in Requests, Push(q) PROVE Aligned'
  <2>1. Now(q, "pushed", req[q].ids, req[q].rows)
    BY <1>0, <1>2, PushType, NowIs
  <2> QED
    BY <1>0, <1>2, <2>1, NewestPush
<1>3. ASSUME NEW q \in Requests, PushTrim(q) PROVE Aligned'
  <2>1. Now(q, "enqueue", req[q].ids, req[q].rows)
    BY <1>0, <1>3, PushTrimType, NowIs
  <2>2. recent' = Trimmed(recent) /\ sent' = sent /\ missed' = missed /\ removed \subseteq removed' /\ req[q].pc # "fill"
    BY <1>3 DEF PushTrim, At
  <2> QED
    BY <1>0, <2>1, <2>2, NewestQuiet
<1>4. ASSUME NEW q \in Requests, Enqueue(q) PROVE Aligned'
  <2>1. Now(q, "over", {}, <<>>) \/ Now(q, "insert", req[q].ids, req[q].rows)
    BY <1>0, <1>4, EnqueueType, NowIs
  <2>2. recent' = recent /\ sent' = sent /\ missed' = missed /\ removed \subseteq removed' /\ req[q].pc # "fill"
    BY <1>4 DEF Enqueue, At
  <2> QED
    BY <1>0, <2>1, <2>2, NewestQuiet
<1>5. ASSUME NEW q \in Requests, DirectInsert(q) PROVE Aligned'
  <2>1. Now(q, "over", {}, <<>>)
    BY <1>0, <1>5, DirectInsertType, NowIs
  <2>2. recent' = recent /\ sent' = sent /\ missed' = missed /\ removed \subseteq removed' /\ req[q].pc # "fill"
    BY <1>5 DEF DirectInsert, At
  <2> QED
    BY <1>0, <2>1, <2>2, NewestQuiet
<1>6. ASSUME NEW q \in Requests, ReadHistory(q) PROVE Aligned'
  <2>1. Now(q, "find", req[q].ids, req[q].rows)
    BY <1>0, <1>6, ReadHistoryType, NowIs
  <2>2. recent' = recent /\ sent' = sent /\ missed' = missed /\ removed \subseteq removed' /\ req[q].pc # "fill"
    BY <1>6 DEF ReadHistory, At
  <2> QED
    BY <1>0, <2>1, <2>2, NewestQuiet
<1>7. ASSUME NEW q \in Requests, FindRecent(q) PROVE Aligned'
  <2>1. Now(q, "over", {}, <<>>) \/ Now(q, "drop", {}, Newest)
    BY <1>0, <1>7, FindRecentType, NowIs
  <2>2. recent' = recent /\ sent' = sent /\ missed' = missed /\ removed \subseteq removed' /\ req[q].pc # "fill"
    BY <1>7 DEF FindRecent, At
  <2> QED
    BY <1>0, <2>1, <2>2, NewestQuiet
<1>8. ASSUME NEW q \in Requests, Drop(q) PROVE Aligned'
  <2>1. /\ req[q].rows \in Seq(Messages)
        /\ Now(q, IF req[q].rows = <<>> THEN "row" ELSE "fill", req[q].ids, req[q].rows)
    BY <1>0, <1>8, DropType, NowIs
  <2> QED
    BY <1>0, <1>8, <2>1, NewestDrop
<1>9. ASSUME NEW q \in Requests, Fill(q) PROVE Aligned'
  <2>1. PICK pc \in {"trim", "fill"}, rows \in Seq(Messages), front \in Seq(Messages) :
               /\ TypeInv' /\ Now(q, pc, req[q].ids, rows)
               /\ req[q].rows = rows \o front /\ recent' = front \o recent
               /\ Range(recent') = Range(front) \cup Range(recent)
               /\ Range(req[q].rows) = Range(rows) \cup Range(front)
               /\ pc = "trim" => rows = <<>>
    BY <1>0, <1>9, FillLists
  <2> QED
    BY <1>0, <1>9, <2>1, NewestFill
<1>10. ASSUME NEW q \in Requests, Trim(q) PROVE Aligned'
  <2>1. Now(q, "over", {}, <<>>) \/ Now(q, "row", req[q].ids, req[q].rows)
    BY <1>0, <1>10, TrimType, NowIs
  <2>2. recent' = Trimmed(recent) /\ sent' = sent /\ missed' = missed /\ removed \subseteq removed' /\ req[q].pc # "fill"
    BY <1>10 DEF Trim, At
  <2> QED
    BY <1>0, <2>1, <2>2, NewestQuiet
<1>11. ASSUME NEW q \in Requests, NEW m \in Messages, BeginDelete(q, m) PROVE Aligned'
  <2>1. Now(q, "keep", {m}, <<>>)
    BY <1>0, <1>11, BeginDeleteType, NowIs
  <2>2. recent' = recent /\ sent' = sent /\ missed' = missed /\ removed \subseteq removed' /\ req[q].pc # "fill"
    BY <1>11 DEF BeginDelete, At
  <2> QED
    BY <1>0, <2>1, <2>2, NewestQuiet
<1>12. ASSUME NEW q \in Requests, Keep(q) PROVE Aligned'
  <2>1. Now(q, "drop", req[q].ids, Kept(q))
    BY <1>0, <1>12, KeepType, NowIs
  <2>2. recent' = recent /\ sent' = sent /\ missed' = missed /\ removed \subseteq removed' /\ req[q].pc # "fill"
    BY <1>12 DEF Keep, At
  <2> QED
    BY <1>0, <2>1, <2>2, NewestQuiet
<1>13. ASSUME NEW q \in Requests, DeleteRow(q) PROVE Aligned'
  <2>1. Now(q, "over", {}, <<>>)
    BY <1>0, <1>13, DeleteRowType, NowIs
  <2>2. recent' = recent /\ sent' = sent /\ missed' = missed /\ removed \subseteq removed' /\ req[q].pc # "fill"
    BY <1>13 DEF DeleteRow, At
  <2> QED
    BY <1>0, <2>1, <2>2, NewestQuiet
<1>14. ASSUME NEW q \in Requests, ClearList(q) PROVE Aligned'
  <2>1. \/ Now(q, "clear", Range(recent) \cup table, <<>>) /\ recent' = <<>> /\ Range(recent) \subseteq removed'
        \/ Now(q, "clear", req[q].ids, req[q].rows) /\ recent' = recent
    BY <1>0, <1>14, ClearListType, NowIs
  <2>2. sent' = sent /\ missed' = missed /\ removed \subseteq removed' /\ req[q].pc = "new"
    BY <1>14 DEF ClearList, At
  <2> QED
    BY <1>0, <2>1, <2>2, NewestQuiet
<1>15. ASSUME NEW q \in Requests, ClearRows(q) PROVE Aligned'
  <2>1. Now(q, "over", {}, <<>>)
    BY <1>0, <1>15, ClearRowsType, NowIs
  <2>2. recent' = recent /\ sent' = sent /\ missed' = missed /\ removed \subseteq removed' /\ req[q].pc # "fill"
    BY <1>15 DEF ClearRows, At
  <2> QED
    BY <1>0, <2>1, <2>2, NewestQuiet
<1>16. ASSUME NEW q \in Requests, Break(q) PROVE Aligned'
  <2>1. Now(q, "over", {}, <<>>)
    BY <1>0, <1>16, BreakType, NowIs
  <2>2. /\ recent' = recent /\ sent' = sent /\ missed \subseteq missed' /\ removed' = removed
        /\ req[q].pc = "fill" => Range(req[q].rows) \subseteq missed'
    BY <1>16 DEF Break, At
  <2> QED
    BY <1>0, <2>1, <2>2, NewestQuiet
<1>17. ASSUME (\E m \in Messages : RunJob(m)) \/ SwitchPersistOff \/ LoseList PROVE Aligned'
  <2>1. req' = req
    BY <1>0, <1>17, OutsideType
  <2>2. /\ sent' = sent /\ missed \subseteq missed' /\ removed' = removed
        /\ recent' = recent \/ (recent' = <<>> /\ Range(sent) \subseteq missed')
    <3>1. CASE LoseList
      BY <3>1 DEF LoseList
    <3>2. CASE SwitchPersistOff
      BY <3>2 DEF SwitchPersistOff
    <3>3. CASE \E m \in Messages : RunJob(m)
      BY <3>3 DEF RunJob
    <3> QED
      BY <1>17, <3>1, <3>2, <3>3
  <2>3. \A p \in Requests :
          /\ req'[p].pc = "fill" => req[p].pc = "fill" /\ req'[p].rows = req[p].rows
          /\ req[p].pc = "fill" => req'[p].pc = "fill" \/ Range(req[p].rows) \subseteq missed'
    BY <2>1
  <2>4. Len(recent) \in Nat
    BY <1>0, Places
  <2>5. CASE recent' = recent
    BY <1>0, <2>2, <2>3, <2>4, <2>5, NewestKept
  <2>6. CASE recent' = <<>> /\ Range(sent) \subseteq missed'
    <3>1. Range(recent) \subseteq missed'
      BY <1>0, <2>6 DEF Aligned
    <3> QED
      BY <1>0, <2>2, <2>3, <2>4, <2>6, <3>1, NewestKept, Nothing
  <2> QED
    BY <2>2, <2>5, <2>6
<1> QED
  BY <1>1, <1>2, <1>3, <1>4, <1>5, <1>6, <1>7, <1>8, <1>9, <1>10, <1>11, <1>12, <1>13, <1>14, <1>15,
     <1>16, <1>17 DEF Next, Request

-------------------------------------------------------------------------------
(* The theorems.                                                             *)

Inv == TypeInv /\ FreshInv /\ RemovedInv /\ HeldInv /\ GoneInv /\ OnceInv /\ NewestInv

\* Nothing has happened at first.
LEMMA Initially == Init => Inv
<1> SUFFICES ASSUME Init PROVE Inv
  OBVIOUS
<1>1. /\ recent = <<>> /\ sent = <<>> /\ table = {} /\ jobs = {} /\ created = 0 /\ persist = TRUE
      /\ removed = {} /\ gone = {} /\ late = {} /\ held = {} /\ missed = {} /\ crossed = FALSE
      /\ req = [q \in Requests |-> new]
  BY DEF Init
<1>2. Range(recent) = {} /\ Range(sent) = {} /\ Len(sent) = 0 /\ Len(recent) = 0
  BY <1>1, Nothing
<1>3. \A q \in Requests : req[q] = new /\ req[q].pc = "new" /\ req[q].ids = {} /\ req[q].rows = <<>>
  BY <1>1, Records
<1>4. TypeInv
  <2>1. recent \in Seq(Messages) /\ sent \in Seq(Messages) /\ created \in 0..MaxMessages
    BY <1>1, Nothing, ChatHistoryAssumption
  <2>2. req \in [Requests -> ReqState] /\ \A q \in Requests : Fits(created, req[q])
    BY <1>1, Records
  <2>3. TypeOK
    BY <1>1, <2>1, <2>2 DEF TypeOK, ReqState
  <2> QED
    BY <1>2, <2>2, <2>3 DEF TypeInv
<1>5. FreshInv /\ RemovedInv /\ HeldInv
  BY <1>1, <1>3 DEF FreshInv, RemovedInv, HeldInv, Removing, Rebuilds
<1>6. GoneInv
  BY <1>1, <1>3 DEF GoneInv, Rebuilt, Rebuilds
<1>7. OnceInv
  BY <1>1, <1>3, Nothing DEF OnceInv, Rebuilds
<1>8. InFill = {}
  BY <1>3 DEF InFill
<1>9. NewestInv
  BY <1>2, <1>3, <1>8 DEF NewestInv, Aligned
<1> QED
  BY <1>4, <1>5, <1>6, <1>7, <1>9 DEF Inv

\* Every step keeps the invariant.
LEMMA InvStep == Inv /\ [Next]_vars => Inv'
<1> SUFFICES ASSUME Inv, [Next]_vars PROVE Inv'
  OBVIOUS
<1>1. CASE Next
  BY <1>1, FreshStep, GoneStep, OnceStep, NewestStep DEF Inv
<1>2. CASE UNCHANGED vars
  <2>1. /\ recent' = recent /\ table' = table /\ jobs' = jobs /\ persist' = persist /\ created' = created
        /\ req' = req /\ sent' = sent /\ removed' = removed /\ gone' = gone /\ late' = late /\ held' = held
        /\ missed' = missed /\ crossed' = crossed
    BY <1>2 DEF vars
  <2>2. TypeInv'
    BY <2>1 DEF Inv, TypeInv, TypeOK
  <2>3. FreshInv' /\ RemovedInv' /\ HeldInv' /\ GoneInv'
    BY <2>1 DEF Inv, FreshInv, RemovedInv, HeldInv, GoneInv, Known, Deletes, Rebuilds
  <2>4. OnceInv' /\ NewestInv'
    BY <2>1 DEF Inv, OnceInv, NewestInv, Aligned, InFill, Rebuilds
  <2> QED
    BY <2>2, <2>3, <2>4 DEF Inv
<1> QED
  BY <1>1, <1>2

\* The lists are lists of messages, and every message noted anywhere was created, for every number
\* of requests and messages and every size of the list (recentKey, chat_messages).
THEOREM TypeCorrect == Spec => []TypeOK
<1>1. Inv => TypeOK
  BY DEF Inv, TypeInv
<1> QED
  BY <1>1, Initially, InvStep, PTL DEF Spec

\* A deleted message comes back by a late insert or a rebuild that had read it, and in no other
\* way (ChatProcessor.process, removeFromRecentCache, backfillRecentCache).
THEOREM DeletedStaysAwayCorrect == Spec => []DeletedStaysAway
<1>1. Inv => DeletedStaysAway
  BY DEF Inv, GoneInv, DeletedStaysAway
<1> QED
  BY <1>1, Initially, InvStep, PTL DEF Spec

\* No message is listed twice unless two rebuilds were under way at once (backfillRecentCache).
THEOREM ListedOnceCorrect == Spec => []ListedOnce
<1>1. Inv => ListedOnce
  BY DEF Inv, OnceInv, ListedOnce
<1> QED
  BY <1>1, Initially, InvStep, PTL DEF Spec

\* The newest messages, as many as the list may hold, are on it unless they were removed or a
\* rebuild missed them (pushRecentCache).
THEOREM NewestListedCorrect == Spec => []NewestListed
<1>1. ASSUME Inv PROVE NewestListed
  <2> DEFINE first == IF Len(sent) > CacheSize THEN Len(sent) - CacheSize + 1 ELSE 1
  <2>1. Len(sent) \in Nat /\ CacheSize \in Nat \ {0}
    BY <1>1, TypeFacts, Places, ChatHistoryAssumption DEF Inv
  <2>2. ASSUME ~crossed, ~\E q \in Requests : Rebuilds(req[q]), NEW i \in first..Len(sent)
        PROVE  sent[i] \in Range(recent) \cup removed \cup missed
    <3>1. i \in 1..Len(sent) /\ ~(i + CacheSize <= Len(sent))
      BY <2>1, <2>2
    <3>2. InFill = {}
      BY <2>2 DEF InFill, Rebuilds
    <3>3. Aligned
      BY <1>1, <2>2 DEF Inv, NewestInv
    <3> QED
      BY <3>1, <3>2, <3>3 DEF Aligned
  <2> QED
    BY <2>2 DEF NewestListed
<1> QED
  BY <1>1, Initially, InvStep, PTL DEF Spec

===============================================================================
