---------------------------- MODULE ReactionsProofs ---------------------------
(* Proofs about Reactions, for every set of clicks, people and targets: the  *)
(* counts follow the rows, and nobody has two voices.                        *)
EXTENDS Reactions, FiniteSetTheorems, TLAPS

Row == [id : Calls \cup {Founding}, who : People, target : Targets, type : Types]
CallState == [pc : {"new", "clicked", "taking", "giving", "counted", "over"},
              who : People \cup {None}, target : Targets \cup {None}, type : Types \cup {None},
              rows : SUBSET Row, counts : [Types -> Nat], late : BOOLEAN]
Leaving == [pc : {"here", "read", "locked", "gone"}, rows : SUBSET Row, late : SUBSET Targets]

Open(k) == k.pc \notin {"new", "over"}
Sweeps(k) == k.pc \in {"taking", "giving", "counted"}
Hits(k, w, t) == Open(k) /\ k.who = w /\ k.target = t

\* A click under way knows who clicks on what, and has read rows of theirs on it.
Known(k) ==
    /\ Open(k) => /\ k.who \in People /\ k.target \in Targets /\ k.type \in Types
                  /\ \A r \in k.rows : r.who = k.who /\ r.target = k.target
    /\ Sweeps(k) => k.target \in Scams
    /\ ~Open(k) => k.rows = {}

TypeInv ==
    /\ reactions \subseteq Row /\ IsFiniteSet(reactions)
    /\ count \in [Targets -> [Types -> Nat]]
    /\ call \in [Calls -> CallState] /\ \A c \in Calls : Known(call[c])
    /\ leave \in [Members -> Leaving] /\ \A m \in Members : IsFiniteSet(leave[m].rows)

\* The click whose id a row has is over, or about to store the row.
IdsInv ==
    /\ \A r \in reactions : r.id \in Calls => call[r.id].pc = "over"
    /\ \A c \in Calls : \A r \in call[c].rows : r.id \in Calls =>
           call[r.id].pc = "over" \/ (r.id = c /\ call[c].pc = "counted")

\* One row of everyone on a post or comment, in the table and in what a click read; and one row
\* that a click is about to store.
KeysInv ==
    /\ \A r, s \in reactions : (r.who = s.who /\ r.target = s.target /\ r.target \in Counted) => r = s
    /\ \A c \in Calls : call[c].target \in Counted => \A r, s \in call[c].rows : r = s
    /\ \A c \in Calls : \A r, s \in call[c].rows : r.id = c /\ s.id = c => r = s

\* Who never had two clicks on a scam report under way has one row on it, and a click of theirs
\* will delete it.
ScamInv ==
    \A w \in People, t \in Scams : <<w, t>> \notin doubled =>
        /\ \A c, d \in Calls : Hits(call[c], w, t) /\ Hits(call[d], w, t) => c = d
        /\ \A r, s \in Mine(w, {t}) : r = s
        /\ \A c \in Calls : Hits(call[c], w, t) /\ Sweeps(call[c]) => Mine(w, {t}) \subseteq call[c].rows

\* The rows that the removal of a member has read are those of the member, but for targets
\* clicked meanwhile.
LeaveInv ==
    \A m \in Members : leave[m].pc \in {"read", "locked"} =>
        /\ \A r \in leave[m].rows : r.target \in (IF leave[m].pc = "read" THEN Posts ELSE Counted)
        /\ \A t \in (IF leave[m].pc = "read" THEN Posts ELSE Counted) \ leave[m].late :
               {r \in leave[m].rows : r.target = t} = Mine(m, {t})

\* Who is gone has no rows, and no click about to change any.
GoneInv ==
    /\ \A r \in reactions : ~Gone(r.who)
    /\ \A c \in Calls : call[c].pc = "counted" /\ Gone(call[c].who) => call[c].rows = {}

\* The table after the click c has stored what it is about to store.
After(c) == (reactions \ call[c].rows) \cup {r \in call[c].rows : r.id = c}

\* Counts read that nobody has changed since are those of the rows to come.
HeldInv ==
    \A c \in Calls : call[c].pc = "counted" /\ ~call[c].late =>
        call[c].counts = On(After(c), call[c].target)

CountInv ==
    \A t \in Targets \ excused :
        /\ count[t] = On(reactions, t)
        /\ t \in Posts => (t \in best <=> t \in earned)

Inv == TypeInv /\ IdsInv /\ KeysInv /\ ScamInv /\ LeaveInv /\ GoneInv /\ HeldInv /\ CountInv

-------------------------------------------------------------------------------
(* Counting rows.                                                            *)

\* The counts of a target depend on its rows only.
LEMMA OnSame ==
    ASSUME NEW A, NEW B, NEW t, {r \in A : r.target = t} = {r \in B : r.target = t}
    PROVE  On(A, t) = On(B, t)
<1>1. ASSUME NEW y \in Types
      PROVE  {r \in A : r.target = t /\ r.type = y} = {r \in B : r.target = t /\ r.type = y}
  OBVIOUS
<1> QED
  BY <1>1 DEF On

\* Counts of finitely many rows are numbers.
LEMMA OnType ==
    ASSUME NEW A, IsFiniteSet(A), NEW t
    PROVE  On(A, t) \in [Types -> Nat]
<1>1. ASSUME NEW y \in Types PROVE Cardinality({r \in A : r.target = t /\ r.type = y}) \in Nat
  <2>1. IsFiniteSet({r \in A : r.target = t /\ r.type = y})
    BY FS_Subset
  <2> QED
    BY <2>1, FS_CardinalityType
<1> QED
  BY <1>1 DEF On

\* Rows that go are taken off the counts.
LEMMA OnLess ==
    ASSUME NEW A, IsFiniteSet(A), NEW B \in SUBSET A, NEW t, NEW y \in Types
    PROVE  On(A \ B, t)[y] = On(A, t)[y] - On(B, t)[y]
<1> DEFINE S(X) == {r \in X : r.target = t /\ r.type = y}
<1>1. IsFiniteSet(S(A)) /\ S(A \ B) = S(A) \ S(B) /\ S(A) \cap S(B) = S(B)
  BY FS_Subset
<1>2. Cardinality(S(A) \ S(B)) = Cardinality(S(A)) - Cardinality(S(A) \cap S(B))
  <2> HIDE DEF S
  <2> QED
    BY <1>1, FS_Difference
<1>3. /\ On(A \ B, t)[y] = Cardinality(S(A \ B))
      /\ On(A, t)[y] = Cardinality(S(A)) /\ On(B, t)[y] = Cardinality(S(B))
  BY DEF On
<1> HIDE DEF S
<1> QED
  BY <1>1, <1>2, <1>3

\* Rows that come are added.
LEMMA OnMore ==
    ASSUME NEW A, IsFiniteSet(A), NEW B, IsFiniteSet(B), A \cap B = {}, NEW t, NEW y \in Types
    PROVE  On(A \cup B, t)[y] = On(A, t)[y] + On(B, t)[y]
<1> DEFINE S(X) == {r \in X : r.target = t /\ r.type = y}
<1>1. /\ IsFiniteSet(S(A)) /\ IsFiniteSet(S(B))
      /\ S(A \cup B) = S(A) \cup S(B) /\ S(A) \cap S(B) = {}
  BY FS_Subset
<1>2. Cardinality(S(A) \cup S(B)) = Cardinality(S(A)) + Cardinality(S(B)) - Cardinality(S(A) \cap S(B))
  <2> HIDE DEF S
  <2> QED
    BY <1>1, FS_Union
<1>3. Cardinality(S(A) \cap S(B)) = 0 /\ Cardinality(S(A)) \in Nat /\ Cardinality(S(B)) \in Nat
  <2> HIDE DEF S
  <2> QED
    BY <1>1, FS_EmptySet, FS_CardinalityType
<1>4. /\ On(A \cup B, t)[y] = Cardinality(S(A \cup B))
      /\ On(A, t)[y] = Cardinality(S(A)) /\ On(B, t)[y] = Cardinality(S(B))
  BY DEF On
<1> HIDE DEF S
<1>5. Cardinality(S(A \cup B)) = Cardinality(S(A)) + Cardinality(S(B))
  <2>1. Cardinality(S(A \cup B)) = Cardinality(S(A) \cup S(B))
    BY <1>1
  <2> DEFINE a == Cardinality(S(A))
             b == Cardinality(S(B))
  <2>2. /\ Cardinality(S(A) \cup S(B)) = a + b - Cardinality(S(A) \cap S(B))
        /\ Cardinality(S(A) \cap S(B)) = 0 /\ a \in Nat /\ b \in Nat
    BY <1>2, <1>3
  <2> HIDE DEF a, b
  <2>3. Cardinality(S(A) \cup S(B)) = a + b
    BY <2>2
  <2> QED
    BY <2>1, <2>3 DEF a, b
<1> QED
  BY <1>4, <1>5

\* A set whose members are all one is empty or has one member.
LEMMA OneOrNone ==
    ASSUME NEW S, \A x, y \in S : x = y
    PROVE  /\ IsFiniteSet(S) /\ Cardinality(S) <= 1
           /\ S = {} \/ \E x : S = {x}
<1>1. CASE S = {}
  BY <1>1, FS_EmptySet
<1>2. CASE S # {}
  <2>1. PICK x \in S : S = {x}
    BY <1>2
  <2> QED
    BY <2>1, FS_Singleton
<1> QED
  BY <1>1, <1>2

\* The counts of no row, ...
LEMMA OnNone == \A t : \A y \in Types : On({}, t)[y] = 0
<1>1. ASSUME NEW t, NEW y \in Types PROVE On({}, t)[y] = 0
  <2>1. {r \in {} : r.target = t /\ r.type = y} = {}
    OBVIOUS
  <2> QED
    BY <2>1, FS_EmptySet DEF On
<1> QED
  BY <1>1

\* ... and of one.
LEMMA OnOne ==
    ASSUME NEW r, NEW t, r.target = t, NEW y \in Types
    PROVE  On({r}, t)[y] = IF r.type = y THEN 1 ELSE 0
<1> DEFINE S == {s \in {r} : s.target = t /\ s.type = y}
<1>1. On({r}, t)[y] = Cardinality(S)
  BY DEF On
<1>2. CASE r.type = y
  <2>1. S = {r}
    BY <1>2
  <2> QED
    BY <1>1, <1>2, <2>1, FS_Singleton
<1>3. CASE r.type # y
  <2>1. S = {}
    BY <1>3
  <2> QED
    BY <1>1, <1>3, <2>1, FS_EmptySet
<1> QED
  BY <1>2, <1>3

-------------------------------------------------------------------------------
(* Steps that change one click or one removal only.                          *)

\* A step in which the click c moves, and rows and counts stay.
LEMMA CallOnly ==
    ASSUME Inv, NEW c \in Calls, NEW k \in CallState, Known(k),
           call' = [call EXCEPT ![c] = k], call[c].pc # "over", k.pc # "over",
           UNCHANGED <<reactions, count, best, leave, earned, excused>>,
           doubled \subseteq doubled',
           \A r \in k.rows : r.id \in Calls => call[r.id].pc = "over" \/ (r.id = c /\ k.pc = "counted"),
           k.target \in Counted => \A r, s \in k.rows : r = s,
           \A r, s \in k.rows : r.id = c /\ s.id = c => r = s,
           \A w \in People, t \in Scams : Hits(k, w, t) /\ <<w, t>> \notin doubled' =>
               /\ \A d \in Calls \ {c} : ~Hits(call[d], w, t)
               /\ Sweeps(k) => Mine(w, {t}) \subseteq k.rows,
           k.pc = "counted" /\ Gone(k.who) => k.rows = {},
           k.pc = "counted" /\ ~k.late =>
               k.counts = On((reactions \ k.rows) \cup {r \in k.rows : r.id = c}, k.target)
    PROVE  Inv'
<1>1. /\ call'[c] = k /\ call' \in [Calls -> CallState]
      /\ \A d \in Calls : d # c => call'[d] = call[d]
  BY DEF Inv, TypeInv
<1>2. TypeInv'
  BY <1>1 DEF Inv, TypeInv, Known, Open, Sweeps
<1>3. IdsInv'
  <2>1. \A r \in reactions' : r.id \in Calls => call'[r.id].pc = "over"
    BY <1>1 DEF Inv, IdsInv
  <2>2. ASSUME NEW d \in Calls, NEW r \in call'[d].rows, r.id \in Calls
        PROVE  call'[r.id].pc = "over" \/ (r.id = d /\ call'[d].pc = "counted")
    <3>1. CASE d = c
      BY <1>1, <2>2, <3>1
    <3>2. CASE d # c
      BY <1>1, <2>2, <3>2 DEF Inv, IdsInv
    <3> QED
      BY <3>1, <3>2
  <2> QED
    BY <2>1, <2>2 DEF IdsInv
<1>4. KeysInv'
  BY <1>1 DEF Inv, KeysInv
<1>5. ScamInv'
  <2>1. \A w \in People, t \in Scams : Mine(w, {t})' = Mine(w, {t})
    BY DEF Mine
  <2>2. \A d \in Calls, w \in People, t \in Scams :
           Hits(call[d], w, t)' <=> IF d = c THEN Hits(k, w, t) ELSE Hits(call[d], w, t)
    BY <1>1 DEF Hits, Open
  <2>3. \A d \in Calls : Sweeps(call[d])' <=> IF d = c THEN Sweeps(k) ELSE Sweeps(call[d])
    BY <1>1 DEF Sweeps
  <2>4. ASSUME NEW w \in People, NEW t \in Scams, <<w, t>> \notin doubled'
        PROVE  /\ \A d, e \in Calls : Hits(call[d], w, t)' /\ Hits(call[e], w, t)' => d = e
               /\ \A r, s \in Mine(w, {t})' : r = s
               /\ \A d \in Calls : Hits(call[d], w, t)' /\ Sweeps(call[d])' =>
                      Mine(w, {t})' \subseteq call'[d].rows
    <3>1. <<w, t>> \notin doubled
      BY <2>4
    <3>2. /\ \A d, e \in Calls : Hits(call[d], w, t) /\ Hits(call[e], w, t) => d = e
          /\ \A r, s \in Mine(w, {t}) : r = s
          /\ \A d \in Calls : Hits(call[d], w, t) /\ Sweeps(call[d]) =>
                      Mine(w, {t}) \subseteq call[d].rows
      BY <3>1 DEF Inv, ScamInv
    <3>3. \A d, e \in Calls : Hits(call[d], w, t)' /\ Hits(call[e], w, t)' => d = e
      BY <2>2, <2>4, <3>2
    <3>4. \A r, s \in Mine(w, {t})' : r = s
      BY <2>1, <3>2
    <3>5. ASSUME NEW d \in Calls, Hits(call[d], w, t)', Sweeps(call[d])'
          PROVE  Mine(w, {t})' \subseteq call'[d].rows
      <4>1. CASE d = c
        <5>1. Hits(k, w, t) /\ Sweeps(k)
          BY <2>2, <2>3, <3>5, <4>1
        <5> QED
          BY <1>1, <2>1, <2>4, <4>1, <5>1
      <4>2. CASE d # c
        <5>1. Hits(call[d], w, t) /\ Sweeps(call[d])
          BY <2>2, <2>3, <3>5, <4>2
        <5> QED
          BY <1>1, <2>1, <3>2, <4>2, <5>1
      <4> QED
        BY <4>1, <4>2
    <3> QED
      BY <3>3, <3>4, <3>5
  <2> QED
    BY <2>4 DEF ScamInv
<1>6. LeaveInv'
  BY DEF Inv, LeaveInv, Mine
<1>7. GoneInv'
  BY <1>1 DEF Inv, GoneInv, Gone
<1>8. HeldInv'
  <2>1. ASSUME NEW d \in Calls, call'[d].pc = "counted", ~call'[d].late
        PROVE  call'[d].counts = On(After(d)', call'[d].target)
    <3>1. CASE d = c
      BY <1>1, <2>1, <3>1 DEF After
    <3>2. CASE d # c
      <4>1. call'[d] = call[d] /\ After(d)' = After(d)
        BY <1>1, <3>2 DEF After
      <4> QED
        BY <2>1, <4>1 DEF Inv, HeldInv
    <3> QED
      BY <3>1, <3>2
  <2> QED
    BY <2>1 DEF HeldInv, On
<1>9. CountInv'
  BY DEF Inv, CountInv, On
<1> QED
  BY <1>2, <1>3, <1>4, <1>5, <1>6, <1>7, <1>8, <1>9 DEF Inv

\* A click reads the one row there may be, and is written down when it is not the only one.
LEMMA ClickStep ==
    ASSUME Inv, NEW c \in Calls, NEW w \in People, NEW t \in Targets, NEW type \in Types,
           Click(c, w, t, type)
    PROVE  Inv'
<1> DEFINE k == [NewCall EXCEPT !.pc = "clicked", !.who = w, !.target = t, !.type = type,
                                !.rows = Mine(w, {t})]
<1>1. /\ call[c].pc = "new" /\ call' = [call EXCEPT ![c] = k]
      /\ doubled' = IF \E d \in Calls : call[d].pc # "over" /\ call[d].who = w /\ call[d].target = t
                    THEN doubled \cup {<<w, t>>} ELSE doubled
      /\ UNCHANGED <<reactions, count, best, leave, earned, excused>>
  BY DEF Click
<1>2. /\ k \in CallState /\ k.pc = "clicked" /\ k.who = w /\ k.target = t /\ k.type = type
      /\ k.rows = Mine(w, {t}) /\ Mine(w, {t}) \subseteq reactions
      /\ \A r \in k.rows : r.who = w /\ r.target = t
  BY DEF NewCall, CallState, Mine, Inv, TypeInv
<1> HIDE DEF k
<1>3. Known(k)
  BY <1>2 DEF Known, Open, Sweeps
<1>4. \A r \in k.rows : r.id \in Calls => call[r.id].pc = "over"
  BY <1>2 DEF Inv, IdsInv
<1>5. k.target \in Counted => \A r, s \in k.rows : r = s
  BY <1>2 DEF Inv, KeysInv, Mine
<1>6. \A r, s \in k.rows : r.id = c /\ s.id = c => r = s
  BY <1>1, <1>4
<1>7. ASSUME NEW v \in People, NEW u \in Scams, Hits(k, v, u), <<v, u>> \notin doubled'
      PROVE  /\ \A d \in Calls \ {c} : ~Hits(call[d], v, u)
             /\ ~Sweeps(k)
  BY <1>1, <1>2, <1>7 DEF Hits, Open, Sweeps
<1> QED
  BY <1>1, <1>2, <1>3, <1>4, <1>5, <1>6, <1>7, CallOnly

\* On a scam report the rows are read once more.
LEMMA SweepStep ==
    ASSUME Inv, NEW c \in Calls, Sweep(c)
    PROVE  Inv'
<1> DEFINE h == call[c]
<1> DEFINE k == [h EXCEPT !.pc = IF Again(h) THEN "taking" ELSE "giving", !.rows = Mine(h.who, {h.target})]
<1>1. /\ h.pc = "clicked" /\ h.target \in Scams
      /\ UNCHANGED <<reactions, count, best, leave, earned, doubled, excused>>
  BY DEF Sweep
<1>2. call' = [call EXCEPT ![c] = k]
  BY DEF Sweep, Inv, TypeInv
<1>3. h \in CallState /\ Known(h) /\ Open(h)
  BY <1>1 DEF Inv, TypeInv, Open
<1>4. /\ k \in CallState /\ k.pc \in {"taking", "giving"} /\ k.who = h.who /\ k.target = h.target
      /\ k.type = h.type
      /\ k.rows = Mine(h.who, {h.target}) /\ Mine(h.who, {h.target}) \subseteq reactions
      /\ \A r \in k.rows : r.who = h.who /\ r.target = h.target
  BY <1>3 DEF CallState, Mine, Inv, TypeInv
<1> HIDE DEF k
<1>5. Known(k)
  BY <1>1, <1>3, <1>4 DEF Known, Open, Sweeps
<1>6. \A r \in k.rows : r.id \in Calls => call[r.id].pc = "over"
  BY <1>4 DEF Inv, IdsInv
<1>7. k.target \notin Counted
  BY <1>1, <1>4, ReactionsAssumption DEF Counted
<1>8. \A r, s \in k.rows : r.id = c /\ s.id = c => r = s
  BY <1>1, <1>6
<1>9. ASSUME NEW v \in People, NEW u \in Scams, Hits(k, v, u), <<v, u>> \notin doubled'
      PROVE  /\ \A d \in Calls \ {c} : ~Hits(call[d], v, u)
             /\ Mine(v, {u}) \subseteq k.rows
  <2>1. Hits(call[c], v, u) /\ <<v, u>> \notin doubled
    BY <1>1, <1>3, <1>4, <1>9 DEF Hits
  <2>2. \A d \in Calls \ {c} : ~Hits(call[d], v, u)
    BY <2>1 DEF Inv, ScamInv
  <2> QED
    BY <1>4, <1>9, <2>2 DEF Hits
<1> QED
  BY <1>1, <1>2, <1>4, <1>5, <1>6, <1>7, <1>8, <1>9, CallOnly

\* It deletes the rows it has read, counts what will be there, ...
LEMMA CountStep ==
    ASSUME Inv, NEW c \in Calls, Count(c)
    PROVE  Inv'
<1> DEFINE h == call[c]
           row == [id |-> c, who |-> h.who, target |-> h.target, type |-> h.type]
           came == IF h.pc = "giving" THEN {row} ELSE {}
           counts == On((reactions \ Deletes(c)) \cup came, h.target)
           k == [h EXCEPT !.pc = "counted", !.rows = Deletes(c) \cup came, !.counts = counts]
<1>1. /\ h.pc \in {"taking", "giving"} /\ ~(Gone(h.who) /\ came # {})
      /\ call' = [call EXCEPT ![c] = k]
      /\ UNCHANGED <<reactions, count, best, leave, earned, doubled, excused>>
  BY DEF Count
<1>2. /\ h \in CallState /\ Known(h) /\ Open(h) /\ Sweeps(h)
      /\ h.who \in People /\ h.target \in Scams /\ h.target \in Targets /\ h.type \in Types
      /\ \A r \in h.rows : r.who = h.who /\ r.target = h.target
  BY <1>1 DEF Inv, TypeInv, Open, Known, Sweeps
<1>3. /\ row \in Row /\ row.id = c /\ row.who = h.who /\ row.target = h.target
      /\ row \notin reactions
  BY <1>1, <1>2 DEF Row, Inv, IdsInv
<1>4. counts \in [Types -> Nat]
  <2>1. IsFiniteSet((reactions \ Deletes(c)) \cup came)
    BY FS_Subset, FS_AddElement, FS_EmptySet DEF Inv, TypeInv
  <2> QED
    BY <2>1, OnType
<1>5. /\ Deletes(c) \subseteq reactions /\ Deletes(c) \subseteq h.rows /\ Deletes(c) = reactions \cap h.rows
      /\ \A r \in came : r = row
  BY DEF Deletes
<1> HIDE DEF counts, row, came
<1>6. /\ k \in CallState /\ k.pc = "counted" /\ k.who = h.who /\ k.target = h.target /\ k.type = h.type
      /\ k.rows = Deletes(c) \cup came /\ k.counts = counts
  BY <1>2, <1>3, <1>4, <1>5 DEF CallState
<1> HIDE DEF k
<1>7. Known(k)
  BY <1>2, <1>3, <1>5, <1>6 DEF Known, Open, Sweeps
<1>8. \A r \in Deletes(c) : r.id # c /\ (r.id \in Calls => call[r.id].pc = "over")
  BY <1>1, <1>5 DEF Inv, IdsInv
<1>9. k.target \notin Counted
  BY <1>2, <1>6, ReactionsAssumption DEF Counted
<1>10. \A r \in k.rows : r.id \in Calls => call[r.id].pc = "over" \/ r.id = c
  BY <1>3, <1>5, <1>6, <1>8
<1>11. \A r, s \in k.rows : r.id = c /\ s.id = c => r = s
  BY <1>5, <1>6, <1>8
<1>12. ASSUME NEW v \in People, NEW u \in Scams, Hits(k, v, u), <<v, u>> \notin doubled'
      PROVE  /\ \A d \in Calls \ {c} : ~Hits(call[d], v, u)
             /\ Mine(v, {u}) \subseteq k.rows
  <2>1. Hits(call[c], v, u) /\ <<v, u>> \notin doubled
    BY <1>1, <1>2, <1>6, <1>12 DEF Hits
  <2>2. Mine(v, {u}) \subseteq call[c].rows /\ \A d \in Calls \ {c} : ~Hits(call[d], v, u)
    BY <1>2, <2>1 DEF Inv, ScamInv
  <2>3. Mine(v, {u}) \subseteq reactions
    BY DEF Mine
  <2> QED
    BY <1>5, <1>6, <2>2, <2>3
<1>13. Gone(k.who) => k.rows = {}
  <2>1. \A r \in reactions : ~Gone(r.who)
    BY DEF Inv, GoneInv
  <2> QED
    BY <1>1, <1>2, <1>5, <1>6, <2>1
<1>14. (reactions \ k.rows) \cup {r \in k.rows : r.id = c} = (reactions \ Deletes(c)) \cup came
  BY <1>3, <1>5, <1>6, <1>8
<1>15. k.counts = On((reactions \ k.rows) \cup {r \in k.rows : r.id = c}, k.target)
  BY <1>6, <1>14 DEF counts
<1> QED
  BY <1>1, <1>6, <1>7, <1>9, <1>10, <1>11, <1>12, <1>13, <1>15, CallOnly

\* ... the dislikes, it may be, once more ...
LEMMA CountDislikesStep ==
    ASSUME Inv, NEW c \in Calls, CountDislikes(c)
    PROVE  Inv'
<1> DEFINE h == call[c]
           rows == (reactions \ h.rows) \cup {r \in h.rows : r.id = c}
           counts == [h.counts EXCEPT !["dislike"] = On(rows, h.target)["dislike"]]
           k == [h EXCEPT !.counts = counts]
<1>1. /\ h.pc = "counted" /\ h.late
      /\ call' = [call EXCEPT ![c] = k]
      /\ UNCHANGED <<reactions, count, best, leave, earned, doubled, excused>>
  BY DEF CountDislikes, Inv, TypeInv
<1>2. /\ h \in CallState /\ Known(h) /\ Open(h) /\ Sweeps(h) /\ h.target \in Scams
  BY <1>1 DEF Inv, TypeInv, Open, Known, Sweeps
<1>3. counts \in [Types -> Nat]
  <2> DEFINE A == reactions \ h.rows
             B == {r \in h.rows : r.id = c}
  <2>1. \A r, s \in B : r = s
    BY DEF Inv, KeysInv
  <2>2. IsFiniteSet(A)
    BY FS_Subset DEF Inv, TypeInv
  <2>3. rows = A \cup B
    OBVIOUS
  <2> HIDE DEF A, B, rows
  <2>4. IsFiniteSet(B)
    <3>1. CASE B = {}
      BY <3>1, FS_EmptySet
    <3>2. CASE B # {}
      <4>1. PICK x : B = {x}
        BY <2>1, <3>2
      <4> QED
        BY <4>1, FS_Singleton
    <3> QED
      BY <3>1, <3>2
  <2>5. IsFiniteSet(rows)
    BY <2>2, <2>3, <2>4, FS_Union
  <2>6. On(rows, h.target) \in [Types -> Nat] /\ h.counts \in [Types -> Nat]
    BY <1>2, <2>5, OnType DEF CallState
  <2> HIDE DEF h
  <2>7. "dislike" \in Types
    BY DEF Types
  <2> QED
    BY <2>6, <2>7
<1> HIDE DEF counts
<1>4. /\ k \in CallState /\ k.pc = "counted" /\ k.who = h.who /\ k.target = h.target
      /\ k.type = h.type /\ k.rows = h.rows /\ k.late
  BY <1>1, <1>2, <1>3 DEF CallState
<1> HIDE DEF k
<1>5. Known(k)
  BY <1>2, <1>4 DEF Known, Open, Sweeps
<1>6. k.target \notin Counted
  BY <1>2, <1>4, ReactionsAssumption DEF Counted
<1>7. /\ \A r \in k.rows : r.id \in Calls => call[r.id].pc = "over" \/ r.id = c
      /\ \A r, s \in k.rows : r.id = c /\ s.id = c => r = s
  BY <1>4 DEF Inv, IdsInv, KeysInv
<1>8. ASSUME NEW v \in People, NEW u \in Scams, Hits(k, v, u), <<v, u>> \notin doubled'
      PROVE  /\ \A d \in Calls \ {c} : ~Hits(call[d], v, u)
             /\ Mine(v, {u}) \subseteq k.rows
  <2>1. Hits(call[c], v, u) /\ <<v, u>> \notin doubled
    BY <1>1, <1>2, <1>4, <1>8 DEF Hits
  <2> QED
    BY <1>2, <1>4, <2>1 DEF Inv, ScamInv
<1>9. Gone(k.who) => k.rows = {}
  BY <1>1, <1>4 DEF Inv, GoneInv
<1> QED
  BY <1>1, <1>4, <1>5, <1>6, <1>7, <1>8, <1>9, CallOnly

\* ... or fails when the member is gone, and counts what is there.
LEMMA FailStep ==
    ASSUME Inv, NEW c \in Calls, Fail(c)
    PROVE  Inv'
<1> DEFINE h == call[c]
           k == [h EXCEPT !.pc = "counted", !.rows = {}, !.counts = On(reactions, h.target)]
<1>1. /\ h.pc = "giving" /\ Gone(h.who)
      /\ call' = [call EXCEPT ![c] = k]
      /\ UNCHANGED <<reactions, count, best, leave, earned, doubled, excused>>
  BY DEF Fail
<1>2. /\ h \in CallState /\ Known(h) /\ Open(h) /\ Sweeps(h)
      /\ h.who \in People /\ h.target \in Scams /\ h.target \in Targets /\ h.type \in Types
  BY <1>1 DEF Inv, TypeInv, Open, Known, Sweeps
<1>3. On(reactions, h.target) \in [Types -> Nat]
  BY OnType DEF Inv, TypeInv
<1>4. /\ k \in CallState /\ k.pc = "counted" /\ k.who = h.who /\ k.target = h.target /\ k.type = h.type
      /\ k.rows = {} /\ k.counts = On(reactions, h.target)
  BY <1>2, <1>3 DEF CallState
<1> HIDE DEF k
<1>5. Known(k)
  BY <1>2, <1>4 DEF Known, Open, Sweeps
<1>6. ASSUME NEW v \in People, NEW u \in Scams, Hits(k, v, u), <<v, u>> \notin doubled'
      PROVE  /\ \A d \in Calls \ {c} : ~Hits(call[d], v, u)
             /\ Mine(v, {u}) \subseteq k.rows
  <2>1. Hits(call[c], v, u) /\ <<v, u>> \notin doubled
    BY <1>1, <1>2, <1>4, <1>6 DEF Hits
  <2>2. \A d \in Calls \ {c} : ~Hits(call[d], v, u)
    BY <2>1 DEF Inv, ScamInv
  <2>3. Mine(v, {u}) = {}
    BY <1>1, <2>1 DEF Inv, GoneInv, Mine, Hits
  <2> QED
    BY <2>2, <2>3
<1>7. (reactions \ k.rows) \cup {r \in k.rows : r.id = c} = reactions
  BY <1>4
<1>8. k.counts = On((reactions \ k.rows) \cup {r \in k.rows : r.id = c}, k.target)
  BY <1>4, <1>7
<1> QED
  BY <1>1, <1>4, <1>5, <1>6, <1>8, CallOnly

\* The removal of a member reads rows of the member.
LEMMA ReadStep ==
    ASSUME Inv, NEW m \in Members, ReadPosts(m) \/ ReadComments(m)
    PROVE  Inv'
<1>1. UNCHANGED <<reactions, count, best, call, earned, doubled, excused>>
  BY DEF ReadPosts, ReadComments
<1>2. \A S : Mine(m, S) \subseteq Row /\ IsFiniteSet(Mine(m, S))
  BY FS_Subset DEF Mine, Inv, TypeInv
<1>3. PICK k \in Leaving :
        /\ leave' = [leave EXCEPT ![m] = k]
        /\ leave[m].pc # "gone" /\ k.pc \in {"read", "locked"} /\ IsFiniteSet(k.rows)
        /\ \A r \in k.rows : r.target \in (IF k.pc = "read" THEN Posts ELSE Counted)
        /\ \A t \in (IF k.pc = "read" THEN Posts ELSE Counted) \ k.late :
               {r \in k.rows : r.target = t} = Mine(m, {t})
  <2>1. CASE ReadPosts(m)
    <3> DEFINE k == [pc |-> "read", rows |-> Mine(m, Posts), late |-> {}]
    <3>1. k \in Leaving /\ k.pc = "read" /\ k.rows = Mine(m, Posts) /\ IsFiniteSet(k.rows)
      BY <1>2 DEF Leaving
    <3>2. leave' = [leave EXCEPT ![m] = k] /\ leave[m].pc # "gone"
      BY <2>1 DEF ReadPosts
    <3> HIDE DEF k
    <3> QED
      BY <3>1, <3>2 DEF Mine
  <2>2. CASE ReadComments(m)
    <3> DEFINE h == leave[m]
               k == [h EXCEPT !.pc = "locked", !.rows = @ \cup Mine(m, Comments)]
    <3>1. h \in Leaving /\ h.pc = "read" /\ IsFiniteSet(h.rows)
      BY <2>2 DEF ReadComments, Inv, TypeInv
    <3>2. /\ k \in Leaving /\ k.pc = "locked" /\ k.rows = h.rows \cup Mine(m, Comments) /\ k.late = h.late
      BY <1>2, <3>1 DEF Leaving
    <3>3. IsFiniteSet(k.rows)
      <4> DEFINE A == h.rows
                 B == Mine(m, Comments)
      <4>1. IsFiniteSet(A) /\ IsFiniteSet(B)
        BY <1>2, <3>1
      <4> HIDE DEF A, B
      <4>2. IsFiniteSet(A \cup B)
        BY <4>1, FS_Union
      <4> QED
        BY <3>2, <4>2 DEF A, B
    <3>4. leave' = [leave EXCEPT ![m] = k] /\ leave[m].pc # "gone"
      BY <2>2 DEF ReadComments, Inv, TypeInv
    <3> HIDE DEF k
    <3>5. /\ \A r \in h.rows : r.target \in Posts
          /\ \A t \in Posts \ h.late : {r \in h.rows : r.target = t} = Mine(m, {t})
      BY <3>1 DEF Inv, LeaveInv
    <3>6. \A r \in k.rows : r.target \in Counted
      BY <3>2, <3>5 DEF Mine, Counted
    <3>7. ASSUME NEW t \in Counted \ k.late PROVE {r \in k.rows : r.target = t} = Mine(m, {t})
      <4>1. CASE t \in Posts
        <5>1. \A r \in Mine(m, Comments) : r.target # t
          BY <4>1, ReactionsAssumption DEF Mine
        <5>2. {r \in k.rows : r.target = t} = {r \in h.rows : r.target = t}
          BY <3>2, <5>1
        <5> QED
          BY <3>2, <3>5, <3>7, <4>1, <5>2
      <4>2. CASE t \in Comments
        <5>1. \A r \in h.rows : r.target # t
          BY <3>5, <4>2, ReactionsAssumption
        <5> QED
          BY <3>2, <4>2, <5>1 DEF Mine
      <4> QED
        BY <4>1, <4>2 DEF Counted
    <3> QED
      BY <3>2, <3>3, <3>4, <3>6, <3>7
  <2> QED
    BY <2>1, <2>2
<1>4. /\ leave'[m] = k /\ leave' \in [Members -> Leaving]
      /\ \A n \in Members : n # m => leave'[n] = leave[n]
  BY <1>3 DEF Inv, TypeInv
<1>5. \A w : Gone(w)' <=> Gone(w)
  BY <1>3, <1>4 DEF Gone
<1>6. TypeInv'
  BY <1>1, <1>3, <1>4 DEF Inv, TypeInv, Known, Open, Sweeps
<1>7. LeaveInv'
  BY <1>1, <1>3, <1>4 DEF Inv, LeaveInv, Mine
<1>8. IdsInv' /\ KeysInv' /\ HeldInv' /\ CountInv'
  BY <1>1 DEF Inv, IdsInv, KeysInv, HeldInv, After, CountInv, On
<1>9. ScamInv'
  BY <1>1 DEF Inv, ScamInv, Hits, Open, Sweeps, Mine
<1>10. GoneInv'
  BY <1>1, <1>5 DEF Inv, GoneInv
<1> QED
  BY <1>6, <1>7, <1>8, <1>9, <1>10 DEF Inv

-------------------------------------------------------------------------------
(* Clicks on posts and comments.                                             *)

\* The rows left, of one person on one target, go, and one row at most comes in their place.
Swaps(c, w, t, left, came) ==
    /\ left \subseteq reactions /\ came \subseteq Row
    /\ \A r \in left \cup came : r.who = w /\ r.target = t
    /\ \A r, s \in came : r = s
    /\ came # {} => Mine(w, {t}) \subseteq left /\ ~Gone(w)
    /\ \A r \in came : r.id \in Calls => r.id = c \/ call[r.id].pc = "over"

\* Afterwards the counts of t are those of its rows, unless it is excused; others stay.
Follows(t) ==
    /\ count' \in [Targets -> [Types -> Nat]]
    /\ \A u \in Targets \ {t} : /\ count'[u] = count[u]
                                /\ u \in excused' <=> u \in excused
                                /\ u \in best' <=> u \in best
                                /\ u \in earned' <=> u \in earned
    /\ t \notin excused' => /\ count'[t] = On(reactions', t)
                            /\ t \in Posts => (t \in best' <=> t \in earned')

\* A click that replaces rows of its own on one post or comment by one row at most, and leaves
\* there the counts of the rows.
LEMMA ToggleKeeps ==
    ASSUME Inv, NEW c \in Calls, NEW w, NEW t, w = call[c].who, t = call[c].target,
           call[c].pc = "clicked", t \in Counted,
           NEW left, NEW came, Swaps(c, w, t, left, came), reactions' = (reactions \ left) \cup came,
           call' = [call EXCEPT ![c] = Over], Late(w, t), UNCHANGED doubled, Follows(t)
    PROVE  Inv'
<1> USE DEF Swaps, Follows
<1>0. TypeInv /\ IdsInv /\ KeysInv /\ ScamInv /\ LeaveInv /\ GoneInv /\ HeldInv /\ CountInv
  BY DEF Inv
<1>1. /\ Over \in CallState /\ Over.pc = "over" /\ Over.rows = {} /\ Known(Over) /\ ~Open(Over)
  BY DEF Over, NewCall, CallState, Known, Open, Sweeps
<1>2. /\ call'[c] = Over /\ call' \in [Calls -> CallState]
      /\ \A d \in Calls : d # c => call'[d] = call[d]
  BY <1>0, <1>1 DEF TypeInv
<1>3. w \in People /\ t \in Targets /\ t \notin Scams
  BY <1>0, ReactionsAssumption DEF TypeInv, Known, Open, Counted
<1>4. /\ leave' \in [Members -> Leaving]
      /\ \A m \in Members : /\ leave'[m].pc = leave[m].pc /\ leave'[m].rows = leave[m].rows
                            /\ leave[m].late \subseteq leave'[m].late
                            /\ (m = w /\ leave[m].pc \in {"read", "locked"}) => t \in leave'[m].late
  BY <1>0, <1>3 DEF TypeInv, Late, Leaving
<1>5. TypeInv'
  <2>1. reactions' \subseteq Row
    BY <1>0 DEF TypeInv
  <2>2. IsFiniteSet(reactions \ left) /\ IsFiniteSet(came)
    BY <1>0, FS_Subset, OneOrNone DEF TypeInv
  <2>3. IsFiniteSet(reactions')
    <3> DEFINE A == reactions \ left
    <3>1. IsFiniteSet(A)
      BY <2>2
    <3> HIDE DEF A
    <3>2. IsFiniteSet(A \cup came)
      BY <2>2, <3>1, FS_Union
    <3> QED
      BY <3>2 DEF A
  <2>4. \A d \in Calls : Known(call[d])'
    BY <1>0, <1>1, <1>2 DEF TypeInv, Known, Open, Sweeps
  <2> QED
    BY <1>0, <1>2, <1>4, <2>1, <2>3, <2>4 DEF TypeInv
<1>6. IdsInv'
  <2>1. \A r \in reactions' : r.id \in Calls => call'[r.id].pc = "over"
    BY <1>0, <1>1, <1>2 DEF IdsInv
  <2>2. ASSUME NEW d \in Calls, NEW r \in call'[d].rows, r.id \in Calls
        PROVE  call'[r.id].pc = "over" \/ (r.id = d /\ call'[d].pc = "counted")
    <3>1. d # c /\ call'[d] = call[d]
      BY <1>1, <1>2, <2>2
    <3>2. call[r.id].pc = "over" \/ (r.id = d /\ call[d].pc = "counted")
      BY <1>0, <2>2, <3>1 DEF IdsInv
    <3> QED
      BY <1>1, <1>2, <3>1, <3>2
  <2> QED
    BY <2>1, <2>2 DEF IdsInv
<1>7. KeysInv'
  <2>1. ASSUME NEW r \in reactions', NEW s \in reactions',
               r.who = s.who, r.target = s.target, r.target \in Counted
        PROVE  r = s
    <3>1. \A x, y \in reactions : (x.who = y.who /\ x.target = y.target /\ x.target \in Counted) => x = y
      BY <1>0 DEF KeysInv
    <3>2. CASE r \in came \/ s \in came
      <4>1. r.who = w /\ r.target = t /\ s.who = w /\ s.target = t /\ Mine(w, {t}) \subseteq left
        BY <2>1, <3>2
      <4>2. \A x \in reactions \ left : ~(x.who = w /\ x.target = t)
        BY <4>1 DEF Mine
      <4> QED
        BY <2>1, <4>1, <4>2
    <3>3. CASE r \notin came /\ s \notin came
      BY <2>1, <3>1, <3>3
    <3> QED
      BY <3>2, <3>3
  <2>2. \A d \in Calls : call'[d].target \in Counted => \A r, s \in call'[d].rows : r = s
    BY <1>0, <1>1, <1>2 DEF KeysInv
  <2>3. \A d \in Calls : \A r, s \in call'[d].rows : r.id = d /\ s.id = d => r = s
    BY <1>0, <1>1, <1>2 DEF KeysInv
  <2> QED
    BY <2>1, <2>2, <2>3 DEF KeysInv
<1>8. \A u \in Targets \ {t} : {r \in reactions' : r.target = u} = {r \in reactions : r.target = u}
  OBVIOUS
<1>9. ScamInv'
  <2>1. \A v \in People, u \in Scams : Mine(v, {u})' = Mine(v, {u})
    BY <1>3 DEF Mine
  <2>2. \A d \in Calls, v \in People, u \in Scams :
           /\ Hits(call[d], v, u)' => Hits(call[d], v, u) /\ call'[d] = call[d]
           /\ call'[d] = call[d] => (Sweeps(call[d])' <=> Sweeps(call[d]))
    BY <1>1, <1>2 DEF Hits, Open, Sweeps
  <2>3. ASSUME NEW v \in People, NEW u \in Scams, <<v, u>> \notin doubled'
        PROVE  /\ \A d, e \in Calls : Hits(call[d], v, u)' /\ Hits(call[e], v, u)' => d = e
               /\ \A r, s \in Mine(v, {u})' : r = s
               /\ \A d \in Calls : Hits(call[d], v, u)' /\ Sweeps(call[d])' =>
                      Mine(v, {u})' \subseteq call'[d].rows
    <3>1. /\ \A d, e \in Calls : Hits(call[d], v, u) /\ Hits(call[e], v, u) => d = e
          /\ \A r, s \in Mine(v, {u}) : r = s
          /\ \A d \in Calls : Hits(call[d], v, u) /\ Sweeps(call[d]) =>
                      Mine(v, {u}) \subseteq call[d].rows
      BY <1>0, <2>3 DEF ScamInv
    <3>2. \A d, e \in Calls : Hits(call[d], v, u)' /\ Hits(call[e], v, u)' => d = e
      BY <2>2, <2>3, <3>1
    <3>3. \A r, s \in Mine(v, {u})' : r = s
      BY <2>1, <3>1
    <3>4. ASSUME NEW d \in Calls, Hits(call[d], v, u)', Sweeps(call[d])'
          PROVE  Mine(v, {u})' \subseteq call'[d].rows
      <4>1. Hits(call[d], v, u) /\ Sweeps(call[d]) /\ call'[d] = call[d]
        BY <2>2, <3>4
      <4> QED
        BY <2>1, <3>1, <4>1
    <3> QED
      BY <3>2, <3>3, <3>4
  <2> QED
    BY <2>3 DEF ScamInv
<1>10. LeaveInv'
  <2>1. ASSUME NEW m \in Members, leave'[m].pc \in {"read", "locked"},
               NEW u \in (IF leave'[m].pc = "read" THEN Posts ELSE Counted) \ leave'[m].late
        PROVE  {r \in leave'[m].rows : r.target = u} = Mine(m, {u})'
    <3>1. m # w \/ u # t
      BY <1>4, <2>1
    <3>2. Mine(m, {u})' = Mine(m, {u})
      BY <3>1 DEF Mine
    <3>3. /\ leave[m].pc \in {"read", "locked"}
          /\ u \in (IF leave[m].pc = "read" THEN Posts ELSE Counted) \ leave[m].late
      <4>1. leave'[m].pc = leave[m].pc /\ leave[m].late \subseteq leave'[m].late
        BY <1>4
      <4> QED
        BY <2>1, <4>1
    <3>4. {r \in leave[m].rows : r.target = u} = Mine(m, {u})
      BY <1>0, <3>3 DEF LeaveInv
    <3> QED
      BY <1>4, <3>2, <3>4
  <2>2. \A m \in Members : leave'[m].pc \in {"read", "locked"} =>
           \A r \in leave'[m].rows : r.target \in (IF leave'[m].pc = "read" THEN Posts ELSE Counted)
    BY <1>0, <1>4 DEF LeaveInv
  <2> QED
    BY <2>1, <2>2 DEF LeaveInv
<1>11. GoneInv'
  <2>1. \A v : Gone(v)' <=> Gone(v)
    BY <1>4 DEF Gone
  <2>2. \A r \in reactions' : ~Gone(r.who)
    BY <1>0 DEF GoneInv
  <2>3. \A d \in Calls : call'[d].pc = "counted" /\ Gone(call'[d].who) => call'[d].rows = {}
    BY <1>0, <1>1, <1>2 DEF GoneInv
  <2> QED
    BY <2>1, <2>2, <2>3 DEF GoneInv
<1>12. HeldInv'
  <2>1. ASSUME NEW d \in Calls, call'[d].pc = "counted", ~call'[d].late
        PROVE  call'[d].counts = On(After(d)', call'[d].target)
    <3>1. call'[d] = call[d] /\ call[d].target \in Scams /\ call[d].target \in Targets
      BY <1>0, <1>1, <1>2, <2>1 DEF TypeInv, Known, Open, Sweeps
    <3>2. {r \in After(d)' : r.target = call[d].target} = {r \in After(d) : r.target = call[d].target}
      BY <1>3, <1>8, <3>1 DEF After
    <3>3. On(After(d)', call[d].target) = On(After(d), call[d].target)
      BY <3>2, OnSame
    <3> QED
      BY <1>0, <2>1, <3>1, <3>3 DEF HeldInv
  <2> QED
    BY <2>1 DEF HeldInv, On
<1>13. CountInv'
  <2>1. ASSUME NEW u \in Targets \ excused'
        PROVE  count'[u] = On(reactions', u) /\ (u \in Posts => (u \in best' <=> u \in earned'))
    <3>1. CASE u = t
      BY <2>1, <3>1
    <3>2. CASE u # t
      <4>1. On(reactions', u) = On(reactions, u)
        BY <1>8, <2>1, <3>2, OnSame
      <4> QED
        BY <1>0, <2>1, <3>2, <4>1 DEF CountInv
    <3> QED
      BY <3>1, <3>2
  <2> QED
    BY <2>1 DEF CountInv, On
<1> QED
  BY <1>5, <1>6, <1>7, <1>9, <1>10, <1>11, <1>12, <1>13 DEF Inv

\* Adding what changed to counts that are those of the rows makes counts that are those of
\* the rows.
LEMMA AppliedCounts ==
    ASSUME Inv, NEW t \in Counted, NEW left \in SUBSET reactions, NEW came,
           IsFiniteSet(reactions'), NEW d \in [Types -> Int], Applied(t, left, came, d),
           excused \subseteq excused', excused' \subseteq excused \cup {t},
           t \notin excused' => \A y \in Types : On(reactions', t)[y] = On(reactions, t)[y] + d[y]
    PROVE  Follows(t)
<1>0. /\ t \in Targets /\ count \in [Targets -> [Types -> Nat]]
  BY DEF Inv, TypeInv, Targets
<1>1. \A x \in Int : Greatest(x, 0) \in Nat /\ (x >= 0 => Greatest(x, 0) = x)
  BY DEF Greatest
<1>2. On(reactions', t) \in [Types -> Nat]
  BY OnType
<1>3. "like" \in Types
  BY DEF Types
<1> DEFINE sum == [y \in Types |-> Greatest(count[t][y] + d[y], 0)]
<1>4. sum \in [Types -> Nat]
  <2>1. \A y \in Types : count[t][y] \in Nat /\ d[y] \in Int
    BY <1>0
  <2>2. \A y \in Types : count[t][y] + d[y] \in Int
    BY <2>1
  <2> QED
    BY <1>1, <2>2
<1>5. count' = [count EXCEPT ![t] = sum]
  BY DEF Applied
<1>6. ASSUME t \notin excused'
      PROVE  sum = On(reactions', t) /\ Likes(t, d) = On(reactions', t)["like"]
  <2>1. count[t] = On(reactions, t)
    BY <1>0, <1>6 DEF Inv, CountInv
  <2>2. ASSUME NEW y \in Types
        PROVE  Greatest(count[t][y] + d[y], 0) = On(reactions', t)[y]
    <3>1. count[t][y] + d[y] = On(reactions', t)[y] /\ On(reactions', t)[y] \in Nat
      BY <1>2, <1>6, <2>1
    <3> QED
      BY <1>1, <3>1
  <2> QED
    BY <1>2, <1>3, <2>2 DEF Likes
<1> HIDE DEF sum
<1>7. /\ count' \in [Targets -> [Types -> Nat]] /\ count'[t] = sum
      /\ \A u \in Targets \ {t} : count'[u] = count[u]
  BY <1>0, <1>4, <1>5
<1>8. /\ \A u \in Targets \ {t} : u \in earned' <=> u \in earned
      /\ t \in Posts => (t \in earned' <=> (t \in earned \/ On(reactions', t)["like"] >= Best))
  BY DEF Applied
<1>9. \A u \in Targets \ {t} : u \in best' <=> u \in best
  BY DEF Applied
<1>10. ASSUME t \notin excused', t \in Posts PROVE t \in best' <=> t \in earned'
  <2> DEFINE n == On(reactions', t)["like"]
  <2>1. Likes(t, d) = n /\ (t \in earned' <=> (t \in earned \/ n >= Best))
    BY <1>6, <1>8, <1>10
  <2>2. t \in best <=> t \in earned
    BY <1>0, <1>10 DEF Inv, CountInv
  <2>3. t \in best' <=> (t \in best \/ n >= Best)
    BY <1>10, <2>1 DEF Applied
  <2> HIDE DEF n
  <2> QED
    BY <2>1, <2>2, <2>3
<1> QED
  BY <1>6, <1>7, <1>8, <1>9, <1>10 DEF Follows

\* Taking back, changing and adding a reaction to a post or comment.
LEMMA ToggleStep ==
    ASSUME Inv, NEW c \in Calls, Toggle(c)
    PROVE  Inv'
<1> DEFINE k == call[c]
           w == k.who
           t == k.target
           row == [id |-> c, who |-> w, target |-> t, type |-> k.type]
<1>1. /\ k.pc = "clicked" /\ t \in Counted
      /\ call' = [call EXCEPT ![c] = Over] /\ Late(w, t) /\ UNCHANGED doubled
  BY DEF Toggle
<1>2. /\ k \in CallState /\ w \in People /\ t \in Targets /\ k.type \in Types
      /\ \A r \in k.rows : r.who = w /\ r.target = t
      /\ \A r, s \in k.rows : r = s
  BY <1>1 DEF Inv, TypeInv, KeysInv, Known, Open
<1>3. /\ reactions \subseteq Row /\ IsFiniteSet(reactions)
      /\ \A r, s \in reactions : (r.who = w /\ r.target = t /\ s.who = w /\ s.target = t) => r = s
      /\ \A r \in reactions : (r.id \in Calls => call[r.id].pc = "over") /\ ~Gone(r.who)
  BY <1>1 DEF Inv, TypeInv, KeysInv, IdsInv, GoneInv
<1>0. w = call[c].who /\ t = call[c].target /\ call[c].pc = "clicked"
  BY <1>1
<1> HIDE DEF k, w, t
<1>4. ASSUME NEW left \in SUBSET reactions, NEW came \in SUBSET Row, NEW d \in [Types -> Int],
             Applied(t, left, came, d), Swaps(c, w, t, left, came),
             excused \subseteq excused', excused' \subseteq excused \cup {t},
             t \notin excused' => \A y \in Types : On(came, t)[y] = On(left, t)[y] + d[y]
      PROVE  Inv'
  <2>1. /\ reactions' = (reactions \ left) \cup came
        /\ IsFiniteSet(reactions \ left) /\ IsFiniteSet(came) /\ IsFiniteSet(left)
    BY <1>3, <1>4, FS_Subset, OneOrNone DEF Applied, Swaps
  <2>2. (reactions \ left) \cap came = {}
    BY <1>4 DEF Mine, Swaps
  <2>3. IsFiniteSet(reactions')
    <3> DEFINE A == reactions \ left
    <3>1. IsFiniteSet(A)
      BY <2>1
    <3> HIDE DEF A
    <3>2. IsFiniteSet(A \cup came)
      BY <2>1, <3>1, FS_Union
    <3> QED
      BY <2>1, <3>2 DEF A
  <2>4. ASSUME t \notin excused', NEW y \in Types
        PROVE  On(reactions', t)[y] = On(reactions, t)[y] + d[y]
    <3>1. On(reactions \ left, t)[y] = On(reactions, t)[y] - On(left, t)[y]
      BY <1>3, <1>4, OnLess
    <3>2. On(reactions', t)[y] = On(reactions \ left, t)[y] + On(came, t)[y]
      BY <2>1, <2>2, OnMore
    <3>3. On(came, t)[y] = On(left, t)[y] + d[y]
      BY <1>4, <2>4
    <3>4. On(reactions, t)[y] \in Nat /\ On(left, t)[y] \in Nat /\ d[y] \in Int
      BY <1>3, <2>1, OnType, <1>4
    <3> QED
      BY <3>1, <3>2, <3>3, <3>4
  <2>5. Follows(t)
    <3> QED
      BY <1>1, <1>4, <2>3, <2>4, AppliedCounts
  <2> QED
    BY <1>0, <1>1, <1>4, <2>1, <2>5, ToggleKeeps
<1>5. ASSUME NEW type \in Types, NEW n \in Int, NEW other \in Int
      PROVE  /\ Delta(type, n, other) \in [Types -> Int]
             /\ \A y \in Types : Delta(type, n, other)[y] = IF y = type THEN n ELSE other
  BY DEF Delta
<1>6. CASE /\ Again(k)
           /\ Applied(t, Removable(k), {}, Delta(k.type, -Cardinality(Removable(k)), 0))
           /\ excused' = IF Removable(k) \subseteq k.rows THEN excused ELSE excused \cup {t}
  <2> DEFINE left == Removable(k)
  <2>1. left \subseteq reactions /\ \A r \in left : r.who = w /\ r.target = t
    BY <1>2 DEF Removable, SameRow
  <2>2. \A r, s \in left : r = s
    BY <1>3, <2>1
  <2>3. /\ left \subseteq k.rows => \A r \in left : r.type = k.type
        /\ Applied(t, left, {}, Delta(k.type, -Cardinality(left), 0))
        /\ excused' = IF left \subseteq k.rows THEN excused ELSE excused \cup {t}
    BY <1>2, <1>6 DEF Again
  <2> HIDE DEF left
  <2>4. /\ Cardinality(left) \in Nat /\ (left = {} \/ \E r : left = {r})
        /\ left = {} => Cardinality(left) = 0
        /\ \A r : left = {r} => Cardinality(left) = 1
    BY <2>2, OneOrNone, FS_CardinalityType, FS_EmptySet, FS_Singleton
  <2> DEFINE n == -Cardinality(left)
  <2>5. n \in Int /\ (left = {} => n = 0) /\ (\A r : left = {r} => n = -1)
    BY <2>4
  <2>6. Applied(t, left, {}, Delta(k.type, n, 0))
    BY <2>3
  <2> HIDE DEF n
  <2>7. Delta(k.type, n, 0) \in [Types -> Int]
    BY <1>2, <1>5, <2>5
  <2>8. ASSUME t \notin excused', NEW y \in Types
        PROVE  On({}, t)[y] = On(left, t)[y] + Delta(k.type, n, 0)[y]
    <3>1. On({}, t)[y] = 0 /\ Delta(k.type, n, 0)[y] = IF y = k.type THEN n ELSE 0
      BY <1>2, <1>5, <2>5, OnNone
    <3>2. CASE left = {}
      BY <2>5, <3>1, <3>2
    <3>3. CASE left # {}
      <4>1. PICK r : left = {r}
        BY <2>4, <3>3
      <4>2. r.type = k.type /\ r.target = t
        BY <2>1, <2>3, <2>8, <4>1
      <4>3. On(left, t)[y] = IF r.type = y THEN 1 ELSE 0
        BY <4>1, <4>2, OnOne
      <4> QED
        BY <2>5, <3>1, <4>1, <4>2, <4>3
    <3> QED
      BY <3>2, <3>3
  <2>9. Swaps(c, w, t, left, {})
    BY <2>1 DEF Swaps
  <2> QED
    BY <1>4, <2>1, <2>3, <2>6, <2>7, <2>8, <2>9
<1>7. CASE /\ k.rows # {} /\ ~Again(k) /\ UNCHANGED excused
           /\ Applied(t, Changeable(k), {[r EXCEPT !.type = k.type] : r \in Changeable(k)},
                      Delta(k.type, Cardinality(Changeable(k)), -Cardinality(Changeable(k))))
  <2> DEFINE left == Changeable(k)
             m(r) == [r EXCEPT !.type = k.type]
             came == {m(r) : r \in left}
             n == Cardinality(left)
  <2>1. /\ left \subseteq reactions /\ left \subseteq k.rows
        /\ \A r \in left : r.who = w /\ r.target = t /\ r.type # k.type /\ r \in Row
    BY <1>2, <1>3, <1>7 DEF Changeable, Again
  <2>2. \A r, s \in left : r = s
    BY <1>2, <2>1
  <2>3. \A r \in Row : /\ m(r) \in Row /\ m(r).id = r.id /\ m(r).who = r.who
                       /\ m(r).target = r.target /\ m(r).type = k.type
    BY <1>2 DEF Row
  <2>4. Applied(t, left, came, Delta(k.type, n, -n))
    BY <1>7
  <2> HIDE DEF left, m
  <2>5. /\ came \subseteq Row /\ \A r \in came : r.who = w /\ r.target = t
        /\ \A r, s \in came : r = s
        /\ \A r \in came : r.id \in Calls => call[r.id].pc = "over"
    BY <1>3, <2>1, <2>2, <2>3
  <2>6. came # {} => Mine(w, {t}) \subseteq left /\ ~Gone(w)
    BY <1>3, <2>1 DEF Mine
  <2>7. /\ n \in Nat /\ (left = {} \/ \E r : left = {r})
        /\ left = {} => n = 0
        /\ \A r : left = {r} => n = 1
    BY <2>2, OneOrNone, FS_CardinalityType, FS_EmptySet, FS_Singleton
  <2> HIDE DEF n
  <2>8. -n \in Int /\ n \in Int
    BY <2>7
  <2>9. Delta(k.type, n, -n) \in [Types -> Int]
    BY <1>2, <1>5, <2>8
  <2> HIDE DEF came
  <2>10. ASSUME NEW y \in Types
         PROVE  On(came, t)[y] = On(left, t)[y] + Delta(k.type, n, -n)[y]
    <3>1. Delta(k.type, n, -n)[y] = IF y = k.type THEN n ELSE -n
      BY <1>2, <1>5, <2>8
    <3>2. CASE left = {}
      <4>1. came = {} /\ n = 0
        BY <2>7, <3>2 DEF came
      <4>2. On(came, t)[y] = 0 /\ On(left, t)[y] = 0
        BY <3>2, <4>1, OnNone
      <4> QED
        BY <3>1, <4>1, <4>2
    <3>3. CASE left # {}
      <4>1. PICK r : left = {r}
        BY <2>7, <3>3
      <4>2. /\ came = {m(r)} /\ n = 1 /\ r \in Row
            /\ r.type # k.type /\ r.target = t /\ m(r).target = t /\ m(r).type = k.type
        BY <2>1, <2>3, <2>7, <4>1 DEF came
      <4>3. On(left, t)[y] = IF r.type = y THEN 1 ELSE 0
        <5>1. left = {r} /\ r.target = t
          BY <4>1, <4>2
        <5>2. On({r}, t)[y] = IF r.type = y THEN 1 ELSE 0
          BY <5>1, OnOne
        <5> QED
          BY <5>1, <5>2
      <4>4. On(came, t)[y] = IF k.type = y THEN 1 ELSE 0
        BY <4>2, OnOne
      <4>5. y = k.type <=> y # r.type
        BY <1>2, <4>2 DEF Types, Row
      <4> QED
        BY <3>1, <4>2, <4>3, <4>4, <4>5
    <3> QED
      BY <3>2, <3>3
  <2>11. Swaps(c, w, t, left, came)
    BY <2>1, <2>5, <2>6 DEF Swaps
  <2> QED
    BY <1>4, <1>7, <2>1, <2>4, <2>5, <2>9, <2>10, <2>11
<1>8. CASE /\ k.rows = {} /\ ~Gone(w) /\ UNCHANGED excused
           /\ Applied(t, {}, Insertable(k, row), Delta(k.type, Cardinality(Insertable(k, row)), 0))
  <2> DEFINE came == Insertable(k, row)
             n == Cardinality(came)
  <2>1. row \in Row /\ row.id = c /\ row.who = w /\ row.target = t /\ row.type = k.type
    BY <1>2 DEF Row
  <2>2. Applied(t, {}, came, Delta(k.type, n, 0))
    BY <1>8
  <2> HIDE DEF row
  <2>3. came = {} \/ (came = {row} /\ Mine(w, {t}) = {})
    BY DEF Insertable, w, t
  <2> HIDE DEF came
  <2>4. /\ n \in Int
        /\ came = {} => n = 0
        /\ came = {row} => n = 1
    BY <2>3, FS_EmptySet, FS_Singleton
  <2> HIDE DEF n
  <2>5. Delta(k.type, n, 0) \in [Types -> Int]
    BY <1>2, <1>5, <2>4
  <2>6. ASSUME NEW y \in Types
        PROVE  On(came, t)[y] = On({}, t)[y] + Delta(k.type, n, 0)[y]
    <3>1. On({}, t)[y] = 0 /\ Delta(k.type, n, 0)[y] = IF y = k.type THEN n ELSE 0
      BY <1>2, <1>5, <2>4, OnNone
    <3>2. CASE came = {}
      BY <2>4, <3>1, <3>2
    <3>3. CASE came = {row}
      <4>1. On(came, t)[y] = IF k.type = y THEN 1 ELSE 0
        BY <2>1, <3>3, OnOne
      <4> QED
        BY <2>4, <3>1, <3>3, <4>1
    <3> QED
      BY <2>3, <3>2, <3>3
  <2>7. /\ came \subseteq Row /\ \A r \in came : r.who = w /\ r.target = t /\ r.id = c
        /\ \A r, s \in came : r = s /\ came # {} => Mine(w, {t}) \subseteq {}
    BY <2>1, <2>3
  <2>8. Swaps(c, w, t, {}, came)
    BY <1>8, <2>3, <2>7 DEF Swaps
  <2> QED
    BY <1>4, <1>8, <2>2, <2>5, <2>6, <2>7, <2>8
<1>9. CASE UNCHANGED <<reactions, count, best, earned, excused>>
  <2>1. reactions' = (reactions \ {}) \cup {}
    BY <1>9
  <2>2. Follows(t) /\ Swaps(c, w, t, {}, {})
    BY <1>2, <1>9 DEF Inv, TypeInv, CountInv, On, Follows, Swaps
  <2> QED
    BY <1>0, <1>1, <1>9, <2>1, <2>2, ToggleKeeps
<1> QED
  BY <1>6, <1>7, <1>8, <1>9 DEF Toggle, k, w, t

-------------------------------------------------------------------------------
(* Clicks that are stored, and members that are erased.                      *)

\* A call goes on as it was, but for its counts, which may have become late.
Stays(d) ==
    /\ call'[d].pc = call[d].pc /\ call'[d].who = call[d].who /\ call'[d].target = call[d].target
    /\ call'[d].type = call[d].type /\ call'[d].rows = call[d].rows /\ call'[d].counts = call[d].counts

\* Counts read on targets that were written are late.
LEMMA OvertakenType ==
    ASSUME NEW calls \in [Calls -> CallState], NEW ts, call' = Overtaken(calls, ts)
    PROVE  /\ call' \in [Calls -> CallState]
           /\ \A d \in Calls :
                /\ call'[d].pc = calls[d].pc /\ call'[d].who = calls[d].who
                /\ call'[d].target = calls[d].target /\ call'[d].type = calls[d].type
                /\ call'[d].rows = calls[d].rows /\ call'[d].counts = calls[d].counts
                /\ calls[d].pc = "counted" /\ ~call'[d].late => calls[d].target \notin ts /\ ~calls[d].late
<1>1. ASSUME NEW d \in Calls
      PROVE  /\ call'[d] \in CallState
             /\ call'[d].pc = calls[d].pc /\ call'[d].who = calls[d].who
             /\ call'[d].target = calls[d].target /\ call'[d].type = calls[d].type
             /\ call'[d].rows = calls[d].rows /\ call'[d].counts = calls[d].counts
             /\ calls[d].pc = "counted" /\ ~call'[d].late => calls[d].target \notin ts /\ ~calls[d].late
  <2> DEFINE k == calls[d]
             l == [k EXCEPT !.late = TRUE]
  <2>1. call'[d] = IF k.pc = "counted" /\ k.target \in ts THEN l ELSE k
    BY DEF Overtaken
  <2>2. k \in CallState
    OBVIOUS
  <2>3. /\ l \in CallState /\ l.pc = k.pc /\ l.who = k.who /\ l.target = k.target /\ l.type = k.type
        /\ l.rows = k.rows /\ l.counts = k.counts /\ l.late = TRUE
    BY <2>2 DEF CallState
  <2> HIDE DEF l, k
  <2>4. k.late \in BOOLEAN
    BY <2>2 DEF CallState
  <2> QED
    BY <2>1, <2>2, <2>3, <2>4 DEF k
<1>2. call' = [d \in Calls |-> call'[d]]
  BY DEF Overtaken
<1> QED
  BY <1>1, <1>2

\* A click on a scam report stores its row in place of those it deletes, and the counts it read.
LEMMA StoreStep ==
    ASSUME Inv, NEW c \in Calls, Store(c)
    PROVE  Inv'
<1> DEFINE k == call[c]
           w == k.who
           t == k.target
           came == {r \in k.rows : r.id = c}
<1>0. TypeInv /\ IdsInv /\ KeysInv /\ ScamInv /\ LeaveInv /\ GoneInv /\ HeldInv /\ CountInv
  BY DEF Inv
<1>1. /\ k.pc = "counted"
      /\ reactions' = (reactions \ k.rows) \cup came
      /\ count' = [count EXCEPT ![t] = k.counts]
      /\ call' = Overtaken([call EXCEPT ![c] = Over], {t})
      /\ excused' = IF k.late THEN excused \cup {t} ELSE excused \ {t}
      /\ UNCHANGED <<best, leave, earned, doubled>>
  BY DEF Store
<1>2. /\ k \in CallState /\ Known(k) /\ Open(k) /\ Sweeps(k)
      /\ w \in People /\ t \in Scams /\ t \in Targets /\ t \notin Counted /\ k.counts \in [Types -> Nat]
      /\ k.rows \subseteq Row /\ \A r \in k.rows : r.who = w /\ r.target = t
  BY <1>0, <1>1, ReactionsAssumption DEF TypeInv, Open, Known, Sweeps, CallState, Counted, Targets
<1>3. /\ Over \in CallState /\ Over.pc = "over" /\ Over.rows = {} /\ ~Open(Over) /\ ~Sweeps(Over)
  BY DEF Over, NewCall, CallState, Open, Sweeps
<1>4. /\ call' \in [Calls -> CallState] /\ call'[c].pc = "over" /\ call'[c].rows = {}
      /\ \A d \in Calls \ {c} : Stays(d) /\ (call[d].pc = "counted" /\ ~call'[d].late =>
                                                 call[d].target # t /\ ~call[d].late)
  <2> DEFINE calls == [call EXCEPT ![c] = Over]
  <2>1. /\ calls \in [Calls -> CallState] /\ calls[c] = Over
        /\ \A d \in Calls \ {c} : calls[d] = call[d]
    BY <1>0, <1>3 DEF TypeInv
  <2>2. call' = Overtaken(calls, {t})
    BY <1>1
  <2> HIDE DEF calls
  <2>3. /\ call' \in [Calls -> CallState]
        /\ \A d \in Calls :
             /\ call'[d].pc = calls[d].pc /\ call'[d].who = calls[d].who
             /\ call'[d].target = calls[d].target /\ call'[d].type = calls[d].type
             /\ call'[d].rows = calls[d].rows /\ call'[d].counts = calls[d].counts
             /\ calls[d].pc = "counted" /\ ~call'[d].late => calls[d].target \notin {t} /\ ~calls[d].late
    BY <2>1, <2>2, OvertakenType
  <2> HIDE DEF t
  <2> QED
    BY <1>3, <2>1, <2>3 DEF Stays
<1>5. /\ \A r, s \in came : r = s
      /\ came \subseteq k.rows
      /\ Gone(w) => came = {}
  BY <1>0, <1>1 DEF KeysInv, GoneInv
<1>50. w = call[c].who /\ t = call[c].target /\ k = call[c] /\ \A r \in came : r.id = c
  OBVIOUS
<1> HIDE DEF k, w, t, came
<1>6. \A r : r.target # t => (r \in reactions' <=> r \in reactions)
  BY <1>1, <1>2, <1>5
<1>7. TypeInv'
  <2>1. reactions' \subseteq Row
    BY <1>0, <1>1, <1>2, <1>5 DEF TypeInv
  <2>2. IsFiniteSet(reactions \ k.rows) /\ IsFiniteSet(came)
    BY <1>0, <1>5, FS_Subset, OneOrNone DEF TypeInv
  <2>3. IsFiniteSet(reactions')
    <3> DEFINE A == reactions \ k.rows
    <3>1. IsFiniteSet(A)
      BY <2>2
    <3> HIDE DEF A
    <3>2. IsFiniteSet(A \cup came)
      BY <2>2, <3>1, FS_Union
    <3> QED
      BY <1>1, <3>2 DEF A
  <2>4. ASSUME NEW d \in Calls PROVE Known(call[d])'
    <3>1. CASE d = c
      BY <1>4, <3>1 DEF Known, Open, Sweeps
    <3>2. CASE d # c
      BY <1>0, <1>4, <3>2 DEF TypeInv, Stays, Known, Open, Sweeps
    <3> QED
      BY <3>1, <3>2
  <2>5. count' \in [Targets -> [Types -> Nat]]
    BY <1>0, <1>1, <1>2 DEF TypeInv
  <2> QED
    BY <1>0, <1>1, <1>4, <2>1, <2>3, <2>4, <2>5 DEF TypeInv
<1>8. IdsInv'
  <2>1. \A d \in Calls : call[d].pc = "over" => call'[d].pc = "over"
    BY <1>4 DEF Stays
  <2>2. \A r \in reactions' : r.id \in Calls => call'[r.id].pc = "over"
    BY <1>0, <1>1, <1>4, <1>50, <2>1 DEF IdsInv
  <2>3. ASSUME NEW d \in Calls, NEW r \in call'[d].rows, r.id \in Calls
        PROVE  call'[r.id].pc = "over" \/ (r.id = d /\ call'[d].pc = "counted")
    <3>1. d # c /\ r \in call[d].rows /\ call'[d].pc = call[d].pc
      BY <1>4, <2>3 DEF Stays
    <3>2. call[r.id].pc = "over" \/ (r.id = d /\ call[d].pc = "counted")
      BY <1>0, <2>3, <3>1 DEF IdsInv
    <3> QED
      BY <2>1, <2>3, <3>1, <3>2
  <2> QED
    BY <2>2, <2>3 DEF IdsInv
<1>9. KeysInv'
  <2>1. \A r, s \in reactions' : (r.who = s.who /\ r.target = s.target /\ r.target \in Counted) => r = s
    BY <1>0, <1>2, <1>6 DEF KeysInv
  <2>2. ASSUME NEW d \in Calls
        PROVE  /\ call'[d].target \in Counted => \A r, s \in call'[d].rows : r = s
               /\ \A r, s \in call'[d].rows : r.id = d /\ s.id = d => r = s
    <3>1. CASE d = c
      BY <1>4, <3>1
    <3>2. CASE d # c
      BY <1>0, <1>4, <3>2 DEF KeysInv, Stays
    <3> QED
      BY <3>1, <3>2
  <2> QED
    BY <2>1, <2>2 DEF KeysInv
<1>10. ScamInv'
  <2>1. \A d \in Calls, v \in People, u \in Scams :
           /\ Hits(call[d], v, u)' => d # c /\ Hits(call[d], v, u)
           /\ d # c => /\ Sweeps(call[d])' => Sweeps(call[d])
                       /\ call'[d].rows = call[d].rows
    BY <1>4 DEF Hits, Open, Sweeps, Stays
  <2>2. ASSUME NEW v \in People, NEW u \in Scams, <<v, u>> \notin doubled'
        PROVE  /\ \A d, e \in Calls : Hits(call[d], v, u)' /\ Hits(call[e], v, u)' => d = e
               /\ \A r, s \in Mine(v, {u})' : r = s
               /\ \A d \in Calls : Hits(call[d], v, u)' /\ Sweeps(call[d])' =>
                      Mine(v, {u})' \subseteq call'[d].rows
    <3>1. /\ \A d, e \in Calls : Hits(call[d], v, u) /\ Hits(call[e], v, u) => d = e
          /\ \A r, s \in Mine(v, {u}) : r = s
          /\ \A d \in Calls : Hits(call[d], v, u) /\ Sweeps(call[d]) =>
                      Mine(v, {u}) \subseteq call[d].rows
      BY <1>0, <1>1, <2>2 DEF ScamInv
    <3>2. \A d, e \in Calls : Hits(call[d], v, u)' /\ Hits(call[e], v, u)' => d = e
      BY <2>1, <2>2, <3>1
    <3>3. CASE v = w /\ u = t
      <4>1. Hits(call[c], v, u) /\ Sweeps(call[c])
        BY <1>2, <1>50, <3>3 DEF Hits
      <4>2. \A d \in Calls : ~Hits(call[d], v, u)'
        BY <2>1, <2>2, <3>1, <4>1
      <4>3. Mine(v, {u}) \subseteq k.rows
        BY <1>50, <3>1, <4>1
      <4>4. Mine(v, {u})' \subseteq came
        BY <1>1, <4>3 DEF Mine
      <4> QED
        BY <1>5, <3>2, <4>2, <4>4
    <3>4. CASE v # w \/ u # t
      <4>1. Mine(v, {u})' = Mine(v, {u})
        BY <1>1, <1>2, <1>5, <3>4 DEF Mine
      <4>2. ASSUME NEW d \in Calls, Hits(call[d], v, u)', Sweeps(call[d])'
            PROVE  Mine(v, {u})' \subseteq call'[d].rows
        <5>1. Hits(call[d], v, u) /\ Sweeps(call[d]) /\ call'[d].rows = call[d].rows
          BY <2>1, <2>2, <4>2
        <5> QED
          BY <3>1, <4>1, <5>1
      <4> QED
        BY <3>1, <3>2, <4>1, <4>2
    <3> QED
      BY <3>3, <3>4
  <2> QED
    BY <2>2 DEF ScamInv
<1>11. LeaveInv'
  <2>1. \A m, u : u # t => Mine(m, {u})' = Mine(m, {u})
    BY <1>6 DEF Mine
  <2>2. \A m \in Members : \A u \in (IF leave[m].pc = "read" THEN Posts ELSE Counted) : u # t
    BY <1>2 DEF Counted
  <2>3. ASSUME NEW m \in Members, leave[m].pc \in {"read", "locked"}
        PROVE  /\ \A r \in leave[m].rows : r.target \in (IF leave[m].pc = "read" THEN Posts ELSE Counted)
               /\ \A u \in (IF leave[m].pc = "read" THEN Posts ELSE Counted) \ leave[m].late :
                      {r \in leave[m].rows : r.target = u} = Mine(m, {u})'
    <3> DEFINE T == IF leave[m].pc = "read" THEN Posts ELSE Counted
    <3>1. /\ \A r \in leave[m].rows : r.target \in T
          /\ \A u \in T \ leave[m].late : {r \in leave[m].rows : r.target = u} = Mine(m, {u})
      BY <1>0, <2>3 DEF LeaveInv
    <3>2. \A u \in T : u # t
      BY <2>2
    <3> HIDE DEF T
    <3>3. ASSUME NEW u \in T \ leave[m].late
          PROVE  {r \in leave[m].rows : r.target = u} = Mine(m, {u})'
      <4>1. Mine(m, {u})' = Mine(m, {u})
        BY <2>1, <3>2
      <4>2. {r \in leave[m].rows : r.target = u} = Mine(m, {u})
        BY <3>1
      <4> QED
        BY <4>1, <4>2
    <3> QED
      BY <3>1, <3>3 DEF T
  <2> QED
    BY <1>1, <2>3 DEF LeaveInv
<1>12. GoneInv'
  <2>1. \A v : Gone(v)' <=> Gone(v)
    BY <1>1 DEF Gone
  <2>2. \A r \in reactions' : ~Gone(r.who)
    BY <1>0, <1>1, <1>2, <1>5 DEF GoneInv
  <2>3. ASSUME NEW d \in Calls, call'[d].pc = "counted", Gone(call'[d].who) PROVE call'[d].rows = {}
    <3>1. d # c
      BY <1>4, <2>3
    <3> QED
      BY <1>0, <1>4, <2>3, <3>1 DEF GoneInv, Stays
  <2> QED
    BY <2>1, <2>2, <2>3 DEF GoneInv
<1>13. HeldInv'
  <2>1. ASSUME NEW d \in Calls, call'[d].pc = "counted", ~call'[d].late
        PROVE  call'[d].counts = On(After(d)', call'[d].target)
    <3>1. /\ d # c /\ Stays(d) /\ call[d].pc = "counted" /\ call[d].target # t /\ ~call[d].late
      BY <1>4, <2>1 DEF Stays
    <3>2. {r \in After(d)' : r.target = call[d].target} = {r \in After(d) : r.target = call[d].target}
      BY <1>6, <3>1 DEF After, Stays
    <3>3. On(After(d)', call[d].target) = On(After(d), call[d].target)
      BY <3>2, OnSame
    <3> QED
      BY <1>0, <3>1, <3>3 DEF HeldInv, Stays
  <2> QED
    BY <2>1 DEF HeldInv, On
<1>14. CountInv'
  <2>1. ASSUME NEW u \in Targets \ excused'
        PROVE  count'[u] = On(reactions', u) /\ (u \in Posts => (u \in best' <=> u \in earned'))
    <3>1. CASE u = t
      <4>1. ~k.late
        BY <1>1, <2>1, <3>1
      <4>2. count'[t] = k.counts
        BY <1>0, <1>1, <1>2 DEF TypeInv
      <4>3. After(c) = reactions'
        BY <1>1, <1>50 DEF After, came
      <4>4. k.counts = On(After(c), t)
        BY <1>0, <1>1, <1>50, <4>1 DEF HeldInv
      <4>5. u \notin Posts
        BY <1>2, <3>1 DEF Counted
      <4> QED
        BY <3>1, <4>2, <4>3, <4>4, <4>5
    <3>2. CASE u # t
      <4>1. {r \in reactions' : r.target = u} = {r \in reactions : r.target = u}
        BY <1>6, <3>2
      <4>2. On(reactions', u) = On(reactions, u)
        BY <4>1, OnSame
      <4>3. count'[u] = count[u] /\ u \notin excused
        BY <1>0, <1>1, <2>1, <3>2 DEF TypeInv
      <4> QED
        BY <1>0, <1>1, <2>1, <4>2, <4>3 DEF CountInv
    <3> QED
      BY <3>1, <3>2
  <2> QED
    BY <2>1 DEF CountInv, On
<1> QED
  BY <1>7, <1>8, <1>9, <1>10, <1>11, <1>12, <1>13, <1>14 DEF Inv

\* The rows of a member go, and with them what they count.
LEMMA EraseStep ==
    ASSUME Inv, NEW m \in Members, Erase(m)
    PROVE  Inv'
<1> DEFINE h == leave[m]
           ts == {r.target : r \in Mine(m, Scams)}
           k == [pc |-> "gone", rows |-> {}, late |-> {}]
<1>0. TypeInv /\ IdsInv /\ KeysInv /\ ScamInv /\ LeaveInv /\ GoneInv /\ HeldInv /\ CountInv
  BY DEF Inv
<1>1. /\ h.pc = "locked"
      /\ ~\E d \in Holders : call[d].who = m /\ call[d].rows # {}
      /\ reactions' = reactions \ Mine(m, Targets)
      /\ count' = [u \in Targets |-> [y \in Types |-> Greatest(count[u][y] - On(h.rows, u)[y], 0)]]
      /\ call' = Overtaken(call, ts)
      /\ leave' = [leave EXCEPT ![m] = k]
      /\ excused' = excused \cup h.late \cup ts
      /\ UNCHANGED <<best, earned, doubled>>
  BY DEF Erase
<1>2. /\ h \in Leaving /\ IsFiniteSet(h.rows)
      /\ \A r \in h.rows : r.target \in Counted
      /\ \A u \in Counted \ h.late : {r \in h.rows : r.target = u} = Mine(m, {u})
  BY <1>0, <1>1 DEF TypeInv, LeaveInv
<1>3. /\ call' \in [Calls -> CallState]
      /\ \A d \in Calls : Stays(d) /\ (call[d].pc = "counted" /\ ~call'[d].late =>
                                           call[d].target \notin ts /\ ~call[d].late)
  <2>1. call \in [Calls -> CallState]
    BY <1>0 DEF TypeInv
  <2>2. call' = Overtaken(call, ts)
    BY <1>1
  <2> HIDE DEF ts
  <2>3. /\ call' \in [Calls -> CallState]
        /\ \A d \in Calls :
             /\ call'[d].pc = call[d].pc /\ call'[d].who = call[d].who
             /\ call'[d].target = call[d].target /\ call'[d].type = call[d].type
             /\ call'[d].rows = call[d].rows /\ call'[d].counts = call[d].counts
             /\ call[d].pc = "counted" /\ ~call'[d].late => call[d].target \notin ts /\ ~call[d].late
    BY <2>1, <2>2, OvertakenType
  <2> QED
    BY <2>3 DEF Stays
<1>4. /\ \A r : r \in reactions' <=> r \in reactions /\ r.who # m
      /\ \A r \in reactions : r.who = m /\ r.target \in Scams => r.target \in ts
  BY <1>0, <1>1 DEF Mine, TypeInv, Row
<1>5. /\ leave' \in [Members -> Leaving] /\ leave'[m].pc = "gone" /\ leave'[m].rows = {}
      /\ \A n \in Members : n # m => leave'[n] = leave[n]
      /\ \A v : Gone(v)' <=> Gone(v) \/ v = m
  <2>1. k \in Leaving
    BY DEF Leaving
  <2>2. /\ leave' \in [Members -> Leaving] /\ leave'[m] = k
        /\ \A n \in Members : n # m => leave'[n] = leave[n]
    BY <1>0, <1>1, <2>1 DEF TypeInv
  <2> QED
    BY <2>2 DEF Gone
<1> HIDE DEF h, ts, k
<1>6. TypeInv'
  <2>1. IsFiniteSet(reactions') /\ reactions' \subseteq Row
    BY <1>0, <1>4, FS_Subset DEF TypeInv
  <2>2. \A d \in Calls : Known(call[d])'
    BY <1>0, <1>3 DEF TypeInv, Known, Open, Sweeps, Stays
  <2>3. count' \in [Targets -> [Types -> Nat]]
    <3>1. ASSUME NEW u \in Targets, NEW y \in Types
          PROVE  Greatest(count[u][y] - On(h.rows, u)[y], 0) \in Nat
      <4>1. count[u][y] \in Nat /\ On(h.rows, u)[y] \in Nat
        BY <1>0, <1>2, OnType DEF TypeInv
      <4> QED
        BY <4>1 DEF Greatest
    <3> QED
      BY <1>1, <3>1
  <2>4. \A n \in Members : IsFiniteSet(leave'[n].rows)
    BY <1>0, <1>5, FS_EmptySet DEF TypeInv
  <2> QED
    BY <1>0, <1>1, <1>3, <1>5, <2>1, <2>2, <2>3, <2>4 DEF TypeInv
<1>7. IdsInv'
  BY <1>0, <1>3, <1>4 DEF IdsInv, Stays
<1>8. KeysInv'
  BY <1>0, <1>3, <1>4 DEF KeysInv, Stays
<1>9. ScamInv'
  <2>1. \A d \in Calls : \A v, u :
           /\ Hits(call[d], v, u)' <=> Hits(call[d], v, u)
           /\ Sweeps(call[d])' <=> Sweeps(call[d])
           /\ call'[d].rows = call[d].rows
    BY <1>3 DEF Hits, Open, Sweeps, Stays
  <2>2. \A v, u : Mine(v, {u})' \subseteq Mine(v, {u})
    BY <1>4 DEF Mine
  <2>3. ASSUME NEW v \in People, NEW u \in Scams, <<v, u>> \notin doubled'
        PROVE  /\ \A d, e \in Calls : Hits(call[d], v, u)' /\ Hits(call[e], v, u)' => d = e
               /\ \A r, s \in Mine(v, {u})' : r = s
               /\ \A d \in Calls : Hits(call[d], v, u)' /\ Sweeps(call[d])' =>
                      Mine(v, {u})' \subseteq call'[d].rows
    <3>1. /\ \A d, e \in Calls : Hits(call[d], v, u) /\ Hits(call[e], v, u) => d = e
          /\ \A r, s \in Mine(v, {u}) : r = s
          /\ \A d \in Calls : Hits(call[d], v, u) /\ Sweeps(call[d]) =>
                      Mine(v, {u}) \subseteq call[d].rows
      BY <1>0, <1>1, <2>3 DEF ScamInv
    <3> QED
      BY <2>1, <2>2, <3>1
  <2> QED
    BY <2>3 DEF ScamInv
<1>10. LeaveInv'
  <2>1. ASSUME NEW n \in Members, leave'[n].pc \in {"read", "locked"}
        PROVE  n # m /\ leave'[n] = leave[n] /\ \A u : Mine(n, {u})' = Mine(n, {u})
    <3>1. n # m
      BY <1>5, <2>1
    <3> QED
      BY <1>4, <1>5, <3>1 DEF Mine
  <2>2. ASSUME NEW n \in Members, leave'[n].pc \in {"read", "locked"}
        PROVE  /\ \A r \in leave'[n].rows : r.target \in (IF leave'[n].pc = "read" THEN Posts ELSE Counted)
               /\ \A u \in (IF leave'[n].pc = "read" THEN Posts ELSE Counted) \ leave'[n].late :
                      {r \in leave'[n].rows : r.target = u} = Mine(n, {u})'
    <3>1. leave[n].pc \in {"read", "locked"} /\ leave'[n] = leave[n] /\ \A u : Mine(n, {u})' = Mine(n, {u})
      BY <2>1, <2>2
    <3> QED
      BY <1>0, <3>1 DEF LeaveInv
  <2> QED
    BY <2>2 DEF LeaveInv
<1>11. GoneInv'
  <2>1. \A r \in reactions' : ~Gone(r.who)'
    BY <1>0, <1>4, <1>5 DEF GoneInv
  <2>2. ASSUME NEW d \in Calls, call'[d].pc = "counted", Gone(call[d].who)' PROVE call'[d].rows = {}
    <3>1. Stays(d) /\ call[d].pc = "counted"
      BY <1>3, <2>2 DEF Stays
    <3>2. CASE call[d].who = m
      BY <1>1, <3>1, <3>2 DEF Holders, Stays
    <3>3. CASE call[d].who # m
      <4>1. Gone(call[d].who)
        BY <2>2, <3>1, <3>3, <1>5 DEF Gone, Stays
      <4> QED
        BY <1>0, <3>1, <4>1 DEF GoneInv, Stays
    <3> QED
      BY <3>2, <3>3
  <2> QED
    BY <2>1, <2>2 DEF GoneInv
<1>12. HeldInv'
  <2>1. ASSUME NEW d \in Calls, call'[d].pc = "counted", ~call'[d].late
        PROVE  call'[d].counts = On(After(d)', call'[d].target)
    <3>1. /\ Stays(d) /\ call[d].pc = "counted" /\ call[d].target \notin ts /\ ~call[d].late
          /\ call[d].target \in Scams
      BY <1>0, <1>3, <2>1 DEF Stays, TypeInv, Known, Sweeps
    <3>2. \A r : r.target = call[d].target => (r \in reactions' <=> r \in reactions)
      BY <1>4, <3>1
    <3>3. {r \in After(d)' : r.target = call[d].target} = {r \in After(d) : r.target = call[d].target}
      BY <3>1, <3>2 DEF After, Stays
    <3>4. On(After(d)', call[d].target) = On(After(d), call[d].target)
      BY <3>3, OnSame
    <3> QED
      BY <1>0, <3>1, <3>4 DEF HeldInv, Stays
  <2> QED
    BY <2>1 DEF HeldInv, On
<1>13. CountInv'
  <2>1. ASSUME NEW u \in Targets \ excused'
        PROVE  count'[u] = On(reactions', u) /\ (u \in Posts => (u \in best' <=> u \in earned'))
    <3>1. /\ u \notin excused /\ u \notin h.late /\ u \notin ts
          /\ count[u] = On(reactions, u) /\ (u \in Posts => (u \in best <=> u \in earned))
      BY <1>0, <1>1, <2>1 DEF CountInv
    <3>2. {r \in h.rows : r.target = u} = Mine(m, {u})
      <4>1. CASE u \in Counted
        BY <1>2, <3>1, <4>1
      <4>2. CASE u \in Scams /\ u \notin Counted
        <5>1. Mine(m, {u}) = {}
          BY <1>4, <3>1, <4>2 DEF Mine
        <5> QED
          BY <1>2, <4>2, <5>1
      <4> QED
        BY <2>1, <4>1, <4>2 DEF Targets
    <3>3. /\ On(reactions', u) \in [Types -> Nat] /\ On(reactions, u) \in [Types -> Nat]
          /\ On(h.rows, u) \in [Types -> Nat]
      BY <1>0, <1>2, <1>6, OnType DEF TypeInv
    <3>4. On(h.rows, u) = On(Mine(m, {u}), u)
      <4>1. {r \in h.rows : r.target = u} = {r \in Mine(m, {u}) : r.target = u}
        BY <3>2 DEF Mine
      <4> QED
        BY <4>1, OnSame
    <3>5. On(reactions', u) = On(reactions \ Mine(m, {u}), u)
      <4>1. {r \in reactions' : r.target = u} = {r \in reactions \ Mine(m, {u}) : r.target = u}
        BY <1>4 DEF Mine
      <4> QED
        BY <4>1, OnSame
    <3>6. ASSUME NEW y \in Types
          PROVE  Greatest(count[u][y] - On(h.rows, u)[y], 0) = On(reactions', u)[y]
      <4>1. Mine(m, {u}) \subseteq reactions /\ IsFiniteSet(reactions)
        BY <1>0 DEF Mine, TypeInv
      <4>2. On(reactions \ Mine(m, {u}), u)[y] = On(reactions, u)[y] - On(Mine(m, {u}), u)[y]
        <5> DEFINE B == Mine(m, {u})
        <5>1. B \in SUBSET reactions
          BY <4>1
        <5> HIDE DEF B
        <5>2. On(reactions \ B, u)[y] = On(reactions, u)[y] - On(B, u)[y]
          BY <4>1, <5>1, OnLess
        <5> QED
          BY <5>2 DEF B
      <4>3. count[u][y] - On(h.rows, u)[y] = On(reactions', u)[y]
        BY <3>1, <3>4, <3>5, <4>2
      <4>4. On(reactions', u)[y] \in Nat
        BY <3>3
      <4> QED
        BY <4>3, <4>4 DEF Greatest
    <3>7. count'[u] = [y \in Types |-> Greatest(count[u][y] - On(h.rows, u)[y], 0)]
      BY <1>1, <2>1
    <3>8. count'[u] = On(reactions', u)
      BY <3>3, <3>6, <3>7
    <3> QED
      BY <1>1, <3>1, <3>8
  <2> QED
    BY <2>1 DEF CountInv, On
<1> QED
  BY <1>6, <1>7, <1>8, <1>9, <1>10, <1>11, <1>12, <1>13 DEF Inv

-------------------------------------------------------------------------------
(* The theorems.                                                             *)

\* The rows from before are one or two, of different people or targets, and counted.
LEMMA Initially == Init => Inv
<1> SUFFICES ASSUME Init PROVE Inv
  OBVIOUS
<1>1. PICK one \in People, two \in People, t \in Targets, u \in Targets :
        reactions = {[id |-> Founding, who |-> one, target |-> t, type |-> "like"],
                     [id |-> Founding, who |-> two, target |-> u, type |-> "like"]}
  BY DEF Init
<1> DEFINE x == [id |-> Founding, who |-> one, target |-> t, type |-> "like"]
           y == [id |-> Founding, who |-> two, target |-> u, type |-> "like"]
<1>2. /\ x \in Row /\ y \in Row /\ x.id = Founding /\ y.id = Founding
      /\ x.who = one /\ x.target = t /\ y.who = two /\ y.target = u
  BY DEF Row, Types
<1>3. reactions = {x} \cup {y} /\ (one = two /\ t = u => x = y)
  BY <1>1
<1> HIDE DEF x, y
<1>4. IsFiniteSet(reactions) /\ reactions \subseteq Row
  <2>1. IsFiniteSet({x})
    BY FS_Singleton
  <2>2. IsFiniteSet({x} \cup {y})
    BY <2>1, FS_AddElement
  <2> QED
    BY <1>2, <1>3, <2>1, <2>2
<1>5. /\ \A r \in reactions : r.id = Founding
      /\ \A r, s \in reactions : r.who = s.who /\ r.target = s.target => r = s
  BY <1>2, <1>3
<1>6. \A c \in Calls : call[c] = NewCall
  BY DEF Init
<1>7. /\ NewCall \in CallState /\ NewCall.pc = "new" /\ NewCall.rows = {}
      /\ Known(NewCall) /\ ~Open(NewCall)
  BY DEF NewCall, CallState, Known, Open, Sweeps
<1>8. \A m \in Members : leave[m].pc = "here" /\ leave[m].rows = {} /\ leave[m] \in Leaving
  BY DEF Init, Leaving
<1>9. \A v \in Targets : count[v] = On(reactions, v) /\ On(reactions, v) \in [Types -> Nat]
  BY <1>4, OnType DEF Init
<1>10. TypeInv
  <2>1. count \in [Targets -> [Types -> Nat]]
    BY <1>9 DEF Init
  <2>3. call \in [Calls -> CallState]
    BY <1>6, <1>7 DEF Init
  <2>4. leave \in [Members -> Leaving] /\ \A m \in Members : IsFiniteSet(leave[m].rows)
    BY <1>8, FS_EmptySet DEF Init
  <2> QED
    BY <1>4, <1>6, <1>7, <2>1, <2>3, <2>4 DEF TypeInv
<1>11. IdsInv /\ KeysInv
  BY <1>5, <1>6, <1>7, ReactionsAssumption DEF IdsInv, KeysInv
<1>12. ScamInv
  BY <1>5, <1>6, <1>7 DEF ScamInv, Hits, Mine
<1>13. LeaveInv /\ GoneInv /\ HeldInv
  BY <1>6, <1>7, <1>8 DEF LeaveInv, GoneInv, HeldInv, Gone
<1>14. CountInv
  BY <1>9 DEF Init, CountInv
<1> QED
  BY <1>10, <1>11, <1>12, <1>13, <1>14 DEF Inv

\* An administrator who sets or clears the mark of a post changes that mark alone.
LEMMA SetBestStep ==
    ASSUME Inv, NEW t \in Posts, NEW on \in BOOLEAN, SetBest(t, on)
    PROVE  Inv'
<1>1. /\ UNCHANGED <<reactions, count, call, leave, doubled, excused>>
      /\ \A u : u # t => (u \in best' <=> u \in best) /\ (u \in earned' <=> u \in earned)
      /\ t \in best' <=> on
      /\ t \in earned' <=> on
  BY DEF SetBest
<1>2. TypeInv' /\ IdsInv' /\ KeysInv' /\ LeaveInv' /\ GoneInv' /\ HeldInv'
  BY <1>1 DEF Inv, TypeInv, Known, Open, Sweeps, IdsInv, KeysInv, LeaveInv, GoneInv, Gone,
              HeldInv, After, Mine, On
<1>3. ScamInv'
  BY <1>1 DEF Inv, ScamInv, Hits, Open, Sweeps, Mine
<1>4. CountInv'
  BY <1>1 DEF Inv, CountInv, On
<1> QED
  BY <1>2, <1>3, <1>4 DEF Inv

\* Every step keeps the invariant.
LEMMA InvStep == Inv /\ [Next]_vars => Inv'
<1> SUFFICES ASSUME Inv, [Next]_vars PROVE Inv'
  OBVIOUS
<1>1. CASE UNCHANGED vars
  BY <1>1 DEF vars, Inv, TypeInv, IdsInv, KeysInv, ScamInv, LeaveInv, GoneInv, HeldInv, CountInv,
              Known, Open, Sweeps, Hits, Mine, Gone, After, On
<1> QED
  BY <1>1, ClickStep, SweepStep, CountStep, CountDislikesStep, SetBestStep, FailStep, ReadStep, ToggleStep, StoreStep, EraseStep DEF Next

\* No count is ever negative, and but for the targets excused the counts are those of the rows,
\* and a post is among the best when enough people liked it together since an administrator last
\* ruled on its mark or he set it, for every number of clicks, people and targets.
THEOREM CountsFollowCorrect == Spec => []CountsFollow
<1>1. ASSUME Inv PROVE CountsFollow
  <2>1. \A t \in Targets, y \in Types : count[t][y] >= 0
    BY <1>1 DEF Inv, TypeInv
  <2> QED
    BY <1>1, <2>1 DEF Inv, CountInv, CountsFollow
<1> QED
  BY <1>1, Initially, InvStep, PTL DEF Spec

\* Nobody has two reactions to one post or comment, none to one scam report unless two clicks of
\* theirs were under way at once, and who was removed has none, for every number of clicks,
\* people and targets.
THEOREM OneVoiceCorrect == Spec => []OneVoice
<1>1. ASSUME Inv PROVE OneVoice
  <2>1. ASSUME NEW w \in People, NEW t \in Targets, ~(t \in Scams /\ <<w, t>> \in doubled)
        PROVE  Cardinality(Mine(w, {t})) <= 1
    <3>1. \A r, s \in Mine(w, {t}) : r = s
      <4>1. CASE t \in Scams
        BY <1>1, <2>1, <4>1 DEF Inv, ScamInv
      <4>2. CASE t \in Counted
        BY <1>1, <4>2 DEF Inv, KeysInv, Mine
      <4> QED
        BY <2>1, <4>1, <4>2 DEF Targets
    <3> QED
      BY <3>1, OneOrNone
  <2>2. \A r \in reactions : r.who \in Members => leave[r.who].pc # "gone"
    BY <1>1 DEF Inv, GoneInv, Gone
  <2> QED
    BY <2>1, <2>2 DEF OneVoice
<1> QED
  BY <1>1, Initially, InvStep, PTL DEF Spec

===============================================================================
