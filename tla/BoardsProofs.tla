----------------------------- MODULE BoardsProofs -----------------------------
(* Proofs about Boards, for every set of calls, servers, users and slugs and *)
(* every limit: types and keys, the one result of a request, the limits, and *)
(* the copies that servers keep of the boards.                               *)
EXTENDS Boards, FiniteSetTheorems, TLAPS

Board == [id : Ids, slug : Slugs, request : Ids \cup {None}]
Request == [id : Ids, user : Users, slug : Slugs,
            status : {"pending", "approved", "rejected"}, board : Ids \cup {None}]
Manager == [board : Ids, user : Users, role : {"manager", "sub_manager"}]
CallState == [pc : {"new", "ask", "approve", "reject", "announce", "flush", "appoint", "dismiss",
                    "replace", "over"},
              server : Servers \cup {None}, id : Ids \cup {None}, user : Users \cup {None},
              slug : Slugs \cup {None}, rows : SUBSET Manager]

\* What a call knows where it stands.
Known(r) ==
    /\ r.pc \notin {"new", "over"} => r.server \in Servers
    /\ r.pc \in {"ask", "approve", "reject"} => r.user \in Users /\ r.slug \in Slugs
    /\ r.pc \in {"approve", "reject", "announce", "appoint", "dismiss", "replace"} => r.id \in Ids
    /\ r.pc \in {"appoint", "dismiss", "replace"} => r.user \in Users

CallsOK == call \in [Calls -> CallState] /\ \A c \in Calls : Known(call[c])

\* The call whose id a board has has made it: no other board will have that id.
Used(i) == i \in Calls => call[i].pc \in {"announce", "flush", "over"}

IdsOK ==
    /\ \A b \in boards : Used(b.id)
    /\ \A r \in requests : r.id \in Calls => call[r.id].pc = "over"
    /\ \A c \in Calls : call[c].pc = "replace" => Used(call[c].id)

\* A call that reviews has a request to review.
ReviewsOK ==
    \A c \in Calls : call[c].pc \in {"approve", "reject", "announce"} =>
        \E r \in requests : r.id = call[c].id

TypeInv == TypeOK /\ CallsOK /\ IdsOK /\ ReviewsOK

\* A call that begins, goes on or ends leaves the others alone.
LEMMA ToType ==
    ASSUME CallsOK, NEW c \in Calls, NEW r \in CallState, Known(r), To(c, r)
    PROVE  /\ CallsOK'
           /\ call'[c] = r
           /\ \A d \in Calls : d # c => call'[d] = call[d]
BY DEF CallsOK, To

\* A call that is over knows nothing any more.
LEMMA OverType == over \in CallState /\ Known(over) /\ over.pc = "over" /\ new \in CallState
BY DEF over, new, CallState, Known

\* A new call that begins knows its server.
LEMMA BeginType ==
    ASSUME CallsOK, NEW c \in Calls, NEW r \in CallState, r.pc = "new",
           NEW pc \in {"ask", "approve", "reject", "appoint", "dismiss", "replace"},
           pc \in {"ask", "approve", "reject"} => r.user \in Users /\ r.slug \in Slugs,
           pc \in {"approve", "reject", "appoint", "dismiss", "replace"} => r.id \in Ids,
           pc \in {"appoint", "dismiss", "replace"} => r.user \in Users,
           Begin(c, pc, r)
    PROVE  /\ CallsOK'
           /\ call[c].pc = "new"
           /\ call'[c].pc = pc /\ call'[c].id = r.id /\ call'[c].user = r.user
           /\ call'[c].rows = r.rows
           /\ \A d \in Calls : d # c => call'[d] = call[d]
<1>1. PICK v \in Servers : At(c, "new") /\ To(c, [r EXCEPT !.pc = pc, !.server = v])
  BY DEF Begin
<1> DEFINE s == [r EXCEPT !.pc = pc, !.server = v]
<1>2. /\ s \in CallState /\ s.pc = pc /\ s.server = v /\ s.id = r.id /\ s.user = r.user
      /\ s.slug = r.slug /\ s.rows = r.rows
  BY DEF CallState
<1>3. Known(s)
  BY <1>2 DEF Known
<1> HIDE DEF s
<1>4. To(c, s)
  BY <1>1 DEF s
<1> QED
  BY <1>1, <1>2, <1>3, <1>4, ToType DEF At

\* What the ids of calls say stays true when a call moves on that made no board, or ends.
LEMMA IdsKept ==
    ASSUME IdsOK, ReviewsOK, NEW c \in Calls, call[c].pc # "over",
           \A d \in Calls : d # c => call'[d] = call[d],
           call[c].pc \notin {"announce", "flush"} \/ call'[c].pc = "over"
    PROVE  \A i : Used(i) => Used(i)'
BY DEF Used

\* A step that stores nothing and begins or ends a call keeps the types.
LEMMA QuietType ==
    ASSUME TypeInv, NEW c \in Calls, call[c].pc # "over", CallsOK',
           \A d \in Calls : d # c => call'[d] = call[d],
           call[c].pc \notin {"announce", "flush"} \/ call'[c].pc = "over",
           call'[c].pc = "replace" => Used(call'[c].id),
           call'[c].pc \in {"approve", "reject", "announce"} =>
             \E r \in requests : r.id = call'[c].id,
           UNCHANGED <<boards, requests, managers>>,
           cache' \in [Servers -> (SUBSET Ids) \cup {None}],
           loading' \in [Servers -> (SUBSET Ids) \cup {None, Begun}]
    PROVE  TypeInv'
<1>1. \A i : Used(i) => Used(i)'
  BY IdsKept DEF TypeInv
<1>2. IdsOK'
  BY <1>1 DEF TypeInv, IdsOK
<1>3. ReviewsOK'
  BY DEF TypeInv, ReviewsOK
<1>4. TypeOK'
  BY DEF TypeInv, TypeOK, CallsOK, BoardIds
<1> QED
  BY <1>2, <1>3, <1>4 DEF TypeInv

\* Rows marked are rows of requests, with the same ids.
LEMMA MarkedType ==
    ASSUME TypeInv, NEW id \in Ids, NEW status \in {"approved", "rejected"},
           NEW board \in Ids \cup {None}, board \in BoardIds' \cup {None},
           BoardIds \subseteq BoardIds', Marked(id, status, board)
    PROVE  /\ requests' \subseteq Request
           /\ \A r, s \in requests' : r.id = s.id => r = s
           /\ \A r \in requests' : r.board \in BoardIds' \cup {None}
           /\ \A r \in requests : \E s \in requests' : s.id = r.id
           /\ \A s \in requests' : \/ s \in requests /\ (s.id # id \/ s.status # "pending")
                                   \/ /\ s.id = id /\ s.status = status /\ s.board = board
                                      /\ \E r \in requests : /\ r.id = id /\ r.status = "pending"
                                                             /\ r.user = s.user
<1> DEFINE m(r) == [r EXCEPT !.status = status, !.board = board]
<1>0. /\ requests \subseteq Request
      /\ \A r, s \in requests : r.id = s.id => r = s
      /\ \A r \in requests : r.board \in BoardIds \cup {None}
  BY DEF Request, TypeInv, TypeOK
<1>1. \A r \in Request : /\ m(r) \in Request
                         /\ m(r).id = r.id /\ m(r).user = r.user
                         /\ m(r).status = status /\ m(r).board = board
  BY DEF Request
<1>2. \A s : s \in requests' <=>
          \/ s \in requests /\ ~(s.id = id /\ s.status = "pending")
          \/ \E r \in requests : r.id = id /\ r.status = "pending" /\ s = m(r)
  BY DEF Marked, Markable
<1> HIDE DEF m
<1>3. requests' \subseteq Request
  BY <1>0, <1>1, <1>2
<1>4. \A s \in requests' : \/ s \in requests /\ (s.id # id \/ s.status # "pending")
                           \/ /\ s.id = id /\ s.status = status /\ s.board = board
                              /\ \E r \in requests : /\ r.id = id /\ r.status = "pending"
                                                     /\ r.user = s.user
  BY <1>0, <1>1, <1>2
<1>5. ASSUME NEW r \in requests', NEW s \in requests', r.id = s.id PROVE r = s
  BY <1>0, <1>1, <1>2, <1>5
<1>6. \A r \in requests : \E s \in requests' : s.id = r.id
  BY <1>0, <1>1, <1>2
<1>7. \A r \in requests' : r.board \in BoardIds' \cup {None}
  BY <1>0, <1>4
<1> QED
  BY <1>3, <1>4, <1>5, <1>6, <1>7

\* A board stored has the id it was stored with.
LEMMA BoardAdded ==
    ASSUME NEW i, NEW slug, NEW request,
           boards' = boards \cup {[id |-> i, slug |-> slug, request |-> request]}
    PROVE  BoardIds' = BoardIds \cup {i}
<1> DEFINE b == [id |-> i, slug |-> slug, request |-> request]
<1>1. b.id = i /\ boards' = boards \cup {b}
  OBVIOUS
<1> HIDE DEF b
<1>2. BoardIds' \subseteq BoardIds \cup {i}
  BY <1>1 DEF BoardIds
<1>3. BoardIds \cup {i} \subseteq BoardIds'
  BY <1>1 DEF BoardIds
<1> QED
  BY <1>2, <1>3

\* Creating and reviewing requests keeps the types.
LEMMA RequestType ==
    ASSUME TypeInv, NEW c \in Calls, RequestCall(c)
    PROVE  TypeInv'
<1>0. /\ CallsOK /\ boards \subseteq Board /\ requests \subseteq Request
      /\ cache \in [Servers -> (SUBSET Ids) \cup {None}]
      /\ loading \in [Servers -> (SUBSET Ids) \cup {None, Begun}]
  BY DEF TypeInv, TypeOK, Board, Request
<1>1. ASSUME NEW u \in Users, NEW slug \in Slugs, BeginRequest(c, u, slug) PROVE TypeInv'
  <2> DEFINE r == [new EXCEPT !.user = u, !.slug = slug]
  <2>1. r \in CallState /\ r.pc = "new" /\ r.user = u /\ r.slug = slug
    BY OverType DEF new, CallState
  <2>2. Begin(c, "ask", r) /\ UNCHANGED <<boards, requests, managers, cache, loading>>
    BY <1>1 DEF BeginRequest, Same
  <2> HIDE DEF r
  <2>3. /\ CallsOK' /\ call[c].pc = "new" /\ call'[c].pc = "ask"
        /\ \A d \in Calls : d # c => call'[d] = call[d]
    BY <1>0, <2>1, <2>2, BeginType
  <2> QED
    BY <1>0, <2>2, <2>3, QuietType
<1>2. ASSUME NEW q \in requests, NEW pc \in {"approve", "reject"}, BeginReview(c, q, pc)
      PROVE  TypeInv'
  <2> DEFINE r == [new EXCEPT !.id = q.id, !.user = q.user, !.slug = q.slug]
  <2>0. q \in Request
    BY <1>0
  <2>1. /\ r \in CallState /\ r.pc = "new" /\ r.id = q.id /\ r.user = q.user /\ r.slug = q.slug
        /\ r.id \in Ids /\ r.user \in Users /\ r.slug \in Slugs
    BY <2>0, OverType DEF new, CallState, Request
  <2>2. Begin(c, pc, r) /\ UNCHANGED <<boards, requests, managers, cache, loading>>
    BY <1>2 DEF BeginReview, Same
  <2> HIDE DEF r
  <2>3. /\ CallsOK' /\ call[c].pc = "new" /\ call'[c].pc = pc /\ call'[c].id = r.id
        /\ \A d \in Calls : d # c => call'[d] = call[d]
    BY <1>0, <2>1, <2>2, BeginType
  <2> QED
    BY <1>0, <2>1, <2>2, <2>3, QuietType
<1>3. CASE InsertRequest(c)
  <2> DEFINE q == [id |-> c, user |-> call[c].user, slug |-> call[c].slug,
                   status |-> "pending", board |-> None]
  <2>1. /\ call[c].pc = "ask" /\ Done(c)
        /\ requests' = requests \cup {q}
        /\ UNCHANGED <<boards, managers, cache, loading>>
    BY <1>3 DEF InsertRequest, At, Same
  <2>2. q \in Request /\ q.id = c /\ q.board = None
    BY <1>0, <2>1 DEF CallsOK, Known, Request, Ids
  <2> HIDE DEF q
  <2>3. /\ CallsOK' /\ call'[c].pc = "over"
        /\ \A d \in Calls : d # c => call'[d] = call[d]
    BY <1>0, <2>1, ToType, OverType DEF Done
  <2>4. \A r \in requests : r.id # c
    BY <2>1 DEF TypeInv, IdsOK
  <2>5. TypeOK'
    <3>1. \A r, s \in requests' : r.id = s.id => r = s
      BY <2>1, <2>2, <2>4 DEF TypeInv, TypeOK
    <3>2. requests' \subseteq Request /\ \A r \in requests' : r.board \in BoardIds \cup {None}
      BY <1>0, <2>1, <2>2 DEF TypeInv, TypeOK
    <3> QED
      BY <2>1, <2>3, <3>1, <3>2 DEF TypeInv, TypeOK, Request, CallsOK, BoardIds
  <2>6. \A i : Used(i) => Used(i)'
    BY <2>1, <2>3, IdsKept DEF TypeInv
  <2>7. IdsOK'
    BY <2>1, <2>2, <2>3, <2>6 DEF TypeInv, IdsOK
  <2>8. ReviewsOK'
    BY <2>1, <2>3 DEF TypeInv, ReviewsOK
  <2> QED
    BY <2>3, <2>5, <2>7, <2>8 DEF TypeInv
<1>4. CASE Reject(c)
  <2>1. /\ call[c].pc = "reject" /\ Done(c)
        /\ Marked(call[c].id, "rejected", None)
        /\ UNCHANGED <<boards, managers, cache, loading>>
    BY <1>4 DEF Reject, At, Same
  <2>2. call[c].id \in Ids
    BY <1>0, <2>1 DEF CallsOK, Known
  <2>3. /\ CallsOK' /\ call'[c].pc = "over"
        /\ \A d \in Calls : d # c => call'[d] = call[d]
    BY <1>0, <2>1, ToType, OverType DEF Done
  <2>4. BoardIds' = BoardIds
    BY <2>1 DEF BoardIds
  <2>5. /\ requests' \subseteq Request
        /\ \A r, s \in requests' : r.id = s.id => r = s
        /\ \A r \in requests' : r.board \in BoardIds' \cup {None}
        /\ \A r \in requests : \E s \in requests' : s.id = r.id
        /\ \A s \in requests' : s \in requests \/ \E r \in requests : r.id = s.id
    BY <2>1, <2>2, <2>4, MarkedType
  <2>6. TypeOK'
    BY <2>1, <2>3, <2>4, <2>5 DEF TypeInv, TypeOK, Request, CallsOK
  <2>7. \A i : Used(i) => Used(i)'
    BY <2>1, <2>3, IdsKept DEF TypeInv
  <2>8. IdsOK'
    BY <2>1, <2>3, <2>5, <2>7 DEF TypeInv, IdsOK
  <2>9. ReviewsOK'
    BY <2>3, <2>5 DEF TypeInv, ReviewsOK
  <2> QED
    BY <2>3, <2>6, <2>8, <2>9 DEF TypeInv
<1>5. CASE Approve(c)
  <2> DEFINE r == call[c]
  <2>1. r.pc = "approve" /\ UNCHANGED <<cache, loading>>
    BY <1>5 DEF Approve, At, Same
  <2>2. r \in CallState /\ r.id \in Ids /\ r.user \in Users /\ r.slug \in Slugs /\ r.server \in Servers
    BY <1>0, <2>1 DEF CallsOK, Known
  <2>3. CASE Done(c) /\ UNCHANGED <<boards, requests, managers>>
    <3>1. /\ CallsOK' /\ call'[c].pc = "over"
          /\ \A d \in Calls : d # c => call'[d] = call[d]
      BY <1>0, <2>3, ToType, OverType DEF Done
    <3> QED
      BY <1>0, <2>1, <2>3, <3>1, QuietType
  <2>4. CASE /\ r.slug \notin SlugsUsed
             /\ boards' = boards \cup {[id |-> c, slug |-> r.slug, request |-> r.id]}
             /\ managers' = managers \cup {[board |-> c, user |-> r.user, role |-> "manager"]}
             /\ Marked(r.id, "approved", c)
             /\ To(c, [r EXCEPT !.pc = "announce"]) \/ Done(c)
    <3> DEFINE s == [r EXCEPT !.pc = "announce"]
    <3>1. s \in CallState /\ Known(s) /\ s.pc = "announce" /\ s.id = r.id
      BY <2>1, <2>2 DEF CallState, Known
    <3>2. /\ CallsOK' /\ call'[c].pc \in {"announce", "over"}
          /\ call'[c].pc = "announce" => call'[c].id = r.id
          /\ \A d \in Calls : d # c => call'[d] = call[d]
      <4> HIDE DEF s, r
      <4>1. CASE To(c, s)
        BY <1>0, <3>1, <4>1, ToType
      <4>2. CASE Done(c)
        BY <1>0, <4>2, ToType, OverType DEF Done
      <4> QED
        BY <2>4, <4>1, <4>2 DEF s
    <3> HIDE DEF r
    <3>3. c \notin BoardIds
      BY <2>1 DEF TypeInv, IdsOK, Used, BoardIds, r
    <3>4. BoardIds' = BoardIds \cup {c}
      BY <2>4, BoardAdded
    <3>5. /\ requests' \subseteq Request
          /\ \A q, t \in requests' : q.id = t.id => q = t
          /\ \A q \in requests' : q.board \in BoardIds' \cup {None}
          /\ \A q \in requests : \E t \in requests' : t.id = q.id
          /\ \A t \in requests' : t \in requests \/ \E q \in requests : q.id = t.id
      BY <2>2, <2>4, <3>4, MarkedType DEF Ids
    <3>6. \A b, d \in boards' : (b.id = d.id \/ b.slug = d.slug) => b = d
      BY <2>4, <3>3 DEF TypeInv, TypeOK, SlugsUsed, BoardIds
    <3>7. boards' \subseteq Board
      BY <1>0, <2>2, <2>4 DEF Board, Ids
    <3>8. /\ managers' \subseteq [board : BoardIds', user : Users, role : {"manager", "sub_manager"}]
          /\ \A m, n \in managers' : (m.board = n.board /\ m.user = n.user) => m = n
      <4>1. \A m \in managers : m.board \in BoardIds
        BY DEF TypeInv, TypeOK
      <4> QED
        BY <2>2, <2>4, <3>3, <3>4, <4>1 DEF TypeInv, TypeOK
    <3>9. TypeOK'
      BY <2>1, <3>2, <3>5, <3>6, <3>7, <3>8 DEF TypeInv, TypeOK, Board, Request, CallsOK
    <3>10. \A i : Used(i) => Used(i)'
      BY <2>1, <3>2 DEF Used, r
    <3>11. IdsOK'
      <4>1. \A b \in boards' : Used(b.id)'
        BY <2>4, <3>2, <3>10 DEF TypeInv, IdsOK, Used
      <4>2. \A q \in requests' : q.id \in Calls => call'[q.id].pc = "over"
        BY <2>1, <3>2, <3>5 DEF TypeInv, IdsOK, r
      <4>3. ASSUME NEW d \in Calls, call'[d].pc = "replace" PROVE Used(call[d].id)'
        <5>1. d # c /\ call'[d] = call[d]
          BY <3>2, <4>3
        <5>2. Used(call[d].id)
          BY <4>3, <5>1 DEF TypeInv, IdsOK
        <5>3. call[d].id \in Calls => call'[call[d].id].pc \in {"announce", "flush", "over"}
          BY <3>2, <5>2, <2>1 DEF Used, r
        <5> QED
          BY <5>1, <5>3 DEF Used
      <4> QED
        BY <4>1, <4>2, <4>3 DEF IdsOK
    <3>12. ReviewsOK'
      BY <2>1, <3>2, <3>5 DEF TypeInv, ReviewsOK, r
    <3> QED
      BY <3>2, <3>9, <3>11, <3>12 DEF TypeInv
  <2> QED
    BY <1>5, <2>3, <2>4 DEF Approve
<1>6. CASE Announce(c)
  <2>1. /\ call[c].pc = "announce" /\ Done(c) /\ Forget(call[c].server)
        /\ UNCHANGED <<boards, requests, managers, loading>>
    BY <1>6 DEF Announce, At, Flushed
  <2>2. /\ CallsOK' /\ call'[c].pc = "over"
        /\ \A d \in Calls : d # c => call'[d] = call[d]
    BY <1>0, <2>1, ToType, OverType DEF Done
  <2>3. cache' \in [Servers -> (SUBSET Ids) \cup {None}]
    BY <1>0, <2>1 DEF Forget
  <2> QED
    BY <1>0, <2>1, <2>2, <2>3, QuietType
<1> QED
  BY <1>1, <1>2, <1>3, <1>4, <1>5, <1>6 DEF RequestCall

\* Creating and deleting boards keeps the types.
LEMMA BoardType ==
    ASSUME TypeInv, NEW c \in Calls, BoardCall(c)
    PROVE  TypeInv'
<1>0. /\ CallsOK /\ boards \subseteq Board /\ requests \subseteq Request
      /\ cache \in [Servers -> (SUBSET Ids) \cup {None}]
      /\ loading \in [Servers -> (SUBSET Ids) \cup {None, Begun}]
  BY DEF TypeInv, TypeOK, Board, Request
<1>1. ASSUME NEW v \in Servers, To(c, [new EXCEPT !.pc = "flush", !.server = v])
      PROVE  /\ CallsOK' /\ call'[c].pc = "flush"
             /\ \A d \in Calls : d # c => call'[d] = call[d]
  <2> DEFINE s == [new EXCEPT !.pc = "flush", !.server = v]
  <2>1. s \in CallState /\ Known(s) /\ s.pc = "flush"
    BY OverType DEF new, CallState, Known
  <2>2. To(c, s)
    BY <1>1
  <2> HIDE DEF s
  <2> QED
    BY <1>0, <2>1, <2>2, ToType
<1>2. ASSUME NEW slug \in Slugs, MakeBoard(c, slug) PROVE TypeInv'
  <2>1. /\ slug \notin SlugsUsed /\ call[c].pc = "new"
        /\ boards' = boards \cup {[id |-> c, slug |-> slug, request |-> None]}
        /\ UNCHANGED <<requests, managers, cache, loading>>
    BY <1>2 DEF MakeBoard, At, Same
  <2>2. /\ CallsOK' /\ call'[c].pc = "flush"
        /\ \A d \in Calls : d # c => call'[d] = call[d]
    BY <1>1, <1>2 DEF MakeBoard
  <2>3. c \notin BoardIds
    BY <2>1 DEF TypeInv, IdsOK, Used, BoardIds
  <2>4. BoardIds' = BoardIds \cup {c}
    BY <2>1, BoardAdded
  <2>5. \A b, d \in boards' : (b.id = d.id \/ b.slug = d.slug) => b = d
    BY <2>1, <2>3 DEF TypeInv, TypeOK, SlugsUsed, BoardIds
  <2>6. boards' \subseteq Board
    BY <1>0, <2>1 DEF Board, Ids
  <2>7. /\ \A r \in requests' : r.board \in BoardIds' \cup {None}
        /\ managers' \subseteq [board : BoardIds', user : Users, role : {"manager", "sub_manager"}]
    BY <2>1, <2>4 DEF TypeInv, TypeOK
  <2>8. TypeOK'
    BY <2>1, <2>2, <2>5, <2>6, <2>7 DEF TypeInv, TypeOK, Board, CallsOK
  <2>9. \A i : Used(i) => Used(i)'
    BY <2>1, <2>2 DEF Used
  <2>10. IdsOK'
    <3>1. \A b \in boards' : Used(b.id)'
      BY <2>1, <2>2, <2>9 DEF TypeInv, IdsOK, Used
    <3> QED
      BY <2>1, <2>2, <2>9, <3>1 DEF TypeInv, IdsOK
  <2>11. ReviewsOK'
    BY <2>1, <2>2 DEF TypeInv, ReviewsOK
  <2> QED
    BY <2>2, <2>8, <2>10, <2>11 DEF TypeInv
<1>3. ASSUME NEW id \in BoardIds, DeleteBoard(c, id) PROVE TypeInv'
  <2> DEFINE left(r) == [r EXCEPT !.board = IF @ = id THEN None ELSE @]
  <2>1. /\ call[c].pc = "new"
        /\ boards' = {b \in boards : b.id # id}
        /\ managers' = {m \in managers : m.board # id}
        /\ requests' = {left(r) : r \in requests}
        /\ UNCHANGED <<cache, loading>>
    BY <1>3 DEF DeleteBoard, At, Same
  <2>2. /\ CallsOK' /\ call'[c].pc = "flush"
        /\ \A d \in Calls : d # c => call'[d] = call[d]
    BY <1>1, <1>3 DEF DeleteBoard
  <2>3. BoardIds' = BoardIds \ {id}
    BY <2>1 DEF BoardIds
  <2>4. \A r \in Request : /\ left(r) \in Request /\ left(r).id = r.id
                           /\ left(r).board = IF r.board = id THEN None ELSE r.board
    BY DEF Request
  <2> HIDE DEF left
  <2>5. \A r, s \in requests : r.id = s.id => r = s
    BY DEF TypeInv, TypeOK
  <2>6. /\ requests' \subseteq Request
        /\ \A r, s \in requests' : r.id = s.id => r = s
        /\ \A r \in requests : \E s \in requests' : s.id = r.id
        /\ \A s \in requests' : \E r \in requests : r.id = s.id
    BY <1>0, <2>1, <2>4, <2>5
  <2>7. \A r \in requests' : r.board \in BoardIds' \cup {None}
    <3>1. \A r \in requests : r.board \in BoardIds \cup {None}
      BY DEF TypeInv, TypeOK
    <3> QED
      BY <1>0, <2>1, <2>3, <2>4, <3>1
  <2>8. managers' \subseteq [board : BoardIds', user : Users, role : {"manager", "sub_manager"}]
    BY <2>1, <2>3 DEF TypeInv, TypeOK
  <2>9. TypeOK'
    <3>1. boards' \subseteq boards /\ managers' \subseteq managers
      BY <2>1
    <3> QED
      BY <2>1, <2>2, <2>6, <2>7, <2>8, <3>1 DEF TypeInv, TypeOK, Request, CallsOK
  <2>10. \A i : Used(i) => Used(i)'
    BY <2>1, <2>2 DEF Used
  <2>11. IdsOK'
    <3>1. \A b \in boards' : Used(b.id)'
      BY <2>1, <2>10 DEF TypeInv, IdsOK
    <3>2. \A r \in requests' : r.id \in Calls => call'[r.id].pc = "over"
      BY <2>1, <2>2, <2>6 DEF TypeInv, IdsOK
    <3>3. ASSUME NEW d \in Calls, call'[d].pc = "replace" PROVE Used(call[d].id)'
      <4>1. d # c /\ call'[d] = call[d]
        BY <2>2, <3>3
      <4>2. Used(call[d].id)
        BY <3>3, <4>1 DEF TypeInv, IdsOK
      <4>3. call[d].id \in Calls => call'[call[d].id].pc \in {"announce", "flush", "over"}
        BY <2>1, <2>2, <4>2 DEF Used
      <4> QED
        BY <4>1, <4>3 DEF Used
    <3> QED
      BY <3>1, <3>2, <3>3 DEF IdsOK
  <2>12. ReviewsOK'
    BY <2>2, <2>6 DEF TypeInv, ReviewsOK
  <2> QED
    BY <2>2, <2>9, <2>11, <2>12 DEF TypeInv
<1>4. CASE Flush(c)
  <2>1. /\ call[c].pc = "flush" /\ Done(c) /\ Forget(call[c].server)
        /\ UNCHANGED <<boards, requests, managers, loading>>
    BY <1>4 DEF Flush, At, Flushed
  <2>2. /\ CallsOK' /\ call'[c].pc = "over"
        /\ \A d \in Calls : d # c => call'[d] = call[d]
    BY <1>0, <2>1, ToType, OverType DEF Done
  <2>3. cache' \in [Servers -> (SUBSET Ids) \cup {None}]
    BY <1>0, <2>1 DEF Forget
  <2> QED
    BY <1>0, <2>1, <2>2, <2>3, QuietType
<1> QED
  BY <1>2, <1>3, <1>4 DEF BoardCall

\* Appointing, dismissing and replacing managers keeps the types.
LEMMA ManagerType ==
    ASSUME TypeInv, NEW c \in Calls, ManagerCall(c)
    PROVE  TypeInv'
<1>0. /\ CallsOK /\ managers \subseteq Manager /\ BoardIds \subseteq Ids
      /\ managers \subseteq [board : BoardIds, user : Users, role : {"manager", "sub_manager"}]
      /\ \A m, n \in managers : (m.board = n.board /\ m.user = n.user) => m = n
      /\ cache \in [Servers -> (SUBSET Ids) \cup {None}]
      /\ loading \in [Servers -> (SUBSET Ids) \cup {None, Begun}]
  BY DEF TypeInv, TypeOK, Manager, BoardIds
<1>1. ASSUME NEW id \in Ids, NEW u \in Users, NEW rows \in SUBSET Manager,
             NEW pc \in {"appoint", "dismiss", "replace"},
             NEW r \in CallState, r.pc = "new", r.id = id, r.user = u, r.rows = rows, Begin(c, pc, r),
             pc = "replace" => id \in BoardIds,
             UNCHANGED <<boards, requests, managers, cache, loading>>
      PROVE  TypeInv'
  <2>3. /\ CallsOK' /\ call[c].pc = "new" /\ call'[c].pc = pc /\ call'[c].id = r.id
        /\ \A d \in Calls : d # c => call'[d] = call[d]
    BY <1>0, <1>1, BeginType
  <2>4. pc = "replace" => Used(id)
    BY <1>1 DEF TypeInv, IdsOK, BoardIds
  <2> QED
    BY <1>0, <1>1, <2>3, <2>4, QuietType
<1>2. ASSUME NEW id \in BoardIds, NEW u \in Users, BeginAppoint(c, id, u) PROVE TypeInv'
  <2> DEFINE r == [new EXCEPT !.id = id, !.user = u]
  <2>1. r \in CallState /\ r.pc = "new" /\ r.id = id /\ r.user = u /\ r.rows = {}
    BY <1>0, OverType DEF new, CallState
  <2>2. Begin(c, "appoint", r) /\ UNCHANGED <<boards, requests, managers, cache, loading>>
    BY <1>2 DEF BeginAppoint, Same
  <2> HIDE DEF r
  <2> QED
    BY <1>0, <1>1, <2>1, <2>2
<1>3. ASSUME NEW id \in BoardIds, NEW u \in Users, BeginReplace(c, id, u) PROVE TypeInv'
  <2> DEFINE r == [new EXCEPT !.id = id, !.user = u, !.rows = Of(id, "manager")]
  <2>1. Of(id, "manager") \in SUBSET Manager
    BY <1>0 DEF Of
  <2>2. r \in CallState /\ r.pc = "new" /\ r.id = id /\ r.user = u /\ r.rows = Of(id, "manager")
    BY <1>0, <2>1, OverType DEF new, CallState
  <2>3. Begin(c, "replace", r) /\ UNCHANGED <<boards, requests, managers, cache, loading>>
    BY <1>3 DEF BeginReplace, Same
  <2> HIDE DEF r
  <2> QED
    BY <1>0, <1>1, <2>1, <2>2, <2>3
<1>4. ASSUME NEW m \in managers, BeginDismiss(c, m) PROVE TypeInv'
  <2> DEFINE r == [new EXCEPT !.id = m.board, !.user = m.user]
  <2>1. m.board \in Ids /\ m.user \in Users
    BY <1>0 DEF Manager
  <2>2. r \in CallState /\ r.pc = "new" /\ r.id = m.board /\ r.user = m.user /\ r.rows = {}
    BY <2>1, OverType DEF new, CallState
  <2>3. Begin(c, "dismiss", r) /\ UNCHANGED <<boards, requests, managers, cache, loading>>
    BY <1>4 DEF BeginDismiss, Same
  <2> HIDE DEF r
  <2> QED
    BY <1>0, <1>1, <2>1, <2>2, <2>3
<1>5. ASSUME call[c].pc \in {"appoint", "dismiss", "replace"}, Done(c),
             UNCHANGED <<boards, requests, cache, loading>>,
             managers' \subseteq [board : BoardIds, user : Users, role : {"manager", "sub_manager"}],
             \A m, n \in managers' : (m.board = n.board /\ m.user = n.user) => m = n
      PROVE  TypeInv'
  <2>1. /\ CallsOK' /\ call'[c].pc = "over"
        /\ \A d \in Calls : d # c => call'[d] = call[d]
    BY <1>0, <1>5, ToType, OverType DEF Done
  <2>2. TypeOK'
    BY <1>5, <2>1 DEF TypeInv, TypeOK, CallsOK, BoardIds
  <2>3. \A i : Used(i) => Used(i)'
    BY <1>5, <2>1 DEF Used
  <2>4. IdsOK' /\ ReviewsOK'
    BY <1>5, <2>1, <2>3 DEF TypeInv, IdsOK, ReviewsOK
  <2> QED
    BY <2>1, <2>2, <2>4 DEF TypeInv
<1>6. CASE Appoint(c)
  <2>1. call[c].pc = "appoint" /\ Done(c) /\ UNCHANGED <<boards, requests, cache, loading>>
    BY <1>6 DEF Appoint, At, Same
  <2>2. call[c].user \in Users
    BY <1>0, <2>1 DEF CallsOK, Known
  <2>3. CASE managers' = managers
    BY <1>0, <1>5, <2>1, <2>3
  <2>4. CASE /\ ~Refused(call[c])
             /\ managers' = managers \cup {[board |-> call[c].id, user |-> call[c].user,
                                            role |-> "sub_manager"]}
    BY <1>0, <1>5, <2>1, <2>2, <2>4 DEF Refused
  <2> QED
    BY <1>6, <2>3, <2>4 DEF Appoint
<1>7. CASE Dismiss(c)
  BY <1>0, <1>5, <1>7 DEF Dismiss, At, Same
<1>8. CASE Replace(c)
  <2>1. call[c].pc = "replace" /\ Done(c) /\ UNCHANGED <<boards, requests, cache, loading>>
    BY <1>8 DEF Replace, At, Same
  <2>2. call[c].user \in Users
    BY <1>0, <2>1 DEF CallsOK, Known
  <2>3. CASE managers' = managers
    BY <1>0, <1>5, <2>1, <2>3
  <2>4. CASE /\ call[c].id \in BoardIds
             /\ managers' = Leaves(call[c]) \cup {[board |-> call[c].id, user |-> call[c].user,
                                                   role |-> "manager"]}
    BY <1>0, <1>5, <2>1, <2>2, <2>4 DEF Leaves
  <2> QED
    BY <1>8, <2>3, <2>4 DEF Replace
<1> QED
  BY <1>2, <1>3, <1>4, <1>6, <1>7, <1>8 DEF ManagerCall

\* Loading, installing and dropping the copy of a server keeps the types.
LEMMA LoadType ==
    ASSUME TypeInv, NEW v \in Servers,
           BeginLoad(v) \/ ReadBoards(v) \/ Install(v) \/ Expire(v)
    PROVE  TypeInv'
<1>1. UNCHANGED <<boards, requests, managers, call>>
  BY DEF BeginLoad, ReadBoards, Install, Expire
<1>2. BoardIds \subseteq Ids
  BY DEF TypeInv, TypeOK, BoardIds
<1>3. /\ cache \in [Servers -> (SUBSET Ids) \cup {None}]
      /\ loading \in [Servers -> (SUBSET Ids) \cup {None, Begun}]
  BY DEF TypeInv, TypeOK
<1>4. /\ cache' \in [Servers -> (SUBSET Ids) \cup {None}]
      /\ loading' \in [Servers -> (SUBSET Ids) \cup {None, Begun}]
  BY <1>2, <1>3 DEF BeginLoad, ReadBoards, Install, Expire
<1>5. TypeOK'
  BY <1>1, <1>4 DEF TypeInv, TypeOK, BoardIds
<1> QED
  BY <1>1, <1>5 DEF TypeInv, CallsOK, Known, IdsOK, Used, ReviewsOK

\* The types hold at first ...
LEMMA TypeInitially == Init => TypeInv
<1> SUFFICES ASSUME Init PROVE TypeInv
  OBVIOUS
<1>1. PICK slug \in Slugs, u \in Users, other \in Slugs :
        /\ boards = {[id |-> Founding, slug |-> slug, request |-> None]}
        /\ managers = {[board |-> Founding, user |-> u, role |-> "manager"]}
        /\ requests = {[id |-> Founding, user |-> u, slug |-> other, status |-> "pending", board |-> None]}
  BY DEF Init
<1>2. TypeOK
  BY <1>1 DEF Init, TypeOK, Ids, BoardIds
<1>3. CallsOK /\ \A c \in Calls : call[c].pc = "new"
  BY OverType DEF Init, CallsOK, Known, new
<1>4. IdsOK /\ ReviewsOK
  BY <1>1, <1>3, BoardsAssumption DEF IdsOK, Used, ReviewsOK
<1> QED
  BY <1>2, <1>3, <1>4 DEF TypeInv

\* ... and a step keeps them.
LEMMA TypeStep == TypeInv /\ [Next]_vars => TypeInv'
<1> SUFFICES ASSUME TypeInv, [Next]_vars PROVE TypeInv'
  OBVIOUS
<1>1. CASE UNCHANGED vars
  BY <1>1 DEF vars, TypeInv, TypeOK, CallsOK, Known, IdsOK, Used, ReviewsOK, BoardIds
<1> QED
  BY <1>1, RequestType, BoardType, ManagerType, LoadType DEF Next

\* Every row, call and copy has its type and every key of the database is one, for every
\* number of calls, servers, users and slugs.
THEOREM TypeCorrect == Spec => []TypeOK
<1>1. TypeInv => TypeOK
  BY DEF TypeInv
<1> QED
  BY <1>1, TypeInitially, TypeStep, PTL DEF Spec

-------------------------------------------------------------------------------
(* The result of a request.                                                  *)

Result == {<<"approved">>, <<"rejected">>}

\* Results are sent of requests that exist, show the status of the request, and a call about
\* to tell of an approval has a request that is approved.
ToldInv ==
    /\ told \in [Ids -> SUBSET Result]
    /\ \A i \in Ids : told[i] # {} => \E r \in requests : r.id = i
    /\ \A r \in requests : told[r.id] \subseteq {<<r.status>>}
    /\ \A c \in Calls : call[c].pc = "announce" =>
           \A r \in requests : r.id = call[c].id => r.status = "approved"

\* Nothing of it changes in a step that tells nobody, keeps requests and does not come to
\* announce.
LEMMA ToldQuiet ==
    ASSUME ToldInv, NEW c \in Calls, call'[c].pc # "announce",
           \A d \in Calls : d # c => call'[d] = call[d],
           UNCHANGED <<requests, told>>
    PROVE  ToldInv'
BY DEF ToldInv

\* Of a request that is marked nothing was sent before.
LEMMA ToldMarked ==
    ASSUME TypeInv, ToldInv, NEW id \in Ids, Markable(id) # {}
    PROVE  /\ told[id] = {}
           /\ \A r \in requests : r.id = id => r \in Markable(id)
<1>1. PICK r \in requests : r.id = id /\ r.status = "pending"
  BY DEF Markable
<1>2. \A s \in requests : s.id = id => s = r
  BY <1>1 DEF TypeInv, TypeOK
<1>3. told[id] \subseteq {<<"pending">>} /\ told[id] \subseteq Result
  BY <1>1 DEF ToldInv
<1>4. <<"pending">> \notin Result
  BY DEF Result
<1> QED
  BY <1>1, <1>2, <1>3, <1>4 DEF Markable

\* Marking a request that is pending keeps what was told, when its requester is told the
\* same or nothing.
LEMMA ToldAfterMark ==
    ASSUME TypeInv, ToldInv, NEW c \in Calls, NEW id \in Ids,
           NEW status \in {"approved", "rejected"}, NEW board \in Ids \cup {None},
           board \in BoardIds' \cup {None}, BoardIds \subseteq BoardIds',
           Marked(id, status, board), Markable(id) # {},
           UNCHANGED told \/ Tell(id, status),
           \A d \in Calls : d # c => call'[d] = call[d],
           call'[c].pc = "announce" => status = "approved" /\ call'[c].id = id
    PROVE  ToldInv'
<1>1. /\ requests' \subseteq Request
      /\ \A r \in requests : \E s \in requests' : s.id = r.id
      /\ \A s \in requests' : \/ s \in requests /\ (s.id # id \/ s.status # "pending")
                              \/ /\ s.id = id /\ s.status = status /\ s.board = board
                                 /\ \E r \in requests : r.id = id /\ r.status = "pending"
  BY MarkedType
<1>2. told[id] = {} /\ \A r \in requests : r.id = id => r.status = "pending"
  BY ToldMarked DEF Markable
<1>3. \A s \in requests' : \/ s \in requests /\ s.id # id
                           \/ s.id = id /\ s.status = status
  BY <1>1, <1>2
<1>4. \E r \in requests : r.id = id
  BY DEF Markable
<1>5. <<status>> \in Result
  BY DEF Result
<1>6. told' \in [Ids -> SUBSET Result]
  BY <1>2, <1>5 DEF ToldInv, Tell
<1>7. \A i \in Ids : i # id => told'[i] = told[i]
  BY DEF ToldInv, Tell
<1>8. told'[id] \subseteq {<<status>>}
  BY <1>2 DEF ToldInv, Tell
<1>9. \A i \in Ids : told'[i] # {} => \E r \in requests' : r.id = i
  <2>1. \A i \in Ids : told'[i] # {} => \E r \in requests : r.id = i
    BY <1>4, <1>7 DEF ToldInv
  <2> QED
    BY <1>1, <2>1
<1>10. \A r \in requests' : told'[r.id] \subseteq {<<r.status>>}
  <2>1. \A r \in requests' : r.id \in Ids
    BY <1>1 DEF Request
  <2> QED
    BY <1>3, <1>7, <1>8, <2>1 DEF ToldInv
<1>11. ASSUME NEW d \in Calls, call'[d].pc = "announce", NEW r \in requests', r.id = call'[d].id
       PROVE  r.status = "approved"
  <2>1. CASE d = c
    BY <1>3, <1>11, <2>1
  <2>2. CASE d # c
    <3>1. call[d].pc = "announce" /\ call'[d] = call[d]
      BY <1>11, <2>2
    <3>2. call[d].id # id
      BY <1>2, <1>4, <3>1 DEF ToldInv
    <3> QED
      BY <1>3, <1>11, <3>1, <3>2 DEF ToldInv
  <2> QED
    BY <2>1, <2>2
<1> QED
  BY <1>6, <1>9, <1>10, <1>11 DEF ToldInv

\* Calls about requests keep it.
LEMMA ToldRequest ==
    ASSUME TypeInv, ToldInv, NEW c \in Calls, RequestCall(c)
    PROVE  ToldInv'
<1>0. CallsOK
  BY DEF TypeInv
<1>1. ASSUME Done(c)
      PROVE  /\ call'[c].pc = "over"
             /\ \A d \in Calls : d # c => call'[d] = call[d]
  BY <1>0, <1>1, ToType, OverType DEF Done
<1>2. ASSUME NEW u \in Users, NEW slug \in Slugs, BeginRequest(c, u, slug) PROVE ToldInv'
  <2> DEFINE r == [new EXCEPT !.user = u, !.slug = slug]
  <2>1. r \in CallState /\ r.pc = "new" /\ r.user = u /\ r.slug = slug
    BY OverType DEF new, CallState
  <2>2. Begin(c, "ask", r) /\ UNCHANGED <<requests, told>>
    BY <1>2 DEF BeginRequest
  <2> HIDE DEF r
  <2>3. call'[c].pc = "ask" /\ \A d \in Calls : d # c => call'[d] = call[d]
    BY <1>0, <2>1, <2>2, BeginType
  <2> QED
    BY <2>2, <2>3, ToldQuiet
<1>3. ASSUME NEW q \in requests, NEW pc \in {"approve", "reject"}, BeginReview(c, q, pc)
      PROVE  ToldInv'
  <2> DEFINE r == [new EXCEPT !.id = q.id, !.user = q.user, !.slug = q.slug]
  <2>0. q \in Request
    BY DEF TypeInv, TypeOK, Request
  <2>1. /\ r \in CallState /\ r.pc = "new"
        /\ r.id \in Ids /\ r.user \in Users /\ r.slug \in Slugs
    BY <2>0, OverType DEF new, CallState, Request
  <2>2. Begin(c, pc, r) /\ UNCHANGED <<requests, told>>
    BY <1>3 DEF BeginReview
  <2> HIDE DEF r
  <2>3. call'[c].pc = pc /\ \A d \in Calls : d # c => call'[d] = call[d]
    BY <1>0, <2>1, <2>2, BeginType
  <2> QED
    BY <2>2, <2>3, ToldQuiet
<1>4. CASE InsertRequest(c)
  <2> DEFINE q == [id |-> c, user |-> call[c].user, slug |-> call[c].slug,
                   status |-> "pending", board |-> None]
  <2>1. /\ call[c].pc = "ask" /\ Done(c) /\ UNCHANGED told
        /\ requests' = requests \cup {q} /\ q.id = c
    BY <1>4 DEF InsertRequest, At
  <2> HIDE DEF q
  <2>2. \A r \in requests : r.id # c
    BY <2>1 DEF TypeInv, IdsOK
  <2>3. c \in Ids /\ told[c] = {}
    BY <2>2 DEF ToldInv, Ids
  <2>4. \A d \in Calls : call[d].pc = "announce" => call[d].id # c
    BY <2>2 DEF TypeInv, ReviewsOK
  <2> QED
    BY <1>1, <2>1, <2>2, <2>3, <2>4 DEF ToldInv
<1>5. CASE Reject(c)
  <2>1. /\ call[c].pc = "reject" /\ Done(c)
        /\ Marked(call[c].id, "rejected", None) /\ UNCHANGED boards
        /\ IF Markable(call[c].id) # {} THEN Tell(call[c].id, "rejected") ELSE UNCHANGED told
    BY <1>5 DEF Reject, At
  <2>2. call[c].id \in Ids
    BY <1>0, <2>1 DEF CallsOK, Known
  <2>3. CASE Markable(call[c].id) # {}
    <3>1. BoardIds' = BoardIds
      BY <2>1 DEF BoardIds
    <3> QED
      BY <1>1, <2>1, <2>2, <2>3, <3>1, ToldAfterMark
  <2>4. CASE Markable(call[c].id) = {}
    <3>1. requests' = requests
      BY <2>1, <2>4 DEF Marked
    <3> QED
      BY <1>1, <2>1, <2>4, <3>1, ToldQuiet
  <2> QED
    BY <2>3, <2>4
<1>6. CASE Approve(c)
  <2> DEFINE r == call[c]
  <2>1. r.pc = "approve" /\ UNCHANGED told
    BY <1>6 DEF Approve, At
  <2>2. r \in CallState /\ r.id \in Ids /\ r.server \in Servers
    BY <1>0, <2>1 DEF CallsOK, Known
  <2>3. CASE Done(c) /\ UNCHANGED requests
    BY <1>1, <2>1, <2>3, ToldQuiet
  <2>4. CASE /\ boards' = boards \cup {[id |-> c, slug |-> r.slug, request |-> r.id]}
             /\ Marked(r.id, "approved", c)
             /\ Markable(r.id) # {} /\ To(c, [r EXCEPT !.pc = "announce"])
    <3> DEFINE s == [r EXCEPT !.pc = "announce"]
    <3>1. s \in CallState /\ Known(s) /\ s.pc = "announce" /\ s.id = r.id /\ To(c, s)
      BY <2>1, <2>2, <2>4 DEF CallState, Known
    <3> HIDE DEF s, r
    <3>2. /\ call'[c].pc = "announce" /\ call'[c].id = r.id
          /\ \A d \in Calls : d # c => call'[d] = call[d]
      BY <1>0, <3>1, ToType
    <3>3. BoardIds' = BoardIds \cup {c}
      BY <2>4, BoardAdded
    <3> QED
      BY <2>1, <2>2, <2>4, <3>2, <3>3, ToldAfterMark DEF Ids
  <2>5. CASE Marked(r.id, "approved", c) /\ Markable(r.id) = {} /\ Done(c)
    <3>1. requests' = requests
      BY <2>5 DEF Marked
    <3> QED
      BY <1>1, <2>1, <2>5, <3>1, ToldQuiet
  <2> QED
    BY <1>6, <2>3, <2>4, <2>5 DEF Approve
<1>7. CASE Announce(c)
  <2>1. /\ call[c].pc = "announce" /\ Done(c) /\ UNCHANGED requests
        /\ Tell(call[c].id, "approved")
    BY <1>7 DEF Announce, At
  <2>2. call[c].id \in Ids
    BY <1>0, <2>1 DEF CallsOK, Known
  <2>3. \E r \in requests : r.id = call[c].id
    BY <2>1 DEF TypeInv, ReviewsOK
  <2>4. /\ told' \in [Ids -> SUBSET Result]
        /\ told'[call[c].id] = told[call[c].id] \cup {<<"approved">>}
        /\ \A i \in Ids : i # call[c].id => told'[i] = told[i]
    BY <2>1, <2>2 DEF Tell, ToldInv, Result
  <2>5. \A i \in Ids : told'[i] # {} => \E r \in requests : r.id = i
    BY <2>3, <2>4 DEF ToldInv
  <2>6. \A r \in requests : told'[r.id] \subseteq {<<r.status>>}
    <3>1. \A r \in requests : r.id \in Ids
      BY DEF TypeInv, TypeOK
    <3> QED
      BY <2>1, <2>4, <3>1 DEF ToldInv
  <2> QED
    BY <1>1, <2>1, <2>4, <2>5, <2>6 DEF ToldInv
<1> QED
  BY <1>2, <1>3, <1>4, <1>5, <1>6, <1>7 DEF RequestCall

-------------------------------------------------------------------------------
(* What the calls do to requests and managers.                               *)

\* Calls about requests: a request is stored, or requests stop being pending; a board that is
\* approved gets its manager.
LEMMA RequestEffects ==
    ASSUME TypeInv, NEW c \in Calls, RequestCall(c)
    PROVE  /\ call[c].pc # "over" /\ call'[c].pc \in {"ask", "approve", "reject", "announce", "over"}
           /\ \A d \in Calls : d # c => call'[d] = call[d]
           /\ call'[c].pc = "ask" => requests' = requests /\ Pending(call'[c].user) = {}
           /\ \/ \A s \in requests' : s.status = "pending" => s \in requests
              \/ /\ call[c].pc = "ask" /\ call'[c].pc = "over"
                 /\ \E q : requests' = requests \cup {q} /\ q.user = call[c].user
           /\ \/ managers' = managers
              \/ /\ call[c].pc = "approve"
                 /\ \E u \in Users : managers' = managers \cup {[board |-> c, user |-> u, role |-> "manager"]}
<1>0. CallsOK
  BY DEF TypeInv
<1>1. ASSUME Done(c)
      PROVE  /\ call'[c].pc = "over"
             /\ \A d \in Calls : d # c => call'[d] = call[d]
  BY <1>0, <1>1, ToType, OverType DEF Done
<1>2. ASSUME NEW u \in Users, NEW slug \in Slugs, BeginRequest(c, u, slug)
      PROVE  /\ call[c].pc = "new" /\ call'[c].pc = "ask" /\ call'[c].user = u
             /\ \A d \in Calls : d # c => call'[d] = call[d]
             /\ Pending(u) = {} /\ UNCHANGED <<requests, managers>>
  <2> DEFINE r == [new EXCEPT !.user = u, !.slug = slug]
  <2>1. r \in CallState /\ r.pc = "new" /\ r.user = u /\ r.slug = slug
    BY OverType DEF new, CallState
  <2>2. Begin(c, "ask", r) /\ Pending(u) = {} /\ UNCHANGED <<requests, managers>>
    BY <1>2 DEF BeginRequest
  <2> HIDE DEF r
  <2> QED
    BY <1>0, <2>1, <2>2, BeginType
<1>3. ASSUME NEW q \in requests, NEW pc \in {"approve", "reject"}, BeginReview(c, q, pc)
      PROVE  /\ call[c].pc = "new" /\ call'[c].pc = pc
             /\ \A d \in Calls : d # c => call'[d] = call[d]
             /\ UNCHANGED <<requests, managers>>
  <2> DEFINE r == [new EXCEPT !.id = q.id, !.user = q.user, !.slug = q.slug]
  <2>0. q \in Request
    BY DEF TypeInv, TypeOK, Request
  <2>1. /\ r \in CallState /\ r.pc = "new"
        /\ r.id \in Ids /\ r.user \in Users /\ r.slug \in Slugs
    BY <2>0, OverType DEF new, CallState, Request
  <2>2. Begin(c, pc, r) /\ UNCHANGED <<requests, managers>>
    BY <1>3 DEF BeginReview
  <2> HIDE DEF r
  <2> QED
    BY <1>0, <2>1, <2>2, BeginType
<1>4. CASE InsertRequest(c)
  <2> DEFINE q == [id |-> c, user |-> call[c].user, slug |-> call[c].slug,
                   status |-> "pending", board |-> None]
  <2>1. /\ call[c].pc = "ask" /\ Done(c) /\ requests' = requests \cup {q} /\ q.user = call[c].user
        /\ UNCHANGED managers
    BY <1>4 DEF InsertRequest, At
  <2> HIDE DEF q
  <2> QED
    BY <1>1, <2>1
<1>5. ASSUME NEW id \in Ids, NEW status \in {"approved", "rejected"}, NEW board \in Ids \cup {None},
             board \in BoardIds' \cup {None}, BoardIds \subseteq BoardIds',
             Marked(id, status, board)
      PROVE  \A s \in requests' : s.status = "pending" => s \in requests
  BY <1>5, MarkedType
<1>6. CASE Reject(c)
  <2>1. /\ call[c].pc = "reject" /\ Done(c) /\ Marked(call[c].id, "rejected", None)
        /\ UNCHANGED <<boards, managers>>
    BY <1>6 DEF Reject, At
  <2>2. call[c].id \in Ids
    BY <1>0, <2>1 DEF CallsOK, Known
  <2>3. BoardIds' = BoardIds
    BY <2>1 DEF BoardIds
  <2> QED
    BY <1>1, <1>5, <2>1, <2>2, <2>3
<1>7. CASE Approve(c)
  <2> DEFINE r == call[c]
  <2>1. r.pc = "approve"
    BY <1>7 DEF Approve, At
  <2>2. r \in CallState /\ r.id \in Ids /\ r.user \in Users /\ r.server \in Servers
    BY <1>0, <2>1 DEF CallsOK, Known
  <2>3. CASE Done(c) /\ UNCHANGED <<requests, managers>>
    BY <1>1, <2>1, <2>3
  <2>4. CASE /\ boards' = boards \cup {[id |-> c, slug |-> r.slug, request |-> r.id]}
             /\ managers' = managers \cup {[board |-> c, user |-> r.user, role |-> "manager"]}
             /\ Marked(r.id, "approved", c)
             /\ To(c, [r EXCEPT !.pc = "announce"]) \/ Done(c)
    <3> DEFINE s == [r EXCEPT !.pc = "announce"]
    <3>1. s \in CallState /\ Known(s) /\ s.pc = "announce"
      BY <2>1, <2>2 DEF CallState, Known
    <3>2. To(c, s) \/ Done(c)
      BY <2>4
    <3> HIDE DEF s, r
    <3>3. /\ call'[c].pc \in {"announce", "over"}
          /\ \A d \in Calls : d # c => call'[d] = call[d]
      BY <1>0, <1>1, <3>1, <3>2, ToType
    <3>4. BoardIds' = BoardIds \cup {c}
      BY <2>4, BoardAdded
    <3>5. \A q \in requests' : q.status = "pending" => q \in requests
      BY <1>5, <2>2, <2>4, <3>4 DEF Ids
    <3> QED
      BY <2>1, <2>2, <2>4, <3>3, <3>5 DEF r
  <2> QED
    BY <1>7, <2>3, <2>4 DEF Approve
<1>8. CASE Announce(c)
  BY <1>1, <1>8 DEF Announce, At
<1> QED
  BY <1>2, <1>3, <1>4, <1>6, <1>7, <1>8 DEF RequestCall

\* Calls about boards take managers away at most, and requests keep what they are.
LEMMA BoardEffects ==
    ASSUME TypeInv, NEW c \in Calls, BoardCall(c)
    PROVE  /\ call[c].pc # "over" /\ call'[c].pc \in {"flush", "over"}
           /\ \A d \in Calls : d # c => call'[d] = call[d]
           /\ managers' \subseteq managers
           /\ UNCHANGED told
           /\ \A r \in requests : \E s \in requests' : s.id = r.id
           /\ \A s \in requests' : \E r \in requests :
                  r.id = s.id /\ r.user = s.user /\ r.status = s.status
<1>0. CallsOK /\ requests \subseteq Request
  BY DEF TypeInv, TypeOK, Request
<1>1. ASSUME NEW v \in Servers, To(c, [new EXCEPT !.pc = "flush", !.server = v])
      PROVE  /\ call'[c].pc = "flush"
             /\ \A d \in Calls : d # c => call'[d] = call[d]
  <2> DEFINE s == [new EXCEPT !.pc = "flush", !.server = v]
  <2>1. s \in CallState /\ Known(s) /\ s.pc = "flush" /\ To(c, s)
    BY <1>1, OverType DEF new, CallState, Known
  <2> HIDE DEF s
  <2> QED
    BY <1>0, <2>1, ToType
<1>2. ASSUME NEW slug \in Slugs, MakeBoard(c, slug)
      PROVE  /\ call[c].pc = "new" /\ call'[c].pc = "flush"
             /\ \A d \in Calls : d # c => call'[d] = call[d]
             /\ UNCHANGED <<requests, managers, told>>
  BY <1>1, <1>2 DEF MakeBoard, At
<1>3. ASSUME NEW id \in BoardIds, DeleteBoard(c, id)
      PROVE  /\ call[c].pc = "new" /\ call'[c].pc = "flush"
             /\ \A d \in Calls : d # c => call'[d] = call[d]
             /\ managers' \subseteq managers /\ UNCHANGED told
             /\ \A r \in requests : \E s \in requests' : s.id = r.id
             /\ \A s \in requests' : \E r \in requests :
                    r.id = s.id /\ r.user = s.user /\ r.status = s.status
  <2> DEFINE left(r) == [r EXCEPT !.board = IF @ = id THEN None ELSE @]
  <2>1. /\ call[c].pc = "new" /\ managers' \subseteq managers /\ UNCHANGED told
        /\ requests' = {left(r) : r \in requests}
    BY <1>3 DEF DeleteBoard, At
  <2>2. call'[c].pc = "flush" /\ \A d \in Calls : d # c => call'[d] = call[d]
    BY <1>1, <1>3 DEF DeleteBoard
  <2>3. \A r \in Request : left(r).id = r.id /\ left(r).user = r.user /\ left(r).status = r.status
    BY DEF Request
  <2> HIDE DEF left
  <2> QED
    BY <1>0, <2>1, <2>2, <2>3
<1>4. CASE Flush(c)
  BY <1>0, <1>4, ToType, OverType DEF Flush, At, Done
<1> QED
  BY <1>2, <1>3, <1>4 DEF BoardCall

\* Calls about managers: one that begins to appoint has found room, one that begins to replace
\* has seen the manager; then a sub manager is added, or the manager replaced.
LEMMA ManagerEffects ==
    ASSUME TypeInv, NEW c \in Calls, ManagerCall(c)
    PROVE  /\ call[c].pc \notin {"over", "flush", "announce"}
           /\ call'[c].pc \in {"appoint", "dismiss", "replace", "over"}
           /\ \A d \in Calls : d # c => call'[d] = call[d]
           /\ UNCHANGED <<boards, requests, cache, loading, told, excused>>
           /\ call'[c].pc = "appoint" => managers' = managers /\ BelowLimit(call'[c].id)
           /\ call'[c].pc = "replace" =>
                  managers' = managers /\ call'[c].rows = Of(call'[c].id, "manager")
           /\ \/ managers' \subseteq managers
              \/ /\ call[c].pc = "appoint" /\ call'[c].pc = "over"
                 /\ managers' = managers \cup {[board |-> call[c].id, user |-> call[c].user,
                                                role |-> "sub_manager"]}
              \/ /\ call[c].pc = "replace" /\ call'[c].pc = "over"
                 /\ managers' = Leaves(call[c]) \cup {[board |-> call[c].id, user |-> call[c].user,
                                                       role |-> "manager"]}
<1>0. /\ CallsOK /\ managers \subseteq Manager /\ BoardIds \subseteq Ids
  BY DEF TypeInv, TypeOK, Manager, BoardIds
<1>1. ASSUME Done(c)
      PROVE  /\ call'[c].pc = "over"
             /\ \A d \in Calls : d # c => call'[d] = call[d]
  BY <1>0, <1>1, ToType, OverType DEF Done
<1>2. ASSUME NEW id \in Ids, NEW u \in Users, NEW rows \in SUBSET Manager,
             NEW pc \in {"appoint", "dismiss", "replace"},
             NEW r \in CallState, r.pc = "new", r.id = id, r.user = u, r.rows = rows, Begin(c, pc, r)
      PROVE  /\ call[c].pc = "new" /\ call'[c].pc = pc /\ call'[c].id = id /\ call'[c].rows = rows
             /\ \A d \in Calls : d # c => call'[d] = call[d]
  BY <1>0, <1>2, BeginType
<1>3. ASSUME NEW id \in BoardIds, NEW u \in Users, BeginAppoint(c, id, u)
      PROVE  /\ call[c].pc = "new" /\ call'[c].pc = "appoint"
             /\ \A d \in Calls : d # c => call'[d] = call[d]
             /\ BelowLimit(call'[c].id)
             /\ UNCHANGED <<boards, requests, managers, cache, loading, told, excused>>
  <2> DEFINE r == [new EXCEPT !.id = id, !.user = u]
  <2>1. r \in CallState /\ r.pc = "new" /\ r.id = id /\ r.user = u /\ r.rows = {}
    BY <1>0, OverType DEF new, CallState
  <2>2. /\ Begin(c, "appoint", r) /\ BelowLimit(id)
        /\ UNCHANGED <<boards, requests, managers, cache, loading, told, excused>>
    BY <1>3 DEF BeginAppoint, Same
  <2> HIDE DEF r
  <2> QED
    BY <1>0, <1>2, <2>1, <2>2
<1>4. ASSUME NEW id \in BoardIds, NEW u \in Users, BeginReplace(c, id, u)
      PROVE  /\ call[c].pc = "new" /\ call'[c].pc = "replace"
             /\ \A d \in Calls : d # c => call'[d] = call[d]
             /\ call'[c].rows = Of(call'[c].id, "manager")
             /\ UNCHANGED <<boards, requests, managers, cache, loading, told, excused>>
  <2> DEFINE r == [new EXCEPT !.id = id, !.user = u, !.rows = Of(id, "manager")]
  <2>1. Of(id, "manager") \in SUBSET Manager
    BY <1>0 DEF Of
  <2>2. r \in CallState /\ r.pc = "new" /\ r.id = id /\ r.user = u /\ r.rows = Of(id, "manager")
    BY <1>0, <2>1, OverType DEF new, CallState
  <2>3. /\ Begin(c, "replace", r)
        /\ UNCHANGED <<boards, requests, managers, cache, loading, told, excused>>
    BY <1>4 DEF BeginReplace, Same
  <2> HIDE DEF r
  <2> QED
    BY <1>0, <1>2, <2>1, <2>2, <2>3
<1>5. ASSUME NEW m \in managers, BeginDismiss(c, m)
      PROVE  /\ call[c].pc = "new" /\ call'[c].pc = "dismiss"
             /\ \A d \in Calls : d # c => call'[d] = call[d]
             /\ UNCHANGED <<boards, requests, managers, cache, loading, told, excused>>
  <2> DEFINE r == [new EXCEPT !.id = m.board, !.user = m.user]
  <2>1. m.board \in Ids /\ m.user \in Users
    BY <1>0 DEF Manager
  <2>2. r \in CallState /\ r.pc = "new" /\ r.id = m.board /\ r.user = m.user /\ r.rows = {}
    BY <2>1, OverType DEF new, CallState
  <2>3. /\ Begin(c, "dismiss", r)
        /\ UNCHANGED <<boards, requests, managers, cache, loading, told, excused>>
    BY <1>5 DEF BeginDismiss, Same
  <2> HIDE DEF r
  <2> QED
    BY <1>0, <1>2, <2>1, <2>2, <2>3
<1>6. CASE Appoint(c)
  BY <1>1, <1>6 DEF Appoint, At, Same
<1>7. CASE Dismiss(c)
  BY <1>1, <1>7 DEF Dismiss, At, Same
<1>8. CASE Replace(c)
  BY <1>1, <1>8 DEF Replace, At, Same
<1> QED
  BY <1>3, <1>4, <1>5, <1>6, <1>7, <1>8 DEF ManagerCall

\* What was told stays right in every step.
LEMMA ToldStep == TypeInv /\ ToldInv /\ [Next]_vars => ToldInv'
<1> SUFFICES ASSUME TypeInv, ToldInv, [Next]_vars PROVE ToldInv'
  OBVIOUS
<1>1. CASE UNCHANGED vars
  BY <1>1 DEF vars, ToldInv
<1>2. ASSUME NEW c \in Calls, RequestCall(c) PROVE ToldInv'
  BY <1>2, ToldRequest
<1>3. ASSUME NEW c \in Calls, BoardCall(c) PROVE ToldInv'
  <2>1. /\ call'[c].pc # "announce" /\ UNCHANGED told
        /\ \A d \in Calls : d # c => call'[d] = call[d]
        /\ \A r \in requests : \E s \in requests' : s.id = r.id
        /\ \A s \in requests' : \E r \in requests : r.id = s.id /\ r.status = s.status
    BY <1>3, BoardEffects
  <2> QED
    BY <2>1 DEF ToldInv
<1>4. ASSUME NEW c \in Calls, ManagerCall(c) PROVE ToldInv'
  <2>1. /\ call'[c].pc # "announce" /\ UNCHANGED <<requests, told>>
        /\ \A d \in Calls : d # c => call'[d] = call[d]
    BY <1>4, ManagerEffects
  <2> QED
    BY <2>1, ToldQuiet
<1>5. ASSUME NEW v \in Servers, BeginLoad(v) \/ ReadBoards(v) \/ Install(v) \/ Expire(v)
      PROVE  ToldInv'
  BY <1>5 DEF BeginLoad, ReadBoards, Install, Expire, ToldInv
<1> QED
  BY <1>1, <1>2, <1>3, <1>4, <1>5 DEF Next

\* The requester of a board gets one result, and it is the one the request shows, for every
\* number of administrators who review it at once.
THEOREM ToldOnceCorrect == Spec => []ToldOnce
<1>1. ASSUME Init PROVE ToldInv
  <2>1. requests \subseteq Request
    BY <1>1, TypeInitially DEF TypeInv, TypeOK, Request
  <2>2. \A r \in requests : told[r.id] = {}
    BY <1>1, <2>1 DEF Init, Request
  <2>3. \A c \in Calls : call[c].pc = "new"
    BY <1>1 DEF Init, new
  <2> QED
    BY <1>1, <2>2, <2>3 DEF Init, ToldInv
<1>2. ToldInv => ToldOnce
  BY DEF ToldInv, ToldOnce
<1> QED
  BY <1>1, <1>2, TypeInitially, TypeStep, ToldStep, PTL DEF Spec

-------------------------------------------------------------------------------
(* The copies of the boards.                                                 *)

\* No call is about to make the server forget its copy.
Settled(v) == ~\E c \in Calls : call[c].server = v /\ call[c].pc \in {"flush", "announce"}

\* A server that is not excused has the boards of now, and loads those, unless a call on it
\* is about to make it forget.
SeenInv ==
    \A v \in Servers : (v \notin excused /\ Settled(v)) =>
        /\ cache[v] # None => cache[v] = BoardIds
        /\ loading[v] \notin {None, Begun} => loading[v] = BoardIds

\* A step that keeps the boards and copies, and neither ends a flush nor begins one, keeps it.
LEMMA SeenQuiet ==
    ASSUME SeenInv, NEW c \in Calls, call[c].pc \notin {"flush", "announce"},
           \A d \in Calls : d # c => call'[d] = call[d],
           UNCHANGED <<boards, cache, loading, excused>>
    PROVE  SeenInv'
<1>1. BoardIds' = BoardIds
  BY DEF BoardIds
<1>2. \A v : Settled(v)' => Settled(v)
  BY DEF Settled
<1> QED
  BY <1>1, <1>2 DEF SeenInv

\* A server that forgets its copy has none; with a load under way it is excused.
LEMMA SeenFlushed ==
    ASSUME TypeInv, SeenInv, NEW c \in Calls, NEW w \in Servers, call[c].server = w,
           Flushed(w), \A d \in Calls : d # c => call'[d] = call[d],
           UNCHANGED <<boards, loading>>
    PROVE  SeenInv'
<1>1. BoardIds' = BoardIds
  BY DEF BoardIds
<1>2. \A v \in Servers : cache'[v] = IF v = w THEN None ELSE cache[v]
  BY DEF TypeInv, TypeOK, Flushed, Forget
<1>3. \A v \in Servers : v \notin excused' => v \notin excused /\ (v = w => loading[v] = None)
  BY DEF Flushed
<1>4. \A v \in Servers : v # w /\ Settled(v)' => Settled(v)
  BY DEF Settled
<1> QED
  BY <1>1, <1>2, <1>3, <1>4 DEF SeenInv

\* After a change of the boards by a call on server w that is about to make it forget, every
\* other server is excused.
LEMMA SeenWritten ==
    ASSUME NEW c \in Calls, NEW w \in Servers, call'[c].server = w,
           call'[c].pc \in {"flush", "announce"}, Written(w)
    PROVE  SeenInv'
BY DEF SeenInv, Settled, Written

\* The calls keep it ...
LEMMA SeenCalls ==
    ASSUME TypeInv, SeenInv, NEW c \in Calls, RequestCall(c) \/ BoardCall(c)
    PROVE  SeenInv'
<1>0. CallsOK
  BY DEF TypeInv
<1>1. \A d \in Calls : d # c => call'[d] = call[d]
  BY RequestEffects, BoardEffects
<1>2. ASSUME NEW v \in Servers, To(c, [new EXCEPT !.pc = "flush", !.server = v]), Written(v)
      PROVE  SeenInv'
  <2> DEFINE s == [new EXCEPT !.pc = "flush", !.server = v]
  <2>1. s \in CallState /\ Known(s) /\ s.pc = "flush" /\ s.server = v /\ To(c, s)
    BY <1>2, OverType DEF new, CallState, Known
  <2> HIDE DEF s
  <2>2. call'[c].pc = "flush" /\ call'[c].server = v
    BY <1>0, <2>1, ToType
  <2> QED
    BY <1>2, <2>2, SeenWritten
<1>3. ASSUME NEW u \in Users, NEW slug \in Slugs, BeginRequest(c, u, slug) PROVE SeenInv'
  <2>1. call[c].pc = "new" /\ UNCHANGED <<boards, cache, loading, excused>>
    BY <1>3 DEF BeginRequest, Begin, At, Same
  <2> QED
    BY <1>1, <2>1, SeenQuiet
<1>4. ASSUME NEW q \in requests, NEW pc \in {"approve", "reject"}, BeginReview(c, q, pc)
      PROVE  SeenInv'
  <2>1. call[c].pc = "new" /\ UNCHANGED <<boards, cache, loading, excused>>
    BY <1>4 DEF BeginReview, Begin, At, Same
  <2> QED
    BY <1>1, <2>1, SeenQuiet
<1>5. CASE InsertRequest(c) \/ Reject(c)
  <2>1. call[c].pc \in {"ask", "reject"} /\ UNCHANGED <<boards, cache, loading, excused>>
    BY <1>5 DEF InsertRequest, Reject, At, Same
  <2> QED
    BY <1>1, <2>1, SeenQuiet
<1>6. CASE Approve(c)
  <2> DEFINE r == call[c]
  <2>1. r.pc = "approve" /\ UNCHANGED <<cache, loading>>
    BY <1>6 DEF Approve, At, Same
  <2>2. r \in CallState /\ r.id \in Ids /\ r.server \in Servers
    BY <1>0, <2>1 DEF CallsOK, Known
  <2>3. CASE UNCHANGED <<boards, excused>>
    BY <1>1, <2>1, <2>3, SeenQuiet
  <2>4. CASE To(c, [r EXCEPT !.pc = "announce"]) /\ Written(r.server)
    <3> DEFINE s == [r EXCEPT !.pc = "announce"]
    <3>1. s \in CallState /\ Known(s) /\ s.pc = "announce" /\ s.server = r.server /\ To(c, s)
      BY <2>1, <2>2, <2>4 DEF CallState, Known
    <3> HIDE DEF s, r
    <3>2. call'[c].pc = "announce" /\ call'[c].server = r.server
      BY <1>0, <3>1, ToType
    <3> QED
      BY <2>2, <2>4, <3>2, SeenWritten
  <2>5. CASE excused' = Servers
    BY <2>5 DEF SeenInv
  <2> QED
    BY <1>6, <2>3, <2>4, <2>5 DEF Approve
<1>7. CASE Announce(c) \/ Flush(c)
  <2>1. /\ call[c].pc \in {"announce", "flush"} /\ Flushed(call[c].server)
        /\ UNCHANGED <<boards, loading>>
    BY <1>7 DEF Announce, Flush, At
  <2>2. call[c].server \in Servers
    BY <1>0, <2>1 DEF CallsOK, Known
  <2> QED
    BY <1>1, <2>1, <2>2, SeenFlushed
<1>8. ASSUME NEW slug \in Slugs, MakeBoard(c, slug) PROVE SeenInv'
  BY <1>2, <1>8 DEF MakeBoard
<1>9. ASSUME NEW id \in BoardIds, DeleteBoard(c, id) PROVE SeenInv'
  BY <1>2, <1>9 DEF DeleteBoard
<1> QED
  BY <1>3, <1>4, <1>5, <1>6, <1>7, <1>8, <1>9 DEF RequestCall, BoardCall

\* ... and so do the loads: one that begins ends the excuse, for it reads the boards of now.
LEMMA SeenLoads ==
    ASSUME TypeInv, SeenInv, NEW w \in Servers,
           BeginLoad(w) \/ ReadBoards(w) \/ Install(w) \/ Expire(w)
    PROVE  SeenInv'
<1>1. /\ BoardIds' = BoardIds /\ \A v : Settled(v)' <=> Settled(v)
      /\ DOMAIN cache = Servers /\ DOMAIN loading = Servers
  BY DEF BeginLoad, ReadBoards, Install, Expire, BoardIds, Settled, TypeInv, TypeOK
<1>2. CASE BeginLoad(w)
  <2>1. /\ cache[w] = None /\ UNCHANGED cache /\ excused' = excused \ {w}
        /\ \A v \in Servers : loading'[v] = IF v = w THEN Begun ELSE loading[v]
    BY <1>1, <1>2 DEF BeginLoad
  <2> QED
    BY <1>1, <2>1 DEF SeenInv
<1>3. CASE ReadBoards(w)
  <2>1. /\ UNCHANGED <<cache, excused>>
        /\ \A v \in Servers : loading'[v] = IF v = w THEN BoardIds ELSE loading[v]
    BY <1>1, <1>3 DEF ReadBoards
  <2> QED
    BY <1>1, <2>1 DEF SeenInv
<1>4. CASE Install(w)
  <2>1. /\ UNCHANGED excused /\ loading[w] \notin {None, Begun}
        /\ \A v \in Servers : loading'[v] = IF v = w THEN None ELSE loading[v]
        /\ \A v \in Servers : cache'[v] = IF v = w THEN loading[w] ELSE cache[v]
    BY <1>1, <1>4 DEF Install
  <2> QED
    BY <1>1, <2>1 DEF SeenInv
<1>5. CASE Expire(w)
  <2>1. /\ UNCHANGED <<loading, excused>>
        /\ \A v \in Servers : cache'[v] = IF v = w THEN None ELSE cache[v]
    BY <1>1, <1>5 DEF Expire
  <2> QED
    BY <1>1, <2>1 DEF SeenInv
<1> QED
  BY <1>2, <1>3, <1>4, <1>5

\* The server that changed the boards serves them at once, except when a load was under way
\* as it forgot its copy, for every number of servers and calls.
THEOREM OwnWritesSeenCorrect == Spec => []OwnWritesSeen
<1>1. Init => SeenInv
  BY DEF Init, SeenInv
<1>2. SeenInv => OwnWritesSeen
  BY DEF SeenInv, OwnWritesSeen, Settled
<1>3. TypeInv /\ SeenInv /\ [Next]_vars => SeenInv'
  <2> SUFFICES ASSUME TypeInv, SeenInv, [Next]_vars PROVE SeenInv'
    OBVIOUS
  <2>1. CASE UNCHANGED vars
    BY <2>1 DEF vars, SeenInv, Settled, BoardIds
  <2>2. ASSUME NEW c \in Calls, ManagerCall(c) PROVE SeenInv'
    BY <2>2, ManagerEffects, SeenQuiet
  <2> QED
    BY <2>1, <2>2, SeenCalls, SeenLoads DEF Next
<1> QED
  BY <1>1, <1>2, <1>3, TypeInitially, TypeStep, PTL DEF Spec

-------------------------------------------------------------------------------
(* The limits.                                                               *)

Busy == {c \in Calls : call[c].pc # "new"}
Alone(pc) == \A c, d \in Calls : call[c].pc = pc /\ call[d].pc = pc => c = d

\* There are finitely many managers, and calls that have begun.
FiniteInv == IsFiniteSet(managers) /\ IsFiniteSet(Busy)

\* A board at which one call appoints has room for the one it appoints.
AppointInv ==
    "appoint" \in crossed \/
        /\ Alone("appoint")
        /\ \A c \in Calls : call[c].pc = "appoint" => BelowLimit(call[c].id)
        /\ \A id : Cardinality(Of(id, "sub_manager")) <= SubLimit

\* The manager whom a call replaces is one it has seen.
ReplaceInv ==
    "replace" \in crossed \/
        /\ Alone("replace")
        /\ \A c \in Calls : call[c].pc = "replace" => Of(call[c].id, "manager") \subseteq call[c].rows
        /\ \A m, n \in managers :
               (m.board = n.board /\ m.role = "manager" /\ n.role = "manager") => m = n

\* A user for whom one call asks has no request pending.
AskInv ==
    "ask" \in crossed \/
        /\ Alone("ask")
        /\ \A c \in Calls : call[c].pc = "ask" => Pending(call[c].user) = {}
        /\ \A r, s \in requests :
               (r.user = s.user /\ r.status = "pending" /\ s.status = "pending") => r = s

LimitsInv == FiniteInv /\ AppointInv /\ ReplaceInv /\ AskInv

\* A set whose members are all one has one at most, and one that has no more than one has one.
LEMMA OneAtMost ==
    /\ \A S : (\A x, y \in S : x = y) => Cardinality(S) <= 1
    /\ \A S : IsFiniteSet(S) /\ ~(Cardinality(S) > 1) => \A x, y \in S : x = y
<1>1. ASSUME NEW S, \A x, y \in S : x = y PROVE Cardinality(S) <= 1
  <2>1. CASE S = {}
    BY <2>1, FS_EmptySet
  <2>2. CASE S # {}
    <3>1. PICK x \in S : S = {x}
      BY <1>1, <2>2
    <3> QED
      BY <3>1, FS_Singleton
  <2> QED
    BY <2>1, <2>2
<1>2. ASSUME NEW S, IsFiniteSet(S), ~(Cardinality(S) > 1), NEW x \in S, NEW y \in S, x # y PROVE FALSE
  <2>1. IsFiniteSet({x}) /\ Cardinality({x}) = 1
    BY FS_Singleton
  <2>2. IsFiniteSet({x} \cup {y}) /\ Cardinality({x} \cup {y}) = 2
    <3>1. y \notin {x}
      BY <1>2
    <3>2. /\ IsFiniteSet({x} \cup {y})
          /\ Cardinality({x} \cup {y}) = IF y \in {x} THEN Cardinality({x}) ELSE Cardinality({x}) + 1
      <4> DEFINE S1 == {x}
      <4>1. IsFiniteSet(S1)
        BY <2>1
      <4> HIDE DEF S1
      <4>2. /\ IsFiniteSet(S1 \cup {y})
            /\ Cardinality(S1 \cup {y}) = IF y \in S1 THEN Cardinality(S1) ELSE Cardinality(S1) + 1
        BY <4>1, FS_AddElement
      <4> QED
        BY <4>2 DEF S1
    <3> QED
      BY <2>1, <3>1, <3>2
  <2>3. Cardinality({x} \cup {y}) <= Cardinality(S) /\ Cardinality(S) \in Nat
    BY <1>2, FS_Subset, FS_CardinalityType
  <2> QED
    BY <1>2, <2>2, <2>3
<1> QED
  BY <1>1, <1>2

\* A call's step keeps finitely many managers and calls that have begun.
LEMMA FiniteStep ==
    ASSUME TypeInv, FiniteInv, NEW c \in Calls, RequestCall(c) \/ BoardCall(c) \/ ManagerCall(c)
    PROVE  FiniteInv'
<1>1. \A d \in Calls : d # c => call'[d] = call[d]
  BY RequestEffects, BoardEffects, ManagerEffects
<1>2. Busy' \subseteq Busy \cup {c}
  BY <1>1 DEF Busy
<1>3. IsFiniteSet(Busy')
  BY <1>2, FS_AddElement, FS_Subset DEF FiniteInv
<1>4. \E m : managers' \subseteq managers \cup {m}
  BY RequestEffects, BoardEffects, ManagerEffects DEF Leaves
<1>5. IsFiniteSet(managers')
  BY <1>4, FS_AddElement, FS_Subset DEF FiniteInv
<1> QED
  BY <1>3, <1>5 DEF FiniteInv

\* A kind of call that is not crossed after a step was not before, and one call of it is
\* under way at most.
LEMMA NotCrossed ==
    ASSUME FiniteInv', NEW pc \in {"ask", "appoint", "replace"}, pc \notin crossed',
           crossed' = crossed \cup
               {p \in {"ask", "appoint", "replace"} : Cardinality({c \in Calls : call'[c].pc = p}) > 1}
    PROVE  pc \notin crossed /\ Alone(pc)'
<1> DEFINE S == {c \in Calls : call'[c].pc = pc}
<1>1. S \subseteq Busy'
  BY DEF Busy
<1>2. IsFiniteSet(S)
  BY <1>1, FS_Subset DEF FiniteInv
<1>3. ~(Cardinality(S) > 1) /\ pc \notin crossed
  OBVIOUS
<1> HIDE DEF S
<1>4. \A x, y \in S : x = y
  BY <1>2, <1>3, OneAtMost
<1> QED
  BY <1>3, <1>4 DEF S, Alone

\* Appointing: room for one more is there until the one is appointed.
LEMMA AppointStep ==
    ASSUME TypeInv, FiniteInv, AppointInv, NEW c \in Calls,
           RequestCall(c) \/ BoardCall(c) \/ ManagerCall(c),
           "appoint" \notin crossed, Alone("appoint")'
    PROVE  AppointInv'
<1>1. \A d \in Calls : d # c => call'[d] = call[d]
  BY RequestEffects, BoardEffects, ManagerEffects
<1>2. \A id : IsFiniteSet(Of(id, "sub_manager")) /\ Cardinality(Of(id, "sub_manager")) \in Nat
  BY FS_Subset, FS_CardinalityType DEF Of, FiniteInv
<1>3. CASE \A id : Of(id, "sub_manager")' \subseteq Of(id, "sub_manager")
  <2>1. \A id : /\ Cardinality(Of(id, "sub_manager")') <= Cardinality(Of(id, "sub_manager"))
                /\ Cardinality(Of(id, "sub_manager")') \in Nat
    BY <1>2, <1>3, FS_Subset, FS_CardinalityType
  <2>2. \A id : Cardinality(Of(id, "sub_manager")') <= SubLimit
    BY <1>2, <2>1, BoardsAssumption DEF AppointInv
  <2>3. ASSUME NEW d \in Calls, call'[d].pc = "appoint" PROVE BelowLimit(call[d].id)'
    <3>1. CASE d = c
      <4>1. managers' = managers /\ BelowLimit(call'[c].id)
        BY <2>3, <3>1, RequestEffects, BoardEffects, ManagerEffects
      <4> QED
        BY <3>1, <4>1 DEF BelowLimit, Of
    <3>2. CASE d # c
      <4>1. BelowLimit(call[d].id) /\ call'[d] = call[d]
        BY <1>1, <2>3, <3>2 DEF AppointInv
      <4> QED
        BY <1>2, <2>1, <4>1, BoardsAssumption DEF BelowLimit
    <3> QED
      BY <3>1, <3>2
  <2> QED
    BY <2>2, <2>3 DEF AppointInv
<1>4. CASE /\ call[c].pc = "appoint" /\ call'[c].pc = "over"
           /\ managers' = managers \cup {[board |-> call[c].id, user |-> call[c].user,
                                          role |-> "sub_manager"]}
  <2> DEFINE m == [board |-> call[c].id, user |-> call[c].user, role |-> "sub_manager"]
  <2>1. managers' = managers \cup {m} /\ m.board = call[c].id
    BY <1>4
  <2> HIDE DEF m
  <2>2. \A d \in Calls : call'[d].pc # "appoint"
    BY <1>1, <1>4 DEF AppointInv, Alone
  <2>3. ASSUME NEW id PROVE Cardinality(Of(id, "sub_manager")') <= SubLimit
    <3>1. CASE id = call[c].id
      <4>1. Of(id, "sub_manager")' \subseteq Of(id, "sub_manager") \cup {m}
        BY <2>1 DEF Of
      <4>2. Cardinality(Of(id, "sub_manager")) < SubLimit
        BY <1>4, <3>1 DEF AppointInv, BelowLimit
      <4>3. /\ IsFiniteSet(Of(id, "sub_manager") \cup {m})
            /\ Cardinality(Of(id, "sub_manager") \cup {m}) <= Cardinality(Of(id, "sub_manager")) + 1
        <5> DEFINE S1 == Of(id, "sub_manager")
        <5>1. IsFiniteSet(S1) /\ Cardinality(S1) \in Nat
          BY <1>2
        <5> HIDE DEF S1
        <5>2. /\ IsFiniteSet(S1 \cup {m})
              /\ Cardinality(S1 \cup {m}) = IF m \in S1 THEN Cardinality(S1) ELSE Cardinality(S1) + 1
          BY <5>1, FS_AddElement
        <5>3. Cardinality(S1 \cup {m}) <= Cardinality(S1) + 1
          BY <5>1, <5>2
        <5> QED
          BY <5>2, <5>3 DEF S1
      <4>4. /\ Cardinality(Of(id, "sub_manager")') <= Cardinality(Of(id, "sub_manager") \cup {m})
            /\ IsFiniteSet(Of(id, "sub_manager")')
        BY <4>1, <4>3, FS_Subset
      <4>5. /\ Cardinality(Of(id, "sub_manager")') \in Nat
            /\ Cardinality(Of(id, "sub_manager") \cup {m}) \in Nat
        BY <4>3, <4>4, FS_CardinalityType
      <4> QED
        BY <1>2, <4>2, <4>3, <4>4, <4>5, BoardsAssumption
    <3>2. CASE id # call[c].id
      <4>1. Of(id, "sub_manager")' = Of(id, "sub_manager")
        BY <2>1, <3>2 DEF Of
      <4> QED
        BY <4>1 DEF AppointInv
    <3> QED
      BY <3>1, <3>2
  <2> QED
    BY <2>2, <2>3 DEF AppointInv
<1>5. ASSUME NEW board, NEW user, NEW left \in SUBSET managers,
             managers' = left \cup {[board |-> board, user |-> user, role |-> "manager"]}
      PROVE  \A id : Of(id, "sub_manager")' \subseteq Of(id, "sub_manager")
  <2> DEFINE m == [board |-> board, user |-> user, role |-> "manager"]
  <2>1. managers' = left \cup {m} /\ m.role = "manager"
    BY <1>5
  <2> HIDE DEF m
  <2> QED
    BY <2>1 DEF Of
<1>6. CASE managers' \subseteq managers
  BY <1>3, <1>6 DEF Of
<1>7. CASE RequestCall(c)
  <2>1. \/ managers' \subseteq managers
        \/ \E u : managers' = managers \cup {[board |-> c, user |-> u, role |-> "manager"]}
    BY <1>7, RequestEffects
  <2> QED
    BY <1>3, <1>5, <1>6, <2>1
<1>8. CASE BoardCall(c)
  BY <1>6, <1>8, BoardEffects
<1>9. CASE ManagerCall(c)
  <2>1. CASE managers' = Leaves(call[c]) \cup {[board |-> call[c].id, user |-> call[c].user,
                                                role |-> "manager"]}
    <3>1. Leaves(call[c]) \in SUBSET managers
      BY DEF Leaves
    <3> QED
      BY <1>3, <1>5, <2>1, <3>1
  <2> QED
    BY <1>4, <1>6, <1>9, <2>1, ManagerEffects
<1> QED
  BY <1>7, <1>8, <1>9

\* Replacing: the manager is the one seen until it is replaced.
LEMMA ReplaceStep ==
    ASSUME TypeInv, ReplaceInv, NEW c \in Calls,
           RequestCall(c) \/ BoardCall(c) \/ ManagerCall(c),
           "replace" \notin crossed, Alone("replace")'
    PROVE  ReplaceInv'
<1>1. \A d \in Calls : d # c => call'[d] = call[d]
  BY RequestEffects, BoardEffects, ManagerEffects
<1>2. \A m \in managers : m.board \in BoardIds
  BY DEF TypeInv, TypeOK
<1>3. CASE \A id : Of(id, "manager")' \subseteq Of(id, "manager")
  <2>1. \A m, n \in managers' :
           (m.board = n.board /\ m.role = "manager" /\ n.role = "manager") => m = n
    <3>1. \A m \in managers' : m.role = "manager" => m \in managers
      BY <1>3 DEF Of
    <3> QED
      BY <3>1 DEF ReplaceInv
  <2>2. ASSUME NEW d \in Calls, call'[d].pc = "replace"
        PROVE  Of(call[d].id, "manager")' \subseteq call'[d].rows
    <3>1. CASE d = c
      <4>1. managers' = managers /\ call'[c].rows = Of(call'[c].id, "manager")
        BY <2>2, <3>1, RequestEffects, BoardEffects, ManagerEffects
      <4> QED
        BY <3>1, <4>1 DEF Of
    <3>2. CASE d # c
      BY <1>1, <1>3, <2>2, <3>2 DEF ReplaceInv
    <3> QED
      BY <3>1, <3>2
  <2> QED
    BY <2>1, <2>2 DEF ReplaceInv
<1>4. CASE managers' \subseteq managers
  BY <1>3, <1>4 DEF Of
<1>5. CASE RequestCall(c)
  <2>1. ASSUME call[c].pc = "approve", NEW u \in Users,
               managers' = managers \cup {[board |-> c, user |-> u, role |-> "manager"]}
        PROVE  ReplaceInv'
    <3> DEFINE m == [board |-> c, user |-> u, role |-> "manager"]
    <3>1. managers' = managers \cup {m} /\ m.board = c
      BY <2>1
    <3> HIDE DEF m
    <3>2. \A n \in managers : n.board # c
      BY <1>2, <2>1 DEF TypeInv, IdsOK, Used, BoardIds
    <3>3. \A d \in Calls : call'[d].pc = "replace" => call'[d] = call[d] /\ call[d].id # c
      BY <1>1, <1>5, <2>1, RequestEffects DEF TypeInv, IdsOK, Used
    <3>4. \A d \in Calls : call'[d].pc = "replace" => Of(call[d].id, "manager")' = Of(call[d].id, "manager")
      BY <3>1, <3>3 DEF Of
    <3>5. \A d \in Calls : call'[d].pc = "replace" => Of(call[d].id, "manager")' \subseteq call'[d].rows
      BY <3>3, <3>4 DEF ReplaceInv
    <3>6. \A x, y \in managers' :
             (x.board = y.board /\ x.role = "manager" /\ y.role = "manager") => x = y
      BY <3>1, <3>2 DEF ReplaceInv
    <3> QED
      BY <3>5, <3>6 DEF ReplaceInv
  <2> QED
    BY <1>4, <1>5, <2>1, RequestEffects
<1>6. CASE BoardCall(c)
  BY <1>4, <1>6, BoardEffects
<1>7. CASE ManagerCall(c)
  <2>1. ASSUME call[c].pc = "appoint",
               managers' = managers \cup {[board |-> call[c].id, user |-> call[c].user,
                                           role |-> "sub_manager"]}
        PROVE  ReplaceInv'
    <3> DEFINE m == [board |-> call[c].id, user |-> call[c].user, role |-> "sub_manager"]
    <3>1. managers' = managers \cup {m} /\ m.role = "sub_manager"
      BY <2>1
    <3> HIDE DEF m
    <3> QED
      BY <1>3, <3>1 DEF Of
  <2>2. ASSUME call[c].pc = "replace", call'[c].pc = "over",
               managers' = Leaves(call[c]) \cup {[board |-> call[c].id, user |-> call[c].user,
                                                  role |-> "manager"]}
        PROVE  ReplaceInv'
    <3> DEFINE m == [board |-> call[c].id, user |-> call[c].user, role |-> "manager"]
    <3>1. managers' = Leaves(call[c]) \cup {m} /\ m.board = call[c].id
      BY <2>2
    <3> HIDE DEF m
    <3>2. \A d \in Calls : call'[d].pc # "replace"
      BY <1>1, <2>2 DEF ReplaceInv, Alone
    <3>3. \A n \in Leaves(call[c]) : n \in managers /\ ~(n.board = call[c].id /\ n.role = "manager")
      BY <2>2 DEF ReplaceInv, Leaves, Of
    <3>4. \A x, y \in managers' :
             (x.board = y.board /\ x.role = "manager" /\ y.role = "manager") => x = y
      BY <3>1, <3>3 DEF ReplaceInv
    <3> QED
      BY <3>2, <3>4 DEF ReplaceInv
  <2> QED
    BY <1>4, <1>7, <2>1, <2>2, ManagerEffects
<1> QED
  BY <1>5, <1>6, <1>7

\* Asking: nothing is pending until the one request is stored.
LEMMA AskStep ==
    ASSUME TypeInv, TypeInv', AskInv, NEW c \in Calls,
           RequestCall(c) \/ BoardCall(c) \/ ManagerCall(c),
           "ask" \notin crossed, Alone("ask")'
    PROVE  AskInv'
<1>1. \A d \in Calls : d # c => call'[d] = call[d]
  BY RequestEffects, BoardEffects, ManagerEffects
<1>2. CASE \A s \in requests' : s.status = "pending" =>
              \E r \in requests : r.status = "pending" /\ r.user = s.user /\ r.id = s.id
  <2>1. ASSUME NEW r \in requests', NEW s \in requests',
               r.user = s.user, r.status = "pending", s.status = "pending"
        PROVE  r = s
    <3>1. r.id = s.id
      BY <1>2, <2>1 DEF AskInv
    <3> QED
      BY <3>1 DEF TypeInv, TypeOK
  <2>2. \A u : Pending(u) = {} => Pending(u)' = {}
    BY <1>2 DEF Pending
  <2>3. ASSUME NEW d \in Calls, call'[d].pc = "ask" PROVE Pending(call[d].user)' = {}
    <3>1. CASE d = c
      <4>1. requests' = requests /\ Pending(call'[c].user) = {}
        BY <2>3, <3>1, RequestEffects, BoardEffects, ManagerEffects
      <4> QED
        BY <3>1, <4>1 DEF Pending
    <3>2. CASE d # c
      BY <1>1, <2>2, <2>3, <3>2 DEF AskInv
    <3> QED
      BY <3>1, <3>2
  <2> QED
    BY <2>1, <2>3 DEF AskInv
<1>3. CASE RequestCall(c)
  <2>1. CASE \A s \in requests' : s.status = "pending" => s \in requests
    BY <1>2, <2>1
  <2>2. ASSUME call[c].pc = "ask", call'[c].pc = "over",
               NEW q, requests' = requests \cup {q}, q.user = call[c].user
        PROVE  AskInv'
    <3>1. \A d \in Calls : call'[d].pc # "ask"
      BY <1>1, <2>2 DEF AskInv, Alone
    <3>2. \A r \in requests : r.status = "pending" => r.user # q.user
      BY <2>2 DEF AskInv, Pending
    <3>3. \A r, s \in requests' :
             (r.user = s.user /\ r.status = "pending" /\ s.status = "pending") => r = s
      BY <2>2, <3>2 DEF AskInv
    <3> QED
      BY <3>1, <3>3 DEF AskInv
  <2> QED
    BY <1>3, <2>1, <2>2, RequestEffects
<1>4. CASE BoardCall(c)
  BY <1>2, <1>4, BoardEffects
<1>5. CASE ManagerCall(c)
  <2>1. requests' = requests
    BY <1>5, ManagerEffects
  <2> QED
    BY <1>2, <2>1
<1> QED
  BY <1>3, <1>4, <1>5

\* The limits are kept in every step.
LEMMA LimitsStep == TypeInv /\ TypeInv' /\ LimitsInv /\ [Next]_vars => LimitsInv'
<1> SUFFICES ASSUME TypeInv, TypeInv', LimitsInv, [Next]_vars PROVE LimitsInv'
  OBVIOUS
<1>1. CASE UNCHANGED vars
  BY <1>1 DEF vars, LimitsInv, FiniteInv, AppointInv, ReplaceInv, AskInv, Busy, Alone, Of, Pending,
              BelowLimit
<1>2. ASSUME Next PROVE crossed' = crossed \cup
          {p \in {"ask", "appoint", "replace"} : Cardinality({c \in Calls : call'[c].pc = p}) > 1}
  BY <1>2 DEF Next
<1>3. ASSUME NEW c \in Calls, RequestCall(c) \/ BoardCall(c) \/ ManagerCall(c), Next PROVE LimitsInv'
  <2>1. FiniteInv'
    BY <1>3, FiniteStep DEF LimitsInv
  <2>2. \A pc \in {"ask", "appoint", "replace"} : pc \notin crossed' => pc \notin crossed /\ Alone(pc)'
    BY <1>2, <1>3, <2>1, NotCrossed
  <2>3. AppointInv'
    <3>1. CASE "appoint" \in crossed'
      BY <3>1 DEF AppointInv
    <3>2. CASE "appoint" \notin crossed'
      <4>1. "appoint" \notin crossed /\ Alone("appoint")'
        BY <2>2, <3>2
      <4> QED
        BY <1>3, <4>1, AppointStep DEF LimitsInv
    <3> QED
      BY <3>1, <3>2
  <2>4. ReplaceInv'
    <3>1. CASE "replace" \in crossed'
      BY <3>1 DEF ReplaceInv
    <3>2. CASE "replace" \notin crossed'
      <4>1. "replace" \notin crossed /\ Alone("replace")'
        BY <2>2, <3>2
      <4> QED
        BY <1>3, <4>1, ReplaceStep DEF LimitsInv
    <3> QED
      BY <3>1, <3>2
  <2>5. AskInv'
    <3>1. CASE "ask" \in crossed'
      BY <3>1 DEF AskInv
    <3>2. CASE "ask" \notin crossed'
      <4>1. "ask" \notin crossed /\ Alone("ask")'
        BY <2>2, <3>2
      <4> QED
        BY <1>3, <4>1, AskStep DEF LimitsInv
    <3> QED
      BY <3>1, <3>2
  <2> QED
    BY <2>1, <2>3, <2>4, <2>5 DEF LimitsInv
<1>4. ASSUME NEW v \in Servers, BeginLoad(v) \/ ReadBoards(v) \/ Install(v) \/ Expire(v), Next
      PROVE  LimitsInv'
  <2>1. UNCHANGED <<boards, requests, managers, call>>
    BY <1>4 DEF BeginLoad, ReadBoards, Install, Expire
  <2>2. crossed \subseteq crossed'
    BY <1>2, <1>4
  <2>3. FiniteInv'
    BY <2>1 DEF LimitsInv, FiniteInv, Busy
  <2>4. AppointInv'
    BY <2>1, <2>2 DEF LimitsInv, AppointInv, Alone, BelowLimit, Of
  <2>5. ReplaceInv' /\ AskInv'
    BY <2>1, <2>2 DEF LimitsInv, ReplaceInv, AskInv, Alone, Of, Pending
  <2> QED
    BY <2>3, <2>4, <2>5 DEF LimitsInv
<1> QED
  BY <1>1, <1>3, <1>4 DEF Next

\* Of each there are no more than the rules say, unless two calls that check or replace it
\* were under way at once, for every limit and every number of calls, users and boards.
THEOREM LimitsKeptCorrect == Spec => []LimitsKept
<1>1. ASSUME Init PROVE LimitsInv
  <2>1. PICK u \in Users : managers = {[board |-> Founding, user |-> u, role |-> "manager"]}
    BY <1>1 DEF Init
  <2>2. PICK q : requests = {q}
    BY <1>1 DEF Init
  <2>3. \A c \in Calls : call[c].pc = "new"
    BY <1>1 DEF Init, new
  <2>4. FiniteInv
    <3>1. Busy = {}
      BY <2>3 DEF Busy
    <3> QED
      BY <2>1, <3>1, FS_Singleton, FS_EmptySet DEF FiniteInv
  <2>5. AppointInv
    <3>1. \A id : Of(id, "sub_manager") = {}
      BY <2>1 DEF Of
    <3>2. \A id : Cardinality(Of(id, "sub_manager")) <= SubLimit
      BY <3>1, FS_EmptySet, BoardsAssumption
    <3> QED
      BY <2>3, <3>2 DEF AppointInv, Alone
  <2>6. ReplaceInv /\ AskInv
    BY <2>1, <2>2, <2>3 DEF ReplaceInv, AskInv, Alone
  <2> QED
    BY <2>4, <2>5, <2>6 DEF LimitsInv
<1>2. ASSUME LimitsInv PROVE LimitsKept
  <2>1. "replace" \in crossed \/ \A b \in boards : Cardinality(Of(b.id, "manager")) <= 1
    <3>1. ASSUME "replace" \notin crossed, NEW b \in boards
          PROVE  \A x, y \in Of(b.id, "manager") : x = y
      BY <1>2, <3>1 DEF LimitsInv, ReplaceInv, Of
    <3> QED
      BY <3>1, OneAtMost
  <2>2. "ask" \in crossed \/ \A u \in Users : Cardinality(Pending(u)) <= 1
    <3>1. ASSUME "ask" \notin crossed, NEW u \in Users
          PROVE  \A x, y \in Pending(u) : x = y
      BY <1>2, <3>1 DEF LimitsInv, AskInv, Pending
    <3> QED
      BY <3>1, OneAtMost
  <2> QED
    BY <1>2, <2>1, <2>2 DEF LimitsInv, AppointInv, LimitsKept
<1> QED
  BY <1>1, <1>2, TypeInitially, TypeStep, LimitsStep, PTL DEF Spec

===============================================================================
