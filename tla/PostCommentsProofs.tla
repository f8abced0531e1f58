-------------------------- MODULE PostCommentsProofs --------------------------
(* Proofs about PostComments, for any number of comments, members and requests. *)
EXTENDS PostComments, FiniteSetTheorems, TLAPS

-----------------------------------------------------------------------------
(* Helpers.                                                                *)

\* The post row after an update of its count is a post row.
LEMMA CountedType ==
  ASSUME TypeOK, NEW n \in Int
  PROVE  /\ Counted(n) \in [state: {"live", "deleted", "gone"}, count: Int]
         /\ Counted(n).state = post.state
         /\ post.state # "gone" => Counted(n).count = n
BY DEF TypeOK, Counted

\* The live comments, and what a deletion would leave of them, can be counted.
LEMMA LiveCount ==
  ASSUME NEW rows
  PROVE  /\ IsFiniteSet(Live) /\ Cardinality(Live) \in Nat
         /\ IsFiniteSet(Live \ rows) /\ Cardinality(Live \ rows) \in Nat
<1>1. IsFiniteSet(Live) /\ IsFiniteSet(Live \ rows)
  <2>1. Live \subseteq Comments /\ Live \ rows \subseteq Comments
    BY DEF Live
  <2>2. QED
    BY <2>1, FS_Subset, ConstantsAssumption DEF ConstantsAssumption
<1>2. QED
  BY <1>1, FS_CardinalityType

\* What a step writes into a request keeps the request's type.
LEMMA ThreadType ==
  ASSUME NEW roots
  PROVE  Thread(roots) \subseteq Present /\ Present \subseteq Comments
BY DEF Thread, Present

\* Revocations are events.
LEMMA RevokesType ==
  ASSUME TypeOK, NEW q \in Requests
  PROVE  Revokes(q, req[q].removed) \subseteq
           [kind: {"award", "revoke"}, item: Comments \union {Post}, by: Requests]
<1>1. req[q].removed \subseteq Comments \union {Post}
  BY DEF TypeOK, Request
<1>2. QED
  BY <1>1 DEF Revokes

-----------------------------------------------------------------------------
(* Type correctness.                                                       *)

\* Only members withdraw, only comments are removed.
SubjectsOK ==
  \A q \in Requests :
    /\ req[q].pc \in {"leaving", "left"} => req[q].user \in Users
    /\ req[q].pc = "removing" => req[q].comment \in Comments

\* A request that is to begin is a request.
LEMMA NewRequestType == NewRequest \in Request
BY DEF NewRequest, Request, Steps

\* The initial states are of the right types.
LEMMA InitType == Init => TypeOK
<1> SUFFICES ASSUME Init
             PROVE  TypeOK
  OBVIOUS
<1>1. req \in [Requests -> Request]
  BY NewRequestType DEF Init
<1>2. /\ state \in [Comments -> {"absent", "live", "deleted", "gone"}]
      /\ author \in [Comments -> Users \union {None}]
      /\ parent \in [Comments -> Comments \union {None}]
  BY DEF Init
<1>3. post \in [state: {"live", "deleted", "gone"}, count: Int]
  BY DEF Init
<1>4. QED
  BY <1>1, <1>2, <1>3 DEF Init, TypeOK

\* A request that is over is a request.
LEMMA OverType == Over \in Request
<1>1. \A r \in Request : [r EXCEPT !.pc = "over"] \in Request
  BY DEF Request, Steps
<1>2. QED
  BY <1>1, NewRequestType DEF Over

\* A request that begins.
LEMMA BeginType ==
  ASSUME TypeOK, NEW q \in Requests,
         \/ \E u \in Users \union {None}, c \in Comments \union {None} :
              BeginCreate(q, u, c)
         \/ \E c \in Comments : BeginRemove(q, c) \/ BeginErase(q, c)
         \/ BeginClose(q)
         \/ BeginPurge(q)
         \/ \E u \in Users : BeginWithdraw(q, u)
  PROVE  TypeOK'
<1>1. UNCHANGED <<state, author, parent, post, withdrawn, emitted>> /\ raced' \in BOOLEAN
  BY DEF BeginCreate, BeginRemove, BeginErase, BeginClose, BeginPurge,
         BeginWithdraw, Begin, TypeOK
<1>2. req' \in [Requests -> Request]
  <2>1. CASE \E u \in Users \union {None}, c \in Comments \union {None} :
               BeginCreate(q, u, c)
    <3>1. PICK u \in Users \union {None}, c \in Comments \union {None} :
            BeginCreate(q, u, c)
      BY <2>1
    <3>2. [NewRequest EXCEPT !.pc = "creating", !.user = u, !.comment = c] \in Request
      BY NewRequestType DEF Request, Steps
    <3>3. QED
      BY <3>1, <3>2 DEF TypeOK, BeginCreate
  <2>2. CASE \E c \in Comments : BeginRemove(q, c)
    <3>1. PICK c \in Comments : BeginRemove(q, c)
      BY <2>2
    <3>2. Revocable({c}) \in SUBSET (Comments \union {Post})
      BY DEF Revocable
    <3>3. [NewRequest EXCEPT !.pc = "removing", !.comment = c,
                             !.removed = Revocable({c})] \in Request
      BY <3>2, NewRequestType DEF Request, Steps
    <3>4. QED
      BY <3>1, <3>3 DEF TypeOK, BeginRemove
  <2>3. CASE \E c \in Comments : BeginErase(q, c)
    <3>1. PICK c \in Comments : BeginErase(q, c)
      BY <2>3
    <3>2. Revocable(Thread({c})) \in SUBSET (Comments \union {Post})
      BY ThreadType DEF Revocable
    <3>3. [NewRequest EXCEPT !.pc = "gathered", !.comment = c,
                             !.removed = Revocable(Thread({c}))] \in Request
      BY <3>2, NewRequestType DEF Request, Steps
    <3>4. QED
      BY <3>1, <3>3 DEF TypeOK, BeginErase
  <2>4. OwnItems \in SUBSET (Comments \union {Post})
    BY DEF OwnItems, Live
  <2>5. \A items \in {OwnItems, {}} :
          /\ [NewRequest EXCEPT !.pc = "closing", !.removed = items] \in Request
          /\ [NewRequest EXCEPT !.pc = "purging", !.removed = items] \in Request
    BY <2>4, NewRequestType DEF Request, Steps
  <2>6. CASE BeginClose(q)
    BY <2>5, <2>6 DEF TypeOK, BeginClose
  <2>7. CASE BeginPurge(q)
    BY <2>5, <2>7 DEF TypeOK, BeginPurge
  <2>8. CASE \E u \in Users : BeginWithdraw(q, u)
    <3>1. PICK u \in Users : BeginWithdraw(q, u)
      BY <2>8
    <3>2. [NewRequest EXCEPT !.pc = "leaving", !.user = u,
             !.recount = \E c \in Present : author[c] = u] \in Request
      BY NewRequestType DEF Request, Steps
    <3>3. QED
      BY <3>1, <3>2 DEF TypeOK, BeginWithdraw
  <2>9. QED
    BY <2>1, <2>2, <2>3, <2>6, <2>7, <2>8
<1>3. QED
  BY <1>1, <1>2 DEF TypeOK

\* A request in its transaction.
LEMMA CommitType ==
  ASSUME TypeOK, SubjectsOK, NEW q \in Requests,
         \/ \E c \in Comments : CommitCreate(q, c)
         \/ CommitRemove(q)
         \/ Erase(q) \/ CommitErase(q)
         \/ CommitClose(q)
         \/ Purge(q) \/ CommitPurge(q)
         \/ Withdraw(q) \/ CommitWithdraw(q)
         \/ Fail(q)
  PROVE  TypeOK'
<1>1. CASE \E c \in Comments : CommitCreate(q, c)
  <2>1. PICK c \in Comments : CommitCreate(q, c)
    BY <1>1
  <2>2. req[q].user \in Users \union {None} /\ req[q].comment \in Comments \union {None}
    BY DEF TypeOK, Request
  <2>3. post' \in [state: {"live", "deleted", "gone"}, count: Int]
    BY <2>1, CountedType DEF TypeOK, CommitCreate
  <2>4. req' \in [Requests -> Request]
    BY <2>1, OverType DEF TypeOK, CommitCreate
  <2>5. QED
    BY <2>1, <2>2, <2>3, <2>4 DEF TypeOK, CommitCreate
<1>2. CASE CommitRemove(q)
  <2>1. post' \in [state: {"live", "deleted", "gone"}, count: Int]
    BY <1>2, CountedType DEF TypeOK, CommitRemove
  <2>2. req' \in [Requests -> Request]
    BY <1>2, OverType DEF TypeOK, CommitRemove
  <2>3. state' \in [Comments -> {"absent", "live", "deleted", "gone"}]
    BY <1>2 DEF TypeOK, CommitRemove
  <2>4. emitted' \in SUBSET [kind: {"award", "revoke"},
                             item: Comments \union {Post}, by: Requests]
    BY <1>2, RevokesType DEF TypeOK, CommitRemove
  <2>5. QED
    BY <1>2, <2>1, <2>2, <2>3, <2>4 DEF TypeOK, CommitRemove
<1>3. CASE Erase(q)
  <2>1. Thread({req[q].comment} \intersect Present) \subseteq Comments
    BY ThreadType
  <2>2. Cardinality(Live \ Thread({req[q].comment} \intersect Present)) \in Int
    BY LiveCount
  <2>3. req[q] \in Request /\ "erasing" \in Steps
    BY DEF TypeOK, Steps
  <2>4. [req[q] EXCEPT !.pc = "erasing",
           !.doomed = Thread({req[q].comment} \intersect Present),
           !.counted = Cardinality(Live \ Thread({req[q].comment} \intersect Present))]
          \in Request
    BY <2>1, <2>2, <2>3 DEF Request
  <2>5. QED
    BY <1>3, <2>4 DEF TypeOK, Erase
<1>4. CASE CommitErase(q)
  <2>1. req[q].counted \in Int
    BY DEF TypeOK, Request
  <2>2. post' \in [state: {"live", "deleted", "gone"}, count: Int]
    BY <1>4, <2>1, CountedType DEF CommitErase
  <2>3. QED
    BY <1>4, <2>2, OverType, RevokesType DEF TypeOK, CommitErase, Gone
<1>5. CASE CommitClose(q)
  BY <1>5, OverType, RevokesType DEF TypeOK, CommitClose
<1>6. CASE Purge(q)
  <2>1. req[q] \in Request /\ "purged" \in Steps /\ Thread(AllRows) \subseteq Comments
    BY ThreadType DEF TypeOK, Steps
  <2>2. [req[q] EXCEPT !.pc = "purged", !.doomed = Thread(AllRows)] \in Request
    BY <2>1 DEF Request
  <2>3. QED
    BY <1>6, <2>2 DEF TypeOK, Purge
<1>7. CASE CommitPurge(q)
  BY <1>7, OverType, RevokesType DEF TypeOK, CommitPurge, Gone
<1>8. CASE Withdraw(q)
  <2> DEFINE rows == Thread({c \in Present : author[c] = req[q].user})
  <2>1. rows \subseteq Comments
    BY ThreadType
  <2> HIDE DEF rows
  <2>2. Cardinality(Live \ rows) \in Int
    BY LiveCount
  <2>3. req[q] \in Request /\ "left" \in Steps
    BY DEF TypeOK, Steps
  <2>4. [req[q] EXCEPT !.pc = "left", !.doomed = rows,
                       !.counted = Cardinality(Live \ rows)] \in Request
    BY <2>1, <2>2, <2>3 DEF Request
  <2>5. QED
    BY <1>8, <2>4 DEF TypeOK, Withdraw, rows
<1>9. CASE CommitWithdraw(q)
  <2>1. req[q].counted \in Int /\ req[q].user \in Users \union {None}
    BY DEF TypeOK, Request
  <2>2. post' \in [state: {"live", "deleted", "gone"}, count: Int]
    BY <1>9, <2>1, CountedType DEF TypeOK, CommitWithdraw
  <2>3. QED
    <3>1. state' \in [Comments -> {"absent", "live", "deleted", "gone"}]
      BY <1>9 DEF TypeOK, CommitWithdraw, Gone
    <3>2. withdrawn' \in SUBSET Users
      <4>1. req[q].user \in Users
        BY <1>9 DEF SubjectsOK, CommitWithdraw
      <4>2. QED
        BY <1>9, <4>1 DEF TypeOK, CommitWithdraw
    <3>3. QED
      BY <1>9, <2>2, <3>1, <3>2, OverType DEF TypeOK, CommitWithdraw
<1>10. CASE Fail(q)
  BY <1>10, OverType DEF TypeOK, Fail
<1>11. QED
  BY <1>1, <1>2, <1>3, <1>4, <1>5, <1>6, <1>7, <1>8, <1>9, <1>10


-----------------------------------------------------------------------------
(* What a step writes into the request it serves.                          *)

\* What a new request knows: nothing.
LEMMA NewRequestFields ==
  /\ NewRequest.pc = "new" /\ NewRequest.removed = {} /\ NewRequest.doomed = {}
  /\ NewRequest.comment = None /\ NewRequest.user = None
  /\ NewRequest.counted = 0 /\ NewRequest.recount = FALSE
BY DEF NewRequest

\* What is left of a request that is over: nothing.
LEMMA OverFields ==
  Over.pc = "over" /\ Over.removed = {} /\ Over.doomed = {}
<1>1. \A r \in Request : /\ [r EXCEPT !.pc = "over"].pc = "over"
                         /\ [r EXCEPT !.pc = "over"].removed = r.removed
                         /\ [r EXCEPT !.pc = "over"].doomed = r.doomed
  BY DEF Request
<1>2. QED
  BY <1>1, NewRequestType, NewRequestFields DEF Over

\* A step serves one request: q.
SameRequests(q) == \A x \in Requests \ {q} : req'[x] = req[x]

Begins(q) ==
  \/ \E u \in Users \union {None}, c \in Comments \union {None} :
       BeginCreate(q, u, c)
  \/ \E c \in Comments : BeginRemove(q, c) \/ BeginErase(q, c)
  \/ BeginClose(q)
  \/ BeginPurge(q)
  \/ \E u \in Users : BeginWithdraw(q, u)

\* the step after which the request is over
Finishes(q) ==
  \/ \E c \in Comments : CommitCreate(q, c)
  \/ CommitRemove(q) \/ CommitErase(q) \/ CommitClose(q)
  \/ CommitPurge(q) \/ CommitWithdraw(q) \/ Fail(q)

Deletes(q) == Erase(q) \/ Purge(q) \/ Withdraw(q)

\* Every step begins a request, deletes rows in a transaction, commits or fails.
LEMMA StepKinds ==
  ASSUME [Next]_vars
  PROVE  \/ UNCHANGED vars
         \/ \E q \in Requests : Begins(q) \/ Finishes(q) \/ Deletes(q)
BY DEF Next, CommentRequest, PostRequest, UserRequest, Begins, Finishes, Deletes

\* What a step that ends a request leaves of the others.
LEMMA FinishesFields ==
  ASSUME TypeOK, NEW q \in Requests, Finishes(q)
  PROVE  /\ req' = [req EXCEPT ![q] = Over]
         /\ SameRequests(q)
         /\ req'[q].pc = "over" /\ req'[q].removed = {} /\ req'[q].doomed = {}
         /\ raced' = raced
<1>1. req' = [req EXCEPT ![q] = Over] /\ raced' = raced
  BY DEF Finishes, CommitCreate, CommitRemove, CommitErase, CommitClose,
         CommitPurge, CommitWithdraw, Fail
<1>2. SameRequests(q) /\ req'[q] = Over
  BY <1>1 DEF TypeOK, SameRequests
<1>3. QED
  BY <1>1, <1>2, OverFields

\* what the requests hold after the step with which they begin
BegunOK(r, next) ==
  /\ next.doomed = {}
  /\ \/ /\ next.pc = "creating" /\ post.state = "live" /\ next.removed = {}
     \/ /\ next.pc = "removing" /\ next.comment \in Live
        /\ next.removed = Revocable({next.comment})
     \/ /\ next.pc = "gathered" /\ next.comment \in Present
        /\ next.removed = Revocable(Thread({next.comment}))
     \/ next.pc \in {"closing", "purging"} /\ next.removed \subseteq OwnItems
     \/ /\ next.pc = "leaving" /\ next.user \in Users /\ next.removed = {}
        /\ next.recount = \E c \in Present : author[c] = next.user
  /\ r.pc = "new"

\* What a step that begins a request leaves of the others.
LEMMA BeginsFields ==
  ASSUME TypeOK, NEW q \in Requests, Begins(q)
  PROVE  /\ UNCHANGED <<state, author, parent, post, withdrawn, emitted>>
         /\ SameRequests(q)
         /\ BegunOK(req[q], req'[q])
         /\ ~raced' => ~raced /\ DeletingRows = {}
         /\ ~raced' /\ req'[q].pc \in {"gathered", "purging", "leaving"} => InFlight = {}
<1> USE NewRequestType, NewRequestFields
<1>1. CASE \E u \in Users \union {None}, c \in Comments \union {None} :
             BeginCreate(q, u, c)
  <2>1. PICK u \in Users \union {None}, c \in Comments \union {None} :
          BeginCreate(q, u, c)
    BY <1>1
  <2>2. req'[q] = [NewRequest EXCEPT !.pc = "creating", !.user = u, !.comment = c]
        /\ SameRequests(q)
    BY <2>1 DEF TypeOK, BeginCreate, SameRequests
  <2>3. \A r \in Request :
          /\ [r EXCEPT !.pc = "creating", !.user = u, !.comment = c].pc = "creating"
          /\ [r EXCEPT !.pc = "creating", !.user = u, !.comment = c].doomed = r.doomed
          /\ [r EXCEPT !.pc = "creating", !.user = u, !.comment = c].removed = r.removed
    BY DEF Request
  <2>4. QED
    BY <2>1, <2>2, <2>3 DEF BeginCreate, Begin, BegunOK
<1>2. CASE \E c \in Comments : BeginRemove(q, c)
  <2>1. PICK c \in Comments : BeginRemove(q, c)
    BY <1>2
  <2> DEFINE Updated(r) == [r EXCEPT !.pc = "removing", !.comment = c,
                                  !.removed = Revocable({c})]
  <2>2. req'[q] = Updated(NewRequest) /\ SameRequests(q)
    BY <2>1 DEF TypeOK, BeginRemove, SameRequests
  <2>3. \A r \in Request :
          /\ Updated(r).pc = "removing" /\ Updated(r).comment = c
          /\ Updated(r).removed = Revocable({c}) /\ Updated(r).doomed = r.doomed
    BY DEF Request
  <2>4. Revocable({c}) \subseteq {c} /\ c \in Live
    BY <2>1 DEF Revocable, BeginRemove, Live
  <2> HIDE DEF Updated
  <2>5. QED
    BY <2>1, <2>2, <2>3, <2>4 DEF BeginRemove, Begin, BegunOK
<1>3. CASE \E c \in Comments : BeginErase(q, c)
  <2>1. PICK c \in Comments : BeginErase(q, c)
    BY <1>3
  <2> DEFINE Updated(r) == [r EXCEPT !.pc = "gathered", !.comment = c,
                                  !.removed = Revocable(Thread({c}))]
  <2>2. req'[q] = Updated(NewRequest) /\ SameRequests(q)
    BY <2>1 DEF TypeOK, BeginErase, SameRequests
  <2>3. \A r \in Request :
          /\ Updated(r).pc = "gathered" /\ Updated(r).comment = c
          /\ Updated(r).removed = Revocable(Thread({c})) /\ Updated(r).doomed = r.doomed
    BY DEF Request
  <2> HIDE DEF Updated
  <2>4. QED
    BY <2>1, <2>2, <2>3 DEF BeginErase, Begin, BegunOK
<1>4. CASE BeginClose(q)
  <2> DEFINE Updated(r) == [r EXCEPT !.pc = "closing", !.removed = OwnItems]
  <2>1. req'[q] = Updated(NewRequest) /\ SameRequests(q)
    BY <1>4 DEF TypeOK, BeginClose, SameRequests
  <2>2. \A r \in Request : /\ Updated(r).pc = "closing" /\ Updated(r).removed = OwnItems
                           /\ Updated(r).doomed = r.doomed
    BY DEF Request
  <2> HIDE DEF Updated
  <2>3. QED
    BY <1>4, <2>1, <2>2 DEF BeginClose, Begin, BegunOK
<1>5. CASE BeginPurge(q)
  <2>1. PICK items \in {OwnItems, {}} :
          req' = [req EXCEPT ![q] = [NewRequest EXCEPT !.pc = "purging",
                                                       !.removed = items]]
    BY <1>5 DEF BeginPurge
  <2> DEFINE Updated(r) == [r EXCEPT !.pc = "purging", !.removed = items]
  <2>2. req'[q] = Updated(NewRequest) /\ SameRequests(q)
    BY <2>1 DEF TypeOK, SameRequests
  <2>3. \A r \in Request : /\ Updated(r).pc = "purging" /\ Updated(r).removed = items
                           /\ Updated(r).doomed = r.doomed
    BY DEF Request
  <2> HIDE DEF Updated
  <2>4. QED
    BY <1>5, <2>2, <2>3 DEF BeginPurge, Begin, BegunOK
<1>6. CASE \E u \in Users : BeginWithdraw(q, u)
  <2>1. PICK u \in Users : BeginWithdraw(q, u)
    BY <1>6
  <2> DEFINE has == \E c \in Present : author[c] = u
             Updated(r) == [r EXCEPT !.pc = "leaving", !.user = u, !.recount = has]
  <2>2. req'[q] = Updated(NewRequest) /\ SameRequests(q)
    BY <2>1 DEF TypeOK, BeginWithdraw, SameRequests
  <2>a. has \in BOOLEAN
    OBVIOUS
  <2> HIDE DEF has
  <2>3. \A r \in Request : /\ Updated(r).pc = "leaving" /\ Updated(r).user = u
                           /\ Updated(r).recount = has
                           /\ Updated(r).doomed = r.doomed /\ Updated(r).removed = r.removed
    BY <2>a DEF Request
  <2> HIDE DEF Updated
  <2>4. BegunOK(req[q], req'[q])
    <3>1. /\ req'[q].pc = "leaving" /\ req'[q].user = u /\ req'[q].recount = has
          /\ req'[q].doomed = {} /\ req'[q].removed = {}
      BY <2>2, <2>3
    <3>2. req[q].pc = "new"
      BY <2>1 DEF BeginWithdraw, Begin
    <3>3. req'[q].recount = \E c \in Present : author[c] = req'[q].user
      BY <3>1 DEF has
    <3>4. QED
      BY <3>1, <3>2, <3>3 DEF BegunOK
  <2>5. QED
    BY <2>1, <2>2, <2>3, <2>4 DEF BeginWithdraw, Begin
<1>7. QED
  BY <1>1, <1>2, <1>3, <1>4, <1>5, <1>6 DEF Begins

\* What a DELETE leaves of the others.
LEMMA DeletesFields ==
  ASSUME TypeOK, NEW q \in Requests, Deletes(q)
  PROVE  /\ UNCHANGED <<state, author, parent, post, withdrawn, emitted, raced>>
         /\ SameRequests(q)
         /\ req'[q].removed = req[q].removed /\ req'[q].user = req[q].user
         /\ req'[q].comment = req[q].comment /\ req'[q].recount = req[q].recount
         /\ req'[q].doomed \intersect Doomed = {}
         /\ \/ /\ req[q].pc = "gathered" /\ req'[q].pc = "erasing"
               /\ req'[q].doomed = Thread({req[q].comment} \intersect Present)
               /\ req'[q].counted = Cardinality(Live \ req'[q].doomed)
            \/ /\ req[q].pc = "purging" /\ req'[q].pc = "purged"
               /\ req'[q].doomed = Thread(Present)
            \/ /\ req[q].pc = "leaving" /\ req'[q].pc = "left"
               /\ req'[q].doomed = Thread({c \in Present : author[c] = req[q].user})
               /\ req'[q].counted = Cardinality(Live \ req'[q].doomed)
<1>1. req[q] \in Request
  BY DEF TypeOK
<1>2. CASE Erase(q)
  <2> DEFINE rows == Thread({req[q].comment} \intersect Present)
  <2>1. req'[q] = [req[q] EXCEPT !.pc = "erasing", !.doomed = rows,
                                 !.counted = Cardinality(Live \ rows)]
        /\ SameRequests(q) /\ rows \intersect Doomed = {} /\ req[q].pc = "gathered"
    BY <1>2 DEF TypeOK, Erase, SameRequests
  <2> HIDE DEF rows
  <2>2. /\ req'[q].pc = "erasing" /\ req'[q].doomed = rows
        /\ req'[q].counted = Cardinality(Live \ rows)
        /\ req'[q].removed = req[q].removed /\ req'[q].user = req[q].user
        /\ req'[q].comment = req[q].comment /\ req'[q].recount = req[q].recount
    BY <1>1, <2>1 DEF Request
  <2>3. QED
    BY <1>2, <2>1, <2>2 DEF Erase, rows
<1>3. CASE Purge(q)
  <2> DEFINE rows == Thread(AllRows)
  <2>1. req'[q] = [req[q] EXCEPT !.pc = "purged", !.doomed = rows]
        /\ SameRequests(q) /\ req[q].pc = "purging" /\ AllRows \intersect Doomed = {}
    BY <1>3 DEF TypeOK, Purge, SameRequests
  <2>2. rows \intersect Doomed = {} /\ rows = Thread(Present)
    BY <2>1, ThreadType DEF AllRows
  <2> HIDE DEF rows
  <2>3. /\ req'[q].pc = "purged" /\ req'[q].doomed = rows
        /\ req'[q].removed = req[q].removed /\ req'[q].user = req[q].user
        /\ req'[q].comment = req[q].comment /\ req'[q].recount = req[q].recount
    BY <1>1, <2>1 DEF Request
  <2>4. QED
    BY <1>3, <2>1, <2>2, <2>3 DEF Purge
<1>4. CASE Withdraw(q)
  <2> DEFINE rows == Thread({c \in Present : author[c] = req[q].user})
  <2>1. req'[q] = [req[q] EXCEPT !.pc = "left", !.doomed = rows,
                                 !.counted = Cardinality(Live \ rows)]
        /\ SameRequests(q) /\ rows \intersect Doomed = {} /\ req[q].pc = "leaving"
    BY <1>4 DEF TypeOK, Withdraw, SameRequests
  <2> HIDE DEF rows
  <2>2. /\ req'[q].pc = "left" /\ req'[q].doomed = rows
        /\ req'[q].counted = Cardinality(Live \ rows)
        /\ req'[q].removed = req[q].removed /\ req'[q].user = req[q].user
        /\ req'[q].comment = req[q].comment /\ req'[q].recount = req[q].recount
    BY <1>1, <2>1 DEF Request
  <2>3. QED
    BY <1>4, <2>1, <2>2 DEF Withdraw, rows
<1>5. QED
  BY <1>2, <1>3, <1>4 DEF Deletes

-----------------------------------------------------------------------------
(* Type correctness, continued.                                            *)

\* Every step keeps the subjects of requests.
LEMMA SubjectsOKStep == TypeOK /\ SubjectsOK /\ [Next]_vars => SubjectsOK'
<1> SUFFICES ASSUME TypeOK, SubjectsOK, [Next]_vars
             PROVE  SubjectsOK'
  OBVIOUS
<1>1. CASE UNCHANGED vars
  BY <1>1 DEF vars, SubjectsOK
<1>2. ASSUME NEW q \in Requests, Begins(q)
      PROVE  SubjectsOK'
  BY <1>2, BeginsFields DEF SubjectsOK, SameRequests, BegunOK, Live
<1>3. ASSUME NEW q \in Requests, Finishes(q)
      PROVE  SubjectsOK'
  BY <1>3, FinishesFields DEF SubjectsOK, SameRequests
<1>4. ASSUME NEW q \in Requests, Deletes(q)
      PROVE  SubjectsOK'
  BY <1>4, DeletesFields DEF SubjectsOK, SameRequests
<1>5. QED
  BY <1>1, <1>2, <1>3, <1>4, StepKinds

\* Every step keeps the types.
LEMMA TypeStep == TypeOK /\ SubjectsOK /\ [Next]_vars => TypeOK'
<1> SUFFICES ASSUME TypeOK, SubjectsOK, [Next]_vars
             PROVE  TypeOK'
  OBVIOUS
<1>1. CASE UNCHANGED vars
  BY <1>1 DEF vars, TypeOK
<1>2. ASSUME NEW q \in Requests, Begins(q) \/ Finishes(q) \/ Deletes(q)
      PROVE  TypeOK'
  BY <1>2, BeginType, CommitType DEF Begins, Finishes, Deletes
<1>3. QED
  BY <1>1, <1>2, StepKinds

\* Every variable keeps its type, and requests have proper subjects.
THEOREM TypeCorrect == Spec => [](TypeOK /\ SubjectsOK)
<1>1. Init => SubjectsOK
  BY NewRequestFields DEF Init, SubjectsOK
<1>2. QED
  BY <1>1, InitType, TypeStep, SubjectsOKStep, PTL DEF Spec

-----------------------------------------------------------------------------
(* Requests that delete rows run alone, as long as no race is noted.       *)

Alone == ~raced => \A q \in DeletingRows : InFlight = {q}

\* Every step keeps requests that delete rows alone, or notes a race.
LEMMA AloneStep == TypeOK /\ Alone /\ [Next]_vars => Alone'
<1>1. DeletingRows' \subseteq InFlight'
  BY DEF DeletingRows, InFlight
<1> SUFFICES ASSUME TypeOK, Alone, [Next]_vars, ~raced',
                    NEW q \in DeletingRows', NEW x \in InFlight'
             PROVE  x = q
  BY <1>1 DEF Alone
<1> USE DEF DeletingRows, InFlight
<1>2. CASE UNCHANGED vars
  BY <1>2 DEF vars, Alone
<1>3. ASSUME NEW y \in Requests, Begins(y)
      PROVE  x = q
  BY <1>3, BeginsFields DEF SameRequests, BegunOK
<1>4. ASSUME NEW y \in Requests, Finishes(y)
      PROVE  x = q
  BY <1>4, FinishesFields DEF SameRequests, Alone
<1>5. ASSUME NEW y \in Requests, Deletes(y)
      PROVE  x = q
  <2>1. ~raced /\ SameRequests(y) /\ y \in DeletingRows
    BY <1>5, DeletesFields
  <2>2. InFlight = {y}
    BY <2>1 DEF Alone
  <2>3. ASSUME NEW z \in Requests \ {y}
        PROVE  z \notin InFlight'
    BY <2>1, <2>2, <2>3 DEF SameRequests
  <2>4. q = y /\ x = y
    BY <1>1, <2>3
  <2>5. QED
    BY <2>4
<1>6. QED
  BY <1>2, <1>3, <1>4, <1>5, StepKinds

\* A request that commits is in flight.
LEMMA CommitsInFlight ==
  ASSUME NEW q \in Requests, Finishes(q)
  PROVE  q \in InFlight
BY DEF Finishes, CommitCreate, CommitRemove, CommitErase, CommitClose,
       CommitPurge, CommitWithdraw, Fail, InFlight

-----------------------------------------------------------------------------
(* What a request that runs alone read is still so when it commits.        *)

\* no row of a thread below nothing
LEMMA ThreadOfNothing == Thread({}) = {}
<1>1. ASSUME NEW c \in Thread({})
      PROVE  FALSE
  <2>1. {} \in SUBSET Present
    OBVIOUS
  <2>2. QED
    BY <1>1, <2>1 DEF Thread
<1>2. QED
  BY <1>1

\* a thread holds its roots
LEMMA ThreadHoldsRoots ==
  ASSUME NEW roots \in SUBSET Present
  PROVE  roots \subseteq Thread(roots)
BY DEF Thread

SnapshotCurrent ==
  ~raced => \A q \in Requests :
    /\ req[q].pc \in {"erasing", "left"} =>
         req[q].counted = Cardinality(Live \ req[q].doomed)
    /\ req[q].pc = "leaving" /\ ~req[q].recount =>
         {c \in Present : author[c] = req[q].user} = {}
    /\ req[q].pc = "left" /\ ~req[q].recount => req[q].doomed = {}
    /\ req[q].pc = "purged" => Present \subseteq req[q].doomed
    /\ req[q].pc = "creating" => post.state # "gone"

\* Every step keeps what a snapshot counted current.
LEMMA SnapshotStep ==
  TypeOK /\ Alone /\ SnapshotCurrent /\ [Next]_vars => SnapshotCurrent'
<1> SUFFICES ASSUME TypeOK, Alone, SnapshotCurrent, [Next]_vars, ~raced'
             PROVE  SnapshotCurrent'
  BY DEF SnapshotCurrent
<1>1. CASE UNCHANGED vars
  BY <1>1 DEF vars, SnapshotCurrent, Live, Present
<1>2. ASSUME NEW q \in Requests, Begins(q)
      PROVE  SnapshotCurrent'
  <2>1. ~raced /\ UNCHANGED <<state, author, post>> /\ SameRequests(q)
        /\ BegunOK(req[q], req'[q])
    BY <1>2, BeginsFields
  <2>2. Live' = Live /\ Present' = Present
    BY <2>1 DEF Live, Present
  <2>3. DeletingRows = {}
    BY <1>2, BeginsFields
  <2>4. ASSUME NEW x \in Requests
        PROVE  /\ x # q => req'[x] = req[x]
               /\ x # q => req[x].pc \notin {"erasing", "left", "leaving", "purged"}
               /\ x = q => req'[x].pc \notin {"erasing", "left", "purged"}
    BY <2>1, <2>3 DEF SameRequests, BegunOK, DeletingRows
  <2>5. req'[q].pc = "leaving" /\ ~req'[q].recount =>
          {c \in Present : author[c] = req'[q].user} = {}
    BY <2>1 DEF BegunOK
  <2>6. req'[q].pc = "creating" => post.state # "gone"
    BY <2>1 DEF BegunOK
  <2>7. \A x \in Requests \ {q} : req'[x].pc = "creating" => post.state # "gone"
    BY <2>1, <2>4 DEF SnapshotCurrent
  <2>8. QED
    BY <2>1, <2>2, <2>4, <2>5, <2>6, <2>7 DEF SnapshotCurrent
<1>3. ASSUME NEW q \in Requests, Finishes(q)
      PROVE  SnapshotCurrent'
  <2>1. ~raced /\ SameRequests(q) /\ req'[q].pc = "over"
    BY <1>3, FinishesFields
  <2>2. q \in InFlight
    BY <1>3, CommitsInFlight
  <2>3. \A x \in Requests \ {q} : x \notin DeletingRows
    BY <2>1, <2>2 DEF Alone
  <2>4. ASSUME NEW x \in Requests \ {q}, req[x].pc = "creating"
        PROVE  post'.state # "gone"
    <3>1. q \notin DeletingRows
      BY <2>1, <2>4 DEF Alone, InFlight
    <3>2. post.state # "gone"
      BY <2>1, <2>4 DEF SnapshotCurrent
    <3>3. CASE \E c \in Comments : CommitCreate(q, c)
      BY <3>2, <3>3, CountedType DEF CommitCreate, TypeOK
    <3>4. CASE CommitRemove(q)
      BY <3>2, <3>4, CountedType DEF CommitRemove, TypeOK
    <3>5. CASE CommitClose(q)
      BY <3>2, <3>5 DEF CommitClose, TypeOK
    <3>6. CASE Fail(q)
      BY <3>2, <3>6 DEF Fail
    <3>7. QED
      BY <1>3, <3>1, <3>3, <3>4, <3>5, <3>6
         DEF Finishes, DeletingRows, CommitErase, CommitPurge, CommitWithdraw
  <2>5. QED
    BY <2>1, <2>3, <2>4 DEF SnapshotCurrent, SameRequests, DeletingRows
<1>4. ASSUME NEW q \in Requests, Deletes(q)
      PROVE  SnapshotCurrent'
  <2>1. ~raced /\ UNCHANGED <<state, author, post>> /\ SameRequests(q)
    BY <1>4, DeletesFields
  <2>2. Live' = Live /\ Present' = Present
    BY <2>1 DEF Live, Present
  <2>3. Present \subseteq Thread(Present)
    BY ThreadHoldsRoots
  <2>4. q \in DeletingRows /\ q \in InFlight
    BY <1>4, DeletesFields DEF DeletingRows, InFlight
  <2>5. \A x \in Requests \ {q} : /\ req'[x] = req[x]
                                  /\ req[x].pc \in {"new", "over"}
    BY <2>1, <2>4 DEF Alone, SameRequests, InFlight
  <2>6. req'[q].pc \in {"erasing", "left"} =>
          req'[q].counted = Cardinality(Live \ req'[q].doomed)
    BY <1>4, DeletesFields
  <2>7. req'[q].pc = "left" /\ ~req'[q].recount => req'[q].doomed = {}
    <3>1. CASE req[q].pc = "leaving"
      BY <1>4, <2>1, <3>1, DeletesFields, ThreadOfNothing DEF SnapshotCurrent
    <3>2. CASE req[q].pc # "leaving"
      BY <1>4, <3>2, DeletesFields
    <3>3. QED
      BY <3>1, <3>2
  <2>8. req'[q].pc = "purged" => Present \subseteq req'[q].doomed
    BY <1>4, <2>3, DeletesFields
  <2>9. req'[q].pc \notin {"leaving", "creating"}
    BY <1>4, DeletesFields
  <2>10. QED
    BY <2>2, <2>5, <2>6, <2>7, <2>8, <2>9 DEF SnapshotCurrent
<1>5. QED
  BY <1>1, <1>2, <1>3, <1>4, StepKinds

-----------------------------------------------------------------------------
(* The stored count.                                                       *)

\* Every step keeps the count.
LEMMA CountStep ==
  TypeOK /\ SubjectsOK /\ Alone /\ SnapshotCurrent /\ CountMatches /\ [Next]_vars => CountMatches'
<1> SUFFICES ASSUME TypeOK, SubjectsOK, Alone, SnapshotCurrent, CountMatches, [Next]_vars, ~raced'
             PROVE  CountMatches'
  BY DEF CountMatches
<1>1. CASE UNCHANGED vars
  BY <1>1 DEF vars, CountMatches, Live
<1>2. ASSUME NEW q \in Requests, Begins(q) \/ Deletes(q)
      PROVE  CountMatches'
  <2>1. ~raced /\ UNCHANGED <<state, post>>
    BY <1>2, BeginsFields, DeletesFields
  <2>2. QED
    BY <2>1 DEF CountMatches, Live
<1>3. ASSUME NEW q \in Requests, Finishes(q)
      PROVE  CountMatches'
  <2>1. ~raced
    BY <1>3, FinishesFields
  <2>2. IsFiniteSet(Live) /\ Cardinality(Live) \in Nat /\ post.count \in Int
    BY LiveCount DEF TypeOK
  <2>3. ASSUME NEW n \in Int, post' = Counted(n), post.state # "gone",
               \/ Cardinality(Live') = n
               \/ /\ post.state = "deleted" /\ Cardinality(Live') <= n
        PROVE  CountMatches'
    <3>1. post'.state = post.state /\ post'.count = n
      BY <2>3, CountedType
    <3>2. Cardinality(Live') \in Int
      <4>1. (Cardinality(Live) \in Nat)'
        <5>1. Live' \subseteq Comments
          BY DEF Live
        <5>2. QED
          BY <5>1, FS_Subset, FS_CardinalityType, ConstantsAssumption DEF ConstantsAssumption
      <4>2. QED
        BY <4>1
    <3>3. QED
      BY <2>3, <3>1, <3>2 DEF CountMatches
  <2>4. CASE post'.state = "gone"
    BY <2>4 DEF CountMatches
  <2>5. CASE post'.state # "gone" /\ post.state = "gone"
    <3>1. Counted(post.count + 1) = post /\ Counted(post.count - 1) = post
          /\ Counted(req[q].counted) = post
      BY <2>5 DEF Counted
    <3>2. QED
      BY <1>3, <2>5, <3>1 DEF Finishes, CommitCreate, CommitRemove, CommitErase,
           CommitClose, CommitPurge, CommitWithdraw, Fail, TypeOK
  <2>6. CASE post.state # "gone" /\ post'.state # "gone"
    <3>1. CASE \E c \in Comments : CommitCreate(q, c)
      <4>1. PICK c \in Comments : CommitCreate(q, c)
        BY <3>1
      <4>2. Live' = Live \union {c} /\ c \notin Live
        BY <4>1 DEF CommitCreate, Live, TypeOK
      <4>3. Cardinality(Live') = Cardinality(Live) + 1
        BY <2>2, <4>2, FS_AddElement
      <4>4. post' = Counted(post.count + 1)
        BY <4>1 DEF CommitCreate
      <4>5. QED
        BY <2>1, <2>2, <2>3, <2>6, <4>3, <4>4 DEF CountMatches, TypeOK
    <3>2. CASE CommitRemove(q)
      <4> DEFINE c == req[q].comment
      <4>1. CASE Markable(c)
        <5>1. Live' = Live \ {c} /\ c \in Live
          <6>1. c \in Comments
            BY <3>2 DEF CommitRemove, SubjectsOK
          <6>2. QED
            BY <3>2, <4>1, <6>1 DEF Markable, CommitRemove, Live, TypeOK
        <5>2. Cardinality(Live') = Cardinality(Live) - 1
          BY <2>2, <5>1, FS_RemoveElement
        <5>3. post' = Counted(post.count - 1)
          BY <3>2, <4>1 DEF CommitRemove
        <5>4. QED
          BY <2>1, <2>2, <2>3, <2>6, <5>2, <5>3 DEF CountMatches, TypeOK
      <4>2. CASE ~Markable(c)
        BY <2>1, <3>2, <4>2 DEF CommitRemove, CountMatches, Live
      <4>3. QED
        BY <4>1, <4>2
    <3>3. CASE CommitErase(q)
      <4>1. Live' = Live \ req[q].doomed
        BY <3>3 DEF CommitErase, Gone, Live, TypeOK
      <4>2. Cardinality(Live') = req[q].counted /\ req[q].counted \in Int
        BY <2>1, <3>3, <4>1 DEF CommitErase, SnapshotCurrent, TypeOK, Request
      <4>3. QED
        BY <2>3, <2>6, <3>3, <4>2 DEF CommitErase
    <3>4. CASE CommitClose(q)
      <4>1. Live' = {}
        BY <3>4 DEF CommitClose, Live, TypeOK
      <4>2. post'.state = "deleted" /\ post'.count = post.count
        BY <2>6, <3>4 DEF CommitClose, TypeOK
      <4>3. post.count >= 0
        BY <2>1, <2>2, <2>6 DEF CountMatches, TypeOK
      <4>4. QED
        BY <4>1, <4>2, <4>3, FS_EmptySet DEF CountMatches
    <3>5. CASE CommitPurge(q)
      BY <2>6, <3>5 DEF CommitPurge, TypeOK
    <3>6. CASE CommitWithdraw(q)
      <4>1. Live' = Live \ req[q].doomed
        BY <3>6 DEF CommitWithdraw, Gone, Live, TypeOK
      <4>2. CASE req[q].recount
        <5>1. post' = Counted(req[q].counted)
          BY <2>6, <3>6, <4>2 DEF CommitWithdraw, TypeOK
        <5>2. Cardinality(Live') = req[q].counted /\ req[q].counted \in Int
          BY <2>1, <3>6, <4>1 DEF CommitWithdraw, SnapshotCurrent, TypeOK, Request
        <5>3. QED
          BY <2>3, <2>6, <5>1, <5>2
      <4>3. CASE ~req[q].recount
        <5>1. post' = post
          BY <2>6, <3>6, <4>3 DEF CommitWithdraw, TypeOK
        <5>2. Live' = Live
          BY <2>1, <3>6, <4>1, <4>3 DEF SnapshotCurrent, CommitWithdraw
        <5>3. QED
          BY <2>1, <5>1, <5>2 DEF CountMatches
      <4>4. QED
        BY <4>2, <4>3
    <3>7. CASE Fail(q)
      BY <2>1, <3>7 DEF Fail, CountMatches, Live
    <3>8. QED
      BY <1>3, <3>1, <3>2, <3>3, <3>4, <3>5, <3>6, <3>7 DEF Finishes
  <2>7. QED
    BY <2>4, <2>5, <2>6
<1>4. QED
  BY <1>1, <1>2, <1>3, StepKinds

CountInv == TypeOK /\ SubjectsOK /\ Alone /\ SnapshotCurrent /\ CountMatches

\* Initially there is no comment and the count is zero.
LEMMA InitCount == Init => CountInv
<1> SUFFICES ASSUME Init
             PROVE  CountInv
  OBVIOUS
<1>1. TypeOK /\ \A q \in Requests : req[q].pc = "new"
  BY InitType, NewRequestFields DEF Init
<1>2. Live = {} /\ post.count = 0 /\ post.state = "live"
  BY DEF Init, Live
<1>3. QED
  BY <1>1, <1>2, FS_EmptySet DEF CountInv, SubjectsOK, Alone, DeletingRows,
     SnapshotCurrent, CountMatches

\* For any number of comments and requests: unless a request that deletes rows
\* overlapped another one, the stored count is the number of comments.
THEOREM CountMatchesCorrect == Spec => []CountMatches
<1>1. CountInv /\ [Next]_vars => CountInv'
  BY TypeStep, SubjectsOKStep, AloneStep, SnapshotStep, CountStep DEF CountInv
<1>2. CountInv => CountMatches
  BY DEF CountInv
<1>3. QED
  BY InitCount, <1>1, <1>2, PTL DEF Spec

-----------------------------------------------------------------------------
(* The post is gone.                                                       *)

\* Every step keeps an erased post without comments.
LEMMA PurgeStep ==
  TypeOK /\ SubjectsOK /\ SnapshotCurrent /\ PurgeLeavesNoComment /\ [Next]_vars
    => PurgeLeavesNoComment'
<1> SUFFICES ASSUME TypeOK, SubjectsOK, SnapshotCurrent, PurgeLeavesNoComment,
                    [Next]_vars, ~raced', post'.state = "gone", Author \notin withdrawn'
             PROVE  Present' = {}
  BY DEF PurgeLeavesNoComment
<1>1. CASE UNCHANGED vars
  BY <1>1 DEF vars, PurgeLeavesNoComment, Present
<1>2. ASSUME NEW q \in Requests, Begins(q) \/ Deletes(q)
      PROVE  Present' = {}
  BY <1>2, BeginsFields, DeletesFields DEF PurgeLeavesNoComment, Present
<1>3. ASSUME NEW q \in Requests, Finishes(q)
      PROVE  Present' = {}
  <2>1. ~raced
    BY <1>3, FinishesFields
  <2>2. ASSUME post.state = "gone", withdrawn \subseteq withdrawn', Present' \subseteq Present
        PROVE  Present' = {}
    BY <2>1, <2>2 DEF PurgeLeavesNoComment
  <2>3. CASE \E c \in Comments : CommitCreate(q, c)
    <3>1. post' = Counted(post.count + 1) /\ req[q].pc = "creating"
      BY <2>3 DEF CommitCreate
    <3>2. post.count + 1 \in Int
      BY DEF TypeOK
    <3>3. post.state = "gone"
      BY <3>1, <3>2, CountedType
    <3>4. QED
      BY <2>1, <3>1, <3>3 DEF SnapshotCurrent
  <2>4. CASE CommitRemove(q)
    <3>1. post'.state = post.state /\ withdrawn' = withdrawn
      BY <2>4, CountedType DEF CommitRemove, TypeOK
    <3>2. Present' \subseteq Present
      BY <2>4 DEF CommitRemove, Markable, Present, TypeOK
    <3>3. QED
      BY <2>2, <3>1, <3>2
  <2>5. CASE CommitErase(q)
    <3>1. req[q].counted \in Int
      BY DEF TypeOK, Request
    <3>2. post'.state = post.state /\ withdrawn' = withdrawn
      BY <2>5, <3>1, CountedType DEF CommitErase
    <3>3. Present' \subseteq Present
      BY <2>5 DEF CommitErase, Gone, Present, TypeOK
    <3>4. QED
      BY <2>2, <3>2, <3>3
  <2>6. CASE CommitClose(q)
    <3>1. post.state = "gone" /\ withdrawn' = withdrawn
      BY <2>6 DEF CommitClose, TypeOK
    <3>2. Present' \subseteq Present
      BY <2>6 DEF CommitClose, Live, Present, TypeOK
    <3>3. QED
      BY <2>2, <3>1, <3>2
  <2>7. CASE CommitPurge(q)
    <3>1. Present \subseteq req[q].doomed
      BY <2>1, <2>7 DEF CommitPurge, SnapshotCurrent
    <3>2. QED
      BY <2>7, <3>1 DEF CommitPurge, Gone, Present, TypeOK
  <2>8. CASE CommitWithdraw(q)
    <3>1. req[q].user # Author /\ withdrawn \subseteq withdrawn'
      BY <2>8 DEF CommitWithdraw
    <3>2. req[q].counted \in Int
      BY DEF TypeOK, Request
    <3>3. post'.state = post.state
      BY <2>8, <3>1, <3>2, CountedType DEF CommitWithdraw
    <3>4. Present' \subseteq Present
      BY <2>8 DEF CommitWithdraw, Gone, Present, TypeOK
    <3>5. QED
      BY <2>2, <3>1, <3>3, <3>4
  <2>9. CASE Fail(q)
    BY <2>2, <2>9 DEF Fail, Present
  <2>10. QED
    BY <1>3, <2>3, <2>4, <2>5, <2>6, <2>7, <2>8, <2>9 DEF Finishes
<1>4. QED
  BY <1>1, <1>2, <1>3, StepKinds

\* For any number of comments and requests: a post that a super admin erased
\* leaves no comment, unless the erasure overlapped another request.
THEOREM PurgeCorrect == Spec => []PurgeLeavesNoComment
<1>1. Init => CountInv /\ PurgeLeavesNoComment
  BY InitCount DEF Init, PurgeLeavesNoComment
<1>2. CountInv /\ PurgeLeavesNoComment /\ [Next]_vars
        => CountInv' /\ PurgeLeavesNoComment'
  BY TypeStep, SubjectsOKStep, AloneStep, SnapshotStep, CountStep, PurgeStep
     DEF CountInv
<1>3. QED
  BY <1>1, <1>2, PTL DEF Spec

-----------------------------------------------------------------------------
(* Points are taken back only for what is removed.                         *)

\* rows with their replies
Closed(rows) == \A reply \in Present : parent[reply] \in rows => reply \in rows

\* A thread is closed, and among closed sets that hold its roots it is the least.
LEMMA ThreadClosed ==
  ASSUME NEW roots
  PROVE  Closed(Thread(roots))
BY DEF Thread, Closed

\* A thread is within every set of rows that holds its roots and is closed under replies.
LEMMA ThreadLeast ==
  ASSUME NEW roots, NEW rows \in SUBSET Present, roots \subseteq rows, Closed(rows)
  PROVE  Thread(roots) \subseteq rows
BY DEF Thread, Closed

\* rows that an open transaction deletes take their replies along
DoomedClosed == \A q \in Requests : Closed(req[q].doomed)

\* Every step keeps the rows of open transactions closed under replies.
LEMMA DoomedClosedStep == TypeOK /\ DoomedClosed /\ [Next]_vars => DoomedClosed'
<1> SUFFICES ASSUME TypeOK, DoomedClosed, [Next]_vars
             PROVE  DoomedClosed'
  OBVIOUS
<1>1. CASE UNCHANGED vars
  BY <1>1 DEF vars, DoomedClosed, Closed, Present
<1>2. ASSUME NEW q \in Requests, Begins(q)
      PROVE  DoomedClosed'
  <2>1. UNCHANGED <<state, parent>> /\ SameRequests(q) /\ req'[q].doomed = {}
    BY <1>2, BeginsFields DEF BegunOK
  <2>2. QED
    BY <2>1 DEF DoomedClosed, Closed, Present, SameRequests
<1>3. ASSUME NEW q \in Requests, Finishes(q)
      PROVE  DoomedClosed'
  <2>1. SameRequests(q) /\ req'[q].doomed = {}
    BY <1>3, FinishesFields
  <2>2. ASSUME NEW x \in Requests \ {q}, NEW r \in Present', parent'[r] \in req[x].doomed
        PROVE  r \in req[x].doomed
    <3>1. CASE r \in Present /\ parent'[r] = parent[r]
      BY <2>2, <3>1 DEF DoomedClosed, Closed
    <3>2. CASE \E c \in Comments : CommitCreate(q, c)
      <4>1. PICK c \in Comments : CommitCreate(q, c)
        BY <3>2
      <4>2. CASE r = c
        <5>1. parent'[r] = req[q].comment
          BY <4>1, <4>2 DEF CommitCreate, TypeOK
        <5>2. req[q].comment # None => req[q].comment \notin req[x].doomed
          BY <4>1 DEF CommitCreate, Insertable, Doomed
        <5>3. None \notin req[x].doomed
          BY ConstantsAssumption DEF ConstantsAssumption, TypeOK, Request
        <5>4. QED
          BY <2>2, <5>1, <5>2, <5>3
      <4>3. CASE r # c
        BY <3>1, <4>1, <4>3 DEF CommitCreate, Present, TypeOK
      <4>4. QED
        BY <4>2, <4>3
    <3>3. CASE ~\E c \in Comments : CommitCreate(q, c)
      <4>1. parent' = parent
        BY <1>3, <3>3 DEF Finishes, CommitRemove, CommitErase, CommitClose,
                          CommitPurge, CommitWithdraw, Fail
      <4>2. Present' \subseteq Present
        BY <1>3, <3>3 DEF Finishes, CommitRemove, CommitErase, CommitClose,
             CommitPurge, CommitWithdraw, Fail, Present, Live, Markable, Gone, TypeOK
      <4>3. QED
        BY <3>1, <4>1, <4>2
    <3>4. QED
      BY <3>2, <3>3
  <2>3. QED
    BY <2>1, <2>2 DEF DoomedClosed, Closed, SameRequests
<1>4. ASSUME NEW q \in Requests, Deletes(q)
      PROVE  DoomedClosed'
  <2>1. UNCHANGED <<state, parent>> /\ SameRequests(q)
    BY <1>4, DeletesFields
  <2>2. Closed(req'[q].doomed)
    <3>1. \E roots : req'[q].doomed = Thread(roots)
      BY <1>4, DeletesFields
    <3>2. QED
      BY <3>1, ThreadClosed
  <2>3. QED
    BY <2>1, <2>2 DEF DoomedClosed, Closed, Present, SameRequests
<1>5. QED
  BY <1>1, <1>2, <1>3, <1>4, StepKinds

\* a comment that was removed and never comes back
Removed(c) == state[c] \in {"deleted", "gone"}

\* Once removed, a comment and the post stay removed; no comment is unwritten.
LEMMA RemovedForever ==
  ASSUME TypeOK, [Next]_vars
  PROVE  /\ \A c \in Comments : Removed(c) => Removed(c)'
         /\ \A c \in Comments : state[c] = "gone" => state'[c] = "gone"
         /\ \A c \in Comments : state[c] # "absent" => state'[c] # "absent"
         /\ post.state # "live" => post'.state # "live"
<1>1. CASE UNCHANGED vars
  BY <1>1 DEF vars, Removed
<1>2. ASSUME NEW q \in Requests, Begins(q) \/ Deletes(q)
      PROVE  UNCHANGED <<state, post>>
  BY <1>2, BeginsFields, DeletesFields
<1>3. ASSUME NEW q \in Requests, Finishes(q)
      PROVE  /\ \A c \in Comments : Removed(c) => Removed(c)'
             /\ \A c \in Comments : state[c] = "gone" => state'[c] = "gone"
             /\ \A c \in Comments : state[c] # "absent" => state'[c] # "absent"
  BY <1>3 DEF Finishes, CommitCreate, CommitRemove, CommitErase, CommitClose, CommitPurge,
       CommitWithdraw, Fail, Removed, Live, Markable, Gone, TypeOK
<1>4. ASSUME NEW q \in Requests, Finishes(q), post.state # "live"
      PROVE  post'.state # "live"
  <2>1. post.count \in Int /\ req[q].counted \in Int
    BY DEF TypeOK, Request
  <2>2. \A n \in Int : Counted(n).state = post.state
    BY CountedType
  <2>3. QED
    BY <1>4, <2>1, <2>2 DEF Finishes, CommitCreate, CommitRemove, CommitErase, CommitClose,
         CommitPurge, CommitWithdraw, Fail, TypeOK
<1>5. QED
  BY <1>1, <1>2, <1>3, <1>4, StepKinds DEF Removed

\* what each request that gives points back knows of what it read
ListOK(q) ==
  /\ \A c \in req[q].removed \ {Post} : state[c] # "absent"
  /\ req[q].pc = "removing" => req[q].removed \subseteq {req[q].comment}
  /\ req[q].pc = "gathered" =>
       /\ req[q].comment \in Comments
       /\ state[req[q].comment] # "absent"
       /\ \A c \in req[q].removed :
            state[c] = "gone" \/ c \in Thread({req[q].comment} \intersect Present)
  /\ req[q].pc \in {"removing", "gathered", "erasing"} => Post \notin req[q].removed
  /\ req[q].pc \in {"erasing", "purged"} =>
       \A c \in req[q].removed \ {Post} : state[c] = "gone" \/ c \in req[q].doomed
ListsOK == \A q \in Requests : ListOK(q)

\* A row of the thread that a hard removal read is still in it, or deleted.
LEMMA ThreadKept ==
  ASSUME TypeOK, DoomedClosed, NEW q \in Requests, Finishes(q),
         NEW c \in Comments, state[c] # "absent", NEW k \in Thread({c} \intersect Present)
  PROVE  state'[k] = "gone" \/ k \in (Thread({c} \intersect Present))'
<1>1. k \in Present /\ k \in Comments
  BY ThreadType
<1>2. [Next]_vars
  BY DEF Finishes, Next, CommentRequest, PostRequest, UserRequest
<1> SUFFICES ASSUME state'[k] # "gone"
             PROVE  k \in (Thread({c} \intersect Present))'
  OBVIOUS
<1>3. k \in Present'
  <2>1. state'[k] # "absent"
    BY <1>1, <1>2, RemovedForever DEF Present
  <2>2. state'[k] \in {"absent", "live", "deleted", "gone"}
    BY <1>1 DEF Finishes, CommitCreate, CommitRemove, CommitErase, CommitClose,
         CommitPurge, CommitWithdraw, Fail, Gone, TypeOK
  <2>3. QED
    BY <1>1, <2>1, <2>2 DEF Present
<1>4. ASSUME NEW rows \in SUBSET Present', ({c} \intersect Present)' \subseteq rows,
             \A reply \in Present' : parent'[reply] \in rows => reply \in rows
      PROVE  k \in rows
  <2>1. CASE \E n \in Comments : CommitCreate(q, n)
    <3>1. Present \subseteq Present' /\ \A r \in Present : parent'[r] = parent[r]
      BY <2>1 DEF CommitCreate, Present, TypeOK
    <3> DEFINE kept == rows \intersect Present
    <3>2. Closed(kept)
      BY <1>4, <3>1 DEF Closed
    <3>3. {c} \intersect Present \subseteq kept
      BY <1>4, <3>1
    <3>4. Thread({c} \intersect Present) \subseteq kept
      BY <3>2, <3>3, ThreadLeast
    <3>5. QED
      BY <3>4
  <2>2. CASE ~\E n \in Comments : CommitCreate(q, n)
    <3> DEFINE lost == Present \ Present'
               kept == (rows \intersect Present) \union lost
    <3>1. parent' = parent
      BY <2>2 DEF Finishes, CommitRemove, CommitErase, CommitClose,
                  CommitPurge, CommitWithdraw, Fail
    <3>2. lost = {} \/ lost = req[q].doomed \intersect Present
      BY <2>2 DEF Finishes, CommitRemove, CommitErase, CommitClose, CommitPurge,
           CommitWithdraw, Fail, Present, Live, Markable, Gone, TypeOK
    <3>3. Closed(lost)
      BY <3>2 DEF DoomedClosed, Closed
    <3>4. Closed(kept)
      BY <1>4, <3>1, <3>3 DEF Closed
    <3>5. {c} \intersect Present \subseteq kept
      BY <1>4
    <3>6. Thread({c} \intersect Present) \subseteq kept
      BY <3>4, <3>5, ThreadLeast
    <3>7. QED
      BY <1>3, <3>6
  <2>3. QED
    BY <2>1, <2>2
<1>5. QED
  BY <1>3, <1>4 DEF Thread

\* Every step keeps what requests read true enough.
LEMMA ListsStep == TypeOK /\ DoomedClosed /\ ListsOK /\ [Next]_vars => ListsOK'
<1> SUFFICES ASSUME TypeOK, DoomedClosed, ListsOK, [Next]_vars, NEW x \in Requests
             PROVE  ListOK(x)'
  BY DEF ListsOK
<1>1. ListOK(x)
  BY DEF ListsOK
<1>2. CASE UNCHANGED vars
  BY <1>1, <1>2 DEF vars, ListOK, Thread, Present
<1>3. ASSUME NEW q \in Requests, Begins(q) \/ Deletes(q), x # q
      PROVE  ListOK(x)'
  <2>1. UNCHANGED <<state, parent>> /\ req'[x] = req[x]
    BY <1>3, BeginsFields, DeletesFields DEF SameRequests
  <2>2. QED
    BY <1>1, <2>1 DEF ListOK, Thread, Present
<1>4. CASE Begins(x)
  <2>1. UNCHANGED <<state, parent>> /\ BegunOK(req[x], req'[x])
    BY <1>4, BeginsFields
  <2>2. Post \notin Comments /\ \A roots : Thread(roots) \subseteq Present
        /\ Present \subseteq Comments
    BY ThreadType, ConstantsAssumption DEF ConstantsAssumption
  <2>3. \A c \in OwnItems \ {Post} : state[c] # "absent"
    BY DEF OwnItems, Live
  <2>4. CASE req'[x].pc = "gathered"
    <3> DEFINE c == req'[x].comment
    <3>1. c \in Present /\ req'[x].removed \subseteq Thread({c})
      BY <2>1, <2>4 DEF BegunOK, Revocable
    <3>2. {c} \intersect Present = {c}
      BY <3>1
    <3>3. (Thread({req[x].comment} \intersect Present))' = Thread({c})
      BY <2>1, <3>1, <3>2 DEF Thread, Present
    <3>4. QED
      BY <2>1, <2>2, <2>4, <3>1, <3>3 DEF ListOK, Present
  <2>5. CASE req'[x].pc = "removing"
    BY <2>1, <2>2, <2>5 DEF BegunOK, ListOK, Live, Revocable
  <2>6. CASE req'[x].pc \in {"creating", "closing", "purging", "leaving"}
    BY <2>1, <2>3, <2>6 DEF BegunOK, ListOK
  <2>7. QED
    BY <2>1, <2>4, <2>5, <2>6 DEF BegunOK
<1>5. CASE Deletes(x)
  <2>1. /\ state' = state /\ req'[x].removed = req[x].removed
        /\ req'[x].pc \in {"erasing", "purged", "left"}
    BY <1>5, DeletesFields
  <2>2. \A c \in req[x].removed \ {Post} : state[c] # "absent"
    BY <1>1 DEF ListOK
  <2>3. CASE req[x].pc = "gathered"
    <3>1. /\ req'[x].pc = "erasing"
          /\ req'[x].doomed = Thread({req[x].comment} \intersect Present)
      BY <1>5, <2>3, DeletesFields
    <3>2. QED
      BY <1>1, <2>1, <2>2, <2>3, <3>1 DEF ListOK
  <2>4. CASE req[x].pc = "purging"
    <3>1. req'[x].pc = "purged" /\ Present \subseteq req'[x].doomed
      <4>1. Present \subseteq Thread(Present)
        BY ThreadHoldsRoots
      <4>2. QED
        BY <1>5, <2>4, <4>1, DeletesFields
    <3>2. \A c \in Comments : state[c] \in {"absent", "gone"} \/ c \in Present
      BY DEF TypeOK, Present
    <3>3. req[x].removed \ {Post} \subseteq Comments
      BY DEF TypeOK, Request
    <3>4. QED
      BY <2>1, <2>2, <3>1, <3>2, <3>3 DEF ListOK
  <2>5. CASE req[x].pc = "leaving"
    <3>1. req'[x].pc = "left"
      BY <1>5, <2>5, DeletesFields
    <3>2. QED
      BY <2>1, <2>2, <3>1 DEF ListOK
  <2>6. QED
    BY <1>5, <2>3, <2>4, <2>5, DeletesFields
<1>6. ASSUME NEW q \in Requests, Finishes(q), x # q
      PROVE  ListOK(x)'
  <2>1. req'[x] = req[x]
    BY <1>6, FinishesFields DEF SameRequests
  <2>2. req[x].removed \ {Post} \subseteq Comments
    BY DEF TypeOK, Request
  <2>3. /\ \A c \in Comments : state[c] = "gone" => state'[c] = "gone"
        /\ \A c \in Comments : state[c] # "absent" => state'[c] # "absent"
    BY RemovedForever
  <2>4. ASSUME req[x].pc = "gathered", NEW c \in req[x].removed
        PROVE  state'[c] = "gone" \/ c \in (Thread({req[x].comment} \intersect Present))'
    <3>1. req[x].comment \in Comments /\ state[req[x].comment] # "absent" /\ c # Post
          /\ (state[c] = "gone" \/ c \in Thread({req[x].comment} \intersect Present))
      BY <1>1, <2>4 DEF ListOK
    <3>2. CASE state[c] = "gone"
      BY <2>2, <2>3, <3>1, <3>2
    <3>3. CASE c \in Thread({req[x].comment} \intersect Present)
      <4> DEFINE d == req[x].comment
      <4>1. d = req'[x].comment
        BY <2>1
      <4> HIDE DEF d
      <4>2. QED
        BY <1>6, <3>1, <3>3, <4>1, ThreadKept DEF d
    <3>4. QED
      BY <3>1, <3>2, <3>3
  <2>5. QED
    BY <1>1, <2>1, <2>2, <2>3, <2>4 DEF ListOK
<1>7. CASE Finishes(x)
  BY <1>7, FinishesFields DEF ListOK
<1>8. QED
  BY <1>2, <1>3, <1>4, <1>5, <1>6, <1>7, StepKinds

\* Every step keeps revokes to what was removed.
LEMMA RevokedStep ==
  TypeOK /\ ListsOK /\ RevokedWhenRemoved /\ [Next]_vars => RevokedWhenRemoved'
<1> SUFFICES ASSUME TypeOK, ListsOK, RevokedWhenRemoved, [Next]_vars,
                    NEW e \in emitted', e.kind = "revoke"
             PROVE  IF e.item = Post THEN post'.state # "live"
                    ELSE state'[e.item] \in {"deleted", "gone"}
  BY DEF RevokedWhenRemoved
<1>1. CASE e \in emitted
  <2>1. e.item \in Comments \union {Post}
    BY <1>1 DEF TypeOK
  <2>2. QED
    BY <1>1, <2>1, RemovedForever DEF RevokedWhenRemoved, Removed
<1>2. CASE e \notin emitted
  <2>1. PICK q \in Requests : Finishes(q)
    BY <1>2, StepKinds, BeginsFields, DeletesFields DEF vars
  <2>2. e.item \in req[q].removed /\ e.item \in Comments \union {Post} /\ ListOK(q)
    BY <1>2, <2>1 DEF Finishes, CommitCreate, CommitRemove, CommitErase, CommitClose,
         CommitPurge, CommitWithdraw, Fail, Revokes, ListsOK, TypeOK, Request
  <2>3. CASE CommitRemove(q)
    <3>1. e.item = req[q].comment /\ e.item # Post /\ Markable(req[q].comment)
      BY <1>2, <2>2, <2>3 DEF CommitRemove, ListOK
    <3>2. QED
      BY <2>2, <2>3, <3>1 DEF CommitRemove, Markable, TypeOK
  <2>4. CASE CommitErase(q) \/ CommitPurge(q)
    <3>1. e.item # Post => state[e.item] = "gone" \/ e.item \in req[q].doomed
      BY <2>2, <2>4 DEF CommitErase, CommitPurge, ListOK
    <3>2. e.item = Post => CommitPurge(q)
      BY <2>2, <2>4 DEF CommitErase, ListOK
    <3>3. QED
      BY <2>2, <2>4, <3>1, <3>2 DEF CommitErase, CommitPurge, Gone, TypeOK
  <2>5. CASE CommitClose(q)
    <3>1. e.item # Post => state[e.item] # "absent"
      BY <2>2 DEF ListOK
    <3>2. QED
      BY <2>2, <2>5, <3>1 DEF CommitClose, Live, TypeOK
  <2>6. QED
    BY <1>2, <2>1, <2>3, <2>4, <2>5 DEF Finishes, CommitCreate, CommitWithdraw, Fail
<1>3. QED
  BY <1>1, <1>2

\* For any number of comments and requests, overlapping or not: points are taken
\* back only for what is removed.
THEOREM RevokedCorrect == Spec => []RevokedWhenRemoved
<1> DEFINE RInv == TypeOK /\ SubjectsOK /\ DoomedClosed /\ ListsOK /\ RevokedWhenRemoved
<1>1. Init => RInv
  <2> SUFFICES ASSUME Init
               PROVE  RInv
    OBVIOUS
  <2>1. TypeOK /\ SubjectsOK
    BY InitCount DEF CountInv
  <2>2. \A q \in Requests : /\ req[q].pc = "new"
                            /\ req[q].removed = {} /\ req[q].doomed = {}
    BY NewRequestFields DEF Init
  <2>3. emitted = {}
    BY DEF Init
  <2>4. QED
    BY <2>1, <2>2, <2>3 DEF DoomedClosed, Closed, ListsOK, ListOK, RevokedWhenRemoved
<1>2. RInv /\ [Next]_vars => RInv'
  BY TypeStep, SubjectsOKStep, DoomedClosedStep, ListsStep, RevokedStep
<1>3. RInv => RevokedWhenRemoved
  OBVIOUS
<1>4. QED
  BY <1>1, <1>2, <1>3, PTL DEF Spec

-----------------------------------------------------------------------------
(* Points of a removed comment are taken back once.                        *)

\* what a request that removes comments will give back, if nothing raced
ReadCurrent ==
  ~raced => \A q \in Requests :
    /\ req[q].pc = "removing" =>
         /\ state[req[q].comment] # "absent"
         /\ req[q].removed = {c \in {req[q].comment} : author[c] # None}
    /\ req[q].pc = "gathered" =>
         /\ req[q].comment \in Present
         /\ req[q].removed = Revocable(Thread({req[q].comment}))
    /\ req[q].pc = "erasing" =>
         req[q].removed = Revocable(req[q].doomed) /\ req[q].doomed \subseteq Present

\* The author of a comment that was written stays the same.
LEMMA AuthorKept ==
  ASSUME TypeOK, [Next]_vars, NEW c \in Comments, state[c] # "absent"
  PROVE  author'[c] = author[c] /\ state'[c] # "absent"
<1>1. CASE UNCHANGED vars
  BY <1>1 DEF vars
<1>2. ASSUME NEW q \in Requests, Begins(q) \/ Deletes(q)
      PROVE  UNCHANGED author
  BY <1>2, BeginsFields, DeletesFields
<1>3. ASSUME NEW q \in Requests, Finishes(q)
      PROVE  author'[c] = author[c]
  BY <1>3 DEF Finishes, CommitCreate, CommitRemove, CommitErase, CommitClose,
       CommitPurge, CommitWithdraw, Fail, TypeOK
<1>4. QED
  BY <1>1, <1>2, <1>3, StepKinds, RemovedForever

\* Every step keeps what a removal read as it is: a soft one read what no step
\* changes, a hard one runs alone.
LEMMA ReadStep ==
  TypeOK /\ SubjectsOK /\ Alone /\ ReadCurrent /\ [Next]_vars => ReadCurrent'
<1> SUFFICES ASSUME TypeOK, SubjectsOK, Alone, ReadCurrent, [Next]_vars, ~raced'
             PROVE  ReadCurrent'
  BY DEF ReadCurrent
<1>1. CASE UNCHANGED vars
  BY <1>1 DEF vars, ReadCurrent, Revocable, Thread, Present
<1>2. ASSUME NEW x \in Requests, ~raced, req'[x] = req[x], req[x].pc = "removing"
      PROVE  /\ state'[req[x].comment] # "absent"
             /\ req[x].removed = {c \in {req[x].comment} : author'[c] # None}
  <2>1. req[x].comment \in Comments
    BY <1>2 DEF SubjectsOK
  <2>2. /\ state[req[x].comment] # "absent"
        /\ req[x].removed = {c \in {req[x].comment} : author[c] # None}
    BY <1>2 DEF ReadCurrent
  <2>3. QED
    BY <2>1, <2>2, AuthorKept
<1>3. ASSUME NEW q \in Requests, Begins(q)
      PROVE  ReadCurrent'
  <2>1. /\ ~raced /\ DeletingRows = {} /\ SameRequests(q) /\ BegunOK(req[q], req'[q])
        /\ UNCHANGED <<state, author, parent>>
    BY <1>3, BeginsFields
  <2>2. ASSUME NEW x \in Requests \ {q}
        PROVE  req'[x] = req[x] /\ req[x].pc \notin {"gathered", "erasing"}
    BY <2>1 DEF SameRequests, DeletingRows
  <2>3. req'[q].pc = "removing" =>
          /\ state[req'[q].comment] # "absent"
          /\ req'[q].removed = {c \in {req'[q].comment} : author[c] # None}
    <3>1. SUFFICES ASSUME req'[q].pc = "removing"
                   PROVE  /\ state[req'[q].comment] # "absent"
                          /\ req'[q].removed = {c \in {req'[q].comment} : author[c] # None}
      OBVIOUS
    <3>2. req'[q].comment \in Live /\ req'[q].removed = Revocable({req'[q].comment})
      BY <2>1, <3>1 DEF BegunOK
    <3>3. QED
      BY <3>2 DEF Live, Revocable
  <2>4. /\ req'[q].pc = "gathered" =>
             /\ req'[q].comment \in Present
             /\ req'[q].removed = Revocable(Thread({req'[q].comment}))
        /\ req'[q].pc # "erasing"
    BY <2>1 DEF BegunOK
  <2>5. Revocable(Thread({req[q].comment}))' = Revocable(Thread({req'[q].comment}))
    BY <2>1 DEF Revocable, Thread, Present
  <2>6. ASSUME NEW x \in Requests
        PROVE  /\ req'[x].pc = "removing" =>
                    /\ state'[req'[x].comment] # "absent"
                    /\ req'[x].removed = {c \in {req'[x].comment} : author'[c] # None}
               /\ req'[x].pc = "gathered" =>
                    /\ req'[x].comment \in Present'
                    /\ req'[x].removed = Revocable(Thread({req[x].comment}))'
               /\ req'[x].pc # "erasing"
    <3>1. CASE x = q
      BY <2>1, <2>3, <2>4, <2>5, <3>1 DEF Present
    <3>2. CASE x # q
      BY <1>2, <2>1, <2>2, <3>2
    <3>3. QED
      BY <3>1, <3>2
  <2>7. QED
    BY <2>6 DEF ReadCurrent
<1>4. ASSUME NEW q \in Requests, Finishes(q)
      PROVE  ReadCurrent'
  <2>1. ~raced /\ SameRequests(q) /\ req'[q].pc = "over" /\ q \in InFlight
    BY <1>4, FinishesFields, CommitsInFlight
  <2>2. ASSUME NEW x \in Requests \ {q}
        PROVE  req'[x] = req[x] /\ req[x].pc \notin {"gathered", "erasing"}
    BY <2>1 DEF SameRequests, Alone, DeletingRows
  <2>3. QED
    BY <1>2, <2>1, <2>2 DEF ReadCurrent
<1>5. ASSUME NEW q \in Requests, Deletes(q)
      PROVE  ReadCurrent'
  <2>1. ~raced /\ SameRequests(q) /\ UNCHANGED <<state, author, parent>>
        /\ q \in DeletingRows
    BY <1>5, DeletesFields DEF DeletingRows
  <2>2. ASSUME NEW x \in Requests \ {q}
        PROVE  req'[x] = req[x] /\ req[x].pc \notin {"gathered", "erasing"}
    BY <2>1 DEF SameRequests, Alone, DeletingRows, InFlight
  <2>3. CASE req[q].pc = "gathered"
    <3>1. /\ req'[q].pc = "erasing" /\ req'[q].removed = req[q].removed
          /\ req'[q].doomed = Thread({req[q].comment} \intersect Present)
      BY <1>5, <2>3, DeletesFields
    <3>2. /\ req[q].removed = Revocable(Thread({req[q].comment}))
          /\ {req[q].comment} \intersect Present = {req[q].comment}
      BY <2>1, <2>3 DEF ReadCurrent
    <3>3. req'[q].removed = Revocable(req'[q].doomed) /\ req'[q].doomed \subseteq Present
      BY <3>1, <3>2, ThreadType
    <3>4. req'[q].removed = Revocable(req[q].doomed)' /\ req'[q].doomed \subseteq Present'
      BY <2>1, <3>3 DEF Revocable, Present
    <3>5. QED
      BY <1>2, <2>1, <2>2, <3>1, <3>4 DEF ReadCurrent
  <2>4. CASE req[q].pc # "gathered"
    <3>1. req'[q].pc \notin {"removing", "gathered", "erasing"}
      BY <1>5, <2>4, DeletesFields
    <3>2. QED
      BY <1>2, <2>1, <2>2, <3>1 DEF ReadCurrent
  <2>5. QED
    BY <2>3, <2>4
<1>6. QED
  BY <1>1, <1>3, <1>4, <1>5, StepKinds

IsRevoke(e, c) == e.kind = "revoke" /\ e.item = c

\* each removed comment of a member was given back, and none twice
GivenBackOnce ==
  (~raced /\ post.state = "live" /\ withdrawn = {}) =>
    \A c \in Comments :
      /\ \A e, f \in emitted : IsRevoke(e, c) /\ IsRevoke(f, c) => e = f
      /\ Removed(c) /\ author[c] # None => \E e \in emitted : IsRevoke(e, c)

\* Every step keeps it: what is given back was live until now, so it was not
\* given back before.
LEMMA GivenBackStep ==
  /\ TypeOK /\ SubjectsOK /\ ReadCurrent
  /\ RevokedWhenRemoved /\ GivenBackOnce /\ [Next]_vars
  => GivenBackOnce'
<1> SUFFICES ASSUME TypeOK, SubjectsOK, ReadCurrent, RevokedWhenRemoved,
                    GivenBackOnce, [Next]_vars,
                    ~raced', post'.state = "live", withdrawn' = {}, NEW c \in Comments
             PROVE  /\ \A e, f \in emitted' : IsRevoke(e, c) /\ IsRevoke(f, c) => e = f
                    /\ Removed(c)' /\ author'[c] # None => \E e \in emitted' : IsRevoke(e, c)
  BY DEF GivenBackOnce
<1>1. CASE UNCHANGED vars
  BY <1>1 DEF vars, GivenBackOnce, Removed
<1>2. ASSUME NEW q \in Requests, Begins(q) \/ Deletes(q)
      PROVE  ~raced /\ UNCHANGED <<state, author, post, withdrawn, emitted>>
  BY <1>2, BeginsFields, DeletesFields
<1>3. CASE \E q \in Requests : Begins(q) \/ Deletes(q)
  BY <1>2, <1>3 DEF GivenBackOnce, Removed
<1>4. ASSUME NEW q \in Requests, Finishes(q)
      PROVE  /\ \A e, f \in emitted' : IsRevoke(e, c) /\ IsRevoke(f, c) => e = f
             /\ Removed(c)' /\ author'[c] # None => \E e \in emitted' : IsRevoke(e, c)
  <2>1. ~raced /\ post.state = "live" /\ withdrawn = {}
    <3>1. ~raced /\ post.state = "live"
      BY <1>4, FinishesFields, RemovedForever
    <3>2. withdrawn \subseteq withdrawn'
      BY <1>4 DEF Finishes, CommitCreate, CommitRemove, CommitErase, CommitClose,
           CommitPurge, CommitWithdraw, Fail
    <3>3. QED
      BY <3>1, <3>2
  <2>2. /\ \A e, f \in emitted : IsRevoke(e, c) /\ IsRevoke(f, c) => e = f
        /\ Removed(c) /\ author[c] # None => \E e \in emitted : IsRevoke(e, c)
    BY <2>1 DEF GivenBackOnce
  <2>3. c # Post
    BY ConstantsAssumption DEF ConstantsAssumption
  <2>4. ~Removed(c) => \A e \in emitted : ~IsRevoke(e, c)
    BY <2>3 DEF RevokedWhenRemoved, IsRevoke, Removed
  <2>5. ASSUME NEW items, emitted' = emitted \union Revokes(q, items),
               author' = author,
               c \in items <=> ~Removed(c) /\ Removed(c)' /\ author[c] # None,
               Removed(c) => Removed(c)'
        PROVE  /\ \A e, f \in emitted' : IsRevoke(e, c) /\ IsRevoke(f, c) => e = f
               /\ Removed(c)' /\ author'[c] # None => \E e \in emitted' : IsRevoke(e, c)
    <3>1. \A e \in Revokes(q, items) :
            IsRevoke(e, c) <=> e = [kind |-> "revoke", item |-> c, by |-> q] /\ c \in items
      BY DEF Revokes, IsRevoke
    <3>2. c \in items => [kind |-> "revoke", item |-> c, by |-> q] \in Revokes(q, items)
      BY DEF Revokes
    <3>3. CASE c \in items
      BY <2>4, <2>5, <3>1, <3>2, <3>3
    <3>4. CASE c \notin items
      BY <2>2, <2>5, <3>1, <3>4
    <3>5. QED
      BY <3>3, <3>4
  <2>6. CASE \E n \in Comments : CommitCreate(q, n)
    <3>1. PICK n \in Comments : CommitCreate(q, n)
      BY <2>6
    <3>2. \A e \in emitted' : IsRevoke(e, c) => e \in emitted
      BY <3>1 DEF CommitCreate, IsRevoke
    <3>3. Removed(c)' => Removed(c) /\ author'[c] = author[c]
      BY <3>1 DEF CommitCreate, Removed, TypeOK
    <3>4. emitted \subseteq emitted'
      BY <3>1 DEF CommitCreate
    <3>5. QED
      BY <2>2, <3>2, <3>3, <3>4
  <2>7. CASE CommitRemove(q)
    <3> DEFINE d == req[q].comment
    <3>1. d \in Comments /\ req[q].removed = {x \in {d} : author[x] # None}
      BY <2>1, <2>7 DEF CommitRemove, SubjectsOK, ReadCurrent
    <3>2. CASE Markable(d)
      <4>1. /\ state' = [state EXCEPT ![d] = "deleted"] /\ author' = author
            /\ emitted' = emitted \union Revokes(q, req[q].removed)
        BY <2>7, <3>2 DEF CommitRemove
      <4>2. c \in req[q].removed <=> ~Removed(c) /\ Removed(c)' /\ author[c] # None
        BY <3>1, <3>2, <4>1 DEF Markable, Removed, TypeOK
      <4>3. Removed(c) => Removed(c)'
        BY RemovedForever
      <4>4. QED
        BY <2>5, <4>1, <4>2, <4>3
    <3>3. CASE ~Markable(d)
      BY <2>2, <2>7, <3>3 DEF CommitRemove, Removed
    <3>4. QED
      BY <3>2, <3>3
  <2>8. CASE CommitErase(q)
    <3>1. /\ state' = Gone(req[q].doomed) /\ author' = author
          /\ emitted' = emitted \union Revokes(q, req[q].removed)
          /\ req[q].removed = Revocable(req[q].doomed) /\ req[q].doomed \subseteq Present
      BY <2>1, <2>8 DEF CommitErase, ReadCurrent
    <3>2. state'[c] = IF c \in req[q].doomed THEN "gone" ELSE state[c]
      BY <3>1 DEF Gone
    <3>3. c \in req[q].removed => c \in req[q].doomed /\ state[c] = "live" /\ author[c] # None
      BY <3>1 DEF Revocable
    <3>4. c \in req[q].doomed => Removed(c) \/ state[c] \in {"live", "absent"}
      BY DEF TypeOK, Removed
    <3>5. c \in req[q].doomed => state[c] # "absent"
      BY <3>1 DEF Present
    <3>6. c \in req[q].removed <=> ~Removed(c) /\ Removed(c)' /\ author[c] # None
      BY <3>1, <3>2, <3>3, <3>4, <3>5 DEF Revocable, Removed
    <3>7. Removed(c) => Removed(c)'
      BY RemovedForever
    <3>8. QED
      BY <2>5, <3>1, <3>6, <3>7
  <2>9. CASE CommitClose(q) \/ CommitPurge(q) \/ CommitWithdraw(q)
    <3>1. CASE CommitWithdraw(q)
      BY <3>1 DEF CommitWithdraw
    <3>2. CASE CommitClose(q) \/ CommitPurge(q)
      BY <2>1, <3>2 DEF CommitClose, CommitPurge, TypeOK
    <3>3. QED
      BY <2>9, <3>1, <3>2
  <2>10. CASE Fail(q)
    BY <2>2, <2>10 DEF Fail, Removed
  <2>11. QED
    BY <1>4, <2>6, <2>7, <2>8, <2>9, <2>10 DEF Finishes
<1>5. QED
  BY <1>1, <1>3, <1>4, StepKinds

\* For any number of comments and requests: while the post is there, each removed
\* comment of a member is given back once, unless a request that deletes rows
\* overlapped another one.
THEOREM RevokedExactlyOnceCorrect == Spec => []RevokedExactlyOnce
<1> DEFINE OnceInv == Alone /\ ReadCurrent /\ GivenBackOnce
<1>1. Init => OnceInv
  <2> SUFFICES ASSUME Init
               PROVE  OnceInv
    OBVIOUS
  <2>1. Alone
    BY InitCount DEF CountInv
  <2>2. \A q \in Requests : req[q].pc = "new"
    BY NewRequestFields DEF Init
  <2>3. emitted = {} /\ \A c \in Comments : ~Removed(c)
    BY DEF Init, Removed
  <2>4. QED
    BY <2>1, <2>2, <2>3 DEF ReadCurrent, GivenBackOnce
<1>2. /\ TypeOK /\ SubjectsOK /\ RevokedWhenRemoved
      /\ OnceInv /\ [Next]_vars
      => OnceInv'
  BY AloneStep, ReadStep, GivenBackStep
<1>3. GivenBackOnce => RevokedExactlyOnce
  <2> SUFFICES ASSUME GivenBackOnce, ~raced, post.state = "live", withdrawn = {},
                      NEW c \in Comments, Removed(c), author[c] # None
               PROVE  Cardinality({e \in emitted : e.kind = "revoke" /\ e.item = c}) = 1
    BY DEF RevokedExactlyOnce, Removed
  <2>1. PICK e \in emitted : IsRevoke(e, c)
    BY DEF GivenBackOnce
  <2>2. \A f \in emitted : IsRevoke(f, c) => f = e
    BY <2>1 DEF GivenBackOnce
  <2>3. {f \in emitted : f.kind = "revoke" /\ f.item = c} = {e}
    BY <2>1, <2>2 DEF IsRevoke
  <2>4. QED
    BY <2>3, FS_Singleton
<1>4. QED
  BY <1>1, <1>2, <1>3, TypeCorrect, RevokedCorrect, PTL DEF Spec

=============================================================================
