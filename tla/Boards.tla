-------------------------------- MODULE Boards --------------------------------
(* Boards, the requests to open them, their managers, and the copy of the    *)
(* boards every server keeps (BoardsService, BoardRequestsService,           *)
(* BoardManagersService, BoardsRepository).  A call reads first and writes   *)
(* later; PostgreSQL enforces the keys.  Callers are entitled to their call. *)
EXTENDS Integers, FiniteSets

CONSTANTS Calls,     \* calls of the API, each used once
          Servers, Users, Slugs,
          None, Begun,
          Founding,  \* id of a board and of a request that exist from the start
          SubLimit   \* BOARD_SUB_MANAGER_LIMIT

ASSUME BoardsAssumption ==
    /\ SubLimit \in Nat
    /\ None # Begun /\ Founding \notin Calls /\ None \notin Users \cup Slugs \cup Calls \cup {Founding}

VARIABLES
    boards,    \* boards: id, slug, and the request each was opened for
    requests,  \* board_requests: id, who asked, slug, status and the board made of it
    managers,  \* board_managers: board, user, role
    call,      \* what each call is doing
    cache,     \* the boards each server remembers, or None
    loading,   \* the load under way on each server: None, Begun, or the boards it read
    told,      \* history: the results sent to the requester of each request
    crossed,   \* history: kinds of calls of which two were under way at once
    excused    \* history: servers that may remember old boards, see OwnWritesSeen

vars == <<boards, requests, managers, call, cache, loading, told, crossed, excused>>

Ids == Calls \cup {Founding}
new == [pc |-> "new", server |-> None, id |-> None, user |-> None, slug |-> None, rows |-> {}]
over == [new EXCEPT !.pc = "over"]

BoardIds == {b.id : b \in boards}
SlugsUsed == {b.slug : b \in boards}
Of(board, role) == {m \in managers : m.board = board /\ m.role = role}
Pending(u) == {r \in requests : r.user = u /\ r.status = "pending"}

TypeOK ==
    /\ boards \subseteq [id : Ids, slug : Slugs, request : Ids \cup {None}]
    /\ \A b, c \in boards : (b.id = c.id \/ b.slug = c.slug) => b = c
    /\ requests \subseteq [id : Ids, user : Users, slug : Slugs,
                           status : {"pending", "approved", "rejected"}, board : Ids \cup {None}]
    /\ \A r, s \in requests : r.id = s.id => r = s
    /\ \A r \in requests : r.board \in BoardIds \cup {None}
    /\ managers \subseteq [board : BoardIds, user : Users, role : {"manager", "sub_manager"}]
    /\ \A m, n \in managers : (m.board = n.board /\ m.user = n.user) => m = n
    /\ DOMAIN call = Calls
    /\ cache \in [Servers -> (SUBSET Ids) \cup {None}]
    /\ loading \in [Servers -> (SUBSET Ids) \cup {None, Begun}]

Init ==
    /\ \E slug \in Slugs, u \in Users :
         /\ boards = {[id |-> Founding, slug |-> slug, request |-> None]}
         /\ managers = {[board |-> Founding, user |-> u, role |-> "manager"]}
         /\ \E other \in Slugs \ {slug} :
              requests = {[id |-> Founding, user |-> u, slug |-> other, status |-> "pending", board |-> None]}
    /\ call = [c \in Calls |-> new]
    /\ cache = [v \in Servers |-> None] /\ loading = [v \in Servers |-> None]
    /\ told = [r \in Ids |-> {}]
    /\ crossed = {} /\ excused = {}

At(c, pc) == call[c].pc = pc
To(c, r) == call' = [call EXCEPT ![c] = r]
Done(c) == To(c, over)
Begin(c, pc, r) == At(c, "new") /\ \E v \in Servers : To(c, [r EXCEPT !.pc = pc, !.server = v])
Same == UNCHANGED <<cache, loading>>

\* the boards changed by a call on server w: other servers do not learn of it, and w
\* forgets its copy when the call gets there
Written(w) == excused' = excused \cup (Servers \ {w})

-------------------------------------------------------------------------------
(* Requests for boards: create and review.                                   *)

\* the user has no request pending, and the slug is free
BeginRequest(c, u, slug) ==
    /\ Pending(u) = {}
    /\ slug \notin SlugsUsed /\ ~\E r \in requests : r.slug = slug /\ r.status = "pending"
    /\ Begin(c, "ask", [new EXCEPT !.user = u, !.slug = slug])
    /\ UNCHANGED <<boards, requests, managers, told, excused>> /\ Same

InsertRequest(c) ==
    /\ At(c, "ask") /\ Done(c)
    /\ requests' = requests \cup {[id |-> c, user |-> call[c].user, slug |-> call[c].slug,
                                   status |-> "pending", board |-> None]}
    /\ UNCHANGED <<boards, managers, told, excused>> /\ Same

\* the request is read, and is pending
BeginReview(c, r, pc) ==
    /\ r.status = "pending"
    /\ Begin(c, pc, [new EXCEPT !.id = r.id, !.user = r.user, !.slug = r.slug])
    /\ UNCHANGED <<boards, requests, managers, told, excused>> /\ Same

\* mutant: whatever its status, the request is marked
MarkAny(id) == {r \in requests : r.id = id}
\* markRequestReviewed: only while it is pending
Markable(id) == {r \in requests : r.id = id /\ r.status = "pending"}

Marked(id, status, board) ==
    requests' = (requests \ Markable(id)) \cup {[r EXCEPT !.status = status, !.board = board] : r \in Markable(id)}

\* the event reaches the requester
Tell(id, status) == told' = [told EXCEPT ![id] = @ \cup {<<status>>}]

Reject(c) ==
    /\ At(c, "reject") /\ Done(c)
    /\ Marked(call[c].id, "rejected", None)
    /\ IF Markable(call[c].id) # {} THEN Tell(call[c].id, "rejected") ELSE UNCHANGED told
    /\ UNCHANGED <<boards, managers, excused>> /\ Same

\* the transaction of an approval: with a slug that is taken it is rolled back; otherwise
\* board and manager are stored, and the request marked if it is still pending.  When it
\* is not, the transaction commits all the same, and the call fails after it
Approve(c) ==
    LET r == call[c] IN
    /\ At(c, "approve")
    /\ IF r.slug \in SlugsUsed
       THEN Done(c) /\ UNCHANGED <<boards, requests, managers, excused>>
       ELSE /\ boards' = boards \cup {[id |-> c, slug |-> r.slug, request |-> r.id]}
            /\ managers' = managers \cup {[board |-> c, user |-> r.user, role |-> "manager"]}
            /\ Marked(r.id, "approved", c)
            /\ IF Markable(r.id) # {} THEN To(c, [r EXCEPT !.pc = "announce"]) /\ Written(r.server)
               ELSE Done(c) /\ excused' = Servers
    /\ UNCHANGED told /\ Same

\* mutant: the copy of the server is kept
KeepCopy(v) == UNCHANGED cache
\* invalidateBoardCache; a load under way goes on
Forget(v) == cache' = [cache EXCEPT ![v] = None]

Flushed(v) ==
    /\ Forget(v)
    /\ excused' = IF loading[v] # None THEN excused \cup {v} ELSE excused

\* after an approval: the server forgets its copy, and the requester is told
Announce(c) ==
    /\ At(c, "announce") /\ Done(c)
    /\ Flushed(call[c].server)
    /\ Tell(call[c].id, "approved")
    /\ UNCHANGED <<boards, requests, managers, loading>>

-------------------------------------------------------------------------------
(* Boards by an administrator: create and delete.                            *)

\* the insert: the slug was looked for before, and its key is unique
MakeBoard(c, slug) ==
    /\ slug \notin SlugsUsed
    /\ At(c, "new")
    /\ \E v \in Servers :
         /\ To(c, [new EXCEPT !.pc = "flush", !.server = v])
         /\ Written(v)
    /\ boards' = boards \cup {[id |-> c, slug |-> slug, request |-> None]}
    /\ UNCHANGED <<requests, managers, told>> /\ Same

\* deleteBoard: its managers go with it, and requests forget it
DeleteBoard(c, id) ==
    /\ id \in BoardIds
    /\ At(c, "new")
    /\ \E v \in Servers :
         /\ To(c, [new EXCEPT !.pc = "flush", !.server = v])
         /\ Written(v)
    /\ boards' = {b \in boards : b.id # id}
    /\ managers' = {m \in managers : m.board # id}
    /\ requests' = {[r EXCEPT !.board = IF @ = id THEN None ELSE @] : r \in requests}
    /\ UNCHANGED told /\ Same

Flush(c) ==
    /\ At(c, "flush") /\ Done(c)
    /\ Flushed(call[c].server)
    /\ UNCHANGED <<boards, requests, managers, told, loading>>

-------------------------------------------------------------------------------
(* Managers.                                                                 *)

BelowLimit(id) == Cardinality(Of(id, "sub_manager")) < SubLimit

\* addSubManager: the user is none of the managers, and there is room
BeginAppoint(c, id, u) ==
    /\ id \in BoardIds /\ BelowLimit(id)
    /\ ~\E m \in managers : m.board = id /\ m.user = u
    /\ Begin(c, "appoint", [new EXCEPT !.id = id, !.user = u])
    /\ UNCHANGED <<boards, requests, managers, told, excused>> /\ Same

\* mutant: no key on the board and the user
BoardGone(r) == r.id \notin BoardIds
\* the insert fails when the board is gone, or the user has become a manager
Refused(r) == r.id \notin BoardIds \/ \E m \in managers : m.board = r.id /\ m.user = r.user

Appoint(c) ==
    LET r == call[c] IN
    /\ At(c, "appoint") /\ Done(c)
    /\ managers' = IF Refused(r) THEN managers
                   ELSE managers \cup {[board |-> r.id, user |-> r.user, role |-> "sub_manager"]}
    /\ UNCHANGED <<boards, requests, told, excused>> /\ Same

\* removeSubManager: the role is read ...
BeginDismiss(c, m) ==
    /\ m.role = "sub_manager"
    /\ Begin(c, "dismiss", [new EXCEPT !.id = m.board, !.user = m.user])
    /\ UNCHANGED <<boards, requests, managers, told, excused>> /\ Same

\* ... and the row of the user deleted, whatever its role is by then
Dismiss(c) ==
    /\ At(c, "dismiss") /\ Done(c)
    /\ managers' = {m \in managers : m.board # call[c].id \/ m.user # call[c].user}
    /\ UNCHANGED <<boards, requests, told, excused>> /\ Same

\* changeManager: the transaction's first delete fixes the rows it will remove ...
BeginReplace(c, id, u) ==
    /\ id \in BoardIds
    /\ Begin(c, "replace", [new EXCEPT !.id = id, !.user = u, !.rows = Of(id, "manager")])
    /\ UNCHANGED <<boards, requests, managers, told, excused>> /\ Same

\* mutant: the manager before stays
Joins(r) == {m \in managers : m.board # r.id \/ m.user # r.user}
\* the rows it leaves: those it did not see as the manager's, and not the user's own
Leaves(r) == {m \in managers \ r.rows : m.board # r.id \/ m.user # r.user}

\* ... and its insert makes the user the manager, unless the board is gone or another
\* transaction got in its way
Replace(c) ==
    LET r == call[c] IN
    /\ At(c, "replace") /\ Done(c)
    /\ \/ /\ r.id \in BoardIds
          /\ managers' = Leaves(r) \cup {[board |-> r.id, user |-> r.user, role |-> "manager"]}
       \/ UNCHANGED managers
    /\ UNCHANGED <<boards, requests, told, excused>> /\ Same

-------------------------------------------------------------------------------
(* getBoardCache.                                                            *)

\* a reader finds no copy, and no load to join
BeginLoad(v) ==
    /\ cache[v] = None /\ loading[v] = None
    /\ loading' = [loading EXCEPT ![v] = Begun]
    /\ excused' = excused \ {v}
    /\ UNCHANGED <<boards, requests, managers, call, cache, told>>

ReadBoards(v) ==
    /\ loading[v] = Begun
    /\ loading' = [loading EXCEPT ![v] = BoardIds]
    /\ UNCHANGED <<boards, requests, managers, call, cache, told, excused>>

Install(v) ==
    /\ loading[v] \notin {None, Begun}
    /\ cache' = [cache EXCEPT ![v] = loading[v]]
    /\ loading' = [loading EXCEPT ![v] = None]
    /\ UNCHANGED <<boards, requests, managers, call, told, excused>>

\* BOARD_CACHE_TTL_MS is over
Expire(v) ==
    /\ cache[v] # None
    /\ cache' = [cache EXCEPT ![v] = None]
    /\ UNCHANGED <<boards, requests, managers, call, loading, told, excused>>

-------------------------------------------------------------------------------
RequestCall(c) ==
    \/ \E u \in Users, slug \in Slugs : BeginRequest(c, u, slug)
    \/ \E r \in requests, pc \in {"approve", "reject"} : BeginReview(c, r, pc)
    \/ InsertRequest(c) \/ Reject(c) \/ Approve(c) \/ Announce(c)

BoardCall(c) ==
    \/ \E slug \in Slugs : MakeBoard(c, slug)
    \/ \E id \in BoardIds : DeleteBoard(c, id)
    \/ Flush(c)

ManagerCall(c) ==
    \/ \E id \in BoardIds, u \in Users : BeginAppoint(c, id, u) \/ BeginReplace(c, id, u)
    \/ \E m \in managers : BeginDismiss(c, m)
    \/ Appoint(c) \/ Dismiss(c) \/ Replace(c)

Next ==
    /\ \/ \E c \in Calls : RequestCall(c) \/ BoardCall(c) \/ ManagerCall(c)
       \/ \E v \in Servers : BeginLoad(v) \/ ReadBoards(v) \/ Install(v) \/ Expire(v)
    /\ crossed' = crossed \cup
           {pc \in {"ask", "appoint", "replace"} : Cardinality({c \in Calls : call'[c].pc = pc}) > 1}

Spec == Init /\ [][Next]_vars

-------------------------------------------------------------------------------
(* Properties.                                                               *)

\* The requester of a board gets one result, and it is the one the request shows, however
\* many administrators review it at once ("두 관리자가 동시에 처리해도 한 번만").
ToldOnce ==
    \A r \in requests : told[r.id] # {} => told[r.id] = {<<r.status>>}

\* A board made for a request belongs to one that was approved.  (Violated, see the
\* README: the transaction of the slower administrator commits its board.)
BoardsApproved ==
    \A b \in boards : b.request # None => \E r \in requests : r.id = b.request /\ r.status = "approved"

\* Of each there are no more than the rules say, unless two calls that check or replace it
\* were under way at once: the sub managers of a board (addSubManager), the manager of a
\* board (changeManager), the pending requests of a user (create).
LimitsKept ==
    /\ "appoint" \in crossed \/ \A b \in boards : Cardinality(Of(b.id, "sub_manager")) <= SubLimit
    /\ "replace" \in crossed \/ \A b \in boards : Cardinality(Of(b.id, "manager")) <= 1
    /\ "ask" \in crossed \/ \A u \in Users : Cardinality(Pending(u)) <= 1

\* The server that changed the boards serves them at once, except when a load was under way
\* as it forgot its copy ("관리자가 수정하면 해당 서버는 즉시 비우고").
OwnWritesSeen ==
    \A v \in Servers :
        (cache[v] # None /\ v \notin excused /\ ~\E c \in Calls : call[c].server = v /\ call[c].pc \in {"flush", "announce"})
            => cache[v] = BoardIds

===============================================================================
