----------------------------- MODULE PostComments -----------------------------
(***************************************************************************)
(* The comments of one post and the comment count that the post stores:    *)
(* comments.service.ts and its repository, the removal of posts            *)
(* (posts.service.ts: remove, bulkRemove, deleteBoardWithPosts) and of     *)
(* users (users.repository.ts: deleteUser).  Posts share no row, so one    *)
(* post is enough.                                                         *)
(*                                                                         *)
(* The database runs every transaction at READ COMMITTED.  What a request  *)
(* reads before its transaction, and each statement whose result a later   *)
(* one does not re-check, is a step of its own.  A transaction that only   *)
(* updates rows under the conditions it locks them with is one step, its   *)
(* commit.  A transaction that deletes rows keeps them locked (doomed)     *)
(* until it commits; it may be rolled back before, for a deadlock too.     *)
(***************************************************************************)
EXTENDS Integers, FiniteSets

CONSTANTS
  Comments,     \* comment ids (random UUIDs)
  Users,        \* members that write comments
  Author,       \* the member that wrote the post, or None
  Post,         \* the post, among the things points are revoked for
  Requests,     \* requests, each handled once
  None          \* a guest, a comment that is no reply

ASSUME ConstantsAssumption ==
  /\ IsFiniteSet(Comments)
  /\ Author \in Users \union {None}
  /\ None \notin Users
  /\ None \notin Comments
  /\ Post \notin Comments

VARIABLES
  state,      \* comments: absent, live, deleted (deletedAt is set), gone (no row)
  author,     \* comments.userId
  parent,     \* comments.parentId
  post,       \* posts.deletedAt and posts.commentCount
  withdrawn,  \* members whose row is deleted
  req,        \* what each request knows
  emitted,    \* comment.created and points.revoke events
  raced       \* history: a request that deletes rows overlapped another one

vars == <<state, author, parent, post, withdrawn, req, emitted, raced>>

Steps == {"new", "creating", "removing", "gathered", "erasing", "closing",
          "purging", "purged", "leaving", "left", "over"}

Request == [pc: Steps, comment: Comments \union {None}, user: Users \union {None},
            removed: SUBSET (Comments \union {Post}), doomed: SUBSET Comments,
            counted: Int, recount: BOOLEAN]
NewRequest == [pc |-> "new", comment |-> None, user |-> None, removed |-> {},
               doomed |-> {}, counted |-> 0, recount |-> FALSE]
Over == [NewRequest EXCEPT !.pc = "over"]

TypeOK ==
  /\ state \in [Comments -> {"absent", "live", "deleted", "gone"}]
  /\ author \in [Comments -> Users \union {None}]
  /\ parent \in [Comments -> Comments \union {None}]
  /\ post \in [state: {"live", "deleted", "gone"}, count: Int]
  /\ withdrawn \in SUBSET Users
  /\ req \in [Requests -> Request]
  /\ emitted \in SUBSET [kind: {"award", "revoke"},
                         item: Comments \union {Post}, by: Requests]
  /\ raced \in BOOLEAN

Init ==
  /\ state = [c \in Comments |-> "absent"]
  /\ author = [c \in Comments |-> None]
  /\ parent = [c \in Comments |-> None]
  /\ post = [state |-> "live", count |-> 0]
  /\ withdrawn = {}
  /\ req = [q \in Requests |-> NewRequest]
  /\ emitted = {}
  /\ raced = FALSE

-----------------------------------------------------------------------------
(* Helpers.                                                                *)

Live == {c \in Comments : state[c] = "live"}

\* comments that have a row
Present == {c \in Comments : state[c] \in {"live", "deleted"}}

\* rows deleted by a transaction that is still open
Doomed == UNION {req[q].doomed : q \in Requests}

\* ON DELETE CASCADE of parentId: the comments of roots and all replies below,
\* the least set of rows that holds the roots and is closed under replies
Thread(roots) ==
  {c \in Present :
     \A rows \in SUBSET Present :
       /\ roots \subseteq rows
       /\ \A reply \in Present : parent[reply] \in rows => reply \in rows
       => c \in rows}

\* mutant: comments marked before are given back once more
OfMembers(rows) == {c \in rows : author[c] # None}

\* of the rows read, those for which a member still holds points
Revocable(rows) == {c \in rows : state[c] = "live" /\ author[c] # None}

Revokes(q, items) == {[kind |-> "revoke", item |-> x, by |-> q] : x \in items}

InFlight == {q \in Requests : req[q].pc \notin {"new", "over"}}

\* requests that delete rows: super admins, withdrawals
DeletingRows ==
  {q \in Requests : req[q].pc \in {"gathered", "erasing", "purging", "purged",
                                  "leaving", "left"}}

\* a request begins; deletes: it will delete rows
Begin(q, deletes) ==
  /\ req[q].pc = "new"
  /\ raced' = (raced \/ DeletingRows # {} \/ (deletes /\ InFlight # {}))

\* UPDATE posts SET comment_count: no row, no effect
Counted(n) == IF post.state = "gone" THEN post ELSE [post EXCEPT !.count = n]

-----------------------------------------------------------------------------
(* Writing a comment.                                                      *)

\* create, before the transaction: the post and the comment replied to exist
BeginCreate(q, u, c) ==
  /\ Begin(q, FALSE)
  /\ post.state = "live"
  /\ u \notin withdrawn
  /\ c # None => state[c] = "live"
  /\ req' = [req EXCEPT ![q] = [NewRequest EXCEPT !.pc = "creating", !.user = u,
                                                  !.comment = c]]
  /\ UNCHANGED <<state, author, parent, post, withdrawn, emitted>>

\* the foreign keys of the new row: its author and its parent are there and no
\* open transaction deletes them
Insertable(u, p) ==
  /\ u # None => /\ u \notin withdrawn
                 /\ \A x \in Requests : ~(req[x].pc = "left" /\ req[x].user = u)
  /\ p # None => state[p] # "gone" /\ p \notin Doomed

\* the transaction: INSERT, then comment_count + 1; then the event
CommitCreate(q, c) ==
  /\ req[q].pc = "creating"
  /\ state[c] = "absent"
  /\ Insertable(req[q].user, req[q].comment)
  /\ state' = [state EXCEPT ![c] = "live"]
  /\ author' = [author EXCEPT ![c] = req[q].user]
  /\ parent' = [parent EXCEPT ![c] = req[q].comment]
  /\ post' = Counted(post.count + 1)
  /\ emitted' = emitted \union
       (IF req[q].user = None THEN {}
        ELSE {[kind |-> "award", item |-> c, by |-> q]})
  /\ req' = [req EXCEPT ![q] = Over]
  /\ UNCHANGED <<withdrawn, raced>>

-----------------------------------------------------------------------------
(* Removing a comment.                                                     *)

\* remove, soft, before the transaction
BeginRemove(q, c) ==
  /\ Begin(q, FALSE)
  /\ state[c] = "live"
  /\ req' = [req EXCEPT ![q] = [NewRequest EXCEPT !.pc = "removing", !.comment = c,
                                                  !.removed = Revocable({c})]]
  /\ UNCHANGED <<state, author, parent, post, withdrawn, emitted>>

\* mutant: UPDATE ... WHERE id = c, without deleted_at IS NULL
Exists(c) == state[c] # "gone"

\* UPDATE ... WHERE deleted_at IS NULL changes the row of c
Markable(c) == state[c] = "live"

\* the transaction: mark the comment and, only if that changed a row, count - 1
\* and give the points back
CommitRemove(q) ==
  LET c == req[q].comment IN
  /\ req[q].pc = "removing"
  /\ c \notin Doomed
  /\ \/ /\ Markable(c)
        /\ state' = [state EXCEPT ![c] = "deleted"]
        /\ post' = Counted(post.count - 1)
        /\ emitted' = emitted \union Revokes(q, req[q].removed)
     \/ /\ ~Markable(c)
        /\ UNCHANGED <<state, post, emitted>>
  /\ req' = [req EXCEPT ![q] = Over]
  /\ UNCHANGED <<author, parent, withdrawn, raced>>

\* remove, hard, before the transaction: findThread
BeginErase(q, c) ==
  /\ Begin(q, TRUE)
  /\ c \in Present
  /\ req' = [req EXCEPT ![q] = [NewRequest EXCEPT !.pc = "gathered", !.comment = c,
                                  !.removed = Revocable(Thread({c}))]]
  /\ UNCHANGED <<state, author, parent, post, withdrawn, emitted>>

\* DELETE; then the UPDATE of the post takes its snapshot and waits for the row
Erase(q) ==
  LET rows == Thread({req[q].comment} \intersect Present) IN
  /\ req[q].pc = "gathered"
  /\ rows \intersect Doomed = {}
  /\ req' = [req EXCEPT ![q].pc = "erasing", ![q].doomed = rows,
                        ![q].counted = Cardinality(Live \ rows)]
  /\ UNCHANGED <<state, author, parent, post, withdrawn, emitted, raced>>

\* rows of an open transaction are deleted
Gone(rows) == [c \in Comments |-> IF c \in rows THEN "gone" ELSE state[c]]

\* the post's row is free: the count of the snapshot is stored, whatever was
\* committed since; the points of all rows that findThread saw are given back
CommitErase(q) ==
  /\ req[q].pc = "erasing"
  /\ state' = Gone(req[q].doomed)
  /\ post' = Counted(req[q].counted)
  /\ emitted' = emitted \union Revokes(q, req[q].removed)
  /\ req' = [req EXCEPT ![q] = Over]
  /\ UNCHANGED <<author, parent, withdrawn, raced>>

-----------------------------------------------------------------------------
(* Removing the post.                                                      *)

\* what a removal of the post gives back: the post's points, and those of the
\* author's own comments on it
OwnItems ==
  IF Author = None THEN {}
  ELSE {Post} \union {c \in Live : author[c] = Author}

\* posts remove, before the transaction
BeginClose(q) ==
  /\ Begin(q, FALSE)
  /\ post.state = "live"
  /\ req' = [req EXCEPT ![q] = [NewRequest EXCEPT !.pc = "closing",
                                                  !.removed = OwnItems]]
  /\ UNCHANGED <<state, author, parent, post, withdrawn, emitted>>

\* mutant: the comments stay when the post is marked
CommitCloseAlone(q) ==
  /\ req[q].pc = "closing"
  /\ post' = [post EXCEPT !.state = IF @ = "gone" THEN @ ELSE "deleted"]
  /\ emitted' = emitted \union Revokes(q, req[q].removed)
  /\ req' = [req EXCEPT ![q] = Over]
  /\ UNCHANGED <<state, author, parent, withdrawn, raced>>

\* the transaction: the post is marked, whether or not it was, then its comments
CommitClose(q) ==
  /\ req[q].pc = "closing"
  /\ Live \intersect Doomed = {}
  /\ post' = [post EXCEPT !.state = IF @ = "gone" THEN @ ELSE "deleted"]
  /\ state' = [c \in Comments |-> IF c \in Live THEN "deleted" ELSE state[c]]
  /\ emitted' = emitted \union Revokes(q, req[q].removed)
  /\ req' = [req EXCEPT ![q] = Over]
  /\ UNCHANGED <<author, parent, withdrawn, raced>>

\* purgePostBatch reads the post and its comments; deleteBoardWithPosts gives
\* nothing back
BeginPurge(q) ==
  /\ Begin(q, TRUE)
  /\ post.state # "gone"
  /\ \E items \in {OwnItems, {}} :
       req' = [req EXCEPT ![q] = [NewRequest EXCEPT !.pc = "purging",
                                                    !.removed = items]]
  /\ UNCHANGED <<state, author, parent, post, withdrawn, emitted>>

\* mutant: the purge deletes the comments that are not marked
LiveRows == Live

\* DELETE of the post's comments, marked or not
AllRows == Present

Purge(q) ==
  /\ req[q].pc = "purging"
  /\ AllRows \intersect Doomed = {}
  /\ req' = [req EXCEPT ![q].pc = "purged", ![q].doomed = Thread(AllRows)]
  /\ UNCHANGED <<state, author, parent, post, withdrawn, emitted, raced>>

\* DELETE of the post
CommitPurge(q) ==
  /\ req[q].pc = "purged"
  /\ state' = Gone(req[q].doomed)
  /\ post' = [post EXCEPT !.state = "gone"]
  /\ emitted' = emitted \union Revokes(q, req[q].removed)
  /\ req' = [req EXCEPT ![q] = Over]
  /\ UNCHANGED <<author, parent, withdrawn, raced>>

-----------------------------------------------------------------------------
(* Removing a member.                                                      *)

\* deleteUser: is there a comment of u's on the post, whose count must follow?
BeginWithdraw(q, u) ==
  /\ Begin(q, TRUE)
  /\ u \notin withdrawn
  /\ req' = [req EXCEPT ![q] = [NewRequest EXCEPT !.pc = "leaving", !.user = u,
               !.recount = \E c \in Present : author[c] = u]]
  /\ UNCHANGED <<state, author, parent, post, withdrawn, emitted>>

\* DELETE of the member, with the comments (and their replies) the foreign keys
\* take along; then the UPDATE of the post takes its snapshot
Withdraw(q) ==
  LET u == req[q].user
      rows == Thread({c \in Present : author[c] = u}) IN
  /\ req[q].pc = "leaving"
  /\ Insertable(u, None)
  /\ rows \intersect Doomed = {}
  /\ req' = [req EXCEPT ![q].pc = "left", ![q].doomed = rows,
                        ![q].counted = Cardinality(Live \ rows)]
  /\ UNCHANGED <<state, author, parent, post, withdrawn, emitted, raced>>

\* the member's own post goes too, but not the comments of others on it
CommitWithdraw(q) ==
  /\ req[q].pc = "left"
  /\ state' = Gone(req[q].doomed)
  /\ withdrawn' = withdrawn \union {req[q].user}
  /\ post' = IF req[q].user = Author THEN [post EXCEPT !.state = "gone"]
             ELSE IF req[q].recount THEN Counted(req[q].counted)
             ELSE post
  /\ req' = [req EXCEPT ![q] = Over]
  /\ UNCHANGED <<author, parent, emitted, raced>>

\* a check fails, a constraint is violated, the database rolls a transaction back
Fail(q) ==
  /\ q \in InFlight
  /\ req' = [req EXCEPT ![q] = Over]
  /\ UNCHANGED <<state, author, parent, post, withdrawn, emitted, raced>>

-----------------------------------------------------------------------------
CommentRequest(q) ==
  \/ \E u \in Users \union {None}, c \in Comments \union {None} : BeginCreate(q, u, c)
  \/ \E c \in Comments : CommitCreate(q, c) \/ BeginRemove(q, c) \/ BeginErase(q, c)
  \/ CommitRemove(q)
  \/ Erase(q)
  \/ CommitErase(q)

PostRequest(q) ==
  \/ BeginClose(q)
  \/ CommitClose(q)
  \/ BeginPurge(q)
  \/ Purge(q)
  \/ CommitPurge(q)

UserRequest(q) ==
  \/ \E u \in Users : BeginWithdraw(q, u)
  \/ Withdraw(q)
  \/ CommitWithdraw(q)

Next ==
  \E q \in Requests :
    CommentRequest(q) \/ PostRequest(q) \/ UserRequest(q) \/ Fail(q)

Spec == Init /\ [][Next]_vars

-----------------------------------------------------------------------------
(* Safety.                                                                 *)

\* The comment count that a post stores is the number of its comments that are
\* not marked deleted; a marked post keeps its count, which then never is too
\* small.  (comment_count + 1, - 1 only if a row changed, recount.)  Requests
\* may overlap at will as long as none of them deletes rows.
CountMatches ==
  ~raced => /\ post.state = "live" => post.count = Cardinality(Live)
            /\ post.state = "deleted" => post.count >= Cardinality(Live)

\* Points are never taken back for a comment, or a post, that is still there:
\* the event is emitted for what a committed transaction removed, although the
\* list was read before the transaction began.
RevokedWhenRemoved ==
  \A e \in emitted :
    e.kind = "revoke" =>
      IF e.item = Post THEN post.state # "live"
      ELSE state[e.item] \in {"deleted", "gone"}

\* While the post is there, every removed comment of a member, replies included,
\* gives back its points, once, however many requests mark it at the same time.
RevokedExactlyOnce ==
  (~raced /\ post.state = "live" /\ withdrawn = {} /\ InFlight = {}) =>
    \A c \in Comments :
      (state[c] \in {"deleted", "gone"} /\ author[c] # None) =>
        Cardinality({e \in emitted : e.kind = "revoke" /\ e.item = c}) = 1

\* A post that a super admin erased leaves no comment behind, marked or not.
PurgeLeavesNoComment ==
  (~raced /\ post.state = "gone" /\ Author \notin withdrawn) => Present = {}

=============================================================================
