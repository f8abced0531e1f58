----------------------------- MODULE CrawlTarget ------------------------------
(* CrawlerService.crawlTarget: one crawl target, the galleries it may read, *)
(* the posts, log rows and images it leaves, and who changes or deletes     *)
(* them.  The registry's promise (TargetRuns) is taken as given: two crawls *)
(* of the target do not overlap.  Times are in CrawlSchedule.  Who runs a   *)
(* transaction learns whether it was committed; the target itself and rows  *)
(* of status FAILED are not deleted.                                         *)
EXTENDS Integers, Sequences, SequencesExt

CONSTANTS Crawls,       \* crawls, each used once
          Admins,       \* administrators: each has one request at a time
          Galleries,
          None,
          MaxId,        \* bound: the posts of a gallery are numbered 1..MaxId as they appear
          PageSize,     \* posts on a list page of the gallery
          Pages,        \* pageMin..pageMax: the pages one crawl looks at
          CollectLimit, \* collectLimit
          MaxAttempts   \* MAX_POST_ATTEMPTS

ASSUME CrawlTargetAssumption ==
    /\ {MaxId, PageSize, Pages, CollectLimit, MaxAttempts} \subseteq Nat \ {0}
    /\ None \notin (0..MaxId) \cup Galleries

VARIABLES
    newest,     \* the galleries: posts 1..newest[g] exist in g, the newest is listed first
    target,     \* crawler_targets row: isActive, onlyNewPosts, galleryId, newPostsAfterId
    board,      \* posts stored by crawls and not deleted
    logs,       \* crawler_logs rows of status SUCCESS
    failed,     \* crawler_logs rows of status FAILED that count against a source post
    images,     \* uploaded image files, each named by the candidate it was uploaded for; the
                \* files of a crawl whose process died, and those whose deletion failed, stay in
                \* the storage and are not followed further
    cleaning,   \* files whose deletion was left to be done after the response
    crawl,      \* the local state of every crawl
    admin,      \* the request of every administrator
    touched,    \* history: posts that someone deleted or edited, or began to delete
    since,      \* history: newest post when the collection was last switched on
    stale       \* history: the baseline is older than that switch

stored == <<board, logs, failed, images, cleaning, touched>>
vars == <<newest, target, stored, crawl, admin, since, stale>>

Ids == 1..MaxId
\* a candidate, and the post, log row and image that come of it
Key == [crawl : Crawls, src : Ids, page : 1..Pages]

\* what the request has read of the row and of the gallery; the rows it deletes
idle == [pc |-> "idle", seen |-> None, gallery |-> None, value |-> None, old |-> FALSE, rows |-> {}]
\* the local state of a crawl that has found nothing
Bare(pc, oldest, page, after, gallery, old) ==
    [pc |-> pc, oldest |-> oldest, after |-> after, gallery |-> gallery, page |-> page,
     items |-> <<>>, cands |-> <<>>, saved |-> {}, aborted |-> FALSE, old |-> old]
Unused(pc) == Bare(pc, FALSE, 0, None, None, FALSE)

Active(c) == crawl[c].pc \notin {"new", "done"}
At(c, pc) == crawl[c].pc = pc
Become(c, r) == crawl' = [crawl EXCEPT ![c] = r]
Goto(c, pc) == Become(c, [crawl[c] EXCEPT !.pc = pc])
End(c) == Become(c, Unused("done"))

Local == [pc : {"new", "capture", "baseline", "list", "check", "prepare", "rewrite", "answered",
               "store", "cleanup", "done"},
          oldest : BOOLEAN, after : Ids \cup {None}, gallery : Galleries \cup {None},
          page : 0..(Pages + 1), items : Seq(Ids),
          cands : Seq(Key), saved : SUBSET Key, aborted : BOOLEAN, old : BOOLEAN]

TargetRow == [isActive : BOOLEAN, onlyNew : BOOLEAN, gallery : Galleries, baseline : Ids \cup {None}]
\* what updateTarget looks at
Settings == [isActive : BOOLEAN, onlyNew : BOOLEAN, gallery : Galleries]

Request == [pc : {"idle", "update", "capture", "write", "files", "posts", "rows"},
            seen : Settings \cup {None}, gallery : Galleries \cup {None}, value : Ids \cup {None},
            old : BOOLEAN, rows : SUBSET Key]

TypeOK ==
    /\ newest \in [Galleries -> Ids] /\ since \in Ids /\ stale \in BOOLEAN
    /\ target \in TargetRow
    /\ {board, logs, images, cleaning, touched} \subseteq SUBSET Key
    /\ failed \in [Ids -> Nat]
    /\ crawl \in [Crawls -> Local]
    /\ admin \in [Admins -> Request]

\* createTarget, which takes the baseline at once when it is needed
Init ==
    /\ newest \in [Galleries -> 1..(MaxId - 1)]
    /\ \E on, only \in BOOLEAN, g \in Galleries, a \in Admins :
         /\ target = [isActive |-> on, onlyNew |-> only, gallery |-> g, baseline |-> None]
         /\ admin = [b \in Admins |->
                       [idle EXCEPT !.pc = IF only /\ b = a THEN "capture" ELSE "idle"]]
         /\ since = newest[g]
    /\ board = {} /\ logs = {} /\ images = {} /\ cleaning = {} /\ touched = {}
    /\ failed = [i \in Ids |-> 0]
    /\ crawl = [c \in Crawls |-> Unused("new")]
    /\ stale = FALSE

-------------------------------------------------------------------------------
(* The galleries, and the target's settings.                                 *)

\* someone writes a post in a gallery: every listed post moves down by one
GalleryPost(g) ==
    /\ newest[g] < MaxId
    /\ newest' = [newest EXCEPT ![g] = @ + 1]
    /\ UNCHANGED <<target, stored, crawl, admin, since, stale>>

HasPc(a, pc) == admin[a].pc = pc
SetAdmin(a, r) == admin' = [admin EXCEPT ![a] = r]

\* a body field that is not sent leaves the row's value
Sent(x, value) == IF x = None THEN value ELSE x

\* the body switches the collection on, or to another gallery, for a target with this row
SwitchesOn(body, row) ==
    \/ body.onlyNew = TRUE /\ ~row.onlyNew
    \/ body.isActive = TRUE /\ ~row.isActive
    \/ body.gallery # None /\ body.gallery # row.gallery

\* mutant: switching the target on again keeps the old baseline
KeepBaseline(body, row) == body.onlyNew = TRUE /\ ~row.onlyNew
ResetsBaseline(body, row) == SwitchesOn(body, row)

\* updateTarget reads the row ...
ReadTarget(a) ==
    /\ HasPc(a, "idle")
    /\ SetAdmin(a, [idle EXCEPT !.pc = "update", !.seen = [isActive |-> target.isActive,
                                                          onlyNew |-> target.onlyNew,
                                                          gallery |-> target.gallery]])
    /\ UNCHANGED <<newest, target, stored, crawl, since, stale>>

\* ... and writes: by the row it has read the baseline is dropped, and if the row it
\* leaves needs one it is taken again by the same request.  What was read before a switch
\* is old after it
UpdateTarget(a, body) ==
    LET seen == admin[a].seen
        kept == IF ResetsBaseline(body, seen) THEN None ELSE target.baseline
        only == Sent(body.onlyNew, target.onlyNew)
        next == [idle EXCEPT !.pc = IF only /\ kept = None THEN "capture" ELSE "idle"]
        switched == SwitchesOn(body, target)
    IN  /\ HasPc(a, "update")
        /\ target' = [isActive |-> Sent(body.isActive, target.isActive), onlyNew |-> only,
                      gallery |-> Sent(body.gallery, target.gallery), baseline |-> kept]
        /\ admin' = [b \in Admins |->
                        IF b = a THEN next
                        ELSE [admin[b] EXCEPT !.old = @ \/ (switched /\ HasPc(b, "write"))]]
        /\ crawl' = [c \in Crawls |-> [crawl[c] EXCEPT !.old = @ \/ (switched /\ Active(c))]]
        /\ since' = IF switched THEN newest[target'.gallery] ELSE since
        /\ stale' = (kept # None /\ (stale \/ (switched /\ ~SwitchesOn(body, seen))))
        /\ UNCHANGED <<newest, stored>>

\* the schedule check switches the target off
StopByTimer ==
    /\ target.isActive
    /\ target' = [target EXCEPT !.isActive = FALSE]
    /\ UNCHANGED <<newest, stored, crawl, admin, since, stale>>

\* captureNewPostsBaseline reads the row again, and the list after that ...
AdminReadsRow(a) ==
    /\ HasPc(a, "capture")
    /\ SetAdmin(a, [idle EXCEPT !.pc = "write", !.gallery = target.gallery,
                                !.value = newest[target.gallery]])
    /\ UNCHANGED <<newest, target, stored, crawl, since, stale>>

\* ... and writes its highest number; or the list cannot be read
AdminWritesBaseline(a) ==
    /\ HasPc(a, "write")
    /\ \/ \E highest \in admin[a].value..newest[admin[a].gallery] :
              target' = [target EXCEPT !.baseline = highest]
          /\ stale' = admin[a].old
       \/ UNCHANGED <<target, stale>>
    /\ SetAdmin(a, idle)
    /\ UNCHANGED <<newest, stored, crawl, since>>

-------------------------------------------------------------------------------
(* Deletion of what was collected.                                           *)

\* posts are deleted, one, a batch or a board of them: the rows stay, and the files are
\* deleted afterwards (remove, purgePostBatch, deleteBoardWithPosts)
TakeDown(posts) ==
    /\ board' = board \ posts
    /\ cleaning' = cleaning \cup (posts \cap images)
    /\ touched' = touched \cup posts
    /\ UNCHANGED <<newest, target, logs, failed, images, crawl, admin, since, stale>>

\* a post's text is replaced by one without its images
EditPost(k) ==
    /\ cleaning' = cleaning \cup ({k} \cap images)
    /\ touched' = touched \cup {k}
    /\ UNCHANGED <<newest, target, board, logs, failed, images, crawl, admin, since, stale>>

\* cleanupOrphanImages, deletePostImages, cleanupPurgedImages: they may never get to it
CleanFile(k) ==
    /\ images' = images \ {k} /\ cleaning' = cleaning \ {k}
    /\ UNCHANGED <<newest, target, board, logs, failed, touched, crawl, admin, since, stale>>

\* deleteCrawlerLogs: the rows and their posts are read, ...
DeleteLogs(a, rows) ==
    /\ HasPc(a, "idle")
    /\ SetAdmin(a, [idle EXCEPT !.pc = "files", !.rows = rows])
    /\ touched' = touched \cup rows
    /\ UNCHANGED <<newest, target, board, logs, failed, images, cleaning, crawl, since, stale>>

Step(a, pc) == SetAdmin(a, [admin[a] EXCEPT !.pc = pc])

\* ... the image files deleted, but for those of a text that was gone already, ...
DeleteFiles(a) ==
    /\ HasPc(a, "files")
    /\ images' = images \ (admin[a].rows \ cleaning)
    /\ Step(a, "posts")
    /\ UNCHANGED <<newest, target, board, logs, failed, cleaning, touched, crawl, since, stale>>

\* ... the posts with their comments, ...
DeletePosts(a) ==
    /\ HasPc(a, "posts")
    /\ board' = board \ admin[a].rows
    /\ Step(a, "rows")
    /\ UNCHANGED <<newest, target, logs, failed, images, cleaning, touched, crawl, since, stale>>

\* ... and the log rows themselves
DeleteRows(a) ==
    /\ HasPc(a, "rows")
    /\ logs' = logs \ admin[a].rows
    /\ SetAdmin(a, idle)
    /\ UNCHANGED <<newest, target, board, failed, images, cleaning, touched, crawl, since, stale>>

\* a statement fails or the process dies: what is left stays undone
BreakOff(a) ==
    /\ admin[a].pc # "idle"
    /\ \E gone \in SUBSET IF HasPc(a, "files") THEN (admin[a].rows \cap images) \ cleaning ELSE {} :
         images' = images \ gone
    /\ SetAdmin(a, idle)
    /\ UNCHANGED <<newest, target, board, logs, failed, cleaning, touched, crawl, since, stale>>

-------------------------------------------------------------------------------
(* One crawl.                                                                *)

MayCrawl(manual) == target.isActive \/ manual

\* the target row is read once; a crawl that still needs a baseline only takes it
Start(c, manual, oldest) ==
    /\ At(c, "new") /\ \A d \in Crawls : ~Active(d)
    /\ IF ~MayCrawl(manual) THEN End(c)
       ELSE IF target.onlyNew /\ target.baseline = None THEN Become(c, Unused("capture"))
       ELSE Become(c, Bare("list", oldest, IF oldest THEN Pages ELSE 1,
                           IF target.onlyNew THEN target.baseline ELSE None, target.gallery, stale))
    /\ UNCHANGED <<newest, target, stored, admin, since, stale>>

\* captureNewPostsBaseline, called by the crawl, reads the row again ...
ReadNewest(c) ==
    /\ At(c, "capture")
    /\ Become(c, Bare("baseline", FALSE, 0, newest[target.gallery], target.gallery, FALSE))
    /\ UNCHANGED <<newest, target, stored, admin, since, stale>>

\* ... and the list after that; it writes the highest number, or the list cannot be read.
\* This crawl collects nothing
WriteBaseline(c) ==
    /\ At(c, "baseline")
    /\ \/ \E highest \in crawl[c].after..newest[crawl[c].gallery] :
              target' = [target EXCEPT !.baseline = highest]
          /\ stale' = crawl[c].old
       \/ UNCHANGED <<target, stale>>
    /\ End(c)
    /\ UNCHANGED <<newest, stored, admin, since>>

Full(c) == Len(crawl[c].cands) >= CollectLimit
\* the posts of list page p of gallery g, newest first
Listed(g, p) ==
    LET top == newest[g] - (p - 1) * PageSize
    IN  IF top < 1 THEN <<>>
        ELSE [n \in 1..(IF top < PageSize THEN top ELSE PageSize) |-> top - n + 1]

NextPage(c) == IF crawl[c].oldest THEN crawl[c].page - 1 ELSE crawl[c].page + 1

InOrder(c, items) == IF crawl[c].oldest THEN Reverse(items) ELSE items

\* the oldest candidate is registered first, whichever way they were collected
ExecutionQueue(c) == IF crawl[c].oldest THEN crawl[c].cands ELSE Reverse(crawl[c].cands)

\* fetchGalleryPostList: the next page, unless stopped, full or past the last page;
\* a page that cannot be read is empty, an exception ends the crawl
FetchPage(c) ==
    /\ At(c, "list")
    /\ IF crawl[c].aborted \/ Full(c) \/ crawl[c].page \notin 1..Pages
       THEN Become(c, [crawl[c] EXCEPT !.pc = "rewrite", !.cands = ExecutionQueue(c), !.items = <<>>])
       ELSE \/ \E items \in {InOrder(c, Listed(crawl[c].gallery, crawl[c].page)), <<>>} :
                 Become(c, [crawl[c] EXCEPT !.pc = "check", !.items = items])
            \/ Goto(c, "cleanup")
    /\ UNCHANGED <<newest, target, stored, admin, since, stale>>

\* mutant: the log of earlier crawls is not consulted
NotSeen(i) == TRUE
\* mutant: failures have no limit
Untiring(i) == \A k \in logs : k.src # i
\* no SUCCESS row, and fewer failures than the limit
Collectable(i) == /\ \A k \in logs : k.src # i
                  /\ failed[i] < MaxAttempts

\* the list is fetched again from page p
TurnTo(c, p) == Become(c, [crawl[c] EXCEPT !.pc = "list", !.page = p, !.items = <<>>])
Before(c) == crawl[c].after # None /\ Head(crawl[c].items) <= crawl[c].after

\* one list entry: stopped and full crawls leave the page; a post from before the
\* start is skipped, and ends the crawl's listing when newer posts come first
CheckItem(c) ==
    /\ At(c, "check")
    /\ IF crawl[c].items = <<>> \/ crawl[c].aborted \/ Full(c) THEN TurnTo(c, NextPage(c))
       ELSE IF Before(c) /\ ~crawl[c].oldest THEN TurnTo(c, Pages + 1)
       ELSE IF Before(c) \/ ~Collectable(Head(crawl[c].items))
       THEN Become(c, [crawl[c] EXCEPT !.items = Tail(crawl[c].items)])
       ELSE Goto(c, "prepare")
    /\ UNCHANGED <<newest, target, stored, admin, since, stale>>

\* fetchPostDetail, the filters and processImagesAndReplaceSrc: a candidate, with
\* its images uploaded, or nothing (filtered, not readable, failed)
PrepareItem(c) ==
    LET k == [crawl |-> c, src |-> Head(crawl[c].items), page |-> crawl[c].page]
        rest == [crawl[c] EXCEPT !.pc = "check", !.items = Tail(crawl[c].items)]
    IN  /\ At(c, "prepare")
        /\ \/ /\ images' = images \cup {k}
              /\ Become(c, [rest EXCEPT !.cands = Append(crawl[c].cands, k)])
           \/ Become(c, rest) /\ UNCHANGED images
        /\ UNCHANGED <<newest, target, board, logs, failed, cleaning, touched, admin, since, stale>>

Current(c) == Head(crawl[c].cands)
NextCandidate(c) == [crawl[c] EXCEPT !.pc = "rewrite", !.cands = Tail(crawl[c].cands)]

CountFailure(c) == failed' = [failed EXCEPT ![Current(c).src] = @ + 1]

\* the catch of the loop over the queue: a FAILED row, and the next candidate
PostFails(c) == CountFailure(c) /\ Become(c, NextCandidate(c))

\* the loop over the queue is left when stopped or through; otherwise the next
\* candidate is rewritten: the model answers, fails, or is unavailable, which ends
\* the crawl with a FAILED row that does not count
Rewrite(c) ==
    /\ At(c, "rewrite")
    /\ IF crawl[c].aborted \/ crawl[c].cands = <<>>
       THEN Goto(c, "cleanup") /\ UNCHANGED failed
       ELSE \/ Goto(c, "answered") /\ UNCHANGED failed
            \/ PostFails(c)
            \/ Goto(c, "cleanup") /\ UNCHANGED failed
    /\ UNCHANGED <<newest, target, board, logs, images, cleaning, touched, admin, since, stale>>

\* a stop that came while the model worked: the answer is thrown away
AfterAnswer(c) == Goto(c, IF crawl[c].aborted THEN "cleanup" ELSE "store")

Answer(c) ==
    /\ At(c, "answered") /\ AfterAnswer(c)
    /\ UNCHANGED <<newest, target, stored, admin, since, stale>>

\* mutant: the log row is written after the transaction, which may not happen
RowLater(c) == logs' \in {logs, logs \cup {Current(c)}}
RowWithPost(c) == logs' = logs \cup {Current(c)}

MarkSaved(c) == crawl[c].saved \cup {Current(c)}

\* post, comments and SUCCESS row in one transaction, or none of them; when the FAILED
\* row cannot be written either, the crawl ends
Store(c) ==
    /\ At(c, "store")
    /\ \/ /\ board' = board \cup {Current(c)}
          /\ RowWithPost(c)
          /\ Become(c, [NextCandidate(c) EXCEPT !.saved = MarkSaved(c)])
          /\ UNCHANGED failed
       \/ PostFails(c) /\ UNCHANGED <<board, logs>>
       \/ Goto(c, "cleanup") /\ UNCHANGED <<board, logs, failed>>
    /\ UNCHANGED <<newest, target, images, cleaning, touched, admin, since, stale>>

Uploads(c) == {k \in images : k.crawl = c}
\* mutant: only the candidates that were not tried are cleaned up
Untried(c) == Range(crawl[c].cands)
Unsaved(c) == Uploads(c) \ crawl[c].saved

\* the finally: uploads of candidates that did not become posts are deleted
Cleanup(c) ==
    /\ At(c, "cleanup")
    /\ images' = images \ Unsaved(c)
    /\ End(c)
    /\ UNCHANGED <<newest, target, board, logs, failed, cleaning, touched, admin, since, stale>>

\* a stop request reaches the crawl's signal
Abort(c) ==
    /\ Active(c) /\ ~crawl[c].aborted
    /\ Become(c, [crawl[c] EXCEPT !.aborted = TRUE])
    /\ UNCHANGED <<newest, target, stored, admin, since, stale>>

\* the process dies: no finally; its uploads stay in the storage for good, out of sight
Die(c) ==
    /\ Active(c)
    /\ images' = images \ Unsaved(c)
    /\ End(c)
    /\ UNCHANGED <<newest, target, board, logs, failed, cleaning, touched, admin, since, stale>>

-------------------------------------------------------------------------------
\* what a PATCH may send of the settings
Bodies == [isActive : BOOLEAN \cup {None}, onlyNew : BOOLEAN \cup {None},
           gallery : Galleries \cup {None}]

Next ==
    \/ \E g \in Galleries : GalleryPost(g)
    \/ StopByTimer
    \/ \E a \in Admins :
         \/ ReadTarget(a)
         \/ \E body \in Bodies : UpdateTarget(a, body)
         \/ AdminReadsRow(a) \/ AdminWritesBaseline(a)
         \/ \E rows \in (SUBSET logs) \ {{}} : DeleteLogs(a, rows)
         \/ DeleteFiles(a) \/ DeletePosts(a) \/ DeleteRows(a) \/ BreakOff(a)
    \/ \E posts \in (SUBSET board) \ {{}} : TakeDown(posts)
    \/ \E k \in board : EditPost(k)
    \/ \E k \in cleaning : CleanFile(k)
    \/ \E c \in Crawls :
         \/ \E manual, oldest \in BOOLEAN : Start(c, manual, oldest)
         \/ ReadNewest(c) \/ WriteBaseline(c)
         \/ FetchPage(c) \/ CheckItem(c) \/ PrepareItem(c)
         \/ Rewrite(c) \/ Answer(c) \/ Store(c) \/ Cleanup(c)
         \/ Abort(c) \/ Die(c)

Spec == Init /\ [][Next]_vars

-------------------------------------------------------------------------------
(* Properties.                                                               *)

\* A source post is registered again only by the crawl that registered it, when the
\* gallery's pages moved under it and it saw the post on two of them: SUCCESS rows
\* keep every later crawl away from it (crawlTarget, "중복 수집 여부 체크").
CollectedByOneCrawl ==
    \A k, l \in logs : (k.src = l.src /\ k # l) => (k.crawl = l.crawl /\ k.page # l.page)

\* A post that a crawl stored has its SUCCESS row as long as it exists, so that no crawl
\* takes the source up again; a row is without a post only where someone began to delete
\* the post (the transaction of crawlTarget; deleteCrawlerLogs, which may break off).
PostHasRow ==
    /\ board \subseteq logs
    /\ logs \ board \subseteq touched

\* The failures counted against a post stop at the limit; only a post seen on several
\* pages of one crawl may pass it, by one for each further page (MAX_POST_ATTEMPTS).
AttemptsBounded == \A i \in Ids : failed[i] <= MaxAttempts + Pages - 1

\* A stored post has its image files unless someone deleted or edited it; and every file is
\* of a stored post, of the crawl at work, which will delete what it does not store, or
\* its deletion is owed (the finally of crawlTarget, deleteCrawlerLogs).
ImagesOfPosts ==
    /\ board \subseteq images \cup touched
    /\ \A k \in images : k \in board \cup cleaning \/ Active(k.crawl)

\* "켠 이후 올라온 글만": a crawl begun after the collection was switched on takes up only
\* posts that appeared after that, unless its baseline is older than the switch: read
\* before and written after it, or kept by a request that had read another row.
StartPointKept ==
    \A c \in Crawls : (Active(c) /\ crawl[c].after # None /\ ~crawl[c].old) =>
        \A k \in Uploads(c) : k.src > since

===============================================================================
