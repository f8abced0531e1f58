# Specifications of ReadyBeforeGo

TLA+ models of the server side of this community platform, the TLC configurations that
check them on small instances, and theorems that TLAPS proves for every instance. Source paths
are shortened to start at the module's name below `src/apps/api/src/modules/`.

## 1. The system

A NestJS API (`src/apps/api`), a Next.js site (`src/apps/web`) and, optionally, crawler
workers (`crawler-worker.ts`). State is in PostgreSQL (READ COMMITTED, the default),
Redis (locks, queues, chat lists, publish/subscribe) and an external file store; a process
keeps caches, event handlers and the controllers of the crawls it executes.

| Component | State | Operations | Hard behaviour | What makes it correct | Module |
|---|---|---|---|---|---|
| Crawl runs (`crawler/services/crawler-run-*.ts`, `dispatchers`, `worker`, `crawler-runner.service.ts`) | Redis keys `crawler:run:<id>`, `crawler:cancel:<id>`, `crawler:result:<id>` with expiries; the BullMQ job; `localControllers` | reserve, dispatch, claim, beat, requestCancel, release, discard; batch over all targets | several processes, crashes, stalls, redelivered jobs, lost answers, expiry against late releases | one crawl per target; a run starts once; a cancel stops the run it names, soon, and no other; no lock stays for ever | `CrawlerRuns`, `TargetRuns` |
| Crawl schedule (`crawler-runner.service.ts`, `utils/crawl-schedule.ts`, `utils/post-timing.ts`) | `crawler_targets`: active, last and next crawl; delayed starts in memory; the dates of posts | check, automatic stop, delayed start, manual crawl, switches, PATCH of the timer, deletion of posts | decisions that are stale when the delay is over, checks that break off, restarts | crawls start when they are due, spaced, and end when the target's time is over; dates go forward | `CrawlSchedule` |
| Crawl of a target (`crawler.service.ts`) | `crawler_logs`, posts, uploaded images, the baseline | baseline, pages, candidates, rewriting, storing, cleanup, deletion of what was collected with and without its rows, PATCH of the target | a gallery that moves while it is read, stops between any two steps, failures of the language model, death of the process, a deletion without a transaction, a PATCH by a row read earlier | a source post is taken up by one crawl, post, row and images agree, attempts are bounded, nothing older than the baseline | `CrawlTarget` |
| Comments, removal of posts and members (`comments`, `posts`, `users`) | rows of comments, `posts.commentCount`, events | create, remove (soft, hard), remove post, purge, delete member | overlapping transactions, reads before the transaction, rollbacks, cascades | the count follows the rows; points are taken back once, and only for what is removed | `PostComments` |
| Points (`points`) | balance per member, history | award, revoke, add, deduct, grant | event handlers run concurrently, check then insert | balance never negative nor short of the history, what was given is taken back, once | `Points`, `PointLedger` |
| Emoticon market (`emoticons`) | packs, purchases | purchase, price, forced deletion with refund | reads before the transaction, partial payment | no points appear or vanish, refunds are covered, what is sold was reviewed | `EmoticonMarket` |
| Reactions (`posts`, `comments`, `scams`) | reaction rows, stored counts, the best mark | toggle, delete member, rule on the mark | two clicks at once, a click of a member being removed, counts read and then stored | the count follows the rows, one reaction for each person | `Reactions` |
| Chat (`chat`) | Redis list, table, insert queue | send, read, delete, clear | list rewritten from rows read earlier, queued inserts, lost Redis data | a deleted message stays away; the newest are listed, once | `ChatHistory` |
| Boards (`boards`) | boards, requests, managers, the copy each server caches | request, review, create, delete, appoint, dismiss, replace, cached read | two administrators at once; a load begun before a change ends after it | a requester is told one result, limits hold, a server sees its own changes | `Boards` |
| Other caches, notifications, uploads, scam reports, reports, messages, auth, admin, countries, guides, logs, web pages, shared types | | | | | not modelled (section 14) |

How they interact: requests change rows in a transaction and then emit in-process events
(`comment.created`, `points.revoke`, `comment.deleted`, ...) that points, logs and
notifications handle asynchronously; the crawler writes posts and comments of its own;
controllers of the crawler call the control service, which reserves in Redis and hands a
command to a dispatcher, in process or through BullMQ to a worker; the runner executes it
and reports back only through Redis; the schedule of a worker plans crawls of its own.

The hazards, each at its line with the properties that watch it, are in `PROJECT.json`.

## 2. Modules

| Module | What it is |
|---|---|
| `CrawlerRuns` | the run registry with everything that drives it |
| `TargetRuns` | what the registry promises, without Redis and processes; `CrawlerRuns` implements it (`KeepsPromise`) |
| `CrawlSchedule` | when a target is crawled and what dates its posts get |
| `CrawlTarget` | what one crawl reads, stores and leaves behind |
| `PostComments` | the comments of one post, the stored count and the events |
| `Points` | a row of `user_points` and the two updates that are run on it |
| `PointLedger` | awards and revokes of posts and comments, with the rest that changes points |
| `EmoticonMarket` | packs, purchases and refunds, paid with points |
| `ChatHistory` | the recent messages in Redis, the table and the queue between them |
| `Boards` | boards, requests, managers, and the cached copy of each server |
| `Reactions` | reactions to posts, comments and scam reports, and their counts |
| `MC...` | symmetry sets and values of constants for TLC, one module for each with a run |
| `CrawlerRunsProofs` (also of `TargetRuns` and the refinement), `CrawlProofs` (`CrawlSchedule` and `CrawlTarget`), `PostCommentsProofs`, `PointLedgerProofs`, `EmoticonMarketProofs`, `ChatHistoryProofs`, `BoardsProofs`, `ReactionsProofs` | theorems |

`CrawlSchedule` and `CrawlTarget` take the promise of `TargetRuns`, one crawl of a target at a
time, as given. `PointLedger` and `EmoticonMarket` share `Points` and are otherwise apart: what
the market does to a balance is, for the ledger, `AddPoints` and `DeductPoints` at any moment.
`PostComments` says which events a removal emits, `PointLedger` what their handlers make of them.

Definitions that begin with `\* mutant:` are not part of any specification: each is a
plausible bug, and swapping it in makes TLC refute the property that guards against it.

Many properties name the situations in which the code does not keep them, by history variables
(`raced`, `late`, `crossed`, `excused`, ...). Those situations are not hidden: they are
reachable in the runs, the properties say exactly how far the damage goes, and section 12
lists them with the lines of the code.

## 3. CrawlerRuns

State. `lock`, `cancelKey` and `result` are the three Redis keys of an id (a target, or the
batch that crawls all of them) with the heartbeat intervals left until they expire; `jobs` are the
commands handed to the dispatcher; `run` is what the process that works on a run knows of it
(the step of its code, its process, its parent, whether its signal is aborted, the targets a
batch still has to visit); `controllers` is `localControllers`; `canceller` is the cancel request
a process is serving. `asked`, `dequeued`, `missed` and `claims` are history, for the properties.

Actions. One per Redis command or Lua script, with the synchronous code that follows it:
`Start`/`ScheduledStart`/`BatchStart` (SET NX PX), `Dispatch`, `DispatchFails`, `Discard`,
`ClaimJob`/`ClaimAcquired` (CLAIM_IF_QUEUED, then controller, listener, heartbeat), `SkipJob`,
`AcquireFails`, `Beat`, `CrawlEnds`, `BatchEnds`, `SaveResult`, `Unlock`, `ClearCancel`
(the three steps of release), `CancelRead` to `CancelAbort` (requestCancel and cancel).
`ReserveLost`, `ClaimLost`, `ReleaseFails` are commands that fail, or take effect while
their client is told they did not. `Tick` is one heartbeat interval; `Crash` kills a process
and everything it knew; `Redeliver` is BullMQ handing out a job again.

Merged on purpose: the two commands of a heartbeat (nothing in between can tell), and the
code between two awaits. A process serves one cancel at a time: two concurrent ones of one
process differ from two of two processes only in the local abort, which is idempotent.

| Property | Says |
|---|---|
| `HealthyHoldsLock` | a run that never missed a heartbeat owns the running lock of its id, whatever late releases, discards, cancels and expiries do |
| `ClaimedOnce` | a command delivered again starts nothing |
| `DequeuedNeverRuns` | a run cancelled in the queue never starts, though its command is still there (proved only) |
| `AbortedWasAsked` | a cancel stops the run it named and no later one of the id |
| `CancelNoticed` | a healthy run is told to stop within a heartbeat interval |
| `SingleCrawl` | no id is crawled twice at once (without stalls) |
| `ChildFollowsParent` | an aborted batch takes its target along, whenever the abort comes |
| `ControllerMatchesRun` | `localControllers` are exactly the runs that execute |
| `AbandonedLockExpires`, `AbortedRunEnds` | liveness |
| `KeepsPromise` | the refinement of `TargetRuns` |

Runs. `registry_worker`: BullMQ, one API process, one worker, two runs of one target,
crashes, stalls, failures, redelivery. `registry_batch`: inline dispatcher, a second
process with the schedule, a target and the batch, failures, no stalls.
`registry_liveness`: inline dispatcher under `FairSpec`.

Bounds. Two runs are enough for the races the code is written against: all of them are
between a run and the next run of the same id, or a batch and the target it runs. `Targets` has one
target because ids share no key, except through the batch. `RunLockTtl = 2` is the least value
that leaves room for a heartbeat before the expiry (the code has 15: 30 s and 2 s, so that
"missed no heartbeat" asks more of a process than the code needs); `QueuedTtl = 1` lets a reservation expire before its job is taken; `CancelTtl = 3` is the least
for which "a whole interval after the cancel" is before its expiry (1 in the liveness run, where
keys must run out). Every run of the model is finite in `Runs`, so no counter needs a cap. The
theorems (section 13) remove these bounds.

Fairness. `WF(Tick)`: time passes. `WF(Beat(r))`: the interval timer fires as long as the
process lives. `WF(Progress(r))`: code that awaits a command's answer, or whose signal is
aborted, goes on. Nothing is assumed of a crawl that nobody told to stop, of a queued
job being taken, or of a cancel being requested.

The specifications may stop (all run ids used, every key expired) only for want of
bounded ids; `Tick` is always enabled, so TLC still checks for deadlock.

## 4. CrawlSchedule

State. `now` is the clock, in units; `schedule` the columns of `crawler_targets` that the schedule
reads; `run` the crawl of each target that is under way; `waiting` the scheduled crawls that sleep
until their start, in the worker's memory; `tick` the check under way with the rows it read at
its start and the targets still to look at; `latest` the date of the newest post of each target that is
still on the board. `free`, `timed` and `spaced` are history: until when no check could take the target up,
when a request last set its timer, and the start planned last.

Actions. `Advance`; `BeginTick` and `CheckTarget` (runScheduledTick: rows read once, then one target
after another, busy ones left alone, the automatic stop, the next time written before the
start); `FailCheck`, the catch around the whole loop: an exception at one target ends the check for all
that are left, with or without the write it was about; `StartScheduled` (executeScheduledCrawl after its
sleep: it reads again whether the target is active, and reserves); `StartManual`. Of the controller,
`SwitchOn` (by the row the request has read, which may be out of date), `SwitchOff`, and `SetTimer`,
a PATCH of `activatedAt` and `autoStopMinutes` of a target that is on: to any date, or to none, for which
the check takes the time of creation (`ActiveSince`). `PlanPosts` and `RegisterPost` (`orderFloorMs`,
`resolvePostCreatedAt` in ordered mode), `RemovePosts`: the floor of a crawl is the latest post by a crawl
that is not deleted, so it goes back when posts are. `EndCrawl`; `Restart` of the worker, which loses what
sleeps. Random choices (the interval, the offsets) are nondeterministic in the ranges of the code.
`ScheduleInit`, `ScheduleNext` and `ScheduleSpec` are named so because `CrawlProofs` extends this module beside
`CrawlTarget`.

| Property | Says |
|---|---|
| `Punctual` | an active target is crawled when it is due, and is overdue by no more than a check after it became free, was switched on, the worker restarted or a check broke off before it |
| `StopsInTime` | the automatic stop comes at the first check after its time, or within a check after the same events or a request that set the timer |
| `Spacing` | two planned starts are at least the shortest interval apart, though rows are read before and starts happen after a check |
| `PostsInOrder` | no post is dated in the future, nor before one of its target that the board still has, whatever was deleted |

A check that fails is `free` only for the targets it did not get to: the next check that goes through finds them
all. A check that fails each time leaves targets overdue for good, and `free` says so: this is
what the code does.

Run `schedule`: one target, five units, a check every two, intervals of two to four, an automatic
stop after one or none, posts dated back by two, a request that sets the timer to a date in the future.
That is three checks, of which any may break off, and two planned starts with what comes between. `DatedApart`
has TLC look at dates only where the target is not scheduled: they depend on the clock and on crawls, which an
administrator may start at any time, and not on the schedule. Timers are punctual: the clock waits for a
check or start that is owed (`CheckOwed`, `StartOwed`); without that no statement about time could hold.
`MaxTime` bounds the clock; nothing happens at its end (`CHECK_DEADLOCK FALSE`). Targets meet only in
`Newest`, on which no property but `PostsInOrder` depends; all four are proved for any number of targets, and
without `DatedApart` (section 13).

## 5. CrawlTarget

State. A gallery is `newest[g]`, since its list is always the posts 1 to `newest[g]`, newest first;
`target` the row of the target; `board`, `logs`, `images` the posts, SUCCESS rows and image files,
each named by the candidate it came from (crawl, source post, page it was found on); `cleaning` the files
whose deletion a request left to be done after its response; `failed` counts
the FAILED rows that count; `crawl` the local variables of each crawl; `admin` what each
administrator's request has read. `touched` (posts that someone deleted or edited, or began to), `since`,
`stale` and the field `old` are history.

Actions. `Start` reads the row once; `ReadNewest`, `WriteBaseline` are captureNewPostsBaseline, which reads the
row again, then the list;
`FetchPage`, `CheckItem`, `PrepareItem` the loops over pages and entries (a page may be
unreadable, an entry filtered or its images fail); `Rewrite`, `Answer`, `Store` the loop over the
queue, oldest first, with a failure of one post (counted), of the model (not counted, ends the
crawl) and a stop at each await; `Cleanup` the finally; `Abort` a stop; `Die` the death of the
process. `GalleryPost` moves every list entry down at any time.

A PATCH is two steps, `ReadTarget` and `UpdateTarget`: by the row it read first, it decides whether the baseline is
dropped, and the automatic stop (`StopByTimer`) or another PATCH may come in between. If the row it leaves needs
a baseline, `AdminReadsRow` and `AdminWritesBaseline` take it. Switching the collection of new posts on, switching the
target on and changing its gallery all drop the baseline (`SwitchesOn`).

What was collected goes in two ways. `TakeDown` is posts.remove, purgePostBatch and deleteBoardWithPosts: the
posts go, their SUCCESS rows stay, so that no crawl takes the source up again, and the files are deleted afterwards
(`CleanFile`), as are those of a text that was replaced (`EditPost`). `DeleteLogs`, `DeleteFiles`, `DeletePosts`,
`DeleteRows` are deleteCrawlerLogs, statement after statement without a transaction; `BreakOff` ends
it at any of them.

| Property | Says |
|---|---|
| `CollectedByOneCrawl` | a source post is registered again only by the same crawl, which met it on another page |
| `PostHasRow` | a post on the board has its SUCCESS row; a row is without its post only where someone began to delete or edit that |
| `AttemptsBounded` | failures of a post stop at the limit, plus one for each further page of one crawl |
| `ImagesOfPosts` | a post has its images unless someone deleted or edited it, and every file is of a post, of the crawl at work, which deletes what it does not store, or owed to a deletion |
| `StartPointKept` | a crawl begun after the switch takes up only posts from after it, unless its baseline is older than the switch |

A baseline is older than the switch (`stale`, and `old` in what a request or crawl carries) in two cases: it was
read before the switch and written after it; or the request that switched had read a row that was on already,
because the automatic stop or another PATCH came between its read and its write, and so kept the baseline. Both
happen in the code and are named, not hidden (section 12).

Run `crawl`: two crawls, two galleries of up to three posts, two pages of two, two candidates, one attempt, one
administrator beside the automatic stop: a post that moves from the first page to the second is met twice, a limit
is reached, and a second crawl meets what the first left. The constraint `SettingsApart` has TLC look at
registering and deleting with the settings the target was created with and at most one post deleted or edited, and
at changes of the settings while nothing is registered, with one upload at most: what the two have in common is
what `Start` reads. The theorems have neither that constraint nor these bounds, and any number of administrators
(section 13). The files of a crawl whose process died stay in the storage for good; they are taken out of
`images` so that the rest can be stated. Crawls are used up (`CHECK_DEADLOCK FALSE`).

## 6. PostComments

State. `state`, `author`, `parent` are the rows of comments; `post` is the post's row;
`withdrawn` the members deleted; `req` the local variables of each request: what it read
before its transaction (`removed`, `recount`), the rows its open transaction deleted
(`doomed`), the count its UPDATE computed (`counted`); `emitted` the events. `raced` is
history: a request whose transaction deletes rows overlapped another request.

Actions. For each handler, what it reads first (`BeginRemove`: findById; `BeginErase`:
findThread; `BeginClose`: findAuthorCommentIds; `BeginPurge`: findPostsForPurge and
findCommentsForPurge; `BeginWithdraw`: the member's posts; `BeginCreate`: the post and the
parent), then its transaction. A transaction that updates rows under the conditions it
locks them with (`CommitCreate`, `CommitRemove`, `CommitClose`) is one step. A hard removal
and the removal of a member are two: the DELETE, after which the rows are locked and the
recounting UPDATE has its snapshot (`Erase`, `Withdraw`), and the commit. That is what READ
COMMITTED does: an UPDATE that waits for a row evaluates its SET on the new version of that
row, but a subquery in it keeps the snapshot of the statement's start. A purge is two steps as well: the
comments, then the post. `Fail` rolls any of them back.

| Property | Says |
|---|---|
| `CountMatches` | the stored count is the number of comments not marked, as long as no request that deletes rows overlaps another; of a marked post it is never too small |
| `RevokedWhenRemoved` | points are never taken back for something that is still there, although the list is read before the transaction; no exception |
| `RevokedExactlyOnce` | a removed comment of a member gives its points back once, however many requests mark it at once |
| `PurgeLeavesNoComment` | an erased post leaves no comment, marked or not |

Run `comments`: three comments, two members and guests, four requests, each of which may be
any handler and may overlap all others: enough for a reply of a reply, two removals of one comment
while the post is closed and a member leaves. Five requests are out of reach (minutes);
requests and comments are interchangeable (symmetry). `CHECK_DEADLOCK FALSE`: the requests
run out.

Why `~raced`. Where hard removals overlap other requests the code makes no attempt to
keep the count (section 12), two overlapping hard removals of one thread both give its points
back, and a comment written while its post is purged stays behind. The repository promises
nothing of these, so they are excluded from the properties by name rather than claimed.

## 7. PointLedger

State. `wallet` is `user_points` (the level is a function of the accumulated points; a member
without a row is one with none, which `applyPointsDelta` and `deductAvailablePoints` treat
alike); `entries` are the rows of `point_history` of an item in order, `recorded` the sum of all
available points in the rows of a member; `policy` is the active policy; `item` what became of a post or comment;
`handler` a removal or an event handler under way: where it stands, its item and the policy it
read. `lost` and `late` are history: items one of whose handlers failed or met no policy, and
items removed while their award was still to come. Posts and comments have policies of their own in the code; one that
changes at any time covers every pair.

Actions. `Create`, `BeginRemove`, `CommitRemove` are the services of posts and comments as far
as they emit `post.created`, `comment.created` and `points.revoke`. EventEmitter2 calls the
handler at once, but does not wait for it: `AwardPolicy` and `Award` are the two awaits of
awardPoints, `RevokePolicy`, `CheckHistory` and `Revoke` the three of revokePoints, and any
other handler may come in between. `Fail` is an exception or the end of the process.
`GrantByAdmin`, `AddPoints`, `DeductPoints`, `SetPolicy` are one statement or one commit each.

`Once` are the items whose removals emit one event between them: comments that a member wrote on another's
post and that are removed softly. `softDeleteComment` marks a comment once, and only the request
that marked it emits (`RevokedExactlyOnce` of `PostComments` is the same fact seen from
there). Posts are not among them, because `posts.remove` emits unconditionally, nor are comments
under their writer's own post, which the removal of the post gives back as well.

| Property | Says |
|---|---|
| `WalletCoversHistory` | a balance is never short of the available points that the history records: no two operations on one row lose an update, and a revoke that finds too little left errs in the member's favour |
| `AwardedBeforeRevoked` | points are taken back only after they were given, in every order of the handlers (proved only) |
| `CommentsRevokedOnce` | the points of an item in `Once` are taken once, whatever requests and handlers overlap |
| `TakenBack` | when all is over a removed item has had its points taken, unless a handler failed or the removal overtook the award |

Run `points`: one member (members share no row) with a post and a comment in `Once`, three handlers at
a time (two removals, and an award or a second item), two policies, one that gives more experience than points
and one that gives experience alone, being exchanged and switched off, amounts of 2 up to a balance of 2, so that a
revoke finds a spent balance. `MaxPoints` bounds grants and sales only. `CHECK_DEADLOCK FALSE`: items run out.

A policy that gives experience alone is allowed, and its rows of history show the experience
(`availablePoints || experiencePoints`), which the balance never had. A reader of the history cannot tell
them from others; `recorded` leaves them out (`AvailableIn`), and `WalletCoversHistory` is about the rest.

## 8. EmoticonMarket

State. `pack` is `emoticon_packs`, where `content` and `reviewed` stand for the images: which
version is there and which one the last approval met; `owned` counts the rows of
`user_emoticon_packs`; `wallet` is `user_points`; `spent`, `sold`, `refunded`, `clawed` are the
sums of `point_history` by purpose; `req` is what a request knows: the step, who buys what, the
price and status it read, the buyers it listed.

Actions. Everything the service reads before it writes is a step of its own: the pack
(`BeginPurchase`, `BeginUpdate`, `BeginForce`), the check of a copy (`CheckOwned`), the list of
buyers (`FindBuyers`). The writes of a transaction are one step (`Pay`, `CommitUpdate`,
`Refund`): each is an UPDATE computed from the row as it is then, or an INSERT or DELETE that
nothing later reads, and the row locks last until the commit. `deductPoints` that finds too little rolls a purchase back,
but in a forced deletion its result is not read. Two transactions that wait for each other's
balances are rolled back (`Fail`). `UpdateStatus`, `UpdatePrice`, `Remove`, `Restore` are one
statement each.

| Property | Says |
|---|---|
| `TypeOK` | types, and no balance below zero: a clawback that the author cannot pay is dropped |
| `PointsConserved` | what all members hold changes only by refunds that no author paid for; no purchase makes or destroys points, whatever overlaps it |
| `ClawbackCovered` | never more is taken from an author than was refunded |
| `ReviewedBeforeSale` | what is for sale is what an admin approved, unless the approval came while an update was under way |

Run `market`: one pack, its author and one buyer, all operations, two requests at a time,
two prices, two versions of the content, two sales: a refund has two copies, of which it may have
missed one. Every race above is between two requests about one pack; packs share nothing but balances. Prices are not negative (the
route that sets a price does not validate it, but only admins reach it). A member with points
of two packs' sales adds nothing: `Paid` and `Refund` see a balance as a number.

## 9. ChatHistory

State. `recent` is the Redis list, `table` the rows, `jobs` the BullMQ queue of inserts, `persist` the
setting, `req` what each request is doing and the entries it is about to push. The rest is history:
`sent`, what the list should hold, in order; `removed` and `gone`, messages whose deletion began or is
done; `late`, stored after that; `held`, carried by a rebuild of the list while they were
deleted; `missed`, dropped by one; `crossed`, two rebuilds at once.

Actions. One per command to Redis or statement: `Create`, `Push`, `PushTrim`, `Enqueue`,
`DirectInsert` (sendMessage); `RunJob` (ChatProcessor, with retries and lost answers);
`ReadHistory`, `FindRecent` and the backfill `Drop`, `Fill`, `Trim`; `BeginDelete`, `Keep`, the same
three, `DeleteRow` (deleteMessage, which rewrites the whole list); `ClearList`, `ClearRows`.
`Break` ends a request between two steps, `LoseList` is Redis without its data. `Without` is the
filter of a rebuild, by places instead of recursively, so that its order can be proved of.

| Property | Says |
|---|---|
| `TypeOK` | types; nothing is stored or listed that was not created |
| `DeletedStaysAway` | a deleted message comes back in two ways only: its insert was still queued, or a rebuild had read it |
| `ListedOnce` | no message is listed twice unless two rebuilds crossed |
| `NewestListed` | the newest `CacheSize` messages are listed, unless deleted, or missed by a rebuild that crossed their push or broke off |

Run `chat`: four requests of any kind, three messages, a list of two. Each hazard is between two
requests, after up to two others that set the stage. `MaxMessages` bounds messages;
persistence is switched off once. Requests are used up (`CHECK_DEADLOCK FALSE`).

## 10. Boards

State. The rows of `boards`, `requests`, `managers`; `call` what each call read; `cache` and `loading`
the copy of each server and the load its readers share. `told`, `crossed`, `excused` are history.

Actions. `BeginRequest`/`InsertRequest`, `BeginReview`/`Reject`/`Approve`/`Announce` (the transaction
of an approval and what follows it), `MakeBoard`, `DeleteBoard` and `Flush` (the cache is
invalidated after the write), `BeginAppoint`/`Appoint`, `BeginDismiss`/`Dismiss`,
`BeginReplace`/`Replace`; `BeginLoad`, `ReadBoards`, `Install`, `Expire` (getBoardCache). Unique keys
and cascades are in the actions that meet them.

| Property | Says |
|---|---|
| `TypeOK` | types, keys and references of the rows |
| `ToldOnce` | the requester of a board is told one result, and it is the one the request shows |
| `LimitsKept` | sub-managers, manager and pending requests stay within their limits unless two calls of the kind were under way at once |
| `OwnWritesSeen` | the server that changed the boards serves them at once, unless a load was in flight as it forgot its copy |
| `BoardsApproved` | a board made for a request belongs to an approved one; violated (section 12) |

Runs `boards` and `boards_review`: three calls, two servers, three users, two slugs, a board and a
request that exist from the start, so that three calls suffice for two reviews and a change.

## 11. Reactions

State. `reactions` the rows; `count` the counts stored with each target; `best` the mark of popular
posts; `call` what a click read; `leave` what the removal of a member read. `earned`, `doubled` and
`excused` are history.

Actions. `Click` (findUserReaction) and `Toggle` (the transaction; posts and comments have one
shape): a count changes only by the rows that changed. A site
administrator may set or clear the mark of a post in create and update (`SetBest`), and a click promotes a post
that reaches `Best` likes, but takes no mark away. Scam reports have no unique key and count anew, likes and then
dislikes: `Sweep`, `Count`, `CountDislikes`, `Store`, `Fail`. `ReadPosts`, `ReadComments`, `Erase` are deleteUser, which takes
the reactions it read out of the counts, and the cascade deletes those it finds.

| Property | Says |
|---|---|
| `CountsFollow` | no count is negative; counts are those of the rows; a post has the mark if and only if it had enough likes at once since an administrator last ruled on it, or he set it; except for targets in `excused` |
| `OneVoice` | one reaction for each person and target, and none of a member who left; on scam reports unless two clicks overlapped |

Run `reactions`: three clicks of a member and a guest, a post, a comment and a scam report, with or
without reactions from before, while the member is removed and the mark is set and cleared. Two clicks make every race, the third shows
what it leaves behind. The module has no separate type invariant: the two properties bound all the
state that is stored.

## 12. Where the code and its comments part

One run is a counterexample by itself:

* `boards_review` (`BoardsApproved`): an approval that finds its request already reviewed returns
  from the callback of its transaction instead of failing it, so that board and manager are
  committed, while the comment says that no board is made
  (`boards/board-requests.service.ts:75` against line 77).

The others are what the history variables of the properties except. Each was seen in a behaviour of the
model; the comments they are against are quoted by line.

* Crawl runs. `beat()` does not read whether the lock is still its own: after a stall of 30
  seconds two crawls of one target run (`crawler/services/crawler-run-registry.service.ts:190` against the
  class comment at 69; `SingleCrawl` is checked without stalls). `release()` deletes the cancel key
  of the id after it freed the lock: a successor asked to stop in between is not stopped
  (line 158 against 71; `AbortedRunEnds` and `CancelNoticed` speak of requests that arrived).
* Crawl of a target. A post met on two pages of one crawl is collected twice, since the log is asked before
  either copy is stored (`crawler/services/crawler.service.ts:186`, `428`). A baseline read before a switch
  may be written after it (line 655), and a PATCH that switches the target on keeps the old one when the
  automatic stop or another request switched it off after the PATCH had read it (`crawler/crawler.controller.ts:222`
  against 279; both are `stale`). deleteCrawlerLogs that breaks off leaves rows without posts, or posts without
  images (line 1296; `touched`).
* Crawl schedule. An exception at one target ends the check for all that come after it
  (`crawler/services/crawler-runner.service.ts:207`; `free`).
* Comments. The recount takes a snapshot that may be older than the row it is written to
  (`comments/comments.repository.ts:68` against the comment at 63; `raced`).
* Points. Two removals of one post take its points twice (`points/points.service.ts:66` against the
  comment at 58; only items in `Once` are promised). A revoke that overtakes the award finds
  nothing, and the award of a removed post stays (`late`).
* Emoticon market. The check of a copy reads without a lock and no key is unique
  (`emoticons/emoticons.service.ts:133`). A forced deletion deletes copies bought since it listed the
  buyers, without a refund (line 251 against 227), counts in the price of today, and goes on when the
  author cannot pay (the last term of `PointsConserved`). An update goes by the status it read
  before it moved the images, so that an approval in between covers what nobody reviewed (`overtaken`).
  A purchase asks for the status of a pack, not whether it was removed.
* Chat. An insert that is still queued stores a message after its deletion
  (`chat/chat.service.ts:414`; `late`). The list is deleted and rebuilt from what was read earlier (lines
  605 and 626): messages pushed meanwhile are lost from it (`missed`), deleted ones return (`held`), two
  rebuilds at once list messages twice (`crossed`).
* Boards. Two changes of manager at once leave two managers
  (`boards/board-managers.service.ts:85` against the comment at 17); the limits of sub-managers
  and of pending requests are checked before the insert (line 54; `crossed`). A load that was under way
  when the server forgot its copy puts the old boards back (`boards/boards.service.ts:54` against 18;
  `excused`). `settings/settings.service.ts:26` has the same shape.
* Reactions. `deleteReaction` does not ask for the type its row was read with: when another click of
  the member changed it meanwhile, the count of the wrong type is lowered
  (`posts/posts.repository.ts:241`, `posts/posts.service.ts:790`). A member who clicks while being removed
  leaves a count behind (`users/users.repository.ts:141`). Counts of scam reports are read and then
  stored (`scams/scams.repository.ts:476`), their rows have no unique key, and the removal of a member
  does not adjust them.

## 13. What is proved

For every set of targets, runs and processes, every expiry with
`RunLockTtl >= 2` (`ConstantsAssumption`), with or without failures and stalls:

* `CrawlerRunsProofs`: `TypeCorrect`; `InvariantCorrect`, and from it
  `HealthyHoldsLockCorrect`, `ClaimedOnceCorrect`, `DequeuedNeverRunsCorrect`, and
  `SingleCrawlCorrect` for systems where `~MayStall`; from two more invariants
  `ChildFollowsParentCorrect`, `CancelNoticedCorrect`, `ControllerMatchesRunCorrect` where `~MayStall`, and
  `AbortedWasAskedCorrect` for the BullMQ dispatcher (`~Inline`) and API processes that are no workers.
  Of the refinement of `TargetRuns`: `KeepsPromiseCorrect`, and `OneActivePerIdCorrect`, what it is worth:
  under the mapping no id has two active runs.

None of the safety properties is inductive. The invariant is
`IInv == TypeOK /\ IdOK /\ LockNamesRun /\ ClaimsOK /\ LockKept /\ NobodyMissed`:
a run that left "new" has an id; a lock names a run of its own id that left "new", and in
state queued one that was never claimed; a run is claimed only from the queued state, which no
step restores, hence once; the lock of a healthy run has all of its time left if its heartbeat ran
since the last tick and one interval less otherwise, which is why an interval must be shorter
than the lock's life; nobody misses where nobody stalls. `StepKinds` reduces the 27 actions to nine
kinds of change to lock and runs (reserve, move, end, claim, beat, tick, crash, dequeue, quiet),
and the invariant is proved kind by kind. The refinement reuses the kinds: a reservation maps to
`ReserveRun`, a claim to `BeginRun`, everything else to `EndRuns` or a stutter.

Batches and cancels need more. `FamilyInv` adds to `IInv` that a run with a parent was started by a batch of
its own process that crawls until the run is over (`ParentsOK`), that a run not begun or over is not aborted
(`EndsUnaborted`), and that a registered controller is one of an executing run (`ControllersLive`): so an
aborted batch meets its run either running, and aborts it with itself, or not yet claimed, and the claim sees
it. `CancelInv` adds that what a cancel names is `Settled`: its reservation is gone and never comes
back (`NamesOK`, for the name a cancel read and for the key it wrote), so that a claim never finds a key of
its own run from before. `CancelNoticed` is strengthened by what a heartbeat since the last tick implies
(`NoticedInTime`): it has looked at the key. `CancelKinds` reduces the actions to nine kinds of change to signals,
controllers and parents.

For every finite set of comments and every set of members and requests:

* `PostCommentsProofs`: `TypeCorrect`; `CountMatchesCorrect`; `PurgeCorrect`;
  `RevokedCorrect`; `RevokedExactlyOnceCorrect`.

`CountMatches` needs `CountInv`, the conjunction of `TypeOK`, `SubjectsOK`, `Alone`, `SnapshotCurrent` and
`CountMatches`: as long as no race is noted, a request that deletes rows is the only one in
flight (`Alone`), hence what its snapshot counted, or found not to be there, is still so
when it commits (`SnapshotCurrent`). `RevokedWhenRemoved` holds with races too, and needs
another argument: what a request read is never unwritten (`ListsOK`), rows of an open
transaction are closed under replies (`DoomedClosed`, because the foreign key keeps replies
from being added to them), so a comment that findThread saw is, when the DELETE runs, in the
thread or already deleted (`ThreadKept`). `RevokedExactlyOnce` uses both: what a removal is about to give back is
the live comments of members that it removes (`ReadCurrent`), and a live comment was not given back before
(`RevokedWhenRemoved`).

For every set of members, items, policies and handlers, and all amounts:

* `PointLedgerProofs`: `TypeCorrect` (no negative balance), `WalletCoversHistoryCorrect`,
  `AwardedBeforeRevokedCorrect`, `CommentsRevokedOnceCorrect`, `TakenBackCorrect`.

`WalletCoversHistory` is inductive over the type invariant: each step changes a balance by at least
the available points it records (`BalanceStep`), whichever of its two amounts a policy gives; nothing is assumed of
policies but that an active one gives something. The other three are not: they speak of the history, which handlers wrote
from what they read earlier. They follow from `Orderly`, proved by `OrderlyCorrect`: a
handler about to revoke has seen an award (`AwardSeen`), handlers are about items that exist and
revoking ones about removed items (`Known`, `RemovedFirst`), at most one handler revokes an item in `Once` and
none does after its row (`OneRevoker`), no award follows a removal that is not late
(`NoAwardAfter`), and points a removed item still holds are being pursued (`Pursued`).

For all finite sets of members and packs, any number of requests, and without a bound on edits:

* `EmoticonMarketProofs`: `ReviewedBeforeSaleCorrect`, `TypeCorrect` (no negative balance),
  `PointsConservedCorrect`, `ClawbackCoveredCorrect`.

The first follows from `PendingStays`: an update that found its pack pending, and so will leave the
status alone, meets one that is not approved or whose approval overtook it. The others are about sums over
members and packs, which `Total` takes in an order that `CHOOSE` picks. That a sum exists, is unique
and splits into parts (`SumExists`, `SumUnique`, `SumSplit`) is proved by least counterexample:
strict inclusion of finite sets is well-founded (a fact of the library), so a set on which a claim fails has a
least one, and taking one element out of it refutes that. From there on steps reason about
`TotalChange` and `TotalPlus` only. The invariant `BooksInv` adds to the two properties that the books are numbers
(`BooksOK`) and that a purchase under way is not the author's own (`BuyerIsNotAuthor`), without which a sale would
write one balance twice. A step is then a sale, which moves its price (`PayStep`), or a refund, which adds
to what members hold just as much as to what is unpaid.

For every number of targets, all intervals with `Tick <= MinInterval`, all offsets:

* `CrawlProofs`: `ScheduleTypeCorrect`, `PostsInOrderCorrect`, `SpacingCorrect`, `PunctualCorrect`,
  `StopsInTimeCorrect`.

`PostsInOrder` needs that the floor of a crawl, read when it planned its dates, is not behind the latest post of
its target that stands, nor past the present (`Dated`); deletions only take the former back. `Spacing`
relates a start planned now to the one planned before, of which only the written next time is left. The invariant
(`Apart`) says that the next time in the row is a shortest interval past that start, also in the copy of the row that
a check under way holds, because nothing but what empties `spaced` writes it in between. `Punctual` and
`StopsInTime` are statements about the present; inductive is what the last check left behind. `Clock`: the clock is
never more than a tick past the last check, and stands still during one. `Fresh`: a row that a check has read has the
times of its target, unless that became free since, and its timer, unless a request set it since. `Watched`: every
active target that is not crawled was left by the last check it was in because it had become free, or was not due
before the next one (`LeftAt`), and was not to be stopped, or its timer was set since (`KeptAt`). A check that breaks
off notes the targets it did not get to in `free`, so that `Watched` outlives it.

For every gallery, all sizes and limits, every set of crawls:

* `CrawlProofs`: `TypeCorrect`, `CollectedByOneCrawlCorrect`, `PostHasRowCorrect`,
  `AttemptsBoundedCorrect`, `ImagesOfPostsCorrect`, `StartPointKeptCorrect`.

The invariant is `IInv == FilesInv /\ FailuresInv /\ StartInv`. `CollectInv`, within the first, says
that at most one crawl is active (`Sole`, from the guard of `Start`, which is what `TargetRuns`
promises) and, of its local state, that candidates of one source post differ in page, that no page
still to be looked at gave a candidate, that the entries left of a page are distinct and no candidates of
that page, and that no row of another crawl is about a candidate (`CandsOK`, `PageOK`, `ItemsOK`,
`UnseenOK`). This is why a post is collected twice only from two pages. `FilesOK` and `AdminOK`: candidates
have their images, no row, and were touched by nobody, since only what is registered can be deleted; what is being
cleaned or deleted is touched; a deletion of rows has seen to their files before their posts and to their posts before
the rows, which is why one that breaks off, or crosses the deletion of a post, leaves no post without its row.
`FailuresOK`: failures so far, plus the pages on which a candidate of the post waits, stay below the
limit plus the further pages; a failure takes a candidate and so a page with it (`PagesDrop`).
`StartInv`: what the row, a request or a crawl holds of a baseline is not behind the switch unless it is noted as old
(`ReadOK`); the step that needs it is `UpdateTarget`, where each baseline that is about becomes old, or goes,
if the request switches the collection on (`SwitchCorrect`). Each step of a crawl is
proved by what it does to the local state (`QuietStep`, `EmptyStep`, `EndStep`, `FailStep`), each of the others by what
it leaves alone (`OutsideStep`, `DeletionStep`).

For every number of calls, servers, users and slugs, every limit:

* `BoardsProofs`: `TypeCorrect` (unique keys and references), `ToldOnceCorrect`, `LimitsKeptCorrect`,
  `OwnWritesSeenCorrect`.

`TypeInv` adds what each call has read and which ids are taken: a row of the database has the id of a
call that made it, and no other call makes one of that id. `ToldInv`: results sent are the status of
their request, and a call about to announce an approval has a request that is approved. `SeenInv`: the copy of a server that is
not excused, and the copy it loads, are the boards of now, unless one of its calls is about to make it forget.
`LimitsInv` says, for each limit until two calls of its kind overlapped, that one call at most stands between check
and insert, and that what it checked is still so: there is room (`AppointInv`), the managers are those it has
seen (`ReplaceInv`), nothing is pending (`AskInv`).

For every number of clicks, people and targets:

* `ReactionsProofs`: `CountsFollowCorrect`, `OneVoiceCorrect`.

Counts are cardinalities of sets of rows; `OnLess` and `OnMore` say how they change with rows that go and
come. The invariant is one for both theorems: `KeysInv` (the unique key of posts and comments, in the table and in what a
click read), `ScamInv` (without the key: who never had two clicks at once has one row, and a click
that sweeps has it in hand), `IdsInv` (a click that is not over has no row yet), `LeaveInv` (what the removal of
a member read is what the cascade will delete, but for targets clicked meanwhile), `GoneInv` (who is gone has no rows and
no click that will write any), `HeldInv` (counts read, and not outdated, are those of the table once the click
has stored its row) and `CountInv`.

For every number of requests and messages, every size of the list:

* `ChatHistoryProofs`: `TypeCorrect`, `DeletedStaysAwayCorrect`, `ListedOnceCorrect`,
  `NewestListedCorrect`.

The lemmas say what `Ascending`, `Without` and `Trimmed` return and keep (`AscendingIs`, `WithoutIs`,
`TrimmedIs`), by counting, not by induction. `FreshInv`: a message that is about to be pushed is on no list, in no table
or queue, and in no other request's hands. `RemovedInv`: what a request deletes is noted. `HeldInv` and `GoneInv`,
for `DeletedStaysAway`: an entry that a rebuild carries while it is deleted is noted as held, and after
the list was emptied for a deletion, its message is listed only if held or late. `OnceInv`, until two rebuilds have
crossed: one at most is under way, no list repeats an entry, and what a rebuild has yet to push is not
listed. `Aligned`, until then as well: the list but for missed entries, and what a rebuild will put on it, go from
newer to older in the order of `sent`, and a message on neither was removed or missed, or at least `CacheSize` were sent
after it. That last part is where order matters: an entry that `ltrim` drops has `CacheSize` listed before it,
all different and all sent later, so it is not among the newest.

Out of the provers' reach, and left to TLC: ENABLED and liveness under fairness (`AbandonedLockExpires`,
`AbortedRunEnds`), and what a recursive definition computes for every input, where no least counterexample
stands in for the induction. Every other property of a passing run is proved.

## 14. Not modelled

* Of modelled components. Schedule: a change of the interval by PATCH (the controller, lines 240 to 257), of the
  target board, and the shuffled order of posts; the deletion of a target, which ends its schedule; how posts of several targets are interleaved
  (`crawler/services/crawler.service.ts:341`). Crawl: parsing of pages, filters, prompts and texts are choices
  of an outcome; the deletion of the target or of FAILED rows, after which attempts are counted anew. Chat: connections per address, presence, the rate limit, whether chat is available, who may
  delete. Boards: edits of texts, permissions; posts of a deleted board are in `PostComments`. Reactions: scraps,
  who may see a target, the event to the author. Points: levels.
* Settings and chat settings: cached as the boards are (`OwnWritesSeen`), not modelled again.
* Notifications and realtime: one insert and one publication per event, best effort by design.
* Uploads: background moves and deletions in an external store; only best effort is promised.
* Scam reports and sightings, reports, messages, countries, guides, logs, admin: single-row edits and forms. The
  purge of expired reports reads them before it erases them (`scams/scams.service.ts:659`), so that a
  restore in between is lost; a report of one thing twice by one person at the same time is stored twice.
* Auth, guards, filters, interceptors: no state between requests.
* The web application, about two thirds of the repository's lines: pages and forms that show what the API
  answers. It is the reason why the models map onto a small share of all lines; it has no protocol of its
  own beyond reconnecting its sockets.

## 15. Assumptions

Redis executes commands and scripts one at a time and does not lose writes. Run ids are
fresh. PostgreSQL runs transactions at READ COMMITTED, row locks are held to the end of a
transaction, and a transaction that waits in a circle is rolled back. A process executes
code between two awaits without interruption. An active point policy gives experience or available points or both, none of them
negative; prices are not negative, and members are not deleted while their points are in use (the cascade takes all of
a member's rows). Who runs a transaction learns whether it was committed (in `CrawlTarget`).
BullMQ delivers a job at least once while its
worker lives and possibly again when it is taken for dead. Members and packs, where sums run over them, and comments are finitely many;
posts, comments and scam reports are rows of different tables, so no two of them are one; `None` and `Null` are none of the
values they stand in for. A chat history that is read is no longer than the list (`Limit <= CacheSize`).

## 16. Checking

`tlc -workers 2 -config <run>.cfg <module>` with the `MC` module that `PROJECT.json` names, `tlapm <module>` for
the modules with theorems.

| Run | Module | Distinct states | Shows |
|---|---|---|---|
| `registry_worker` | `MCCrawlerRuns` | 609,626 | BullMQ, one API process and one worker, two runs of a target, crashes, stalls, failing commands, redelivered jobs: who owns the lock, one claim per run, cancels that stop the run they name and no other; the refinement of `TargetRuns` |
| `registry_batch` | `MCCrawlerRuns` | 809,573 | Inline, a second process for the schedule, a target and the batch, no stalls: no id crawled twice at once, a batch takes its target along, controllers are those of the runs that execute |
| `registry_liveness` | `MCCrawlerRuns` | 162,269 | Inline, under fairness: an abandoned lock is freed, a run told to stop ends |
| `schedule` | `MCCrawlSchedule` | 1,249,230 | One target over several checks, some of which break off, crawls of any length, manual crawls, switches, a timer that requests set, restarts, posts deleted: when crawls start and what dates posts get |
| `crawl` | `MCCrawlTarget` | 822,347 | Two crawls over two galleries that grow, failing pages and posts, stops, deaths, posts deleted and edited, deletions that break off, a target that is switched by requests and the timer: what is collected, how often it fails, which rows and images remain |
| `comments` | `MCPostComments` | 64,682 | Three comments, two members and guests, four overlapping requests that may be rolled back: the stored count, points given back, rows left |
| `points` | `MCPointLedger` | 562,209 | A member with a post and a comment, three handlers at a time, a changing policy, also one that gives experience alone: balance against history, awards against revokes |
| `market` | `MCEmoticonMarket` | 931,193 | A pack, its author and a buyer, two requests at a time: no points appear or vanish but through unpaid clawbacks, what is sold was reviewed |
| `chat` | `MCChatHistory` | 1,203,120 | Four overlapping requests, queued inserts, a Redis that fails or forgets: what of the list and the table survives |
| `boards` | `MCBoards` | 242,815 | Three calls at once on two servers with copies: what requesters are told, limits, what a server shows after its own change |
| `boards_review` | `MCBoards` | 1,098 to the violation | Two reviews at once: a rejected request leaves a board (section 12) |
| `reactions` | `MCReactions` | 1,886,832 | Three clicks of a member and a guest on a post, a comment and a report, while the member is removed and an administrator sets the mark: stored counts against rows, one reaction per person |

The longest, `crawl`, `schedule`, `chat` and `reactions`, take two to four minutes with two workers. Each property has a mutant in
`PROJECT.json`, one plausible bug that TLC finds through it.
