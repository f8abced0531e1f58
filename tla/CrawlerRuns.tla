------------------------------ MODULE CrawlerRuns ------------------------------
(***************************************************************************)
(* The run registry of the crawler (crawler-run-registry.service.ts) with  *)
(* the parts that drive it: the control side in the API processes          *)
(* (crawler-run-control.service.ts), the dispatchers, the queue processor  *)
(* and the runner (crawler-runner.service.ts).                             *)
(*                                                                         *)
(* Every Redis command, and every Lua script, is one atomic step.  Code    *)
(* between two awaits is executed by one Node process without interruption *)
(* and belongs to the step that precedes it.  The two commands of one      *)
(* heartbeat are one step: nothing another process does between them makes *)
(* a difference that doing it before or after both does not make.  Time is *)
(* a tick per heartbeat interval; every key with an expiry carries the     *)
(* ticks it has left.                                                      *)
(***************************************************************************)
EXTENDS Naturals, FiniteSets

CONSTANTS
  Targets,     \* crawler targets
  BatchIds,    \* {BATCH_RUN_ID}, the id of the run that crawls every target, or {}
  Runs,        \* run ids (random UUIDs: every reservation takes a fresh one)
  None,        \* no run, no process
  Apis,        \* processes that serve requests
  Workers,     \* processes that execute runs
  Inline,      \* TRUE: inline dispatcher, FALSE: BullMQ dispatcher
  MayFail,     \* TRUE: a command to Redis or to the queue may fail
  MayStall,    \* TRUE: a heartbeat may be missed (event loop or Redis too slow)
  RunLockTtl,  \* RUN_LOCK_TTL_MS in heartbeat intervals
  QueuedTtl,   \* QUEUED_TTL_MS in heartbeat intervals
  CancelTtl    \* CANCEL_TTL_SECONDS in heartbeat intervals

Procs == Apis \union Workers
Ids == Targets \union BatchIds

ASSUME ConstantsAssumption ==
  /\ BatchIds \intersect Targets = {}
  /\ None \notin Runs
  /\ None \notin Procs
  /\ None \notin Ids
  /\ Inline \in BOOLEAN
  /\ MayFail \in BOOLEAN
  /\ MayStall \in BOOLEAN
  /\ RunLockTtl \in Nat /\ RunLockTtl >= 2   \* a heartbeat comes well before the expiry
  /\ QueuedTtl \in Nat /\ QueuedTtl >= 1
  /\ CancelTtl \in Nat /\ CancelTtl >= 1

VARIABLES
  lock,         \* crawler:run:<id>     RunMeta and the time it has left
  cancelKey,    \* crawler:cancel:<id>  the run to stop and the time it has left
  result,       \* crawler:result:<id>  the run whose result is the last one saved
  jobs,         \* commands handed to the dispatcher and not yet taken
  run,          \* what the process that works on a run knows of it
  controllers,  \* localControllers of each process
  canceller,    \* the requestCancel in progress in each process
  beaten        \* runs whose heartbeat ran since the last tick

vars == <<lock, cancelKey, result, jobs, run, controllers, canceller, beaten>>

Steps == {"new", "reserved", "discarding", "dispatched", "acquiring",
          "crawling", "saving", "unlocking", "clearing", "over"}

NoLock == [run |-> None, state |-> "none", ttl |-> 0]
Lock == {NoLock} \union
        [run: Runs, state: {"queued", "running"}, ttl: Nat \ {0}]
NoCancel == [run |-> None, ttl |-> 0]
Idle == [step |-> "idle", id |-> None, run |-> None]

RunState == [pc: Steps, id: Ids \union {None}, proc: Procs \union {None},
             parent: Runs \union {None}, commanded: BOOLEAN, aborted: BOOLEAN,
             missed: BOOLEAN, asked: BOOLEAN, dequeued: BOOLEAN,
             failed: BOOLEAN, claims: Nat, todo: SUBSET Targets]
NewRun == [pc |-> "new", id |-> None, proc |-> None, parent |-> None,
           commanded |-> FALSE, aborted |-> FALSE, missed |-> FALSE,
           asked |-> FALSE, dequeued |-> FALSE, failed |-> FALSE, claims |-> 0,
           todo |-> {}]

TypeOK ==
  /\ lock \in [Ids -> Lock]
  /\ cancelKey \in [Ids -> {NoCancel} \union [run: Runs, ttl: Nat \ {0}]]
  /\ result \in [Ids -> Runs \union {None}]
  /\ jobs \in SUBSET Runs
  /\ run \in [Runs -> RunState]
  /\ controllers \in [Procs -> [Ids -> Runs \union {None}]]
  /\ canceller \in [Procs -> {Idle} \union
       [step: {"delete", "set", "abort", "save"}, id: Ids, run: Runs]]
  /\ beaten \in SUBSET Runs

Init ==
  /\ lock = [i \in Ids |-> NoLock]
  /\ cancelKey = [i \in Ids |-> NoCancel]
  /\ result = [i \in Ids |-> None]
  /\ jobs = {}
  /\ run = [r \in Runs |-> NewRun]
  /\ controllers = [p \in Procs |-> [i \in Ids |-> None]]
  /\ canceller = [p \in Procs |-> Idle]
  /\ beaten = {}

-----------------------------------------------------------------------------
(* Helpers.                                                                *)

\* the heartbeat of r is armed: from claim until release clears the interval
Running(r) == run[r].pc \in {"crawling", "saving"}

\* r runs and has not missed a heartbeat since its claim
Healthy(r) == Running(r) /\ ~run[r].missed

\* nothing of a run that ended stays in its process
Ended(r) ==
  [NewRun EXCEPT !.pc = "over", !.id = run[r].id, !.parent = run[r].parent,
                 !.failed = run[r].failed, !.claims = run[r].claims]

Children(b) == {c \in Runs : run[c].parent = b}

QueuedLock(r) == [run |-> r, state |-> "queued", ttl |-> QueuedTtl]

RunningLock(r) == [run |-> r, state |-> "running", ttl |-> RunLockTtl]

\* mutant: release deletes the lock whoever holds it
DeleteAnyOwner(r) ==
  lock' = [lock EXCEPT ![run[r].id] = NoLock]

\* DELETE_IF_OWNER with no state: the id's lock, if it is r's
DeleteIfOwner(r) ==
  lock' = IF lock[run[r].id].run = r
          THEN [lock EXCEPT ![run[r].id] = NoLock]
          ELSE lock

\* mutant: the state argument of DELETE_IF_OWNER and CLAIM_IF_QUEUED is ignored
OwnedAnyState(i, r) == lock[i].run = r

\* meta.runId = runId and meta.state = 'queued'
OwnedQueued(i, r) == lock[i].run = r /\ lock[i].state = "queued"

\* mutant: claim registers no listener for the parent's abort
AbortAlone(r) ==
  [run EXCEPT ![r].aborted = TRUE]

\* AbortController.abort: the run and, through the abort listener that claim
\* registers and release removes, the runs it is the parent of
Abort(r) ==
  [x \in Runs |->
     IF x = r \/ (run[x].parent = r /\ Running(x))
     THEN [run[x] EXCEPT !.aborted = TRUE]
     ELSE run[x]]

-----------------------------------------------------------------------------
(* Reserving and dispatching.                                              *)

\* reserve: SET NX PX of a queued RunMeta under a fresh run id
Reserve(r, i) ==
  /\ run[r].pc = "new"
  /\ lock[i] = NoLock
  /\ lock' = [lock EXCEPT ![i] = QueuedLock(r)]

\* the client's command failed, or was sent twice over a new connection and the
\* second was refused: the reservation is there and nobody works for it
ReserveLost(r, i) ==
  /\ MayFail
  /\ Reserve(r, i)
  /\ run' = [run EXCEPT ![r] = [NewRun EXCEPT !.pc = "over", !.id = i]]
  /\ UNCHANGED <<cancelKey, result, jobs, controllers, canceller, beaten>>

\* startTarget, startBatch: a request reserves the run it will dispatch
Start(p, r, i) ==
  /\ p \in Apis
  /\ Reserve(r, i)
  /\ run' = [run EXCEPT ![r] = [NewRun EXCEPT !.pc = "reserved", !.id = i,
                                              !.proc = p, !.commanded = TRUE]]
  /\ UNCHANGED <<cancelKey, result, jobs, controllers, canceller, beaten>>

\* dispatch: queue.add, or runner.execute called without an await
Dispatch(r) ==
  /\ run[r].pc = "reserved"
  /\ jobs' = jobs \union {r}
  /\ run' = [run EXCEPT ![r].pc = "dispatched"]
  /\ UNCHANGED <<lock, cancelKey, result, controllers, canceller, beaten>>

\* queue.add fails; the command may have reached the queue all the same
DispatchFails(r) ==
  /\ MayFail
  /\ ~Inline
  /\ run[r].pc = "reserved"
  /\ jobs' \in {jobs, jobs \union {r}}
  /\ run' = [run EXCEPT ![r].pc = "discarding"]
  /\ UNCHANGED <<lock, cancelKey, result, controllers, canceller, beaten>>

Discard(r) ==
  /\ run[r].pc = "discarding"
  /\ lock' = IF OwnedQueued(run[r].id, r)
             THEN [lock EXCEPT ![run[r].id] = NoLock]
             ELSE lock
  /\ run' = [run EXCEPT ![r] = Ended(r)]
  /\ UNCHANGED <<cancelKey, result, jobs, controllers, canceller, beaten>>

\* runScheduledTick -> runTarget -> acquire: the worker reserves for itself
ScheduledStart(p, r, t) ==
  /\ p \in Workers
  /\ Reserve(r, t)
  /\ run' = [run EXCEPT ![r] = [NewRun EXCEPT !.pc = "acquiring", !.id = t,
                                              !.proc = p]]
  /\ UNCHANGED <<cancelKey, result, jobs, controllers, canceller, beaten>>

\* crawlAllActiveTargets is between two targets and its signal is not aborted
BatchLoops(b, t) ==
  /\ run[b].pc = "crawling"
  /\ run[b].id \in BatchIds
  /\ ~run[b].aborted
  /\ t \in run[b].todo
  /\ \A c \in Children(b) : run[c].pc = "over" /\ ~run[c].failed

\* the loop reaches target t and reserves its run
BatchStart(b, r, t) ==
  /\ BatchLoops(b, t)
  /\ Reserve(r, t)
  /\ run' = [run EXCEPT ![r] = [NewRun EXCEPT !.pc = "acquiring", !.id = t,
                                              !.proc = run[b].proc, !.parent = b],
                        ![b].todo = @ \ {t}]
  /\ UNCHANGED <<cancelKey, result, jobs, controllers, canceller, beaten>>

\* the loop reaches target t, which is being crawled already
BatchSkip(b, t) ==
  /\ BatchLoops(b, t)
  /\ lock[t] # NoLock
  /\ run' = [run EXCEPT ![b].todo = @ \ {t}]
  /\ UNCHANGED <<lock, cancelKey, result, jobs, controllers, canceller, beaten>>

-----------------------------------------------------------------------------
(* Executing.                                                              *)

\* parentSignal?.aborted
ParentAborted(r) == run[r].parent # None /\ run[run[r].parent].aborted

\* CLAIM_IF_QUEUED
Claimable(r) == OwnedQueued(run[r].id, r)

\* claim succeeds in process p
Claim(p, r) ==
  /\ Claimable(r)
  /\ lock' = [lock EXCEPT ![run[r].id] = RunningLock(r)]
  /\ \E todo \in IF run[r].id \in BatchIds THEN SUBSET Targets ELSE {{}} :
       run' = [run EXCEPT ![r] = [run[r] EXCEPT !.pc = "crawling", !.proc = p,
                                          !.aborted = ParentAborted(r),
                                          !.claims = @ + 1, !.todo = todo]]
  /\ controllers' = [controllers EXCEPT ![p][run[r].id] = r]
  /\ beaten' = beaten \union {r}

\* the processor, or the inline dispatcher, may take the command of r in p
Delivered(p, r) ==
  /\ r \in jobs
  /\ IF Inline THEN p = run[r].proc ELSE p \in Workers

ClaimJob(p, r) ==
  /\ Delivered(p, r)
  /\ Claim(p, r)
  /\ jobs' = jobs \ {r}
  /\ UNCHANGED <<cancelKey, result, canceller>>

\* execute returns early (cancelled while queued, expired, or delivered twice),
\* or throws because the claim failed
SkipJob(p, r) ==
  /\ Delivered(p, r)
  /\ ~Claimable(r) \/ MayFail
  /\ jobs' = jobs \ {r}
  /\ run' = IF run[r].pc = "dispatched" THEN [run EXCEPT ![r] = Ended(r)] ELSE run
  /\ UNCHANGED <<lock, cancelKey, result, controllers, canceller, beaten>>

\* the second half of acquire
ClaimAcquired(r) ==
  /\ run[r].pc = "acquiring"
  /\ Claim(run[r].proc, r)
  /\ UNCHANGED <<cancelKey, result, jobs, canceller>>

\* acquire returns null (the reservation was cancelled or has expired) or throws
AcquireFails(r) ==
  /\ run[r].pc = "acquiring"
  /\ ~Claimable(r) \/ MayFail
  /\ run' = [run EXCEPT ![r] = Ended(r)]
  /\ UNCHANGED <<lock, cancelKey, result, jobs, controllers, canceller, beaten>>

\* the claim took effect and its client was told that it failed, or, the command
\* being sent twice, that the run is not claimable
ClaimLost(r) ==
  /\ MayFail
  /\ run[r].pc = "acquiring" \/ r \in jobs
  /\ Claimable(r)
  /\ lock' = [lock EXCEPT ![run[r].id] = RunningLock(r)]
  /\ run' = [run EXCEPT ![r] = Ended(r)]
  /\ jobs' = jobs \ {r}
  /\ UNCHANGED <<cancelKey, result, controllers, canceller, beaten>>

\* mutant: the heartbeat does not extend the lock
ExtendNothing(r) == UNCHANGED lock

\* EXTEND_IF_OWNER: PEXPIRE
Extend(r) ==
  lock' = IF lock[run[r].id].run = r
          THEN [lock EXCEPT ![run[r].id].ttl = RunLockTtl]
          ELSE lock

\* mutant: any cancel key of the id stops the run
CancelOfAnyRun(r) == cancelKey[run[r].id] # NoCancel

\* the cancel key names this very run
CancelSeen(r) == cancelKey[run[r].id].run = r

\* mutant: the heartbeat does not read the cancel key
BeatExtendsOnly(r) ==
  /\ Running(r)
  /\ Extend(r)
  /\ beaten' = beaten \union {r}
  /\ UNCHANGED <<cancelKey, result, jobs, run, controllers, canceller>>

\* beat
Beat(r) ==
  /\ Running(r)
  /\ Extend(r)
  /\ run' = IF ~run[r].aborted /\ CancelSeen(r) THEN Abort(r) ELSE run
  /\ beaten' = beaten \union {r}
  /\ UNCHANGED <<cancelKey, result, jobs, controllers, canceller>>

\* crawlTarget returns or throws
CrawlEnds(r) ==
  /\ run[r].pc = "crawling"
  /\ run[r].id \in Targets
  /\ \E failed \in BOOLEAN :
       run' = [run EXCEPT ![r].pc = "saving", ![r].failed = failed]
  /\ UNCHANGED <<lock, cancelKey, result, jobs, controllers, canceller, beaten>>

\* crawlAllActiveTargets returns, or throws what a target's run threw or an
\* error of its own (database, Redis)
BatchEnds(b) ==
  /\ run[b].pc = "crawling"
  /\ run[b].id \in BatchIds
  /\ \A c \in Children(b) : run[c].pc = "over"
  /\ \E failed \in BOOLEAN :
       /\ ~failed => /\ \A c \in Children(b) : ~run[c].failed
                     /\ (run[b].aborted \/ run[b].todo = {})
       /\ run' = [run EXCEPT ![b].pc = "saving", ![b].failed = failed]
  /\ UNCHANGED <<lock, cancelKey, result, jobs, controllers, canceller, beaten>>

\* saveResult: SET of the id's result; an error is logged only
Stored(i, r) ==
  result' \in {[result EXCEPT ![i] = r]} \union (IF MayFail THEN {result} ELSE {})

\* mutant: release leaves its controller registered
SaveResultKeepsController(r) ==
  /\ run[r].pc = "saving"
  /\ Stored(run[r].id, r)
  /\ run' = [run EXCEPT ![r].pc = "unlocking"]
  /\ beaten' = beaten \ {r}
  /\ UNCHANGED <<lock, cancelKey, jobs, controllers, canceller>>

\* the result is saved, then the synchronous part of release
SaveResult(r) ==
  /\ run[r].pc = "saving"
  /\ Stored(run[r].id, r)
  /\ controllers' = [controllers EXCEPT ![run[r].proc][run[r].id] = None]
  /\ run' = [run EXCEPT ![r].pc = "unlocking"]
  /\ beaten' = beaten \ {r}
  /\ UNCHANGED <<lock, cancelKey, jobs, canceller>>

\* release: DELETE_IF_OWNER
Unlock(r) ==
  /\ run[r].pc = "unlocking"
  /\ DeleteIfOwner(r)
  /\ run' = [run EXCEPT ![r].pc = "clearing"]
  /\ UNCHANGED <<cancelKey, result, jobs, controllers, canceller, beaten>>

\* release: DEL of the cancel key, whichever run it names
ClearCancel(r) ==
  /\ run[r].pc = "clearing"
  /\ cancelKey' = [cancelKey EXCEPT ![run[r].id] = NoCancel]
  /\ run' = [run EXCEPT ![r] = Ended(r)]
  /\ UNCHANGED <<lock, result, jobs, controllers, canceller, beaten>>

\* release: one of the two commands fails, the error is logged only
ReleaseFails(r) ==
  /\ MayFail
  /\ run[r].pc \in {"unlocking", "clearing"}
  /\ run' = [run EXCEPT ![r] = Ended(r)]
  /\ UNCHANGED <<lock, cancelKey, result, jobs, controllers, canceller, beaten>>

-----------------------------------------------------------------------------
(* Cancelling: requestCancel and the result that cancel saves.             *)

\* history: what a cancel did to r, until r is over
Noted(r, what) ==
  IF run[r].pc = "over" THEN run ELSE [run EXCEPT ![r][what] = TRUE]

\* GET of the run key; a missing key answers 'not-running' and changes nothing
CancelRead(p, i) ==
  /\ p \in Apis
  /\ canceller[p] = Idle
  /\ lock[i] # NoLock
  /\ canceller' = [canceller EXCEPT ![p] =
       [step |-> IF lock[i].state = "queued" THEN "delete" ELSE "set",
        id |-> i, run |-> lock[i].run]]
  /\ UNCHANGED <<lock, cancelKey, result, jobs, run, controllers, beaten>>

\* DELETE_IF_OWNER 'queued': the run is dequeued, or was claimed meanwhile
CancelDelete(p) ==
  LET c == canceller[p] IN
  /\ c.step = "delete"
  /\ \/ /\ OwnedQueued(c.id, c.run)
        /\ lock' = [lock EXCEPT ![c.id] = NoLock]
        /\ run' = Noted(c.run, "dequeued")
        /\ canceller' = [canceller EXCEPT ![p].step = "save"]
     \/ /\ ~OwnedQueued(c.id, c.run)
        /\ canceller' = [canceller EXCEPT ![p].step = "set"]
        /\ UNCHANGED <<lock, run>>
  /\ UNCHANGED <<cancelKey, result, jobs, controllers, beaten>>

\* the dequeued run leaves no result of its own: cancel saves an empty one
CancelSave(p) ==
  LET c == canceller[p] IN
  /\ c.step = "save"
  /\ Stored(c.id, c.run)
  /\ canceller' = [canceller EXCEPT ![p] = Idle]
  /\ UNCHANGED <<lock, cancelKey, jobs, run, controllers, beaten>>

\* SET of the cancel key to the run id that was read
CancelSet(p) ==
  LET c == canceller[p] IN
  /\ c.step = "set"
  /\ cancelKey' = [cancelKey EXCEPT ![c.id] = [run |-> c.run, ttl |-> CancelTtl]]
  /\ run' = Noted(c.run, "asked")
  /\ canceller' = [canceller EXCEPT ![p].step = "abort"]
  /\ UNCHANGED <<lock, result, jobs, controllers, beaten>>

\* localControllers.get(id)?.abort()
CancelAbort(p) ==
  LET c == canceller[p] IN
  /\ c.step = "abort"
  /\ run' = IF controllers[p][c.id] # None THEN Abort(controllers[p][c.id]) ELSE run
  /\ canceller' = [canceller EXCEPT ![p] = Idle]
  /\ UNCHANGED <<lock, cancelKey, result, jobs, controllers, beaten>>

-----------------------------------------------------------------------------
(* Time, crashes and redelivery.                                           *)

\* mutant: the claim writes the running state with no expiry
AgedUnlessRunning(key, none) ==
  IF key.ttl <= 1 THEN none
  ELSE IF "state" \in DOMAIN key /\ key.state = "running" THEN key
  ELSE [key EXCEPT !.ttl = @ - 1]

\* a key of Redis one heartbeat interval later
Aged(key, none) ==
  IF key.ttl <= 1 THEN none ELSE [key EXCEPT !.ttl = @ - 1]

\* One heartbeat interval passes, in which the heartbeat of every run ran; a run
\* whose heartbeat did not run, or failed, missed it.  Keys whose time is over
\* disappear.
Tick ==
  LET late == {r \in Runs : Running(r) /\ r \notin beaten} IN
  /\ late # {} => MayStall
  /\ run' = [r \in Runs |-> IF r \in late THEN [run[r] EXCEPT !.missed = TRUE]
                            ELSE run[r]]
  /\ lock' = [i \in Ids |-> Aged(lock[i], NoLock)]
  /\ cancelKey' = [i \in Ids |-> Aged(cancelKey[i], NoCancel)]
  /\ beaten' = {}
  /\ UNCHANGED <<result, jobs, controllers, canceller>>

\* runs that end with their process; a BullMQ job waits in Redis
DiesWith(r, p) ==
  /\ run[r].proc = p
  /\ run[r].pc \notin {"new", "over"}
  /\ ~Inline => run[r].pc # "dispatched"

\* the queue still holds the job of a run that a worker took
Redeliverable(r) ==
  ~Inline /\ run[r].commanded /\ run[r].claims > 0 /\ run[r].pc # "over"

\* A process dies, and starts again with nothing.  BullMQ may deliver once more
\* the jobs it worked on.
Crash(p) ==
  LET dead == {r \in Runs : DiesWith(r, p)} IN
  /\ run' = [r \in Runs |-> IF r \in dead THEN Ended(r) ELSE run[r]]
  /\ controllers' = [controllers EXCEPT ![p] = [i \in Ids |-> None]]
  /\ canceller' = [canceller EXCEPT ![p] = Idle]
  /\ \E again \in SUBSET {r \in dead : Redeliverable(r)} :
       jobs' = (jobs \ {r \in dead : Inline}) \union again
  /\ beaten' = beaten \ dead
  /\ UNCHANGED <<lock, cancelKey, result>>

\* the queue takes the worker that missed heartbeats for dead
Redeliver(r) ==
  /\ Running(r)
  /\ run[r].missed
  /\ Redeliverable(r)
  /\ jobs' = jobs \union {r}
  /\ UNCHANGED <<lock, cancelKey, result, run, controllers, canceller, beaten>>

-----------------------------------------------------------------------------
Control ==
  \/ \E p \in Procs, r \in Runs :
       \/ \E i \in Ids : Start(p, r, i) \/ ReserveLost(r, i)
       \/ \E t \in Targets : ScheduledStart(p, r, t)
       \/ ClaimJob(p, r)
       \/ SkipJob(p, r)
  \/ \E p \in Procs :
       \/ \E i \in Ids : CancelRead(p, i)
       \/ CancelDelete(p)
       \/ CancelSave(p)
       \/ CancelSet(p)
       \/ CancelAbort(p)

RunStep(r) ==
  \/ Dispatch(r)
  \/ DispatchFails(r)
  \/ Discard(r)
  \/ ClaimAcquired(r)
  \/ AcquireFails(r)
  \/ ClaimLost(r)
  \/ Beat(r)
  \/ CrawlEnds(r)
  \/ BatchEnds(r)
  \/ SaveResult(r)
  \/ Unlock(r)
  \/ ClearCancel(r)
  \/ ReleaseFails(r)
  \/ \E t \in Targets : BatchSkip(r, t) \/ \E c \in Runs : BatchStart(r, c, t)

Environment ==
  \/ Tick
  \/ \E p \in Procs : Crash(p)
  \/ \E r \in Runs : Redeliver(r)

Next == Control \/ (\E r \in Runs : RunStep(r)) \/ Environment

Spec == Init /\ [][Next]_vars

\* what the process of r does next without being asked; a crawl whose signal is
\* not aborted may take any time, and a queued command may never be taken
Progress(r) ==
  \/ Dispatch(r) \/ DispatchFails(r) \/ Discard(r)
  \/ ClaimAcquired(r) \/ AcquireFails(r)
  \/ run[r].aborted /\ (CrawlEnds(r) \/ BatchEnds(r))
  \/ SaveResult(r) \/ Unlock(r) \/ ClearCancel(r) \/ ReleaseFails(r)

Fairness ==
  /\ WF_vars(Tick)
  /\ \A r \in Runs : WF_vars(Beat(r)) /\ WF_vars(Progress(r))

FairSpec == Spec /\ Fairness

-----------------------------------------------------------------------------
(* Safety.                                                                 *)

\* A run whose process never missed its heartbeats owns the lock of its id, in
\* state running, whatever the other processes do: no expiry, no late release,
\* no discard, no cancel of another run takes it away.  (EXTEND_IF_OWNER,
\* DELETE_IF_OWNER and CLAIM_IF_QUEUED against the heartbeat interval.)
HealthyHoldsLock ==
  \A r \in Runs :
    Healthy(r) => /\ lock[run[r].id].run = r
                  /\ lock[run[r].id].state = "running"

\* "The same target is not crawled twice at the same time": no two runs of one
\* id run at once.  Holds where no process stalls for longer than the lock
\* lives; the heartbeat's answer is not read, so a run that lost its lock goes on.
SingleCrawl ==
  \A r, x \in Runs :
    Running(r) /\ Running(x) /\ run[r].id = run[x].id => r = x

\* A command that the queue delivers again, before or after a crash, starts no
\* second crawl: the claim of a run succeeds once.
ClaimedOnce == \A r \in Runs : run[r].claims <= 1

\* A run that a cancel answered 'dequeued' for never starts, although its
\* command is still in the queue and a worker may be claiming it meanwhile.
DequeuedNeverRuns == \A r \in Runs : run[r].dequeued => run[r].claims = 0

\* An aborted batch runs no target that is not told to stop, whether the abort
\* came before the target's reservation, between it and the claim, or after.
ChildFollowsParent ==
  \A r \in Runs : Running(r) /\ ParentAborted(r) => run[r].aborted

\* Only the run that a cancel named stops, and the targets of a batch so named:
\* a cancel key left over from an earlier run of the id stops nobody.  (BullMQ
\* dispatcher: the processes that cancel execute no runs.)
AbortedWasAsked ==
  \A r \in Runs : run[r].aborted => run[r].asked \/ ParentAborted(r)

\* A healthy run is told to stop within one heartbeat interval of the cancel:
\* a cancel key that names it and has seen a whole interval finds it aborted.
CancelNoticed ==
  \A r \in Runs :
    Healthy(r) /\ CancelSeen(r) /\ cancelKey[run[r].id].ttl + 2 <= CancelTtl
      => run[r].aborted

\* localControllers holds, per process and id, the controller of the run that
\* executes there, and nothing once that run released: an immediate abort
\* reaches it and no other.  Holds where no process stalls (SingleCrawl).
ControllerMatchesRun ==
  \A p \in Procs, i \in Ids, r \in Runs :
    controllers[p][i] = r <=> Running(r) /\ run[r].proc = p /\ run[r].id = i

-----------------------------------------------------------------------------
(* Liveness.                                                               *)

Abandoned(i) == lock[i] # NoLock /\ ~Running(lock[i].run)

\* A lock that no run keeps alive is freed: a reservation no worker takes, a
\* run whose process died, a release that failed.
AbandonedLockExpires ==
  \A i \in Ids :
    Abandoned(i) ~> ~Abandoned(i)

\* A run that is told to stop ends; a batch too, whose targets must end first.
AbortedRunEnds ==
  \A r \in Runs : (Running(r) /\ run[r].aborted) ~> ~Running(r)

-----------------------------------------------------------------------------
(* Refinement: runs that lost a heartbeat are over as far as the promise   *)
(* goes.                                                                   *)

PhaseOf(r) ==
  CASE run[r].pc = "new" -> "new"
    [] Healthy(r) -> "active"
    [] run[r].pc # "new" /\ ~Healthy(r) /\ OwnedQueued(run[r].id, r) -> "waiting"
    [] OTHER -> "over"

Abstract == INSTANCE TargetRuns WITH
  phase <- [r \in Runs |-> PhaseOf(r)],
  of <- [r \in Runs |-> run[r].id]

\* The registry keeps the promise of TargetRuns.
KeepsPromise == Abstract!AbsSpec

=============================================================================
