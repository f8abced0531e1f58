--------------------------- MODULE CrawlerRunsProofs ---------------------------
(***************************************************************************)
(* Proofs about CrawlerRuns, for every set of targets, runs and processes  *)
(* and every expiry the assumptions of CrawlerRuns allow: its types, its   *)
(* invariants and action properties, and that it implements TargetRuns.    *)
(***************************************************************************)
EXTENDS CrawlerRuns, TLAPS

-----------------------------------------------------------------------------
(* Types.                                                                  *)

\* What a step writes into the record of a run is the record of a run.
LEMMA NewRunType == NewRun \in RunState
  BY ConstantsAssumption DEF NewRun, RunState, Steps

\* A run that ended keeps its type and its id.
LEMMA EndedType ==
  ASSUME TypeOK, NEW r \in Runs
  PROVE  Ended(r) \in RunState /\ Ended(r).id = run[r].id
  BY DEF TypeOK, Ended, NewRun, RunState, Steps

\* Setting a flag keeps the type of a run.
LEMMA FlagType ==
  ASSUME NEW x \in RunState
  PROVE  /\ [x EXCEPT !.aborted = TRUE] \in RunState
         /\ [x EXCEPT !.missed = TRUE] \in RunState
         /\ [x EXCEPT !.asked = TRUE] \in RunState
         /\ [x EXCEPT !.dequeued = TRUE] \in RunState
  BY DEF RunState

\* Going on to another step, or to fewer targets, keeps the type of a run.
LEMMA MovedType ==
  ASSUME NEW x \in RunState, NEW s \in Steps
  PROVE  /\ [x EXCEPT !.pc = s] \in RunState
         /\ \A f \in BOOLEAN : [x EXCEPT !.pc = s, !.failed = f] \in RunState
         /\ \A S \in SUBSET Targets : [x EXCEPT !.todo = S] \in RunState
  BY DEF RunState

\* A claim keeps the type of a run.
LEMMA ClaimedType ==
  ASSUME NEW x \in RunState, NEW p \in Procs \union {None}, NEW a \in BOOLEAN,
         NEW S \in SUBSET Targets
  PROVE  [x EXCEPT !.pc = "crawling", !.proc = p, !.aborted = a,
                   !.claims = @ + 1, !.todo = S] \in RunState
<1>1. "crawling" \in Steps /\ x.claims + 1 \in Nat
  BY DEF RunState, Steps
<1>2. ASSUME NEW s \in Steps, NEW n \in Nat
      PROVE  [x EXCEPT !.pc = s, !.proc = p, !.aborted = a, !.claims = n,
                       !.todo = S] \in RunState
  BY DEF RunState
<1> QED
  BY <1>1, <1>2

\* Each way to reserve a run writes the record of a run.
LEMMA ReservedType ==
  ASSUME NEW p \in Procs \union {None}, NEW i \in Ids
  PROVE  /\ [NewRun EXCEPT !.pc = "over", !.id = i] \in RunState
         /\ [NewRun EXCEPT !.pc = "reserved", !.id = i, !.proc = p,
                           !.commanded = TRUE] \in RunState
         /\ [NewRun EXCEPT !.pc = "acquiring", !.id = i, !.proc = p] \in RunState
         /\ \A b \in Runs :
              [NewRun EXCEPT !.pc = "acquiring", !.id = i, !.proc = p,
                             !.parent = b] \in RunState
  BY DEF NewRun, RunState, Steps

\* An abort keeps the types of all runs.
LEMMA AbortType ==
  ASSUME TypeOK, NEW r \in Runs \union {None}
  PROVE  Abort(r) \in [Runs -> RunState]
<1> SUFFICES ASSUME NEW x \in Runs
             PROVE  /\ run[x] \in RunState
                    /\ [run[x] EXCEPT !.aborted = TRUE] \in RunState
  BY Zenon DEF Abort
<1>1. run[x] \in RunState
  BY Zenon DEF TypeOK
<1> QED
  BY <1>1, FlagType, Zenon

\* So do the history notes of a cancel.
LEMMA NotedType ==
  ASSUME TypeOK, NEW r \in Runs \union {None}
  PROVE  /\ Noted(r, "asked") \in [Runs -> RunState]
         /\ Noted(r, "dequeued") \in [Runs -> RunState]
<1>1. run \in [Runs -> RunState]
  BY Zenon DEF TypeOK
<1>2. ASSUME NEW x \in Runs
      PROVE  /\ [run[x] EXCEPT !.asked = TRUE] \in RunState
             /\ [run[x] EXCEPT !.dequeued = TRUE] \in RunState
  BY <1>1, FlagType, Zenon
<1>3. /\ [run EXCEPT ![r]["asked"] = TRUE] \in [Runs -> RunState]
      /\ [run EXCEPT ![r]["dequeued"] = TRUE] \in [Runs -> RunState]
  BY <1>1, <1>2
<1> QED
  BY <1>1, <1>3, Zenon DEF Noted

\* The locks that the steps write are locks.
LEMMA LockTypes ==
  /\ NoLock \in Lock
  /\ \A r \in Runs : QueuedLock(r) \in Lock /\ RunningLock(r) \in Lock
  BY ConstantsAssumption DEF NoLock, QueuedLock, RunningLock, Lock

\* The initial states are of the right types.
LEMMA TypeInit == Init => TypeOK
<1> SUFFICES ASSUME Init PROVE TypeOK
  OBVIOUS
<1>1. run \in [Runs -> RunState]
  BY NewRunType DEF Init
<1> QED
  BY <1>1, LockTypes, ConstantsAssumption DEF Init, TypeOK, NoCancel, Idle

\* Every step keeps them, action by action.
LEMMA TypeStep == TypeOK /\ [Next]_vars => TypeOK'
<1> SUFFICES ASSUME TypeOK, [Next]_vars PROVE TypeOK'
  OBVIOUS
<1>0. \A r \in Runs : /\ run[r] \in RunState
                      /\ run[r].proc \in Procs \union {None}
                      /\ run[r].id \in Ids \union {None}
                      /\ run[r].todo \in SUBSET Targets
  BY DEF TypeOK, RunState
<1>00. {"dispatched", "discarding", "saving", "unlocking", "clearing"} \subseteq Steps
  BY DEF Steps
<1>1. ASSUME NEW p \in Procs, NEW r \in Runs, NEW i \in Ids, Start(p, r, i)
      PROVE  TypeOK'
  <2>1. run' \in [Runs -> RunState]
    BY <1>0, <1>1, ReservedType DEF TypeOK, Start
  <2> QED
    BY <1>1, <2>1, LockTypes DEF TypeOK, Start, Reserve
<1>2. ASSUME NEW p \in Procs, NEW r \in Runs, NEW t \in Targets,
             ScheduledStart(p, r, t)
      PROVE  TypeOK'
  <2>1. run' \in [Runs -> RunState]
    BY <1>0, <1>2, ReservedType DEF TypeOK, ScheduledStart, Ids
  <2> QED
    BY <1>2, <2>1, LockTypes DEF TypeOK, ScheduledStart, Reserve
<1>3. ASSUME NEW p \in Procs \union {None}, NEW r \in Runs, Claim(p, r)
      PROVE  /\ lock' \in [Ids -> Lock]
             /\ run' \in [Runs -> RunState]
             /\ controllers' \in [Procs -> [Ids -> Runs \union {None}]]
             /\ beaten' \in SUBSET Runs
  <2>1. ParentAborted(r) \in BOOLEAN
    BY DEF ParentAborted
  <2>2. PICK S \in SUBSET Targets :
          run' = [run EXCEPT ![r] = [run[r] EXCEPT !.pc = "crawling", !.proc = p,
                               !.aborted = ParentAborted(r),
                               !.claims = @ + 1, !.todo = S]]
    BY <1>3 DEF Claim
  <2>3. run' \in [Runs -> RunState]
    BY <1>0, <2>1, <2>2, ClaimedType, Zenon DEF TypeOK
  <2> QED
    BY <1>3, <2>3, LockTypes DEF TypeOK, Claim
<1>4. ASSUME NEW p \in Procs, NEW r \in Runs, ClaimJob(p, r)
      PROVE  TypeOK'
  BY <1>3, <1>4 DEF TypeOK, ClaimJob
<1>5. ASSUME NEW r \in Runs, ClaimAcquired(r)
      PROVE  TypeOK'
  BY <1>0, <1>3, <1>5 DEF TypeOK, ClaimAcquired
<1>6. ASSUME NEW p \in Procs, NEW r \in Runs, SkipJob(p, r)
      PROVE  TypeOK'
  BY <1>6, EndedType DEF TypeOK, SkipJob
<1>7. ASSUME NEW r \in Runs,
             Dispatch(r) \/ DispatchFails(r) \/ Discard(r) \/ AcquireFails(r)
      PROVE  TypeOK'
  <2>1. run' \in [Runs -> RunState]
    <3>1. CASE Dispatch(r) \/ DispatchFails(r)
      <4>1. PICK s \in Steps : run' = [run EXCEPT ![r] = [run[r] EXCEPT !.pc = s]]
        BY <1>00, <3>1 DEF Dispatch, DispatchFails
      <4>2. [run[r] EXCEPT !.pc = s] \in RunState
        BY <1>0, MovedType, Zenon
      <4> QED
        BY <4>1, <4>2 DEF TypeOK
    <3>2. CASE Discard(r) \/ AcquireFails(r)
      BY <3>2, EndedType DEF TypeOK, Discard, AcquireFails
    <3> QED
      BY <1>7, <3>1, <3>2
  <2>2. lock' \in [Ids -> Lock]
    BY <1>7, LockTypes DEF TypeOK, Dispatch, DispatchFails, Discard, AcquireFails
  <2> QED
    BY <1>7, <2>1, <2>2
    DEF TypeOK, Dispatch, DispatchFails, Discard, AcquireFails
<1>8. ASSUME NEW b \in Runs, NEW t \in Targets, BatchSkip(b, t)
      PROVE  TypeOK'
  <2>1. run' \in [Runs -> RunState]
    BY <1>0, <1>00, <1>8, MovedType DEF TypeOK, BatchSkip
  <2> QED
    BY <1>8, <2>1 DEF TypeOK, BatchSkip
<1>9. ASSUME NEW b \in Runs, NEW r \in Runs, NEW t \in Targets,
             BatchStart(b, r, t)
      PROVE  TypeOK'
  <2> DEFINE new == [NewRun EXCEPT !.pc = "acquiring", !.id = t,
                                   !.proc = run[b].proc, !.parent = b]
             mid == [run EXCEPT ![r] = new]
  <2>1. new \in RunState
    BY <1>0, ReservedType DEF Ids
  <2>2. mid \in [Runs -> RunState]
    BY <2>1 DEF TypeOK
  <2>3. mid[b] \in RunState /\ mid[b].todo \ {t} \in SUBSET Targets
    BY <2>2 DEF RunState
  <2>4. [mid[b] EXCEPT !.todo = mid[b].todo \ {t}] \in RunState
    BY <1>00, <2>3, MovedType
  <2>5. run' = [mid EXCEPT ![b] = [mid[b] EXCEPT !.todo = mid[b].todo \ {t}]]
    <3>1. b # r
      BY <1>9 DEF BatchStart, BatchLoops, Reserve
    <3>2. mid[b] = run[b]
      BY <3>1 DEF TypeOK
    <3> QED
      BY <1>9, <3>2 DEF BatchStart
  <2>6. run' \in [Runs -> RunState]
    BY <2>2, <2>4, <2>5
  <2> QED
    BY <1>9, <2>6, LockTypes DEF TypeOK, BatchStart, Reserve, Ids
<1>10. ASSUME NEW r \in Runs, Beat(r)
       PROVE  TypeOK'
  <2>1. run' \in [Runs -> RunState]
    BY <1>10, AbortType DEF TypeOK, Beat
  <2>2. lock' \in [Ids -> Lock]
    <3>1. CASE run[r].id \in Ids /\ lock[run[r].id].run = r
      <4>1. [lock[run[r].id] EXCEPT !.ttl = RunLockTtl] \in Lock
        BY <3>1, ConstantsAssumption DEF TypeOK, Lock, NoLock
      <4> QED
        BY <1>10, <3>1, <4>1 DEF TypeOK, Beat, Extend
    <3>2. CASE run[r].id \notin Ids
      BY <1>10, <3>2 DEF TypeOK, Beat, Extend
    <3>3. CASE lock[run[r].id].run # r
      BY <1>10, <3>3 DEF TypeOK, Beat, Extend
    <3> QED
      BY <3>1, <3>2, <3>3
  <2> QED
    BY <1>10, <2>1, <2>2 DEF TypeOK, Beat
<1>11. ASSUME NEW r \in Runs, CrawlEnds(r) \/ BatchEnds(r)
       PROVE  TypeOK'
  <2>1. PICK f \in BOOLEAN :
          run' = [run EXCEPT ![r] = [run[r] EXCEPT !.pc = "saving", !.failed = f]]
    BY <1>11 DEF CrawlEnds, BatchEnds
  <2>2. run' \in [Runs -> RunState]
    BY <1>0, <1>00, <2>1, MovedType DEF TypeOK
  <2> QED
    BY <1>11, <2>2 DEF TypeOK, CrawlEnds, BatchEnds
<1>12. ASSUME NEW r \in Runs, SaveResult(r)
       PROVE  TypeOK'
  <2>1. run' \in [Runs -> RunState]
    BY <1>0, <1>00, <1>12, MovedType DEF TypeOK, SaveResult
  <2> QED
    <3>1. result' \in [Ids -> Runs \union {None}]
      BY <1>12 DEF TypeOK, SaveResult, Stored
    <3>2. controllers' \in [Procs -> [Ids -> Runs \union {None}]]
      BY <1>12 DEF TypeOK, SaveResult
    <3> QED
      BY <1>12, <2>1, <3>1, <3>2 DEF TypeOK, SaveResult
<1>13. ASSUME NEW r \in Runs, Unlock(r) \/ ClearCancel(r) \/ ReleaseFails(r)
       PROVE  TypeOK'
  <2>1. run' \in [Runs -> RunState]
    <3>1. CASE Unlock(r)
      BY <1>0, <1>00, <3>1, MovedType DEF TypeOK, Unlock
    <3>2. CASE ClearCancel(r) \/ ReleaseFails(r)
      BY <3>2, EndedType DEF TypeOK, ClearCancel, ReleaseFails
    <3> QED
      BY <1>13, <3>1, <3>2
  <2>2. lock' \in [Ids -> Lock]
    BY <1>13, LockTypes DEF TypeOK, Unlock, ClearCancel, ReleaseFails, DeleteIfOwner
  <2> QED
    BY <1>13, <2>1, <2>2 DEF TypeOK, Unlock, ClearCancel, ReleaseFails, NoCancel
<1>14. ASSUME NEW p \in Procs, NEW i \in Ids, CancelRead(p, i)
       PROVE  TypeOK'
  BY <1>14 DEF TypeOK, CancelRead, Lock
<1>15. ASSUME NEW p \in Procs, CancelDelete(p)
       PROVE  TypeOK'
  <2>1. canceller[p].run \in Runs \union {None}
    BY <1>15 DEF TypeOK, CancelDelete, Idle
  <2>2. run' \in [Runs -> RunState]
    BY <1>15, <2>1, NotedType DEF TypeOK, CancelDelete
  <2> QED
    <3>1. canceller' \in [Procs -> {Idle} \union
            [step: {"delete", "set", "abort", "save"}, id: Ids, run: Runs]]
      <4>1. canceller[p] \in
              [step: {"delete", "set", "abort", "save"}, id: Ids, run: Runs]
        BY <1>15 DEF TypeOK, CancelDelete, Idle
      <4>2. \A s \in {"save", "set"} : [canceller[p] EXCEPT !.step = s] \in
              [step: {"delete", "set", "abort", "save"}, id: Ids, run: Runs]
        BY <4>1
      <4>3. PICK s \in {"save", "set"} :
              canceller' = [canceller EXCEPT ![p] = [canceller[p] EXCEPT !.step = s]]
        BY <1>15 DEF CancelDelete
      <4> QED
        BY <4>2, <4>3 DEF TypeOK
    <3>2. lock' \in [Ids -> Lock]
      BY <1>15, LockTypes DEF TypeOK, CancelDelete
    <3> QED
      BY <1>15, <2>2, <3>1, <3>2 DEF TypeOK, CancelDelete
<1>16. ASSUME NEW p \in Procs, CancelSave(p)
       PROVE  TypeOK'
  BY <1>16 DEF TypeOK, CancelSave, Stored, Idle
<1>17. ASSUME NEW p \in Procs, CancelSet(p)
       PROVE  TypeOK'
  <2>1. canceller[p] \in
          [step: {"delete", "set", "abort", "save"}, id: Ids, run: Runs]
    BY <1>17 DEF TypeOK, CancelSet, Idle
  <2>2. run' \in [Runs -> RunState]
    BY <1>17, <2>1, NotedType DEF TypeOK, CancelSet
  <2> QED
    <3>1. [canceller[p] EXCEPT !.step = "abort"] \in
            [step: {"delete", "set", "abort", "save"}, id: Ids, run: Runs]
      BY <2>1
    <3>2. canceller' = [canceller EXCEPT ![p] = [canceller[p] EXCEPT !.step = "abort"]]
      BY <1>17 DEF CancelSet
    <3>3. [run |-> canceller[p].run, ttl |-> CancelTtl] \in [run: Runs, ttl: Nat \ {0}]
      BY <2>1, ConstantsAssumption
    <3>4. cancelKey' = [cancelKey EXCEPT ![canceller[p].id] =
                          [run |-> canceller[p].run, ttl |-> CancelTtl]]
      BY <1>17 DEF CancelSet
    <3> QED
      BY <1>17, <2>2, <3>1, <3>2, <3>3, <3>4 DEF TypeOK, CancelSet
<1>18. ASSUME NEW p \in Procs, CancelAbort(p)
       PROVE  TypeOK'
  <2>1. run' \in [Runs -> RunState]
    <3>1. canceller[p].id \in Ids
      BY <1>18 DEF TypeOK, CancelAbort, Idle
    <3>2. controllers[p][canceller[p].id] \in Runs \union {None}
      BY <3>1 DEF TypeOK
    <3> QED
      BY <1>18, <3>2, AbortType DEF TypeOK, CancelAbort
  <2> QED
    BY <1>18, <2>1 DEF TypeOK, CancelAbort, Idle
<1>19. CASE Tick
  <2>1. run' \in [Runs -> RunState]
    BY <1>0, <1>19, FlagType DEF Tick
  <2>2. \A i \in Ids : Aged(lock[i], NoLock) \in Lock
    <3>1. ASSUME NEW i \in Ids, lock[i] # NoLock, lock[i].ttl > 1
          PROVE  [lock[i] EXCEPT !.ttl = @ - 1] \in Lock
      <4>1. lock[i] \in [run: Runs, state: {"queued", "running"}, ttl: Nat \ {0}]
        BY <3>1 DEF TypeOK, Lock
      <4>2. lock[i].ttl - 1 \in Nat \ {0}
        BY <3>1, <4>1
      <4> QED
        BY <4>1, <4>2 DEF Lock
    <3>2. \A i \in Ids : lock[i].ttl \in Nat
      BY DEF TypeOK, Lock, NoLock
    <3>3. NoLock.ttl <= 1
      BY DEF NoLock
    <3> QED
      BY <3>1, <3>2, <3>3, LockTypes DEF Aged
  <2>3. \A i \in Ids : Aged(cancelKey[i], NoCancel)
                         \in {NoCancel} \union [run: Runs, ttl: Nat \ {0}]
    BY DEF TypeOK, Aged, NoCancel
  <2> QED
    BY <1>19, <2>1, <2>2, <2>3 DEF TypeOK, Tick
<1>20. ASSUME NEW p \in Procs, Crash(p)
       PROVE  TypeOK'
  <2>1. run' \in [Runs -> RunState]
    BY <1>0, <1>20, EndedType DEF Crash
  <2> QED
    BY <1>20, <2>1 DEF TypeOK, Crash, Idle
<1>21. ASSUME NEW r \in Runs, Redeliver(r)
       PROVE  TypeOK'
  BY <1>21 DEF TypeOK, Redeliver
<1>22. CASE UNCHANGED vars
  BY <1>22 DEF TypeOK, vars
<1>23. ASSUME NEW r \in Runs, NEW i \in Ids, ReserveLost(r, i)
       PROVE  TypeOK'
  <2>1. run' \in [Runs -> RunState]
    BY <1>0, <1>23, ReservedType DEF TypeOK, ReserveLost
  <2> QED
    BY <1>23, <2>1, LockTypes DEF TypeOK, ReserveLost, Reserve
<1>24. ASSUME NEW r \in Runs, ClaimLost(r)
       PROVE  TypeOK'
  BY <1>24, EndedType, LockTypes DEF TypeOK, ClaimLost
<1> QED
  BY <1>1, <1>2, <1>4, <1>5, <1>6, <1>7, <1>8, <1>9, <1>10, <1>11, <1>12, <1>13,
     <1>14, <1>15, <1>16, <1>17, <1>18, <1>19, <1>20, <1>21, <1>22, <1>23, <1>24
  DEF Next, Control, RunStep, Environment

\* TypeOK holds in every state.
THEOREM TypeCorrect == Spec => []TypeOK
  BY TypeInit, TypeStep, PTL DEF Spec

-----------------------------------------------------------------------------
(* The fields the invariants below speak of, and what each kind of step    *)
(* does to them.                                                           *)

SameBut(x, s) ==
  /\ run'[x].pc = s
  /\ run'[x].id = run[x].id
  /\ run'[x].missed = run[x].missed
  /\ run'[x].claims = run[x].claims
  /\ run'[x].dequeued = run[x].dequeued

Same(x) == SameBut(x, run[x].pc)

\* r is over in the next state
Over(r) ==
  /\ run'[r].pc = "over"
  /\ run'[r].id = run[r].id
  /\ run'[r].missed = FALSE
  /\ run'[r].claims = run[r].claims
  /\ run'[r].dequeued = FALSE

\* A run that goes on changes only its step; the others change nothing.
LEMMA MovedFields ==
  ASSUME TypeOK, NEW r \in Runs, NEW s \in Steps,
         \/ run' = [run EXCEPT ![r].pc = s]
         \/ \E f \in BOOLEAN : run' = [run EXCEPT ![r].pc = s, ![r].failed = f]
  PROVE  SameBut(r, s) /\ \A x \in Runs \ {r} : Same(x)
  BY DEF TypeOK, RunState, SameBut, Same

\* A run that ends is over; the others change nothing.
LEMMA EndedFields ==
  ASSUME TypeOK, NEW r \in Runs, run' = [run EXCEPT ![r] = Ended(r)]
  PROVE  Over(r) /\ \A x \in Runs \ {r} : Same(x)
  BY DEF TypeOK, SameBut, Same, Over, Ended, NewRun

\* An abort changes none of these fields.
LEMMA AbortFields ==
  ASSUME TypeOK, NEW r, run' = Abort(r)
  PROVE  \A x \in Runs : Same(x)
  BY DEF TypeOK, RunState, SameBut, Same, Abort

\* Nor does the note that a run was asked to stop.
LEMMA AskedFields ==
  ASSUME TypeOK, NEW r \in Runs, run' = Noted(r, "asked")
  PROVE  \A x \in Runs : Same(x)
  BY DEF TypeOK, RunState, SameBut, Same, Noted

\* The note that a run was dequeued changes that one field of that one run.
LEMMA DequeuedFields ==
  ASSUME TypeOK, NEW r \in Runs, run' = Noted(r, "dequeued")
  PROVE  /\ \A x \in Runs \ {r} : Same(x)
         /\ run'[r].pc = run[r].pc
         /\ run'[r].id = run[r].id
         /\ run'[r].missed = run[r].missed
         /\ run'[r].claims = run[r].claims
  BY DEF TypeOK, RunState, SameBut, Same, Noted

\* A claim starts the run and counts; the others change nothing.
LEMMA ClaimFields ==
  ASSUME TypeOK, NEW p, NEW r \in Runs, Claim(p, r)
  PROVE  /\ \A x \in Runs \ {r} : Same(x)
         /\ run'[r].pc = "crawling"
         /\ run'[r].id = run[r].id
         /\ run'[r].missed = run[r].missed
         /\ run'[r].claims = run[r].claims + 1
         /\ run'[r].dequeued = run[r].dequeued
  BY DEF TypeOK, RunState, SameBut, Same, Claim

-----------------------------------------------------------------------------
(* The inductive invariant.                                                *)

\* A run that was reserved has an id, and only such runs are dispatched.
IdOK ==
  /\ \A r \in Runs : run[r].pc # "new" => run[r].id \in Ids
  /\ \A r \in jobs : run[r].pc # "new"

\* A lock names a run that was reserved for its id; while it is queued the run
\* has not been claimed and no cancel has removed it.
LockNamesRun ==
  \A i \in Ids, r \in Runs :
    lock[i].run = r =>
      /\ run[r].pc # "new"
      /\ run[r].id = i
      /\ lock[i].state = "queued" => run[r].claims = 0 /\ ~run[r].dequeued

\* A run is claimed once at most, and not at all once it was dequeued.
ClaimsOK ==
  \A r \in Runs :
    /\ run[r].claims <= 1
    /\ run[r].pc = "new" => run[r].claims = 0 /\ ~run[r].dequeued
    /\ run[r].dequeued => run[r].claims = 0

\* A healthy run owns its lock, with its full time if the heartbeat ran since
\* the last tick, and short of one interval otherwise.
LockKept ==
  \A r \in Runs :
    Healthy(r) =>
      /\ lock[run[r].id].run = r
      /\ lock[run[r].id].state = "running"
      /\ lock[run[r].id].ttl >= RunLockTtl - 1
      /\ r \in beaten => lock[run[r].id].ttl >= RunLockTtl

\* Nobody misses a heartbeat where no process stalls.
NobodyMissed ==
  MayStall \/ \A r \in Runs : ~run[r].missed

IInv == TypeOK /\ IdOK /\ LockNamesRun /\ ClaimsOK /\ LockKept /\ NobodyMissed

\* The invariant holds initially: nothing is reserved.
LEMMA IInvInit == Init => IInv
<1> SUFFICES ASSUME Init PROVE IInv
  OBVIOUS
<1>1. \A r \in Runs : run[r] = NewRun
  BY DEF Init
<1>2. \A i \in Ids : lock[i].run \notin Runs
  BY ConstantsAssumption DEF Init, NoLock
<1> QED
  BY <1>1, <1>2, TypeInit
  DEF IInv, IdOK, LockNamesRun, ClaimsOK, LockKept, NobodyMissed, Healthy, Running,
      NewRun, Init

-----------------------------------------------------------------------------
(* The kinds of steps, as far as the invariant can tell them apart.        *)

\* A reservation: r is new, the lock of i is free and becomes r's.
Reserving(r, i) ==
  /\ Reserve(r, i)
  /\ run'[r].pc \in {"reserved", "acquiring", "over"}
  /\ run'[r].id = i
  /\ run'[r].claims = 0
  /\ run'[r].dequeued = FALSE
  /\ run'[r].missed = FALSE
  /\ \A x \in Runs \ {r} : Same(x)
  /\ jobs' = jobs
  /\ beaten' = beaten

\* r moves on to s and no lock changes
Moving(r, s) ==
  /\ run[r].pc # "new"
  /\ s # "new"
  /\ s \in {"crawling", "saving"} => Running(r)
  /\ SameBut(r, s)
  /\ \A x \in Runs \ {r} : Same(x)
  /\ jobs' \subseteq jobs \union {r}
  /\ lock' = lock
  /\ beaten' \subseteq beaten

\* r is over, or past its crawl, and may free the lock it owns, or leave it
\* in state running
Ending(r) ==
  /\ run[r].pc # "new"
  /\ Over(r) \/ (SameBut(r, "clearing") /\ ~Running(r))
  /\ \A x \in Runs \ {r} : Same(x)
  /\ jobs' \subseteq jobs
  /\ beaten' \subseteq beaten
  /\ \/ lock' = lock
     \/ /\ lock[run[r].id].run = r
        /\ \E l \in {NoLock, RunningLock(r)} :
             lock' = [lock EXCEPT ![run[r].id] = l]

\* r's reservation becomes its running lock
Claiming(r) ==
  /\ \E p \in Procs \union {None} : Claim(p, r)
  /\ run[r].pc # "new"
  /\ jobs' \subseteq jobs

\* a cancel finds r queued and removes its lock
Dequeuing(i, r) ==
  /\ OwnedQueued(i, r)
  /\ run' = Noted(r, "dequeued")
  /\ lock' = [lock EXCEPT ![i] = NoLock]
  /\ jobs' = jobs
  /\ beaten' = beaten

\* nothing the invariant speaks of changes
Quiet ==
  /\ \A x \in Runs : Same(x)
  /\ jobs' \subseteq jobs
  /\ lock' = lock
  /\ beaten' = beaten

StepKind ==
  \/ \E r \in Runs, i \in Ids : Reserving(r, i) \/ Dequeuing(i, r)
  \/ \E r \in Runs, s \in Steps : Moving(r, s)
  \/ \E r \in Runs : Ending(r) \/ Claiming(r) \/ Beat(r)
  \/ Tick
  \/ \E p \in Procs : Crash(p)
  \/ Quiet

\* Every step is of one of these kinds.
LEMMA StepKinds == IInv /\ [Next]_vars => StepKind
<1> SUFFICES ASSUME IInv, [Next]_vars PROVE StepKind
  OBVIOUS
<1>0. TypeOK
  BY DEF IInv
<1>00. {"dispatched", "discarding", "saving", "unlocking", "clearing"} \subseteq Steps
  BY DEF Steps
<1>1. ASSUME NEW p \in Procs, NEW r \in Runs, NEW i \in Ids, Start(p, r, i)
      PROVE  StepKind
  <2>1. /\ run'[r] = [NewRun EXCEPT !.pc = "reserved", !.id = i, !.proc = p,
                                    !.commanded = TRUE]
        /\ \A x \in Runs \ {r} : run'[x] = run[x]
    BY <1>0, <1>1 DEF TypeOK, Start
  <2>2. /\ run'[r].pc = "reserved" /\ run'[r].id = i /\ run'[r].claims = 0
        /\ run'[r].dequeued = FALSE /\ run'[r].missed = FALSE
    BY <2>1 DEF NewRun
  <2>3. \A x \in Runs \ {r} : Same(x)
    BY <2>1 DEF Same, SameBut
  <2> QED
    BY <1>0, <1>1, <2>2, <2>3 DEF StepKind, Reserving, Start
<1>2. ASSUME NEW p \in Procs, NEW r \in Runs, NEW t \in Targets,
             ScheduledStart(p, r, t)
      PROVE  StepKind
  <2>1. /\ run'[r] = [NewRun EXCEPT !.pc = "acquiring", !.id = t, !.proc = p]
        /\ \A x \in Runs \ {r} : run'[x] = run[x]
    BY <1>0, <1>2 DEF TypeOK, ScheduledStart
  <2>2. t \in Ids
    BY DEF Ids
  <2>3. /\ run'[r].pc = "acquiring" /\ run'[r].id = t /\ run'[r].claims = 0
        /\ run'[r].dequeued = FALSE /\ run'[r].missed = FALSE
    BY <2>1 DEF NewRun
  <2>4. \A x \in Runs \ {r} : Same(x)
    BY <2>1 DEF Same, SameBut
  <2> QED
    BY <1>0, <1>2, <2>2, <2>3, <2>4 DEF StepKind, Reserving, ScheduledStart
<1>3. ASSUME NEW b \in Runs, NEW r \in Runs, NEW t \in Targets,
             BatchStart(b, r, t)
      PROVE  StepKind
  <2>1. b # r
    BY <1>3 DEF BatchStart, BatchLoops, Reserve
  <2>2. /\ run'[r] = [NewRun EXCEPT !.pc = "acquiring", !.id = t,
                                    !.proc = run[b].proc, !.parent = b]
        /\ run'[b] = [run[b] EXCEPT !.todo = run[b].todo \ {t}]
        /\ \A x \in Runs \ {r, b} : run'[x] = run[x]
    BY <1>0, <1>3, <2>1 DEF TypeOK, BatchStart
  <2>3. Same(b)
    BY <1>0, <2>2 DEF TypeOK, RunState, Same, SameBut
  <2>4. \A x \in Runs \ {r} : Same(x)
    BY <2>2, <2>3 DEF Same, SameBut
  <2>5. t \in Ids
    BY DEF Ids
  <2>6. /\ run'[r].pc = "acquiring" /\ run'[r].id = t /\ run'[r].claims = 0
        /\ run'[r].dequeued = FALSE /\ run'[r].missed = FALSE
    BY <2>2 DEF NewRun
  <2> QED
    BY <1>0, <1>3, <2>4, <2>5, <2>6 DEF StepKind, Reserving, BatchStart
<1>4. ASSUME NEW p \in Procs, NEW r \in Runs, ClaimJob(p, r)
      PROVE  StepKind
  <2>1. run[r].pc # "new"
    BY <1>4 DEF IInv, IdOK, ClaimJob, Delivered
  <2> QED
    BY <1>0, <1>4, <2>1 DEF StepKind, Claiming, ClaimJob
<1>5. ASSUME NEW r \in Runs, ClaimAcquired(r)
      PROVE  StepKind
  <2>1. run[r].proc \in Procs \union {None}
    BY <1>0 DEF TypeOK, RunState
  <2> QED
    BY <1>5, <2>1 DEF StepKind, Claiming, ClaimAcquired
<1>6. ASSUME NEW p \in Procs, NEW r \in Runs, SkipJob(p, r)
      PROVE  StepKind
  <2>1. CASE run[r].pc = "dispatched"
    <3>1. run' = [run EXCEPT ![r] = Ended(r)]
      BY <1>6, <2>1 DEF SkipJob
    <3> QED
      BY <1>0, <1>6, <2>1, <3>1, EndedFields DEF StepKind, Ending, SkipJob
  <2>2. CASE run' = run
    BY <1>0, <1>6, <2>2 DEF StepKind, Quiet, SkipJob, Same, SameBut
  <2> QED
    BY <1>6, <2>1, <2>2 DEF SkipJob
<1>7. ASSUME NEW r \in Runs, Dispatch(r) \/ DispatchFails(r)
      PROVE  StepKind
  <2>1. PICK s \in {"dispatched", "discarding"} : run' = [run EXCEPT ![r].pc = s]
    BY <1>7 DEF Dispatch, DispatchFails
  <2>2. SameBut(r, s) /\ \A x \in Runs \ {r} : Same(x)
    BY <1>0, <1>00, <2>1, MovedFields
  <2>3. run[r].pc = "reserved"
    BY <1>7 DEF Dispatch, DispatchFails
  <2> QED
    BY <1>0, <1>00, <1>7, <2>2, <2>3 DEF StepKind, Moving, Dispatch, DispatchFails
<1>8. ASSUME NEW r \in Runs, Discard(r) \/ AcquireFails(r) \/ ClearCancel(r) \/ ReleaseFails(r)
      PROVE  StepKind
  <2>1. run' = [run EXCEPT ![r] = Ended(r)] /\ run[r].pc # "new"
    BY <1>8 DEF Discard, AcquireFails, ClearCancel, ReleaseFails
  <2>2. \/ lock' = lock
        \/ /\ lock[run[r].id].run = r
           /\ lock' = [lock EXCEPT ![run[r].id] = NoLock]
    BY <1>8 DEF Discard, AcquireFails, ClearCancel, ReleaseFails, OwnedQueued
  <2>3. jobs' = jobs /\ beaten' = beaten
    BY <1>8 DEF Discard, AcquireFails, ClearCancel, ReleaseFails
  <2> QED
    BY <1>0, <2>1, <2>2, <2>3, EndedFields DEF StepKind, Ending
<1>9. ASSUME NEW r \in Runs, NEW t \in Targets, BatchSkip(r, t)
      PROVE  StepKind
  <2>1. run' = [run EXCEPT ![r] = [run[r] EXCEPT !.todo = run[r].todo \ {t}]]
    BY <1>9 DEF BatchSkip
  <2>2. \A x \in Runs : Same(x)
    BY <1>0, <2>1 DEF TypeOK, RunState, Same, SameBut
  <2> QED
    BY <1>0, <1>9, <2>2 DEF StepKind, Quiet, BatchSkip
<1>10. ASSUME NEW r \in Runs, Beat(r)
       PROVE  StepKind
  BY <1>10 DEF StepKind
<1>11. ASSUME NEW r \in Runs, CrawlEnds(r) \/ BatchEnds(r)
       PROVE  StepKind
  <2>1. PICK f \in BOOLEAN : run' = [run EXCEPT ![r].pc = "saving", ![r].failed = f]
    BY <1>11 DEF CrawlEnds, BatchEnds
  <2>2. SameBut(r, "saving") /\ \A x \in Runs \ {r} : Same(x)
    BY <1>0, <1>00, <2>1, MovedFields
  <2>3. run[r].pc = "crawling" /\ lock' = lock /\ jobs' = jobs /\ beaten' = beaten
    BY <1>11 DEF CrawlEnds, BatchEnds
  <2> QED
    BY <1>0, <1>00, <2>2, <2>3 DEF StepKind, Moving, Running
<1>12. ASSUME NEW r \in Runs, SaveResult(r)
       PROVE  StepKind
  <2>1. SameBut(r, "unlocking") /\ \A x \in Runs \ {r} : Same(x)
    BY <1>0, <1>00, <1>12, MovedFields DEF SaveResult
  <2>2. run[r].pc = "saving" /\ lock' = lock /\ jobs' = jobs /\ beaten' \subseteq beaten
    BY <1>12 DEF SaveResult
  <2> QED
    BY <1>0, <1>00, <2>1, <2>2 DEF StepKind, Moving
<1>13. ASSUME NEW r \in Runs, Unlock(r)
       PROVE  StepKind
  <2>1. SameBut(r, "clearing") /\ \A x \in Runs \ {r} : Same(x)
    BY <1>0, <1>00, <1>13, MovedFields DEF Unlock
  <2>2. /\ run[r].pc = "unlocking" /\ jobs' = jobs /\ beaten' = beaten
        /\ \/ lock' = lock
           \/ /\ lock[run[r].id].run = r
              /\ lock' = [lock EXCEPT ![run[r].id] = NoLock]
    BY <1>13 DEF Unlock, DeleteIfOwner
  <2> QED
    BY <2>1, <2>2 DEF StepKind, Ending, Running
<1>14. ASSUME NEW p \in Procs, NEW i \in Ids, CancelRead(p, i)
       PROVE  StepKind
  BY <1>0, <1>14 DEF StepKind, Quiet, CancelRead, Same, SameBut
<1>15. ASSUME NEW p \in Procs, CancelDelete(p)
       PROVE  StepKind
  <2>1. canceller[p].id \in Ids /\ canceller[p].run \in Runs
    BY <1>0, <1>15 DEF TypeOK, CancelDelete, Idle
  <2>2. CASE run' = run /\ lock' = lock
    BY <1>0, <1>15, <2>2 DEF StepKind, Quiet, CancelDelete, Same, SameBut
  <2> QED
    BY <1>0, <1>15, <2>1, <2>2 DEF StepKind, Dequeuing, CancelDelete
<1>16. ASSUME NEW p \in Procs, CancelSave(p)
       PROVE  StepKind
  BY <1>0, <1>16 DEF StepKind, Quiet, CancelSave, Same, SameBut
<1>17. ASSUME NEW p \in Procs, CancelSet(p)
       PROVE  StepKind
  <2>1. canceller[p].run \in Runs
    BY <1>0, <1>17 DEF TypeOK, CancelSet, Idle
  <2>2. \A x \in Runs : Same(x)
    BY <1>0, <1>17, <2>1, AskedFields DEF CancelSet
  <2> QED
    BY <1>0, <1>17, <2>2 DEF StepKind, Quiet, CancelSet
<1>18. ASSUME NEW p \in Procs, CancelAbort(p)
       PROVE  StepKind
  <2>1. \A x \in Runs : Same(x)
    <3>1. CASE run' = run
      BY <3>1 DEF Same, SameBut
    <3>2. CASE run' = Abort(controllers[p][canceller[p].id])
      BY <1>0, <3>2, AbortFields
    <3> QED
      BY <1>18, <3>1, <3>2 DEF CancelAbort
  <2> QED
    BY <1>0, <1>18, <2>1 DEF StepKind, Quiet, CancelAbort
<1>19. CASE Tick \/ \E p \in Procs : Crash(p)
  BY <1>19 DEF StepKind
<1>21. ASSUME NEW r \in Runs, Redeliver(r)
       PROVE  StepKind
  <2>1. Same(r) /\ \A x \in Runs \ {r} : Same(x)
    BY <1>21 DEF Redeliver, Same, SameBut
  <2>2. run[r].pc \in Steps
    BY <1>0 DEF TypeOK, RunState
  <2> QED
    BY <1>0, <1>21, <2>1, <2>2 DEF StepKind, Moving, Redeliver, Running, Same
<1>22. CASE UNCHANGED vars
  BY <1>0, <1>22 DEF StepKind, Quiet, vars, Same, SameBut
<1>23. ASSUME NEW r \in Runs, NEW i \in Ids, ReserveLost(r, i)
       PROVE  StepKind
  <2>1. /\ run'[r] = [NewRun EXCEPT !.pc = "over", !.id = i]
        /\ \A x \in Runs \ {r} : run'[x] = run[x]
    BY <1>0, <1>23 DEF TypeOK, ReserveLost
  <2>2. /\ run'[r].pc = "over" /\ run'[r].id = i /\ run'[r].claims = 0
        /\ run'[r].dequeued = FALSE /\ run'[r].missed = FALSE
    BY <2>1 DEF NewRun
  <2>3. \A x \in Runs \ {r} : Same(x)
    BY <2>1 DEF Same, SameBut
  <2> QED
    BY <1>0, <1>23, <2>2, <2>3 DEF StepKind, Reserving, ReserveLost
<1>24. ASSUME NEW r \in Runs, ClaimLost(r)
       PROVE  StepKind
  <2>1. run[r].pc # "new"
    BY <1>24 DEF IInv, IdOK, ClaimLost
  <2>2. Over(r) /\ \A x \in Runs \ {r} : Same(x)
    BY <1>0, <1>24, EndedFields DEF ClaimLost
  <2>3. /\ lock[run[r].id].run = r
        /\ lock' = [lock EXCEPT ![run[r].id] = RunningLock(r)]
        /\ jobs' \subseteq jobs
        /\ beaten' = beaten
    BY <1>24 DEF ClaimLost, Claimable, OwnedQueued
  <2> QED
    BY <2>1, <2>2, <2>3 DEF StepKind, Ending
<1> QED
  BY <1>1, <1>2, <1>3, <1>4, <1>5, <1>6, <1>7, <1>8, <1>9, <1>10, <1>11, <1>12,
     <1>13, <1>14, <1>15, <1>16, <1>17, <1>18, <1>19, <1>21, <1>22, <1>23, <1>24
  DEF Next, Control, RunStep, Environment

-----------------------------------------------------------------------------
(* Every kind of step keeps the invariant.                                 *)

\* A reservation: no other run of the id has the lock, so none is healthy.
LEMMA ReserveStep ==
  ASSUME IInv, TypeOK', NEW r \in Runs, NEW i \in Ids, Reserving(r, i)
  PROVE  IInv'
<1> USE DEF Reserving
<1>1. lock' = [lock EXCEPT ![i] = QueuedLock(r)]
  BY DEF Reserve
<1>2. lock[i].run \notin Runs /\ run[r].pc = "new"
  BY ConstantsAssumption DEF Reserve, NoLock
<1>3. IdOK'
  BY DEF IInv, TypeOK, IdOK, Same, SameBut
<1>4. LockNamesRun'
  BY <1>1, <1>2 DEF IInv, TypeOK, LockNamesRun, Same, SameBut, QueuedLock
<1>5. ClaimsOK'
  BY DEF IInv, ClaimsOK, Same, SameBut
<1>6. LockKept'
  <2>1. \A x \in Runs : Healthy(x)' => x # r /\ Healthy(x) /\ run[x].id # i
    BY <1>2 DEF IInv, LockKept, Healthy, Running, Same, SameBut
  <2> QED
    BY <1>1, <2>1 DEF IInv, TypeOK, LockKept, Same, SameBut
<1>7. NobodyMissed'
  BY DEF IInv, NobodyMissed, Same, SameBut
<1> QED
  BY <1>3, <1>4, <1>5, <1>6, <1>7 DEF IInv

\* A run that goes on: no lock changes, and it runs only if it ran.
LEMMA MoveStep ==
  ASSUME IInv, TypeOK', NEW r \in Runs, NEW s \in Steps, Moving(r, s)
  PROVE  IInv'
<1> USE DEF Moving
<1>1. IdOK'
  BY DEF IInv, TypeOK, IdOK, Same, SameBut
<1>2. LockNamesRun'
  BY DEF IInv, LockNamesRun, Same, SameBut
<1>3. ClaimsOK'
  BY DEF IInv, ClaimsOK, Same, SameBut
<1>4. LockKept'
  BY DEF IInv, LockKept, Healthy, Running, Same, SameBut
<1>5. NobodyMissed'
  BY DEF IInv, NobodyMissed, Same, SameBut
<1> QED
  BY <1>1, <1>2, <1>3, <1>4, <1>5 DEF IInv

\* A run that ends, or unlocks: it takes away no lock but its own.
LEMMA EndStep ==
  ASSUME IInv, TypeOK', NEW r \in Runs, Ending(r)
  PROVE  IInv'
<1> USE DEF Ending
<1>1. IdOK'
  BY DEF IInv, TypeOK, IdOK, Same, SameBut, Over
<1>2. NoLock.run \notin Runs
  BY ConstantsAssumption DEF NoLock
<1>3. \A i \in Ids : \/ lock'[i] = lock[i]
                     \/ /\ lock[i].run = r
                        /\ \/ lock'[i].run \notin Runs
                           \/ lock'[i].run = r /\ lock'[i].state = "running"
  BY <1>2 DEF IInv, TypeOK, RunningLock
<1>4. LockNamesRun'
  BY <1>3 DEF IInv, LockNamesRun, Same, SameBut, Over
<1>5. ClaimsOK'
  BY DEF IInv, ClaimsOK, Same, SameBut, Over
<1>6. LockKept'
  <2>1. \A x \in Runs : Healthy(x)' => x # r /\ Healthy(x)
    BY DEF Healthy, Running, Same, SameBut, Over
  <2>2. \A x \in Runs : Healthy(x)' => lock'[run[x].id] = lock[run[x].id]
    BY <1>3, <2>1 DEF IInv, LockKept, IdOK, Healthy, Running
  <2> QED
    BY <2>1, <2>2 DEF IInv, LockKept, Same, SameBut
<1>7. NobodyMissed'
  BY DEF IInv, NobodyMissed, Same, SameBut, Over
<1> QED
  BY <1>1, <1>4, <1>5, <1>6, <1>7 DEF IInv

\* A claim: the queued lock was of a run never claimed, and is its running lock now.
LEMMA ClaimStep ==
  ASSUME IInv, TypeOK', NEW r \in Runs, Claiming(r)
  PROVE  IInv'
<1> DEFINE i == run[r].id
<1>0. PICK p \in Procs \union {None} : Claim(p, r) /\ run[r].pc # "new"
  BY DEF Claiming
<1>1. i \in Ids /\ lock[i].run = r /\ lock[i].state = "queued"
  BY <1>0 DEF IInv, IdOK, Claim, Claimable, OwnedQueued
<1>2. /\ lock' = [lock EXCEPT ![i] = [run |-> r, state |-> "running", ttl |-> RunLockTtl]]
      /\ beaten' = beaten \union {r}
  BY <1>0 DEF Claim, RunningLock
<1>3. /\ \A x \in Runs \ {r} : Same(x)
      /\ run'[r].pc = "crawling"
      /\ run'[r].id = run[r].id
      /\ run'[r].missed = run[r].missed
      /\ run'[r].claims = 1
      /\ run'[r].dequeued = FALSE
  BY <1>0, <1>1, ClaimFields DEF IInv, LockNamesRun, TypeOK, RunState
<1>4. IdOK'
  BY <1>0, <1>1, <1>3 DEF IInv, TypeOK, IdOK, Claiming, Same, SameBut
<1>5. LockNamesRun'
  BY <1>1, <1>2, <1>3 DEF IInv, TypeOK, LockNamesRun, Same, SameBut
<1>6. ClaimsOK'
  BY <1>3 DEF IInv, ClaimsOK, Same, SameBut
<1>7. LockKept'
  <2>1. \A x \in Runs \ {r} : Healthy(x)' => Healthy(x) /\ run[x].id # i
    BY <1>1, <1>3 DEF IInv, LockKept, Healthy, Running, Same, SameBut
  <2>2. \A x \in Runs \ {r} : Healthy(x)' => lock'[run[x].id] = lock[run[x].id]
    BY <1>2, <2>1, <1>1 DEF IInv, TypeOK
  <2>3. lock'[i] = [run |-> r, state |-> "running", ttl |-> RunLockTtl]
    BY <1>1, <1>2 DEF IInv, TypeOK
  <2> QED
    BY <1>2, <1>3, <2>1, <2>2, <2>3, ConstantsAssumption
    DEF IInv, LockKept, Same, SameBut
<1>8. NobodyMissed'
  BY <1>3 DEF IInv, NobodyMissed, Same, SameBut
<1> QED
  BY <1>4, <1>5, <1>6, <1>7, <1>8 DEF IInv

\* r, if it owns the lock, gives it its full time again.
LEMMA BeatStep ==
  ASSUME IInv, TypeOK', NEW r \in Runs, Beat(r)
  PROVE  IInv'
<1>1. \A x \in Runs : Same(x)
  <2>1. CASE run' = Abort(r)
    BY <2>1, AbortFields DEF IInv
  <2>2. CASE run' = run
    BY <2>2 DEF Same, SameBut
  <2> QED
    BY <2>1, <2>2 DEF Beat
<1>2. \A i \in Ids : /\ lock'[i].run = lock[i].run
                     /\ lock'[i].state = lock[i].state
                     /\ lock'[i].ttl = IF run[r].id = i /\ lock[i].run = r
                                       THEN RunLockTtl ELSE lock[i].ttl
  BY DEF IInv, TypeOK, Beat, Extend, Lock, NoLock
<1>3. jobs' = jobs /\ beaten' = beaten \union {r}
  BY DEF Beat
<1>4. IdOK'
  BY <1>1, <1>3 DEF IInv, TypeOK, IdOK, Same, SameBut
<1>5. LockNamesRun'
  BY <1>1, <1>2 DEF IInv, LockNamesRun, Same, SameBut
<1>6. ClaimsOK'
  BY <1>1 DEF IInv, ClaimsOK, Same, SameBut
<1>7. LockKept'
  <2>1. \A x \in Runs : Healthy(x)' => Healthy(x) /\ run[x].id \in Ids
    BY <1>1 DEF IInv, IdOK, Healthy, Running, Same, SameBut
  <2>2. \A i \in Ids : lock[i].ttl \in Nat
    BY DEF IInv, TypeOK, Lock, NoLock
  <2> QED
    BY <1>1, <1>2, <1>3, <2>1, <2>2, ConstantsAssumption
    DEF IInv, LockKept, Same, SameBut
<1>8. NobodyMissed'
  BY <1>1 DEF IInv, NobodyMissed, Same, SameBut
<1> QED
  BY <1>4, <1>5, <1>6, <1>7, <1>8 DEF IInv

\* A tick: every lock ages; a healthy run whose heartbeat ran keeps its own, one
\* whose heartbeat did not run is healthy no more.
LEMMA TickStep ==
  ASSUME IInv, TypeOK', Tick
  PROVE  IInv'
<1> DEFINE late == {r \in Runs : Running(r) /\ r \notin beaten}
<1>1. \A x \in Runs : /\ run'[x].pc = run[x].pc
                      /\ run'[x].id = run[x].id
                      /\ x \in late => run'[x].missed = TRUE
                      /\ x \notin late => run'[x].missed = run[x].missed
                      /\ run'[x].claims = run[x].claims
                      /\ run'[x].dequeued = run[x].dequeued
  <2>1. ASSUME NEW x \in Runs
        PROVE  run'[x] = IF x \in late THEN [run[x] EXCEPT !.missed = TRUE] ELSE run[x]
    BY Zenon DEF Tick
  <2>2. ASSUME NEW x \in Runs
        PROVE  run[x] \in RunState
    BY DEF IInv, TypeOK
  <2> QED
    BY <2>1, <2>2 DEF RunState
<1>2. \A i \in Ids : \/ lock'[i].run \notin Runs /\ lock[i].ttl <= 1
                     \/ /\ lock[i].ttl > 1
                        /\ lock'[i].run = lock[i].run
                        /\ lock'[i].state = lock[i].state
                        /\ lock'[i].ttl = lock[i].ttl - 1
  BY ConstantsAssumption DEF IInv, TypeOK, Tick, Aged, Lock, NoLock
<1>3. jobs' = jobs /\ beaten' = {}
  BY DEF Tick
<1>4. IdOK'
  BY <1>1, <1>3 DEF IInv, TypeOK, IdOK
<1>5. LockNamesRun'
  BY <1>1, <1>2 DEF IInv, LockNamesRun
<1>6. ClaimsOK'
  BY <1>1 DEF IInv, ClaimsOK
<1>7. LockKept'
  <2>1. \A x \in Runs : Healthy(x)' => /\ Healthy(x)
                                       /\ x \in beaten
                                       /\ run[x].id \in Ids
    BY <1>1 DEF IInv, IdOK, Healthy, Running
  <2>2. \A i \in Ids : lock[i].ttl \in Nat
    BY DEF IInv, TypeOK, Lock, NoLock
  <2> QED
    BY <1>1, <1>2, <1>3, <2>1, <2>2, ConstantsAssumption DEF IInv, LockKept
<1>8. NobodyMissed'
  BY <1>1 DEF IInv, NobodyMissed, Tick
<1> QED
  BY <1>4, <1>5, <1>6, <1>7, <1>8 DEF IInv

\* A crash: the runs of the process are over, their locks stay.
LEMMA CrashStep ==
  ASSUME IInv, TypeOK', NEW p \in Procs, Crash(p)
  PROVE  IInv'
<1> DEFINE dead == {r \in Runs : DiesWith(r, p)}
<1>1. \A x \in Runs : IF x \in dead THEN run[x].pc # "new" /\ Over(x) ELSE Same(x)
  BY DEF IInv, TypeOK, Crash, DiesWith, Ended, NewRun, Over, Same, SameBut
<1>2. lock' = lock /\ beaten' \subseteq beaten /\ jobs' \subseteq jobs \union dead
  BY DEF Crash
<1>3. IdOK'
  BY <1>1, <1>2 DEF IInv, TypeOK, IdOK, Same, SameBut, Over
<1>4. LockNamesRun'
  BY <1>1, <1>2 DEF IInv, LockNamesRun, Same, SameBut, Over
<1>5. ClaimsOK'
  BY <1>1 DEF IInv, ClaimsOK, Same, SameBut, Over
<1>6. LockKept'
  BY <1>1, <1>2 DEF IInv, LockKept, Healthy, Running, Same, SameBut, Over
<1>7. NobodyMissed'
  BY <1>1 DEF IInv, NobodyMissed, Same, SameBut, Over
<1> QED
  BY <1>3, <1>4, <1>5, <1>6, <1>7 DEF IInv

\* A cancel of a queued run: the lock it removes is no healthy run's.
LEMMA DequeueStep ==
  ASSUME IInv, TypeOK', NEW i \in Ids, NEW r \in Runs, Dequeuing(i, r)
  PROVE  IInv'
<1> USE DEF Dequeuing
<1>1. run[r].claims = 0 /\ run[r].pc # "new" /\ run[r].id = i
  BY DEF IInv, LockNamesRun, OwnedQueued
<1>2. /\ \A x \in Runs \ {r} : Same(x)
      /\ run'[r].pc = run[r].pc
      /\ run'[r].id = run[r].id
      /\ run'[r].missed = run[r].missed
      /\ run'[r].claims = run[r].claims
  BY DequeuedFields DEF IInv
<1>3. \A j \in Ids : IF j = i THEN lock'[j].run \notin Runs ELSE lock'[j] = lock[j]
  BY ConstantsAssumption DEF IInv, TypeOK, NoLock
<1>4. IdOK'
  <2>1. \A x \in Runs : run'[x].pc = run[x].pc /\ run'[x].id = run[x].id
    BY <1>2 DEF Same, SameBut
  <2> QED
    BY <2>1 DEF IInv, TypeOK, IdOK
<1>5. LockNamesRun'
  BY <1>1, <1>2, <1>3 DEF IInv, LockNamesRun, Same, SameBut
<1>6. ClaimsOK'
  BY <1>1, <1>2 DEF IInv, ClaimsOK, Same, SameBut
<1>7. LockKept'
  <2>1. \A x \in Runs : Healthy(x)' => /\ Healthy(x)
                                       /\ run'[x].id = run[x].id
                                       /\ run[x].id \in Ids
    BY <1>2 DEF IInv, IdOK, Healthy, Running, Same, SameBut
  <2>2. \A x \in Runs : Healthy(x)' => run[x].id # i
    BY <2>1 DEF IInv, LockKept, OwnedQueued
  <2> QED
    BY <1>3, <2>1, <2>2 DEF IInv, LockKept
<1>8. NobodyMissed'
  BY <1>2 DEF IInv, NobodyMissed, Same, SameBut
<1> QED
  BY <1>4, <1>5, <1>6, <1>7, <1>8 DEF IInv

\* Nothing of the invariant changes.
LEMMA QuietStep ==
  ASSUME IInv, TypeOK', Quiet
  PROVE  IInv'
<1> USE DEF Quiet
<1>1. IdOK'
  BY DEF IInv, TypeOK, IdOK, Same, SameBut
<1>2. LockNamesRun'
  BY DEF IInv, LockNamesRun, Same, SameBut
<1>3. ClaimsOK'
  BY DEF IInv, ClaimsOK, Same, SameBut
<1>4. LockKept'
  BY DEF IInv, LockKept, Healthy, Running, Same, SameBut
<1>5. NobodyMissed'
  BY DEF IInv, NobodyMissed, Same, SameBut
<1> QED
  BY <1>1, <1>2, <1>3, <1>4, <1>5 DEF IInv

\* Every step keeps the invariant.
LEMMA IInvStep == IInv /\ [Next]_vars => IInv'
<1> SUFFICES ASSUME IInv, [Next]_vars PROVE IInv'
  OBVIOUS
<1>1. TypeOK'
  BY TypeStep DEF IInv
<1>2. StepKind
  BY StepKinds
<1> QED
  BY <1>1, <1>2, ReserveStep, MoveStep, EndStep, ClaimStep, BeatStep, TickStep,
     CrashStep, DequeueStep, QuietStep
  DEF StepKind

\* The invariant holds in every state.
THEOREM InvariantCorrect == Spec => []IInv
  BY IInvInit, IInvStep, PTL DEF Spec

-----------------------------------------------------------------------------
(* What follows from the invariant.                                        *)

\* A healthy run owns the lock of its id, in state running.
THEOREM HealthyHoldsLockCorrect == Spec => []HealthyHoldsLock
<1>1. IInv => HealthyHoldsLock
  BY DEF IInv, LockKept, HealthyHoldsLock
<1> QED
  BY <1>1, InvariantCorrect, PTL

\* Where no process stalls, no id is crawled twice at the same time.
THEOREM SingleCrawlCorrect == ASSUME ~MayStall PROVE Spec => []SingleCrawl
<1>1. IInv => SingleCrawl
  BY DEF IInv, LockKept, NobodyMissed, Healthy, SingleCrawl
<1> QED
  BY <1>1, InvariantCorrect, PTL

\* The claim of a run succeeds once, however often its command is delivered.
THEOREM ClaimedOnceCorrect == Spec => []ClaimedOnce
<1>1. IInv => ClaimedOnce
  BY DEF IInv, ClaimsOK, ClaimedOnce
<1> QED
  BY <1>1, InvariantCorrect, PTL

\* A run that a cancel dequeued never starts.
THEOREM DequeuedNeverRunsCorrect == Spec => []DequeuedNeverRuns
<1>1. IInv => DequeuedNeverRuns
  BY DEF IInv, ClaimsOK, DequeuedNeverRuns
<1> QED
  BY <1>1, InvariantCorrect, PTL

-----------------------------------------------------------------------------
(* Cancels: which runs are aborted, by whom and how soon.  A second        *)
(* invariant on top of the first, about the fields that concern a cancel,  *)
(* and a second account of the kinds of steps, in those fields.            *)

Kept(x) ==
  /\ run'[x].pc = run[x].pc
  /\ run'[x].id = run[x].id
  /\ run'[x].proc = run[x].proc
  /\ run'[x].parent = run[x].parent
  /\ run'[x].commanded = run[x].commanded
  /\ run'[x].asked = run[x].asked
  /\ run'[x].claims = run[x].claims
  /\ run'[x].aborted = run[x].aborted
  /\ run'[x].missed = run[x].missed

\* a run between its claim and the end of its release has been claimed
Started ==
  \A r \in Runs :
    run[r].pc \in {"crawling", "saving", "unlocking", "clearing"} => run[r].claims > 0

\* r is reserved, with a command to send, by a schedule, or in the loop of a batch
Beginning(r) ==
  /\ run[r].pc = "new"
  /\ run'[r].id \in Ids
  /\ ~run'[r].aborted
  /\ ~run'[r].asked
  /\ ~run'[r].missed
  /\ run'[r].claims = 0
  /\ \/ run'[r].pc \in {"reserved", "over"} /\ run'[r].parent = None
     \/ /\ run'[r].pc = "acquiring"
        /\ ~run'[r].commanded
        /\ run'[r].parent = None
        /\ run'[r].proc \in Workers
     \/ /\ run'[r].pc = "acquiring"
        /\ ~run'[r].commanded
        /\ run'[r].parent \in Runs \ {r}
        /\ run[run'[r].parent].pc = "crawling"
        /\ run[run'[r].parent].id \in BatchIds
        /\ run'[r].proc = run[run'[r].parent].proc
        /\ run'[r].id \in Targets
  /\ \A x \in Runs \ {r} : Kept(x)
  /\ jobs' = jobs
  /\ controllers' = controllers
  /\ beaten' = beaten

\* r goes on to the step s of its code
GoingOn(r, s) ==
  /\ run'[r].pc = s
  /\ run'[r].id = run[r].id
  /\ run'[r].proc = run[r].proc
  /\ run'[r].parent = run[r].parent
  /\ run'[r].commanded = run[r].commanded
  /\ run'[r].asked = run[r].asked
  /\ run'[r].claims = run[r].claims
  /\ run'[r].aborted = run[r].aborted
  /\ run'[r].missed = run[r].missed
  /\ \A x \in Runs \ {r} : Kept(x)
  /\ jobs' \subseteq jobs \union {r}
  /\ jobs' # jobs => run[r].pc = "reserved"
  /\ \/ run[r].pc = "reserved" /\ s \in {"dispatched", "discarding"}
     \/ /\ run[r].pc = "crawling" /\ s = "saving"
        /\ run[r].id \in Targets \/ \A x \in Children(r) : run[x].pc = "over"
     \/ run[r].pc = "saving" /\ s = "unlocking"
     \/ run[r].pc = "unlocking" /\ s = "clearing"
  /\ controllers' = IF s = "unlocking"
                    THEN [controllers EXCEPT ![run[r].proc][run[r].id] = None]
                    ELSE controllers
  /\ beaten' = IF s = "unlocking" THEN beaten \ {r} ELSE beaten

\* r ends in a process that lives on, and not while it crawls
Finishing(r) ==
  /\ run[r].pc \notin {"new", "crawling", "saving"}
  /\ run' = [run EXCEPT ![r] = Ended(r)]
  /\ jobs' \subseteq jobs
  /\ controllers' = controllers
  /\ beaten' = beaten

\* r is claimed where its command is taken, or where it was acquired
Taking(p, r) ==
  /\ Claim(p, r)
  /\ \/ r \in jobs /\ p \in Procs /\ (~Inline => p \in Workers)
     \/ run[r].pc = "acquiring" /\ p = run[r].proc
  /\ jobs' \subseteq jobs
  /\ cancelKey' = cancelKey

\* r is aborted, by its heartbeat or by a cancel in the process it runs in
Aborting(r) ==
  /\ run' = Abort(r)
  /\ \/ CancelSeen(r) /\ Running(r)
     \/ \E p \in Procs, i \in Ids : /\ controllers[p][i] = r
                                   /\ canceller[p].step = "abort"
  /\ jobs' = jobs
  /\ controllers' = controllers

\* a cancel notes what it did to r
Noting(r) ==
  /\ run' = Noted(r, "dequeued") \/ run' = Noted(r, "asked")
  /\ jobs' = jobs
  /\ controllers' = controllers
  /\ beaten' = beaten

\* nothing changes but the todo of a batch, and the queue repeats a command
Resting ==
  /\ \A x \in Runs : Kept(x)
  /\ jobs' \subseteq jobs \union {r \in Runs : run[r].commanded /\ run[r].pc # "new"}
  /\ controllers' = controllers
  /\ beaten \subseteq beaten'

CancelKind ==
  \/ \E r \in Runs : Beginning(r) \/ Finishing(r) \/ Aborting(r) \/ Noting(r)
  \/ \E r \in Runs, s \in Steps : GoingOn(r, s)
  \/ \E r \in Runs, p \in Procs \union {None} : Taking(p, r)
  \/ Tick
  \/ \E p \in Procs : Crash(p)
  \/ Resting

\* Every step is of one of these kinds.
LEMMA CancelKinds == IInv /\ Started /\ [Next]_vars => CancelKind
<1> SUFFICES ASSUME IInv, Started, [Next]_vars PROVE CancelKind
  OBVIOUS
<1>0. TypeOK
  BY DEF IInv
<1>00. {"dispatched", "discarding", "saving", "unlocking", "clearing"} \subseteq Steps
  BY DEF Steps
<1>01. \A x \in Runs : run[x] \in RunState
  BY <1>0 DEF TypeOK
<1>02. ASSUME NEW x \in Runs, run'[x] = run[x] PROVE Kept(x)
  BY <1>02 DEF Kept
<1>1. ASSUME NEW p \in Procs, NEW r \in Runs, NEW i \in Ids, Start(p, r, i)
      PROVE  CancelKind
  <2>1. /\ run'[r] = [NewRun EXCEPT !.pc = "reserved", !.id = i, !.proc = p,
                                    !.commanded = TRUE]
        /\ \A x \in Runs \ {r} : run'[x] = run[x]
    BY <1>0, <1>1 DEF TypeOK, Start
  <2>2. /\ run'[r].pc = "reserved" /\ run'[r].id = i /\ run'[r].claims = 0
        /\ ~run'[r].aborted /\ ~run'[r].asked /\ ~run'[r].missed
        /\ run'[r].parent = None
    BY <2>1 DEF NewRun
  <2>3. \A x \in Runs \ {r} : Kept(x)
    BY <1>02, <2>1
  <2>4. run[r].pc = "new" /\ jobs' = jobs /\ controllers' = controllers /\ beaten' = beaten
    BY <1>1 DEF Start, Reserve
  <2> QED
    BY <2>2, <2>3, <2>4 DEF CancelKind, Beginning
<1>2. ASSUME NEW p \in Procs, NEW r \in Runs, NEW t \in Targets,
             ScheduledStart(p, r, t)
      PROVE  CancelKind
  <2>1. /\ run'[r] = [NewRun EXCEPT !.pc = "acquiring", !.id = t, !.proc = p]
        /\ \A x \in Runs \ {r} : run'[x] = run[x]
    BY <1>0, <1>2 DEF TypeOK, ScheduledStart
  <2>2. /\ run'[r].pc = "acquiring" /\ run'[r].id = t /\ run'[r].claims = 0
        /\ ~run'[r].aborted /\ ~run'[r].asked /\ ~run'[r].missed
        /\ ~run'[r].commanded /\ run'[r].proc = p
        /\ run'[r].parent = None
    BY <2>1 DEF NewRun
  <2>3. \A x \in Runs \ {r} : Kept(x)
    BY <1>02, <2>1
  <2>4. /\ run[r].pc = "new" /\ jobs' = jobs /\ controllers' = controllers /\ beaten' = beaten
        /\ p \in Workers
    BY <1>2 DEF ScheduledStart, Reserve
  <2>5. t \in Ids
    BY DEF Ids
  <2> QED
    BY <2>2, <2>3, <2>4, <2>5 DEF CancelKind, Beginning
<1>3. ASSUME NEW b \in Runs, NEW r \in Runs, NEW t \in Targets,
             BatchStart(b, r, t)
      PROVE  CancelKind
  <2>1. b # r
    BY <1>3 DEF BatchStart, BatchLoops, Reserve
  <2>2. /\ run'[r] = [NewRun EXCEPT !.pc = "acquiring", !.id = t,
                                    !.proc = run[b].proc, !.parent = b]
        /\ run'[b] = [run[b] EXCEPT !.todo = run[b].todo \ {t}]
        /\ \A x \in Runs \ {r, b} : run'[x] = run[x]
    BY <1>0, <1>3, <2>1 DEF TypeOK, BatchStart
  <2>3. Kept(b)
    BY <1>01, <2>2 DEF RunState, Kept
  <2>4. \A x \in Runs \ {r} : Kept(x)
    BY <1>02, <2>2, <2>3
  <2>5. /\ run'[r].pc = "acquiring" /\ run'[r].id = t /\ run'[r].claims = 0
        /\ ~run'[r].aborted /\ ~run'[r].asked /\ ~run'[r].missed
        /\ ~run'[r].commanded /\ run'[r].proc = run[b].proc
        /\ run'[r].parent = b
    BY <2>2 DEF NewRun
  <2>6. /\ run[r].pc = "new" /\ jobs' = jobs /\ controllers' = controllers /\ beaten' = beaten
        /\ run[b].pc = "crawling" /\ run[b].id \in BatchIds
    BY <1>3 DEF BatchStart, BatchLoops, Reserve
  <2>7. t \in Ids
    BY DEF Ids
  <2> QED
    BY <2>1, <2>4, <2>5, <2>6, <2>7 DEF CancelKind, Beginning
<1>4. ASSUME NEW p \in Procs, NEW r \in Runs, ClaimJob(p, r)
      PROVE  CancelKind
  <2>1. Taking(p, r)
    BY <1>4 DEF Taking, ClaimJob, Delivered
  <2> QED
    BY <2>1 DEF CancelKind
<1>5. ASSUME NEW r \in Runs, ClaimAcquired(r)
      PROVE  CancelKind
  <2>1. run[r].proc \in Procs \union {None}
    BY <1>01 DEF RunState
  <2>2. Taking(run[r].proc, r)
    BY <1>5 DEF Taking, ClaimAcquired
  <2> QED
    BY <2>1, <2>2 DEF CancelKind
<1>6. ASSUME NEW p \in Procs, NEW r \in Runs, SkipJob(p, r)
      PROVE  CancelKind
  <2>1. CASE run[r].pc = "dispatched"
    <3>1. Finishing(r)
      BY <1>6, <2>1 DEF SkipJob, Finishing
    <3> QED
      BY <3>1 DEF CancelKind
  <2>2. CASE run[r].pc # "dispatched"
    <3>1. run' = run /\ jobs' \subseteq jobs /\ controllers' = controllers /\ beaten' = beaten
      BY <1>6, <2>2 DEF SkipJob
    <3>2. Resting
      BY <1>02, <3>1 DEF Resting
    <3> QED
      BY <3>2 DEF CancelKind
  <2> QED
    BY <2>1, <2>2
<1>7. ASSUME NEW r \in Runs, NEW s \in {"dispatched", "discarding", "saving", "unlocking", "clearing"},
             \/ run' = [run EXCEPT ![r].pc = s]
             \/ \E f \in BOOLEAN : run' = [run EXCEPT ![r].pc = s, ![r].failed = f]
      PROVE  /\ run'[r].pc = s
             /\ run'[r].id = run[r].id
             /\ run'[r].proc = run[r].proc
             /\ run'[r].parent = run[r].parent
             /\ run'[r].commanded = run[r].commanded
             /\ run'[r].asked = run[r].asked
             /\ run'[r].claims = run[r].claims
             /\ run'[r].aborted = run[r].aborted
             /\ run'[r].missed = run[r].missed
             /\ \A x \in Runs \ {r} : Kept(x)
  BY <1>0, <1>7 DEF TypeOK, RunState, Kept
<1>8. ASSUME NEW r \in Runs, Dispatch(r) \/ DispatchFails(r)
      PROVE  CancelKind
  <2>1. PICK s \in {"dispatched", "discarding"} : run' = [run EXCEPT ![r].pc = s]
    BY <1>8 DEF Dispatch, DispatchFails
  <2>2. /\ run[r].pc = "reserved" /\ jobs' \subseteq jobs \union {r}
        /\ controllers' = controllers /\ beaten' = beaten
    BY <1>8 DEF Dispatch, DispatchFails
  <2>3. GoingOn(r, s)
    BY <1>7, <2>1, <2>2 DEF GoingOn
  <2> QED
    BY <1>00, <2>3 DEF CancelKind
<1>9. ASSUME NEW r \in Runs, CrawlEnds(r) \/ BatchEnds(r)
      PROVE  CancelKind
  <2>1. PICK f \in BOOLEAN : run' = [run EXCEPT ![r].pc = "saving", ![r].failed = f]
    BY <1>9 DEF CrawlEnds, BatchEnds
  <2>2. /\ run[r].pc = "crawling" /\ jobs' = jobs
        /\ controllers' = controllers /\ beaten' = beaten
        /\ run[r].id \in Targets \/ \A x \in Children(r) : run[x].pc = "over"
    BY <1>9 DEF CrawlEnds, BatchEnds
  <2>3. GoingOn(r, "saving")
    BY <1>7, <2>1, <2>2 DEF GoingOn
  <2> QED
    BY <1>00, <2>3 DEF CancelKind
<1>10. ASSUME NEW r \in Runs, SaveResult(r)
       PROVE  CancelKind
  <2>1. GoingOn(r, "unlocking")
    BY <1>7, <1>10 DEF GoingOn, SaveResult
  <2> QED
    BY <1>00, <2>1 DEF CancelKind
<1>11. ASSUME NEW r \in Runs, Unlock(r)
       PROVE  CancelKind
  <2>1. GoingOn(r, "clearing")
    BY <1>7, <1>11 DEF GoingOn, Unlock
  <2> QED
    BY <1>00, <2>1 DEF CancelKind
<1>12. ASSUME NEW r \in Runs,
              Discard(r) \/ AcquireFails(r) \/ ClearCancel(r) \/ ReleaseFails(r)
       PROVE  CancelKind
  <2>1. Finishing(r)
    BY <1>12 DEF Finishing, Discard, AcquireFails, ClearCancel, ReleaseFails
  <2> QED
    BY <2>1 DEF CancelKind
<1>13. ASSUME NEW r \in Runs, ClaimLost(r)
       PROVE  CancelKind
  <2>1. run[r].pc # "new" /\ run[r].id \in Ids
    BY <1>13 DEF IInv, IdOK, ClaimLost
  <2>2. run[r].claims = 0
    BY <1>13, <2>1 DEF IInv, LockNamesRun, ClaimLost, Claimable, OwnedQueued
  <2>3. run[r].pc \notin {"crawling", "saving"}
    BY <2>2 DEF Started
  <2>4. Finishing(r)
    BY <1>13, <2>1, <2>3 DEF Finishing, ClaimLost
  <2> QED
    BY <2>4 DEF CancelKind
<1>14. ASSUME NEW b \in Runs, NEW t \in Targets, BatchSkip(b, t)
       PROVE  CancelKind
  <2>1. run' = [run EXCEPT ![b] = [run[b] EXCEPT !.todo = run[b].todo \ {t}]]
    BY <1>14 DEF BatchSkip
  <2>2. \A x \in Runs : Kept(x)
    BY <1>0, <2>1 DEF TypeOK, RunState, Kept
  <2>3. Resting
    BY <1>14, <2>2 DEF Resting, BatchSkip
  <2> QED
    BY <2>3 DEF CancelKind
<1>15. ASSUME NEW r \in Runs, Beat(r)
       PROVE  CancelKind
  <2>1. CASE run' = Abort(r) /\ CancelSeen(r)
    BY <1>15, <2>1 DEF CancelKind, Aborting, Beat
  <2>2. CASE run' = run
    <3>1. Resting
      BY <1>02, <1>15, <2>2 DEF Resting, Beat
    <3> QED
      BY <3>1 DEF CancelKind
  <2> QED
    BY <1>15, <2>1, <2>2 DEF Beat
<1>16. ASSUME NEW p \in Procs, NEW i \in Ids, CancelRead(p, i)
       PROVE  CancelKind
  <2>1. Resting
    BY <1>02, <1>16 DEF Resting, CancelRead
  <2> QED
    BY <2>1 DEF CancelKind
<1>17. ASSUME NEW p \in Procs, CancelDelete(p)
       PROVE  CancelKind
  <2>1. canceller[p].run \in Runs
    BY <1>0, <1>17 DEF TypeOK, CancelDelete, Idle
  <2>2. CASE run' = run
    <3>1. Resting
      BY <1>02, <1>17, <2>2 DEF Resting, CancelDelete
    <3> QED
      BY <3>1 DEF CancelKind
  <2>3. CASE run' = Noted(canceller[p].run, "dequeued")
    BY <1>17, <2>1, <2>3 DEF CancelKind, Noting, CancelDelete
  <2> QED
    BY <1>17, <2>2, <2>3 DEF CancelDelete
<1>18. ASSUME NEW p \in Procs, CancelSave(p)
       PROVE  CancelKind
  <2>1. Resting
    BY <1>02, <1>18 DEF Resting, CancelSave
  <2> QED
    BY <2>1 DEF CancelKind
<1>19. ASSUME NEW p \in Procs, CancelSet(p)
       PROVE  CancelKind
  <2>1. canceller[p].run \in Runs
    BY <1>0, <1>19 DEF TypeOK, CancelSet, Idle
  <2>2. Noting(canceller[p].run)
    BY <1>19 DEF Noting, CancelSet
  <2> QED
    BY <2>1, <2>2 DEF CancelKind
<1>20. ASSUME NEW p \in Procs, CancelAbort(p)
       PROVE  CancelKind
  <2>1. CASE run' = run
    <3>1. Resting
      BY <1>02, <1>20, <2>1 DEF Resting, CancelAbort
    <3> QED
      BY <3>1 DEF CancelKind
  <2>2. CASE run' # run
    <3> DEFINE i == canceller[p].id
               r == controllers[p][i]
    <3>1. i \in Ids
      BY <1>0, <1>20 DEF TypeOK, CancelAbort, Idle
    <3>2. r \in Runs /\ run' = Abort(r)
      BY <1>0, <1>20, <2>2, <3>1 DEF TypeOK, CancelAbort
    <3>3. canceller[p].step = "abort"
      BY <1>20 DEF CancelAbort
    <3> QED
      BY <1>20, <3>1, <3>2, <3>3 DEF CancelKind, Aborting, CancelAbort
  <2> QED
    BY <2>1, <2>2
<1>21. CASE Tick \/ \E p \in Procs : Crash(p)
  BY <1>21 DEF CancelKind
<1>22. ASSUME NEW r \in Runs, Redeliver(r)
       PROVE  CancelKind
  <2>1. Resting
    BY <1>02, <1>22 DEF Resting, Redeliver, Redeliverable, Running
  <2> QED
    BY <2>1 DEF CancelKind
<1>23. CASE UNCHANGED vars
  <2>1. Resting
    BY <1>02, <1>23 DEF Resting, vars
  <2> QED
    BY <2>1 DEF CancelKind
<1>24. ASSUME NEW p \in Procs, NEW r \in Runs, NEW i \in Ids, ReserveLost(r, i)
       PROVE  CancelKind
  <2>1. /\ run'[r] = [NewRun EXCEPT !.pc = "over", !.id = i]
        /\ \A x \in Runs \ {r} : run'[x] = run[x]
    BY <1>0, <1>24 DEF TypeOK, ReserveLost
  <2>2. /\ run'[r].pc = "over" /\ run'[r].id = i /\ run'[r].claims = 0
        /\ ~run'[r].aborted /\ ~run'[r].asked /\ ~run'[r].missed
        /\ run'[r].parent = None
    BY <2>1 DEF NewRun
  <2>3. \A x \in Runs \ {r} : Kept(x)
    BY <1>02, <2>1
  <2>4. run[r].pc = "new" /\ jobs' = jobs /\ controllers' = controllers /\ beaten' = beaten
    BY <1>24 DEF ReserveLost, Reserve
  <2> QED
    BY <2>2, <2>3, <2>4 DEF CancelKind, Beginning
<1> QED
  BY <1>1, <1>2, <1>3, <1>4, <1>5, <1>6, <1>8, <1>9, <1>10, <1>11, <1>12, <1>13,
     <1>14, <1>15, <1>16, <1>17, <1>18, <1>19, <1>20, <1>21, <1>22, <1>23, <1>24
  DEF Next, Control, RunStep, Environment

-----------------------------------------------------------------------------
(* What each kind of step leaves of the fields.                            *)

\* r is over and forgets all but its id, its parent and its claims
Forgotten(r) ==
  /\ run'[r].pc = "over"
  /\ run'[r].id = run[r].id
  /\ run'[r].parent = run[r].parent
  /\ run'[r].claims = run[r].claims
  /\ ~run'[r].aborted
  /\ ~run'[r].asked
  /\ ~run'[r].missed
  /\ ~run'[r].commanded

\* the fields of x that neither a cancel nor a tick changes
Stable(x) ==
  /\ run'[x].pc = run[x].pc
  /\ run'[x].id = run[x].id
  /\ run'[x].proc = run[x].proc
  /\ run'[x].parent = run[x].parent
  /\ run'[x].commanded = run[x].commanded
  /\ run'[x].claims = run[x].claims

\* A run that ends is forgotten; the others change nothing.
LEMMA FinishFields ==
  ASSUME TypeOK, NEW r \in Runs, run' = [run EXCEPT ![r] = Ended(r)]
  PROVE  Forgotten(r) /\ \A x \in Runs \ {r} : Kept(x)
<1>1. run'[r] = Ended(r) /\ \A x \in Runs \ {r} : run'[x] = run[x]
  BY DEF TypeOK
<1>2. Forgotten(r)
  <2>1. /\ Ended(r).pc = "over" /\ Ended(r).id = run[r].id
        /\ Ended(r).parent = run[r].parent /\ Ended(r).claims = run[r].claims
        /\ ~Ended(r).aborted /\ ~Ended(r).asked /\ ~Ended(r).missed
        /\ ~Ended(r).commanded
    BY DEF Ended, NewRun
  <2> QED
    BY <1>1, <2>1, Zenon DEF Forgotten
<1> QED
  BY <1>1, <1>2 DEF Kept

\* A crash makes its process forget its runs, and changes no other.
LEMMA CrashFields ==
  ASSUME TypeOK, NEW p \in Procs, Crash(p)
  PROVE  \A x \in Runs : IF DiesWith(x, p) THEN Forgotten(x) ELSE Kept(x)
<1> SUFFICES ASSUME NEW x \in Runs
             PROVE  IF DiesWith(x, p) THEN Forgotten(x) ELSE Kept(x)
  OBVIOUS
<1>1. run'[x] = IF DiesWith(x, p) THEN Ended(x) ELSE run[x]
  BY DEF Crash
<1>2. CASE DiesWith(x, p)
  BY <1>1, <1>2 DEF Forgotten, Ended, NewRun
<1>3. CASE ~DiesWith(x, p)
  BY <1>1, <1>3 DEF Kept
<1> QED
  BY <1>2, <1>3

\* A claim sets the step, the process, the count and the signal of its run.
LEMMA TakeFields ==
  ASSUME TypeOK, NEW p, NEW r \in Runs, Claim(p, r)
  PROVE  /\ \A x \in Runs \ {r} : Kept(x)
         /\ run'[r].pc = "crawling"
         /\ run'[r].proc = p
         /\ run'[r].aborted = ParentAborted(r)
         /\ run'[r].claims = run[r].claims + 1
         /\ run'[r].id = run[r].id
         /\ run'[r].parent = run[r].parent
         /\ run'[r].commanded = run[r].commanded
         /\ run'[r].asked = run[r].asked
         /\ run'[r].missed = run[r].missed
  BY DEF TypeOK, RunState, Kept, Claim

\* An abort sets the signals of the run and of the runs it is the parent of.
LEMMA AbortedFields ==
  ASSUME TypeOK, NEW r \in Runs, run' = Abort(r)
  PROVE  \A x \in Runs :
           /\ Stable(x)
           /\ run'[x].asked = run[x].asked
           /\ run'[x].missed = run[x].missed
           /\ run'[x].aborted = (run[x].aborted \/ x = r
                                  \/ (run[x].parent = r /\ Running(x)))
<1> SUFFICES ASSUME NEW x \in Runs
             PROVE  /\ Stable(x)
                    /\ run'[x].asked = run[x].asked
                    /\ run'[x].missed = run[x].missed
                    /\ run'[x].aborted = (run[x].aborted \/ x = r
                                           \/ (run[x].parent = r /\ Running(x)))
  OBVIOUS
<1>1. run[x] \in RunState
  BY DEF TypeOK
<1>2. run'[x] = IF x = r \/ (run[x].parent = r /\ Running(x))
                THEN [run[x] EXCEPT !.aborted = TRUE] ELSE run[x]
  BY DEF Abort
<1>3. CASE x = r \/ (run[x].parent = r /\ Running(x))
  BY <1>1, <1>2, <1>3 DEF RunState, Stable
<1>4. CASE ~(x = r \/ (run[x].parent = r /\ Running(x)))
  BY <1>1, <1>2, <1>4 DEF RunState, Stable
<1> QED
  BY <1>3, <1>4

\* A note of a cancel changes no field but asked, which it never takes back.
LEMMA NoteFields ==
  ASSUME TypeOK, NEW r \in Runs, Noting(r)
  PROVE  \A x \in Runs : /\ Stable(x)
                         /\ run'[x].missed = run[x].missed
                         /\ run'[x].aborted = run[x].aborted
                         /\ run[x].asked => run'[x].asked
<1> SUFFICES ASSUME NEW x \in Runs
             PROVE  /\ Stable(x)
                    /\ run'[x].missed = run[x].missed
                    /\ run'[x].aborted = run[x].aborted
                    /\ run[x].asked => run'[x].asked
  OBVIOUS
<1>1. run[x] \in RunState
  BY DEF TypeOK
<1>2. \/ run'[x] = run[x]
      \/ run'[x] = [run[x] EXCEPT !.dequeued = TRUE]
      \/ run'[x] = [run[x] EXCEPT !.asked = TRUE]
  BY DEF TypeOK, Noting, Noted
<1> QED
  BY <1>1, <1>2 DEF RunState, Stable

\* A tick changes no field but missed.
LEMMA TickFields ==
  ASSUME TypeOK, Tick
  PROVE  \A x \in Runs : /\ Stable(x)
                         /\ run'[x].aborted = run[x].aborted
                         /\ run'[x].asked = run[x].asked
<1> SUFFICES ASSUME NEW x \in Runs
             PROVE  /\ Stable(x)
                    /\ run'[x].aborted = run[x].aborted
                    /\ run'[x].asked = run[x].asked
  OBVIOUS
<1>1. run[x] \in RunState
  BY DEF TypeOK
<1>2. run'[x] = run[x] \/ run'[x] = [run[x] EXCEPT !.missed = TRUE]
  BY DEF Tick
<1> QED
  BY <1>1, <1>2 DEF RunState, Stable

-----------------------------------------------------------------------------
(* Batches and the runs of their targets.                                  *)

\* The run of a target that a batch started is not commanded and lives in the
\* process of the batch, which crawls as long as the target's run is not over.
ParentsOK ==
  \A x \in Runs :
    LET b == run[x].parent IN
    b # None =>
      /\ run[x].id \in Targets
      /\ ~run[x].commanded
      /\ x \notin jobs
      /\ run[x].pc \notin {"new", "reserved", "discarding", "dispatched"}
      /\ run[b].id \in BatchIds
      /\ run[b].pc # "new"
      /\ run[b].claims > 0
      /\ run[x].pc # "over" => run[b].pc = "crawling" /\ run[x].proc = run[b].proc

\* What is new or over is not aborted.
EndsUnaborted ==
  \A r \in Runs : run[r].pc \in {"new", "over"} => ~run[r].aborted

\* A registered controller is that of a run that executes in the process.
ControllersLive ==
  \A p \in Procs, i \in Ids, r \in Runs :
    controllers[p][i] = r => Running(r) /\ run[r].proc = p /\ run[r].id = i

FamilyInv ==
  /\ IInv
  /\ Started
  /\ ParentsOK
  /\ EndsUnaborted
  /\ ControllersLive
  /\ ChildFollowsParent

\* Initially no run has a parent, a controller or an aborted signal.
LEMMA FamilyInit == Init => FamilyInv
<1> SUFFICES ASSUME Init PROVE FamilyInv
  OBVIOUS
<1>1. \A r \in Runs : run[r] = NewRun
  BY DEF Init
<1>2. ControllersLive
  BY ConstantsAssumption DEF Init, ControllersLive
<1> QED
  BY <1>1, <1>2, IInvInit
  DEF FamilyInv, Started, ParentsOK, EndsUnaborted, ChildFollowsParent, ParentAborted,
      Running, NewRun

\* A run that is claimed has not been claimed before, so it is nobody's parent.
LEMMA TakenFirst ==
  ASSUME IInv, NEW r \in Runs, NEW p, Taking(p, r)
  PROVE  /\ run[r].claims = 0
         /\ run[r].pc # "new"
         /\ run[r].id \in Ids
<1>1. run[r].pc # "new"
  BY DEF IInv, IdOK, Taking
<1>2. run[r].id \in Ids
  BY <1>1 DEF IInv, IdOK
<1> QED
  BY <1>1, <1>2 DEF IInv, LockNamesRun, Taking, Claim, Claimable, OwnedQueued

\* Every step keeps Started.
LEMMA StartedStep == IInv /\ Started /\ [Next]_vars => Started'
<1> SUFFICES ASSUME IInv, Started, [Next]_vars PROVE Started'
  OBVIOUS
<1>0. TypeOK
  BY DEF IInv
<1>1. ASSUME NEW r \in Runs, Beginning(r) PROVE Started'
  BY <1>1 DEF Started, Beginning, Kept
<1>2. ASSUME NEW r \in Runs, Finishing(r) PROVE Started'
  <2>1. Forgotten(r) /\ \A x \in Runs \ {r} : Kept(x)
    BY <1>0, <1>2, FinishFields DEF Finishing
  <2> QED
    BY <2>1 DEF Started, Kept, Forgotten
<1>3. ASSUME NEW r \in Runs, Aborting(r) PROVE Started'
  BY <1>0, <1>3, AbortedFields DEF Started, Aborting, Stable
<1>4. ASSUME NEW r \in Runs, Noting(r) PROVE Started'
  BY <1>0, <1>4, NoteFields DEF Started, Stable
<1>5. ASSUME NEW r \in Runs, NEW s \in Steps, GoingOn(r, s) PROVE Started'
  BY <1>5 DEF Started, GoingOn, Kept
<1>6. ASSUME NEW r \in Runs, NEW p \in Procs \union {None}, Taking(p, r)
      PROVE  Started'
  BY <1>0, <1>6, TakeFields, TakenFirst DEF Started, Taking, Kept
<1>7. CASE Tick
  BY <1>0, <1>7, TickFields DEF Started, Stable
<1>8. ASSUME NEW p \in Procs, Crash(p) PROVE Started'
  BY <1>0, <1>8, CrashFields DEF Started, Forgotten, Kept
<1>9. CASE Resting
  BY <1>9 DEF Started, Resting, Kept
<1> QED
  BY <1>1, <1>2, <1>3, <1>4, <1>5, <1>6, <1>7, <1>8, <1>9, CancelKinds
  DEF CancelKind

\* Every step keeps ParentsOK: a batch leaves its loop when the runs it started are over,
\* and a crash ends both.
LEMMA ParentsStep ==
  ASSUME IInv, Started, ParentsOK, [Next]_vars
  PROVE  ParentsOK'
<1>0. TypeOK /\ IdOK
  BY DEF IInv
<1>01. None \notin Runs /\ BatchIds \intersect Targets = {}
  BY ConstantsAssumption
<1>02. \A x \in Runs : run[x].parent \in Runs \union {None}
  BY <1>0 DEF TypeOK, RunState
<1>1. ASSUME NEW r \in Runs, Beginning(r) PROVE ParentsOK'
  <2>1. r \notin jobs'
    BY <1>0, <1>1 DEF Beginning, IdOK
  <2>2. ASSUME NEW x \in Runs \ {r}, run[x].parent # None
        PROVE  run[x].parent # r
    BY <1>1, <2>2 DEF ParentsOK, Beginning
  <2> QED
    BY <1>01, <1>02, <1>1, <2>1, <2>2 DEF ParentsOK, Started, Beginning, Kept
<1>2. ASSUME NEW r \in Runs, Finishing(r) PROVE ParentsOK'
  <2>1. Forgotten(r) /\ \A x \in Runs \ {r} : Kept(x)
    BY <1>0, <1>2, FinishFields DEF Finishing
  <2> QED
    BY <1>02, <1>2, <2>1 DEF ParentsOK, Finishing, Kept, Forgotten
<1>3. ASSUME NEW r \in Runs, Aborting(r) PROVE ParentsOK'
  BY <1>0, <1>02, <1>3, AbortedFields DEF ParentsOK, Aborting, Stable
<1>4. ASSUME NEW r \in Runs, Noting(r) PROVE ParentsOK'
  <2>1. jobs' = jobs
    BY <1>4 DEF Noting
  <2> QED
    BY <1>0, <1>02, <1>4, <2>1, NoteFields DEF ParentsOK, Stable
<1>5. ASSUME NEW r \in Runs, NEW s \in Steps, GoingOn(r, s) PROVE ParentsOK'
  <2>1. ASSUME NEW x \in Runs, run[x].parent = r, run[x].pc # "over", run[r].pc = "crawling"
        PROVE  FALSE
    BY <1>01, <1>5, <2>1 DEF ParentsOK, GoingOn, Children
  <2>2. ASSUME NEW x \in Runs, run[x].parent # None
        PROVE  x \notin jobs'
    BY <1>5, <2>2 DEF ParentsOK, GoingOn
  <2> QED
    BY <1>02, <1>5, <2>1, <2>2 DEF ParentsOK, GoingOn, Kept
<1>6. ASSUME NEW r \in Runs, NEW p \in Procs \union {None}, Taking(p, r)
      PROVE  ParentsOK'
  <2>1. run[r].claims = 0
    BY <1>6, TakenFirst
  <2>2. ASSUME NEW x \in Runs, run[x].parent = r PROVE FALSE
    BY <1>01, <2>1, <2>2 DEF ParentsOK
  <2>3. run[r].parent # None => p = run[r].proc /\ run[r].pc = "acquiring"
    BY <1>6 DEF ParentsOK, Taking
  <2> QED
    BY <1>0, <1>02, <1>6, <2>2, <2>3, TakeFields DEF ParentsOK, Taking, Kept
<1>7. CASE Tick
  <2>1. jobs' = jobs
    BY <1>7 DEF Tick
  <2> QED
    BY <1>0, <1>02, <1>7, <2>1, TickFields DEF ParentsOK, Stable
<1>8. ASSUME NEW p \in Procs, Crash(p) PROVE ParentsOK'
  <2>1. \A x \in Runs : IF DiesWith(x, p) THEN Forgotten(x) ELSE Kept(x)
    BY <1>0, <1>8, CrashFields
  <2>2. ASSUME NEW x \in Runs, run[x].parent # None, run[x].pc # "over",
               ~DiesWith(x, p)
        PROVE  ~DiesWith(run[x].parent, p)
    BY <2>2 DEF ParentsOK, DiesWith
  <2>3. ASSUME NEW x \in jobs', x \notin jobs
        PROVE  run[x].commanded
    BY <1>8, <2>3 DEF Crash, Redeliverable
  <2> QED
    BY <1>02, <2>1, <2>2, <2>3 DEF ParentsOK, Kept, Forgotten
<1>9. CASE Resting
  BY <1>02, <1>9 DEF ParentsOK, Resting, Kept
<1> QED
  BY <1>1, <1>2, <1>3, <1>4, <1>5, <1>6, <1>7, <1>8, <1>9, CancelKinds
  DEF CancelKind

\* Every step keeps ControllersLive: a controller is set by a claim and removed before its
\* run stops running.
LEMMA ControllersStep ==
  ASSUME IInv, Started, ControllersLive, [Next]_vars
  PROVE  ControllersLive'
<1>0. TypeOK
  BY DEF IInv
<1>01. None \notin Runs
  BY ConstantsAssumption
<1> USE DEF ControllersLive, Running
<1>1. ASSUME NEW r \in Runs, Beginning(r) PROVE ControllersLive'
  BY <1>1 DEF Beginning, Kept
<1>2. ASSUME NEW r \in Runs, Finishing(r) PROVE ControllersLive'
  <2>1. \A x \in Runs \ {r} : Kept(x)
    BY <1>0, <1>2, FinishFields DEF Finishing
  <2>2. \A p \in Procs, i \in Ids : controllers'[p][i] # r
    BY <1>2 DEF Finishing
  <2>3. controllers' = controllers
    BY <1>2 DEF Finishing
  <2> QED
    BY <2>1, <2>2, <2>3 DEF Kept
<1>3. ASSUME NEW r \in Runs, Aborting(r) PROVE ControllersLive'
  BY <1>0, <1>3, AbortedFields DEF Aborting, Stable
<1>4. ASSUME NEW r \in Runs, Noting(r) PROVE ControllersLive'
  <2>1. controllers' = controllers
    BY <1>4 DEF Noting
  <2> QED
    BY <1>0, <1>4, <2>1, NoteFields DEF Stable
<1>5. ASSUME NEW r \in Runs, NEW s \in Steps, GoingOn(r, s) PROVE ControllersLive'
  <2>1. CASE s = "unlocking"
    <3>1. \A p \in Procs, i \in Ids :
            controllers'[p][i] = IF p = run[r].proc /\ i = run[r].id THEN None
                                 ELSE controllers[p][i]
      BY <1>0, <1>5, <2>1 DEF TypeOK, GoingOn
    <3> QED
      BY <1>01, <1>5, <2>1, <3>1 DEF GoingOn, Kept
  <2>2. CASE s # "unlocking"
    <3>1. controllers' = controllers
      BY <1>5, <2>2 DEF GoingOn
    <3>2. run[r].pc \in {"crawling", "saving"} => s = "saving"
      BY <1>5, <2>2 DEF GoingOn
    <3> QED
      BY <1>5, <3>1, <3>2 DEF GoingOn, Kept
  <2> QED
    BY <2>1, <2>2
<1>6. ASSUME NEW r \in Runs, NEW p \in Procs \union {None}, Taking(p, r)
      PROVE  ControllersLive'
  <2>1. \A q \in Procs, i \in Ids :
          controllers'[q][i] = IF q = p /\ i = run[r].id THEN r
                               ELSE controllers[q][i]
    BY <1>0, <1>6 DEF TypeOK, Taking, Claim
  <2>2. run[r].pc \notin {"crawling", "saving"}
    BY <1>0, <1>6, TakenFirst DEF Started
  <2> QED
    BY <1>0, <1>6, <2>1, <2>2, TakeFields DEF Taking, Kept
<1>7. CASE Tick
  <2>1. controllers' = controllers
    BY <1>7 DEF Tick
  <2> QED
    BY <1>0, <1>7, <2>1, TickFields DEF Stable
<1>8. ASSUME NEW p \in Procs, Crash(p) PROVE ControllersLive'
  <2>1. \A x \in Runs : IF DiesWith(x, p) THEN Forgotten(x) ELSE Kept(x)
    BY <1>0, <1>8, CrashFields
  <2>2. \A q \in Procs, i \in Ids :
          controllers'[q][i] = IF q = p THEN None ELSE controllers[q][i]
    BY <1>0, <1>8 DEF TypeOK, Crash
  <2> QED
    BY <1>01, <2>1, <2>2 DEF Kept, Forgotten, DiesWith
<1>9. CASE Resting
  BY <1>9 DEF Resting, Kept
<1> QED
  BY <1>1, <1>2, <1>3, <1>4, <1>5, <1>6, <1>7, <1>8, <1>9, CancelKinds
  DEF CancelKind

\* Every step keeps the rest: an abort reaches the running targets of a batch, a claim
\* looks at its parent, and targets are nobody's parents.
LEMMA EndsStep ==
  ASSUME FamilyInv, [Next]_vars
  PROVE  EndsUnaborted' /\ ChildFollowsParent'
<1> DEFINE Goal == EndsUnaborted' /\ ChildFollowsParent'
<1>0. /\ TypeOK /\ IInv /\ Started /\ ParentsOK /\ EndsUnaborted
      /\ ControllersLive /\ ChildFollowsParent
  BY DEF FamilyInv, IInv
<1>01. None \notin Runs /\ BatchIds \intersect Targets = {}
  BY ConstantsAssumption
<1>02. \A x \in Runs : run[x].parent \in Runs \union {None}
  BY <1>0 DEF TypeOK, RunState
<1> USE DEF EndsUnaborted, ChildFollowsParent, ParentAborted, Running
<1>1. ASSUME NEW r \in Runs, Beginning(r) PROVE Goal
  BY <1>0, <1>02, <1>1 DEF Beginning, Kept
<1>2. ASSUME NEW r \in Runs, Finishing(r) PROVE Goal
  <2>1. Forgotten(r) /\ \A x \in Runs \ {r} : Kept(x)
    BY <1>0, <1>2, FinishFields DEF Finishing
  <2> QED
    BY <1>0, <1>02, <2>1 DEF Kept, Forgotten
<1>3. ASSUME NEW r \in Runs, Aborting(r) PROVE Goal
  <2>1. run[r].pc \notin {"new", "over"}
    BY <1>0, <1>3 DEF Aborting, ControllersLive
  <2>2. \A x \in Runs :
          /\ run'[x].pc = run[x].pc
          /\ run'[x].parent = run[x].parent
          /\ run'[x].aborted = (run[x].aborted \/ x = r
                                 \/ (run[x].parent = r /\ Running(x)))
    BY <1>0, <1>3, AbortedFields DEF Aborting, Stable
  <2>3. \A x \in Runs : run[x].parent # None => run[run[x].parent].parent = None
    BY <1>0, <1>01, <1>02 DEF ParentsOK
  <2>4. EndsUnaborted'
    BY <1>0, <2>1, <2>2
  <2>5. ASSUME NEW x \in Runs, Running(x)', ParentAborted(x)'
        PROVE  run'[x].aborted
    <3>1. run[x].parent \in Runs /\ Running(x)
      BY <1>01, <1>02, <2>2, <2>5
    <3>2. \/ run[run[x].parent].aborted
          \/ run[x].parent = r
          \/ run[run[x].parent].parent = r
      BY <2>2, <2>5, <3>1
    <3>3. run[run[x].parent].parent # r
      BY <1>01, <2>3, <3>1
    <3>4. run[run[x].parent].aborted => run[x].aborted
      BY <1>0, <1>01, <3>1
    <3>5. run[x].aborted \/ (run[x].parent = r /\ Running(x))
      BY <3>1, <3>2, <3>3, <3>4, Zenon
    <3> QED
      BY <2>2, <3>5
  <2> QED
    BY <2>4, <2>5
<1>4. ASSUME NEW r \in Runs, Noting(r) PROVE Goal
  BY <1>0, <1>02, <1>4, NoteFields DEF Stable
<1>5. ASSUME NEW r \in Runs, NEW s \in Steps, GoingOn(r, s) PROVE Goal
  BY <1>0, <1>02, <1>5 DEF GoingOn, Kept
<1>6. ASSUME NEW r \in Runs, NEW p \in Procs \union {None}, Taking(p, r)
      PROVE  Goal
  <2>1. run[r].claims = 0
    BY <1>0, <1>6, TakenFirst
  <2>2. \A x \in Runs : run[x].parent # r
    BY <1>0, <1>01, <2>1 DEF ParentsOK
  <2>3. /\ \A x \in Runs \ {r} : Kept(x)
        /\ run'[r].pc = "crawling"
        /\ run'[r].parent = run[r].parent
        /\ run'[r].aborted = ParentAborted(r)
    BY <1>0, <1>6, TakeFields DEF Taking
  <2>4. ParentAborted(r)' => run'[r].aborted
    BY <1>02, <2>2, <2>3 DEF Kept
  <2>5. ASSUME NEW x \in Runs \ {r}, Running(x)', ParentAborted(x)'
        PROVE  run'[x].aborted
    BY <1>0, <1>02, <2>2, <2>3, <2>5 DEF Kept
  <2>6. EndsUnaborted'
    BY <1>0, <2>3 DEF Kept
  <2> QED
    BY <2>4, <2>5, <2>6
<1>7. CASE Tick
  BY <1>0, <1>02, <1>7, TickFields DEF Stable
<1>8. ASSUME NEW p \in Procs, Crash(p) PROVE Goal
  <2>1. \A x \in Runs : IF DiesWith(x, p) THEN Forgotten(x) ELSE Kept(x)
    BY <1>0, <1>8, CrashFields
  <2> QED
    BY <1>0, <1>02, <2>1 DEF Kept, Forgotten
<1>9. CASE Resting
  BY <1>0, <1>02, <1>9 DEF Resting, Kept
<1> QED
  BY <1>0, <1>1, <1>2, <1>3, <1>4, <1>5, <1>6, <1>7, <1>8, <1>9, CancelKinds
  DEF CancelKind

\* Every step keeps the second invariant.
LEMMA FamilyStep == FamilyInv /\ [Next]_vars => FamilyInv'
  BY IInvStep, StartedStep, ParentsStep, ControllersStep, EndsStep DEF FamilyInv

\* The second invariant holds in every state.
THEOREM FamilyCorrect == Spec => []FamilyInv
  BY FamilyInit, FamilyStep, PTL DEF Spec

\* An aborted batch runs no target that is not told to stop.
THEOREM ChildFollowsParentCorrect == Spec => []ChildFollowsParent
<1>1. FamilyInv => ChildFollowsParent
  BY DEF FamilyInv
<1> QED
  BY <1>1, FamilyCorrect, PTL

-----------------------------------------------------------------------------
(* The controllers of a process where none stalls.                         *)

\* Every run that executes in a process is registered there.
Registered ==
  \A r \in Runs : Running(r) =>
    \A p \in Procs : run[r].proc = p => controllers[p][run[r].id] = r

\* Where no process stalls a run is claimed only when no other run of its id
\* executes: that run would own the lock.
LEMMA TakenAlone ==
  ASSUME ~MayStall, IInv, NEW r \in Runs, NEW p, Taking(p, r),
         NEW x \in Runs, Running(x)
  PROVE  run[x].id # run[r].id
<1>1. Healthy(x)
  BY DEF IInv, NobodyMissed, Healthy
<1> QED
  BY <1>1 DEF IInv, LockKept, Taking, Claim, Claimable, OwnedQueued

\* Every step keeps Registered: a claim meets no other run of its id.
LEMMA RegisteredStep ==
  ASSUME ~MayStall, FamilyInv, Registered, [Next]_vars
  PROVE  Registered'
<1>0. TypeOK /\ IInv /\ IdOK /\ Started
  BY DEF FamilyInv, IInv
<1>01. None \notin Runs /\ None \notin Ids
  BY ConstantsAssumption
<1>02. \A x \in Runs : Running(x) => run[x].id \in Ids
  BY <1>0 DEF IdOK, Running
<1> USE DEF Registered, Running
<1>1. ASSUME NEW r \in Runs, Beginning(r) PROVE Registered'
  BY <1>1 DEF Beginning, Kept
<1>2. ASSUME NEW r \in Runs, Finishing(r) PROVE Registered'
  <2>1. Forgotten(r) /\ (\A x \in Runs \ {r} : Kept(x)) /\ controllers' = controllers
    BY <1>0, <1>2, FinishFields DEF Finishing
  <2> QED
    BY <2>1 DEF Kept, Forgotten
<1>3. ASSUME NEW r \in Runs, Aborting(r) PROVE Registered'
  BY <1>0, <1>3, AbortedFields DEF Aborting, Stable
<1>4. ASSUME NEW r \in Runs, Noting(r) PROVE Registered'
  <2>1. controllers' = controllers
    BY <1>4 DEF Noting
  <2> QED
    BY <1>0, <1>4, <2>1, NoteFields DEF Stable
<1>5. ASSUME NEW r \in Runs, NEW s \in Steps, GoingOn(r, s) PROVE Registered'
  <2>1. CASE s = "unlocking"
    <3>1. \A p \in Procs, i \in Ids :
            controllers'[p][i] = IF p = run[r].proc /\ i = run[r].id THEN None
                                 ELSE controllers[p][i]
      BY <1>0, <1>5, <2>1 DEF TypeOK, GoingOn
    <3>2. \A x \in Runs : Running(x)' => x # r /\ Running(x) /\ Kept(x)
      BY <1>5, <2>1 DEF GoingOn, Kept
    <3>3. ASSUME NEW x \in Runs, Running(x)', NEW p \in Procs, run'[x].proc = p
          PROVE  controllers'[p][run'[x].id] = x
      <4>1. /\ x # r /\ Running(x) /\ run[x].proc = p /\ run'[x].id = run[x].id
            /\ run[x].id \in Ids
        BY <1>02, <3>2, <3>3 DEF Kept
      <4>2. controllers[p][run[x].id] = x
        BY <4>1
      <4>3. ~(p = run[r].proc /\ run[x].id = run[r].id)
        <5>1. SUFFICES ASSUME p = run[r].proc, run[x].id = run[r].id PROVE FALSE
          OBVIOUS
        <5>2. run[r].pc = "saving"
          BY <1>5, <2>1 DEF GoingOn
        <5>3. controllers[p][run[r].id] = r
          BY <5>1, <5>2
        <5> QED
          BY <4>1, <4>2, <5>1, <5>3
      <4> QED
        BY <3>1, <4>1, <4>2, <4>3
    <3> QED
      BY <3>3
  <2>2. CASE s # "unlocking"
    <3>1. controllers' = controllers
      BY <1>5, <2>2 DEF GoingOn
    <3>2. s = "saving" => run[r].pc = "crawling"
      BY <1>5, <2>2 DEF GoingOn
    <3>3. s # "crawling"
      BY <1>5 DEF GoingOn
    <3> QED
      BY <1>5, <3>1, <3>2, <3>3 DEF GoingOn, Kept
  <2> QED
    BY <2>1, <2>2
<1>6. ASSUME NEW r \in Runs, NEW p \in Procs \union {None}, Taking(p, r)
      PROVE  Registered'
  <2>0. run[r].id \in Ids
    BY <1>0, <1>6, TakenFirst
  <2>1. \A q \in Procs, i \in Ids :
          controllers'[q][i] = IF q = p /\ i = run[r].id THEN r
                               ELSE controllers[q][i]
    BY <1>0, <1>6 DEF TypeOK, Taking, Claim
  <2>2. /\ \A x \in Runs \ {r} : Kept(x)
        /\ run'[r].proc = p
        /\ run'[r].id = run[r].id
    BY <1>0, <1>6, TakeFields DEF Taking
  <2>3. \A x \in Runs : Running(x) => run[x].id # run[r].id
    BY <1>0, <1>6, TakenAlone
  <2>4. ASSUME NEW x \in Runs \ {r}, Running(x)', NEW q \in Procs, run'[x].proc = q
        PROVE  controllers'[q][run'[x].id] = x
    BY <1>02, <2>1, <2>2, <2>3, <2>4 DEF Kept
  <2> QED
    BY <2>0, <2>1, <2>2, <2>4
<1>7. CASE Tick
  <2>1. controllers' = controllers
    BY <1>7 DEF Tick
  <2> QED
    BY <1>0, <1>7, <2>1, TickFields DEF Stable
<1>8. ASSUME NEW p \in Procs, Crash(p) PROVE Registered'
  <2>1. \A x \in Runs : IF DiesWith(x, p) THEN Forgotten(x) ELSE Kept(x)
    BY <1>0, <1>8, CrashFields
  <2>2. \A q \in Procs, i \in Ids :
          controllers'[q][i] = IF q = p THEN None ELSE controllers[q][i]
    BY <1>0, <1>8 DEF TypeOK, Crash
  <2>3. \A x \in Runs : Running(x)' => Running(x) /\ Kept(x) /\ run[x].proc # p
    BY <2>1 DEF Kept, Forgotten, DiesWith
  <2> QED
    BY <1>02, <2>2, <2>3 DEF Kept
<1>9. CASE Resting
  BY <1>9 DEF Resting, Kept
<1> QED
  BY <1>0, <1>1, <1>2, <1>3, <1>4, <1>5, <1>6, <1>7, <1>8, <1>9, CancelKinds
  DEF CancelKind

\* Where no process stalls, the controllers are those of the runs that execute.
THEOREM ControllerMatchesRunCorrect ==
  ASSUME ~MayStall PROVE Spec => []ControllerMatchesRun
<1>1. Init => Registered
  BY DEF Init, Registered, Running, NewRun
<1>2. FamilyInv /\ Registered /\ [Next]_vars => Registered'
  BY RegisteredStep
<1>3. FamilyInv /\ Registered => ControllerMatchesRun
  BY DEF FamilyInv, ControllersLive, Registered, ControllerMatchesRun
<1> QED
  BY <1>1, <1>2, <1>3, FamilyCorrect, PTL DEF Spec

-----------------------------------------------------------------------------
(* What a cancel names.                                                    *)

\* r was reserved and its reservation is no more: it was claimed or never will be
Settled(r) ==
  /\ run[r].pc # "new"
  /\ run[r].id \in Ids
  /\ ~OwnedQueued(run[r].id, r)

\* What every step leaves of an id, and of a lock that is not a queued one.
LEMMA SettledStays ==
  ASSUME IInv, [Next]_vars, NEW r \in Runs, run[r].pc # "new"
  PROVE  /\ run'[r].pc # "new"
         /\ run'[r].id = run[r].id
         /\ Settled(r) => Settled(r)'
<1> DEFINE Goal == /\ run'[r].pc # "new"
                   /\ run'[r].id = run[r].id
                   /\ Settled(r) => Settled(r)'
<1>0. TypeOK /\ run[r].id \in Ids
  BY DEF IInv, IdOK
<1>01. NoLock.run \notin Runs
  BY ConstantsAssumption DEF NoLock
<1> USE DEF Settled, OwnedQueued
<1>1. ASSUME NEW x \in Runs, NEW i \in Ids, Reserving(x, i) PROVE Goal
  BY <1>0, <1>1 DEF TypeOK, Reserving, Reserve, QueuedLock, Same, SameBut
<1>2. ASSUME NEW x \in Runs, NEW i \in Ids, Dequeuing(i, x) PROVE Goal
  <2>1. run'[r].pc = run[r].pc /\ run'[r].id = run[r].id
    BY <1>0, <1>2, DequeuedFields DEF Dequeuing, Same, SameBut
  <2> QED
    BY <1>0, <1>01, <1>2, <2>1 DEF TypeOK, Dequeuing
<1>3. ASSUME NEW x \in Runs, NEW s \in Steps, Moving(x, s) PROVE Goal
  BY <1>0, <1>3 DEF Moving, Same, SameBut
<1>4. ASSUME NEW x \in Runs, Ending(x) PROVE Goal
  <2>1. run'[r].pc # "new" /\ run'[r].id = run[r].id
    BY <1>4 DEF Ending, Over, Same, SameBut
  <2>2. \A i \in Ids : \/ lock'[i] = lock[i]
                       \/ lock'[i].run \notin Runs
                       \/ lock'[i].state = "running"
    BY <1>0, <1>01, <1>4 DEF TypeOK, Ending, RunningLock
  <2> QED
    BY <1>0, <2>1, <2>2
<1>5. ASSUME NEW x \in Runs, Claiming(x) PROVE Goal
  <2>1. PICK p \in Procs \union {None} : Claim(p, x)
    BY <1>5 DEF Claiming
  <2>2. run'[r].pc # "new" /\ run'[r].id = run[r].id
    BY <1>0, <2>1, ClaimFields DEF Same, SameBut
  <2> QED
    BY <1>0, <2>1, <2>2 DEF TypeOK, Claim, RunningLock
<1>6. ASSUME NEW x \in Runs, Beat(x) PROVE Goal
  <2>1. run' = run \/ run' = Abort(x)
    BY <1>6 DEF Beat
  <2>2. run'[r].pc = run[r].pc /\ run'[r].id = run[r].id
    BY <1>0, <2>1, AbortFields DEF Same, SameBut
  <2>3. \A i \in Ids : lock'[i].run = lock[i].run /\ lock'[i].state = lock[i].state
    BY <1>0, <1>6 DEF TypeOK, Beat, Extend, Lock, NoLock
  <2> QED
    BY <1>0, <2>2, <2>3
<1>7. CASE Tick
  <2>1. run'[r].pc = run[r].pc /\ run'[r].id = run[r].id
    BY <1>0, <1>7, TickFields DEF Stable
  <2>2. \A i \in Ids : \/ lock'[i].run \notin Runs
                       \/ lock'[i].run = lock[i].run /\ lock'[i].state = lock[i].state
    BY <1>0, <1>01, <1>7 DEF TypeOK, Tick, Aged, Lock, NoLock
  <2> QED
    BY <1>0, <2>1, <2>2
<1>8. ASSUME NEW p \in Procs, Crash(p) PROVE Goal
  <2>1. run'[r].pc # "new" /\ run'[r].id = run[r].id
    BY <1>0, <1>8, CrashFields DEF Forgotten, Kept
  <2>2. lock' = lock
    BY <1>8 DEF Crash
  <2> QED
    BY <2>1, <2>2
<1>9. CASE Quiet
  BY <1>9 DEF Quiet, Same, SameBut
<1> QED
  BY <1>1, <1>2, <1>3, <1>4, <1>5, <1>6, <1>7, <1>8, <1>9, StepKinds DEF StepKind

\* A cancel in progress names a run of its id that is, once its key is to be
\* set, no longer queued.
NameOK(p) ==
  canceller[p] # Idle =>
    /\ p \in Apis
    /\ run[canceller[p].run].pc # "new"
    /\ run[canceller[p].run].id = canceller[p].id
    /\ canceller[p].step \in {"set", "abort"} => Settled(canceller[p].run)

\* So does a cancel key, and the run was asked to stop.
KeysOK ==
  \A i \in Ids, r \in Runs :
    cancelKey[i].run = r =>
      /\ run[r].id = i
      /\ Settled(r)
      /\ run[r].asked \/ run[r].pc = "over"

NamesOK == KeysOK /\ \A p \in Procs : NameOK(p)

\* Every step keeps NamesOK: what a cancel read as running, or failed to dequeue, is
\* settled, and stays so until its key is set and for as long as the key is there.
LEMMA NamesStep ==
  ASSUME IInv, Started, NamesOK, [Next]_vars
  PROVE  NamesOK'
<1>0. TypeOK /\ IdOK
  BY DEF IInv
<1>01. NoCancel.run \notin Runs /\ None \notin Runs
  BY ConstantsAssumption DEF NoCancel
<1>02. ASSUME NEW r \in Runs, run[r].pc # "new"
       PROVE  /\ run'[r].pc # "new"
              /\ run'[r].id = run[r].id
              /\ Settled(r) => Settled(r)'
  BY <1>02, SettledStays
<1>03. \A p \in Procs : canceller[p] # Idle =>
         /\ canceller[p].run \in Runs
         /\ canceller[p].id \in Ids
  BY <1>0 DEF TypeOK
<1>04. \A r \in Runs : Settled(r) => run[r].pc # "new"
  BY DEF Settled
<1>1. ASSUME NEW r \in Runs, Settled(r), run[r].asked \/ run[r].pc = "over"
      PROVE  run'[r].asked \/ run'[r].pc = "over"
  <2> DEFINE Goal == run'[r].asked \/ run'[r].pc = "over"
  <2>0. run[r].pc # "new"
    BY <1>1 DEF Settled
  <2>1. ASSUME NEW x \in Runs, Beginning(x) PROVE Goal
    BY <1>1, <2>0, <2>1 DEF Beginning, Kept
  <2>2. ASSUME NEW x \in Runs, Finishing(x) PROVE Goal
    <3>1. Forgotten(x) /\ \A y \in Runs \ {x} : Kept(y)
      BY <1>0, <2>2, FinishFields DEF Finishing
    <3> QED
      BY <1>1, <3>1 DEF Forgotten, Kept
  <2>3. ASSUME NEW x \in Runs, Aborting(x) PROVE Goal
    BY <1>0, <1>1, <2>3, AbortedFields DEF Aborting, Stable
  <2>4. ASSUME NEW x \in Runs, Noting(x) PROVE Goal
    BY <1>0, <1>1, <2>4, NoteFields DEF Stable
  <2>5. ASSUME NEW x \in Runs, NEW s \in Steps, GoingOn(x, s) PROVE Goal
    BY <1>1, <2>5 DEF GoingOn, Kept
  <2>6. ASSUME NEW x \in Runs, NEW p \in Procs \union {None}, Taking(p, x) PROVE Goal
    <3>1. x # r
      BY <1>1, <2>6 DEF Settled, Taking, Claim, Claimable
    <3> QED
      BY <1>0, <1>1, <2>6, <3>1, TakeFields DEF Taking, Kept
  <2>7. CASE Tick
    BY <1>0, <1>1, <2>7, TickFields DEF Stable
  <2>8. ASSUME NEW p \in Procs, Crash(p) PROVE Goal
    BY <1>0, <1>1, <2>8, CrashFields DEF Forgotten, Kept
  <2>9. CASE Resting
    BY <1>1, <2>9 DEF Resting, Kept
  <2> QED
    BY <2>1, <2>2, <2>3, <2>4, <2>5, <2>6, <2>7, <2>8, <2>9, CancelKinds
    DEF CancelKind
<1>2. ASSUME NEW i \in Ids, NEW r \in Runs,
             \/ cancelKey[i].run = r
             \/ run[r].id = i /\ Settled(r) /\ (run'[r].asked \/ run'[r].pc = "over")
      PROVE  /\ run'[r].id = i
             /\ Settled(r)'
             /\ run'[r].asked \/ run'[r].pc = "over"
  BY <1>02, <1>04, <1>1, <1>2 DEF NamesOK, KeysOK
<1>3. ASSUME NEW p \in Procs, NEW r \in Runs, NEW i, NEW s,
             p \in Apis, run[r].pc # "new", run[r].id = i,
             s \in {"set", "abort"} => Settled(r),
             canceller'[p].run = r, canceller'[p].id = i, canceller'[p].step = s
      PROVE  NameOK(p)'
  <2>1. run'[r].pc # "new" /\ run'[r].id = i
    BY <1>02, <1>3
  <2>2. s \in {"set", "abort"} => Settled(r)'
    BY <1>02, <1>3
  <2> QED
    BY <1>3, <2>1, <2>2 DEF NameOK, Settled, OwnedQueued
<1>30. ASSUME NEW p \in Procs, canceller'[p] = canceller[p] \/ canceller'[p] = Idle
       PROVE  NameOK(p)'
  <2>1. CASE canceller'[p] = Idle
    BY <2>1 DEF NameOK
  <2>2. CASE canceller'[p] = canceller[p] /\ canceller[p] # Idle
    BY <1>03, <1>3, <2>2 DEF NamesOK, NameOK
  <2> QED
    BY <1>30, <2>1, <2>2
<1>31. ASSUME \A i \in Ids : cancelKey'[i].run \notin Runs
                               \/ cancelKey'[i].run = cancelKey[i].run
       PROVE  KeysOK'
  BY <1>2, <1>31 DEF KeysOK
<1>4. ASSUME \A i \in Ids : cancelKey'[i].run \notin Runs
                              \/ cancelKey'[i].run = cancelKey[i].run,
             \A p \in Procs : canceller'[p] = canceller[p] \/ canceller'[p] = Idle
      PROVE  NamesOK'
  BY <1>30, <1>31, <1>4 DEF NamesOK
<1>5. ASSUME NEW p \in Procs, NEW i \in Ids, CancelRead(p, i) PROVE NamesOK'
  <2>1. lock[i].run \in Runs
    BY <1>0, <1>5 DEF TypeOK, CancelRead, Lock
  <2>2. run[lock[i].run].pc # "new" /\ run[lock[i].run].id = i
    BY <2>1 DEF IInv, LockNamesRun
  <2>3. lock[i].state # "queued" => Settled(lock[i].run)
    BY <2>2 DEF Settled, OwnedQueued
  <2>4. /\ canceller'[p] = [step |-> IF lock[i].state = "queued" THEN "delete" ELSE "set",
                             id |-> i, run |-> lock[i].run]
        /\ \A q \in Procs \ {p} : canceller'[q] = canceller[q]
        /\ p \in Apis
        /\ cancelKey' = cancelKey
    BY <1>0, <1>5 DEF TypeOK, CancelRead
  <2>5. NameOK(p)'
    BY <1>3, <2>1, <2>2, <2>3, <2>4
  <2> QED
    BY <1>30, <1>31, <2>4, <2>5 DEF NamesOK
<1>6. ASSUME NEW p \in Procs, CancelDelete(p) PROVE NamesOK'
  <2> DEFINE c == canceller[p]
  <2>1. c # Idle /\ c.run \in Runs /\ c.id \in Ids
    BY <1>0, <1>6 DEF TypeOK, CancelDelete, Idle
  <2>2. p \in Apis /\ run[c.run].pc # "new" /\ run[c.run].id = c.id
    BY <2>1 DEF NamesOK, NameOK
  <2>3. PICK s \in {"save", "set"} :
          /\ canceller' = [canceller EXCEPT ![p].step = s]
          /\ s = "set" => ~OwnedQueued(c.id, c.run)
    BY <1>6 DEF CancelDelete
  <2>4. /\ canceller'[p].run = c.run /\ canceller'[p].id = c.id
        /\ canceller'[p].step = s
        /\ \A q \in Procs \ {p} : canceller'[q] = canceller[q]
    BY <1>0, <2>1, <2>3 DEF TypeOK
  <2>5. s \in {"set", "abort"} => Settled(c.run)
    BY <2>1, <2>2, <2>3 DEF Settled
  <2>6. NameOK(p)'
    BY <1>3, <2>1, <2>2, <2>4, <2>5
  <2>7. cancelKey' = cancelKey
    BY <1>6 DEF CancelDelete
  <2> QED
    BY <1>30, <1>31, <2>4, <2>6, <2>7 DEF NamesOK
<1>7. ASSUME NEW p \in Procs, CancelSet(p) PROVE NamesOK'
  <2> DEFINE c == canceller[p]
  <2>1. c # Idle /\ c.run \in Runs /\ c.id \in Ids /\ c.step = "set"
    BY <1>0, <1>7 DEF TypeOK, CancelSet, Idle
  <2>2. p \in Apis /\ run[c.run].pc # "new" /\ run[c.run].id = c.id /\ Settled(c.run)
    BY <2>1 DEF NamesOK, NameOK
  <2>3. /\ canceller'[p].run = c.run /\ canceller'[p].id = c.id
        /\ canceller'[p].step = "abort"
        /\ \A q \in Procs \ {p} : canceller'[q] = canceller[q]
        /\ \A i \in Ids : IF i = c.id THEN cancelKey'[i].run = c.run
                                       ELSE cancelKey'[i] = cancelKey[i]
    BY <1>0, <1>7, <2>1 DEF TypeOK, CancelSet
  <2>4. run'[c.run].asked \/ run'[c.run].pc = "over"
    BY <1>0, <1>7, <2>1 DEF TypeOK, RunState, CancelSet, Noted
  <2>5. ASSUME NEW i \in Ids, NEW r \in Runs, cancelKey'[i].run = r
        PROVE  /\ run'[r].id = i
               /\ Settled(r)'
               /\ run'[r].asked \/ run'[r].pc = "over"
    <3>1. CASE i = c.id
      <4>1. r = c.run
        BY <2>3, <2>5, <3>1
      <4> QED
        BY <1>2, <2>2, <2>4, <3>1, <4>1
    <3>2. CASE i # c.id
      <4>1. cancelKey[i].run = r
        BY <2>3, <2>5, <3>2
      <4> QED
        BY <1>2, <4>1
    <3> QED
      BY <3>1, <3>2
  <2>6. NameOK(p)'
    BY <1>3, <2>1, <2>2, <2>3
  <2> QED
    BY <1>30, <2>3, <2>5, <2>6 DEF NamesOK, KeysOK
<1>8. ASSUME NEW p \in Procs, CancelSave(p) \/ CancelAbort(p) PROVE NamesOK'
  BY <1>0, <1>4, <1>8 DEF TypeOK, CancelSave, CancelAbort
<1>9. ASSUME NEW r \in Runs, ClearCancel(r) PROVE NamesOK'
  BY <1>0, <1>01, <1>4, <1>9 DEF TypeOK, ClearCancel
<1>10. CASE Tick
  <2>1. \A i \in Ids : cancelKey'[i].run \notin Runs \/ cancelKey'[i].run = cancelKey[i].run
    BY <1>0, <1>01, <1>10 DEF TypeOK, Tick, Aged
  <2>2. canceller' = canceller
    BY <1>10 DEF Tick
  <2> QED
    BY <1>4, <2>1, <2>2
<1>11. ASSUME NEW p \in Procs, Crash(p) PROVE NamesOK'
  BY <1>0, <1>4, <1>11 DEF TypeOK, Crash
<1>12. CASE UNCHANGED <<cancelKey, canceller>>
  BY <1>4, <1>12
<1>13. ASSUME NEW r \in Runs, RunStep(r)
       PROVE  UNCHANGED <<cancelKey, canceller>> \/ ClearCancel(r)
  BY <1>13 DEF RunStep, Dispatch, DispatchFails, Discard, ClaimAcquired, AcquireFails,
     ClaimLost, Beat, CrawlEnds, BatchEnds, SaveResult, Unlock, ReleaseFails, BatchSkip,
     BatchStart
<1>14. ASSUME Control
       PROVE  \/ UNCHANGED <<cancelKey, canceller>>
              \/ \E p \in Procs : \/ \E i \in Ids : CancelRead(p, i)
                                 \/ CancelDelete(p) \/ CancelSet(p)
                                 \/ CancelSave(p) \/ CancelAbort(p)
  BY <1>14 DEF Control, Start, ReserveLost, ScheduledStart, ClaimJob, SkipJob
<1> QED
  BY <1>5, <1>6, <1>7, <1>8, <1>9, <1>10, <1>11, <1>12, <1>13, <1>14
  DEF Next, Environment, Redeliver, vars

\* What a cancel names, in every state.
CancelInv == FamilyInv /\ NamesOK

\* Initially no cancel is in progress and no key is set.
LEMMA CancelInit == Init => CancelInv
<1> SUFFICES ASSUME Init PROVE CancelInv
  OBVIOUS
<1>1. NamesOK
  BY ConstantsAssumption DEF Init, NamesOK, NameOK, KeysOK, NoCancel
<1> QED
  BY <1>1, FamilyInit DEF CancelInv

\* Every step keeps what is known of cancels.
LEMMA CancelStep == CancelInv /\ [Next]_vars => CancelInv'
  BY FamilyStep, NamesStep DEF CancelInv, FamilyInv

\* It holds in every state.
THEOREM CancelCorrect == Spec => []CancelInv
  BY CancelInit, CancelStep, PTL DEF Spec

-----------------------------------------------------------------------------
(* Only what a cancel named is aborted, where API processes execute no runs. *)

\* Runs execute, and are acquired, in workers only.
InWorkers ==
  /\ \A r \in Runs : run[r].pc \in {"acquiring", "crawling"} => run[r].proc \in Workers
  /\ \A p \in Procs, i \in Ids : controllers[p][i] # None => p \in Workers

\* Every step keeps InWorkers, since commands are delivered to workers only.
LEMMA WorkersStep ==
  ASSUME ~Inline, FamilyInv, InWorkers, [Next]_vars
  PROVE  InWorkers'
<1>0. TypeOK /\ IInv /\ Started
  BY DEF FamilyInv, IInv
<1>01. None \notin Runs
  BY ConstantsAssumption
<1> USE DEF InWorkers
<1>1. ASSUME NEW r \in Runs, Beginning(r) PROVE InWorkers'
  BY <1>1 DEF Beginning, Kept
<1>2. ASSUME NEW r \in Runs, Finishing(r) PROVE InWorkers'
  <2>1. Forgotten(r) /\ (\A x \in Runs \ {r} : Kept(x)) /\ controllers' = controllers
    BY <1>0, <1>2, FinishFields DEF Finishing
  <2> QED
    BY <2>1 DEF Kept, Forgotten
<1>3. ASSUME NEW r \in Runs, Aborting(r) PROVE InWorkers'
  BY <1>0, <1>3, AbortedFields DEF Aborting, Stable
<1>4. ASSUME NEW r \in Runs, Noting(r) PROVE InWorkers'
  <2>1. controllers' = controllers
    BY <1>4 DEF Noting
  <2> QED
    BY <1>0, <1>4, <2>1, NoteFields DEF Stable
<1>5. ASSUME NEW r \in Runs, NEW s \in Steps, GoingOn(r, s) PROVE InWorkers'
  <2>1. \A p \in Procs, i \in Ids : controllers'[p][i] # None => controllers[p][i] # None
    BY <1>0, <1>5 DEF TypeOK, GoingOn
  <2>2. s \notin {"acquiring", "crawling"}
    BY <1>5 DEF GoingOn
  <2> QED
    BY <1>5, <2>1, <2>2 DEF GoingOn, Kept
<1>6. ASSUME NEW r \in Runs, NEW p \in Procs \union {None}, Taking(p, r)
      PROVE  InWorkers'
  <2>1. p \in Workers
    BY <1>6 DEF Taking
  <2>2. \A q \in Procs, i \in Ids :
          controllers'[q][i] # None => q = p \/ controllers[q][i] # None
    BY <1>0, <1>6 DEF TypeOK, Taking, Claim
  <2> QED
    BY <1>0, <1>6, <2>1, <2>2, TakeFields DEF Taking, Kept
<1>7. CASE Tick
  <2>1. controllers' = controllers
    BY <1>7 DEF Tick
  <2> QED
    BY <1>0, <1>7, <2>1, TickFields DEF Stable
<1>8. ASSUME NEW p \in Procs, Crash(p) PROVE InWorkers'
  <2>1. \A x \in Runs : IF DiesWith(x, p) THEN Forgotten(x) ELSE Kept(x)
    BY <1>0, <1>8, CrashFields
  <2>2. \A q \in Procs, i \in Ids : controllers'[q][i] # None => controllers[q][i] # None
    BY <1>0, <1>8 DEF TypeOK, Crash
  <2> QED
    BY <2>1, <2>2 DEF Kept, Forgotten
<1>9. CASE Resting
  BY <1>9 DEF Resting, Kept
<1> QED
  BY <1>0, <1>1, <1>2, <1>3, <1>4, <1>5, <1>6, <1>7, <1>8, <1>9, CancelKinds
  DEF CancelKind

\* Every step keeps AbortedWasAsked: the abort of a cancel finds no controller in its own
\* process, that of a heartbeat a key that names the run, and a batch outlives its targets.
LEMMA AskedStep ==
  ASSUME Apis \intersect Workers = {}, CancelInv, InWorkers, AbortedWasAsked, [Next]_vars
  PROVE  AbortedWasAsked'
<1>0. /\ TypeOK /\ IInv /\ IdOK /\ Started /\ ParentsOK /\ EndsUnaborted
      /\ ControllersLive /\ NamesOK
  BY DEF CancelInv, FamilyInv, IInv
<1>01. None \notin Runs /\ BatchIds \intersect Targets = {}
  BY ConstantsAssumption
<1>02. \A x \in Runs : run[x].parent \in Runs \union {None}
  BY <1>0 DEF TypeOK, RunState
<1> USE DEF AbortedWasAsked, ParentAborted
<1>1. ASSUME NEW r \in Runs, Beginning(r) PROVE AbortedWasAsked'
  BY <1>0, <1>02, <1>1 DEF Beginning, Kept, EndsUnaborted
<1>2. ASSUME NEW r \in Runs, Finishing(r) PROVE AbortedWasAsked'
  <2>1. Forgotten(r) /\ \A x \in Runs \ {r} : Kept(x)
    BY <1>0, <1>2, FinishFields DEF Finishing
  <2>2. ASSUME NEW x \in Runs, run[x].parent = r PROVE ~run[x].aborted
    <3>1. run[r].pc # "crawling"
      BY <1>2 DEF Finishing
    <3>2. run[x].pc = "over"
      BY <1>0, <1>01, <2>2, <3>1 DEF ParentsOK
    <3> QED
      BY <1>0, <3>2 DEF EndsUnaborted
  <2> QED
    BY <1>02, <2>1, <2>2 DEF Kept, Forgotten
<1>3. ASSUME NEW r \in Runs, Aborting(r) PROVE AbortedWasAsked'
  <2>1. run[r].asked
    <3>1. CASE CancelSeen(r) /\ Running(r)
      BY <1>0, <3>1 DEF CancelSeen, Running, IdOK, NamesOK, KeysOK
    <3>2. CASE \E p \in Procs, i \in Ids : /\ controllers[p][i] = r
                                          /\ canceller[p].step = "abort"
      <4>1. PICK p \in Procs, i \in Ids : /\ controllers[p][i] = r
                                         /\ canceller[p].step = "abort"
        BY <3>2
      <4>2. p \in Workers
        BY <1>01, <4>1 DEF InWorkers
      <4>3. canceller[p] # Idle
        BY <4>1 DEF Idle
      <4>4. p \in Apis
        BY <1>0, <4>3 DEF NamesOK, NameOK
      <4> QED
        BY <4>2, <4>4
    <3> QED
      BY <1>3, <3>1, <3>2 DEF Aborting
  <2>2. \A x \in Runs :
          /\ run'[x].parent = run[x].parent
          /\ run'[x].asked = run[x].asked
          /\ run'[x].aborted = (run[x].aborted \/ x = r
                                 \/ (run[x].parent = r /\ Running(x)))
    BY <1>0, <1>3, AbortedFields DEF Aborting, Stable
  <2>3. ASSUME NEW x \in Runs, run'[x].aborted
        PROVE  run'[x].asked \/ ParentAborted(x)'
    <3>1. CASE x = r
      BY <2>1, <2>2, <3>1
    <3>2. CASE run[x].parent = r
      <4>1. run'[r].aborted
        BY <2>2, Zenon
      <4> QED
        BY <1>01, <2>2, <3>2, <4>1
    <3>3. CASE run[x].aborted
      <4>1. run[x].asked \/ (run[x].parent \in Runs /\ run[run[x].parent].aborted)
        BY <1>02, <3>3
      <4>2. ASSUME NEW y \in Runs, run[y].aborted PROVE run'[y].aborted
        BY <2>2, <4>2, Zenon
      <4> QED
        BY <1>01, <2>2, <4>1, <4>2
    <3> QED
      BY <2>2, <2>3, <3>1, <3>2, <3>3
  <2> QED
    BY <2>3
<1>4. ASSUME NEW r \in Runs, Noting(r) PROVE AbortedWasAsked'
  BY <1>0, <1>02, <1>4, NoteFields DEF Stable
<1>5. ASSUME NEW r \in Runs, NEW s \in Steps, GoingOn(r, s) PROVE AbortedWasAsked'
  BY <1>02, <1>5 DEF GoingOn, Kept
<1>6. ASSUME NEW r \in Runs, NEW p \in Procs \union {None}, Taking(p, r)
      PROVE  AbortedWasAsked'
  <2>1. run[r].claims = 0
    BY <1>0, <1>6, TakenFirst
  <2>2. \A x \in Runs : run[x].parent # r
    BY <1>0, <1>01, <2>1 DEF ParentsOK
  <2>3. /\ \A x \in Runs \ {r} : Kept(x)
        /\ run'[r].parent = run[r].parent
        /\ run'[r].aborted = ParentAborted(r)
    BY <1>0, <1>6, TakeFields DEF Taking
  <2>4. run'[r].aborted => ParentAborted(r)'
    BY <1>02, <2>2, <2>3 DEF Kept
  <2>5. ASSUME NEW x \in Runs \ {r}, run'[x].aborted
        PROVE  run'[x].asked \/ ParentAborted(x)'
    BY <1>02, <2>2, <2>3, <2>5 DEF Kept
  <2> QED
    BY <2>4, <2>5
<1>7. CASE Tick
  BY <1>0, <1>02, <1>7, TickFields DEF Stable
<1>8. ASSUME NEW p \in Procs, Crash(p) PROVE AbortedWasAsked'
  <2>1. \A x \in Runs : IF DiesWith(x, p) THEN Forgotten(x) ELSE Kept(x)
    BY <1>0, <1>8, CrashFields
  <2>2. ASSUME NEW x \in Runs, run[x].parent # None, run[x].aborted, ~DiesWith(x, p)
        PROVE  ~DiesWith(run[x].parent, p)
    <3>1. run[x].pc # "over"
      BY <1>0, <2>2 DEF EndsUnaborted
    <3> QED
      BY <1>0, <2>2, <3>1 DEF ParentsOK, DiesWith
  <2> QED
    BY <1>02, <2>1, <2>2 DEF Kept, Forgotten
<1>9. CASE Resting
  BY <1>02, <1>9 DEF Resting, Kept
<1> QED
  BY <1>0, <1>1, <1>2, <1>3, <1>4, <1>5, <1>6, <1>7, <1>8, <1>9, CancelKinds
  DEF CancelKind

\* Where runs are dispatched to workers only the run that a cancel named is
\* stopped, and what belongs to it.
THEOREM AbortedWasAskedCorrect ==
  ASSUME ~Inline, Apis \intersect Workers = {}
  PROVE  Spec => []AbortedWasAsked
<1>1. Init => InWorkers /\ AbortedWasAsked
  BY DEF Init, InWorkers, AbortedWasAsked, NewRun
<1>2. CancelInv /\ InWorkers /\ [Next]_vars => InWorkers'
  BY WorkersStep DEF CancelInv
<1>3. CancelInv /\ InWorkers /\ AbortedWasAsked /\ [Next]_vars => AbortedWasAsked'
  BY AskedStep
<1> QED
  BY <1>1, <1>2, <1>3, CancelCorrect, PTL DEF Spec

-----------------------------------------------------------------------------
(* A cancel is noticed within a heartbeat interval.                        *)

\* A healthy run that its cancel key names is aborted once its heartbeat ran a
\* tick or more after the key was set.
NoticedInTime ==
  \A r \in Runs :
    Healthy(r) /\ CancelSeen(r) =>
      /\ r \in beaten /\ cancelKey[run[r].id].ttl + 1 <= CancelTtl => run[r].aborted
      /\ cancelKey[run[r].id].ttl + 2 <= CancelTtl => run[r].aborted

\* A run that is healthy was healthy before, or was claimed just now.
LEMMA HealthyBefore ==
  ASSUME IInv, Started, [Next]_vars, NEW r \in Runs, Healthy(r)'
  PROVE  \/ /\ Healthy(r)
            /\ run'[r].id = run[r].id
            /\ run[r].aborted => run'[r].aborted
         \/ \E p \in Procs \union {None} : Taking(p, r)
<1> DEFINE Goal == \/ /\ Healthy(r)
                      /\ run'[r].id = run[r].id
                      /\ run[r].aborted => run'[r].aborted
                   \/ \E p \in Procs \union {None} : Taking(p, r)
<1>0. TypeOK
  BY DEF IInv
<1> USE DEF Healthy, Running
<1>1. ASSUME NEW x \in Runs, Beginning(x) PROVE Goal
  BY <1>1 DEF Beginning, Kept
<1>2. ASSUME NEW x \in Runs, Finishing(x) PROVE Goal
  <2>1. Forgotten(x) /\ \A y \in Runs \ {x} : Kept(y)
    BY <1>0, <1>2, FinishFields DEF Finishing
  <2> QED
    BY <2>1 DEF Kept, Forgotten
<1>3. ASSUME NEW x \in Runs, Aborting(x) PROVE Goal
  <2>1. /\ Stable(r) /\ run'[r].missed = run[r].missed
        /\ run'[r].aborted = (run[r].aborted \/ r = x
                               \/ (run[r].parent = x /\ Running(r)))
    BY <1>0, <1>3, AbortedFields DEF Aborting
  <2>2. run[r].aborted => run'[r].aborted
    BY <2>1, Zenon
  <2> QED
    BY <2>1, <2>2 DEF Stable
<1>4. ASSUME NEW x \in Runs, Noting(x) PROVE Goal
  BY <1>0, <1>4, NoteFields DEF Stable
<1>5. ASSUME NEW x \in Runs, NEW s \in Steps, GoingOn(x, s) PROVE Goal
  <2>1. s \in {"crawling", "saving"} => run[x].pc = "crawling"
    BY <1>5 DEF GoingOn
  <2> QED
    BY <1>5, <2>1 DEF GoingOn, Kept
<1>6. ASSUME NEW x \in Runs, NEW p \in Procs \union {None}, Taking(p, x) PROVE Goal
  <2>1. CASE x = r
    BY <1>6, <2>1
  <2>2. CASE x # r
    BY <1>0, <1>6, <2>2, TakeFields DEF Taking, Kept
  <2> QED
    BY <2>1, <2>2
<1>7. CASE Tick
  <2>1. run[r].missed => run'[r].missed
    BY <1>0, <1>7 DEF TypeOK, RunState, Tick
  <2> QED
    BY <1>0, <1>7, <2>1, TickFields DEF Stable
<1>8. ASSUME NEW p \in Procs, Crash(p) PROVE Goal
  <2>1. IF DiesWith(r, p) THEN Forgotten(r) ELSE Kept(r)
    BY <1>0, <1>8, CrashFields
  <2> QED
    BY <2>1 DEF Kept, Forgotten
<1>9. CASE Resting
  BY <1>9 DEF Resting, Kept
<1> QED
  BY <1>1, <1>2, <1>3, <1>4, <1>5, <1>6, <1>7, <1>8, <1>9, CancelKinds
  DEF CancelKind

\* The steps that set a cancel key or note a heartbeat.
LEMMA KeyKinds ==
  ASSUME [Next]_vars
  PROVE  \/ cancelKey' = cancelKey /\ beaten' \subseteq beaten
         \/ \E r \in Runs : Beat(r) \/ ClearCancel(r)
         \/ \E r \in Runs : \E p : Claim(p, r) /\ cancelKey' = cancelKey
         \/ \E p \in Procs : CancelSet(p)
         \/ Tick
<1>1. ASSUME NEW r \in Runs, RunStep(r)
      PROVE  \/ cancelKey' = cancelKey /\ beaten' \subseteq beaten
             \/ Beat(r) \/ ClearCancel(r)
             \/ Claim(run[r].proc, r) /\ cancelKey' = cancelKey
  BY <1>1 DEF RunStep, Dispatch, DispatchFails, Discard, ClaimAcquired, AcquireFails,
     ClaimLost, CrawlEnds, BatchEnds, SaveResult, Unlock, ReleaseFails, BatchSkip,
     BatchStart
<1>2. ASSUME Control
      PROVE  \/ cancelKey' = cancelKey /\ beaten' \subseteq beaten
             \/ \E r \in Runs : \E p : Claim(p, r) /\ cancelKey' = cancelKey
             \/ \E p \in Procs : CancelSet(p)
  BY <1>2 DEF Control, Start, ReserveLost, ScheduledStart, ClaimJob, SkipJob, CancelRead,
     CancelDelete, CancelSave, CancelAbort
<1>3. ASSUME NEW p \in Procs, Crash(p)
      PROVE  cancelKey' = cancelKey /\ beaten' \subseteq beaten
  BY <1>3 DEF Crash
<1> QED
  BY <1>1, <1>2, <1>3 DEF Next, Environment, Redeliver, vars

\* Every step keeps NoticedInTime: a claim meets no key of its run, a key that is set has
\* all its time left, and a tick leaves only those healthy whose heartbeat ran.
LEMMA NoticedStep ==
  ASSUME CancelInv, NoticedInTime, [Next]_vars
  PROVE  NoticedInTime'
<1>0. TypeOK /\ IInv /\ Started /\ IdOK /\ KeysOK
  BY DEF CancelInv, FamilyInv, NamesOK, IInv
<1>01. NoCancel.run \notin Runs /\ CancelTtl \in Nat
  BY ConstantsAssumption DEF NoCancel
<1> SUFFICES ASSUME NEW r \in Runs, Healthy(r)', CancelSeen(r)'
             PROVE  /\ r \in beaten' /\ cancelKey'[run'[r].id].ttl + 1 <= CancelTtl
                         => run'[r].aborted
                    /\ cancelKey'[run'[r].id].ttl + 2 <= CancelTtl => run'[r].aborted
  BY DEF NoticedInTime
<1> DEFINE i == run[r].id
           Goal == /\ r \in beaten' /\ cancelKey'[run'[r].id].ttl + 1 <= CancelTtl
                         => run'[r].aborted
                   /\ cancelKey'[run'[r].id].ttl + 2 <= CancelTtl => run'[r].aborted
<1>1. CASE \E p \in Procs \union {None} : Taking(p, r)
  <2>1. PICK p \in Procs \union {None} : Taking(p, r)
    BY <1>1
  <2>2. /\ run[r].pc # "new" /\ i \in Ids /\ run'[r].id = i
        /\ OwnedQueued(i, r)
    <3>1. run[r].pc # "new" /\ i \in Ids
      BY <1>0, <2>1, TakenFirst
    <3>2. Claim(p, r)
      BY <2>1 DEF Taking
    <3>3. run'[r].id = i
      BY <1>0, <3>2, TakeFields
    <3> QED
      BY <3>1, <3>2, <3>3 DEF Claim, Claimable
  <2>3. cancelKey[i].run # r
    BY <1>0, <2>2 DEF KeysOK, Settled
  <2>4. cancelKey' = cancelKey
    BY <2>1 DEF Taking
  <2> QED
    BY <2>2, <2>3, <2>4 DEF CancelSeen
<1>2. CASE /\ Healthy(r)
           /\ run'[r].id = i
           /\ run[r].aborted => run'[r].aborted
  <2>0. i \in Ids /\ r \in Runs
    BY <1>0, <1>2 DEF IdOK, Healthy, Running
  <2>1. CASE cancelKey' = cancelKey /\ (r \in beaten' => r \in beaten)
    BY <1>2, <2>1 DEF NoticedInTime, CancelSeen
  <2>2. ASSUME NEW x \in Runs, Beat(x) PROVE Goal
    <3>1. CASE x = r
      <4>1. cancelKey' = cancelKey
        BY <2>2 DEF Beat
      <4>2. CancelSeen(r)
        BY <1>2, <4>1 DEF CancelSeen
      <4>3. run'[r].aborted
        <5>1. CASE run[r].aborted
          BY <1>2, <5>1
        <5>2. CASE ~run[r].aborted
          <6>1. run' = Abort(r)
            BY <2>2, <3>1, <4>2, <5>2 DEF Beat
          <6> QED
            BY <1>0, <6>1, AbortedFields, Zenon
        <5> QED
          BY <5>1, <5>2
      <4> QED
        BY <4>3
    <3>2. CASE x # r
      BY <2>1, <2>2, <3>2 DEF Beat
    <3> QED
      BY <3>1, <3>2
  <2>3. ASSUME NEW x \in Runs, ClearCancel(x) PROVE Goal
    <3>1. cancelKey'[i] = cancelKey[i] \/ cancelKey'[i].run \notin Runs
      BY <1>0, <1>01, <2>0, <2>3 DEF TypeOK, ClearCancel
    <3>2. beaten' = beaten /\ cancelKey'[i].run = r
      BY <1>2, <2>3 DEF ClearCancel, CancelSeen
    <3> QED
      BY <1>2, <3>1, <3>2 DEF NoticedInTime, CancelSeen
  <2>4. ASSUME NEW x \in Runs, NEW p, Claim(p, x), cancelKey' = cancelKey PROVE Goal
    <3>1. x # r
      BY <1>0, <1>2, <2>4 DEF IInv, LockKept, Claim, Claimable, OwnedQueued
    <3> QED
      BY <2>1, <2>4, <3>1 DEF Claim
  <2>5. ASSUME NEW p \in Procs, CancelSet(p) PROVE Goal
    <3>1. beaten' = beaten
      BY <2>5 DEF CancelSet
    <3>2. \/ cancelKey'[i] = cancelKey[i]
          \/ cancelKey'[i].ttl = CancelTtl
      BY <1>0, <2>0, <2>5 DEF TypeOK, CancelSet
    <3>3. CASE cancelKey'[i] = cancelKey[i]
      BY <1>2, <3>1, <3>3 DEF NoticedInTime, CancelSeen
    <3>4. CASE cancelKey'[i].ttl = CancelTtl
      BY <1>01, <1>2, <3>4
    <3> QED
      BY <3>2, <3>3, <3>4
  <2>6. CASE Tick
    <3>1. cancelKey'[i].run = r
      BY <1>2 DEF CancelSeen
    <3>2. /\ cancelKey[i].run = r
          /\ cancelKey[i].ttl \in Nat
          /\ cancelKey'[i].ttl = cancelKey[i].ttl - 1
      BY <1>0, <1>01, <2>0, <2>6, <3>1 DEF TypeOK, Tick, Aged
    <3>3. r \in beaten
      BY <1>0, <1>2, <2>6 DEF TypeOK, RunState, Tick, Healthy, Running
    <3>4. beaten' = {}
      BY <2>6 DEF Tick
    <3>5. cancelKey[i].ttl + 1 <= CancelTtl => run[r].aborted
      BY <1>2, <3>2, <3>3 DEF NoticedInTime, CancelSeen
    <3> QED
      BY <1>01, <1>2, <3>2, <3>4, <3>5
  <2> QED
    BY <2>1, <2>2, <2>3, <2>4, <2>5, <2>6, KeyKinds
<1> QED
  BY <1>0, <1>1, <1>2, HealthyBefore

\* A healthy run is told to stop within one heartbeat interval of the cancel.
THEOREM CancelNoticedCorrect == Spec => []CancelNoticed
<1>1. Init => NoticedInTime
  BY DEF Init, NoticedInTime, Healthy, Running, NewRun
<1>2. CancelInv /\ NoticedInTime /\ [Next]_vars => NoticedInTime'
  BY NoticedStep
<1>3. NoticedInTime => CancelNoticed
  BY DEF NoticedInTime, CancelNoticed
<1> QED
  BY <1>1, <1>2, <1>3, CancelCorrect, PTL DEF Spec

-----------------------------------------------------------------------------
(* CrawlerRuns implements TargetRuns: the initial states map to initial    *)
(* states, and every step maps to a step of TargetRuns or to a stutter.    *)

\* The phase of a run and the state it is read from.
LEMMA PhaseFacts ==
  ASSUME NEW r \in Runs
  PROVE  /\ PhaseOf(r) = "new" <=> run[r].pc = "new"
         /\ PhaseOf(r) = "active" <=> Healthy(r)
         /\ PhaseOf(r) = "waiting" <=> /\ run[r].pc # "new"
                                       /\ ~Healthy(r)
                                       /\ OwnedQueued(run[r].id, r)
         /\ PhaseOf(r) \in {"new", "waiting", "active", "over"}
  BY DEF PhaseOf, Healthy, Running

\* No run gets further than over, and no run gets anywhere else.
OnlyEnds ==
  \A r \in Runs :
    /\ run'[r].id = run[r].id
    /\ \/ PhaseOf(r)' = PhaseOf(r)
       \/ PhaseOf(r) \in {"waiting", "active"} /\ PhaseOf(r)' = "over"

\* A step that only ends runs is allowed by the promise.
LEMMA OnlyEndsMaps == OnlyEnds => [Abstract!AbsNext]_(Abstract!absVars)
<1> SUFFICES ASSUME OnlyEnds PROVE Abstract!EndRuns
  BY DEF Abstract!AbsNext
<1>1. \A r \in Runs : PhaseOf(r)' \in {"new", "waiting", "active", "over"}
  <2>1. \A r \in Runs : PhaseOf(r) \in {"new", "waiting", "active", "over"}
    BY PhaseFacts
  <2> QED
    BY <2>1 DEF OnlyEnds
<1> QED
  BY <1>1 DEF OnlyEnds, Abstract!EndRuns, Abstract!Phases, Abstract!Live

\* the same of the next state
LEMMA NextPhaseFacts ==
  ASSUME NEW r \in Runs
  PROVE  /\ PhaseOf(r)' = "new" <=> run'[r].pc = "new"
         /\ PhaseOf(r)' = "active" <=> Healthy(r)'
         /\ PhaseOf(r)' = "waiting" <=> /\ run'[r].pc # "new"
                                        /\ ~Healthy(r)'
                                        /\ lock'[run'[r].id].run = r
                                        /\ lock'[run'[r].id].state = "queued"
         /\ PhaseOf(r)' \in {"new", "waiting", "active", "over"}
  BY DEF PhaseOf, Healthy, Running, OwnedQueued

\* A reservation is one of the promise.
LEMMA ReservingMaps ==
  ASSUME IInv, NEW r \in Runs, NEW i \in Ids, Reserving(r, i)
  PROVE  Abstract!ReserveRun(r, i)
<1>1. lock[i].run \notin Runs /\ run[r].pc = "new"
  BY ConstantsAssumption DEF Reserving, Reserve, NoLock
<1>2. \A x \in Runs : run[x].id = i => PhaseOf(x) \notin {"waiting", "active"}
  BY <1>1, PhaseFacts DEF IInv, LockKept, OwnedQueued
<1>3. /\ lock'[i].run = r
      /\ lock'[i].state = "queued"
      /\ \A j \in Ids \ {i} : lock'[j] = lock[j]
  BY DEF IInv, TypeOK, Reserving, Reserve, QueuedLock
<1>4. PhaseOf(r) = "new" /\ PhaseOf(r)' = "waiting"
  BY <1>1, <1>3, PhaseFacts, NextPhaseFacts DEF Reserving, Healthy, Running
<1>5. ASSUME NEW x \in Runs \ {r}
      PROVE  PhaseOf(x)' = PhaseOf(x) /\ run'[x].id = run[x].id
  <2>1. /\ run'[x].pc = run[x].pc
        /\ run'[x].id = run[x].id
        /\ Healthy(x)' <=> Healthy(x)
    BY DEF Reserving, Same, SameBut, Healthy, Running
  <2>2. run[x].pc # "new" =>
          (OwnedQueued(run[x].id, x)' <=> OwnedQueued(run[x].id, x))
    BY <1>1, <1>3, <2>1 DEF IInv, IdOK, OwnedQueued
  <2> QED
    BY <2>1, <2>2, PhaseFacts, NextPhaseFacts DEF OwnedQueued
<1>6. \A x \in Runs : run'[x].id = IF x = r THEN i ELSE run[x].id
  BY <1>5 DEF Reserving
<1>7. [x \in Runs |-> PhaseOf(x)'] = [[x \in Runs |-> PhaseOf(x)] EXCEPT ![r] = "waiting"]
  BY <1>4, <1>5
<1>8. [x \in Runs |-> run'[x].id] = [[x \in Runs |-> run[x].id] EXCEPT ![r] = i]
  BY <1>6
<1> QED
  BY <1>2, <1>4, <1>7, <1>8 DEF Abstract!ReserveRun, Abstract!Live

\* A claim begins the run, unless it missed a heartbeat before, and then changes nothing.
LEMMA ClaimingMaps ==
  ASSUME IInv, IInv', NEW r \in Runs, Claiming(r)
  PROVE  Abstract!BeginRun(r) \/ OnlyEnds
<1> DEFINE i == run[r].id
<1>1. PICK p \in Procs \union {None} : Claim(p, r)
  BY DEF Claiming
<1>2. i \in Ids /\ lock[i].run = r /\ lock[i].state = "queued" /\ run[r].pc # "new"
  BY <1>1 DEF IInv, IdOK, Claiming, Claim, Claimable, OwnedQueued
<1>3. /\ lock'[i].run = r
      /\ lock'[i].state = "running"
      /\ \A j \in Ids \ {i} : lock'[j] = lock[j]
  BY <1>1, <1>2 DEF IInv, TypeOK, Claim, RunningLock
<1>4. /\ \A x \in Runs \ {r} : Same(x)
      /\ run'[r].pc = "crawling" /\ run'[r].id = i
      /\ run'[r].missed = run[r].missed
  BY <1>1, ClaimFields DEF IInv
<1>5. PhaseOf(r) = "waiting"
  BY <1>2, PhaseFacts DEF IInv, LockKept, OwnedQueued
<1>6. PhaseOf(r)' \in {"active", "over"}
  BY <1>2, <1>3, <1>4, NextPhaseFacts
<1>7. ASSUME NEW x \in Runs \ {r}
      PROVE  PhaseOf(x)' = PhaseOf(x) /\ run'[x].id = run[x].id
  <2>1. /\ run'[x].pc = run[x].pc
        /\ run'[x].id = run[x].id
        /\ Healthy(x)' <=> Healthy(x)
    BY <1>4 DEF Same, SameBut, Healthy, Running
  <2>2. run[x].pc # "new" =>
          (OwnedQueued(run[x].id, x)' <=> OwnedQueued(run[x].id, x))
    BY <1>2, <1>3, <2>1 DEF IInv, IdOK, OwnedQueued
  <2> QED
    BY <2>1, <2>2, PhaseFacts, NextPhaseFacts DEF OwnedQueued
<1>8. CASE PhaseOf(r)' = "over"
  BY <1>4, <1>5, <1>7, <1>8 DEF OnlyEnds
<1>9. CASE PhaseOf(r)' = "active"
  <2>1. [x \in Runs |-> PhaseOf(x)'] = [[x \in Runs |-> PhaseOf(x)] EXCEPT ![r] = "active"]
    BY <1>7, <1>9
  <2>2. [x \in Runs |-> run'[x].id] = [x \in Runs |-> run[x].id]
    BY <1>4, <1>7
  <2> QED
    BY <1>5, <2>1, <2>2 DEF Abstract!BeginRun
<1> QED
  BY <1>6, <1>8, <1>9

\* The other kinds of steps end runs or change no phase.
LEMMA MovingEnds ==
  ASSUME IInv, NEW r \in Runs, NEW s \in Steps, Moving(r, s)
  PROVE  OnlyEnds
<1> USE DEF Moving
<1>1. ASSUME NEW x \in Runs
      PROVE  /\ run'[x].id = run[x].id
             /\ run'[x].pc = "new" <=> run[x].pc = "new"
             /\ Healthy(x)' => Healthy(x)
             /\ lock'[run'[x].id] = lock[run[x].id]
  BY DEF Same, SameBut, Healthy, Running
<1>2. \A x \in Runs : Healthy(x) => ~OwnedQueued(run[x].id, x)
  BY DEF IInv, LockKept, OwnedQueued
<1> QED
  BY <1>1, <1>2, PhaseFacts, NextPhaseFacts DEF OnlyEnds, OwnedQueued

\* A run that ends, or gives its lock away, is over.
LEMMA EndingEnds ==
  ASSUME IInv, NEW r \in Runs, Ending(r)
  PROVE  OnlyEnds
<1> USE DEF Ending
<1>0. run[r].id \in Ids /\ NoLock.run \notin Runs
  BY ConstantsAssumption DEF IInv, IdOK, NoLock
<1>1. ASSUME NEW x \in Runs
      PROVE  /\ run'[x].id = run[x].id
             /\ run'[x].pc = "new" <=> run[x].pc = "new"
             /\ Healthy(x)' => Healthy(x)
             /\ x # r => (Healthy(x)' <=> Healthy(x))
  BY DEF Over, Same, SameBut, Healthy, Running
<1>2. \A i \in Ids : \/ lock'[i] = lock[i]
                     \/ /\ lock[i].run = r
                        /\ \/ lock'[i].run \notin Runs
                           \/ lock'[i].run = r /\ lock'[i].state = "running"
  BY <1>0 DEF IInv, TypeOK, RunningLock
<1>3. ASSUME NEW x \in Runs, run[x].pc # "new"
      PROVE  \/ lock'[run'[x].id] = lock[run[x].id]
             \/ x # r /\ lock[run[x].id].run # x /\ lock'[run'[x].id].run # x
             \/ /\ x = r
                /\ \/ lock'[run'[x].id].run # x
                   \/ lock'[run'[x].id].state = "running"
  BY <1>1, <1>2, <1>3 DEF IInv, IdOK
<1>4. \A x \in Runs : Healthy(x) => ~OwnedQueued(run[x].id, x)
  BY DEF IInv, LockKept, OwnedQueued
<1> QED
  BY <1>1, <1>3, <1>4, PhaseFacts, NextPhaseFacts DEF OnlyEnds, OwnedQueued

\* A heartbeat changes no phase.
LEMMA BeatEnds ==
  ASSUME IInv, NEW r \in Runs, Beat(r)
  PROVE  OnlyEnds
<1>1. \A x \in Runs : Same(x)
  <2>1. CASE run' = Abort(r)
    BY <2>1, AbortFields DEF IInv
  <2>2. CASE run' = run
    BY <2>2 DEF Same, SameBut
  <2> QED
    BY <2>1, <2>2 DEF Beat
<1>2. \A i \in Ids : lock'[i].run = lock[i].run /\ lock'[i].state = lock[i].state
  BY DEF IInv, TypeOK, Beat, Extend, Lock, NoLock
<1>3. ASSUME NEW x \in Runs
      PROVE  /\ run'[x].id = run[x].id
             /\ run'[x].pc = run[x].pc
             /\ Healthy(x)' <=> Healthy(x)
             /\ run[x].pc # "new" => run[x].id \in Ids
  BY <1>1 DEF IInv, IdOK, Same, SameBut, Healthy, Running
<1> QED
  BY <1>2, <1>3, PhaseFacts, NextPhaseFacts DEF OnlyEnds, OwnedQueued

\* A tick ends the runs whose lock or heartbeat it takes.
LEMMA TickEnds ==
  ASSUME IInv, Tick
  PROVE  OnlyEnds
<1>1. ASSUME NEW x \in Runs
      PROVE  /\ run'[x].pc = run[x].pc
             /\ run'[x].id = run[x].id
             /\ Healthy(x)' => Healthy(x)
  <2>1. \/ run'[x] = [run[x] EXCEPT !.missed = TRUE]
        \/ run'[x] = run[x]
    BY DEF Tick
  <2>2. run[x] \in RunState
    BY DEF IInv, TypeOK
  <2> QED
    BY <2>1, <2>2 DEF RunState, Healthy, Running
<1>2. \A i \in Ids : \/ lock'[i].run \notin Runs
                     \/ lock'[i].run = lock[i].run /\ lock'[i].state = lock[i].state
  BY ConstantsAssumption DEF IInv, TypeOK, Tick, Aged, Lock, NoLock
<1>3. \A x \in Runs : run[x].pc # "new" => run[x].id \in Ids
  BY DEF IInv, IdOK
<1>4. \A x \in Runs : Healthy(x) => ~OwnedQueued(run[x].id, x)
  BY DEF IInv, LockKept, OwnedQueued
<1> QED
  BY <1>1, <1>2, <1>3, <1>4, PhaseFacts, NextPhaseFacts DEF OnlyEnds, OwnedQueued

\* A crash ends the runs of its process.
LEMMA CrashEnds ==
  ASSUME IInv, NEW p \in Procs, Crash(p)
  PROVE  OnlyEnds
<1>1. ASSUME NEW x \in Runs
      PROVE  \/ run[x].pc # "new" /\ Over(x)
             \/ Same(x)
  BY DEF IInv, TypeOK, Crash, DiesWith, Ended, NewRun, Over, Same, SameBut
<1>2. ASSUME NEW x \in Runs
      PROVE  /\ run'[x].id = run[x].id
             /\ run'[x].pc = "new" <=> run[x].pc = "new"
             /\ Healthy(x)' => Healthy(x)
             /\ lock'[run'[x].id] = lock[run[x].id]
  BY <1>1 DEF Over, Same, SameBut, Healthy, Running, Crash
<1>3. \A x \in Runs : Healthy(x) => ~OwnedQueued(run[x].id, x)
  BY DEF IInv, LockKept, OwnedQueued
<1> QED
  BY <1>2, <1>3, PhaseFacts, NextPhaseFacts DEF OnlyEnds, OwnedQueued

\* A cancel ends the run it dequeues.
LEMMA DequeuingEnds ==
  ASSUME IInv, NEW i \in Ids, NEW r \in Runs, Dequeuing(i, r)
  PROVE  OnlyEnds
<1>1. /\ \A x \in Runs \ {r} : Same(x)
      /\ run'[r].pc = run[r].pc
      /\ run'[r].id = run[r].id
      /\ run'[r].missed = run[r].missed
  BY DequeuedFields DEF IInv, Dequeuing
<1>2. ASSUME NEW x \in Runs
      PROVE  /\ run'[x].id = run[x].id
             /\ run'[x].pc = run[x].pc
             /\ Healthy(x)' <=> Healthy(x)
             /\ run[x].pc # "new" => run[x].id \in Ids
  BY <1>1 DEF IInv, IdOK, Same, SameBut, Healthy, Running
<1>3. \A j \in Ids : IF j = i THEN lock'[j].run \notin Runs ELSE lock'[j] = lock[j]
  BY ConstantsAssumption DEF IInv, TypeOK, NoLock, Dequeuing
<1>4. lock[i].run = r
  BY DEF Dequeuing, OwnedQueued
<1> QED
  BY <1>2, <1>3, <1>4, PhaseFacts, NextPhaseFacts DEF OnlyEnds, OwnedQueued

\* What changes no lock and no run changes no phase.
LEMMA QuietEnds == Quiet => OnlyEnds
<1> SUFFICES ASSUME Quiet PROVE OnlyEnds
  OBVIOUS
<1>1. ASSUME NEW x \in Runs
      PROVE  /\ run'[x].id = run[x].id
             /\ run'[x].pc = run[x].pc
             /\ Healthy(x)' <=> Healthy(x)
             /\ lock'[run'[x].id] = lock[run[x].id]
  BY DEF Quiet, Same, SameBut, Healthy, Running
<1> QED
  BY <1>1, PhaseFacts, NextPhaseFacts DEF OnlyEnds, OwnedQueued

-----------------------------------------------------------------------------
\* The initial states map to initial states.
LEMMA InitMaps == Init => Abstract!AbsInit
<1> SUFFICES ASSUME Init PROVE Abstract!AbsInit
  OBVIOUS
<1>1. \A r \in Runs : run[r].pc = "new" /\ run[r].id = None
  BY DEF Init, NewRun
<1> QED
  BY <1>1, PhaseFacts DEF Abstract!AbsInit

\* Every step maps to a step of the promise or to none.
LEMMA StepMaps ==
  ASSUME IInv, IInv', [Next]_vars
  PROVE  [Abstract!AbsNext]_(Abstract!absVars)
<1>1. StepKind
  BY StepKinds
<1>2. ASSUME NEW r \in Runs, NEW i \in Ids, Reserving(r, i)
      PROVE  Abstract!AbsNext
  BY <1>2, ReservingMaps DEF Abstract!AbsNext
<1>3. ASSUME NEW r \in Runs, Claiming(r)
      PROVE  Abstract!AbsNext \/ OnlyEnds
  BY <1>3, ClaimingMaps DEF Abstract!AbsNext
<1>4. ASSUME StepKind
      PROVE  Abstract!AbsNext \/ OnlyEnds
  BY <1>2, <1>3, <1>4, MovingEnds, EndingEnds, BeatEnds, TickEnds, CrashEnds,
     DequeuingEnds, QuietEnds
  DEF StepKind
<1> QED
  BY <1>1, <1>4, OnlyEndsMaps

\* The registry keeps the promise of TargetRuns, stalls and crashes included.
THEOREM KeepsPromiseCorrect == Spec => KeepsPromise
  BY InitMaps, StepMaps, InvariantCorrect, PTL DEF Spec, KeepsPromise, Abstract!AbsSpec

-----------------------------------------------------------------------------
(* What the promise of TargetRuns comes to.                                *)

\* Of the runs of one id, one at most waits or is active, as the promise has it.
OneLivePerId ==
  \A r, x \in Runs :
    (Abstract!Live(r) /\ Abstract!Live(x) /\ run[r].id = run[x].id) => r = x

AbsInv == Abstract!AbsTypeOK /\ OneLivePerId

\* Initially no run has begun.
LEMMA AbsInvInit == Abstract!AbsInit => AbsInv
BY DEF Abstract!AbsInit, AbsInv, Abstract!AbsTypeOK, OneLivePerId, Abstract!Phases,
       Abstract!Live

\* Every step that the promise allows keeps one live run per id.
LEMMA AbsInvStep == AbsInv /\ [Abstract!AbsNext]_(Abstract!absVars) => AbsInv'
<1> DEFINE phase == [r \in Runs |-> PhaseOf(r)]
           of == [r \in Runs |-> run[r].id]
<1> SUFFICES ASSUME AbsInv, [Abstract!AbsNext]_(Abstract!absVars) PROVE AbsInv'
  OBVIOUS
<1>0. \A r \in Runs : of[r] = run[r].id /\ of'[r] = run'[r].id
  OBVIOUS
<1> HIDE DEF phase, of
<1> USE DEF AbsInv, Abstract!AbsTypeOK, OneLivePerId, Abstract!Phases, Abstract!Live
<1>1. CASE Abstract!EndRuns
  BY <1>0, <1>1 DEF Abstract!EndRuns, phase, of
<1>2. ASSUME NEW r \in Runs, Abstract!BeginRun(r)
      PROVE  AbsInv'
  BY <1>0, <1>2 DEF Abstract!BeginRun, phase, of
<1>3. ASSUME NEW r \in Runs, NEW i \in Ids, Abstract!ReserveRun(r, i)
      PROVE  AbsInv'
  BY <1>0, <1>3 DEF Abstract!ReserveRun, phase, of
<1>4. CASE UNCHANGED Abstract!absVars
  BY <1>0, <1>4 DEF Abstract!absVars, phase, of
<1> QED
  BY <1>1, <1>2, <1>3, <1>4 DEF Abstract!AbsNext

\* What implements the promise has one active run of an id at most: so has the
\* registry, for every number of runs, processes and ids.
THEOREM OneActivePerIdCorrect == Spec => []Abstract!OneActivePerId
<1>1. AbsInv => Abstract!OneActivePerId
  BY DEF AbsInv, OneLivePerId, Abstract!Live, Abstract!OneActivePerId
<1> QED
  BY <1>1, AbsInvInit, AbsInvStep, KeepsPromiseCorrect, PTL DEF KeepsPromise, Abstract!AbsSpec

=============================================================================
