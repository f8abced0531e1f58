---------------------------- MODULE CrawlSchedule -----------------------------
(* When crawl targets are crawled, and what times their posts are given:     *)
(* CrawlerRunner.runScheduledTick, the switches of CrawlerController, and    *)
(* utils/crawl-schedule.ts and utils/post-timing.ts.  Time passes in units;  *)
(* timers are punctual.  One crawl of a target at a time, as TargetRuns      *)
(* promises; what it collects is in CrawlTarget.  The intervals and the      *)
(* board of a target do not change, and posts keep their order (the mode     *)
(* 'shuffled' has none to keep).                                             *)
EXTENDS Integers, FiniteSets

CONSTANTS Targets,      \* crawl targets, all of them posting to one board
          Null,
          MaxTime,      \* bound on the clock
          Tick,         \* SCHEDULE_TICK_MS
          MinInterval, MaxInterval,  \* crawlIntervalMinutes, crawlIntervalMaxMinutes
          AutoStops,    \* the values of autoStopMinutes, 0 for none
          Dates,        \* dates a request may give for activatedAt
          MaxOffset,    \* timeJitterMaxMinutes: how far back a post may be dated
          Bump          \* the 20 s a post is moved past the one before it

ASSUME CrawlScheduleAssumption ==
    /\ {MaxTime, MaxOffset} \cup AutoStops \subseteq Nat /\ Dates \subseteq Int
    /\ {Tick, MinInterval, MaxInterval, Bump} \subseteq Nat \ {0}
    /\ Tick <= MinInterval /\ MinInterval <= MaxInterval
    /\ Null \notin Int

VARIABLES
    now,
    schedule,  \* crawler_targets rows: isActive, last, next, activatedAt, autoStop
    run,       \* the crawl of a target that is under way, or Null
    waiting,   \* scheduled crawls that wait for their start: target and time
    tick,      \* the schedule check under way: rows read and targets still to look at
    ticked,    \* time of the last check
    latest,    \* the latest createdAt of a target's posts that are not deleted
    free,      \* history: up to when no check could take the target up: a crawl of it ended, it
               \* was switched on, the worker started, or a check broke off before it
    timed,     \* history: when a request last set activatedAt or autoStop of a target that is on
    spaced     \* history: the start last planned for a scheduled crawl, unless something
               \* else set the time of the next one since

scheduleVars == <<now, schedule, run, waiting, tick, ticked, latest, free, timed, spaced>>

Time == 0..MaxTime
Date == -MaxOffset..MaxTime   \* of a post
noTick == [rows |-> <<>>, todo |-> {}]
Row == [isActive : BOOLEAN, last : Time \cup {Null}, next : Nat \cup {Null},
        activatedAt : Time \cup Dates \cup {Null}, autoStop : AutoStops]
Run == [manual : BOOLEAN, startedAt : Time, planned : BOOLEAN,
        floor : Date \cup {Null}, offset : 0..MaxOffset]

ASSUME NullIsNoRun == Null \notin Run

ScheduleTypeOK ==
    /\ now \in Time /\ ticked \in -1..MaxTime
    /\ schedule \in [Targets -> Row]
    /\ run \in [Targets -> Run \cup {Null}]
    /\ waiting \subseteq [target : Targets, at : Nat]
    /\ tick \in [rows : [Targets -> Row], todo : SUBSET Targets] \cup {noTick}
    /\ latest \in [Targets -> Date \cup {Null}]
    /\ {free, timed} \subseteq [Targets -> Time]
    /\ spaced \in [Targets -> Nat \cup {Null}]

\* createTarget at time 0
NewRow(on, stop) == [isActive |-> on, last |-> Null, next |-> Null,
                     activatedAt |-> IF on THEN 0 ELSE Null, autoStop |-> stop]

ScheduleInit ==
    /\ now = 0 /\ ticked = -1
    /\ schedule \in [Targets -> {NewRow(on, stop) : on \in BOOLEAN, stop \in AutoStops}]
    /\ run = [t \in Targets |-> Null]
    /\ waiting = {} /\ tick = noTick
    /\ latest = [t \in Targets |-> Null] /\ spaced = [t \in Targets |-> Null]
    /\ free = [t \in Targets |-> 0] /\ timed = [t \in Targets |-> 0]

Set(t, r) == schedule' = [schedule EXCEPT ![t] = r]

SwitchedOff(row) == [row EXCEPT !.isActive = FALSE, !.activatedAt = Null]

\* pickNextCrawlAt
NextTimes(from) == (from + MinInterval)..(from + MaxInterval)

-------------------------------------------------------------------------------
\* a check is owed when the minute is full; delayed starts are owed at their time
CheckOwed == now % Tick = 0 /\ ticked < now
StartOwed == \E w \in waiting : w.at <= now

Advance ==
    /\ now < MaxTime /\ ~CheckOwed /\ ~StartOwed /\ tick = noTick
    /\ now' = now + 1
    /\ UNCHANGED <<schedule, run, waiting, tick, ticked, latest, free, timed, spaced>>

\* what updateTarget may write to activatedAt when the request names a date
Given == Dates \cup {now, Null}

\* updateTarget with isActive = TRUE: unless the target was on when the request read it,
\* however long ago that is, both times are emptied, so the next check starts it
SwitchOn(t, was) ==
    /\ \E at \in Given, stop \in AutoStops :
         LET on == [schedule[t] EXCEPT !.isActive = TRUE, !.activatedAt = at, !.autoStop = stop]
         IN  Set(t, IF was THEN on ELSE [on EXCEPT !.last = Null, !.next = Null])
    /\ spaced' = IF was THEN spaced ELSE [spaced EXCEPT ![t] = Null]
    /\ free' = IF was /\ schedule[t].isActive THEN free ELSE [free EXCEPT ![t] = now]
    /\ timed' = [timed EXCEPT ![t] = now]
    /\ UNCHANGED <<now, run, waiting, tick, ticked, latest>>

\* updateTarget with isActive = FALSE
SwitchOff(t) ==
    /\ schedule[t].isActive
    /\ Set(t, SwitchedOff(schedule[t]))
    /\ UNCHANGED <<now, run, waiting, tick, ticked, latest, free, timed, spaced>>

\* updateTarget without isActive: the timer of the automatic stop is set or extended; of a
\* target that is off both are set again when it is switched on
SetTimer(t) ==
    /\ schedule[t].isActive
    /\ \E at \in Given \cup {schedule[t].activatedAt}, stop \in AutoStops :
         Set(t, [schedule[t] EXCEPT !.activatedAt = at, !.autoStop = stop])
    /\ timed' = [timed EXCEPT ![t] = now]
    /\ UNCHANGED <<now, run, waiting, tick, ticked, latest, free, spaced>>

-------------------------------------------------------------------------------
(* runScheduledTick.                                                         *)

\* the rows of all active targets are read, or cannot be
BeginTick ==
    /\ CheckOwed /\ tick = noTick
    /\ ticked' = now
    /\ LET on == {t \in Targets : schedule[t].isActive}
       IN  \/ /\ tick' = IF on = {} THEN noTick ELSE [rows |-> schedule, todo |-> on]
              /\ UNCHANGED free
           \/ free' = [t \in Targets |-> now] /\ UNCHANGED tick
    /\ UNCHANGED <<now, schedule, run, waiting, latest, timed, spaced>>

\* planScheduledRun: when a row is due
DueAt(row) == IF row.next # Null THEN row.next
              ELSE IF row.last # Null THEN row.last + MinInterval ELSE now
\* mutant: only what is due already is taken up
DueAlready(row) == DueAt(row) <= now
\* due before the next check
Due(row) == DueAt(row) < now + Tick

StartTime(row) == IF DueAt(row) < now THEN now ELSE DueAt(row)

\* mutant: the next time is counted from the check, not from the start
FromCheck(row) == NextTimes(now)
NextAfter(row) == NextTimes(StartTime(row))

\* createdAt stands in for a date that is not set
ActiveSince(row) == IF row.activatedAt # Null THEN row.activatedAt ELSE 0
\* mutant: the automatic stop is only for targets that are due
StopIfDue(row) == row.autoStop > 0 /\ now - ActiveSince(row) >= row.autoStop /\ Due(row)
AutoStopped(row) == row.autoStop > 0 /\ now - ActiveSince(row) >= row.autoStop

Busy(t) == run[t] # Null

\* what a check writes to the row of a target: the automatic stop, or the next time
Stopping(t) ==
    /\ ~Busy(t) /\ AutoStopped(tick.rows[t])
    /\ Set(t, SwitchedOff(schedule[t]))
Planning(t) ==
    /\ ~Busy(t) /\ ~AutoStopped(tick.rows[t]) /\ Due(tick.rows[t])
    /\ \E next \in NextAfter(tick.rows[t]) : Set(t, [schedule[t] EXCEPT !.next = next])
LeftAlone(t) ==
    /\ Busy(t) \/ (~AutoStopped(tick.rows[t]) /\ ~Due(tick.rows[t]))
    /\ UNCHANGED schedule

\* one target of the check: left alone while it is crawled, stopped when its time is
\* over, or planned, its next time being set before it starts
CheckTarget(t) ==
    LET start == StartTime(tick.rows[t])
        rest == tick.todo \ {t}
    IN  /\ t \in tick.todo
        /\ tick' = IF rest = {} THEN noTick ELSE [tick EXCEPT !.todo = rest]
        /\ \/ (LeftAlone(t) \/ Stopping(t)) /\ UNCHANGED <<waiting, spaced>>
           \/ /\ Planning(t)
              /\ waiting' = waiting \cup {[target |-> t, at |-> start]}
              /\ spaced' = [spaced EXCEPT ![t] = start]
        /\ UNCHANGED <<now, run, ticked, latest, free, timed>>

\* the catch of the check: looking at a target fails, and the check is over for all that
\* are left; a write whose answer was lost has taken effect all the same
FailCheck(t) ==
    /\ t \in tick.todo
    /\ UNCHANGED schedule \/ Stopping(t) \/ Planning(t)
    /\ tick' = noTick
    /\ free' = [u \in Targets |-> IF u \in tick.todo THEN now ELSE free[u]]
    /\ UNCHANGED <<now, run, waiting, ticked, latest, timed, spaced>>

\* executeScheduledCrawl after its delay: acquire fails while the target is crawled,
\* and crawlTarget returns at once when it was switched off meanwhile
StartScheduled(w) ==
    LET t == w.target IN
    /\ w \in waiting /\ w.at <= now
    /\ waiting' = waiting \ {w}
    /\ run' = IF Busy(t) \/ ~schedule[t].isActive THEN run
              ELSE [run EXCEPT ![t] = [manual |-> FALSE, startedAt |-> now, planned |-> FALSE,
                                       floor |-> Null, offset |-> 0]]
    /\ UNCHANGED <<now, schedule, tick, ticked, latest, free, timed, spaced>>

\* the worker restarts: delayed starts live in its memory
Restart ==
    /\ waiting' = {} /\ tick' = noTick
    /\ <<waiting, tick>> # <<{}, noTick>>
    /\ spaced' = [t \in Targets |-> Null]
    /\ free' = [t \in Targets |-> now]
    /\ UNCHANGED <<now, schedule, run, ticked, latest, timed>>

-------------------------------------------------------------------------------
(* A crawl.                                                                  *)

\* a crawl an administrator starts, whether the target is active or not
StartManual(t) ==
    /\ ~Busy(t)
    /\ run' = [run EXCEPT ![t] = [manual |-> TRUE, startedAt |-> now, planned |-> FALSE,
                                   floor |-> Null, offset |-> 0]]
    /\ spaced' = [spaced EXCEPT ![t] = Null]
    /\ UNCHANGED <<now, schedule, waiting, tick, ticked, latest, free, timed>>

\* the latest date of a post by a crawl that the board still has, or Null
Newest == LET dates == {latest[t] : t \in Targets} \ {Null}
          IN  IF dates = {} THEN {Null} ELSE {d \in dates : \A e \in dates : e <= d}

\* the queue is ready: the plan of the times (how far back the oldest post goes), and
\* the latest post by a crawl that the board has
PlanPosts(t) ==
    /\ Busy(t) /\ ~run[t].planned
    /\ \E floor \in Newest, offset \in 0..MaxOffset :
         run' = [run EXCEPT ![t].planned = TRUE, ![t].floor = floor, ![t].offset = offset]
    /\ UNCHANGED <<now, schedule, waiting, tick, ticked, latest, free, timed, spaced>>

\* mutant: the planned time is taken whatever was registered before
AsPlanned(offset, floor) == {now - offset}
\* resolvePostCreatedAt, mode 'ordered': the planned time, or one past the post before it
\* and in the first half of the time since, never in the future
CreatedAt(offset, floor) ==
    IF floor = Null THEN {now - offset}
    ELSE IF now - offset > floor THEN {now - offset}
    ELSE LET half == (now - floor) \div 2
             moved == {floor + Bump} \cup {floor + d : d \in Bump..half}
         IN  {IF at < now THEN at ELSE now : at \in moved}

\* one post is registered; the next one of the queue is dated less far back
RegisterPost(t) ==
    /\ Busy(t) /\ run[t].planned
    /\ \E at \in CreatedAt(run[t].offset, run[t].floor), less \in 0..run[t].offset :
         /\ latest' = [latest EXCEPT ![t] = at]
         /\ run' = [run EXCEPT ![t].floor = at, ![t].offset = less]
    /\ UNCHANGED <<now, schedule, waiting, tick, ticked, free, timed, spaced>>

\* the latest posts of a target are deleted, by their author's account or an
\* administrator; what is left is older
RemovePosts(t) ==
    /\ latest[t] # Null
    /\ \E left \in {d \in Date : d < latest[t]} \cup {Null} : latest' = [latest EXCEPT ![t] = left]
    /\ UNCHANGED <<now, schedule, run, waiting, tick, ticked, free, timed, spaced>>

\* the end of crawlTarget: the start is noted, and after a manual crawl the next time is
\* set again; a crawl that fails, or only takes the baseline, notes less
EndCrawl(t) ==
    /\ Busy(t)
    /\ \/ UNCHANGED schedule
       \/ Set(t, [schedule[t] EXCEPT !.last = run[t].startedAt])
       \/ /\ run[t].manual
          /\ \E next \in NextTimes(run[t].startedAt) :
               Set(t, [schedule[t] EXCEPT !.last = run[t].startedAt, !.next = next])
    /\ run' = [run EXCEPT ![t] = Null]
    /\ free' = [free EXCEPT ![t] = now]
    /\ spaced' = IF run[t].manual THEN [spaced EXCEPT ![t] = Null] ELSE spaced
    /\ UNCHANGED <<now, waiting, tick, ticked, latest, timed>>

-------------------------------------------------------------------------------
ScheduleNext ==
    \/ Advance \/ BeginTick \/ Restart
    \/ \E t \in Targets :
         \/ \E was \in BOOLEAN : SwitchOn(t, was)
         \/ SwitchOff(t) \/ SetTimer(t) \/ CheckTarget(t) \/ FailCheck(t)
         \/ StartManual(t) \/ PlanPosts(t) \/ RegisterPost(t) \/ RemovePosts(t) \/ EndCrawl(t)
    \/ \E w \in waiting : StartScheduled(w)

ScheduleSpec == ScheduleInit /\ [][ScheduleNext]_scheduleVars

-------------------------------------------------------------------------------
(* Properties.                                                               *)

\* Two planned starts of a target are at least the shortest interval apart, as long as no
\* manual crawl, switch or restart set the time anew ("기다리는 동안 다음 검사가 같은 수집을
\* 또 시작하지 않게").
Spacing ==
    [][\A t \in Targets : (spaced[t] # Null /\ spaced'[t] # Null /\ spaced'[t] # spaced[t]) =>
         spaced'[t] - spaced[t] >= MinInterval]_scheduleVars

\* An active target is crawled when it is due, to the unit: none is overdue, or waits for
\* its first crawl, for longer than one check after a crawl of it ended, it was switched
\* on, the worker restarted, or a check broke off before it (planScheduledRun).
Punctual ==
    \A t \in Targets :
        LET row == schedule[t] IN
        (/\ row.isActive /\ ~Busy(t) /\ ~\E w \in waiting : w.target = t
         /\ DueAt(row) < now \/ (row.next = Null /\ row.last = Null))
            => now - free[t] <= Tick

\* The automatic stop switches a target off at the first check after its time, or the
\* first one after a crawl that was under way then, a restart, a check that broke off, or
\* a request that set its timer.
StopsInTime ==
    \A t \in Targets :
        LET row == schedule[t] IN
        (row.autoStop > 0 /\ row.isActive /\ ~Busy(t) /\ now - ActiveSince(row) > row.autoStop + Tick)
            => now - free[t] <= Tick \/ now - timed[t] <= Tick

\* A post is never dated in the future, nor before one of the same target that the board
\* still has, whatever was deleted meanwhile ("앞서 등록한 봇 글보다 과거가 되지 않게").
PostsInOrder ==
    [][\A t \in Targets : RegisterPost(t) =>
         (latest[t] # Null => latest'[t] >= latest[t]) /\ latest'[t] <= now]_scheduleVars
===============================================================================
