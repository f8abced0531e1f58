----------------------------- MODULE CrawlProofs ------------------------------
(* Proofs about the crawls of the targets: about CrawlSchedule, for every    *)
(* set of targets and all intervals, the types, the order in which a         *)
(* target's posts are dated, the distance of its planned starts, and that    *)
(* crawls and the automatic stop are in time; and about CrawlTarget, for     *)
(* every set of crawls, administrators and galleries, every size of the      *)
(* galleries, their pages and the crawls, the inductive invariants behind    *)
(* its properties.                                                           *)
EXTENDS CrawlSchedule, CrawlTarget, FiniteSetTheorems, TLAPS

-------------------------------------------------------------------------------
(* CrawlSchedule.                                                            *)

\* The floor a crawl has read is never behind what its target has standing on the board,
\* nor ahead of the clock.
Dated ==
    /\ \A t \in Targets : latest[t] # Null => latest[t] <= now
    /\ \A t \in Targets : run[t] # Null =>
         /\ run[t].floor # Null => run[t].floor <= now
         /\ (run[t].planned /\ latest[t] # Null) => run[t].floor # Null /\ latest[t] <= run[t].floor

\* a row whose next crawl is an interval past the start s
Later(row, s) == row.next # Null /\ row.next >= s + MinInterval

\* The next crawl of a target is an interval past the start planned last, in its row and
\* in the copy of it that a check still has to look at.
Apart ==
    \A t \in Targets : spaced[t] # Null =>
        /\ Later(schedule[t], spaced[t])
        /\ t \in tick.todo => Later(tick.rows[t], spaced[t])

-------------------------------------------------------------------------------
(* Operators.                                                                *)

\* A row with a time of its own is due no earlier than that time, and every start it is
\* given lies at or after now (planScheduledRun).
LEMMA StartTimeCorrect ==
    ASSUME NEW row \in Row, now \in Time
    PROVE  /\ StartTime(row) \in Nat
           /\ row.next # Null => StartTime(row) >= row.next
BY CrawlScheduleAssumption DEF StartTime, DueAt, Row, Time

\* Every time that follows a start is a shortest interval later at least (pickNextCrawlAt).
LEMMA NextTimesCorrect ==
    ASSUME NEW from \in Nat, NEW next \in NextTimes(from)
    PROVE  next \in Nat /\ next >= from + MinInterval
BY CrawlScheduleAssumption DEF NextTimes

\* Dates are numbers, and reach as far back as an offset goes from the first time.
LEMMA DateCorrect ==
    /\ MaxOffset \in Nat /\ MaxTime \in Nat /\ Bump \in Nat \ {0}
    /\ Date \subseteq Int /\ Null \notin Date
    /\ \A d \in Date : -MaxOffset <= d /\ d <= MaxTime
    /\ \A d \in Int : (-MaxOffset <= d /\ d <= MaxTime) => d \in Date
<1>1. MaxOffset \in Nat /\ MaxTime \in Nat /\ Bump \in Nat \ {0}
  BY CrawlScheduleAssumption
<1>2. Date \subseteq Int /\ \A d \in Date : -MaxOffset <= d /\ d <= MaxTime
  BY <1>1 DEF Date
<1>3. \A d \in Int : (-MaxOffset <= d /\ d <= MaxTime) => d \in Date
  BY <1>1 DEF Date
<1> QED
  BY <1>1, <1>2, <1>3, CrawlScheduleAssumption

\* A post is dated at most so far back as the offset goes, and never before the floor of
\* its crawl, when there is one (resolvePostCreatedAt).
LEMMA CreatedAtCorrect ==
    ASSUME now \in Time,
           NEW offset \in 0..MaxOffset, NEW floor \in Date \cup {Null},
           NEW at \in CreatedAt(offset, floor)
    PROVE  /\ at \in Date /\ at <= now
           /\ floor # Null /\ floor <= now => floor <= at
<1>0. /\ now \in Nat /\ now <= MaxTime /\ offset \in Nat /\ offset <= MaxOffset
      /\ now - offset \in Date /\ now \in Date
  BY DateCorrect DEF Time
<1>1. CASE floor = Null
  BY <1>0, <1>1 DEF CreatedAt
<1>2. CASE floor # Null /\ now - offset > floor
  <2>1. at = now - offset /\ floor \in Int
    BY <1>2, DateCorrect DEF CreatedAt
  <2> QED
    BY <1>0, <1>2, <2>1
<1>3. CASE floor # Null /\ ~(now - offset > floor)
  <2> DEFINE half == (now - floor) \div 2
             moved == {floor + Bump} \cup {floor + d : d \in Bump..half}
  <2>1. at \in {IF x < now THEN x ELSE now : x \in moved}
    BY <1>3 DEF CreatedAt
  <2>2. PICK x \in moved : at = IF x < now THEN x ELSE now
    BY <2>1
  <2>3. floor \in Date /\ floor \in Int /\ -MaxOffset <= floor
    BY <1>3, DateCorrect
  <2>4. x \in Int /\ floor <= x
    <3>1. now - floor \in Int /\ half \in Int /\ Bump \in Nat
      BY <1>0, <2>3, DateCorrect
    <3>2. x = floor + Bump \/ \E d \in Bump..half : x = floor + d
      OBVIOUS
    <3> QED
      BY <2>3, <3>1, <3>2
  <2>5. at \in Int /\ at <= now /\ (floor <= now => floor <= at)
    BY <1>0, <2>2, <2>3, <2>4
  <2>6. at \in Date
    <3>1. CASE at = now
      BY <1>0, <3>1
    <3>2. CASE at = x
      BY <1>0, <2>3, <2>4, <2>5, <3>2, DateCorrect
    <3> QED
      BY <2>2, <3>1, <3>2
  <2> QED
    BY <2>5, <2>6
<1> QED
  BY <1>1, <1>2, <1>3

\* The floor that a crawl reads is no earlier than any post on the board.
LEMMA NewestCorrect ==
    ASSUME ScheduleTypeOK, NEW floor \in Newest
    PROVE  /\ floor \in Date \cup {Null}
           /\ floor # Null => \E t \in Targets : latest[t] = floor
           /\ \A t \in Targets : latest[t] # Null => floor # Null /\ latest[t] <= floor
<1> DEFINE dates == {latest[t] : t \in Targets} \ {Null}
<1>1. dates \subseteq Date
  BY DEF ScheduleTypeOK
<1>2. CASE dates = {}
  BY <1>2 DEF Newest
<1>3. CASE dates # {}
  <2>1. floor \in dates /\ \A e \in dates : e <= floor
    BY <1>3 DEF Newest
  <2> QED
    BY <1>1, <2>1
<1> QED
  BY <1>2, <1>3

-------------------------------------------------------------------------------
(* Types.                                                                    *)

\* A row that is switched off keeps its times.
LEMMA SwitchedOffCorrect ==
    ASSUME NEW row \in Row
    PROVE  /\ SwitchedOff(row) \in Row
           /\ SwitchedOff(row).isActive = FALSE
           /\ SwitchedOff(row).next = row.next
BY DEF SwitchedOff, Row

\* A row whose time alone is set keeps its switch and its timer.
LEMMA RowNextCorrect ==
    ASSUME NEW row \in Row, NEW next \in Nat
    PROVE  /\ [row EXCEPT !.next = next] \in Row
           /\ [row EXCEPT !.next = next].isActive = row.isActive
           /\ [row EXCEPT !.next = next].activatedAt = row.activatedAt
           /\ [row EXCEPT !.next = next].autoStop = row.autoStop
           /\ [row EXCEPT !.next = next].next = next
BY DEF Row

\* The same for the end of a crawl, which notes its start.
LEMMA RowLastCorrect ==
    ASSUME NEW row \in Row, NEW last \in Time
    PROVE  /\ [row EXCEPT !.last = last] \in Row
           /\ [row EXCEPT !.last = last].isActive = row.isActive
           /\ [row EXCEPT !.last = last].activatedAt = row.activatedAt
           /\ [row EXCEPT !.last = last].autoStop = row.autoStop
           /\ [row EXCEPT !.last = last].next = row.next
BY DEF Row

\* A crawl that plans its posts stays a crawl.
LEMMA RunPlanCorrect ==
    ASSUME NEW r \in Run, NEW floor \in Date \cup {Null}, NEW offset \in 0..MaxOffset
    PROVE  [r EXCEPT !.planned = TRUE, !.floor = floor, !.offset = offset] \in Run
BY DEF Run

\* A crawl that dates a post stays a crawl.
LEMMA RunDateCorrect ==
    ASSUME NEW r \in Run, NEW floor \in Date, NEW offset \in 0..MaxOffset
    PROVE  [r EXCEPT !.floor = floor, !.offset = offset] \in Run
BY DEF Run

\* A row replaced by one that is well formed leaves the table well formed.
LEMMA SetCorrect ==
    ASSUME ScheduleTypeOK, NEW t \in Targets, NEW r \in Row, Set(t, r)
    PROVE  /\ schedule' \in [Targets -> Row]
           /\ schedule'[t] = r
           /\ \A u \in Targets : u # t => schedule'[u] = schedule[u]
BY DEF ScheduleTypeOK, Set

\* What updateTarget writes to a row when it is switched on.
LEMMA SwitchOnCorrect ==
    ASSUME ScheduleTypeOK, NEW t \in Targets, NEW was \in BOOLEAN, SwitchOn(t, was)
    PROVE  /\ schedule' \in [Targets -> Row]
           /\ was => schedule'[t].next = schedule[t].next /\ schedule'[t].last = schedule[t].last
           /\ \A u \in Targets : u # t => schedule'[u] = schedule[u]
<1>1. PICK at \in Given, stop \in AutoStops :
        LET on == [schedule[t] EXCEPT !.isActive = TRUE, !.activatedAt = at, !.autoStop = stop]
        IN  Set(t, IF was THEN on ELSE [on EXCEPT !.last = Null, !.next = Null])
  BY DEF SwitchOn
<1> DEFINE on == [schedule[t] EXCEPT !.isActive = TRUE, !.activatedAt = at, !.autoStop = stop]
           r == IF was THEN on ELSE [on EXCEPT !.last = Null, !.next = Null]
<1>2. schedule[t] \in Row /\ at \in Time \cup Dates \cup {Null}
  BY DEF ScheduleTypeOK, Given
<1>3. on \in Row /\ on.next = schedule[t].next /\ on.last = schedule[t].last
  BY <1>2 DEF Row
<1>4. r \in Row /\ (was => r.next = schedule[t].next /\ r.last = schedule[t].last)
  <2> HIDE DEF on
  <2> QED
    BY <1>3 DEF Row
<1>5. Set(t, r)
  BY <1>1
<1> HIDE DEF r
<1> QED
  BY <1>4, <1>5, SetCorrect

\* What updateTarget writes to a row when the timer is set.
LEMMA SetTimerCorrect ==
    ASSUME ScheduleTypeOK, NEW t \in Targets, SetTimer(t)
    PROVE  /\ schedule' \in [Targets -> Row]
           /\ schedule'[t].next = schedule[t].next /\ schedule'[t].last = schedule[t].last
           /\ schedule'[t].isActive = schedule[t].isActive
           /\ \A u \in Targets : u # t => schedule'[u] = schedule[u]
<1>1. PICK at \in Given \cup {schedule[t].activatedAt}, stop \in AutoStops :
        Set(t, [schedule[t] EXCEPT !.activatedAt = at, !.autoStop = stop])
  BY DEF SetTimer
<1>2. schedule[t] \in Row
  BY DEF ScheduleTypeOK
<1>3. at \in Time \cup Dates \cup {Null}
  BY <1>2 DEF ScheduleTypeOK, Given, Row
<1> DEFINE r == [schedule[t] EXCEPT !.activatedAt = at, !.autoStop = stop]
<1>4. /\ r \in Row /\ r.next = schedule[t].next /\ r.last = schedule[t].last
      /\ r.isActive = schedule[t].isActive
  BY <1>2, <1>3 DEF Row
<1>5. Set(t, r)
  BY <1>1
<1> HIDE DEF r
<1> QED
  BY <1>4, <1>5, SetCorrect

\* What a check writes to a row when the automatic stop is due.
LEMMA StoppingCorrect ==
    ASSUME ScheduleTypeOK, NEW t \in Targets, Set(t, SwitchedOff(schedule[t]))
    PROVE  /\ schedule' \in [Targets -> Row]
           /\ ~schedule'[t].isActive /\ schedule'[t].next = schedule[t].next
           /\ \A u \in Targets : u # t => schedule'[u] = schedule[u]
<1> DEFINE r == SwitchedOff(schedule[t])
<1>1. r \in Row /\ ~r.isActive /\ r.next = schedule[t].next
  BY SwitchedOffCorrect DEF ScheduleTypeOK
<1>2. Set(t, r)
  OBVIOUS
<1> HIDE DEF r
<1> QED
  BY <1>1, <1>2, SetCorrect

\* What a check writes to a row when a crawl is due.
LEMMA PlanningCorrect ==
    ASSUME ScheduleTypeOK, NEW t \in tick.todo, Planning(t)
    PROVE  /\ t \in Targets /\ tick.rows[t] \in Row
           /\ schedule' \in [Targets -> Row]
           /\ StartTime(tick.rows[t]) \in Nat
           /\ schedule'[t].next \in Nat
           /\ schedule'[t].next >= StartTime(tick.rows[t]) + MinInterval
           /\ schedule'[t].isActive = schedule[t].isActive
           /\ schedule'[t].activatedAt = schedule[t].activatedAt
           /\ schedule'[t].autoStop = schedule[t].autoStop
           /\ \A u \in Targets : u # t => schedule'[u] = schedule[u]
<1> DEFINE row == tick.rows[t]
<1>1. t \in Targets /\ row \in Row /\ schedule[t] \in Row
  BY DEF ScheduleTypeOK, noTick
<1>2. StartTime(row) \in Nat
  BY <1>1, StartTimeCorrect DEF ScheduleTypeOK
<1>3. PICK next \in NextTimes(StartTime(row)) : Set(t, [schedule[t] EXCEPT !.next = next])
  BY DEF Planning, NextAfter
<1>4. next \in Nat /\ next >= StartTime(row) + MinInterval
  BY <1>2, NextTimesCorrect
<1> HIDE DEF row
<1> DEFINE r == [schedule[t] EXCEPT !.next = next]
<1>5. /\ r \in Row /\ r.next = next /\ r.isActive = schedule[t].isActive
      /\ r.activatedAt = schedule[t].activatedAt /\ r.autoStop = schedule[t].autoStop
  BY <1>1, <1>4, RowNextCorrect
<1>6. Set(t, r)
  BY <1>3
<1> HIDE DEF r
<1> QED
  BY <1>1, <1>2, <1>4, <1>5, <1>6, SetCorrect DEF row

\* A registration dates its post, and its crawl goes on.
LEMMA RegisterPostCorrect ==
    ASSUME ScheduleTypeOK, NEW t \in Targets, RegisterPost(t)
    PROVE  /\ run' \in [Targets -> Run \cup {Null}]
           /\ latest' \in [Targets -> Date \cup {Null}]
           /\ run[t] \in Run /\ run'[t] \in Run
           /\ run'[t].planned = run[t].planned
           /\ latest'[t] \in Date /\ latest'[t] <= now /\ run'[t].floor = latest'[t]
           /\ run[t].floor # Null /\ run[t].floor <= now => run[t].floor <= latest'[t]
           /\ \A u \in Targets : u # t => run'[u] = run[u] /\ latest'[u] = latest[u]
<1> USE CrawlScheduleAssumption
<1>1. PICK at \in CreatedAt(run[t].offset, run[t].floor), less \in 0..run[t].offset :
        /\ latest' = [latest EXCEPT ![t] = at]
        /\ run' = [run EXCEPT ![t].floor = at, ![t].offset = less]
  BY DEF RegisterPost
<1>2. run[t] \in Run
  BY DEF RegisterPost, Busy, ScheduleTypeOK
<1>3. run[t].offset \in 0..MaxOffset /\ run[t].floor \in Date \cup {Null}
  BY <1>2 DEF Run
<1>4. /\ at \in Date /\ at <= now
      /\ run[t].floor # Null /\ run[t].floor <= now => run[t].floor <= at
  BY <1>3, CreatedAtCorrect DEF ScheduleTypeOK
<1>5. less \in 0..MaxOffset
  BY <1>3
<1> DEFINE r == [run[t] EXCEPT !.floor = at, !.offset = less]
<1>6. r \in Run /\ r.floor = at /\ r.planned = run[t].planned
  BY <1>2, <1>4, <1>5, RunDateCorrect DEF Run
<1>7. run' = [run EXCEPT ![t] = r]
  BY <1>1
<1> HIDE DEF r
<1>8. /\ run' \in [Targets -> Run \cup {Null}] /\ run'[t] = r
      /\ \A u \in Targets : u # t => run'[u] = run[u]
  BY <1>6, <1>7 DEF ScheduleTypeOK
<1>9. latest' = [latest EXCEPT ![t] = at]
  BY <1>1
<1>10. /\ latest' \in [Targets -> Date \cup {Null}] /\ latest'[t] = at
       /\ \A u \in Targets : u # t => latest'[u] = latest[u]
  BY <1>4, <1>9 DEF ScheduleTypeOK
<1> QED
  BY <1>2, <1>4, <1>6, <1>8, <1>10

\* A crawl that plans its posts has the floor, and goes on.
LEMMA PlanPostsCorrect ==
    ASSUME ScheduleTypeOK, NEW t \in Targets, PlanPosts(t)
    PROVE  /\ run' \in [Targets -> Run \cup {Null}]
           /\ run'[t] \in Run /\ run'[t].floor \in Newest
           /\ \A u \in Targets : u # t => run'[u] = run[u]
<1>1. PICK floor \in Newest, offset \in 0..MaxOffset :
        run' = [run EXCEPT ![t].planned = TRUE, ![t].floor = floor, ![t].offset = offset]
  BY DEF PlanPosts
<1>2. run[t] \in Run
  BY DEF PlanPosts, Busy, ScheduleTypeOK
<1>3. floor \in Date \cup {Null}
  BY NewestCorrect
<1> DEFINE r == [run[t] EXCEPT !.planned = TRUE, !.floor = floor, !.offset = offset]
<1>4. r \in Run /\ r.floor = floor
  BY <1>2, <1>3, RunPlanCorrect DEF Run
<1>5. run' = [run EXCEPT ![t] = r]
  BY <1>1
<1> HIDE DEF r
<1> QED
  BY <1>4, <1>5 DEF ScheduleTypeOK

\* The end of a crawl notes its start and, after a manual one, the next time.
LEMMA EndCrawlCorrect ==
    ASSUME ScheduleTypeOK, NEW t \in Targets, EndCrawl(t)
    PROVE  /\ schedule' \in [Targets -> Row]
           /\ schedule'[t].isActive = schedule[t].isActive
           /\ schedule'[t].activatedAt = schedule[t].activatedAt
           /\ schedule'[t].autoStop = schedule[t].autoStop
           /\ ~run[t].manual => schedule'[t].next = schedule[t].next
           /\ \A u \in Targets : u # t => schedule'[u] = schedule[u]
<1> DEFINE noted == [schedule[t] EXCEPT !.last = run[t].startedAt]
<1>1. run[t] \in Run /\ run[t].startedAt \in Time /\ schedule[t] \in Row
  BY DEF EndCrawl, Busy, ScheduleTypeOK, Run
<1>2. /\ noted \in Row /\ noted.next = schedule[t].next /\ noted.isActive = schedule[t].isActive
      /\ noted.activatedAt = schedule[t].activatedAt /\ noted.autoStop = schedule[t].autoStop
  BY <1>1, RowLastCorrect
<1>3. CASE UNCHANGED schedule
  BY <1>3 DEF ScheduleTypeOK
<1>4. CASE Set(t, noted)
  <2> HIDE DEF noted
  <2> QED
    BY <1>2, <1>4, SetCorrect
<1>5. CASE run[t].manual /\ \E next \in NextTimes(run[t].startedAt) :
             Set(t, [schedule[t] EXCEPT !.last = run[t].startedAt, !.next = next])
  <2>1. PICK next \in NextTimes(run[t].startedAt) :
          Set(t, [schedule[t] EXCEPT !.last = run[t].startedAt, !.next = next])
    BY <1>5
  <2>2. next \in Nat
    BY <1>1, NextTimesCorrect DEF Time
  <2> DEFINE r == [noted EXCEPT !.next = next]
  <2>3. /\ r \in Row /\ r.isActive = schedule[t].isActive
        /\ r.activatedAt = schedule[t].activatedAt /\ r.autoStop = schedule[t].autoStop
    <3> HIDE DEF noted
    <3> QED
      BY <1>2, <2>2, RowNextCorrect
  <2>4. Set(t, r)
    BY <2>1
  <2> HIDE DEF r
  <2> QED
    BY <1>5, <2>3, <2>4, SetCorrect
<1> QED
  BY <1>3, <1>4, <1>5 DEF EndCrawl

\* What is left of a check is one, or none is under way.
LEMMA TickCorrect ==
    ASSUME ScheduleTypeOK, NEW t \in tick.todo,
           tick' = IF tick.todo \ {t} = {} THEN noTick ELSE [tick EXCEPT !.todo = tick.todo \ {t}]
    PROVE  /\ t \in Targets
           /\ tick' \in [rows : [Targets -> Row], todo : SUBSET Targets] \cup {noTick}
           /\ tick'.todo = tick.todo \ {t}
           /\ tick'.todo # {} => tick'.rows = tick.rows
<1>1. tick \in [rows : [Targets -> Row], todo : SUBSET Targets]
  BY DEF ScheduleTypeOK, noTick
<1> QED
  BY <1>1 DEF noTick

\* Every variable keeps its type: times planned and dates are those of the clock, a check
\* looks only at targets it has read.
LEMMA TypeInductive == ScheduleTypeOK /\ [ScheduleNext]_scheduleVars => ScheduleTypeOK'
<1> SUFFICES ASSUME ScheduleTypeOK, [ScheduleNext]_scheduleVars PROVE ScheduleTypeOK'
  OBVIOUS
<1> USE CrawlScheduleAssumption
<1>0. now \in Time /\ free \in [Targets -> Time] /\ timed \in [Targets -> Time]
  BY DEF ScheduleTypeOK
<1>1. CASE Advance
  <2>1. now' \in Time
    BY <1>0, <1>1 DEF Advance, Time
  <2> QED
    BY <1>1, <2>1 DEF Advance, ScheduleTypeOK
<1>2. CASE BeginTick
  <2>1. free' \in [Targets -> Time]
    BY <1>0, <1>2 DEF BeginTick
  <2>2. ticked' \in -1..MaxTime
    BY <1>0, <1>2 DEF BeginTick, Time
  <2>3. tick' \in [rows : [Targets -> Row], todo : SUBSET Targets] \cup {noTick}
    BY <1>2 DEF BeginTick, ScheduleTypeOK
  <2> QED
    BY <1>2, <2>1, <2>2, <2>3 DEF BeginTick, ScheduleTypeOK
<1>3. CASE Restart
  BY <1>3 DEF Restart, ScheduleTypeOK
<1>4. ASSUME NEW t \in Targets, NEW was \in BOOLEAN, SwitchOn(t, was) PROVE ScheduleTypeOK'
  <2>1. free' \in [Targets -> Time] /\ timed' \in [Targets -> Time] /\ spaced' \in [Targets -> Nat \cup {Null}]
    BY <1>0, <1>4 DEF SwitchOn, ScheduleTypeOK
  <2> QED
    BY <1>4, <2>1, SwitchOnCorrect DEF SwitchOn, ScheduleTypeOK
<1>5. ASSUME NEW t \in Targets, SwitchOff(t) PROVE ScheduleTypeOK'
  BY <1>5, StoppingCorrect DEF SwitchOff, ScheduleTypeOK
<1>6. ASSUME NEW t \in Targets, SetTimer(t) PROVE ScheduleTypeOK'
  <2>1. timed' \in [Targets -> Time]
    BY <1>0, <1>6 DEF SetTimer
  <2> QED
    BY <1>6, <2>1, SetTimerCorrect DEF SetTimer, ScheduleTypeOK
<1>7. ASSUME NEW t \in Targets, CheckTarget(t) PROVE ScheduleTypeOK'
  <2>1. /\ UNCHANGED <<now, run, ticked, latest, free, timed>>
        /\ tick' \in [rows : [Targets -> Row], todo : SUBSET Targets] \cup {noTick}
    BY <1>7, TickCorrect DEF CheckTarget
  <2>2. CASE LeftAlone(t) /\ UNCHANGED <<waiting, spaced>>
    BY <2>1, <2>2 DEF LeftAlone, ScheduleTypeOK
  <2>3. CASE Stopping(t) /\ UNCHANGED <<waiting, spaced>>
    BY <2>1, <2>3, StoppingCorrect DEF Stopping, ScheduleTypeOK
  <2>4. CASE /\ Planning(t)
             /\ waiting' = waiting \cup {[target |-> t, at |-> StartTime(tick.rows[t])]}
             /\ spaced' = [spaced EXCEPT ![t] = StartTime(tick.rows[t])]
    <3>1. schedule' \in [Targets -> Row] /\ StartTime(tick.rows[t]) \in Nat
      BY <1>7, <2>4, PlanningCorrect DEF CheckTarget
    <3>2. waiting' \subseteq [target : Targets, at : Nat]
      BY <2>4, <3>1 DEF ScheduleTypeOK
    <3>3. spaced' \in [Targets -> Nat \cup {Null}]
      BY <2>4, <3>1 DEF ScheduleTypeOK
    <3> QED
      BY <2>1, <3>1, <3>2, <3>3 DEF ScheduleTypeOK
  <2> QED
    BY <1>7, <2>2, <2>3, <2>4 DEF CheckTarget
<1>8. ASSUME NEW t \in Targets, FailCheck(t) PROVE ScheduleTypeOK'
  <2>1. schedule' \in [Targets -> Row]
    BY <1>8, StoppingCorrect, PlanningCorrect DEF FailCheck, Stopping, ScheduleTypeOK
  <2>2. free' \in [Targets -> Time]
    BY <1>0, <1>8 DEF FailCheck
  <2> QED
    BY <1>8, <2>1, <2>2 DEF FailCheck, ScheduleTypeOK
<1>9. ASSUME NEW w \in waiting, StartScheduled(w) PROVE ScheduleTypeOK'
  <2>1. run' \in [Targets -> Run \cup {Null}]
    BY <1>9 DEF StartScheduled, ScheduleTypeOK, Run
  <2> QED
    BY <1>9, <2>1 DEF StartScheduled, ScheduleTypeOK
<1>10. ASSUME NEW t \in Targets, StartManual(t) PROVE ScheduleTypeOK'
  <2>1. run' \in [Targets -> Run \cup {Null}]
    BY <1>10 DEF StartManual, ScheduleTypeOK, Run
  <2> QED
    BY <1>10, <2>1 DEF StartManual, ScheduleTypeOK
<1>11. ASSUME NEW t \in Targets, PlanPosts(t) PROVE ScheduleTypeOK'
  BY <1>11, PlanPostsCorrect DEF PlanPosts, ScheduleTypeOK
<1>12. ASSUME NEW t \in Targets, RegisterPost(t) PROVE ScheduleTypeOK'
  BY <1>12, RegisterPostCorrect DEF RegisterPost, ScheduleTypeOK
<1>13. ASSUME NEW t \in Targets, RemovePosts(t) PROVE ScheduleTypeOK'
  <2>1. PICK left \in Date \cup {Null} : latest' = [latest EXCEPT ![t] = left]
    BY <1>13 DEF RemovePosts
  <2>2. latest' \in [Targets -> Date \cup {Null}]
    BY <2>1 DEF ScheduleTypeOK
  <2> QED
    BY <1>13, <2>2 DEF RemovePosts, ScheduleTypeOK
<1>14. ASSUME NEW t \in Targets, EndCrawl(t) PROVE ScheduleTypeOK'
  <2>1. schedule' \in [Targets -> Row]
    BY <1>14, EndCrawlCorrect
  <2>2. free' \in [Targets -> Time] /\ run' \in [Targets -> Run \cup {Null}]
    BY <1>0, <1>14 DEF EndCrawl, ScheduleTypeOK
  <2>3. spaced' \in [Targets -> Nat \cup {Null}]
    BY <1>14 DEF EndCrawl, ScheduleTypeOK
  <2> QED
    BY <1>14, <2>1, <2>2, <2>3 DEF EndCrawl, ScheduleTypeOK
<1>15. CASE UNCHANGED scheduleVars
  BY <1>15 DEF scheduleVars, ScheduleTypeOK
<1> QED
  BY <1>1, <1>2, <1>3, <1>4, <1>5, <1>6, <1>7, <1>8, <1>9, <1>10, <1>11, <1>12, <1>13, <1>14, <1>15
     DEF ScheduleNext

\* The state begins well typed.
LEMMA TypeInit == ScheduleInit => ScheduleTypeOK
<1> SUFFICES ASSUME ScheduleInit PROVE ScheduleTypeOK
  OBVIOUS
<1>1. 0 \in Time /\ -1 \in -1..MaxTime
  BY DateCorrect DEF Time
<1>2. \A on \in BOOLEAN, stop \in AutoStops : NewRow(on, stop) \in Row
  BY <1>1 DEF NewRow, Row
<1>3. schedule \in [Targets -> Row]
  BY <1>2 DEF ScheduleInit
<1> QED
  BY <1>1, <1>3 DEF ScheduleInit, ScheduleTypeOK

\* ScheduleSpec keeps the types, for every set of targets, every interval, every timer and
\* every offset.
THEOREM ScheduleTypeCorrect == ScheduleSpec => []ScheduleTypeOK
<1> QED
  BY TypeInit, TypeInductive, PTL DEF ScheduleSpec

-------------------------------------------------------------------------------
(* The dates of posts.                                                       *)

\* Dated holds at first and is kept: a registration moves the floor of its crawl along,
\* another target has a floor of its own, and a removal only takes away.
LEMMA DatedInductive == ScheduleTypeOK /\ Dated /\ [ScheduleNext]_scheduleVars => Dated'
<1> SUFFICES ASSUME ScheduleTypeOK, Dated, [ScheduleNext]_scheduleVars PROVE Dated'
  OBVIOUS
<1> USE CrawlScheduleAssumption
<1>0. /\ now \in Int /\ Null \notin Int /\ Null \notin Run /\ Date \subseteq Int
      /\ \A t \in Targets : latest[t] \in Date \cup {Null}
      /\ \A t \in Targets : run[t] # Null => run[t] \in Run /\ run[t].floor \in Date \cup {Null}
  BY NullIsNoRun, DateCorrect DEF ScheduleTypeOK, Time, Run
<1>1. ASSUME UNCHANGED <<latest, run>>, now' \in {now, now + 1} PROVE Dated'
  <2>1. now' \in Int /\ \A d \in Int : d <= now => d <= now'
    BY <1>0, <1>1
  <2> QED
    BY <1>0, <1>1, <2>1 DEF Dated
<1>2. ASSUME NEW w \in waiting, StartScheduled(w) PROVE Dated'
  BY <1>0, <1>2 DEF StartScheduled, Dated, ScheduleTypeOK
<1>3. ASSUME NEW t \in Targets, StartManual(t) PROVE Dated'
  BY <1>0, <1>3 DEF StartManual, Dated, ScheduleTypeOK
<1>4. ASSUME NEW t \in Targets, PlanPosts(t) PROVE Dated'
  <2>1. /\ run'[t] \in Run /\ run'[t].floor \in Newest
        /\ \A u \in Targets : u # t => run'[u] = run[u]
        /\ UNCHANGED <<now, latest>>
    BY <1>4, PlanPostsCorrect DEF PlanPosts
  <2>2. /\ run'[t].floor # Null => \E u \in Targets : latest[u] = run'[t].floor
        /\ \A u \in Targets : latest[u] # Null => run'[t].floor # Null /\ latest[u] <= run'[t].floor
    BY <2>1, NewestCorrect
  <2>3. run'[t].floor # Null => run'[t].floor <= now
    BY <2>2 DEF Dated
  <2> QED
    BY <2>1, <2>2, <2>3 DEF Dated
<1>5. ASSUME NEW t \in Targets, RegisterPost(t) PROVE Dated'
  <2>1. /\ run'[t].floor = latest'[t] /\ latest'[t] <= now /\ latest'[t] \in Date
        /\ \A u \in Targets : u # t => run'[u] = run[u] /\ latest'[u] = latest[u]
        /\ now' = now
    BY <1>5, RegisterPostCorrect DEF RegisterPost
  <2>2. latest'[t] <= latest'[t]
    <3>1. latest'[t] \in Int
      BY <2>1, DateCorrect
    <3> HIDE DEF Dated
    <3> QED
      BY <3>1
  <2>3. latest'[t] # Null
    BY <1>0, <2>1
  <2> QED
    BY <2>1, <2>2, <2>3 DEF Dated
<1>6. ASSUME NEW t \in Targets, RemovePosts(t) PROVE Dated'
  <2>1. /\ latest[t] \in Date /\ latest[t] <= now
        /\ \A u \in Targets : u # t => latest'[u] = latest[u]
        /\ UNCHANGED <<now, run>>
    BY <1>0, <1>6 DEF RemovePosts, Dated, ScheduleTypeOK
  <2>2. PICK left \in {d \in Date : d < latest[t]} \cup {Null} : latest' = [latest EXCEPT ![t] = left]
    BY <1>6 DEF RemovePosts
  <2>3. latest'[t] = left
    BY <2>2 DEF ScheduleTypeOK
  <2>4. CASE left = Null
    BY <2>1, <2>3, <2>4 DEF Dated
  <2>5. CASE left # Null
    <3>1. left \in Int /\ latest[t] \in Int /\ left < latest[t] /\ latest[t] # Null
      BY <1>0, <2>1, <2>2, <2>5
    <3>2. left <= now
      BY <1>0, <2>1, <3>1
    <3>3. ASSUME run[t] # Null, run[t].planned PROVE run[t].floor # Null /\ left <= run[t].floor
      <4>1. run[t].floor # Null /\ latest[t] <= run[t].floor
        BY <3>1, <3>3 DEF Dated
      <4>2. run[t].floor \in Int
        BY <1>0, <3>3, <4>1
      <4> QED
        BY <3>1, <4>1, <4>2
    <3> QED
      BY <2>1, <2>3, <3>2, <3>3 DEF Dated
  <2> QED
    BY <2>4, <2>5
<1>7. ASSUME NEW t \in Targets, EndCrawl(t) PROVE Dated'
  BY <1>0, <1>7 DEF EndCrawl, Dated, ScheduleTypeOK
<1>8. CASE \E t \in Targets : (\E was \in BOOLEAN : SwitchOn(t, was)) \/ SwitchOff(t) \/ SetTimer(t)
                              \/ CheckTarget(t) \/ FailCheck(t)
  BY <1>1, <1>8 DEF SwitchOn, SwitchOff, SetTimer, CheckTarget, FailCheck
<1>9. CASE Advance \/ BeginTick \/ Restart \/ UNCHANGED scheduleVars
  BY <1>1, <1>9 DEF Advance, BeginTick, Restart, scheduleVars
<1> QED
  BY <1>2, <1>3, <1>4, <1>5, <1>6, <1>7, <1>8, <1>9 DEF ScheduleNext

\* One registration dates its post after what its target has standing, and not in the
\* future.
LEMMA DatedStep ==
    ScheduleTypeOK /\ Dated =>
      \A t \in Targets : RegisterPost(t) =>
        (latest[t] # Null => latest'[t] >= latest[t]) /\ latest'[t] <= now
<1> SUFFICES ASSUME ScheduleTypeOK, Dated, NEW t \in Targets, RegisterPost(t)
             PROVE  (latest[t] # Null => latest'[t] >= latest[t]) /\ latest'[t] <= now
  OBVIOUS
<1>1. /\ run[t] # Null /\ run[t].planned /\ run[t] \in Run
  BY DEF RegisterPost, Busy, ScheduleTypeOK
<1>2. /\ latest'[t] \in Date /\ latest'[t] <= now
      /\ run[t].floor # Null /\ run[t].floor <= now => run[t].floor <= latest'[t]
  BY RegisterPostCorrect
<1>3. latest[t] # Null => run[t].floor # Null /\ latest[t] <= run[t].floor /\ run[t].floor <= now
  BY <1>1 DEF Dated
<1>4. latest[t] \in Date \cup {Null} /\ run[t].floor \in Date \cup {Null} /\ Date \subseteq Int
  BY <1>1, DateCorrect DEF ScheduleTypeOK, Run
<1>5. ASSUME latest[t] # Null PROVE latest'[t] >= latest[t]
  <2>1. latest[t] \in Int /\ run[t].floor \in Int /\ latest'[t] \in Int
    BY <1>2, <1>3, <1>4, <1>5
  <2>2. latest[t] <= run[t].floor /\ run[t].floor <= latest'[t]
    BY <1>2, <1>3, <1>5
  <2> QED
    BY <2>1, <2>2
<1> QED
  BY <1>2, <1>5

\* For every set of targets, whatever offsets are drawn, however crawls alternate and
\* whichever posts are deleted: no post is dated in the future or before one of its target
\* that the board still has.
THEOREM PostsInOrderCorrect == ScheduleSpec => PostsInOrder
<1>1. ScheduleInit => Dated
  BY CrawlScheduleAssumption DEF ScheduleInit, Dated
<1> QED
  BY <1>1, TypeInit, TypeInductive, DatedInductive, DatedStep, PTL DEF ScheduleSpec, PostsInOrder

-------------------------------------------------------------------------------
(* The distance of planned starts.                                           *)

\* Apart holds at first and is kept: whoever sets the next time of a row anew, a switch or
\* the end of a manual crawl, also takes away the start planned last.
LEMMA ApartInductive == ScheduleTypeOK /\ Apart /\ [ScheduleNext]_scheduleVars => Apart'
<1> SUFFICES ASSUME ScheduleTypeOK, Apart, [ScheduleNext]_scheduleVars PROVE Apart'
  OBVIOUS
<1> USE CrawlScheduleAssumption
<1>1. ASSUME UNCHANGED <<schedule, tick, spaced>> PROVE Apart'
  BY <1>1 DEF Apart, Later
<1>2. CASE BeginTick
  BY <1>2 DEF BeginTick, Apart, Later, noTick
<1>3. CASE Restart
  BY <1>3 DEF Restart, Apart
<1>4. ASSUME NEW t \in Targets, UNCHANGED tick,
             \A u \in Targets : u # t => schedule'[u] = schedule[u] /\ spaced'[u] = spaced[u],
             spaced'[t] = Null \/ (spaced'[t] = spaced[t] /\ schedule'[t].next = schedule[t].next)
      PROVE  Apart'
  BY <1>4 DEF Apart, Later
<1>5. ASSUME NEW t \in Targets, NEW was \in BOOLEAN, SwitchOn(t, was) PROVE Apart'
  <2>1. \A u \in Targets : u # t => schedule'[u] = schedule[u] /\ spaced'[u] = spaced[u]
    BY <1>5, SwitchOnCorrect DEF SwitchOn, ScheduleTypeOK
  <2>2. spaced'[t] = Null \/ (spaced'[t] = spaced[t] /\ schedule'[t].next = schedule[t].next)
    BY <1>5, SwitchOnCorrect DEF SwitchOn, ScheduleTypeOK
  <2>3. UNCHANGED tick
    BY <1>5 DEF SwitchOn
  <2> QED
    BY <1>4, <2>1, <2>2, <2>3
<1>6. ASSUME NEW t \in Targets, SwitchOff(t) \/ SetTimer(t) PROVE Apart'
  <2>1. UNCHANGED <<tick, spaced>>
    BY <1>6 DEF SwitchOff, SetTimer
  <2>2. /\ schedule'[t].next = schedule[t].next
        /\ \A u \in Targets : u # t => schedule'[u] = schedule[u]
    BY <1>6, StoppingCorrect, SetTimerCorrect DEF SwitchOff
  <2> QED
    BY <1>4, <2>1, <2>2
<1>7. ASSUME NEW t \in tick.todo, Planning(t)
      PROVE  /\ t \in Targets
             /\ StartTime(tick.rows[t]) \in Nat
             /\ Later(schedule'[t], StartTime(tick.rows[t]))
             /\ spaced[t] # Null => Later(schedule'[t], spaced[t])
             /\ \A u \in Targets : u # t => schedule'[u] = schedule[u]
  <2> DEFINE row == tick.rows[t]
  <2>1. /\ t \in Targets /\ row \in Row /\ StartTime(row) \in Nat
        /\ schedule'[t].next \in Nat /\ schedule'[t].next >= StartTime(row) + MinInterval
        /\ \A u \in Targets : u # t => schedule'[u] = schedule[u]
    BY <1>7, PlanningCorrect
  <2>2. spaced[t] # Null => Later(row, spaced[t]) /\ StartTime(row) >= row.next /\ row.next \in Nat
                            /\ spaced[t] \in Nat
    BY <1>7, <2>1, StartTimeCorrect DEF Apart, Later, Row, ScheduleTypeOK
  <2> HIDE DEF row
  <2>3. Later(schedule'[t], StartTime(row))
    BY <2>1 DEF Later
  <2>4. spaced[t] # Null => Later(schedule'[t], spaced[t])
    BY <2>1, <2>2 DEF Later
  <2> QED
    BY <2>1, <2>3, <2>4 DEF row
<1>8. ASSUME NEW t \in Targets, CheckTarget(t) PROVE Apart'
  <2>1. /\ t \in tick.todo
        /\ t \notin tick'.todo
        /\ \A u \in tick'.todo : u \in tick.todo /\ tick'.rows[u] = tick.rows[u]
    BY <1>8, TickCorrect DEF CheckTarget
  <2>2. CASE LeftAlone(t) /\ UNCHANGED spaced
    BY <2>1, <2>2 DEF LeftAlone, Apart, Later
  <2>3. CASE Stopping(t) /\ UNCHANGED spaced
    <3>1. /\ schedule'[t].next = schedule[t].next
          /\ \A u \in Targets : u # t => schedule'[u] = schedule[u]
      BY <2>3, StoppingCorrect DEF Stopping
    <3> QED
      BY <2>1, <2>3, <3>1 DEF Apart, Later
  <2>4. CASE Planning(t) /\ spaced' = [spaced EXCEPT ![t] = StartTime(tick.rows[t])]
    <3>1. /\ spaced'[t] = StartTime(tick.rows[t])
          /\ \A u \in Targets : u # t => spaced'[u] = spaced[u]
      BY <2>4 DEF ScheduleTypeOK
    <3> QED
      BY <1>7, <2>1, <2>4, <3>1 DEF Apart
  <2> QED
    BY <1>8, <2>2, <2>3, <2>4 DEF CheckTarget
<1>9. ASSUME NEW t \in Targets, FailCheck(t) PROVE Apart'
  <2>1. t \in tick.todo /\ tick'.todo = {} /\ UNCHANGED spaced
    BY <1>9 DEF FailCheck, noTick
  <2>2. CASE UNCHANGED schedule
    BY <2>1, <2>2 DEF Apart, Later
  <2>3. CASE Stopping(t)
    <3>1. /\ schedule'[t].next = schedule[t].next
          /\ \A u \in Targets : u # t => schedule'[u] = schedule[u]
      BY <2>3, StoppingCorrect DEF Stopping
    <3> QED
      BY <2>1, <3>1 DEF Apart, Later
  <2>4. CASE Planning(t)
    BY <1>7, <2>1, <2>4 DEF Apart
  <2> QED
    BY <1>9, <2>2, <2>3, <2>4 DEF FailCheck
<1>10. ASSUME NEW t \in Targets, StartManual(t) PROVE Apart'
  BY <1>10 DEF StartManual, Apart, Later, ScheduleTypeOK
<1>11. ASSUME NEW t \in Targets, EndCrawl(t) PROVE Apart'
  <2>1. UNCHANGED tick /\ \A u \in Targets : u # t => schedule'[u] = schedule[u] /\ spaced'[u] = spaced[u]
    BY <1>11, EndCrawlCorrect DEF EndCrawl, ScheduleTypeOK
  <2>2. spaced'[t] = Null \/ (spaced'[t] = spaced[t] /\ schedule'[t].next = schedule[t].next)
    BY <1>11, EndCrawlCorrect DEF EndCrawl, ScheduleTypeOK
  <2> QED
    BY <1>4, <2>1, <2>2
<1>12. CASE \E t \in Targets : PlanPosts(t) \/ RegisterPost(t) \/ RemovePosts(t)
  BY <1>1, <1>12 DEF PlanPosts, RegisterPost, RemovePosts
<1>13. CASE Advance \/ UNCHANGED scheduleVars \/ \E w \in waiting : StartScheduled(w)
  BY <1>1, <1>13 DEF Advance, StartScheduled, scheduleVars
<1> QED
  BY <1>2, <1>3, <1>5, <1>6, <1>8, <1>9, <1>10, <1>11, <1>12, <1>13 DEF ScheduleNext

\* A start planned after another one lies a shortest interval after it.
LEMMA SpacingStep ==
    ScheduleTypeOK /\ Apart /\ [ScheduleNext]_scheduleVars =>
      \A t \in Targets : (spaced[t] # Null /\ spaced'[t] # Null /\ spaced'[t] # spaced[t]) =>
        spaced'[t] - spaced[t] >= MinInterval
<1> SUFFICES ASSUME ScheduleTypeOK, Apart, [ScheduleNext]_scheduleVars, NEW t \in Targets,
                    spaced[t] # Null, spaced'[t] # Null, spaced'[t] # spaced[t]
             PROVE  spaced'[t] - spaced[t] >= MinInterval
  OBVIOUS
<1>1. CheckTarget(t)
  <2>1. PICK u \in Targets : (\E was \in BOOLEAN : SwitchOn(u, was)) \/ CheckTarget(u) \/ StartManual(u) \/ EndCrawl(u)
    BY DEF ScheduleNext, scheduleVars, Advance, BeginTick, Restart, SwitchOff, SetTimer, FailCheck, PlanPosts,
           RegisterPost, RemovePosts, StartScheduled, ScheduleTypeOK
  <2>2. ~(spaced' = [spaced EXCEPT ![u] = Null])
    BY DEF ScheduleTypeOK
  <2>3. CheckTarget(u)
    BY <2>1, <2>2 DEF SwitchOn, StartManual, EndCrawl
  <2>4. u = t
    BY <2>3 DEF CheckTarget, ScheduleTypeOK
  <2> QED
    BY <2>3, <2>4
<1> DEFINE row == tick.rows[t]
<1>2. t \in tick.todo /\ row \in Row
  BY <1>1 DEF CheckTarget, ScheduleTypeOK, noTick
<1>3. spaced'[t] = StartTime(row)
  BY <1>1 DEF CheckTarget, ScheduleTypeOK
<1>4. Later(row, spaced[t]) /\ spaced[t] \in Nat
  BY <1>2 DEF Apart, ScheduleTypeOK
<1>5. StartTime(row) \in Nat /\ StartTime(row) >= row.next
  BY <1>2, <1>4, StartTimeCorrect DEF ScheduleTypeOK, Later
<1>6. row.next \in Nat
  BY <1>2, <1>4 DEF Later, Row
<1> HIDE DEF row
<1> QED
  BY <1>3, <1>4, <1>5, <1>6, CrawlScheduleAssumption DEF Later

\* For every interval and any number of targets: two planned starts of a target are a
\* shortest interval apart, however checks, crawls, switches and failures interleave.
THEOREM SpacingCorrect == ScheduleSpec => Spacing
<1>1. ScheduleInit => Apart
  BY DEF ScheduleInit, Apart
<1> QED
  BY <1>1, TypeInit, TypeInductive, ApartInductive, SpacingStep, PTL DEF ScheduleSpec, Spacing

-------------------------------------------------------------------------------
(* Crawls and the automatic stop in time.  What a check did holds until the  *)
(* next one, which is owed a tick later and which the clock waits for.       *)

\* The clock is never more than a tick past the last check, and still while one is under
\* way.
Clock ==
    /\ ticked <= now /\ now <= ticked + Tick
    /\ IF ticked = -1 THEN now = 0 ELSE ticked % Tick = 0
    /\ tick.todo # {} => ticked = now

\* a row says when it is due, but after a switch, and this is when
HasTime(row) == row.next # Null \/ row.last # Null
TimeOf(row) == IF row.next # Null THEN row.next ELSE row.last + MinInterval

SameTimes(r, s) == r.next = s.next /\ r.last = s.last
SameTimer(r, s) == r.activatedAt = s.activatedAt /\ r.autoStop = s.autoStop

\* A row that a check has read has the times of its target, unless the target became free
\* since, and its timer, unless a request set it since; or it was switched off.
Fresh ==
    \A t \in tick.todo : schedule[t].isActive =>
        /\ SameTimes(tick.rows[t], schedule[t]) \/ free[t] >= ticked
        /\ SameTimer(tick.rows[t], schedule[t]) \/ timed[t] >= ticked

\* A check at the time c left the target t to the next check rightly: it became free
\* since, or is not due before then.
LeftAt(t, c) ==
    \/ free[t] >= c
    \/ HasTime(schedule[t]) /\ TimeOf(schedule[t]) >= c + Tick

\* The same of the automatic stop: there is none, it was set since, or the target had not
\* been active for so long.
KeptAt(t, c) ==
    \/ schedule[t].autoStop = 0
    \/ free[t] >= c \/ timed[t] >= c
    \/ c - ActiveSince(schedule[t]) < schedule[t].autoStop

\* the last check that looked at t, or one before it
LastCheck(t) == IF t \in tick.todo THEN ticked - Tick ELSE ticked

\* Every active target that is not crawled was left rightly by the last check it was in.
Watched ==
    \A t \in Targets :
        schedule[t].isActive /\ ~Busy(t) => LeftAt(t, LastCheck(t)) /\ KeptAt(t, LastCheck(t))

\* A tick after a full minute a minute is full again.
LEMMA NextFull ==
    ASSUME NEW a \in Nat, a % Tick = 0
    PROVE  (a + Tick) % Tick = 0
<1> DEFINE k == a \div Tick
<1>0. Tick \in Nat \ {0}
  BY CrawlScheduleAssumption
<1>1. k \in Int
  BY <1>0
<1>2. a = k * Tick + (a % Tick)
  BY <1>0
<1>3. k * Tick \in Int
  BY <1>0, <1>1
<1>4. a = k * Tick
  BY <1>2, <1>3
<1> HIDE DEF k
<1>5. a + Tick = (k + 1) * Tick
  BY <1>0, <1>1, <1>4
<1>6. \A m \in Int : (m * Tick) % Tick = 0
  BY <1>0
<1>7. ((k + 1) * Tick) % Tick = 0
  BY <1>1, <1>6
<1> QED
  BY <1>5, <1>7

\* The clock stops for every check, so it gets no further than a tick past the last one.
LEMMA ClockInductive == ScheduleTypeOK /\ Clock /\ [ScheduleNext]_scheduleVars => Clock'
<1> SUFFICES ASSUME ScheduleTypeOK, Clock, [ScheduleNext]_scheduleVars PROVE Clock'
  OBVIOUS
<1>0. Tick \in Nat \ {0} /\ now \in Nat /\ ticked \in Int /\ ticked >= -1
  BY CrawlScheduleAssumption DEF ScheduleTypeOK, Time
<1>1. CASE Advance
  <2>1. /\ now' = now + 1 /\ ticked' = ticked /\ tick' = tick
        /\ tick.todo = {}
        /\ ~(now % Tick = 0 /\ ticked < now)
    BY <1>1 DEF Advance, CheckOwed, noTick
  <2>2. now # ticked + Tick
    <3>1. CASE ticked = -1
      <4>1. now = 0 /\ 0 % Tick = 0
        BY <1>0, <3>1 DEF Clock
      <4> QED
        BY <2>1, <3>1, <4>1
    <3>2. CASE ticked \in Nat /\ ticked % Tick = 0
      <4>1. (ticked + Tick) % Tick = 0
        BY <3>2, NextFull
      <4> QED
        BY <1>0, <2>1, <4>1
    <3> QED
      BY <1>0, <3>1, <3>2 DEF Clock
  <2> QED
    BY <1>0, <2>1, <2>2 DEF Clock
<1>2. CASE BeginTick
  BY <1>0, <1>2 DEF BeginTick, CheckOwed, Clock, noTick
<1>3. CASE Restart
  BY <1>0, <1>3 DEF Restart, Clock, noTick
<1>4. ASSUME NEW t \in Targets, CheckTarget(t) PROVE Clock'
  BY <1>4 DEF CheckTarget, Clock, noTick
<1>5. CASE UNCHANGED <<now, tick, ticked>>
  BY <1>5 DEF Clock
<1>6. ASSUME NEW t \in Targets, FailCheck(t) PROVE Clock'
  BY <1>6 DEF FailCheck, Clock, noTick
<1> QED
  BY <1>1, <1>2, <1>3, <1>4, <1>5, <1>6
     DEF ScheduleNext, scheduleVars, SwitchOn, SwitchOff, SetTimer, RemovePosts, StartManual, PlanPosts, RegisterPost, EndCrawl,
         StartScheduled

\* When a row says when it is due, it is due then; otherwise now. A start is never in the past.
LEMMA DueAtCorrect ==
    ASSUME NEW row \in Row, now \in Time
    PROVE  /\ HasTime(row) => TimeOf(row) \in Nat /\ DueAt(row) = TimeOf(row)
           /\ ~HasTime(row) => DueAt(row) = now
           /\ DueAt(row) \in Nat /\ StartTime(row) >= now /\ StartTime(row) \in Nat
BY CrawlScheduleAssumption DEF HasTime, TimeOf, DueAt, StartTime, Row, Time

\* The timer of a row counts from a number, and up to one.
LEMMA TimerCorrect ==
    ASSUME NEW row \in Row
    PROVE  ActiveSince(row) \in Int /\ row.autoStop \in Nat
<1>1. AutoStops \subseteq Nat /\ Dates \subseteq Int /\ MaxTime \in Nat
  BY CrawlScheduleAssumption
<1>2. Time \subseteq Int
  BY <1>1 DEF Time
<1>3. row.activatedAt \in Time \cup Dates \cup {Null} /\ row.autoStop \in AutoStops
  BY DEF Row
<1>4. CASE row.activatedAt = Null
  <2>1. ActiveSince(row) = 0
    BY <1>4 DEF ActiveSince
  <2>2. row.autoStop \in Nat
    BY <1>1, <1>3
  <2> QED
    BY <2>1, <2>2
<1>5. CASE row.activatedAt # Null
  <2>1. row.activatedAt \in Int
    BY <1>1, <1>2, <1>3, <1>5
  <2> QED
    BY <1>1, <1>3, <1>5, <2>1 DEF ActiveSince
<1> QED
  BY <1>4, <1>5

\* Where no target changes but by becoming free, or by a request that sets its timer or
\* switches it, what the last check left stays as it is.
LEMMA WatchedKept ==
    ASSUME ScheduleTypeOK, Clock, Fresh, Watched, UNCHANGED <<tick, ticked>>,
           free' \in [Targets -> Time], timed' \in [Targets -> Time],
           \A t \in Targets : schedule'[t].isActive =>
             /\ \/ free'[t] >= ticked
                \/ /\ SameTimes(schedule'[t], schedule[t]) /\ free'[t] = free[t]
                   /\ schedule[t].isActive
                   /\ run'[t] = Null => run[t] = Null
             /\ \/ timed'[t] >= ticked
                \/ /\ SameTimer(schedule'[t], schedule[t]) /\ timed'[t] = timed[t]
                   /\ schedule[t].isActive
    PROVE  Fresh' /\ Watched'
<1>0. /\ Tick \in Nat \ {0} /\ ticked \in Int /\ tick.todo \subseteq Targets
      /\ \A t \in Targets : free'[t] \in Nat /\ timed'[t] \in Nat
  BY CrawlScheduleAssumption DEF ScheduleTypeOK, Time, noTick
<1>1. Fresh'
  BY <1>0 DEF Fresh, SameTimes, SameTimer
<1>2. ASSUME NEW t \in Targets, schedule'[t].isActive, run'[t] = Null
      PROVE  LeftAt(t, LastCheck(t))' /\ KeptAt(t, LastCheck(t))'
  <2>1. /\ LastCheck(t)' = LastCheck(t)
        /\ LastCheck(t) \in Int
        /\ LastCheck(t) <= ticked
    BY <1>0 DEF LastCheck
  <2>2. CASE free'[t] >= ticked
    BY <1>0, <2>1, <2>2 DEF LeftAt, KeptAt
  <2>3. CASE /\ SameTimes(schedule'[t], schedule[t]) /\ free'[t] = free[t]
             /\ schedule[t].isActive /\ run[t] = Null
    <3>1. LeftAt(t, LastCheck(t)) /\ KeptAt(t, LastCheck(t))
      BY <2>3 DEF Watched, Busy
    <3>2. LeftAt(t, LastCheck(t))'
      BY <2>1, <2>3, <3>1 DEF LeftAt, SameTimes, HasTime, TimeOf
    <3>3. CASE timed'[t] >= ticked
      BY <1>0, <2>1, <3>2, <3>3 DEF KeptAt
    <3>4. CASE SameTimer(schedule'[t], schedule[t]) /\ timed'[t] = timed[t]
      BY <2>1, <2>3, <3>1, <3>2, <3>4 DEF KeptAt, SameTimer, ActiveSince
    <3> QED
      BY <1>2, <3>3, <3>4
  <2> QED
    BY <1>2, <2>2, <2>3
<1> QED
  BY <1>1, <1>2 DEF Watched, Busy

\* A check leaves each target it has looked at rightly, and whatever changes a target
\* after that makes it free or sets its timer.
LEMMA WatchedInductive == ScheduleTypeOK /\ Clock /\ Fresh /\ Watched /\ [ScheduleNext]_scheduleVars => Fresh' /\ Watched'
<1> SUFFICES ASSUME ScheduleTypeOK, Clock, Fresh, Watched, [ScheduleNext]_scheduleVars PROVE Fresh' /\ Watched'
  OBVIOUS
<1>0. /\ Tick \in Nat \ {0} /\ MinInterval \in Nat /\ Tick <= MinInterval
      /\ now \in Nat /\ now \in Time /\ ticked \in Int /\ ticked <= now /\ now <= ticked + Tick
      /\ tick.todo \subseteq Targets
      /\ free \in [Targets -> Time] /\ timed \in [Targets -> Time] /\ Time \subseteq Nat
  BY CrawlScheduleAssumption DEF ScheduleTypeOK, Time, Clock, noTick
<1>1. ASSUME UNCHANGED <<schedule, free, timed, tick, ticked>>,
             \A t \in Targets : run'[t] = Null => run[t] = Null
      PROVE  Fresh' /\ Watched'
  BY <1>0, <1>1, WatchedKept DEF SameTimes, SameTimer
<1>2. CASE BeginTick
  <2>0. /\ ticked < now /\ ticked' = now /\ tick.todo = {}
        /\ UNCHANGED <<now, schedule, run, timed>>
    BY <1>2 DEF BeginTick, CheckOwed, noTick
  <2>1. CASE UNCHANGED tick /\ \A t \in Targets : free'[t] = now
    <3>1. tick'.todo = {} /\ \A t \in Targets : LastCheck(t)' = now
      BY <2>0, <2>1 DEF LastCheck
    <3>2. now >= now
      BY <1>0
    <3> QED
      BY <2>0, <2>1, <3>1, <3>2 DEF Fresh, Watched, LeftAt, KeptAt
  <2>2. CASE /\ UNCHANGED free
             /\ tick' = LET on == {t \in Targets : schedule[t].isActive}
                        IN  IF on = {} THEN noTick ELSE [rows |-> schedule, todo |-> on]
    <3>1. /\ tick'.todo = {t \in Targets : schedule[t].isActive}
          /\ tick'.todo # {} => tick'.rows = schedule
      BY <2>2 DEF noTick
    <3>2. Fresh'
      BY <2>0, <3>1 DEF Fresh, SameTimes, SameTimer
    <3>3. ASSUME NEW t \in Targets, schedule[t].isActive, run[t] = Null
          PROVE  LeftAt(t, LastCheck(t))' /\ KeptAt(t, LastCheck(t))'
      <4>1. LastCheck(t) = ticked /\ LastCheck(t)' = now - Tick /\ now - Tick <= ticked
        BY <1>0, <2>0, <3>1, <3>3 DEF LastCheck
      <4>2. LeftAt(t, ticked) /\ KeptAt(t, ticked)
        BY <3>3, <4>1 DEF Watched, Busy
      <4>3. /\ free[t] \in Nat /\ timed[t] \in Nat
            /\ HasTime(schedule[t]) => TimeOf(schedule[t]) \in Nat
            /\ ActiveSince(schedule[t]) \in Int /\ schedule[t].autoStop \in Nat
        BY <1>0, DueAtCorrect, TimerCorrect DEF ScheduleTypeOK
      <4>4. LeftAt(t, now - Tick)
        BY <1>0, <4>1, <4>2, <4>3 DEF LeftAt
      <4>5. KeptAt(t, now - Tick)
        BY <1>0, <4>1, <4>2, <4>3 DEF KeptAt
      <4>6. LeftAt(t, LastCheck(t))' = LeftAt(t, now - Tick)
        BY <2>0, <2>2, <4>1 DEF LeftAt, HasTime, TimeOf
      <4>7. KeptAt(t, LastCheck(t))' = KeptAt(t, now - Tick)
        BY <2>0, <2>2, <4>1 DEF KeptAt, ActiveSince
      <4> QED
        BY <4>4, <4>5, <4>6, <4>7
    <3> QED
      BY <2>0, <3>2, <3>3 DEF Watched, Busy
  <2> QED
    BY <1>2, <2>1, <2>2 DEF BeginTick
<1>3. ASSUME UNCHANGED <<now, run, ticked, timed>>, tick'.todo = {}, ticked = now \/ tick.todo = {},
             \A t \in Targets : \/ free'[t] = now
                                \/ t \notin tick.todo /\ schedule'[t] = schedule[t] /\ free'[t] = free[t]
      PROVE  Fresh' /\ Watched'
  <2>1. Fresh'
    BY <1>3 DEF Fresh
  <2>2. ASSUME NEW t \in Targets, schedule'[t].isActive, run'[t] = Null
        PROVE  LeftAt(t, LastCheck(t))' /\ KeptAt(t, LastCheck(t))'
    <3>1. LastCheck(t)' = ticked
      BY <1>3 DEF LastCheck
    <3>2. CASE free'[t] = now
      BY <1>0, <3>1, <3>2 DEF LeftAt, KeptAt
    <3>3. CASE t \notin tick.todo /\ schedule'[t] = schedule[t] /\ free'[t] = free[t]
      <4>1. LastCheck(t) = ticked
        BY <3>3 DEF LastCheck
      <4>2. LeftAt(t, ticked) /\ KeptAt(t, ticked)
        BY <1>3, <2>2, <3>3, <4>1 DEF Watched, Busy
      <4> QED
        BY <1>3, <3>1, <3>3, <4>2 DEF LeftAt, KeptAt, HasTime, TimeOf, ActiveSince
    <3> QED
      BY <1>3, <3>2, <3>3
  <2> QED
    BY <2>1, <2>2 DEF Watched, Busy
<1>4. CASE Restart
  <2>1. \A t \in Targets : free'[t] = now
    BY <1>4 DEF Restart
  <2>2. ticked = now \/ tick.todo = {}
    BY DEF Clock
  <2> QED
    BY <1>3, <1>4, <2>1, <2>2 DEF Restart, noTick
<1>5. ASSUME NEW t \in Targets, FailCheck(t) PROVE Fresh' /\ Watched'
  <2>1. /\ tick'.todo = {} /\ ticked = now
        /\ UNCHANGED <<now, run, ticked, timed>>
    BY <1>5 DEF FailCheck, Clock, noTick
  <2>2. \A u \in Targets : u # t => schedule'[u] = schedule[u]
    BY <1>5, StoppingCorrect, PlanningCorrect DEF FailCheck, Stopping
  <2>3. \A u \in Targets : free'[u] = IF u \in tick.todo THEN now ELSE free[u]
    BY <1>5 DEF FailCheck
  <2>4. t \in tick.todo
    BY <1>5 DEF FailCheck
  <2> QED
    BY <1>3, <2>1, <2>2, <2>3, <2>4
<1>6. ASSUME NEW t \in Targets, NEW was \in BOOLEAN, SwitchOn(t, was) PROVE Fresh' /\ Watched'
  <2>1. /\ \A u \in Targets : u # t => schedule'[u] = schedule[u] /\ free'[u] = free[u] /\ timed'[u] = timed[u]
        /\ was => SameTimes(schedule'[t], schedule[t])
        /\ UNCHANGED <<now, run, tick, ticked>>
    BY <1>6, SwitchOnCorrect DEF SwitchOn, SameTimes, ScheduleTypeOK
  <2>2. /\ free' \in [Targets -> Time] /\ timed' \in [Targets -> Time]
        /\ timed'[t] = now
        /\ free'[t] = now \/ (was /\ schedule[t].isActive /\ free'[t] = free[t])
    BY <1>0, <1>6 DEF SwitchOn, ScheduleTypeOK
  <2>3. \A u \in Targets : u # t => SameTimes(schedule'[u], schedule[u]) /\ SameTimer(schedule'[u], schedule[u])
    BY <2>1 DEF SameTimes, SameTimer
  <2>4. now >= ticked
    BY <1>0
  <2> QED
    BY <2>1, <2>2, <2>3, <2>4, WatchedKept
<1>7. ASSUME NEW t \in Targets, SwitchOff(t) PROVE Fresh' /\ Watched'
  <2>1. /\ ~schedule'[t].isActive
        /\ \A u \in Targets : u # t => schedule'[u] = schedule[u]
        /\ UNCHANGED <<now, run, tick, ticked, free, timed>>
    BY <1>7, StoppingCorrect DEF SwitchOff
  <2>2. \A u \in Targets : u # t => SameTimes(schedule'[u], schedule[u]) /\ SameTimer(schedule'[u], schedule[u])
    BY <2>1 DEF SameTimes, SameTimer
  <2> QED
    BY <1>0, <2>1, <2>2, WatchedKept
<1>8. ASSUME NEW t \in Targets, SetTimer(t) PROVE Fresh' /\ Watched'
  <2>1. /\ SameTimes(schedule'[t], schedule[t]) /\ schedule'[t].isActive = schedule[t].isActive
        /\ \A u \in Targets : u # t => schedule'[u] = schedule[u] /\ timed'[u] = timed[u]
        /\ UNCHANGED <<now, run, tick, ticked, free>>
    BY <1>8, SetTimerCorrect DEF SetTimer, SameTimes, ScheduleTypeOK
  <2>2. timed' \in [Targets -> Time] /\ timed'[t] = now
    BY <1>0, <1>8 DEF SetTimer
  <2>3. \A u \in Targets : u # t => SameTimes(schedule'[u], schedule[u]) /\ SameTimer(schedule'[u], schedule[u])
    BY <2>1 DEF SameTimes, SameTimer
  <2>4. now >= ticked
    BY <1>0
  <2> QED
    BY <1>0, <2>1, <2>2, <2>3, <2>4, WatchedKept
<1>9. ASSUME NEW t \in Targets, EndCrawl(t) PROVE Fresh' /\ Watched'
  <2>1. /\ \A u \in Targets : u # t => schedule'[u] = schedule[u] /\ run'[u] = run[u] /\ free'[u] = free[u]
        /\ SameTimer(schedule'[t], schedule[t]) /\ schedule'[t].isActive = schedule[t].isActive
        /\ UNCHANGED <<now, tick, ticked, timed>>
    BY <1>9, EndCrawlCorrect DEF EndCrawl, SameTimer, ScheduleTypeOK
  <2>2. free' \in [Targets -> Time] /\ free'[t] = now
    BY <1>0, <1>9 DEF EndCrawl
  <2>3. \A u \in Targets : u # t => SameTimes(schedule'[u], schedule[u]) /\ SameTimer(schedule'[u], schedule[u])
    BY <2>1 DEF SameTimes, SameTimer
  <2>4. now >= ticked
    BY <1>0
  <2> QED
    BY <1>0, <2>1, <2>2, <2>3, <2>4, WatchedKept
<1>10. ASSUME NEW t \in Targets, StartManual(t) \/ PlanPosts(t) \/ RegisterPost(t) \/ RemovePosts(t)
       PROVE  Fresh' /\ Watched'
  <2>1. UNCHANGED <<schedule, free, timed, tick, ticked>>
    BY <1>10 DEF StartManual, PlanPosts, RegisterPost, RemovePosts
  <2>2. \A u \in Targets : run'[u] = Null => run[u] = Null
    <3>1. CASE StartManual(t)
      BY <3>1 DEF StartManual, Busy, ScheduleTypeOK
    <3>2. CASE PlanPosts(t) \/ RegisterPost(t)
      BY <3>2, PlanPostsCorrect, RegisterPostCorrect, NullIsNoRun
    <3>3. CASE RemovePosts(t)
      BY <3>3 DEF RemovePosts
    <3> QED
      BY <1>10, <3>1, <3>2, <3>3
  <2> QED
    BY <1>1, <2>1, <2>2
<1>11. ASSUME NEW w \in waiting, StartScheduled(w) PROVE Fresh' /\ Watched'
  <2>1. UNCHANGED <<schedule, free, timed, tick, ticked>>
    BY <1>11 DEF StartScheduled
  <2>2. \A u \in Targets : run'[u] = Null => run[u] = Null
    BY <1>11 DEF StartScheduled, Busy, ScheduleTypeOK
  <2> QED
    BY <1>1, <2>1, <2>2
<1>12. ASSUME NEW t \in Targets, CheckTarget(t) PROVE Fresh' /\ Watched'
  <2> DEFINE row == tick.rows[t]
  <2>1. /\ t \in tick.todo
        /\ tick'.todo = tick.todo \ {t}
        /\ tick'.todo # {} => tick'.rows = tick.rows
        /\ UNCHANGED <<now, run, ticked, free, timed>>
        /\ row \in Row
        /\ ticked = now
    BY <1>12, TickCorrect DEF CheckTarget, ScheduleTypeOK, noTick, Clock
  <2>2. \A u \in Targets : u # t => schedule'[u] = schedule[u]
    BY <1>12, <2>1, StoppingCorrect, PlanningCorrect DEF CheckTarget, LeftAlone, Stopping
  <2>3. Fresh'
    BY <1>0, <2>1, <2>2 DEF Fresh
  <2>4. ASSUME NEW u \in Targets, u # t, schedule'[u].isActive, run'[u] = Null
        PROVE  LeftAt(u, LastCheck(u))' /\ KeptAt(u, LastCheck(u))'
    <3>1. LastCheck(u)' = LastCheck(u)
      BY <2>1, <2>4 DEF LastCheck
    <3>2. schedule'[u] = schedule[u] /\ UNCHANGED <<free, timed, now>>
      BY <2>1, <2>2, <2>4
    <3>3. LeftAt(u, LastCheck(u)) /\ KeptAt(u, LastCheck(u))
      BY <2>1, <2>4, <3>2 DEF Watched, Busy
    <3> QED
      BY <3>1, <3>2, <3>3 DEF LeftAt, KeptAt, HasTime, TimeOf, ActiveSince
  <2>5. ASSUME schedule'[t].isActive, run'[t] = Null
        PROVE  LeftAt(t, ticked)' /\ KeptAt(t, ticked)'
    <3>0. /\ schedule[t] \in Row /\ free[t] \in Nat /\ timed[t] \in Nat /\ ~Busy(t)
      BY <1>0, <1>12, <2>1, <2>5 DEF ScheduleTypeOK, Busy
    <3>1. /\ DueAt(row) \in Nat /\ StartTime(row) \in Nat /\ StartTime(row) >= now
          /\ HasTime(row) => TimeOf(row) \in Nat /\ DueAt(row) = TimeOf(row)
          /\ ~HasTime(row) => DueAt(row) = now
          /\ ActiveSince(row) \in Int /\ row.autoStop \in Nat
      BY <1>0, <2>1, DueAtCorrect, TimerCorrect
    <3>2. ~Stopping(t)
      BY <1>12, <2>5, StoppingCorrect DEF Stopping
    <3>3. /\ ~AutoStopped(row)
          /\ schedule'[t].isActive = schedule[t].isActive
          /\ SameTimer(schedule'[t], schedule[t])
          /\ \/ schedule'[t] = schedule[t] /\ ~Due(row)
             \/ schedule'[t].next \in Nat /\ schedule'[t].next >= StartTime(row) + MinInterval
      <4>1. CASE LeftAlone(t)
        BY <3>0, <4>1 DEF LeftAlone, SameTimer
      <4>2. CASE Planning(t)
        <5>1. ~AutoStopped(row)
          BY <4>2 DEF Planning
        <5> QED
          BY <2>1, <4>2, <5>1, PlanningCorrect DEF SameTimer
      <4> QED
        BY <1>12, <3>2, <4>1, <4>2 DEF CheckTarget
    <3>4. /\ SameTimes(row, schedule[t]) \/ free[t] >= ticked
          /\ SameTimer(row, schedule[t]) \/ timed[t] >= ticked
      BY <2>1, <2>5, <3>3 DEF Fresh
    <3>5. LeftAt(t, ticked)'
      <4>1. CASE free[t] >= ticked
        BY <2>1, <4>1 DEF LeftAt
      <4>2. CASE SameTimes(row, schedule[t]) /\ schedule'[t] = schedule[t] /\ ~Due(row)
        <5>1. DueAt(row) >= now + Tick
          BY <1>0, <3>1, <4>2 DEF Due
        <5>2. HasTime(row) /\ TimeOf(row) >= ticked + Tick
          BY <1>0, <2>1, <3>1, <5>1
        <5> QED
          BY <2>1, <4>2, <5>2 DEF LeftAt, HasTime, TimeOf, SameTimes
      <4>3. CASE schedule'[t].next \in Nat /\ schedule'[t].next >= StartTime(row) + MinInterval
        <5>1. schedule'[t].next # Null
          BY <4>3, CrawlScheduleAssumption
        <5>2. schedule'[t].next >= ticked + Tick
          BY <1>0, <2>1, <3>1, <4>3
        <5> QED
          BY <2>1, <5>1, <5>2 DEF LeftAt, HasTime, TimeOf
      <4> QED
        BY <3>3, <3>4, <4>1, <4>2, <4>3
    <3>6. KeptAt(t, ticked)'
      <4>1. CASE timed[t] >= ticked
        BY <2>1, <4>1 DEF KeptAt
      <4>2. CASE SameTimer(row, schedule[t])
        <5>1. schedule'[t].autoStop = row.autoStop /\ ActiveSince(schedule'[t]) = ActiveSince(row)
          BY <3>3, <4>2 DEF SameTimer, ActiveSince
        <5>2. row.autoStop = 0 \/ ticked - ActiveSince(row) < row.autoStop
          BY <1>0, <2>1, <3>1, <3>3 DEF AutoStopped
        <5>3. ActiveSince(schedule[t])' = ActiveSince(schedule'[t])
          BY DEF ActiveSince
        <5> QED
          BY <2>1, <5>1, <5>2, <5>3 DEF KeptAt
      <4> QED
        BY <3>4, <4>1, <4>2
    <3> QED
      BY <3>5, <3>6
  <2>6. LastCheck(t)' = ticked /\ ticked' = ticked
    BY <2>1 DEF LastCheck
  <2>7. ASSUME schedule'[t].isActive, run'[t] = Null
        PROVE  LeftAt(t, LastCheck(t))' /\ KeptAt(t, LastCheck(t))'
    BY <2>5, <2>6, <2>7 DEF LeftAt, KeptAt
  <2> QED
    BY <2>3, <2>4, <2>7 DEF Watched, Busy
<1>13. CASE UNCHANGED scheduleVars \/ Advance
  BY <1>1, <1>13 DEF scheduleVars, Advance
<1> QED
  BY <1>2, <1>4, <1>5, <1>6, <1>7, <1>8, <1>9, <1>10, <1>11, <1>12, <1>13 DEF ScheduleNext

\* Between checks nothing is owed but what the last one left.
LEMMA WatchedAlways == ScheduleSpec => [](ScheduleTypeOK /\ Clock /\ Watched)
<1>1. ScheduleInit => Clock /\ Fresh /\ Watched
  <2> SUFFICES ASSUME ScheduleInit PROVE Clock /\ Fresh /\ Watched
    OBVIOUS
  <2>1. Tick \in Nat \ {0} /\ tick.todo = {} /\ now = 0 /\ ticked = -1
    BY CrawlScheduleAssumption DEF ScheduleInit, noTick
  <2>2. Clock /\ Fresh
    BY <2>1 DEF Clock, Fresh
  <2>3. \A t \in Targets : free[t] = 0 /\ LastCheck(t) = -1
    BY <2>1 DEF ScheduleInit, LastCheck
  <2> QED
    BY <2>2, <2>3 DEF Watched, LeftAt, KeptAt
<1> QED
  BY <1>1, TypeInit, TypeInductive, ClockInductive, WatchedInductive, PTL DEF ScheduleSpec

\* For every interval and any number of targets: no active target is overdue, or waits for
\* its first crawl, unless it became free or was switched on, or the worker restarted or a
\* check broke off, no longer than a check ago.
THEOREM PunctualCorrect == ScheduleSpec => []Punctual
<1>1. ScheduleTypeOK /\ Clock /\ Watched => Punctual
  <2> SUFFICES ASSUME ScheduleTypeOK, Clock, Watched, NEW t \in Targets, schedule[t].isActive, ~Busy(t),
                      DueAt(schedule[t]) < now \/ (schedule[t].next = Null /\ schedule[t].last = Null)
               PROVE  now - free[t] <= Tick
    BY DEF Punctual
  <2>1. /\ Tick \in Nat \ {0} /\ now \in Nat /\ ticked \in Int /\ now <= ticked + Tick
        /\ free[t] \in Nat
        /\ HasTime(schedule[t]) => TimeOf(schedule[t]) \in Nat /\ TimeOf(schedule[t]) < now
    BY DueAtCorrect, CrawlScheduleAssumption DEF ScheduleTypeOK, Clock, HasTime, Time
  <2>2. /\ LastCheck(t) \in Int /\ LastCheck(t) + Tick >= now
        /\ LeftAt(t, LastCheck(t))
    BY <2>1 DEF LastCheck, Clock, Watched
  <2> QED
    BY <2>1, <2>2 DEF LeftAt
<1> QED
  BY <1>1, WatchedAlways, PTL

\* For every timer and any number of targets: none stays active past it by more than a
\* check, but one that was being crawled, whose check broke off, or whose timer was set.
THEOREM StopsInTimeCorrect == ScheduleSpec => []StopsInTime
<1>1. ScheduleTypeOK /\ Clock /\ Watched => StopsInTime
  <2> SUFFICES ASSUME ScheduleTypeOK, Clock, Watched, NEW t \in Targets, schedule[t].autoStop > 0,
                      schedule[t].isActive, ~Busy(t),
                      now - ActiveSince(schedule[t]) > schedule[t].autoStop + Tick
               PROVE  now - free[t] <= Tick \/ now - timed[t] <= Tick
    BY DEF StopsInTime
  <2>1. /\ Tick \in Nat \ {0} /\ now \in Nat /\ ticked \in Int
        /\ now <= ticked + Tick
        /\ free[t] \in Nat /\ timed[t] \in Nat
        /\ ActiveSince(schedule[t]) \in Int /\ schedule[t].autoStop \in Nat
    BY TimerCorrect, CrawlScheduleAssumption DEF ScheduleTypeOK, Clock, Time
  <2>2. /\ LastCheck(t) \in Int /\ LastCheck(t) + Tick >= now
        /\ KeptAt(t, LastCheck(t))
    BY <2>1 DEF LastCheck, Clock, Watched
  <2> QED
    BY <2>1, <2>2 DEF KeptAt
<1> QED
  BY <1>1, WatchedAlways, PTL

-------------------------------------------------------------------------------
(* CrawlTarget.                                                              *)

(* What is true of the local state r of crawl c.                             *)

\* it looks for candidates, and has registered nothing yet
Looking(r) == r.pc \in {"new", "capture", "baseline", "list", "check", "prepare"}

\* the candidates are those of c, and differ in page where they agree in source
CandsOK(c, r) ==
    /\ r.pc \in {"new", "capture", "baseline", "done"} => r.cands = <<>>
    /\ r.pc \in {"answered", "store"} => r.cands # <<>>
    /\ \A n \in 1..Len(r.cands) : r.cands[n].crawl = c
    /\ \A n, m \in 1..Len(r.cands) :
         (n # m /\ r.cands[n].src = r.cands[m].src) => r.cands[n].page # r.cands[m].page

\* no page it has still to look at gave a candidate
PageOK(r) ==
    r.pc \in {"list", "check", "prepare"} =>
        \A n \in 1..Len(r.cands) :
            /\ r.oldest => r.page <= r.cands[n].page
            /\ ~r.oldest => r.cands[n].page <= r.page
            /\ r.pc = "list" => r.cands[n].page # r.page

\* the entries of the page that are left: each once, none a candidate from this page
ItemsOK(r) ==
    r.pc \in {"check", "prepare"} =>
        /\ r.page \in 1..Pages
        /\ r.pc = "prepare" => r.items # <<>>
        /\ \A i, j \in 1..Len(r.items) : i # j => r.items[i] # r.items[j]
        /\ \A n \in 1..Len(r.cands), i \in 1..Len(r.items) :
             r.cands[n].page = r.page => r.cands[n].src # r.items[i]

\* no row of another crawl is about a candidate, and none about the entry being prepared
UnseenOK(c, r, rows) ==
    /\ \A n \in 1..Len(r.cands), l \in rows :
         l.src = r.cands[n].src => l.crawl = c /\ l.page # r.cands[n].page
    /\ r.pc = "prepare" => \A l \in rows : l.src # Head(r.items)

LocalOK(c, r, rows) == CandsOK(c, r) /\ PageOK(r) /\ ItemsOK(r) /\ UnseenOK(c, r, rows)

\* Crawls do not overlap, and each sees to it that what it will register is new.
Sole == \A c, d \in Crawls : Active(c) /\ Active(d) => c = d

CollectInv ==
    /\ TypeOK
    /\ Sole
    /\ \A c \in Crawls : LocalOK(c, crawl[c], logs)
    /\ CollectedByOneCrawl

-------------------------------------------------------------------------------
(* What ties posts, rows, images and the deletions together.                 *)

\* What is being deleted or cleaned is known to be; a deletion of rows has seen to their
\* files, and then to their posts, before the rows.
AdminOK ==
    /\ cleaning \subseteq touched
    /\ \A a \in Admins :
         /\ admin[a].rows \subseteq touched
         /\ admin[a].pc \in {"posts", "rows"} => images \cap admin[a].rows \subseteq cleaning
         /\ admin[a].pc = "rows" => board \cap admin[a].rows = {}

\* Candidates have their images, and were never registered; what was registered and has
\* its image is a post, or being cleaned.
FilesOK(c, r) ==
    /\ Looking(r) => \A k \in logs \cup touched : k.crawl # c
    /\ Looking(r) \/ r.pc = "done" => r.saved = {}
    /\ r.pc \in {"new", "capture", "baseline"} => Uploads(c) = {}
    /\ \A n \in 1..Len(r.cands) : r.cands[n] \in images \ (logs \cup touched)
    /\ images \cap r.saved \subseteq board \cup cleaning
    /\ r.pc # "done" => {k \in logs : k.crawl = c} \subseteq r.saved

FilesInv ==
    /\ CollectInv
    /\ AdminOK
    /\ \A c \in Crawls : FilesOK(c, crawl[c])
    /\ PostHasRow
    /\ ImagesOfPosts

-------------------------------------------------------------------------------
(* What bounds the failures, and where the collection starts.                *)

\* the pages on which r found the source post i
PagesOf(r, i) == {r.cands[n].page : n \in {m \in 1..Len(r.cands) : r.cands[m].src = i}}

\* After n failures of i, each page on which r found it may add one; what is prepared has
\* failed less often than the limit.
FailuresOK(r, i, n) ==
    /\ n + Cardinality(PagesOf(r, i)) <= MaxAttempts + Pages - 1
    /\ (r.pc = "prepare" /\ i = Head(r.items)) => n < MaxAttempts

FailuresInv ==
    /\ AttemptsBounded
    /\ \A i \in Ids, c \in Crawls : FailuresOK(crawl[c], i, failed[i])

\* what was read of a gallery, and not before the last switch unless it is old
ReadOK(r, value) == /\ r.gallery \in Galleries /\ value \in Ids
                    /\ ~r.old => since <= value

\* A baseline is not behind the last switch unless it is stale, and neither is what a
\* crawl or a request has read for it.
StartInv ==
    /\ since <= newest[target.gallery]
    /\ (target.baseline # None /\ ~stale) => since <= target.baseline
    /\ \A a \in Admins : admin[a].pc = "write" => ReadOK(admin[a], admin[a].value)
    /\ \A c \in Crawls :
         /\ crawl[c].pc = "baseline" => ReadOK(crawl[c], crawl[c].after)
         /\ crawl[c].pc \in {"list", "check", "prepare"} => crawl[c].gallery \in Galleries
         /\ (Active(c) /\ crawl[c].after # None /\ ~crawl[c].old) => since <= crawl[c].after
         /\ (Active(c) /\ crawl[c].after # None) => \A k \in Uploads(c) : crawl[c].after < k.src
         /\ (crawl[c].pc = "prepare" /\ crawl[c].after # None) => crawl[c].after < Head(crawl[c].items)

IInv == FilesInv /\ FailuresInv /\ StartInv

-------------------------------------------------------------------------------
(* Lists.                                                                    *)

\* A list page has posts of the gallery, each once (fetchGalleryPostList).
LEMMA ListedCorrect ==
    ASSUME newest \in [Galleries -> Ids], NEW g \in Galleries, NEW p \in 1..Pages
    PROVE  /\ Listed(g, p) \in Seq(Ids)
           /\ \A i, j \in 1..Len(Listed(g, p)) : i # j => Listed(g, p)[i] # Listed(g, p)[j]
<1> DEFINE top == newest[g] - (p - 1) * PageSize
           n == IF top < PageSize THEN top ELSE PageSize
<1>1. (p - 1) * PageSize \in Nat
  BY CrawlTargetAssumption
<1>2. top \in Int /\ top <= MaxId /\ MaxId \in Nat /\ PageSize \in Nat
  <2>1. newest[g] \in Ids
    OBVIOUS
  <2> QED
    BY <1>1, <2>1, CrawlTargetAssumption DEF Ids
<1>3. Listed(g, p) = IF top < 1 THEN <<>> ELSE [i \in 1..n |-> top - i + 1]
  BY DEF Listed
<1> HIDE DEF top
<1>4. CASE top < 1
  BY <1>3, <1>4
<1>5. CASE ~(top < 1)
  <2>1. n \in Nat /\ n <= top
    BY <1>2, <1>5
  <2>2. [i \in 1..n |-> top - i + 1] \in [1..n -> Ids]
    BY <1>2, <2>1 DEF Ids
  <2> HIDE DEF n
  <2>3. Listed(g, p) \in Seq(Ids) /\ Len(Listed(g, p)) = n
    BY <1>3, <1>5, <2>1, <2>2
  <2> QED
    BY <1>2, <1>3, <1>5, <2>1, <2>3
<1> QED
  BY <1>4, <1>5

\* A list turned round has the same entries.
LEMMA ReverseCorrect ==
    ASSUME NEW S, NEW s \in Seq(S)
    PROVE  /\ Reverse(s) \in Seq(S) /\ Len(Reverse(s)) = Len(s)
           /\ \A i \in 1..Len(s) : Reverse(s)[i] = s[Len(s) - i + 1] /\ Len(s) - i + 1 \in 1..Len(s)
<1> DEFINE n == Len(s)
<1>1. n \in Nat /\ \A i \in 1..n : s[i] \in S /\ n - i + 1 \in 1..n
  OBVIOUS
<1>2. Reverse(s) = [i \in 1..n |-> s[n - i + 1]]
  BY DEF Reverse
<1> HIDE DEF n
<1>3. Reverse(s) \in [1..n -> S]
  BY <1>1, <1>2
<1>4. Reverse(s) \in Seq(S) /\ Len(Reverse(s)) = n
  BY <1>1, <1>2, <1>3
<1> QED
  BY <1>1, <1>2, <1>4 DEF n

\* The rest of a list.
LEMMA TailCorrect ==
    ASSUME NEW S, NEW s \in Seq(S), s # <<>>
    PROVE  /\ Head(s) \in S /\ Head(s) = s[1] /\ 1 \in 1..Len(s)
           /\ Tail(s) \in Seq(S) /\ Len(Tail(s)) = Len(s) - 1
           /\ \A i \in 1..Len(Tail(s)) : Tail(s)[i] = s[i + 1] /\ i + 1 \in 1..Len(s)
OBVIOUS

-------------------------------------------------------------------------------
(* What each way of going on does to LocalOK.                                *)

\* A crawl without candidates that looks at no page.
LEMMA EmptyOK ==
    ASSUME NEW c \in Crawls, NEW r \in Local, NEW rows \in SUBSET Key,
           r.cands = <<>>, r.pc \notin {"check", "prepare", "answered", "store"}
    PROVE  LocalOK(c, r, rows)
BY DEF LocalOK, CandsOK, PageOK, ItemsOK, UnseenOK, Local

\* Fewer rows.
LEMMA FewerOK ==
    ASSUME NEW c \in Crawls, NEW r \in Local, NEW rows \in SUBSET Key, NEW less \in SUBSET rows,
           LocalOK(c, r, rows)
    PROVE  LocalOK(c, r, less)
BY DEF LocalOK, UnseenOK

\* A step that leaves lists and page alone.
LEMMA SameOK ==
    ASSUME NEW c \in Crawls, NEW r \in Local, NEW q \in Local, NEW rows \in SUBSET Key,
           LocalOK(c, r, rows),
           q.cands = r.cands, q.items = r.items, q.page = r.page, q.oldest = r.oldest,
           q.pc = r.pc \/ q.pc = "cleanup" \/ (q.pc \in {"answered", "store"} /\ r.cands # <<>>)
    PROVE  LocalOK(c, q, rows)
BY DEF LocalOK, CandsOK, PageOK, ItemsOK, UnseenOK

\* Another page that no candidate is from.
LEMMA TurnOK ==
    ASSUME NEW c \in Crawls, NEW r \in Local, NEW q \in Local, NEW rows \in SUBSET Key,
           LocalOK(c, r, rows), r.pc = "check", q.pc = "list",
           q.cands = r.cands, q.oldest = r.oldest,
           r.oldest => q.page < r.page, ~r.oldest => r.page < q.page
    PROVE  LocalOK(c, q, rows)
<1>1. r.page \in Int /\ q.page \in Int /\ \A n \in 1..Len(r.cands) : r.cands[n].page \in Int
  <2>1. Pages \in Nat /\ r.cands \in Seq(Key) /\ r.page \in 0..(Pages + 1) /\ q.page \in 0..(Pages + 1)
    BY CrawlTargetAssumption DEF Local
  <2>2. \A n \in 1..Len(r.cands) : r.cands[n] \in Key
    BY <2>1
  <2> QED
    BY <2>1, <2>2 DEF Key
<1>2. CandsOK(c, q) /\ UnseenOK(c, q, rows) /\ ItemsOK(q)
  BY DEF LocalOK, CandsOK, ItemsOK, UnseenOK
<1>3. PageOK(q)
  BY <1>1 DEF LocalOK, PageOK
<1> QED
  BY <1>2, <1>3 DEF LocalOK

\* The entries of a page that no candidate is from.
LEMMA CheckOK ==
    ASSUME NEW c \in Crawls, NEW r \in Local, NEW q \in Local, NEW rows \in SUBSET Key,
           LocalOK(c, r, rows), r.pc = "list", q.pc = "check",
           q.cands = r.cands, q.oldest = r.oldest, q.page = r.page, r.page \in 1..Pages,
           \A i, j \in 1..Len(q.items) : i # j => q.items[i] # q.items[j]
    PROVE  LocalOK(c, q, rows)
BY DEF LocalOK, CandsOK, PageOK, ItemsOK, UnseenOK

\* An entry that no row is about.
LEMMA PrepareOK ==
    ASSUME NEW c \in Crawls, NEW r \in Local, NEW q \in Local, NEW rows \in SUBSET Key,
           LocalOK(c, r, rows), r.pc = "check", q.pc = "prepare",
           q.cands = r.cands, q.oldest = r.oldest, q.page = r.page, q.items = r.items,
           r.items # <<>>, \A l \in rows : l.src # Head(r.items)
    PROVE  LocalOK(c, q, rows)
BY DEF LocalOK, CandsOK, PageOK, ItemsOK, UnseenOK

\* The next entry.
LEMMA SkipOK ==
    ASSUME NEW c \in Crawls, NEW r \in Local, NEW q \in Local, NEW rows \in SUBSET Key,
           LocalOK(c, r, rows), r.pc \in {"check", "prepare"}, q.pc = "check",
           q.cands = r.cands, q.oldest = r.oldest, q.page = r.page,
           r.items # <<>>, q.items = Tail(r.items)
    PROVE  LocalOK(c, q, rows)
<1>1. /\ Len(q.items) = Len(r.items) - 1 /\ Len(r.items) \in Nat
      /\ \A i \in 1..Len(q.items) : q.items[i] = r.items[i + 1] /\ i + 1 \in 1..Len(r.items)
  BY TailCorrect DEF Local
<1>2. ItemsOK(q)
  BY <1>1 DEF LocalOK, ItemsOK
<1> QED
  BY <1>2 DEF LocalOK, CandsOK, PageOK, UnseenOK

\* A candidate more, found on the page at hand.
LEMMA AppendOK ==
    ASSUME NEW c \in Crawls, NEW r \in Local, NEW q \in Local, NEW rows \in SUBSET Key,
           NEW k \in Key, k = [crawl |-> c, src |-> Head(r.items), page |-> r.page],
           LocalOK(c, r, rows), r.pc = "prepare", q.pc = "check",
           q.oldest = r.oldest, q.page = r.page,
           q.items = Tail(r.items), q.cands = Append(r.cands, k)
    PROVE  LocalOK(c, q, rows)
<1>1. /\ r.items # <<>> /\ r.items \in Seq(Ids) /\ r.cands \in Seq(Key) /\ r.page \in Nat
  BY DEF LocalOK, ItemsOK, Local
<1>2. /\ Head(r.items) = r.items[1] /\ 1 \in 1..Len(r.items)
      /\ \A i \in 1..Len(q.items) : q.items[i] = r.items[i + 1] /\ i + 1 \in 1..Len(r.items) /\ i + 1 # 1
  BY <1>1, TailCorrect
<1>3. /\ Len(q.cands) = Len(r.cands) + 1 /\ Len(r.cands) \in Nat
      /\ q.cands[Len(r.cands) + 1] = k
      /\ \A n \in 1..Len(r.cands) : q.cands[n] = r.cands[n]
  BY <1>1
<1>4. \A n \in 1..Len(q.cands) : n \in 1..Len(r.cands) \/ (n = Len(r.cands) + 1 /\ q.cands[n] = k)
  BY <1>3
<1>5. k.crawl = c /\ k.src = r.items[1] /\ k.page = r.page
  BY <1>2
<1>6. \A n \in 1..Len(r.cands) : r.cands[n].page = r.page => r.cands[n].src # k.src
  BY <1>2, <1>5 DEF LocalOK, ItemsOK
<1>7. CandsOK(c, q)
  BY <1>3, <1>4, <1>5, <1>6 DEF LocalOK, CandsOK
<1>8. PageOK(q)
  BY <1>1, <1>3, <1>4, <1>5 DEF LocalOK, PageOK
<1>9. ItemsOK(q)
  BY <1>2, <1>3, <1>4, <1>5 DEF LocalOK, ItemsOK
<1>10. UnseenOK(c, q, rows)
  BY <1>2, <1>3, <1>4, <1>5 DEF LocalOK, UnseenOK
<1> QED
  BY <1>7, <1>8, <1>9, <1>10 DEF LocalOK

\* The queue of the candidates, whichever way round.
LEMMA QueueOK ==
    ASSUME NEW c \in Crawls, NEW r \in Local, NEW q \in Local, NEW rows \in SUBSET Key,
           LocalOK(c, r, rows), q.pc = "rewrite", q.cands \in {r.cands, Reverse(r.cands)}
    PROVE  LocalOK(c, q, rows)
<1> DEFINE at(i) == IF q.cands = r.cands THEN i ELSE Len(r.cands) - i + 1
<1>1. /\ Len(q.cands) = Len(r.cands) /\ Len(r.cands) \in Nat
      /\ \A i \in 1..Len(q.cands) : at(i) \in 1..Len(r.cands) /\ q.cands[i] = r.cands[at(i)]
  BY ReverseCorrect DEF Local
<1>2. \A i, j \in 1..Len(q.cands) : i # j => at(i) # at(j)
  BY <1>1
<1> HIDE DEF at
<1>3. CandsOK(c, q)
  <2>1. \A n \in 1..Len(q.cands) : q.cands[n].crawl = c
    BY <1>1 DEF LocalOK, CandsOK
  <2>2. ASSUME NEW n \in 1..Len(q.cands), NEW m \in 1..Len(q.cands), n # m,
               q.cands[n].src = q.cands[m].src
        PROVE  q.cands[n].page # q.cands[m].page
    <3>1. /\ at(n) \in 1..Len(r.cands) /\ at(m) \in 1..Len(r.cands) /\ at(n) # at(m)
          /\ q.cands[n] = r.cands[at(n)] /\ q.cands[m] = r.cands[at(m)]
      BY <1>1, <1>2, <2>2
    <3> QED
      BY <2>2, <3>1 DEF LocalOK, CandsOK
  <2> QED
    BY <2>1, <2>2 DEF CandsOK
<1>4. UnseenOK(c, q, rows)
  BY <1>1 DEF LocalOK, UnseenOK
<1> QED
  BY <1>3, <1>4 DEF LocalOK, PageOK, ItemsOK

\* The next candidate, whether or not the one before it was registered.
LEMMA NextOK ==
    ASSUME NEW c \in Crawls, NEW r \in Local, NEW q \in Local, NEW rows \in SUBSET Key,
           LocalOK(c, r, rows), r.cands # <<>>, q.pc = "rewrite", q.cands = Tail(r.cands)
    PROVE  LocalOK(c, q, rows) /\ LocalOK(c, q, rows \cup {Head(r.cands)})
<1>1. /\ Head(r.cands) = r.cands[1] /\ 1 \in 1..Len(r.cands)
      /\ Len(q.cands) = Len(r.cands) - 1 /\ Len(r.cands) \in Nat
      /\ \A i \in 1..Len(q.cands) : q.cands[i] = r.cands[i + 1] /\ i + 1 \in 1..Len(r.cands) /\ i + 1 # 1
  BY TailCorrect DEF Local
<1>2. CandsOK(c, q)
  BY <1>1 DEF LocalOK, CandsOK
<1>3. UnseenOK(c, q, rows \cup {Head(r.cands)})
  BY <1>1 DEF LocalOK, CandsOK, UnseenOK
<1>4. UnseenOK(c, q, rows)
  BY <1>3 DEF UnseenOK
<1> QED
  BY <1>2, <1>3, <1>4 DEF LocalOK, PageOK, ItemsOK

-------------------------------------------------------------------------------
(* Pages and failures.                                                       *)

\* A crawl finds a source post on no more pages than it looks at.
LEMMA PagesOfCorrect ==
    ASSUME NEW r \in Local, NEW i \in Ids
    PROVE  /\ IsFiniteSet(PagesOf(r, i)) /\ Cardinality(PagesOf(r, i)) \in 0..Pages
           /\ r.cands = <<>> => PagesOf(r, i) = {}
<1>1. Pages \in Nat
  BY CrawlTargetAssumption
<1>2. PagesOf(r, i) \subseteq 1..Pages
  <2>1. \A n \in 1..Len(r.cands) : r.cands[n] \in Key
    BY DEF Local
  <2> QED
    BY <2>1 DEF PagesOf, Key
<1>3. IsFiniteSet(1..Pages) /\ Cardinality(1..Pages) = Pages
  BY <1>1, FS_Interval
<1>4. /\ IsFiniteSet(PagesOf(r, i)) /\ Cardinality(PagesOf(r, i)) <= Pages
  BY <1>2, <1>3, FS_Subset
<1>5. Cardinality(PagesOf(r, i)) \in Nat
  BY <1>4, FS_CardinalityType
<1>6. r.cands = <<>> => PagesOf(r, i) = {}
  BY DEF PagesOf
<1> QED
  BY <1>1, <1>4, <1>5, <1>6

\* Fewer candidates are from no more pages.
LEMMA PagesShrink ==
    ASSUME NEW r \in Local, NEW q \in Local, NEW i \in Ids,
           \A n \in 1..Len(q.cands) : \E m \in 1..Len(r.cands) : q.cands[n] = r.cands[m]
    PROVE  Cardinality(PagesOf(q, i)) <= Cardinality(PagesOf(r, i))
<1>1. PagesOf(q, i) \subseteq PagesOf(r, i)
  BY DEF PagesOf
<1> QED
  BY <1>1, PagesOfCorrect, FS_Subset

\* The candidate that was tried takes one page of its source post with it.
LEMMA PagesDrop ==
    ASSUME NEW c \in Crawls, NEW r \in Local, NEW q \in Local, CandsOK(c, r),
           r.cands # <<>>, q.cands = Tail(r.cands)
    PROVE  LET i == Head(r.cands).src IN
           Cardinality(PagesOf(q, i)) <= Cardinality(PagesOf(r, i)) - 1
<1> DEFINE i == Head(r.cands).src
           p == Head(r.cands).page
<1>1. /\ Head(r.cands) = r.cands[1] /\ 1 \in 1..Len(r.cands) /\ Head(r.cands) \in Key
      /\ \A n \in 1..Len(q.cands) : q.cands[n] = r.cands[n + 1] /\ n + 1 \in 1..Len(r.cands) /\ n + 1 # 1
  BY TailCorrect DEF Local
<1>2. i \in Ids
  BY <1>1 DEF Key
<1>3. p \in PagesOf(r, i)
  BY <1>1 DEF PagesOf
<1>4. PagesOf(q, i) \subseteq PagesOf(r, i) \ {p}
  <2> SUFFICES ASSUME NEW n \in 1..Len(q.cands), q.cands[n].src = i
               PROVE  q.cands[n].page \in PagesOf(r, i) \ {p}
    BY DEF PagesOf
  <2>1. r.cands[n + 1].page # p
    BY <1>1 DEF CandsOK
  <2> QED
    BY <1>1, <2>1 DEF PagesOf
<1>5. /\ IsFiniteSet(PagesOf(r, i) \ {p})
      /\ Cardinality(PagesOf(r, i) \ {p}) = Cardinality(PagesOf(r, i)) - 1
  <2>1. IsFiniteSet(PagesOf(r, i))
    BY <1>2, PagesOfCorrect
  <2> HIDE DEF p
  <2> QED
    BY <1>3, <2>1, FS_RemoveElement
<1> QED
  BY <1>4, <1>5, FS_Subset

-------------------------------------------------------------------------------
(* Steps of a crawl.                                                         *)

\* A crawl that goes on leaves the others as they are, and alone.
LEMMA BecomeCorrect ==
    ASSUME IInv, NEW c \in Crawls, NEW q \in Local, Become(c, q)
    PROVE  /\ crawl' \in [Crawls -> Local] /\ crawl'[c] = q /\ crawl[c] \in Local
           /\ \A d \in Crawls \ {c} : crawl'[d] = crawl[d]
           /\ Active(c) \/ (\A d \in Crawls : ~Active(d)) => Sole'
<1>1. crawl \in [Crawls -> Local]
  BY DEF IInv, FilesInv, CollectInv, TypeOK
<1>2. /\ crawl' \in [Crawls -> Local] /\ crawl'[c] = q /\ crawl[c] \in Local
      /\ \A d \in Crawls \ {c} : crawl'[d] = crawl[d]
  BY <1>1 DEF Become
<1>3. ASSUME Active(c) \/ \A d \in Crawls : ~Active(d) PROVE Sole'
  BY <1>2, <1>3 DEF IInv, FilesInv, CollectInv, Sole, Active
<1> QED
  BY <1>2, <1>3

\* FailuresInv after a step, from what it says of each crawl.
LEMMA FailuresPrimed ==
    ASSUME \A i \in Ids, d \in Crawls : FailuresOK(crawl'[d], i, failed'[i]), AttemptsBounded'
    PROVE  FailuresInv'
BY DEF FailuresInv, FailuresOK, PagesOf

\* whatever is not the local state of a crawl stays
Quiet == UNCHANGED <<newest, target, stored, admin, since, stale>>

\* A step of an active crawl that takes up no candidate and touches nothing else.
LEMMA QuietStep ==
    ASSUME IInv, Quiet, NEW c \in Crawls, Active(c), NEW q \in Local, Become(c, q),
           LocalOK(c, q, logs), q.pc \notin {"new", "done"},
           Looking(q) => Looking(crawl[c]),
           q.pc \in {"capture", "baseline"} => q.pc = crawl[c].pc,
           q.saved = crawl[c].saved, q.after = crawl[c].after, q.old = crawl[c].old,
           q.gallery = crawl[c].gallery,
           crawl[c].pc \in {"capture", "baseline"} => q.pc = crawl[c].pc,
           q.pc = "prepare" => /\ Head(q.items) \in Ids => failed[Head(q.items)] < MaxAttempts
                               /\ q.after # None => q.after < Head(q.items),
           \A n \in 1..Len(q.cands) : \E m \in 1..Len(crawl[c].cands) : q.cands[n] = crawl[c].cands[m]
    PROVE  IInv'
<1>1. /\ crawl' \in [Crawls -> Local] /\ crawl'[c] = q /\ crawl[c] \in Local
      /\ \A d \in Crawls \ {c} : crawl'[d] = crawl[d]
      /\ Sole'
  BY BecomeCorrect
<1>2. /\ board' = board /\ logs' = logs /\ images' = images /\ admin' = admin /\ failed' = failed
      /\ cleaning' = cleaning /\ touched' = touched
      /\ newest' = newest /\ target' = target /\ since' = since /\ stale' = stale
  BY DEF Quiet, stored
<1>3. TypeOK'
  BY <1>1, <1>2 DEF IInv, FilesInv, CollectInv, TypeOK
<1>4. \A d \in Crawls : LocalOK(d, crawl'[d], logs')
  BY <1>1, <1>2 DEF IInv, FilesInv, CollectInv
<1>5. CollectInv'
  BY <1>1, <1>2, <1>3, <1>4 DEF IInv, FilesInv, CollectInv, CollectedByOneCrawl
<1>6. \A d \in Crawls : Active(d) => Active(d)'
  BY <1>1 DEF Active
<1>7. AdminOK' /\ PostHasRow' /\ ImagesOfPosts'
  <2>1. \A k \in images : k \in Key
    BY DEF IInv, FilesInv, CollectInv, TypeOK
  <2> QED
    BY <1>2, <1>6, <2>1 DEF IInv, FilesInv, AdminOK, PostHasRow, ImagesOfPosts, Key
<1>8. \A d \in Crawls : FilesOK(d, crawl[d])
  BY DEF IInv, FilesInv
<1>9. FilesOK(c, q)
  BY <1>8 DEF FilesOK, Looking, Active
<1>10. (\A d \in Crawls : FilesOK(d, crawl[d]))'
  <2> SUFFICES ASSUME NEW d \in Crawls PROVE FilesOK(d, crawl[d])'
    OBVIOUS
  <2> QED
    BY <1>1, <1>2, <1>8, <1>9 DEF FilesOK, Uploads
<1>11. FailuresInv'
  <2>1. ASSUME NEW i \in Ids
        PROVE  FailuresOK(q, i, failed[i])
    <3>1. failed[i] \in Nat /\ MaxAttempts + Pages - 1 \in Int
      BY CrawlTargetAssumption DEF IInv, FilesInv, CollectInv, TypeOK
    <3>2. Cardinality(PagesOf(q, i)) <= Cardinality(PagesOf(crawl[c], i))
      BY <1>1, PagesShrink
    <3>3. Cardinality(PagesOf(q, i)) \in 0..Pages /\ Cardinality(PagesOf(crawl[c], i)) \in 0..Pages
      BY <1>1, PagesOfCorrect
    <3>4. failed[i] + Cardinality(PagesOf(crawl[c], i)) <= MaxAttempts + Pages - 1
      BY DEF IInv, FailuresInv, FailuresOK
    <3>5. failed[i] + Cardinality(PagesOf(q, i)) <= MaxAttempts + Pages - 1
      BY <3>1, <3>2, <3>3, <3>4, CrawlTargetAssumption
    <3> QED
      BY <3>5 DEF FailuresOK
  <2>2. ASSUME NEW i \in Ids, NEW d \in Crawls
        PROVE  FailuresOK(crawl'[d], i, failed'[i])
    BY <1>1, <1>2, <2>1 DEF IInv, FailuresInv
  <2> QED
    BY <1>2, <2>2, FailuresPrimed DEF IInv, FailuresInv, AttemptsBounded
<1>12. StartInv'
  BY <1>1, <1>2 DEF IInv, StartInv, ReadOK, Active, Uploads, Looking
<1> QED
  BY <1>5, <1>7, <1>10, <1>11, <1>12 DEF IInv, FilesInv

\* What QuietStep takes for granted of the crawl at work.
LEMMA LocalNow ==
    ASSUME IInv, NEW c \in Crawls
    PROVE  /\ crawl[c] \in Local /\ LocalOK(c, crawl[c], logs) /\ logs \in SUBSET Key
           /\ newest \in [Galleries -> Ids]
BY DEF IInv, FilesInv, CollectInv, TypeOK

(* The local states a step of a crawl makes.                                 *)

\* q goes on from r with what r was told at its start and what it has stored
Follows(q, r) ==
    /\ q.oldest = r.oldest /\ q.after = r.after /\ q.gallery = r.gallery
    /\ q.saved = r.saved /\ q.old = r.old

\* Another step of the code, and nothing else.
LEMMA MovePc ==
    ASSUME NEW r \in Local, NEW pc \in {"check", "prepare", "answered", "store", "cleanup"},
           NEW q, q = [r EXCEPT !.pc = pc]
    PROVE  /\ q \in Local /\ Follows(q, r)
           /\ q.pc = pc /\ q.items = r.items /\ q.cands = r.cands /\ q.page = r.page
BY DEF Local, Follows

\* A stop, and nothing else.
LEMMA MoveAborted ==
    ASSUME NEW r \in Local, NEW q, q = [r EXCEPT !.aborted = TRUE]
    PROVE  /\ q \in Local /\ Follows(q, r)
           /\ q.pc = r.pc /\ q.items = r.items /\ q.cands = r.cands /\ q.page = r.page
BY DEF Local, Follows

\* A switch of the target, and nothing else.
LEMMA MoveOld ==
    ASSUME NEW r \in Local, NEW switched \in BOOLEAN, NEW q, q = [r EXCEPT !.old = @ \/ switched]
    PROVE  /\ q \in Local /\ q.old = (r.old \/ switched)
           /\ q.oldest = r.oldest /\ q.after = r.after /\ q.gallery = r.gallery /\ q.saved = r.saved
           /\ q.pc = r.pc /\ q.items = r.items /\ q.cands = r.cands /\ q.page = r.page
BY DEF Local

\* A crawl goes to another step with all it has.
LEMMA GotoStep ==
    ASSUME IInv, Quiet, NEW c \in Crawls, NEW pc \in {"answered", "store", "cleanup"}, Goto(c, pc),
           crawl[c].pc \in {"list", "rewrite", "answered", "store"}, pc = "cleanup" \/ crawl[c].cands # <<>>
    PROVE  IInv'
<1> DEFINE q == [crawl[c] EXCEPT !.pc = pc]
<1>1. /\ q \in Local /\ Follows(q, crawl[c]) /\ q.pc = pc
      /\ q.items = crawl[c].items /\ q.cands = crawl[c].cands /\ q.page = crawl[c].page
  BY LocalNow, MovePc
<1>2. Become(c, q)
  BY DEF Goto
<1> HIDE DEF q
<1>3. LocalOK(c, q, logs)
  BY <1>1, LocalNow, SameOK DEF Follows
<1> QED
  BY <1>1, <1>2, <1>3, QuietStep DEF Active, Looking, Follows

\* The next page, or the end of the listing.
LEMMA FetchPageStep ==
    ASSUME IInv, NEW c \in Crawls, FetchPage(c)
    PROVE  IInv'
<1> DEFINE r == crawl[c]
<1>1. r.pc = "list" /\ Quiet
  BY DEF FetchPage, At, Quiet
<1>2. /\ r \in Local /\ LocalOK(c, r, logs) /\ logs \in SUBSET Key
      /\ newest \in [Galleries -> Ids] /\ r.gallery \in Galleries
  BY <1>1, LocalNow DEF IInv, StartInv
<1>3. CASE Become(c, [r EXCEPT !.pc = "rewrite", !.cands = ExecutionQueue(c), !.items = <<>>])
  <2> DEFINE q == [r EXCEPT !.pc = "rewrite", !.cands = ExecutionQueue(c), !.items = <<>>]
  <2>1. ExecutionQueue(c) \in {r.cands, Reverse(r.cands)} /\ r.cands \in Seq(Key)
    BY <1>2 DEF ExecutionQueue, Local
  <2>2. /\ Len(ExecutionQueue(c)) = Len(r.cands) /\ ExecutionQueue(c) \in Seq(Key)
        /\ \A n \in 1..Len(ExecutionQueue(c)) : \E m \in 1..Len(r.cands) : ExecutionQueue(c)[n] = r.cands[m]
    <3>1. CASE ExecutionQueue(c) = r.cands
      BY <2>1, <3>1
    <3>2. CASE ExecutionQueue(c) = Reverse(r.cands)
      <4> HIDE DEF r
      <4>1. /\ Reverse(r.cands) \in Seq(Key) /\ Len(Reverse(r.cands)) = Len(r.cands)
            /\ \A n \in 1..Len(r.cands) : \E m \in 1..Len(r.cands) : Reverse(r.cands)[n] = r.cands[m]
        BY <2>1, ReverseCorrect
      <4> QED
        BY <3>2, <4>1
    <3> QED
      BY <2>1, <3>1, <3>2
  <2>3. q \in Local /\ Follows(q, r) /\ q.pc = "rewrite" /\ q.cands = ExecutionQueue(c)
    <3> DEFINE queue == ExecutionQueue(c)
    <3>1. queue \in Seq(Key) /\ <<>> \in Seq(Ids)
      BY <2>2
    <3> HIDE DEF queue, r
    <3>2. r \in Local
      BY <1>2
    <3>3. LET x == [r EXCEPT !.pc = "rewrite", !.cands = queue, !.items = <<>>]
          IN  x \in Local /\ Follows(x, r) /\ x.pc = "rewrite" /\ x.cands = queue
      BY <3>1, <3>2 DEF Local, Follows
    <3> QED
      BY <3>3 DEF queue
  <2> HIDE DEF q
  <2>4. LocalOK(c, q, logs)
    BY <1>2, <2>1, <2>3, QueueOK
  <2>5. Become(c, q)
    BY <1>3 DEF q
  <2> QED
    BY <1>1, <2>2, <2>3, <2>4, <2>5, QuietStep DEF Active, Looking, Follows
<1>4. ASSUME r.page \in 1..Pages,
             NEW items \in {InOrder(c, Listed(r.gallery, r.page)), <<>>},
             Become(c, [r EXCEPT !.pc = "check", !.items = items])
      PROVE  IInv'
  <2> DEFINE q == [r EXCEPT !.pc = "check", !.items = items]
             list == Listed(r.gallery, r.page)
  <2>1. list \in Seq(Ids) /\ \A i, j \in 1..Len(list) : i # j => list[i] # list[j]
    BY <1>2, <1>4, ListedCorrect
  <2>2. items \in {list, Reverse(list), <<>>}
    BY <1>4 DEF InOrder
  <2> HIDE DEF list
  <2>3. items \in Seq(Ids) /\ \A i, j \in 1..Len(items) : i # j => items[i] # items[j]
    <3>1. CASE items = Reverse(list)
      BY <2>1, <3>1, ReverseCorrect
    <3>2. CASE items = list
      BY <2>1, <3>2
    <3>3. CASE items = <<>>
      BY <3>3
    <3> QED
      BY <2>2, <3>1, <3>2, <3>3
  <2>4. /\ q \in Local /\ Follows(q, r)
        /\ q.pc = "check" /\ q.items = items /\ q.cands = r.cands /\ q.page = r.page
    <3> HIDE DEF r
    <3>1. r \in Local
      BY <1>2
    <3> QED
      BY <2>3, <3>1 DEF Local, Follows
  <2>5. Become(c, q)
    BY <1>4
  <2> HIDE DEF q
  <2>6. LocalOK(c, q, logs)
    BY <1>1, <1>2, <1>4, <2>3, <2>4, CheckOK DEF Follows
  <2> QED
    BY <1>1, <2>4, <2>5, <2>6, QuietStep DEF Active, Looking, Follows
<1>5. CASE Goto(c, "cleanup")
  BY <1>1, <1>5, GotoStep
<1> QED
  BY <1>3, <1>4, <1>5 DEF FetchPage

\* The list is fetched again from a page no candidate is from.
LEMMA TurnStep ==
    ASSUME IInv, Quiet, NEW c \in Crawls, crawl[c].pc = "check", NEW p \in 0..(Pages + 1), TurnTo(c, p),
           crawl[c].oldest => p < crawl[c].page, ~crawl[c].oldest => crawl[c].page < p
    PROVE  IInv'
<1> DEFINE r == crawl[c]
           q == [r EXCEPT !.pc = "list", !.page = p, !.items = <<>>]
<1>1. r \in Local /\ LocalOK(c, r, logs) /\ logs \in SUBSET Key
  BY LocalNow
<1>2. q \in Local /\ Follows(q, r) /\ q.pc = "list" /\ q.cands = r.cands /\ q.page = p
  <2> HIDE DEF r
  <2>1. r \in Local /\ <<>> \in Seq(Ids)
    BY <1>1
  <2> QED
    BY <2>1 DEF Local, Follows
<1>3. Become(c, q)
  BY DEF TurnTo
<1> HIDE DEF q
<1>4. LocalOK(c, q, logs)
  BY <1>1, <1>2, TurnOK DEF Follows
<1> QED
  BY <1>2, <1>3, <1>4, QuietStep DEF Active, Looking, Follows

\* The next entry of the page.
LEMMA CheckItemStep ==
    ASSUME IInv, NEW c \in Crawls, CheckItem(c)
    PROVE  IInv'
<1> DEFINE r == crawl[c]
<1>1. r.pc = "check" /\ Quiet
  BY DEF CheckItem, At, Quiet
<1>2. r \in Local /\ LocalOK(c, r, logs) /\ logs \in SUBSET Key
  BY LocalNow
<1>3. r.page \in 1..Pages /\ Pages \in Nat
  BY <1>1, <1>2, CrawlTargetAssumption DEF LocalOK, ItemsOK
<1>4. CASE TurnTo(c, NextPage(c))
  BY <1>1, <1>3, <1>4, TurnStep DEF NextPage
<1>5. CASE ~r.oldest /\ TurnTo(c, Pages + 1)
  BY <1>1, <1>3, <1>5, TurnStep
<1>6. CASE r.items # <<>> /\ Become(c, [r EXCEPT !.items = Tail(r.items)])
  <2> DEFINE q == [r EXCEPT !.items = Tail(r.items)]
  <2>1. Tail(r.items) \in Seq(Ids)
    BY <1>2, <1>6, TailCorrect DEF Local
  <2>2. /\ q \in Local /\ Follows(q, r)
        /\ q.pc = r.pc /\ q.items = Tail(r.items) /\ q.cands = r.cands /\ q.page = r.page
    <3> DEFINE rest == Tail(r.items)
    <3>1. rest \in Seq(Ids)
      BY <2>1
    <3> HIDE DEF rest, r
    <3>2. r \in Local
      BY <1>2
    <3>3. LET x == [r EXCEPT !.items = rest]
          IN  /\ x \in Local /\ Follows(x, r)
              /\ x.pc = r.pc /\ x.items = rest /\ x.cands = r.cands /\ x.page = r.page
      BY <3>1, <3>2 DEF Local, Follows
    <3> QED
      BY <3>3 DEF rest
  <2>3. Become(c, q)
    BY <1>6
  <2> HIDE DEF q
  <2>4. LocalOK(c, q, logs)
    BY <1>1, <1>2, <1>6, <2>2, SkipOK DEF Follows
  <2> QED
    BY <1>1, <2>2, <2>3, <2>4, QuietStep DEF Active, Looking, Follows
<1>7. CASE r.items # <<>> /\ Collectable(Head(r.items)) /\ ~Before(c) /\ Goto(c, "prepare")
  <2> DEFINE q == [r EXCEPT !.pc = "prepare"]
  <2>1. /\ q \in Local /\ Follows(q, r)
        /\ q.pc = "prepare" /\ q.items = r.items /\ q.cands = r.cands /\ q.page = r.page
    BY <1>2, MovePc
  <2>2. Become(c, q)
    BY <1>7 DEF Goto
  <2> HIDE DEF q
  <2>3. LocalOK(c, q, logs)
    BY <1>1, <1>2, <1>7, <2>1, PrepareOK DEF Collectable, Follows
  <2> QED
    <3>1. failed[Head(q.items)] < MaxAttempts
      BY <1>7, <2>1 DEF Collectable
    <3>2. q.after # None => q.after < Head(q.items)
      <4>1. r.items \in Seq(Ids) /\ Head(r.items) \in Ids /\ r.after \in Ids \cup {None}
        BY <1>2, <1>7, TailCorrect DEF Local
      <4>2. ~(r.after # None /\ Head(r.items) <= r.after)
        BY <1>7 DEF Before
      <4> HIDE DEF r
      <4> QED
        BY <2>1, <4>1, <4>2 DEF Follows, Ids
    <3> QED
      BY <1>1, <2>1, <2>2, <2>3, <3>1, <3>2, QuietStep DEF Active, Looking, Follows
<1> QED
  BY <1>2, <1>4, <1>5, <1>6, <1>7 DEF CheckItem

\* A stop reaches the crawl.
LEMMA AbortStep ==
    ASSUME IInv, NEW c \in Crawls, Abort(c)
    PROVE  IInv'
<1> DEFINE r == crawl[c]
           q == [r EXCEPT !.aborted = TRUE]
<1>1. r \in Local /\ LocalOK(c, r, logs) /\ logs \in SUBSET Key
  BY LocalNow
<1>2. /\ q \in Local /\ Follows(q, r)
      /\ q.pc = r.pc /\ q.items = r.items /\ q.cands = r.cands /\ q.page = r.page
  BY <1>1, MoveAborted
<1>3. Become(c, q) /\ Quiet /\ Active(c)
  BY DEF Abort, Quiet
<1> HIDE DEF q
<1>4. LocalOK(c, q, logs)
  BY <1>1, <1>2, SameOK DEF Follows
<1>5. q.pc = "prepare" => /\ Head(q.items) \in Ids => failed[Head(q.items)] < MaxAttempts
                          /\ q.after # None => q.after < Head(q.items)
  BY <1>2 DEF Follows, IInv, FailuresInv, FailuresOK, StartInv
<1> QED
  BY <1>2, <1>3, <1>4, <1>5, QuietStep DEF Active, Looking, Follows

\* A crawl that begins or ends has no candidates.
LEMMA EmptyStep ==
    ASSUME IInv, NEW c \in Crawls, NEW q \in Local, Become(c, q),
           Active(c) \/ \A d \in Crawls : ~Active(d),
           q.cands = <<>>, q.pc \notin {"check", "prepare", "answered", "store"},
           UNCHANGED <<newest, board, logs, failed, cleaning, touched, admin, since>>,
           images' \in SUBSET images, stale' \in BOOLEAN, target' \in TargetRow,
           \A k \in images \ images' : k.crawl = c,
           FilesOK(c, crawl[c])', ImagesOfPosts', StartInv'
    PROVE  IInv'
<1>1. /\ crawl' \in [Crawls -> Local] /\ crawl'[c] = q /\ crawl[c] \in Local
      /\ \A d \in Crawls \ {c} : crawl'[d] = crawl[d]
      /\ Sole'
  BY BecomeCorrect
<1>2. /\ board' = board /\ logs' = logs /\ admin' = admin /\ failed' = failed
      /\ cleaning' = cleaning /\ touched' = touched
      /\ newest' = newest /\ since' = since
  OBVIOUS
<1>3. TypeOK'
  BY <1>1, <1>2 DEF IInv, FilesInv, CollectInv, TypeOK
<1>4. logs \in SUBSET Key
  BY LocalNow
<1>5. \A d \in Crawls : LocalOK(d, crawl'[d], logs')
  BY <1>1, <1>2, <1>4, EmptyOK DEF IInv, FilesInv, CollectInv
<1>6. CollectInv'
  BY <1>1, <1>2, <1>3, <1>5 DEF IInv, FilesInv, CollectInv, CollectedByOneCrawl
<1>7. AdminOK' /\ PostHasRow'
  BY <1>2 DEF IInv, FilesInv, AdminOK, PostHasRow
<1>8. ASSUME NEW d \in Crawls \ {c} PROVE FilesOK(d, crawl[d])'
  <2>1. FilesOK(d, crawl[d]) /\ LocalOK(d, crawl[d], logs)
    BY LocalNow DEF IInv, FilesInv
  <2>2. Uploads(d)' = Uploads(d)
    BY DEF Uploads
  <2>3. \A n \in 1..Len(crawl[d].cands) : crawl[d].cands[n].crawl = d
    BY <2>1 DEF LocalOK, CandsOK
  <2>4. \A n \in 1..Len(crawl[d].cands) : crawl[d].cands[n] \in images'
    BY <2>1, <2>3 DEF FilesOK
  <2> QED
    BY <1>1, <1>2, <2>1, <2>2, <2>4 DEF FilesOK
<1>9. FailuresInv'
  <2>1. ASSUME NEW i \in Ids
        PROVE  FailuresOK(q, i, failed[i])
    <3>1. Cardinality(PagesOf(q, i)) = 0
      <4>1. PagesOf(q, i) = {}
        BY DEF PagesOf
      <4> QED
        BY <4>1, FS_EmptySet
    <3>2. failed[i] \in Nat /\ failed[i] <= MaxAttempts + Pages - 1
      BY DEF IInv, FilesInv, CollectInv, TypeOK, FailuresInv, AttemptsBounded
    <3> QED
      BY <3>1, <3>2 DEF FailuresOK
  <2>2. ASSUME NEW i \in Ids, NEW d \in Crawls
        PROVE  FailuresOK(crawl'[d], i, failed'[i])
    BY <1>1, <1>2, <2>1 DEF IInv, FailuresInv
  <2> QED
    BY <1>2, <2>2, FailuresPrimed DEF IInv, FailuresInv, AttemptsBounded
<1> QED
  BY <1>6, <1>7, <1>8, <1>9 DEF IInv, FilesInv

\* The records a crawl begins and ends with.
LEMMA BareCorrect ==
    ASSUME NEW pc \in {"new", "capture", "baseline", "list", "done"}, NEW oldest \in BOOLEAN,
           NEW page \in 0..(Pages + 1), NEW after \in Ids \cup {None},
           NEW gallery \in Galleries \cup {None}, NEW old \in BOOLEAN
    PROVE  LET q == Bare(pc, oldest, page, after, gallery, old) IN
           /\ q \in Local /\ q.pc = pc /\ q.cands = <<>> /\ q.saved = {}
           /\ q.after = after /\ q.gallery = gallery /\ q.old = old
<1>1. <<>> \in Seq(Ids) /\ <<>> \in Seq(Key)
  OBVIOUS
<1> QED
  BY <1>1 DEF Bare, Local

\* The records of a crawl that has found nothing.
LEMMA UnusedCorrect ==
    ASSUME NEW pc \in {"new", "capture", "list", "done"}
    PROVE  /\ Unused(pc) \in Local /\ Unused(pc).pc = pc
           /\ Unused(pc).cands = <<>> /\ Unused(pc).saved = {} /\ Unused(pc).after = None
<1>1. 0 \in 0..(Pages + 1) /\ <<>> \in Seq(Ids) /\ <<>> \in Seq(Key)
  BY CrawlTargetAssumption
<1> QED
  BY <1>1 DEF Unused, Bare, Local

\* A crawl starts when none is at work.
LEMMA StartStep ==
    ASSUME IInv, NEW c \in Crawls, NEW manual \in BOOLEAN, NEW oldest \in BOOLEAN, Start(c, manual, oldest)
    PROVE  IInv'
<1> DEFINE after == IF target.onlyNew THEN target.baseline ELSE None
           page == IF oldest THEN Pages ELSE 1
<1>1. /\ crawl[c].pc = "new" /\ \A d \in Crawls : ~Active(d)
      /\ UNCHANGED <<newest, target, board, logs, failed, images, cleaning, touched, admin, since, stale>>
  BY DEF Start, At, stored
<1>2. /\ after \in Ids \cup {None} /\ (after # None => target.baseline # None /\ after = target.baseline)
      /\ target.gallery \in Galleries /\ stale \in BOOLEAN
  BY DEF IInv, FilesInv, CollectInv, TypeOK, TargetRow
<1>3. page \in 0..(Pages + 1)
  BY CrawlTargetAssumption
<1>4. PICK q \in Local : /\ Become(c, q) /\ q.pc \in {"done", "capture", "list"}
                         /\ q.cands = <<>> /\ q.saved = {}
                         /\ q.pc = "capture" => q.after = None
                         /\ q.pc = "list" => q.after = after /\ q.gallery = target.gallery /\ q.old = stale
  <2>1. CASE End(c)
    BY <2>1, UnusedCorrect DEF End
  <2>2. CASE Become(c, Unused("capture"))
    BY <2>2, UnusedCorrect
  <2>3. CASE Become(c, Bare("list", oldest, page, after, target.gallery, stale))
    <3> HIDE DEF after, page
    <3> DEFINE q == Bare("list", oldest, page, after, target.gallery, stale)
    <3>1. /\ q \in Local /\ q.pc = "list" /\ q.cands = <<>> /\ q.saved = {}
          /\ q.after = after /\ q.gallery = target.gallery /\ q.old = stale
      BY <1>2, <1>3, BareCorrect
    <3> HIDE DEF q
    <3> QED
      BY <2>3, <3>1 DEF q
  <2> QED
    BY <2>1, <2>2, <2>3 DEF Start
<1> HIDE DEF after
<1>5. /\ crawl'[c] = q /\ \A d \in Crawls \ {c} : crawl'[d] = crawl[d]
  BY <1>4, BecomeCorrect
<1>6. FilesOK(c, crawl[c]) /\ Uploads(c) = {}
  BY <1>1 DEF IInv, FilesInv, FilesOK
<1>7. FilesOK(c, crawl[c])'
  BY <1>1, <1>4, <1>5, <1>6 DEF FilesOK, Uploads, Looking
<1>8. ImagesOfPosts'
  <2>1. \A k \in images : k.crawl \in Crawls
    BY DEF IInv, FilesInv, CollectInv, TypeOK, Key
  <2> QED
    BY <1>1, <2>1 DEF IInv, FilesInv, ImagesOfPosts
<1>9. StartInv'
  <2>1. \A d \in Crawls : Active(d)' => d = c
    BY <1>1, <1>5 DEF Active
  <2>2. Uploads(c)' = {}
    BY <1>1, <1>6 DEF Uploads
  <2> QED
    BY <1>1, <1>2, <1>4, <1>5, <2>1, <2>2 DEF IInv, StartInv, ReadOK, Active
<1> QED
  BY <1>1, <1>4, <1>7, <1>8, <1>9, EmptyStep DEF IInv, FilesInv, CollectInv, TypeOK

\* The end of an active crawl that keeps the images of what it registered.
LEMMA EndStep ==
    ASSUME IInv, NEW c \in Crawls, Active(c), End(c),
           UNCHANGED <<newest, board, logs, failed, cleaning, touched, admin, since>>,
           images' = images \ Unsaved(c), stale' \in BOOLEAN,
           target' \in TargetRow, target'.gallery = target.gallery,
           (target'.baseline # None /\ ~stale') => since <= target'.baseline
    PROVE  IInv'
<1> DEFINE q == Unused("done")
<1>1. q \in Local /\ q.pc = "done" /\ q.cands = <<>> /\ q.saved = {} /\ Become(c, q)
  BY UnusedCorrect DEF End
<1> HIDE DEF q
<1>2. crawl'[c] = q /\ \A d \in Crawls \ {c} : crawl'[d] = crawl[d]
  BY <1>1, BecomeCorrect
<1>3. /\ images' \subseteq images /\ images \in SUBSET Key /\ logs \in SUBSET Key /\ crawl[c] \in Local
      /\ \A k \in images \ images' : k.crawl = c /\ k \notin crawl[c].saved
      /\ \A k \in images' : k.crawl = c => k \in crawl[c].saved
  BY LocalNow DEF Unsaved, Uploads, IInv, FilesInv, CollectInv, TypeOK
<1>4. FilesOK(c, crawl[c]) /\ images \cap crawl[c].saved \subseteq board \cup cleaning
  BY DEF IInv, FilesInv, FilesOK
<1>5. FilesOK(c, crawl[c])'
  BY <1>1, <1>2 DEF FilesOK, Looking
<1>6. ImagesOfPosts'
  <2>1. \A k \in images' : k \in board \cup cleaning \/ (k.crawl \in Crawls \ {c} /\ Active(k.crawl))
    BY <1>3, <1>4 DEF IInv, FilesInv, ImagesOfPosts, Key
  <2>2. \A k \in images' : k \in (board \cup cleaning)' \/ Active(k.crawl)'
    BY <1>2, <2>1 DEF Active
  <2>3. board \subseteq images' \cup touched
    <3> SUFFICES ASSUME NEW k \in board, k \notin touched PROVE k \in images'
      OBVIOUS
    <3>1. k \in images /\ k \in logs
      BY DEF IInv, FilesInv, ImagesOfPosts, PostHasRow
    <3>2. k.crawl = c => k \in crawl[c].saved
      BY <1>4, <3>1 DEF FilesOK, Active
    <3> QED
      BY <1>3, <3>1, <3>2
  <2> QED
    BY <2>2, <2>3 DEF ImagesOfPosts
<1>7. StartInv'
  <2>1. ~Active(c)' /\ \A d \in Crawls \ {c} : Uploads(d)' \subseteq Uploads(d)
    BY <1>1, <1>2, <1>3 DEF Active, Uploads
  <2> QED
    BY <1>1, <1>2, <2>1 DEF IInv, StartInv, ReadOK, Active
<1> QED
  BY <1>1, <1>3, <1>5, <1>6, <1>7, EmptyStep

\* Crawls that end before they have uploaded anything.
LEMMA NoUploads ==
    ASSUME IInv, NEW c \in Crawls, crawl[c].pc \in {"new", "capture", "baseline"}
    PROVE  Uploads(c) = {} /\ Unsaved(c) = {}
BY DEF IInv, FilesInv, FilesOK, Unsaved

\* A number on the list is a post of the gallery.
LEMMA HighestCorrect ==
    ASSUME NEW g \in Galleries, newest \in [Galleries -> Ids], NEW value \in Ids,
           NEW highest \in value..newest[g], since \in Ids
    PROVE  /\ highest \in Ids /\ highest # None
           /\ since <= value => since <= highest
<1>1. newest[g] \in Ids /\ MaxId \in Nat /\ None \notin Ids
  BY CrawlTargetAssumption DEF Ids
<1> QED
  BY <1>1 DEF Ids

\* A crawl reads the row for its baseline ...
LEMMA ReadNewestStep ==
    ASSUME IInv, NEW c \in Crawls, ReadNewest(c)
    PROVE  IInv'
<1> DEFINE r == crawl[c]
           g == target.gallery
           q == Bare("baseline", FALSE, 0, newest[g], g, FALSE)
<1>1. /\ r.pc = "capture" /\ Active(c) /\ Become(c, q)
      /\ UNCHANGED <<newest, target, board, logs, failed, images, cleaning, touched, admin, since, stale>>
  BY DEF ReadNewest, At, Active, stored
<1>2. /\ TypeOK /\ StartInv /\ r \in Local /\ FilesOK(c, r)
  BY LocalNow DEF IInv, FilesInv, CollectInv
<1>3. g \in Galleries /\ newest[g] \in Ids /\ 0 \in 0..(Pages + 1) /\ since <= newest[g]
  BY <1>2, CrawlTargetAssumption DEF TypeOK, TargetRow, StartInv
<1> HIDE DEF g
<1>4. /\ q \in Local /\ q.pc = "baseline" /\ q.cands = <<>> /\ q.saved = {}
      /\ q.after = newest[g] /\ q.gallery = g /\ q.old = FALSE
  <2>1. <<>> \in Seq(Ids) /\ <<>> \in Seq(Key)
    OBVIOUS
  <2> QED
    BY <1>3, <2>1 DEF Bare, Local
<1> HIDE DEF q
<1>5. crawl'[c] = q /\ \A d \in Crawls \ {c} : crawl'[d] = crawl[d]
  BY <1>1, <1>4, BecomeCorrect
<1>6. Uploads(c) = {} /\ Uploads(c)' = {}
  <2>1. Uploads(c) = {}
    BY <1>1, NoUploads
  <2> QED
    BY <1>1, <2>1 DEF Uploads
<1>7. FilesOK(c, crawl[c])'
  BY <1>1, <1>2, <1>4, <1>5, <1>6 DEF FilesOK, Looking
<1>8. ImagesOfPosts'
  <2>1. \A d \in Crawls : Active(d) => Active(d)'
    BY <1>4, <1>5 DEF Active
  <2>2. \A k \in images : k.crawl \in Crawls
    BY <1>2 DEF TypeOK, Key
  <2> QED
    BY <1>1, <2>1, <2>2 DEF IInv, FilesInv, ImagesOfPosts
<1>9. StartInv'
  <2>1. \A d \in Crawls \ {c} : Uploads(d)' = Uploads(d)
    BY <1>1 DEF Uploads
  <2> QED
    BY <1>1, <1>2, <1>3, <1>4, <1>5, <1>6, <2>1 DEF StartInv, ReadOK, Active
<1> QED
  BY <1>1, <1>2, <1>4, <1>7, <1>8, <1>9, EmptyStep DEF TypeOK

\* ... and writes it.
LEMMA WriteBaselineStep ==
    ASSUME IInv, NEW c \in Crawls, WriteBaseline(c)
    PROVE  IInv'
<1>1. /\ crawl[c].pc = "baseline" /\ Active(c) /\ End(c)
      /\ UNCHANGED <<newest, board, logs, failed, images, cleaning, touched, admin, since>>
  BY DEF WriteBaseline, At, Active, stored
<1>2. TypeOK /\ StartInv /\ crawl[c] \in Local /\ Unsaved(c) = {}
  BY <1>1, LocalNow, NoUploads DEF IInv, FilesInv, CollectInv
<1>3. /\ crawl[c].after \in Ids /\ crawl[c].gallery \in Galleries /\ crawl[c].old \in BOOLEAN
      /\ ~crawl[c].old => since <= crawl[c].after
  BY <1>1, <1>2 DEF StartInv, ReadOK, Local
<1>4. CASE UNCHANGED <<target, stale>>
  BY <1>1, <1>2, <1>4, EndStep DEF TypeOK, StartInv
<1>5. ASSUME NEW highest \in crawl[c].after..newest[crawl[c].gallery],
             target' = [target EXCEPT !.baseline = highest], stale' = crawl[c].old
      PROVE  IInv'
  <2>1. highest \in Ids /\ highest # None /\ (since <= crawl[c].after => since <= highest)
    <3>1. newest \in [Galleries -> Ids] /\ since \in Ids
      BY <1>2 DEF TypeOK
    <3> QED
      BY <1>3, <1>5, <3>1, HighestCorrect
  <2>2. target' \in TargetRow /\ target'.gallery = target.gallery /\ target'.baseline = highest
    BY <1>2, <1>5, <2>1 DEF TypeOK, TargetRow
  <2>3. images' = images \ Unsaved(c)
    BY <1>1, <1>2
  <2>4. target'.baseline # None /\ ~stale' => since <= target'.baseline
    BY <1>3, <1>5, <2>1, <2>2
  <2>5. stale' \in BOOLEAN
    BY <1>3, <1>5
  <2> QED
    BY <1>1, <2>2, <2>3, <2>4, <2>5, EndStep
<1> QED
  BY <1>4, <1>5 DEF WriteBaseline

\* The end of a crawl, by the finally or with its process.
LEMMA CleanupStep ==
    ASSUME IInv, NEW c \in Crawls, Cleanup(c) \/ Die(c)
    PROVE  IInv'
<1>1. /\ Active(c) /\ End(c) /\ images' = images \ Unsaved(c)
      /\ UNCHANGED <<newest, target, board, logs, failed, cleaning, touched, admin, since, stale>>
  BY DEF Cleanup, Die, At, Active
<1>2. TypeOK /\ StartInv
  BY DEF IInv, FilesInv, CollectInv
<1> QED
  BY <1>1, <1>2, EndStep DEF TypeOK, StartInv

-------------------------------------------------------------------------------
(* Candidates: found, registered, failed.                                    *)

\* An entry becomes a candidate, or is passed over.
LEMMA PrepareItemStep ==
    ASSUME IInv, NEW c \in Crawls, PrepareItem(c)
    PROVE  IInv'
<1> DEFINE r == crawl[c]
           k == [crawl |-> c, src |-> Head(r.items), page |-> r.page]
           left == Tail(r.items)
           rest == [r EXCEPT !.pc = "check", !.items = left]
           more == Append(r.cands, k)
<1>1. /\ r.pc = "prepare" /\ Active(c)
      /\ UNCHANGED <<newest, target, board, logs, failed, cleaning, touched, admin, since, stale>>
  BY DEF PrepareItem, At, Active
<1>2. /\ r \in Local /\ LocalOK(c, r, logs) /\ logs \in SUBSET Key
      /\ TypeOK /\ FilesOK(c, r)
  BY LocalNow DEF IInv, FilesInv, CollectInv
<1>3. r.items # <<>> /\ r.page \in 1..Pages /\ r.items \in Seq(Ids) /\ r.cands \in Seq(Key)
  BY <1>1, <1>2 DEF LocalOK, ItemsOK, Local
<1>4. left \in Seq(Ids) /\ Head(r.items) \in Ids
  BY <1>3, TailCorrect
<1>5. k \in Key /\ more \in Seq(Key)
  BY <1>3, <1>4 DEF Key
<1>6. CASE Become(c, rest) /\ UNCHANGED images
  <2>1. /\ rest \in Local /\ Follows(rest, r)
        /\ rest.pc = "check" /\ rest.items = left /\ rest.cands = r.cands /\ rest.page = r.page
    <3> HIDE DEF r, left
    <3> QED
      BY <1>2, <1>4 DEF Local, Follows
  <2>2. LocalOK(c, rest, logs)
    <3> HIDE DEF rest
    <3> QED
      BY <1>1, <1>2, <1>3, <2>1, SkipOK DEF Follows
  <2> HIDE DEF rest
  <2> QED
    BY <1>1, <1>6, <2>1, <2>2, QuietStep DEF Active, Looking, Follows, Quiet, stored
<1>7. CASE Become(c, [rest EXCEPT !.cands = more]) /\ images' = images \cup {k}
  <2> DEFINE q == [rest EXCEPT !.cands = more]
  <2>1. /\ q \in Local /\ Follows(q, r)
        /\ q.pc = "check" /\ q.items = left /\ q.cands = more /\ q.page = r.page
    <3> HIDE DEF r, left, more
    <3> QED
      BY <1>2, <1>4, <1>5 DEF Local, Follows
  <2>2. Become(c, q)
    BY <1>7
  <2> HIDE DEF q
  <2>3. LocalOK(c, q, logs)
    BY <1>1, <1>2, <1>5, <2>1, AppendOK DEF Follows
  <2>4. /\ crawl' \in [Crawls -> Local] /\ crawl'[c] = q /\ \A d \in Crawls \ {c} : crawl'[d] = crawl[d]
        /\ Sole'
    BY <1>1, <2>1, <2>2, BecomeCorrect
  <2>5. CollectInv'
    BY <1>1, <1>2, <1>5, <1>7, <2>3, <2>4 DEF IInv, FilesInv, CollectInv, TypeOK, CollectedByOneCrawl
  <2>6. k \notin logs \cup touched /\ k.crawl = c
    BY <1>1, <1>2 DEF FilesOK, Looking
  <2>7. AdminOK' /\ PostHasRow'
    BY <1>1, <1>7, <2>6 DEF IInv, FilesInv, AdminOK, PostHasRow
  <2>8. \A d \in Crawls : Active(d) => Active(d)'
    BY <2>1, <2>4 DEF Active
  <2>9. ImagesOfPosts'
    <3>1. \A x \in images' : x.crawl \in Crawls
      BY <1>2, <1>5, <1>7 DEF TypeOK, Key
    <3> QED
      BY <1>1, <1>7, <2>6, <2>8, <3>1 DEF IInv, FilesInv, ImagesOfPosts
  <2>10. FilesOK(c, crawl[c])'
    <3>1. \A n \in 1..Len(more) : more[n] = k \/ (n \in 1..Len(r.cands) /\ more[n] = r.cands[n])
      BY <1>3
    <3> QED
      BY <1>1, <1>2, <1>7, <2>1, <2>4, <2>6, <3>1 DEF FilesOK, Looking, Follows
  <2>11. ASSUME NEW d \in Crawls \ {c} PROVE FilesOK(d, crawl[d])'
    <3>1. FilesOK(d, crawl[d]) /\ d # c
      BY DEF IInv, FilesInv
    <3>2. Uploads(d)' = Uploads(d)
      BY <1>7, <2>6 DEF Uploads
    <3>3. (crawl[d].saved \cap images)' \subseteq board \cup cleaning
      <4>1. ~Active(d) \/ d = c
        BY <1>1 DEF IInv, FilesInv, CollectInv, Sole
      <4>2. crawl[d].saved = {}
        BY <3>1, <4>1 DEF FilesOK, Looking, Active
      <4> QED
        BY <2>4, <4>2
    <3> QED
      BY <1>1, <1>7, <2>4, <3>1, <3>2, <3>3 DEF FilesOK
  <2>12. FailuresInv'
    <3>1. ASSUME NEW i \in Ids PROVE FailuresOK(q, i, failed[i])
      <4>1. failed[i] \in Nat /\ MaxAttempts \in Nat /\ Pages \in Nat
        BY <1>2, CrawlTargetAssumption DEF TypeOK
      <4>2. FailuresOK(r, i, failed[i])
        BY DEF IInv, FailuresInv
      <4>3. CASE i # k.src
        <5>1. PagesOf(q, i) = PagesOf(r, i)
          <6>1. /\ Len(more) = Len(r.cands) + 1 /\ Len(r.cands) \in Nat /\ more[Len(r.cands) + 1] = k
                /\ \A n \in 1..Len(r.cands) : more[n] = r.cands[n]
            BY <1>3
          <6>2. /\ \A n \in 1..Len(more) : n \in 1..Len(r.cands) \/ n = Len(r.cands) + 1
                /\ \A n \in 1..Len(r.cands) : n \in 1..Len(more)
            BY <6>1
          <6>3. \A n \in 1..Len(more) : more[n].src = i => n \in 1..Len(r.cands)
            BY <4>3, <6>1, <6>2
          <6> HIDE DEF more, k, r
          <6>4. PagesOf(q, i) \subseteq PagesOf(r, i)
            BY <2>1, <6>1, <6>3 DEF PagesOf
          <6>5. PagesOf(r, i) \subseteq PagesOf(q, i)
            BY <2>1, <6>1, <6>2 DEF PagesOf
          <6> QED
            BY <6>4, <6>5
        <5> QED
          BY <2>1, <4>2, <5>1 DEF FailuresOK
      <4>4. CASE i = k.src
        <5>1. failed[i] < MaxAttempts
          BY <1>1, <4>2, <4>4 DEF FailuresOK
        <5>2. Cardinality(PagesOf(q, i)) \in 0..Pages
          BY <2>1, PagesOfCorrect
        <5> QED
          BY <2>1, <4>1, <5>1, <5>2 DEF FailuresOK
      <4> QED
        BY <4>3, <4>4
    <3>2. ASSUME NEW i \in Ids, NEW d \in Crawls
          PROVE  FailuresOK(crawl'[d], i, failed'[i])
      BY <1>1, <2>4, <3>1 DEF IInv, FailuresInv
    <3> QED
      BY <1>1, <3>2, FailuresPrimed DEF IInv, FailuresInv, AttemptsBounded
  <2>13. StartInv'
    <3>1. \A d \in Crawls \ {c} : Uploads(d)' = Uploads(d)
      BY <1>7, <2>6 DEF Uploads
    <3>2. Uploads(c)' = Uploads(c) \cup {k}
      BY <1>7, <2>6 DEF Uploads
    <3>3. r.after # None => r.after < k.src
      BY <1>1 DEF IInv, StartInv
    <3> QED
      BY <1>1, <2>1, <2>4, <3>1, <3>2, <3>3 DEF IInv, StartInv, ReadOK, Active, Follows
  <2> QED
    BY <2>5, <2>7, <2>9, <2>10, <2>11, <2>12, <2>13 DEF IInv, FilesInv
<1> QED
  BY <1>6, <1>7 DEF PrepareItem

\* What a crawl at work on its queue knows of the candidate at the head.
LEMMA HeadCorrect ==
    ASSUME IInv, NEW c \in Crawls, crawl[c].cands # <<>>
    PROVE  /\ Current(c) \in Key /\ Current(c).crawl = c /\ Current(c).src \in Ids
           /\ Current(c) \in images \ (logs \cup touched)
           /\ Tail(crawl[c].cands) \in Seq(Key)
           /\ \A n \in 1..Len(Tail(crawl[c].cands)) :
                \E m \in 1..Len(crawl[c].cands) :
                   m # 1 /\ Tail(crawl[c].cands)[n] = crawl[c].cands[m]
           /\ Current(c) = crawl[c].cands[1] /\ 1 \in 1..Len(crawl[c].cands)
<1> DEFINE s == crawl[c].cands
<1>1. s \in Seq(Key) /\ CandsOK(c, crawl[c]) /\ FilesOK(c, crawl[c])
  BY LocalNow DEF LocalOK, Local, IInv, FilesInv
<1>2. /\ Head(s) \in Key /\ Head(s) = s[1] /\ 1 \in 1..Len(s)
      /\ Tail(s) \in Seq(Key) /\ Len(Tail(s)) = Len(s) - 1 /\ Len(s) \in Nat
      /\ \A i \in 1..Len(Tail(s)) : Tail(s)[i] = s[i + 1] /\ i + 1 \in 1..Len(s)
  BY <1>1, TailCorrect
<1>3. \A n \in 1..Len(Tail(s)) : \E m \in 1..Len(s) : m # 1 /\ Tail(s)[n] = s[m]
  BY <1>2
<1>4. s[1] \in images \ (logs \cup touched) /\ s[1].crawl = c
  BY <1>1, <1>2 DEF FilesOK, CandsOK
<1> QED
  BY <1>2, <1>3, <1>4 DEF Current, Key

\* A candidate that cannot be rewritten or stored counts against its source post.
LEMMA FailStep ==
    ASSUME IInv, NEW c \in Crawls, crawl[c].pc \in {"rewrite", "store"}, crawl[c].cands # <<>>,
           PostFails(c),
           UNCHANGED <<newest, target, board, logs, images, cleaning, touched, admin, since, stale>>
    PROVE  IInv'
<1> DEFINE r == crawl[c]
           rest == Tail(r.cands)
           q == [r EXCEPT !.pc = "rewrite", !.cands = rest]
           src == Current(c).src
<1>1. r \in Local /\ LocalOK(c, r, logs) /\ logs \in SUBSET Key /\ Active(c)
  BY LocalNow DEF Active
<1>2. /\ rest \in Seq(Key) /\ src \in Ids
      /\ \A n \in 1..Len(rest) : \E m \in 1..Len(r.cands) : rest[n] = r.cands[m]
  BY HeadCorrect
<1>3. q \in Local /\ Follows(q, r) /\ q.pc = "rewrite" /\ q.cands = rest
  <2> HIDE DEF r, rest
  <2> QED
    BY <1>1, <1>2 DEF Local, Follows
<1>4. Become(c, q) /\ failed' = [failed EXCEPT ![src] = @ + 1]
  BY DEF PostFails, CountFailure, NextCandidate
<1> HIDE DEF q
<1>5. LocalOK(c, q, logs)
  BY <1>1, <1>3, NextOK
<1>6. /\ crawl' \in [Crawls -> Local] /\ crawl'[c] = q
      /\ \A d \in Crawls \ {c} : crawl'[d] = crawl[d]
      /\ Sole'
  BY <1>1, <1>3, <1>4, BecomeCorrect
<1>7. failed \in [Ids -> Nat] /\ MaxAttempts \in Nat /\ Pages \in Nat
  BY CrawlTargetAssumption DEF IInv, FilesInv, CollectInv, TypeOK
<1>8. /\ failed' \in [Ids -> Nat] /\ failed'[src] = failed[src] + 1
      /\ \A i \in Ids : i # src => failed'[i] = failed[i]
  <2> HIDE DEF src
  <2> QED
    BY <1>2, <1>4, <1>7
<1>9. CollectInv'
  <2>1. TypeOK'
    BY <1>6, <1>8 DEF IInv, FilesInv, CollectInv, TypeOK
  <2>2. \A d \in Crawls : LocalOK(d, crawl'[d], logs')
    BY <1>5, <1>6 DEF IInv, FilesInv, CollectInv
  <2> QED
    BY <1>6, <2>1, <2>2 DEF IInv, FilesInv, CollectInv, CollectedByOneCrawl
<1>10. AdminOK' /\ PostHasRow' /\ ImagesOfPosts'
  <2>1. \A k \in images : k \in Key
    BY DEF IInv, FilesInv, CollectInv, TypeOK
  <2>2. \A d \in Crawls : Active(d) => Active(d)'
    BY <1>3, <1>6 DEF Active
  <2> QED
    BY <2>1, <2>2 DEF IInv, FilesInv, AdminOK, PostHasRow, ImagesOfPosts, Key
<1>11. \A d \in Crawls : FilesOK(d, crawl[d])'
  <2> SUFFICES ASSUME NEW d \in Crawls PROVE FilesOK(d, crawl[d])'
    OBVIOUS
  <2>1. FilesOK(d, crawl[d])
    BY DEF IInv, FilesInv
  <2>2. CASE d # c
    BY <1>6, <2>1, <2>2 DEF FilesOK, Uploads
  <2>3. CASE d = c
    <3>1. \A n \in 1..Len(rest) : rest[n] \in images \ (logs \cup touched)
      BY <1>2, <2>1, <2>3 DEF FilesOK
    <3>2. ~Looking(r) /\ ~Looking(q) /\ r.pc # "done"
      BY <1>3 DEF Looking
    <3> HIDE DEF r, rest
    <3>3. /\ images \cap r.saved \subseteq board \cup cleaning /\ {k \in logs : k.crawl = c} \subseteq r.saved
      BY <2>1, <2>3, <3>2 DEF FilesOK, r
    <3> QED
      BY <1>3, <1>6, <2>3, <3>1, <3>2, <3>3 DEF FilesOK, Uploads, Looking, Follows
  <2> QED
    BY <2>2, <2>3
<1>12. \A i \in Ids : failed'[i] + Cardinality(PagesOf(q, i)) <= MaxAttempts + Pages - 1
  <2> SUFFICES ASSUME NEW i \in Ids
               PROVE  failed'[i] + Cardinality(PagesOf(q, i)) <= MaxAttempts + Pages - 1
    OBVIOUS
  <2>1. failed[i] + Cardinality(PagesOf(r, i)) <= MaxAttempts + Pages - 1
    BY DEF IInv, FailuresInv, FailuresOK
  <2>2. Cardinality(PagesOf(q, i)) \in 0..Pages /\ Cardinality(PagesOf(r, i)) \in 0..Pages
    BY <1>1, <1>3, PagesOfCorrect
  <2>3. Cardinality(PagesOf(q, i)) <= Cardinality(PagesOf(r, i))
    BY <1>1, <1>2, <1>3, PagesShrink
  <2>4. i = src => Cardinality(PagesOf(q, i)) <= Cardinality(PagesOf(r, i)) - 1
    <3>1. CandsOK(c, r)
      BY <1>1 DEF LocalOK
    <3> QED
      BY <1>1, <1>3, <3>1, PagesDrop DEF Current
  <2>5. CASE i = src
    BY <1>7, <1>8, <2>1, <2>2, <2>4, <2>5
  <2>6. CASE i # src
    BY <1>7, <1>8, <2>1, <2>2, <2>3, <2>6
  <2> QED
    BY <2>5, <2>6
<1>13. AttemptsBounded'
  <2> SUFFICES ASSUME NEW i \in Ids PROVE failed'[i] <= MaxAttempts + Pages - 1
    BY DEF AttemptsBounded
  <2>1. Cardinality(PagesOf(q, i)) \in 0..Pages /\ failed'[i] \in Nat
    BY <1>3, <1>8, PagesOfCorrect
  <2> QED
    BY <1>7, <1>12, <2>1
<1>14. FailuresInv'
  <2>1. ASSUME NEW i \in Ids, NEW d \in Crawls PROVE FailuresOK(crawl'[d], i, failed'[i])
    <3>1. CASE d = c
      BY <1>3, <1>6, <1>12, <3>1 DEF FailuresOK
    <3>2. CASE d # c
      <4>1. ~Active(d) /\ LocalOK(d, crawl[d], logs) /\ crawl'[d] = crawl[d]
        BY <1>1, <1>6, <3>2 DEF IInv, FilesInv, CollectInv, Sole
      <4>2. PagesOf(crawl'[d], i) = {}
        BY <4>1 DEF LocalOK, CandsOK, Active, PagesOf
      <4>3. Cardinality(PagesOf(crawl'[d], i)) = 0
        BY <4>2, FS_EmptySet
      <4>4. failed'[i] <= MaxAttempts + Pages - 1 /\ failed'[i] \in Nat
        BY <1>8, <1>13 DEF AttemptsBounded
      <4> QED
        BY <4>1, <4>3, <4>4 DEF FailuresOK, Active
    <3> QED
      BY <3>1, <3>2
  <2> QED
    BY <1>13, <2>1, FailuresPrimed
<1>15. StartInv'
  BY <1>1, <1>3, <1>6 DEF IInv, StartInv, ReadOK, Active, Uploads, Follows
<1> QED
  BY <1>9, <1>10, <1>11, <1>14, <1>15 DEF IInv, FilesInv

\* The loop over the queue ends, waits for the model, or counts a failure.
LEMMA RewriteStep ==
    ASSUME IInv, NEW c \in Crawls, Rewrite(c)
    PROVE  IInv'
<1>1. /\ crawl[c].pc = "rewrite"
      /\ UNCHANGED <<newest, target, board, logs, images, cleaning, touched, admin, since, stale>>
  BY DEF Rewrite, At
<1>2. CASE Goto(c, "cleanup") /\ UNCHANGED failed
  BY <1>1, <1>2, GotoStep DEF Quiet, stored
<1>3. CASE crawl[c].cands # <<>> /\ Goto(c, "answered") /\ UNCHANGED failed
  BY <1>1, <1>3, GotoStep DEF Quiet, stored
<1>4. CASE crawl[c].cands # <<>> /\ PostFails(c)
  BY <1>1, <1>4, FailStep
<1> QED
  BY <1>2, <1>3, <1>4 DEF Rewrite

\* The answer is stored, or thrown away.
LEMMA AnswerStep ==
    ASSUME IInv, NEW c \in Crawls, Answer(c)
    PROVE  IInv'
<1>1. crawl[c].pc = "answered" /\ Quiet /\ AfterAnswer(c)
  BY DEF Answer, At, Quiet
<1>2. crawl[c].cands # <<>>
  BY <1>1, LocalNow DEF LocalOK, CandsOK
<1>3. CASE crawl[c].aborted
  BY <1>1, <1>3, GotoStep DEF AfterAnswer
<1>4. CASE ~crawl[c].aborted
  BY <1>1, <1>2, <1>4, GotoStep DEF AfterAnswer
<1> QED
  BY <1>3, <1>4

\* A candidate becomes a post with its row, or counts as a failure.
LEMMA StoreStep ==
    ASSUME IInv, NEW c \in Crawls, Store(c)
    PROVE  IInv'
<1> DEFINE r == crawl[c]
           k == Current(c)
           rest == Tail(r.cands)
           more == MarkSaved(c)
<1>1. /\ r.pc = "store" /\ Active(c)
      /\ UNCHANGED <<newest, target, images, cleaning, touched, admin, since, stale>>
  BY DEF Store, At, Active
<1>2. r \in Local /\ LocalOK(c, r, logs) /\ logs \in SUBSET Key /\ FilesOK(c, r)
  BY LocalNow DEF IInv, FilesInv
<1>3. r.cands # <<>>
  BY <1>1, <1>2 DEF LocalOK, CandsOK
<1>4. CASE PostFails(c) /\ UNCHANGED <<board, logs>>
  BY <1>1, <1>3, <1>4, FailStep
<1>6. CASE Goto(c, "cleanup") /\ UNCHANGED <<board, logs, failed>>
  BY <1>1, <1>6, GotoStep DEF Quiet, stored
<1>5. CASE /\ board' = board \cup {k} /\ logs' = logs \cup {k}
           /\ Become(c, [NextCandidate(c) EXCEPT !.saved = more]) /\ UNCHANGED failed
  <2> DEFINE q == [[r EXCEPT !.pc = "rewrite", !.cands = rest] EXCEPT !.saved = more]
  <2>1. /\ k \in Key /\ k.crawl = c /\ k \in images \ (logs \cup touched)
        /\ k = r.cands[1] /\ 1 \in 1..Len(r.cands) /\ k = Head(r.cands)
        /\ rest \in Seq(Key)
        /\ \A n \in 1..Len(rest) : \E m \in 1..Len(r.cands) : m # 1 /\ rest[n] = r.cands[m]
    BY <1>3, HeadCorrect DEF Current
  <2>2. more \in SUBSET Key /\ more = r.saved \cup {k}
    <3>1. r.saved \in SUBSET Key
      BY <1>2 DEF Local
    <3> QED
      BY <2>1, <3>1 DEF MarkSaved
  <2>3. /\ q \in Local /\ q.pc = "rewrite" /\ q.cands = rest /\ q.saved = more
        /\ q.after = r.after /\ q.old = r.old /\ q.gallery = r.gallery
    <3> HIDE DEF r, rest, more
    <3> QED
      BY <1>2, <2>1, <2>2 DEF Local
  <2>4. Become(c, q)
    BY <1>5 DEF NextCandidate
  <2> HIDE DEF q, more
  <2>5. LocalOK(c, q, logs')
    BY <1>2, <1>3, <1>5, <2>1, <2>3, NextOK
  <2>6. /\ crawl' \in [Crawls -> Local] /\ crawl'[c] = q
        /\ \A d \in Crawls \ {c} : crawl'[d] = crawl[d]
        /\ Sole'
    BY <1>1, <2>3, <2>4, BecomeCorrect
  <2>7. \A d \in Crawls \ {c} : /\ ~Active(d) /\ crawl[d] \in Local
                                /\ crawl[d].cands = <<>> /\ crawl[d].saved = {}
                                /\ FilesOK(d, crawl[d])
    <3> SUFFICES ASSUME NEW d \in Crawls \ {c}
                 PROVE  /\ ~Active(d) /\ crawl[d] \in Local
                        /\ crawl[d].cands = <<>> /\ crawl[d].saved = {}
                        /\ FilesOK(d, crawl[d])
      OBVIOUS
    <3>1. crawl[d] \in Local /\ LocalOK(d, crawl[d], logs) /\ FilesOK(d, crawl[d])
      BY LocalNow DEF IInv, FilesInv
    <3>2. ~Active(d)
      BY <1>1 DEF IInv, FilesInv, CollectInv, Sole
    <3> QED
      BY <3>1, <3>2 DEF LocalOK, CandsOK, FilesOK, Looking, Active
  <2>8. CollectInv'
    <3> HIDE DEF k, r
    <3>1. TypeOK'
      BY <1>1, <1>5, <2>1, <2>6 DEF IInv, FilesInv, CollectInv, TypeOK
    <3>2. ASSUME NEW d \in Crawls PROVE LocalOK(d, crawl'[d], logs')
      <4>1. CASE d = c
        BY <2>5, <2>6, <4>1
      <4>2. CASE d # c
        <5>1. logs' \in SUBSET Key
          BY <1>2, <1>5, <2>1
        <5> QED
          BY <2>6, <2>7, <4>2, <5>1, EmptyOK DEF Active
      <4> QED
        BY <4>1, <4>2
    <3>3. \A l \in logs : l.src = k.src => l.crawl = c /\ l.page # k.page
      BY <1>2, <2>1 DEF LocalOK, UnseenOK
    <3>4. CollectedByOneCrawl'
      BY <1>5, <2>1, <3>3 DEF IInv, FilesInv, CollectInv, CollectedByOneCrawl
    <3> QED
      BY <2>6, <3>1, <3>2, <3>4 DEF CollectInv
  <2>9. AdminOK' /\ PostHasRow'
    <3> HIDE DEF k
    <3> QED
      BY <1>1, <1>5, <2>1 DEF IInv, FilesInv, AdminOK, PostHasRow
  <2>10. ImagesOfPosts'
    <3>1. \A x \in images : x \in Key
      BY DEF IInv, FilesInv, CollectInv, TypeOK
    <3>2. \A d \in Crawls : Active(d) => Active(d)'
      BY <2>3, <2>6 DEF Active
    <3> HIDE DEF k
    <3> QED
      BY <1>1, <1>5, <2>1, <3>1, <3>2 DEF IInv, FilesInv, ImagesOfPosts, Key
  <2>11. FilesOK(c, crawl[c])'
    <3>1. \A n \in 1..Len(rest) : rest[n] \in images \ (logs \cup touched) /\ rest[n] # k
      <4> SUFFICES ASSUME NEW n \in 1..Len(rest)
                   PROVE  rest[n] \in images \ (logs \cup touched) /\ rest[n] # k
        OBVIOUS
      <4>1. PICK m \in 1..Len(r.cands) : m # 1 /\ rest[n] = r.cands[m]
        BY <2>1
      <4>2. r.cands[m].src = r.cands[1].src => r.cands[m].page # r.cands[1].page
        BY <1>2, <2>1, <4>1 DEF LocalOK, CandsOK
      <4> QED
        BY <1>2, <2>1, <4>1, <4>2 DEF FilesOK
    <3>2. images \cap more \subseteq board' \cup cleaning
      BY <1>2, <1>5, <2>2 DEF FilesOK
    <3>3. {x \in logs' : x.crawl = c} \subseteq more
      BY <1>1, <1>2, <1>5, <2>2 DEF FilesOK
    <3> HIDE DEF k, rest
    <3> QED
      BY <1>1, <1>5, <2>3, <2>6, <3>1, <3>2, <3>3 DEF FilesOK, Looking
  <2>12. ASSUME NEW d \in Crawls \ {c} PROVE FilesOK(d, crawl[d])'
    <3>1. /\ crawl'[d] = crawl[d] /\ ~Active(d) /\ crawl[d].cands = <<>> /\ crawl[d].saved = {}
          /\ FilesOK(d, crawl[d])
      BY <2>6, <2>7
    <3>2. Uploads(d)' = Uploads(d)
      BY <1>1 DEF Uploads
    <3>3. \A x \in logs' : x.crawl = d => x \in logs
      BY <1>5, <2>1
    <3> HIDE DEF k
    <3> QED
      BY <1>1, <1>5, <3>1, <3>2, <3>3 DEF FilesOK, Looking, Active
  <2>13. FailuresInv'
    <3>1. ASSUME NEW i \in Ids PROVE FailuresOK(q, i, failed[i])
      <4>1. failed[i] \in Nat /\ MaxAttempts \in Nat /\ Pages \in Nat
        BY CrawlTargetAssumption DEF IInv, FilesInv, CollectInv, TypeOK
      <4>2. failed[i] + Cardinality(PagesOf(r, i)) <= MaxAttempts + Pages - 1
        BY DEF IInv, FailuresInv, FailuresOK
      <4>3. Cardinality(PagesOf(q, i)) \in 0..Pages /\ Cardinality(PagesOf(r, i)) \in 0..Pages
        BY <1>2, <2>3, PagesOfCorrect
      <4>4. Cardinality(PagesOf(q, i)) <= Cardinality(PagesOf(r, i))
        <5>1. \A n \in 1..Len(q.cands) : \E m \in 1..Len(r.cands) : q.cands[n] = r.cands[m]
          BY <2>1, <2>3
        <5> HIDE DEF r
        <5> QED
          BY <1>2, <2>3, <5>1, PagesShrink
      <4> QED
        BY <2>3, <4>1, <4>2, <4>3, <4>4 DEF FailuresOK
    <3>2. ASSUME NEW i \in Ids, NEW d \in Crawls PROVE FailuresOK(crawl'[d], i, failed'[i])
      BY <1>5, <2>6, <3>1 DEF IInv, FailuresInv
    <3> QED
      BY <1>5, <3>2, FailuresPrimed DEF IInv, FailuresInv, AttemptsBounded
  <2>14. StartInv'
    BY <1>1, <2>3, <2>6 DEF IInv, StartInv, ReadOK, Active, Uploads
  <2> QED
    BY <2>8, <2>9, <2>10, <2>11, <2>12, <2>13, <2>14 DEF IInv, FilesInv
<1> QED
  BY <1>4, <1>5, <1>6 DEF Store, RowWithPost

-------------------------------------------------------------------------------
(* The galleries, and the target's settings.                                 *)

\* A request that goes on leaves the others as they are.
LEMMA SetAdminCorrect ==
    ASSUME TypeOK, NEW a \in Admins, NEW r \in Request, SetAdmin(a, r)
    PROVE  /\ admin' \in [Admins -> Request] /\ admin'[a] = r
           /\ \A b \in Admins \ {a} : admin'[b] = admin[b]
BY DEF TypeOK, SetAdmin

\* A step that leaves the crawls alone keeps what FailuresInv says of them.
LEMMA FailuresStay ==
    ASSUME IInv, UNCHANGED <<failed, crawl>>
    PROVE  FailuresInv'
BY FailuresPrimed DEF IInv, FailuresInv, AttemptsBounded

\* A step that touches neither crawls, nor posts, rows and files.
LEMMA OutsideStep ==
    ASSUME IInv, UNCHANGED <<stored, crawl, since>>,
           newest' \in [Galleries -> Ids], \A g \in Galleries : newest[g] <= newest'[g],
           target' \in TargetRow, target'.gallery = target.gallery, stale' \in BOOLEAN,
           target'.baseline # None /\ ~stale' => since <= target'.baseline,
           admin' \in [Admins -> Request],
           \A a \in Admins :
              \/ admin'[a] = admin[a]
              \/ /\ admin'[a].rows = {}
                 /\ admin'[a].pc = "write" => ReadOK(admin'[a], admin'[a].value)
    PROVE  IInv'
<1>0. UNCHANGED <<board, logs, failed, images, cleaning, touched>>
  BY DEF stored
<1>1. TypeOK'
  BY <1>0 DEF IInv, FilesInv, CollectInv, TypeOK
<1>2. \A c \in Crawls : LocalOK(c, crawl'[c], logs')
  BY <1>0 DEF IInv, FilesInv, CollectInv
<1>3. CollectInv'
  BY <1>0, <1>1, <1>2 DEF IInv, FilesInv, CollectInv, Sole, CollectedByOneCrawl, Active
<1>4. AdminOK'
  BY <1>0 DEF IInv, FilesInv, AdminOK
<1>5. PostHasRow' /\ ImagesOfPosts'
  BY <1>0 DEF IInv, FilesInv, PostHasRow, ImagesOfPosts, Active
<1>6. \A c \in Crawls : FilesOK(c, crawl[c])'
  BY <1>0 DEF IInv, FilesInv, FilesOK, Looking, Uploads
<1>7. StartInv'
  <2>1. /\ newest \in [Galleries -> Ids] /\ since \in Ids /\ target.gallery \in Galleries
        /\ since <= newest[target.gallery] /\ MaxId \in Nat
    BY CrawlTargetAssumption DEF IInv, FilesInv, CollectInv, TypeOK, TargetRow, StartInv
  <2>2. since' <= newest'[target'.gallery]
    <3> DEFINE g == target.gallery
    <3>1. newest[g] \in Ids /\ newest'[g] \in Ids /\ newest[g] <= newest'[g] /\ since <= newest[g]
      BY <2>1
    <3> HIDE DEF g
    <3>2. since <= newest'[g]
      BY <2>1, <3>1 DEF Ids
    <3> QED
      BY <3>2 DEF g
  <2>3. \A a \in Admins : admin'[a].pc = "write" => ReadOK(admin[a], admin[a].value)'
    BY DEF IInv, StartInv, ReadOK
  <2>4. \A c \in Crawls : Uploads(c)' = Uploads(c)
    BY <1>0 DEF Uploads
  <2> QED
    BY <2>2, <2>3, <2>4 DEF IInv, StartInv, ReadOK, Active
<1> QED
  BY <1>0, <1>3, <1>4, <1>5, <1>6, <1>7, FailuresStay DEF IInv, FilesInv

\* What the gallery's posts are ordered by.
LEMMA NewestNow ==
    ASSUME IInv
    PROVE  /\ TypeOK /\ StartInv /\ newest \in [Galleries -> Ids]
           /\ \A g \in Galleries : newest[g] <= newest[g]
<1>1. TypeOK /\ StartInv
  BY DEF IInv, FilesInv, CollectInv
<1>2. \A g \in Galleries : newest[g] \in Int
  BY <1>1 DEF TypeOK, Ids
<1> QED
  BY <1>1, <1>2 DEF TypeOK

\* Nothing happens.
LEMMA StutterStep ==
    ASSUME IInv, UNCHANGED vars
    PROVE  IInv'
BY NewestNow, OutsideStep DEF vars, TypeOK, StartInv

\* A new post in a gallery.
LEMMA GalleryPostStep ==
    ASSUME IInv, NEW h \in Galleries, GalleryPost(h)
    PROVE  IInv'
<1>1. TypeOK /\ StartInv /\ MaxId \in Nat /\ newest \in [Galleries -> Ids]
  BY NewestNow, CrawlTargetAssumption
<1>2. newest' = [newest EXCEPT ![h] = @ + 1] /\ newest[h] < MaxId
  BY DEF GalleryPost
<1>3. newest' \in [Galleries -> Ids]
  BY <1>1, <1>2 DEF Ids
<1>4. \A g \in Galleries : newest[g] <= newest'[g]
  BY <1>1, <1>2 DEF Ids
<1> QED
  BY <1>1, <1>3, <1>4, OutsideStep DEF GalleryPost, TypeOK, StartInv

\* The timer switches the target off.
LEMMA StopByTimerStep ==
    ASSUME IInv, StopByTimer
    PROVE  IInv'
<1>1. TypeOK /\ StartInv
  BY NewestNow
<1>2. target' \in TargetRow /\ target'.gallery = target.gallery /\ target'.baseline = target.baseline
  BY <1>1 DEF StopByTimer, TypeOK, TargetRow
<1> QED
  BY <1>1, <1>2, NewestNow, OutsideStep DEF StopByTimer, TypeOK, StartInv

\* What a request starts from.
LEMMA IdleCorrect ==
    ASSUME NEW pc \in {"idle", "capture"}
    PROVE  /\ idle \in Request /\ idle.pc = "idle" /\ idle.rows = {}
           /\ [idle EXCEPT !.pc = pc] \in Request /\ [idle EXCEPT !.pc = pc].pc = pc
           /\ [idle EXCEPT !.pc = pc].rows = {}
BY DEF idle, Request

\* A request reads the row it will change.
LEMMA ReadTargetStep ==
    ASSUME IInv, NEW a \in Admins, ReadTarget(a)
    PROVE  IInv'
<1> DEFINE seen == [isActive |-> target.isActive, onlyNew |-> target.onlyNew, gallery |-> target.gallery]
           r == [idle EXCEPT !.pc = "update", !.seen = seen]
<1>1. TypeOK /\ StartInv
  BY NewestNow
<1>2. seen \in Settings
  BY <1>1 DEF TypeOK, TargetRow, Settings
<1> HIDE DEF seen
<1>3. r \in Request /\ r.pc = "update" /\ r.rows = {}
  BY <1>2 DEF idle, Request
<1>4. SetAdmin(a, r)
  BY DEF ReadTarget, seen
<1> HIDE DEF r
<1>5. /\ admin' \in [Admins -> Request] /\ admin'[a] = r
      /\ \A b \in Admins \ {a} : admin'[b] = admin[b]
  BY <1>1, <1>3, <1>4, SetAdminCorrect
<1> QED
  BY <1>1, <1>3, <1>5, NewestNow, OutsideStep DEF ReadTarget, TypeOK, StartInv

\* A request reads the row for its baseline ...
LEMMA AdminReadsRowStep ==
    ASSUME IInv, NEW a \in Admins, AdminReadsRow(a)
    PROVE  IInv'
<1> DEFINE g == target.gallery
           value == newest[g]
           r == [idle EXCEPT !.pc = "write", !.gallery = g, !.value = value]
<1>1. TypeOK /\ StartInv
  BY NewestNow
<1>2. g \in Galleries /\ value \in Ids /\ since <= value
  BY <1>1 DEF TypeOK, TargetRow, StartInv
<1>3. SetAdmin(a, r)
  BY DEF AdminReadsRow
<1> HIDE DEF g, value
<1>4. r \in Request /\ r.pc = "write" /\ r.rows = {} /\ ReadOK(r, r.value)
  BY <1>2 DEF idle, Request, ReadOK
<1> HIDE DEF r
<1>5. /\ admin' \in [Admins -> Request] /\ admin'[a] = r
      /\ \A b \in Admins \ {a} : admin'[b] = admin[b]
  BY <1>1, <1>3, <1>4, SetAdminCorrect
<1> QED
  BY <1>1, <1>4, <1>5, NewestNow, OutsideStep DEF AdminReadsRow, TypeOK, StartInv

\* ... and writes it, if it can be read.
LEMMA AdminWritesBaselineStep ==
    ASSUME IInv, NEW a \in Admins, AdminWritesBaseline(a)
    PROVE  IInv'
<1>1. /\ TypeOK /\ StartInv /\ newest \in [Galleries -> Ids] /\ since \in Ids
      /\ UNCHANGED <<newest, stored, crawl, since>>
  BY NewestNow DEF AdminWritesBaseline, TypeOK
<1>2. /\ admin' \in [Admins -> Request] /\ admin'[a] = idle /\ idle.rows = {} /\ idle.pc = "idle"
      /\ \A b \in Admins \ {a} : admin'[b] = admin[b]
  BY <1>1, SetAdminCorrect, IdleCorrect DEF AdminWritesBaseline
<1>3. CASE UNCHANGED <<target, stale>>
  BY <1>1, <1>2, <1>3, NewestNow, OutsideStep DEF TypeOK, StartInv
<1>4. ASSUME NEW highest \in admin[a].value..newest[admin[a].gallery],
             target' = [target EXCEPT !.baseline = highest], stale' = admin[a].old
      PROVE  IInv'
  <2>1. ReadOK(admin[a], admin[a].value) /\ admin[a].old \in BOOLEAN
    BY <1>1 DEF AdminWritesBaseline, HasPc, StartInv, TypeOK, Request
  <2>2. highest \in Ids /\ highest # None /\ (since <= admin[a].value => since <= highest)
    BY <1>1, <1>4, <2>1, HighestCorrect DEF ReadOK
  <2>3. target' \in TargetRow /\ target'.gallery = target.gallery /\ target'.baseline = highest
    BY <1>1, <1>4, <2>2 DEF TypeOK, TargetRow
  <2>4. target'.baseline # None /\ ~stale' => since <= target'.baseline
    BY <1>4, <2>1, <2>2, <2>3 DEF ReadOK
  <2> QED
    BY <1>1, <1>2, <1>4, <2>1, <2>3, <2>4, NewestNow, OutsideStep
<1> QED
  BY <1>3, <1>4 DEF AdminWritesBaseline

\* A field that is not sent keeps the row's value.
LEMMA SentCorrect ==
    ASSUME NEW S, NEW x \in S \cup {None}, NEW value \in S
    PROVE  Sent(x, value) \in S
BY DEF Sent

\* What a switch makes of the requests and the crawls.
LEMMA SwitchCorrect ==
    ASSUME TypeOK, NEW a \in Admins, NEW body, UpdateTarget(a, body)
    PROVE  LET switched == SwitchesOn(body, target) IN
           /\ admin' \in [Admins -> Request] /\ admin'[a].pc \in {"idle", "capture"}
           /\ admin'[a].rows = {}
           /\ \A b \in Admins \ {a} :
                /\ admin'[b].pc = admin[b].pc /\ admin'[b].rows = admin[b].rows
                /\ admin'[b].value = admin[b].value /\ admin'[b].gallery = admin[b].gallery
                /\ admin'[b].old = (admin[b].old \/ (switched /\ HasPc(b, "write")))
           /\ crawl' \in [Crawls -> Local]
           /\ \A c \in Crawls :
                /\ crawl'[c].oldest = crawl[c].oldest /\ crawl'[c].after = crawl[c].after
                /\ crawl'[c].saved = crawl[c].saved /\ crawl'[c].pc = crawl[c].pc
                /\ crawl'[c].items = crawl[c].items /\ crawl'[c].cands = crawl[c].cands
                /\ crawl'[c].page = crawl[c].page /\ crawl'[c].gallery = crawl[c].gallery
                /\ crawl'[c].old = (crawl[c].old \/ (switched /\ Active(c)))
<1> DEFINE switched == SwitchesOn(body, target)
           kept == IF ResetsBaseline(body, admin[a].seen) THEN None ELSE target.baseline
           only == Sent(body.onlyNew, target.onlyNew)
           pc == IF only /\ kept = None THEN "capture" ELSE "idle"
           next == [idle EXCEPT !.pc = pc]
<1>1. /\ admin' = [b \in Admins |->
                     IF b = a THEN next
                     ELSE [admin[b] EXCEPT !.old = @ \/ (switched /\ HasPc(b, "write"))]]
      /\ crawl' = [c \in Crawls |-> [crawl[c] EXCEPT !.old = @ \/ (switched /\ Active(c))]]
  BY DEF UpdateTarget
<1>2. next \in Request /\ next.pc \in {"idle", "capture"} /\ next.rows = {}
  <2>1. pc \in {"idle", "capture"}
    OBVIOUS
  <2> HIDE DEF pc
  <2> QED
    BY <2>1, IdleCorrect
<1>3. switched \in BOOLEAN
  BY DEF SwitchesOn
<1> HIDE DEF switched, next
<1>4. admin \in [Admins -> Request] /\ crawl \in [Crawls -> Local]
  BY DEF TypeOK
<1>5. ASSUME NEW b \in Admins, b # a
      PROVE  /\ admin'[b] \in Request
             /\ admin'[b].pc = admin[b].pc /\ admin'[b].rows = admin[b].rows
             /\ admin'[b].value = admin[b].value /\ admin'[b].gallery = admin[b].gallery
             /\ admin'[b].old = (admin[b].old \/ (switched /\ HasPc(b, "write")))
  <2> DEFINE w == switched /\ HasPc(b, "write")
  <2>1. w \in BOOLEAN /\ admin[b] \in Request
    BY <1>4, <1>3 DEF HasPc
  <2>2. admin'[b] = [admin[b] EXCEPT !.old = @ \/ w]
    BY <1>1, <1>5
  <2> HIDE DEF w
  <2>3. /\ admin'[b] \in Request
        /\ admin'[b].pc = admin[b].pc /\ admin'[b].rows = admin[b].rows
        /\ admin'[b].value = admin[b].value /\ admin'[b].gallery = admin[b].gallery
        /\ admin'[b].old = (admin[b].old \/ w)
    BY <2>1, <2>2 DEF Request
  <2> QED
    BY <2>3 DEF w
<1>6. ASSUME NEW c \in Crawls
      PROVE  /\ crawl'[c] \in Local
             /\ crawl'[c].oldest = crawl[c].oldest /\ crawl'[c].after = crawl[c].after
             /\ crawl'[c].saved = crawl[c].saved /\ crawl'[c].pc = crawl[c].pc
             /\ crawl'[c].items = crawl[c].items /\ crawl'[c].cands = crawl[c].cands
             /\ crawl'[c].page = crawl[c].page /\ crawl'[c].gallery = crawl[c].gallery
             /\ crawl'[c].old = (crawl[c].old \/ (switched /\ Active(c)))
  <2> DEFINE w == switched /\ Active(c)
  <2>1. w \in BOOLEAN /\ crawl[c] \in Local
    BY <1>4, <1>3 DEF Active
  <2>2. crawl'[c] = [crawl[c] EXCEPT !.old = @ \/ w]
    BY <1>1
  <2> HIDE DEF w
  <2>3. /\ crawl'[c] \in Local
        /\ crawl'[c].oldest = crawl[c].oldest /\ crawl'[c].after = crawl[c].after
        /\ crawl'[c].saved = crawl[c].saved /\ crawl'[c].pc = crawl[c].pc
        /\ crawl'[c].items = crawl[c].items /\ crawl'[c].cands = crawl[c].cands
        /\ crawl'[c].page = crawl[c].page /\ crawl'[c].gallery = crawl[c].gallery
        /\ crawl'[c].old = (crawl[c].old \/ w)
    BY <2>1, <2>2, MoveOld
  <2> QED
    BY <2>3 DEF w
<1>7. admin' \in [Admins -> Request] /\ admin'[a] = next
  BY <1>1, <1>5, <1>2
<1>8. crawl' \in [Crawls -> Local]
  BY <1>1, <1>6
<1> QED
  BY <1>5, <1>6, <1>7, <1>8, <1>2 DEF switched

\* A request writes the row, by what it has read of it before: crawls and requests that
\* read before a switch are old after it.
LEMMA UpdateTargetStep ==
    ASSUME IInv, NEW a \in Admins, NEW body \in Bodies, UpdateTarget(a, body)
    PROVE  IInv'
<1> DEFINE seen == admin[a].seen
           drops == SwitchesOn(body, seen)
           switched == SwitchesOn(body, target)
           kept == IF drops THEN None ELSE target.baseline
           on == Sent(body.isActive, target.isActive)
           only == Sent(body.onlyNew, target.onlyNew)
           g == Sent(body.gallery, target.gallery)
<1>1. /\ TypeOK /\ StartInv /\ Sole /\ CollectedByOneCrawl /\ AdminOK /\ PostHasRow /\ ImagesOfPosts
      /\ \A c \in Crawls : LocalOK(c, crawl[c], logs) /\ FilesOK(c, crawl[c])
  BY DEF IInv, FilesInv, CollectInv
<1>2. /\ target' = [isActive |-> on, onlyNew |-> only, gallery |-> g, baseline |-> kept]
      /\ since' = IF switched THEN newest[target'.gallery] ELSE since
      /\ stale' = (kept # None /\ (stale \/ (switched /\ ~drops)))
      /\ UNCHANGED <<newest, board, logs, failed, images, cleaning, touched>>
  BY DEF UpdateTarget, ResetsBaseline, stored
<1>3. drops \in BOOLEAN /\ switched \in BOOLEAN
  BY DEF SwitchesOn
<1>4. on \in BOOLEAN /\ only \in BOOLEAN /\ g \in Galleries /\ (~switched => g = target.gallery)
  <2>1. target \in TargetRow /\ body \in Bodies
    BY <1>1 DEF TypeOK
  <2>2. /\ body.isActive \in BOOLEAN \cup {None} /\ target.isActive \in BOOLEAN
        /\ body.onlyNew \in BOOLEAN \cup {None} /\ target.onlyNew \in BOOLEAN
        /\ body.gallery \in Galleries \cup {None} /\ target.gallery \in Galleries
    BY <2>1 DEF TargetRow, Bodies
  <2>3. on \in BOOLEAN
    BY <2>2, SentCorrect
  <2>4. only \in BOOLEAN
    BY <2>2, SentCorrect
  <2>5. g \in Galleries
    BY <2>2, SentCorrect
  <2>6. ~switched => g = target.gallery
    BY DEF SwitchesOn, Sent
  <2> QED
    BY <2>3, <2>4, <2>5, <2>6
<1>5. kept \in Ids \cup {None} /\ (kept # None => ~drops /\ kept = target.baseline)
  BY <1>1 DEF TypeOK, TargetRow
<1> HIDE DEF drops, switched, kept, on, only, g
<1>6. target' \in TargetRow /\ target'.baseline = kept /\ target'.gallery = g
  BY <1>2, <1>4, <1>5 DEF TargetRow
<1>7. /\ admin' \in [Admins -> Request]
      /\ admin'[a].pc \in {"idle", "capture"} /\ admin'[a].rows = {}
      /\ \A b \in Admins \ {a} :
           /\ admin'[b].pc = admin[b].pc /\ admin'[b].rows = admin[b].rows
           /\ admin'[b].value = admin[b].value /\ admin'[b].gallery = admin[b].gallery
           /\ admin'[b].old = (admin[b].old \/ (switched /\ HasPc(b, "write")))
      /\ crawl' \in [Crawls -> Local]
      /\ \A c \in Crawls :
           /\ crawl'[c].oldest = crawl[c].oldest /\ crawl'[c].after = crawl[c].after
           /\ crawl'[c].saved = crawl[c].saved /\ crawl'[c].pc = crawl[c].pc
           /\ crawl'[c].items = crawl[c].items /\ crawl'[c].cands = crawl[c].cands
           /\ crawl'[c].page = crawl[c].page /\ crawl'[c].gallery = crawl[c].gallery
           /\ crawl'[c].old = (crawl[c].old \/ (switched /\ Active(c)))
  BY <1>1, SwitchCorrect DEF switched
<1>8. \A c \in Crawls : Active(c)' <=> Active(c)
  BY <1>7 DEF Active
<1>9. \A c \in Crawls : LocalOK(c, crawl'[c], logs')
  <2>1. logs \in SUBSET Key /\ logs' = logs /\ \A c \in Crawls : crawl[c] \in Local
    BY <1>1, <1>2 DEF TypeOK
  <2> QED
    BY <1>1, <1>7, <2>1, SameOK
<1>10. /\ since' \in Ids /\ stale' \in BOOLEAN /\ since' <= newest'[target'.gallery]
       /\ switched => since' = newest[g]
       /\ ~switched => since' = since
  <2>1. newest[g] \in Ids /\ newest[g] <= newest[g] /\ since \in Ids
    BY <1>1, <1>4 DEF TypeOK, Ids
  <2>2. ~switched => since <= newest[g]
    BY <1>1, <1>4 DEF StartInv
  <2>3. since' = IF switched THEN newest[g] ELSE since
    BY <1>2, <1>6
  <2>4. newest'[target'.gallery] = newest[g]
    BY <1>2, <1>6
  <2>5. stale' \in BOOLEAN
    BY <1>2
  <2>6. CASE switched
    BY <2>1, <2>3, <2>4, <2>5, <2>6
  <2>7. CASE ~switched
    BY <2>1, <2>2, <2>3, <2>4, <2>5, <2>7
  <2> QED
    BY <2>6, <2>7
<1>11. CollectInv'
  <2>1. TypeOK'
    BY <1>1, <1>2, <1>6, <1>7, <1>10 DEF TypeOK
  <2>2. Sole'
    BY <1>1, <1>8 DEF Sole
  <2> QED
    BY <1>1, <1>2, <1>9, <2>1, <2>2 DEF CollectInv, CollectedByOneCrawl
<1>12. AdminOK'
  <2> SUFFICES ASSUME NEW b \in Admins
               PROVE  /\ admin'[b].rows \subseteq touched
                      /\ admin'[b].pc \in {"posts", "rows"} => images \cap admin'[b].rows \subseteq cleaning
                      /\ admin'[b].pc = "rows" => board \cap admin'[b].rows = {}
    BY <1>1, <1>2 DEF AdminOK
  <2>1. CASE b = a
    BY <1>7, <2>1
  <2>2. CASE b # a
    BY <1>1, <1>7, <2>2 DEF AdminOK
  <2> QED
    BY <2>1, <2>2
<1>13. PostHasRow' /\ ImagesOfPosts'
  <2>1. \A k \in images : k.crawl \in Crawls
    BY <1>1 DEF TypeOK, Key
  <2> QED
    BY <1>1, <1>2, <1>8, <2>1 DEF PostHasRow, ImagesOfPosts
<1>14. ASSUME NEW c \in Crawls PROVE FilesOK(c, crawl[c])'
  <2>1. /\ crawl'[c].pc = crawl[c].pc /\ crawl'[c].saved = crawl[c].saved
        /\ crawl'[c].cands = crawl[c].cands
    BY <1>7
  <2>2. FilesOK(c, crawl[c]) /\ Uploads(c)' = Uploads(c)
    BY <1>1, <1>2 DEF Uploads
  <2>3. \A n \in 1..Len(crawl'[c].cands) : crawl'[c].cands[n] \in images' \ (logs' \cup touched')
    BY <1>2, <2>1, <2>2 DEF FilesOK
  <2> QED
    BY <1>2, <2>1, <2>2, <2>3 DEF FilesOK, Looking
<1>15. FailuresInv'
  <2>2. ASSUME NEW i \in Ids, NEW c \in Crawls
        PROVE  FailuresOK(crawl'[c], i, failed'[i])
    <3>1. FailuresOK(crawl[c], i, failed[i]) /\ failed'[i] = failed[i]
      BY <1>2 DEF IInv, FailuresInv
    <3>2. /\ crawl'[c].pc = crawl[c].pc /\ crawl'[c].items = crawl[c].items
          /\ PagesOf(crawl'[c], i) = PagesOf(crawl[c], i)
      BY <1>7 DEF PagesOf
    <3> QED
      BY <3>1, <3>2 DEF FailuresOK
  <2> QED
    BY <1>2, <2>2, FailuresPrimed DEF IInv, FailuresInv, AttemptsBounded
<1>16. StartInv'
  <2>1. target'.baseline # None /\ ~stale' => since' <= target'.baseline
    <3> SUFFICES ASSUME kept # None, ~stale' PROVE since' <= kept
      BY <1>6
    <3>1. ~drops /\ kept = target.baseline /\ ~stale /\ ~(switched /\ ~drops)
      BY <1>2, <1>5
    <3>2. ~switched /\ since' = since
      BY <1>10, <3>1
    <3> QED
      BY <1>1, <3>1, <3>2 DEF StartInv
  <2>2. ASSUME NEW b \in Admins, admin'[b].pc = "write"
        PROVE  ReadOK(admin[b], admin[b].value)'
    <3>1. b # a /\ HasPc(b, "write")
      BY <1>7, <2>2 DEF HasPc
    <3>2. ReadOK(admin[b], admin[b].value)
      BY <1>1, <3>1 DEF StartInv, HasPc
    <3>3. CASE switched
      BY <1>7, <3>1, <3>2, <3>3 DEF ReadOK
    <3>4. CASE ~switched
      BY <1>7, <1>10, <3>1, <3>2, <3>4 DEF ReadOK
    <3> QED
      BY <3>3, <3>4
  <2>3. ASSUME NEW c \in Crawls
        PROVE  /\ crawl'[c].pc = "baseline" => ReadOK(crawl[c], crawl[c].after)'
               /\ crawl'[c].pc \in {"list", "check", "prepare"} => crawl'[c].gallery \in Galleries
               /\ (Active(c)' /\ crawl'[c].after # None /\ ~crawl'[c].old) => since' <= crawl'[c].after
    <3>1. crawl'[c].pc = "baseline" => Active(c)
      BY <1>7 DEF Active
    <3>2. CASE switched
      BY <1>1, <1>7, <1>8, <3>1, <3>2 DEF StartInv, ReadOK
    <3>3. CASE ~switched
      BY <1>1, <1>7, <1>8, <1>10, <3>1, <3>3 DEF StartInv, ReadOK
    <3> QED
      BY <3>2, <3>3
  <2>4. ASSUME NEW c \in Crawls
        PROVE  /\ (Active(c)' /\ crawl'[c].after # None) => \A k \in Uploads(c)' : crawl'[c].after < k.src
               /\ (crawl'[c].pc = "prepare" /\ crawl'[c].after # None) => crawl'[c].after < Head(crawl'[c].items)
    BY <1>1, <1>2, <1>7, <1>8 DEF StartInv, Uploads
  <2> QED
    BY <1>10, <2>1, <2>2, <2>3, <2>4 DEF StartInv
<1> QED
  BY <1>11, <1>12, <1>13, <1>14, <1>15, <1>16 DEF IInv, FilesInv

-------------------------------------------------------------------------------
(* Deletions.                                                                *)

\* A step of a deletion: fewer posts, rows and files.  What loses its post, its row or its
\* files is known to, and a file that loses its post is to be cleaned.
LEMMA DeletionStep ==
    ASSUME IInv, UNCHANGED <<newest, target, failed, crawl, since, stale>>,
           admin' \in [Admins -> Request], AdminOK',
           \A a \in Admins : admin'[a].pc = "write" => admin'[a] = admin[a],
           board' \in SUBSET board, logs' \in SUBSET logs, images' \in SUBSET images,
           cleaning' \in SUBSET Key, touched' \in SUBSET (logs \cup touched), touched \subseteq touched',
           board' \subseteq logs', board \ board' \subseteq touched',
           images \ images' \subseteq touched',
           images' \cap (board \cup cleaning) \subseteq board' \cup cleaning'
    PROVE  IInv'
<1>1. /\ TypeOK /\ StartInv /\ CollectInv /\ PostHasRow /\ ImagesOfPosts
      /\ \A c \in Crawls : FilesOK(c, crawl[c])
  BY DEF IInv, FilesInv, CollectInv
<1>2. CollectInv'
  <2>1. TypeOK'
    BY <1>1 DEF TypeOK
  <2>2. \A c \in Crawls : LocalOK(c, crawl'[c], logs')
    <3>1. \A c \in Crawls : crawl[c] \in Local /\ LocalOK(c, crawl[c], logs)
      BY <1>1 DEF CollectInv, TypeOK
    <3>2. logs \in SUBSET Key
      BY <1>1 DEF TypeOK
    <3> QED
      BY <3>1, <3>2, FewerOK
  <2> QED
    BY <1>1, <2>1, <2>2 DEF CollectInv, Sole, CollectedByOneCrawl, Active
<1>3. PostHasRow'
  BY <1>1 DEF PostHasRow
<1>4. ImagesOfPosts'
  BY <1>1 DEF ImagesOfPosts, Active
<1>5. ASSUME NEW c \in Crawls PROVE FilesOK(c, crawl[c])'
  <2>1. FilesOK(c, crawl[c]) /\ crawl'[c] = crawl[c]
    BY <1>1
  <2>2. Uploads(c)' \subseteq Uploads(c)
    BY DEF Uploads
  <2>3. images' \cap crawl[c].saved \subseteq board' \cup cleaning'
    BY <2>1 DEF FilesOK
  <2>4. \A n \in 1..Len(crawl[c].cands) : crawl[c].cands[n] \in images' \ (logs' \cup touched')
    BY <2>1 DEF FilesOK
  <2> QED
    BY <2>1, <2>2, <2>3, <2>4 DEF FilesOK, Looking
<1>6. StartInv'
  <2>1. \A c \in Crawls : Uploads(c)' \subseteq Uploads(c)
    BY DEF Uploads
  <2> QED
    BY <1>1, <2>1 DEF StartInv, ReadOK, Active
<1> QED
  BY <1>2, <1>3, <1>4, <1>5, <1>6, FailuresStay DEF IInv, FilesInv

\* What the steps of a deletion start from.
LEMMA StoredNow ==
    ASSUME IInv
    PROVE  /\ TypeOK /\ AdminOK /\ PostHasRow
           /\ board \in SUBSET Key /\ logs \in SUBSET Key /\ images \in SUBSET Key
           /\ cleaning \in SUBSET Key /\ touched \in SUBSET Key
           /\ admin \in [Admins -> Request] /\ \A a \in Admins : admin[a].rows \subseteq touched
BY DEF IInv, FilesInv, CollectInv, TypeOK, AdminOK

\* Posts are deleted.
LEMMA TakeDownStep ==
    ASSUME IInv, NEW posts \in SUBSET board, TakeDown(posts)
    PROVE  IInv'
<1>1. /\ board' = board \ posts /\ cleaning' = cleaning \cup (posts \cap images)
      /\ touched' = touched \cup posts
      /\ UNCHANGED <<newest, target, logs, failed, images, crawl, admin, since, stale>>
  BY DEF TakeDown
<1>2. AdminOK'
  BY <1>1, StoredNow DEF AdminOK
<1>3. board' \subseteq logs' /\ touched' \in SUBSET (logs \cup touched) /\ cleaning' \in SUBSET Key
  BY <1>1, StoredNow DEF PostHasRow
<1> QED
  BY <1>1, <1>2, <1>3, StoredNow, DeletionStep

\* A post loses its images to an edit.
LEMMA EditPostStep ==
    ASSUME IInv, NEW k \in board, EditPost(k)
    PROVE  IInv'
<1>1. /\ cleaning' = cleaning \cup ({k} \cap images) /\ touched' = touched \cup {k}
      /\ UNCHANGED <<newest, target, board, logs, failed, images, crawl, admin, since, stale>>
  BY DEF EditPost
<1>2. AdminOK'
  BY <1>1, StoredNow DEF AdminOK
<1>3. board' \subseteq logs' /\ touched' \in SUBSET (logs \cup touched) /\ cleaning' \in SUBSET Key
  BY <1>1, StoredNow DEF PostHasRow
<1> QED
  BY <1>1, <1>2, <1>3, StoredNow, DeletionStep

\* A file is cleaned.
LEMMA CleanFileStep ==
    ASSUME IInv, NEW k \in cleaning, CleanFile(k)
    PROVE  IInv'
<1>1. /\ images' = images \ {k} /\ cleaning' = cleaning \ {k}
      /\ UNCHANGED <<newest, target, board, logs, failed, touched, crawl, admin, since, stale>>
  BY DEF CleanFile
<1>2. AdminOK' /\ k \in touched
  BY <1>1, StoredNow DEF AdminOK
<1>3. board' \subseteq logs' /\ images \ images' \subseteq touched'
  BY <1>1, <1>2, StoredNow DEF PostHasRow
<1> QED
  BY <1>1, <1>2, <1>3, StoredNow, DeletionStep

\* Rows are read to be deleted.
LEMMA DeleteLogsStep ==
    ASSUME IInv, NEW a \in Admins, NEW rows \in SUBSET logs, DeleteLogs(a, rows)
    PROVE  IInv'
<1> DEFINE r == [idle EXCEPT !.pc = "files", !.rows = rows]
<1>1. /\ SetAdmin(a, r) /\ touched' = touched \cup rows
      /\ UNCHANGED <<newest, target, board, logs, failed, images, cleaning, crawl, since, stale>>
  BY DEF DeleteLogs
<1>2. r \in Request /\ r.pc = "files" /\ r.rows = rows
  <2>1. rows \in SUBSET Key
    BY StoredNow
  <2> QED
    BY <2>1 DEF idle, Request
<1> HIDE DEF r
<1>3. /\ admin' \in [Admins -> Request] /\ admin'[a] = r
      /\ \A b \in Admins \ {a} : admin'[b] = admin[b]
  BY <1>1, <1>2, StoredNow, SetAdminCorrect
<1>4. AdminOK'
  BY <1>1, <1>2, <1>3, StoredNow DEF AdminOK
<1>5. board' \subseteq logs' /\ touched' \in SUBSET (logs \cup touched) /\ cleaning' \in SUBSET Key
  BY <1>1, StoredNow DEF PostHasRow
<1>6. \A b \in Admins : admin'[b].pc = "write" => admin'[b] = admin[b]
  BY <1>2, <1>3
<1> QED
  BY <1>1, <1>3, <1>4, <1>5, <1>6, StoredNow, DeletionStep

\* The next statement of a deletion.
LEMMA NextStatement ==
    ASSUME IInv, NEW a \in Admins, NEW pc \in {"posts", "rows"}, Step(a, pc)
    PROVE  /\ admin' \in [Admins -> Request]
           /\ admin'[a].pc = pc /\ admin'[a].rows = admin[a].rows
           /\ \A b \in Admins \ {a} : admin'[b] = admin[b]
           /\ \A b \in Admins : admin'[b].pc = "write" => admin'[b] = admin[b]
<1> DEFINE r == [admin[a] EXCEPT !.pc = pc]
<1>1. r \in Request /\ r.pc = pc /\ r.rows = admin[a].rows
  <2>1. admin[a] \in Request
    BY StoredNow
  <2> QED
    BY <2>1 DEF Request
<1>2. SetAdmin(a, r)
  BY DEF Step
<1> HIDE DEF r
<1>3. /\ admin' \in [Admins -> Request] /\ admin'[a] = r
      /\ \A b \in Admins \ {a} : admin'[b] = admin[b]
  BY <1>1, <1>2, StoredNow, SetAdminCorrect
<1> QED
  BY <1>1, <1>3

\* The files of the rows go first.
LEMMA DeleteFilesStep ==
    ASSUME IInv, NEW a \in Admins, DeleteFiles(a)
    PROVE  IInv'
<1>1. /\ Step(a, "posts") /\ images' = images \ (admin[a].rows \ cleaning)
      /\ UNCHANGED <<newest, target, board, logs, failed, cleaning, touched, crawl, since, stale>>
  BY DEF DeleteFiles
<1>2. /\ admin' \in [Admins -> Request]
      /\ admin'[a].pc = "posts" /\ admin'[a].rows = admin[a].rows
      /\ \A b \in Admins \ {a} : admin'[b] = admin[b]
      /\ \A b \in Admins : admin'[b].pc = "write" => admin'[b] = admin[b]
  BY <1>1, NextStatement
<1>3. AdminOK'
  BY <1>1, <1>2, StoredNow DEF AdminOK
<1>4. board' \subseteq logs' /\ images \ images' \subseteq touched'
  BY <1>1, StoredNow DEF PostHasRow
<1> QED
  BY <1>1, <1>2, <1>3, <1>4, StoredNow, DeletionStep

\* Then their posts.
LEMMA DeletePostsStep ==
    ASSUME IInv, NEW a \in Admins, DeletePosts(a)
    PROVE  IInv'
<1>1. /\ HasPc(a, "posts") /\ Step(a, "rows") /\ board' = board \ admin[a].rows
      /\ UNCHANGED <<newest, target, logs, failed, images, cleaning, touched, crawl, since, stale>>
  BY DEF DeletePosts
<1>2. /\ admin' \in [Admins -> Request]
      /\ admin'[a].pc = "rows" /\ admin'[a].rows = admin[a].rows
      /\ \A b \in Admins \ {a} : admin'[b] = admin[b]
      /\ \A b \in Admins : admin'[b].pc = "write" => admin'[b] = admin[b]
  BY <1>1, NextStatement
<1>3. images \cap admin[a].rows \subseteq cleaning
  BY <1>1, StoredNow DEF AdminOK, HasPc
<1>4. AdminOK'
  BY <1>1, <1>2, <1>3, StoredNow DEF AdminOK
<1>5. board' \subseteq logs' /\ board \ board' \subseteq touched'
  BY <1>1, StoredNow DEF PostHasRow
<1> QED
  BY <1>1, <1>2, <1>3, <1>4, <1>5, StoredNow, DeletionStep

\* A request that is done, or broken off.
LEMMA DoneStatement ==
    ASSUME IInv, NEW a \in Admins, SetAdmin(a, idle)
    PROVE  /\ admin' \in [Admins -> Request] /\ admin'[a].rows = {} /\ admin'[a].pc = "idle"
           /\ \A b \in Admins \ {a} : admin'[b] = admin[b]
           /\ \A b \in Admins : admin'[b].pc = "write" => admin'[b] = admin[b]
BY StoredNow, SetAdminCorrect, IdleCorrect

\* The rows go last.
LEMMA DeleteRowsStep ==
    ASSUME IInv, NEW a \in Admins, DeleteRows(a)
    PROVE  IInv'
<1>1. /\ HasPc(a, "rows") /\ SetAdmin(a, idle) /\ logs' = logs \ admin[a].rows
      /\ UNCHANGED <<newest, target, board, failed, images, cleaning, touched, crawl, since, stale>>
  BY DEF DeleteRows
<1>2. /\ admin' \in [Admins -> Request] /\ admin'[a].rows = {} /\ admin'[a].pc = "idle"
      /\ \A b \in Admins \ {a} : admin'[b] = admin[b]
      /\ \A b \in Admins : admin'[b].pc = "write" => admin'[b] = admin[b]
  BY <1>1, DoneStatement
<1>3. AdminOK'
  BY <1>1, <1>2, StoredNow DEF AdminOK
<1>4. board' \subseteq logs'
  BY <1>1, StoredNow DEF PostHasRow, AdminOK, HasPc
<1> QED
  BY <1>1, <1>2, <1>3, <1>4, StoredNow, DeletionStep

\* A deletion breaks off, or an update.
LEMMA BreakOffStep ==
    ASSUME IInv, NEW a \in Admins, BreakOff(a)
    PROVE  IInv'
<1>1. /\ SetAdmin(a, idle) /\ images' \in SUBSET images /\ images \ images' \subseteq admin[a].rows
      /\ UNCHANGED <<newest, target, board, logs, failed, cleaning, touched, crawl, since, stale>>
  BY DEF BreakOff
<1>2. /\ admin' \in [Admins -> Request] /\ admin'[a].rows = {} /\ admin'[a].pc = "idle"
      /\ \A b \in Admins \ {a} : admin'[b] = admin[b]
      /\ \A b \in Admins : admin'[b].pc = "write" => admin'[b] = admin[b]
  BY <1>1, DoneStatement
<1>3. AdminOK'
  BY <1>1, <1>2, StoredNow DEF AdminOK
<1>4. board' \subseteq logs' /\ images \ images' \subseteq touched'
  BY <1>1, StoredNow DEF PostHasRow
<1> QED
  BY <1>1, <1>2, <1>3, <1>4, StoredNow, DeletionStep

-------------------------------------------------------------------------------
(* The invariants of the specification.                                      *)

\* At the beginning no crawl has run.
LEMMA InitCorrect == Init => IInv
<1> SUFFICES ASSUME Init PROVE IInv
  OBVIOUS
<1>1. /\ MaxId \in Nat \ {0} /\ Pages \in Nat \ {0} /\ MaxAttempts \in Nat \ {0} /\ None \notin Ids
  BY CrawlTargetAssumption DEF Ids
<1>2. newest \in [Galleries -> Ids] /\ stale = FALSE /\ \A g \in Galleries : newest[g] <= newest[g]
  <2>1. newest \in [Galleries -> Ids] /\ stale = FALSE
    BY <1>1 DEF Init, Ids
  <2>2. \A g \in Galleries : newest[g] \in Int
    BY <2>1 DEF Ids
  <2> QED
    BY <2>1, <2>2
<1>3. /\ Unused("new") \in Local /\ Unused("new").pc = "new"
      /\ Unused("new").cands = <<>> /\ Unused("new").saved = {} /\ Unused("new").after = None
  BY UnusedCorrect
<1>4. crawl \in [Crawls -> Local] /\ \A c \in Crawls : crawl[c] = Unused("new")
  BY <1>3 DEF Init
<1>5. /\ board = {} /\ logs = {} /\ images = {} /\ cleaning = {} /\ touched = {}
      /\ failed \in [Ids -> Nat] /\ \A i \in Ids : failed[i] = 0
  BY DEF Init
<1>6. /\ target \in TargetRow /\ target.baseline = None /\ since = newest[target.gallery]
      /\ admin \in [Admins -> Request]
      /\ \A a \in Admins : admin[a].pc \in {"idle", "capture"} /\ admin[a].rows = {}
  <2>1. PICK on \in BOOLEAN, only \in BOOLEAN, g \in Galleries, a \in Admins :
               /\ target = [isActive |-> on, onlyNew |-> only, gallery |-> g, baseline |-> None]
               /\ admin = [b \in Admins |->
                             [idle EXCEPT !.pc = IF only /\ b = a THEN "capture" ELSE "idle"]]
               /\ since = newest[g]
    BY DEF Init
  <2>2. target \in TargetRow /\ target.baseline = None /\ since = newest[target.gallery]
    BY <2>1 DEF TargetRow
  <2>3. ASSUME NEW b \in Admins
        PROVE  admin[b] \in Request /\ admin[b].pc \in {"idle", "capture"} /\ admin[b].rows = {}
    <3> DEFINE pc == IF only /\ b = a THEN "capture" ELSE "idle"
    <3>1. pc \in {"idle", "capture"} /\ admin[b] = [idle EXCEPT !.pc = pc]
      BY <2>1
    <3> HIDE DEF pc
    <3> QED
      BY <3>1, IdleCorrect
  <2>4. admin \in [Admins -> Request]
    BY <2>1, <2>3
  <2> QED
    BY <2>2, <2>3, <2>4
<1>7. TypeOK
  <2>1. since \in Ids /\ stale \in BOOLEAN
    BY <1>2, <1>6 DEF TargetRow
  <2>2. {board, logs, images, cleaning, touched} \subseteq SUBSET Key
    BY <1>5
  <2> QED
    BY <1>2, <1>4, <1>5, <1>6, <2>1, <2>2 DEF TypeOK
<1>8. \A c \in Crawls : LocalOK(c, crawl[c], logs)
  BY <1>3, <1>4, <1>5, EmptyOK
<1>9. CollectInv
  BY <1>3, <1>4, <1>5, <1>7, <1>8 DEF CollectInv, Sole, Active, CollectedByOneCrawl
<1>10. AdminOK /\ PostHasRow /\ ImagesOfPosts
  BY <1>5, <1>6 DEF AdminOK, PostHasRow, ImagesOfPosts
<1>11. \A c \in Crawls : FilesOK(c, crawl[c])
  BY <1>3, <1>4, <1>5 DEF FilesOK, Looking, Uploads
<1>12. FailuresInv
  <2>1. ASSUME NEW i \in Ids, NEW c \in Crawls PROVE FailuresOK(crawl[c], i, failed[i])
    <3>1. PagesOf(crawl[c], i) = {}
      BY <1>3, <1>4 DEF PagesOf
    <3>2. Cardinality(PagesOf(crawl[c], i)) = 0
      BY <3>1, FS_EmptySet
    <3> QED
      BY <1>1, <1>3, <1>4, <1>5, <3>2 DEF FailuresOK
  <2>2. AttemptsBounded
    BY <1>1, <1>5 DEF AttemptsBounded
  <2> QED
    BY <2>1, <2>2 DEF FailuresInv
<1>13. StartInv
  <2>1. since <= newest[target.gallery]
    BY <1>2, <1>6 DEF TargetRow
  <2> QED
    BY <1>3, <1>4, <1>6, <2>1 DEF StartInv, Active
<1> QED
  BY <1>9, <1>10, <1>11, <1>12, <1>13 DEF IInv, FilesInv

\* Every step keeps it.
LEMMA NextCorrect == IInv /\ [Next]_vars => IInv'
<1> SUFFICES ASSUME IInv, [Next]_vars PROVE IInv'
  OBVIOUS
<1>1. ASSUME NEW g \in Galleries, GalleryPost(g) PROVE IInv'
  BY <1>1, GalleryPostStep
<1>2. CASE StopByTimer
  BY <1>2, StopByTimerStep
<1>3. ASSUME NEW a \in Admins, ReadTarget(a) \/ \E body \in Bodies : UpdateTarget(a, body) PROVE IInv'
  BY <1>3, ReadTargetStep, UpdateTargetStep
<1>4. ASSUME NEW a \in Admins, AdminReadsRow(a) \/ AdminWritesBaseline(a) PROVE IInv'
  BY <1>4, AdminReadsRowStep, AdminWritesBaselineStep
<1>5. ASSUME NEW a \in Admins, NEW rows \in SUBSET logs, DeleteLogs(a, rows) PROVE IInv'
  BY <1>5, DeleteLogsStep
<1>6. ASSUME NEW a \in Admins, DeleteFiles(a) \/ DeletePosts(a) \/ DeleteRows(a) \/ BreakOff(a) PROVE IInv'
  BY <1>6, DeleteFilesStep, DeletePostsStep, DeleteRowsStep, BreakOffStep
<1>7. ASSUME \/ \E posts \in SUBSET board : TakeDown(posts)
             \/ \E k \in board : EditPost(k)
             \/ \E k \in cleaning : CleanFile(k)
      PROVE  IInv'
  BY <1>7, TakeDownStep, EditPostStep, CleanFileStep
<1>8. ASSUME NEW c \in Crawls, NEW manual \in BOOLEAN, NEW oldest \in BOOLEAN, Start(c, manual, oldest)
      PROVE  IInv'
  BY <1>8, StartStep
<1>9. ASSUME NEW c \in Crawls, ReadNewest(c) \/ WriteBaseline(c) PROVE IInv'
  BY <1>9, ReadNewestStep, WriteBaselineStep
<1>10. ASSUME NEW c \in Crawls, FetchPage(c) \/ CheckItem(c) \/ PrepareItem(c) PROVE IInv'
  BY <1>10, FetchPageStep, CheckItemStep, PrepareItemStep
<1>11. ASSUME NEW c \in Crawls, Rewrite(c) \/ Answer(c) \/ Store(c) PROVE IInv'
  BY <1>11, RewriteStep, AnswerStep, StoreStep
<1>12. ASSUME NEW c \in Crawls, Cleanup(c) \/ Die(c) \/ Abort(c) PROVE IInv'
  BY <1>12, CleanupStep, AbortStep
<1>13. CASE UNCHANGED vars
  BY <1>13, StutterStep
<1> QED
  BY <1>1, <1>2, <1>3, <1>4, <1>5, <1>6, <1>7, <1>8, <1>9, <1>10, <1>11, <1>12, <1>13 DEF Next

\* The inductive invariant, of every behaviour.
THEOREM IInvCorrect == Spec => []IInv
BY InitCorrect, NextCorrect, PTL DEF Spec

\* Every variable keeps its type: no page or list entry is out of range.
THEOREM TypeCorrect == Spec => []TypeOK
<1>1. IInv => TypeOK
  BY DEF IInv, FilesInv, CollectInv
<1> QED
  BY <1>1, IInvCorrect, PTL

\* Rows of one source post are of one crawl, and of different pages of it, however many
\* posts appear in the gallery meanwhile (crawlTarget).
THEOREM CollectedByOneCrawlCorrect == Spec => []CollectedByOneCrawl
<1>1. IInv => CollectedByOneCrawl
  BY DEF IInv, FilesInv, CollectInv
<1> QED
  BY <1>1, IInvCorrect, PTL

\* A post that a crawl stored has its SUCCESS row, and only a row whose post someone began
\* to delete is without one, wherever a deletion breaks off (crawlTarget, remove,
\* purgePostBatch, deleteBoardWithPosts, deleteCrawlerLogs).
THEOREM PostHasRowCorrect == Spec => []PostHasRow
<1>1. IInv => PostHasRow
  BY DEF IInv, FilesInv
<1> QED
  BY <1>1, IInvCorrect, PTL

\* A post is tried no more often than the limit and the pages of one crawl allow
\* (MAX_POST_ATTEMPTS).
THEOREM AttemptsBoundedCorrect == Spec => []AttemptsBounded
<1>1. IInv => AttemptsBounded
  BY DEF IInv, FailuresInv
<1> QED
  BY <1>1, IInvCorrect, PTL

\* Every file is of a post, of the crawl at work, or owed to a deletion or edit; every post
\* nobody deleted or edited has its files (the finally of crawlTarget, deleteCrawlerLogs).
THEOREM ImagesOfPostsCorrect == Spec => []ImagesOfPosts
<1>1. IInv => ImagesOfPosts
  BY DEF IInv, FilesInv
<1> QED
  BY <1>1, IInvCorrect, PTL

\* A crawl takes up only what appeared after the collection was switched on, whatever
\* stops, switches and requests come in between, unless its baseline is older than the
\* switch (newPostsAfterId).
THEOREM StartPointKeptCorrect == Spec => []StartPointKept
<1>1. ASSUME IInv PROVE StartPointKept
  <2> SUFFICES ASSUME NEW c \in Crawls, Active(c), crawl[c].after # None, ~crawl[c].old,
                      NEW k \in Uploads(c)
               PROVE  k.src > since
    BY DEF StartPointKept
  <2>1. since <= crawl[c].after /\ crawl[c].after < k.src
    BY <1>1 DEF IInv, StartInv
  <2>2. since \in Ids /\ crawl[c].after \in Ids \cup {None} /\ MaxId \in Nat /\ k \in Key
    BY <1>1, LocalNow, CrawlTargetAssumption
       DEF IInv, FilesInv, CollectInv, TypeOK, Local, Uploads
  <2>3. since \in Int /\ crawl[c].after \in Int /\ k.src \in Int
    BY <2>2 DEF Ids, Key
  <2> QED
    BY <2>1, <2>3
<1> QED
  BY <1>1, IInvCorrect, PTL

===============================================================================
