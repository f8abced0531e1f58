----------------------------- MODULE ChatHistory ------------------------------
(* The messages of a chat room: the list of recent ones in Redis, the table  *)
(* behind it, and the BullMQ queue between them (ChatService, ChatProcessor, *)
(* ChatRepository).  Every command to Redis and every statement is one step; *)
(* requests overlap, and any of them may end between two steps, when Redis   *)
(* fails or the process dies.  Who may write or delete is left out.          *)
EXTENDS Integers, FiniteSets, Sequences, SequencesExt

CONSTANTS Requests,    \* requests, each used once
          MaxMessages, \* bound: messages are numbered as they are created
          CacheSize,   \* RECENT_CACHE_SIZE
          Limit        \* messages a history request asks for

ASSUME ChatHistoryAssumption ==
    /\ {MaxMessages, CacheSize, Limit} \subseteq Nat \ {0}
    /\ Limit <= CacheSize

VARIABLES
    recent,   \* the Redis list, newest first
    table,    \* chat_messages: its rows
    jobs,     \* the queue: messages whose job is waiting for an attempt
    persist,  \* chat_settings.persistEnabled
    created,  \* number of messages created
    req,      \* what each request is doing
    sent,     \* history: messages put on the list, in the order it should have
    removed,  \* history: messages whose deletion began
    gone,     \* history: messages deleted from list and table
    late,     \* history: messages written to the table after that
    held,     \* history: messages a rebuild of the list carried while they were deleted
    missed,   \* history: messages a rebuild of the list may have dropped
    crossed   \* history: two rebuilds of the list were under way at once

vars == <<recent, table, jobs, persist, created, req, sent, removed, gone, late, held, missed, crossed>>

Messages == 1..MaxMessages
\* what a request is doing, the messages it sends or deletes, and the messages it is
\* about to put on the list
new == [pc |-> "new", ids |-> {}, rows |-> <<>>]
over == [new EXCEPT !.pc = "over"]
Phases == {"new", "over", "push", "pushed", "enqueue", "insert",
           "find", "keep", "drop", "fill", "trim", "row", "clear"}

TypeOK ==
    /\ {recent, sent} \subseteq Seq(Messages)
    /\ created \in 0..MaxMessages
    /\ {table, jobs, removed, gone, late, held, missed} \subseteq SUBSET (1..created)
    /\ persist \in BOOLEAN /\ crossed \in BOOLEAN
    /\ DOMAIN req = Requests
    /\ \A q \in Requests :
         req[q].pc \in Phases /\ req[q].ids \subseteq Messages /\ req[q].rows \in Seq(Messages)

Init ==
    /\ recent = <<>> /\ table = {} /\ created = 0
    /\ jobs = {}
    /\ persist = TRUE
    /\ req = [q \in Requests |-> new]
    /\ sent = <<>> /\ removed = {} /\ gone = {} /\ late = {} /\ held = {} /\ missed = {}
    /\ crossed = FALSE

At(q, pc) == req[q].pc = pc
Go(q, pc) == req' = [req EXCEPT ![q].pc = pc]
Step(q, r) == req' = [req EXCEPT ![q] = r]
Done(q) == Step(q, over)

\* the numbers in S, least first
Ascending(S) == [i \in 1..Cardinality(S) |-> CHOOSE n \in S : Cardinality({k \in S : k <= n}) = i]
\* the entries of a list that are not in S, in the order they have
Without(list, S) ==
    LET kept == Ascending({i \in DOMAIN list : list[i] \notin S})
    IN  [i \in DOMAIN kept |-> list[kept[i]]]

\* mutant: the oldest entries are kept
TrimmedOldest(list) == IF Len(list) > CacheSize THEN SubSeq(list, Len(list) - CacheSize + 1, Len(list)) ELSE list
\* ltrim 0 RECENT_CACHE_SIZE - 1
Trimmed(list) == IF Len(list) > CacheSize THEN SubSeq(list, 1, CacheSize) ELSE list

\* a request that puts the list together from what it read
Rebuilds(r) == r.pc \in {"drop", "fill", "trim"}
Deletes(r) == r.pc \in {"keep", "drop", "fill", "trim", "row", "clear"} /\ r.ids # {}
\* what every step adds to the history of the rebuilds
Trace ==
    LET deleting == {q \in Requests : Deletes(req'[q])}
        rebuilding == {q \in Requests : Rebuilds(req'[q])}
    IN  /\ held' = held \cup {m \in UNION {req'[p].ids : p \in deleting} :
                  \E p \in deleting, q \in rebuilding : p # q /\ m \in req'[p].ids \cap Range(req'[q].rows)}
        /\ crossed' = (crossed \/ \E p, q \in rebuilding : p # q)

-------------------------------------------------------------------------------
(* sendMessage.                                                              *)

\* the message gets its number and its time
Create(q) ==
    /\ At(q, "new") /\ created < MaxMessages
    /\ created' = created + 1
    /\ Step(q, [new EXCEPT !.pc = "push", !.ids = {created + 1}])
    /\ UNCHANGED <<recent, table, jobs, persist, sent, removed, gone, late, missed>>

Message(q) == CHOOSE m \in req[q].ids : TRUE

\* pushRecentCache, lpush: a rebuild that has read the list will not know the message
Push(q) ==
    /\ At(q, "push")
    /\ recent' = <<Message(q)>> \o recent
    /\ sent' = Append(sent, Message(q))
    /\ missed' = IF \E p \in Requests : Rebuilds(req[p]) THEN missed \cup {Message(q)} ELSE missed
    /\ Go(q, "pushed")
    /\ UNCHANGED <<table, jobs, persist, created, removed, gone, late>>

\* pushRecentCache, ltrim
PushTrim(q) ==
    /\ At(q, "pushed")
    /\ recent' = Trimmed(recent)
    /\ Go(q, "enqueue")
    /\ UNCHANGED <<table, jobs, persist, created, sent, removed, gone, late, missed>>

\* enqueuePersist: a job, or an insert by the request when the queue fails
Enqueue(q) ==
    /\ At(q, "enqueue")
    /\ \/ persist /\ jobs' = jobs \cup {Message(q)} /\ Done(q)
       \/ persist /\ Go(q, "insert") /\ UNCHANGED jobs
       \/ ~persist /\ Done(q) /\ UNCHANGED jobs
    /\ UNCHANGED <<recent, table, persist, created, sent, removed, gone, late, missed>>

Stored(m) ==
    /\ table' = table \cup {m}
    /\ late' = IF m \in gone /\ m \notin table THEN late \cup {m} ELSE late

\* the insert, whose failure is only logged
DirectInsert(q) ==
    /\ At(q, "insert") /\ Done(q)
    /\ Stored(Message(q)) \/ UNCHANGED <<table, late>>
    /\ UNCHANGED <<recent, jobs, persist, created, sent, removed, gone, missed>>

\* ChatProcessor.process: nothing to do when persistence was switched off; otherwise the
\* row is inserted.  The job comes again when that fails or its answer is lost, until
\* its attempts are used up (at any moment here); a second insert fails.
RunJob(m) ==
    /\ m \in jobs
    /\ \/ ~persist /\ jobs' = jobs \ {m} /\ UNCHANGED <<table, late>>
       \/ persist /\ m \notin table /\ Stored(m) /\ jobs' \in {jobs, jobs \ {m}}
       \/ persist /\ jobs' = jobs \ {m} /\ UNCHANGED <<table, late>>
    /\ UNCHANGED <<recent, persist, created, req, sent, removed, gone, missed>>

-------------------------------------------------------------------------------
(* getRecentMessages.                                                        *)

\* the newest rows of the table, newest first
Newest ==
    LET rows == Reverse(Ascending(table))
    IN  IF Len(rows) > Limit THEN SubSeq(rows, 1, Limit) ELSE rows

\* the list is read: what it holds is the answer; when it is empty the table is asked
ReadHistory(q) ==
    /\ At(q, "new") /\ recent = <<>> /\ persist
    /\ Go(q, "find")
    /\ UNCHANGED <<recent, table, jobs, persist, created, sent, removed, gone, late, missed>>

\* mutant: the rows are put on top of whatever the list holds by now
FillOnTop == "fill"
BackfillBegins == "drop"

\* findRecent
FindRecent(q) ==
    /\ At(q, "find")
    /\ IF table = {} THEN Done(q) ELSE Step(q, [new EXCEPT !.pc = BackfillBegins, !.rows = Newest])
    /\ UNCHANGED <<recent, table, jobs, persist, created, sent, removed, gone, late, missed>>

-------------------------------------------------------------------------------
(* backfillRecentCache, and removeFromRecentCache, which differ in how the   *)
(* entries are pushed.                                                       *)

\* what the request did not read is not listed any more
Drop(q) ==
    LET rows == req[q].rows IN
    /\ At(q, "drop")
    /\ recent' = <<>>
    /\ missed' = missed \cup (Range(sent) \ Range(rows))
    /\ sent' = Without(sent, Range(rows)) \o Reverse(rows)
    /\ Go(q, IF rows = <<>> THEN "row" ELSE "fill")
    /\ UNCHANGED <<table, jobs, persist, created, removed, gone, late>>

\* a backfill pushes all its rows with one command, a deletion one by one
Fill(q) ==
    LET rows == req[q].rows
        backfill == req[q].ids = {}
    IN  /\ At(q, "fill")
        /\ recent' = (IF backfill THEN rows ELSE <<Last(rows)>>) \o recent
        /\ Step(q, [req[q] EXCEPT !.rows = IF backfill THEN <<>> ELSE Front(rows),
                                  !.pc = IF backfill \/ Len(rows) = 1 THEN "trim" ELSE "fill"])
        /\ UNCHANGED <<table, jobs, persist, created, sent, removed, gone, late, missed>>

Trim(q) ==
    /\ At(q, "trim")
    /\ recent' = Trimmed(recent)
    /\ IF req[q].ids = {} THEN Done(q) ELSE Go(q, "row")
    /\ UNCHANGED <<table, jobs, persist, created, sent, removed, gone, late, missed>>

-------------------------------------------------------------------------------
(* deleteMessage and clearHistory.                                           *)

\* mutant: the message is not looked for
Unsearched == Messages
\* where findCachedMessage and findById look
Found == Range(recent) \cup table

BeginDelete(q, m) ==
    /\ At(q, "new") /\ m \in Found
    /\ removed' = removed \cup {m}
    /\ Step(q, [new EXCEPT !.pc = "keep", !.ids = {m}])
    /\ UNCHANGED <<recent, table, jobs, persist, created, sent, gone, late, missed>>

\* mutant: nothing is filtered out of the list
KeepAll(q) == recent
Kept(q) == Without(recent, req[q].ids)

\* the list is read, without the message
Keep(q) ==
    /\ At(q, "keep")
    /\ Step(q, [req[q] EXCEPT !.pc = "drop", !.rows = Kept(q)])
    /\ UNCHANGED <<recent, table, jobs, persist, created, sent, removed, gone, late, missed>>

\* deleteById, whose failure is only logged
DeleteRow(q) ==
    /\ At(q, "row") /\ Done(q)
    /\ \/ table' = table \ req[q].ids /\ gone' = gone \cup req[q].ids
       \/ UNCHANGED <<table, gone>>
    /\ UNCHANGED <<recent, jobs, persist, created, sent, removed, late, missed>>

\* clearHistory: the list is deleted, unless Redis fails, ...
ClearList(q) ==
    /\ At(q, "new")
    /\ \/ LET all == Range(recent) \cup table IN
          /\ recent' = <<>>
          /\ removed' = removed \cup all
          /\ Step(q, [new EXCEPT !.pc = "clear", !.ids = all])
       \/ Go(q, "clear") /\ UNCHANGED <<recent, removed>>
    /\ UNCHANGED <<table, jobs, persist, created, sent, gone, late, missed>>

\* ... and then the rows
ClearRows(q) ==
    /\ At(q, "clear") /\ Done(q)
    /\ table' = {}
    /\ gone' = gone \cup req[q].ids
    /\ UNCHANGED <<recent, jobs, persist, created, sent, removed, late, missed>>

-------------------------------------------------------------------------------
(* The administrator, and failures.                                          *)

\* bound: persistence is switched off, and stays off
SwitchPersistOff ==
    /\ persist /\ persist' = FALSE
    /\ UNCHANGED <<recent, table, jobs, created, req, sent, removed, gone, late, missed>>

\* a request ends between two steps: Redis fails, PostgreSQL does, or the process dies;
\* entries it had not yet put back are lost
Break(q) ==
    /\ ~At(q, "new") /\ ~At(q, "over") /\ Done(q)
    /\ missed' = IF At(q, "fill") THEN missed \cup Range(req[q].rows) ELSE missed
    /\ UNCHANGED <<recent, table, jobs, persist, created, sent, removed, gone, late>>

\* Redis restarts without its data
LoseList ==
    /\ recent # <<>> /\ recent' = <<>>
    /\ missed' = missed \cup Range(sent)
    /\ UNCHANGED <<table, jobs, persist, created, req, sent, removed, gone, late>>

-------------------------------------------------------------------------------
Request(q) ==
    \/ Create(q) \/ Push(q) \/ PushTrim(q) \/ Enqueue(q) \/ DirectInsert(q)
    \/ ReadHistory(q) \/ FindRecent(q)
    \/ Drop(q) \/ Fill(q) \/ Trim(q)
    \/ \E m \in Messages : BeginDelete(q, m)
    \/ Keep(q) \/ DeleteRow(q) \/ ClearList(q) \/ ClearRows(q)

Next ==
    /\ \/ \E q \in Requests : Request(q) \/ Break(q)
       \/ \E m \in Messages : RunJob(m)
       \/ SwitchPersistOff \/ LoseList
    /\ Trace

Spec == Init /\ [][Next]_vars

-------------------------------------------------------------------------------
(* Properties.                                                               *)

\* A deleted message comes back in two ways only: the insert that was still queued when
\* it was deleted (ChatProcessor.process), and a rebuild of the list that had read it
\* (removeFromRecentCache, backfillRecentCache).
DeletedStaysAway ==
    \A m \in gone : /\ m \in table => m \in late
                    /\ m \in Range(recent) => m \in late \cup held

\* A message is listed twice only when two rebuilds of the list crossed, whatever is sent
\* and stored meanwhile (backfillRecentCache, "del" and "lpush").
ListedOnce == crossed \/ IsInjective(recent)

\* The newest RECENT_CACHE_SIZE messages are on the list unless they were deleted, or
\* missed by a rebuild that crossed their push or broke off (pushRecentCache).
NewestListed ==
    LET first == IF Len(sent) > CacheSize THEN Len(sent) - CacheSize + 1 ELSE 1
    IN  (~crossed /\ ~\E q \in Requests : Rebuilds(req[q])) =>
            \A i \in first..Len(sent) : sent[i] \in Range(recent) \cup removed \cup missed

===============================================================================
