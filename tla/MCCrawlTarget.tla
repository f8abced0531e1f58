---------------------------- MODULE MCCrawlTarget -----------------------------
(* Model values and bounds for CrawlTarget.                                *)
EXTENDS CrawlTarget, FiniteSets, TLC

\* crawls and galleries are interchangeable
CrawlSymmetry == Permutations(Crawls) \cup Permutations(Galleries)

\* the target collects every post, as it did from the start, and nobody changes that
AsCreated ==
    /\ target.isActive /\ ~target.onlyNew /\ target.baseline = None
    /\ \A a \in Admins : admin[a].pc \notin {"update", "capture", "write"}
    /\ since = 1 /\ \A g \in Galleries \ {target.gallery} : newest[g] = 1

NothingStored == logs \cup touched = {} /\ \A i \in Ids : failed[i] = 0

\* bound: registering and deleting is looked at with the settings the target was created
\* with, one post at most being deleted or edited; changes of the settings are looked at
\* while nothing is registered, with one upload at most and crawls that nobody stops
SettingsApart ==
    \/ AsCreated /\ Cardinality(touched) <= 1
    \/ /\ NothingStored
       /\ Cardinality(images) <= 1
       /\ \A c \in Crawls : ~crawl[c].aborted

===============================================================================
