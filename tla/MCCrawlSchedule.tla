--------------------------- MODULE MCCrawlSchedule ----------------------------
(* Model values and bounds for CrawlSchedule.                              *)
EXTENDS CrawlSchedule, TLC

\* bound: what posts are dated depends on the clock and the crawls alone, so it is looked
\* at where the target has not been scheduled yet
DatedApart ==
    \A t \in Targets :
        latest[t] # Null \/ (Busy(t) /\ run[t].planned) =>
            schedule[t] \in {NewRow(FALSE, stop) : stop \in AutoStops}

===============================================================================
