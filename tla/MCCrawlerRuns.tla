---------------------------- MODULE MCCrawlerRuns -----------------------------
(* Model values and bounds for CrawlerRuns.                                *)
EXTENDS CrawlerRuns, TLC

\* runs are interchangeable
RunSymmetry == Permutations(Runs)

=============================================================================
