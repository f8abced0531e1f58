------------------------------ MODULE TargetRuns -------------------------------
(***************************************************************************)
(* What the run registry promises to the rest of the crawler, without      *)
(* Redis, processes, heartbeats or cancel keys: a run of an id waits, is   *)
(* active and is over, in this order and each at most once, and of the     *)
(* runs of one id at most one waits or is active at a time.                *)
(* CrawlerRuns implements it: see Abstract there.                          *)
(***************************************************************************)
EXTENDS Naturals

CONSTANTS Runs, Ids, None

VARIABLES
  phase,  \* where a run is in its life
  of      \* the id a run crawls

absVars == <<phase, of>>

Phases == {"new", "waiting", "active", "over"}

Live(r) == phase[r] \in {"waiting", "active"}

AbsTypeOK ==
  /\ phase \in [Runs -> Phases]
  /\ of \in [Runs -> Ids \union {None}]

AbsInit ==
  /\ phase = [r \in Runs |-> "new"]
  /\ of = [r \in Runs |-> None]

\* a run is reserved for an id nobody waits for or crawls
ReserveRun(r, i) ==
  /\ phase[r] = "new"
  /\ \A x \in Runs : of[x] = i => ~Live(x)
  /\ phase' = [phase EXCEPT ![r] = "waiting"]
  /\ of' = [of EXCEPT ![r] = i]

BeginRun(r) ==
  /\ phase[r] = "waiting"
  /\ phase' = [phase EXCEPT ![r] = "active"]
  /\ UNCHANGED of

\* runs end, are cancelled, expire or die with their process, several at once
EndRuns ==
  /\ phase' \in [Runs -> Phases]
  /\ \A r \in Runs : phase'[r] = phase[r] \/ (Live(r) /\ phase'[r] = "over")
  /\ UNCHANGED of

AbsNext ==
  \/ EndRuns
  \/ \E r \in Runs : BeginRun(r) \/ \E i \in Ids : ReserveRun(r, i)

AbsSpec == AbsInit /\ [][AbsNext]_absVars

\* What the promise comes to: of the runs of one id, one at most is active.
OneActivePerId ==
  \A r, x \in Runs :
    (phase[r] = "active" /\ phase[x] = "active" /\ of[r] = of[x]) => r = x

=============================================================================
