----------------------------- MODULE MCJobQueue -----------------------------
(* Instances of JobQueue for TLC.                                          *)
EXTENDS JobQueue, TLC

CONSTANTS w1, w2

TwoJobs == {1, 2}
TwoWorkers == {w1, w2}
OneWorkerSteady == {w1}

\* w2 never asks for the kind of job 2, but retires it all the same.
SplitKinds == (w1 :> TwoJobs) @@ (w2 :> {1})

\* A bound of these runs: only the job both ask for is retried by hand.
MCNext == Next /\ retries'[2] = 0
MCFairSpec == Init /\ [][MCNext]_vars /\ Fairness
=============================================================================
