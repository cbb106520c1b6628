---------------------------- MODULE MCAgentJobs ----------------------------
(***************************************************************************)
(* Small instances of AgentJobs for TLC.                                   *)
(***************************************************************************)
EXTENDS AgentJobs, TLC

CONSTANTS j1, j2, t1, t2, t3, c1, c2, c3

OneJob  == {j1}
TwoJobs == {j1, j2}

OneTask    == {t1}
TwoTasks   == {t1, t2}
ThreeTasks == {t1, t2, t3}

NoText     == {}
OneText    == {c1}
TwoTexts   == {c1, c2}
ThreeTexts == {c1, c2, c3}

\* The tasks and the texts are interchangeable; the jobs are not, because the
\* initial value of the task slots names one of them.
Interchangeable == Permutations(Tasks) \cup Permutations(Corrections)
=============================================================================
