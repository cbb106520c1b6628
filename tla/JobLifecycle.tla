---------------------------- MODULE JobLifecycle ----------------------------
(***************************************************************************)
(* What a detached job promises to its user, whatever happens below:       *)
(*                                                                         *)
(*   - a job appears once and is never revived once it is over;            *)
(*   - while it waits for the user, only the user or the long timeout may  *)
(*     end it, and nothing may drop it;                                    *)
(*   - its verdict is final, except "worker_restart", the sweep's guess,   *)
(*     which a living agent may correct;                                   *)
(*   - only a job that is over is deleted.  A list that is full may take   *)
(*     a job away in the step that ends it.                                *)
(*                                                                         *)
(* AgentJobs implements this specification (Lifecycle there).              *)
(***************************************************************************)
CONSTANTS
    Jobs,
    Verdicts,       \* what a job may end with
    Guess,          \* the verdict of the stale sweep
    UserVerdicts,   \* the verdicts a waiting job may end with
    NoVerdict

ASSUME VerdictAssumption ==
    /\ Guess \in Verdicts /\ UserVerdicts \subseteq Verdicts \ {Guess}
    /\ NoVerdict \notin Verdicts

VARIABLE life   \* life[j]: the phase of the job and its verdict

Open == [phase : {"none", "working", "waiting", "gone"}, verdict : {NoVerdict}]
Over == [phase : {"over"}, verdict : Verdicts]

LifeOK == life \in [Jobs -> Open \cup Over]

LifeInit == life = [j \in Jobs |-> [phase |-> "none", verdict |-> NoVerdict]]

\* What one step may make of one job.
MayBecome(old, new) ==
    \/ new = old
    \/ old.phase = "none"    /\ new.phase = "working"
    \/ old.phase = "working" /\ new.phase \in {"waiting", "over", "gone"}
    \/ old.phase = "waiting" /\ \/ new.phase = "working"
                                \/ new.phase = "over" /\ new.verdict \in UserVerdicts
    \/ old.phase = "over"    /\ \/ new.phase = "gone"
                                \/ new.phase = "over" /\ old.verdict = Guess

\* A full list may delete several jobs in one step.
LifeNext ==
    /\ life' \in [Jobs -> Open \cup Over]
    /\ \A j \in Jobs : MayBecome(life[j], life'[j])

LifeSpec == LifeInit /\ [][LifeNext]_life
=============================================================================
