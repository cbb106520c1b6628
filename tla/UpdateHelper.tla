---------------------------- MODULE UpdateHelper ----------------------------
(***************************************************************************)
(* The update helper (update_helper.py): a small service beside the        *)
(* application that runs an update, or the restart of a service, in a      *)
(* thread, and tells by a state file whether one is running.               *)
(*                                                                         *)
(* Every read and write of the file is a step.  The thread that was        *)
(* accepted writes "running" itself, later than the check that accepted    *)
(* it; a status request that finds a failure validates the stack, for up   *)
(* to two minutes, and then writes what it found.  The process may die at  *)
(* any moment.  Left out: the log, tokens, and what the commands do.       *)
(***************************************************************************)
EXTENDS Naturals, FiniteSets

CONSTANT Operations  \* slots for updates and restarts

VARIABLES
    file,        \* state.json: "running", "status", and whether it tells of a failure
    operation,   \* operation[o]: the thread that carries it out
    reconciling, \* is a status request validating the stack?
    alive        \* does the process of the helper run?

helperVars == <<file, operation, reconciling, alive>>

-----------------------------------------------------------------------------
Phases == {"none", "accepted", "updating", "repairing", "checking"}

Working(o) == operation[o] \in {"updating", "repairing", "checking"}

HelperTypeOK ==
    /\ file \in [running : BOOLEAN, status : {"idle", "running", "ok", "error"}, failed : BOOLEAN]
    /\ file.running => file.status = "running"
    /\ file.status = "error" => file.failed
    /\ operation \in [Operations -> Phases]
    /\ reconciling \in BOOLEAN /\ alive \in BOOLEAN
    /\ ~alive => ~reconciling /\ \A o \in Operations : operation[o] = "none"

HelperInit ==
    /\ file = [running |-> FALSE, status |-> "idle", failed |-> FALSE]
    /\ operation = [o \in Operations |-> "none"]
    /\ reconciling = FALSE
    /\ alive = TRUE

Phase(o, phase) == operation' = [operation EXCEPT ![o] = phase]

-----------------------------------------------------------------------------
\* /run and /service/restart, under STATE_LOCK; refused with 409 when one is running.
Accept(o) ==
    /\ alive /\ operation[o] = "none"
    /\ ~file.running
    /\ Phase(o, "accepted")
    /\ UNCHANGED <<file, reconciling, alive>>

\* The first thing the thread does.
Begin(o) ==
    /\ operation[o] = "accepted"
    /\ file' = [running |-> TRUE, status |-> "running", failed |-> FALSE]
    /\ Phase(o, "updating")
    /\ UNCHANGED <<reconciling, alive>>

\* A success leaves last_error, which another operation may have written, alone.
EndedStillRunning(ok) ==                                                   \* mutant
    [file EXCEPT !.status = IF ok THEN "ok" ELSE "error"]
Ended(ok) ==
    [running |-> FALSE, status |-> IF ok THEN "ok" ELSE "error", failed |-> file.failed \/ ~ok]

EndOperation(o, ok) ==
    /\ Working(o)
    /\ file' = Ended(ok)
    /\ Phase(o, "none")
    /\ UNCHANGED <<reconciling, alive>>

\* A managed update that fails is repaired once.
Repair(o) ==
    /\ operation[o] = "updating"
    /\ Phase(o, "repairing")
    /\ UNCHANGED <<file, reconciling, alive>>

\* _wait_for_health: two minutes, then the update has failed.
Check(o) ==
    /\ operation[o] \in {"updating", "repairing"}
    /\ Phase(o, "checking")
    /\ UNCHANGED <<file, reconciling, alive>>

\* Every command may fail; a restart and a local update end without a check.
FinishOperation(o) ==
    \/ EndOperation(o, FALSE)
    \/ operation[o] \in {"updating", "checking"} /\ EndOperation(o, TRUE)

Work(o) == Begin(o) \/ Repair(o) \/ Check(o) \/ FinishOperation(o)

-----------------------------------------------------------------------------
\* _reconcile_stale_error_state: by one request at a time, at most every 15 seconds.
FindFailure ==
    /\ alive /\ ~reconciling
    /\ ~file.running /\ file.failed
    /\ reconciling' = TRUE
    /\ UNCHANGED <<file, operation, alive>>

\* What has been written since is overwritten.
Recover ==
    /\ reconciling
    /\ file' = [running |-> FALSE, status |-> "ok", failed |-> FALSE]
    /\ reconciling' = FALSE
    /\ UNCHANGED <<operation, alive>>

StillFailed ==
    /\ reconciling
    /\ reconciling' = FALSE
    /\ UNCHANGED <<file, operation, alive>>

-----------------------------------------------------------------------------
\* Also by the update itself, when it recreates the container of the helper.
HelperDies ==
    /\ alive
    /\ alive' = FALSE
    /\ operation' = [o \in Operations |-> "none"]
    /\ reconciling' = FALSE
    /\ UNCHANGED file

\* _normalize_state_after_restart
NormalizedNot == file                                                      \* mutant
Normalized ==
    IF file.running THEN [running |-> FALSE, status |-> "error", failed |-> TRUE] ELSE file

HelperStarts ==
    /\ ~alive
    /\ alive' = TRUE
    /\ file' = Normalized
    /\ UNCHANGED <<operation, reconciling>>

-----------------------------------------------------------------------------
HelperNext ==
    \/ \E o \in Operations : Accept(o) \/ Work(o)
    \/ FindFailure \/ Recover \/ StillFailed \/ HelperDies \/ HelperStarts

\* Threads run and the container is restarted; that the commands of docker end is
\* assumed of docker, for the code gives them no time limit.
HelperFairness ==
    /\ \A o \in Operations : WF_helperVars(Work(o))
    /\ WF_helperVars(HelperStarts)

HelperSpec == HelperInit /\ [][HelperNext]_helperVars /\ HelperFairness

-----------------------------------------------------------------------------
(***************************************************************************)
(* "Running" is the truth: while the file says so, and refuses every other *)
(* operation, a thread of this process is at work and will write its end,  *)
(* also after two threads were let in, a recovery, or a restart.           *)
(***************************************************************************)
RunningHasWorker == alive /\ file.running => \E o \in Operations : Working(o)

\* The helper does not stay busy: some time it accepts an operation again.
HelperSettles == file.running ~> ~file.running

(***************************************************************************)
(* "An update is already running": one operation at a time.  The code does *)
(* not keep it: a second request is accepted before the first thread has   *)
(* written that it runs, and another one after a recovery overwrote that.  *)
(***************************************************************************)
OneOperation == Cardinality({o \in Operations : Working(o)}) <= 1
=============================================================================
