----------------------------- MODULE AgentJobs -----------------------------
(***************************************************************************)
(* Detached agent jobs: the rows of AgentJobStore (agent_jobs.py), the     *)
(* asyncio tasks of the pipeline that own them (pipeline.py), the controls *)
(* of their user, the stale sweep and the death of a worker process.       *)
(*                                                                         *)
(* Every store method is one SQLite transaction, so it is one atomic part  *)
(* of an action; whatever may happen between two transactions of one task  *)
(* (another worker process uses the same file) is an interleaving here.    *)
(* The one exception is enforce_user_cap, a transaction of its own at the  *)
(* end of create and set_terminal, which is part of their action.          *)
(* Time is the age of updated_at: fresh, older than the 120 s of the stale *)
(* sweep, older than the retention periods.  Step log, usage and detail    *)
(* lines only matter because writing them refreshes updated_at; the        *)
(* notices of a job are left to JobNotices.                                *)
(*                                                                         *)
(* Operators marked "mutant" are not part of the specification: each is a  *)
(* plausible slip in the operator below it, for checking the properties.   *)
(***************************************************************************)
EXTENDS Integers, Sequences, FiniteSets

CONSTANTS
    Jobs,          \* job ids of one user
    Tasks,         \* slots for asyncio tasks, over all worker processes
    Corrections,   \* texts the user may send as corrections
    QueueCap,      \* _CORRECTION_QUEUE_LIMIT
    MaxJobs,       \* max_jobs of enforce_user_cap
    NoState,       \* NULL in the column resume_state
    Crashes,       \* may a worker process die?
    SlowSteps,     \* may one agent step outlast the stale cutoff?
    MaxSteps,      \* bound: model steps and further tool calls of one task
    MaxPauses,     \* bound: pauses of one job
    MaxAsks        \* bound: confirmations asked by one job

ASSUME BoundsAssumption ==
    /\ QueueCap \in Nat /\ QueueCap >= 2
    /\ MaxJobs \in Nat \ {0}
    /\ {MaxSteps, MaxPauses, MaxAsks} \subseteq Nat
    /\ {Crashes, SlowSteps} \subseteq BOOLEAN
ASSUME NoStateAssumption == NoState \notin Seq(Corrections)

VARIABLES
    job,        \* job[j]: the rows of j in agent_jobs and agent_job_pause_actions
    task,       \* task[t]: what the task in slot t is about to do, and for whom
    sweepList,  \* the jobs a running sweep found in stale_paused
    fate        \* ghost: what became of each job's corrections

vars == <<job, task, sweepList, fate>>

-----------------------------------------------------------------------------
(***************************************************************************)
(* Rows.  "none": no row yet; "gone": deleted.  The pipeline creates rows  *)
(* as "detached" only, so the store's "running" never occurs.              *)
(***************************************************************************)
Terminal == {"done", "error", "cancelled"}
Parked   == {"paused", "awaiting"}
Live     == {"detached"} \cup Parked
Stored   == Live \cup Terminal
Status   == {"none", "gone"} \cup Stored
Results  == {"", "answer", "failure", "cancelled_by_user", "worker_restart",
             "stale_paused_timeout"}

\* A correction queue; "queued_corrections" in a snapshot is what was in one.
CorrectionQueue == {queue \in Seq(Corrections) : Len(queue) <= QueueCap}

\* Of the snapshot in resume_state only the corrections it carries are kept.
Row == [status    : Status,
        cancelReq : BOOLEAN,
        pauseReq  : BOOLEAN,
        warned    : BOOLEAN,       \* warning = pause_state_too_large
        resume    : CorrectionQueue \cup {NoState},
        pauses    : Nat,           \* pause_count, and the number in pause_event_key
        reason    : {"none", "user", "budget"},
        acted     : SUBSET Nat,    \* agent_job_pause_actions
        asked     : Nat,
        resolved  : Nat,           \* confirmation_approved + confirmation_rejected
        queue     : CorrectionQueue,
        result    : Results,
        age       : 0..2]

EmptyRow == [status |-> "none", cancelReq |-> FALSE, pauseReq |-> FALSE, warned |-> FALSE,
             resume |-> NoState, pauses |-> 0, reason |-> "none", acted |-> {},
             asked |-> 0, resolved |-> 0, queue |-> <<>>, result |-> "", age |-> 0]

\* queue[-(n):] of a Python list.
LastOf(queue, n) ==
    IF Len(queue) <= n THEN queue ELSE SubSeq(queue, Len(queue) - n + 1, Len(queue))

Elements(queue) == {queue[i] : i \in 1..Len(queue)}

-----------------------------------------------------------------------------
(***************************************************************************)
(* What each UPDATE makes of a row.  On a missing row it changes nothing.  *)
(***************************************************************************)

\* create
DetachedRow == [EmptyRow EXCEPT !.status = "detached"]

\* append_step, set_usage: as far as this model sees, only updated_at.
Touched(r) == IF r.status \in Stored THEN [r EXCEPT !.age = 0] ELSE r

\* drain_corrections leaves updated_at alone.
Drained(r) == IF r.status \in Stored THEN [r EXCEPT !.queue = <<>>] ELSE r

\* set_terminal: unconditional, also on a row that is terminal already.
Ended(r, status, result) ==
    IF r.status \notin Stored THEN r
    ELSE [r EXCEPT !.status = status, !.result = result, !.warned = FALSE, !.pauseReq = FALSE,
                   !.resume = NoState, !.queue = <<>>, !.reason = "none", !.age = 0]

\* refuse_pause
PauseRefused(r) ==
    IF r.status # "detached" THEN r
    ELSE [r EXCEPT !.pauseReq = FALSE, !.warned = TRUE, !.age = 0]

\* The WHERE clause of set_paused, set_awaiting_confirmation, stage_resume_state.
ParkableUnlessEnded(r) == r.status = "detached"                            \* mutant
Parkable(r) == r.status = "detached" /\ ~r.cancelReq

\* set_paused; no snapshot holds queued corrections, and those that the task still
\* carries (only when its steps are used up before it drains) end with it.
PausedSameEvent(r, reason) ==                                              \* mutant
    [r EXCEPT !.status = "paused", !.pauseReq = FALSE, !.resume = <<>>,
              !.reason = reason, !.age = 0]
PausedRow(r, reason) ==
    [r EXCEPT !.status = "paused", !.pauseReq = FALSE, !.resume = <<>>,
              !.pauses = @ + 1, !.reason = reason, !.age = 0]

\* set_awaiting_confirmation
AwaitingNoSnapshot(r) ==                                                   \* mutant
    [r EXCEPT !.status = "awaiting", !.pauseReq = FALSE, !.asked = @ + 1, !.age = 0]
AwaitingRow(r) ==
    [r EXCEPT !.status = "awaiting", !.pauseReq = FALSE, !.resume = <<>>,
              !.asked = @ + 1, !.age = 0]

\* The state dictionary a claim returns: queued corrections, if there are any,
\* take the place of those the snapshot carries.
ClaimedCarry(r) ==
    IF r.queue # <<>> THEN LastOf(r.queue, QueueCap) ELSE r.resume

\* claim_resume, then the task is created and clear_resume_state runs before
\* it does: nothing reads resume_state of a detached job in between.
ClaimedStillPaused(r) ==                                                   \* mutant
    [r EXCEPT !.pauseReq = FALSE, !.warned = FALSE, !.reason = "none", !.queue = <<>>, !.age = 0]
ClaimedRow(r) ==
    [r EXCEPT !.status = "detached", !.pauseReq = FALSE, !.warned = FALSE, !.reason = "none",
              !.queue = <<>>, !.resume = NoState, !.age = 0]

\* claim_confirmation_resume
ResolvingKeepsQueue(r) == [r EXCEPT !.status = "detached", !.age = 0]      \* mutant
ResolvingStillAwaiting(r) == [r EXCEPT !.queue = <<>>, !.age = 0]          \* mutant
ResolvingRow(r) == [r EXCEPT !.status = "detached", !.queue = <<>>, !.age = 0]

\* record_confirmation_resolution
CountedRow(r) == [r EXCEPT !.resolved = @ + 1]

\* stage_resume_state
StagedRow(r, carry) == [r EXCEPT !.status = "paused", !.resume = carry, !.age = 0]

\* claim_budget_action: event is the number in the event key of the notice the
\* user clicked.
BudgetClaimable(r, event) ==
    r.status = "paused" /\ r.reason = "budget" /\ r.pauses = event /\ event \notin r.acted

\* ... "extend" and "finish", then clear_resume_state; the queue stays.
BudgetResumedRow(r, event) ==
    [r EXCEPT !.status = "detached", !.reason = "none", !.resume = NoState,
              !.acted = @ \cup {event}, !.age = 0]

\* ... "cancel": correction_queue and pause_reason stay in the row.
BudgetCancelledRow(r, event) ==
    [r EXCEPT !.status = "cancelled", !.result = "cancelled_by_user", !.cancelReq = FALSE,
              !.pauseReq = FALSE, !.resume = NoState, !.acted = @ \cup {event}, !.age = 0]

\* request_pause
PauseRequestedRow(r) == [r EXCEPT !.pauseReq = TRUE, !.warned = FALSE, !.age = 0]

\* queue_correction
KeptAll(queue) == queue                                                    \* mutant
Kept(queue) == LastOf(queue, QueueCap - 1)
CorrectedRow(r, c) == [r EXCEPT !.queue = Append(Kept(@), c), !.age = 0]

\* request_cancel: a parked job ends at once, a running one is asked to stop.
CancelledRow(r) ==
    [r EXCEPT !.status = "cancelled", !.result = "cancelled_by_user", !.cancelReq = FALSE,
              !.pauseReq = FALSE, !.resume = NoState, !.queue = <<>>, !.reason = "none",
              !.age = 0]
CancelAtOnce(r) == CancelledRow(r)                                         \* mutant
AfterCancel(r) ==
    IF r.status = "detached" THEN [r EXCEPT !.cancelReq = TRUE, !.age = 0] ELSE CancelledRow(r)

\* mark_stale_interrupted
StaleIfRunning(r) == r.status = "running" /\ r.age >= 1                    \* mutant
Stale(r) == r.status = "detached" /\ r.age >= 1
InterruptedRow(r) ==
    [r EXCEPT !.status = "error", !.result = "worker_restart", !.pauseReq = FALSE,
              !.resume = NoState, !.queue = <<>>, !.reason = "none", !.age = 0]

\* cancel_stale_paused looks at the status only.
TimedOutAnyway(r) ==                                                       \* mutant
    IF r.status \notin Stored THEN r
    ELSE [r EXCEPT !.status = "cancelled", !.result = "stale_paused_timeout",
                   !.resume = NoState, !.queue = <<>>, !.reason = "none", !.age = 0]
TimedOutRow(r) ==
    IF r.status \notin Parked THEN r
    ELSE [r EXCEPT !.status = "cancelled", !.result = "stale_paused_timeout",
                   !.resume = NoState, !.queue = <<>>, !.reason = "none", !.age = 0]

\* DELETE, together with the pause actions of the job.
Removed(r) == [EmptyRow EXCEPT !.status = "gone"]

DiscardableWhenIdle(r) == r.status \in Terminal \cup Parked                \* mutant
Discardable(r) == r.status \in Terminal

\* enforce_user_cap: all Jobs belong to one user.  The rows leave in the order
\* of updated_at, of which the age keeps too little: any choice of terminal rows.
UserCapResults(rows) ==
    LET ended    == {j \in Jobs : Discardable(rows[j])}
        total    == Cardinality({j \in Jobs : rows[j].status \in Stored})
        overflow == IF total > MaxJobs THEN total - MaxJobs ELSE 0
        count    == IF overflow > Cardinality(ended) THEN Cardinality(ended) ELSE overflow
    IN  {[j \in Jobs |-> IF j \in oldest THEN Removed(rows[j]) ELSE rows[j]] :
            oldest \in {S \in SUBSET ended : Cardinality(S) = count}}

-----------------------------------------------------------------------------
(***************************************************************************)
(* Tasks.  pc names the next thing a task does:                            *)
(*   attached    inside the synchronous budget of process(), no row yet    *)
(*   returned    done, but process() has not been told                     *)
(*   boundary    top of the agent loop: drain the corrections              *)
(*   corrected   checkpoint after a correction was added to the messages   *)
(*   pauseCheck  is a pause requested?                                     *)
(*   working     the model call of one step                                *)
(*   calling     the next tool call of the model's response                *)
(*   stepped     checkpoint after a tool call                              *)
(*   finalizing  the closing model call, without tools                     *)
(*   pausing, overBudget, asking, finishing, failing, cancelling           *)
(*               the agent is over; its outcome goes to the store          *)
(*   resolving   a confirmation was claimed: tool call or decline          *)
(*   restaged    the resolved job is "paused", resume_agent_job is next    *)
(***************************************************************************)
AgentPc == {"boundary", "corrected", "pauseCheck", "working", "calling", "stepped",
            "finalizing", "pausing", "overBudget", "asking", "finishing", "failing",
            "cancelling", "resolving"}
NewPc   == {"attached", "returned"}
TaskPc  == {"idle", "restaged"} \cup NewPc \cup AgentPc

Task == [pc    : TaskPc,
         job   : Jobs,
         carry : CorrectionQueue,   \* state["queued_corrections"]
         steps : Nat]

Fate == [accepted : SUBSET Corrections,
         evicted  : SUBSET Corrections,
         applied  : SUBSET Corrections]

AgentOf(t, j) == task[t].pc \in AgentPc /\ task[t].job = j

Go(t, pc) == task' = [task EXCEPT ![t].pc = pc]

\* The slot of an ended task keeps only its job.
Stop(t) == task' = [task EXCEPT ![t].pc = "idle", ![t].carry = <<>>, ![t].steps = 0]

StartAgent(t, pc, j, carry) ==
    task' = [task EXCEPT ![t] = [pc |-> pc, job |-> j, carry |-> carry, steps |-> 0]]

Write(j, row) == job' = [job EXCEPT ![j] = row]

Init ==
    /\ job = [j \in Jobs |-> EmptyRow]
    /\ \E j \in Jobs :
        task = [t \in Tasks |-> [pc |-> "idle", job |-> j, carry |-> <<>>, steps |-> 0]]
    /\ sweepList = {}
    /\ fate = [j \in Jobs |-> [accepted |-> {}, evicted |-> {}, applied |-> {}]]

-----------------------------------------------------------------------------
(***************************************************************************)
(* process(): the turn runs in a task of its own; the caller waits for it  *)
(* at most the synchronous budget and then turns it into a job.            *)
(***************************************************************************)

\* The id of the job is drawn here, and the row appears only if it detaches.
StartTurn(t, j) ==
    /\ task[t].pc = "idle"
    /\ job[j].status = "none"
    /\ \A u \in Tasks : task[u].pc \in NewPc => task[u].job # j
    /\ StartAgent(t, "attached", j, <<>>)
    /\ UNCHANGED <<job, sweepList, fate>>

\* The inner task ends; with state["detached"] unset it writes nothing.
AttachedReturns(t) ==
    /\ task[t].pc = "attached"
    /\ Go(t, "returned")
    /\ UNCHANGED <<job, sweepList, fate>>

\* The callback of the shield reaches wait_for in time: an ordinary answer.
Answer(t) ==
    /\ task[t].pc = "returned"
    /\ Stop(t)
    /\ UNCHANGED <<job, sweepList, fate>>

\* TimeoutError: the job row is created and the buffered steps are replayed.
\* The timer may win against a task that has just ended: a row without agent.
Detach(t) ==
    LET j == task[t].job IN
    /\ task[t].pc \in NewPc
    /\ job' \in UserCapResults([job EXCEPT ![j] = DetachedRow])
    /\ IF task[t].pc = "attached" THEN Go(t, "working") ELSE Stop(t)
    /\ UNCHANGED <<sweepList, fate>>

-----------------------------------------------------------------------------
(***************************************************************************)
(* The agent loop, as far as it talks to the store.                        *)
(***************************************************************************)

DrainCorrections(t) ==
    LET j     == task[t].job
        found == Elements(task[t].carry) \cup Elements(job[j].queue)
    IN  /\ task[t].pc = "boundary"
        /\ Write(j, Drained(job[j]))
        /\ task' = [task EXCEPT ![t].carry = <<>>,
                                ![t].pc = IF found = {} THEN "pauseCheck" ELSE "corrected"]
        /\ fate' = [fate EXCEPT ![j].applied = @ \cup found]
        /\ UNCHANGED sweepList

\* checkpoint(): append_step, then the cancellation request is looked at.  After
\* a tool call the response may hold another call, or that call was terminal.
Checkpoint(t) ==
    LET j == task[t].job IN
    /\ task[t].pc \in {"corrected", "stepped"}
    /\ Write(j, Touched(job[j]))
    /\ \/ job[j].cancelReq /\ Go(t, "cancelling")
       \/ /\ ~job[j].cancelReq /\ task[t].pc = "corrected"
          /\ Go(t, "pauseCheck")
       \/ /\ ~job[j].cancelReq /\ task[t].pc = "stepped"
          /\ \/ \E pc \in {"boundary", "finishing"} : Go(t, pc)
             \/ /\ task[t].steps < MaxSteps
                /\ task' = [task EXCEPT ![t].pc = "calling", ![t].steps = @ + 1]
    /\ UNCHANGED <<sweepList, fate>>

\* pause_check(); a state that is too large to be saved refuses the pause.
PauseCheck(t) ==
    LET j == task[t].job IN
    /\ task[t].pc = "pauseCheck"
    /\ \/ /\ ~job[j].pauseReq
          /\ Go(t, "working")
          /\ UNCHANGED job
       \/ /\ job[j].pauseReq
          /\ Go(t, "pausing")
          /\ UNCHANGED job
       \/ /\ job[j].pauseReq
          /\ Go(t, "working")
          /\ Write(j, PauseRefused(job[j]))
    /\ UNCHANGED <<sweepList, fate>>

\* The model call, whose usage is stored: it asks for tools, is retried with a
\* hint at the next boundary, answers, or fails.
ModelCall(t) ==
    LET j == task[t].job IN
    /\ task[t].pc = "working"
    /\ Write(j, Touched(job[j]))
    /\ \/ /\ task[t].steps < MaxSteps
          /\ \E pc \in {"calling", "boundary"} :
                task' = [task EXCEPT ![t].pc = pc, ![t].steps = @ + 1]
       \/ \E pc \in {"finishing", "failing"} : Go(t, pc)
    /\ UNCHANGED <<sweepList, fate>>

\* A tool call runs, is refused for its arguments without a checkpoint, needs
\* the confirmation of the user, or ends the agent: with an error, or with the
\* question as its answer when the state is too large to be saved.
ToolCall(t) ==
    /\ task[t].pc = "calling"
    /\ \/ \E pc \in {"stepped", "boundary", "finishing", "failing"} : Go(t, pc)
       \/ job[task[t].job].asked < MaxAsks /\ Go(t, "asking")
    /\ UNCHANGED <<job, sweepList, fate>>

\* The step or call budget is spent, seen at the top of the loop or just before
\* the model call.  A snapshot that is too large goes on to the closing call.
LoopExhausted(t) ==
    /\ task[t].pc \in {"boundary", "working"}
    /\ \/ job[task[t].job].pauses < MaxPauses /\ Go(t, "overBudget")
       \/ Go(t, "finalizing")
    /\ UNCHANGED <<job, sweepList, fate>>

Finalize(t) ==
    LET j == task[t].job IN
    /\ task[t].pc = "finalizing"
    /\ \E pc \in {"finishing", "failing"} : Go(t, pc)
    /\ Write(j, Touched(job[j]))
    /\ UNCHANGED <<sweepList, fate>>

-----------------------------------------------------------------------------
(***************************************************************************)
(* What run_native_job and run_resumed_job do with the outcome.            *)
(***************************************************************************)

EndJob(t, status, result) ==
    /\ LET j == task[t].job IN
        job' \in UserCapResults([job EXCEPT ![j] = Ended(@, status, result)])
    /\ Stop(t)
    /\ UNCHANGED <<sweepList, fate>>

Finish(t)     == task[t].pc = "finishing"  /\ EndJob(t, "done", "answer")
Fail(t)       == task[t].pc = "failing"    /\ EndJob(t, "error", "failure")
StepCancel(t) == task[t].pc = "cancelling" /\ EndJob(t, "cancelled", "cancelled_by_user")

\* NativeAgentPaused: set_paused, or the cancellation that made it fail.
SetPaused(t) ==
    LET j      == task[t].job
        reason == IF task[t].pc = "pausing" THEN "user" ELSE "budget"
    IN  /\ task[t].pc \in {"pausing", "overBudget"}
        /\ \/ /\ Parkable(job[j])
              /\ Write(j, PausedRow(job[j], reason))
              /\ Stop(t)
              /\ UNCHANGED <<sweepList, fate>>
           \/ /\ ~Parkable(job[j]) /\ ~job[j].cancelReq
              /\ Stop(t)
              /\ UNCHANGED <<job, sweepList, fate>>
           \/ /\ ~Parkable(job[j]) /\ job[j].cancelReq
              /\ EndJob(t, "cancelled", "cancelled_by_user")

\* NativeAgentAwaitingConfirmation: a refused set_awaiting_confirmation is not
\* followed by anything.
SetAwaitingConfirmation(t) ==
    LET j == task[t].job IN
    /\ task[t].pc = "asking"
    /\ IF Parkable(job[j]) THEN Write(j, AwaitingRow(job[j])) ELSE UNCHANGED job
    /\ Stop(t)
    /\ UNCHANGED <<sweepList, fate>>

-----------------------------------------------------------------------------
(***************************************************************************)
(* The user's controls.                                                    *)
(***************************************************************************)

Resume(t, j) ==
    /\ task[t].pc = "idle"
    /\ job[j].status = "paused"
    /\ StartAgent(t, "boundary", j, ClaimedCarry(job[j]))
    /\ Write(j, ClaimedRow(job[j]))
    /\ UNCHANGED <<sweepList, fate>>

\* "extend" goes on in the loop (its refusal "hard_cap" changes nothing),
\* "finish" skips the loop.
BudgetResume(t, j, event) ==
    /\ task[t].pc = "idle"
    /\ BudgetClaimable(job[j], event)
    /\ \E pc \in {"boundary", "finalizing"} : StartAgent(t, pc, j, job[j].resume)
    /\ Write(j, BudgetResumedRow(job[j], event))
    /\ UNCHANGED <<sweepList, fate>>

BudgetCancel(j, event) ==
    /\ BudgetClaimable(job[j], event)
    /\ Write(j, BudgetCancelledRow(job[j], event))
    /\ UNCHANGED <<task, sweepList, fate>>

RequestPause(j) ==
    /\ job[j].status = "detached" /\ ~job[j].cancelReq
    /\ job[j].pauses < MaxPauses
    /\ Write(j, PauseRequestedRow(job[j]))
    /\ UNCHANGED <<task, sweepList, fate>>

\* Each text is sent once, so that its way can be followed.
QueueCorrection(j, c) ==
    LET queue == job[j].queue IN
    /\ job[j].status \in Live
    /\ c \notin fate[j].accepted
    /\ Write(j, CorrectedRow(job[j], c))
    /\ fate' = [fate EXCEPT ![j].accepted = @ \cup {c},
                            ![j].evicted = @ \cup (Elements(queue) \ Elements(Kept(queue)))]
    /\ UNCHANGED <<task, sweepList>>

RequestCancel(j) ==
    /\ job[j].status \in Live
    /\ Write(j, AfterCancel(job[j]))
    /\ UNCHANGED <<task, sweepList, fate>>

DeleteJob(j) ==
    /\ job[j].status \in Terminal
    /\ Write(j, Removed(job[j]))
    /\ UNCHANGED <<task, sweepList, fate>>

-----------------------------------------------------------------------------
(***************************************************************************)
(* Resolution of a confirmation: the claim makes the job "detached" while  *)
(* the tool runs (or the decline is recorded), stage_resume_state makes it *)
(* "paused", and resume_agent_job claims that pause like any other.        *)
(***************************************************************************)

\* Whether the user approved or declined does not matter to the rows.  The
\* claim and its count are two transactions, between which the worker may die.
ClaimConfirmation(t, j) ==
    /\ task[t].pc = "idle"
    /\ job[j].status = "awaiting"
    /\ \/ /\ StartAgent(t, "resolving", j, ClaimedCarry(job[j]))
          /\ Write(j, CountedRow(ResolvingRow(job[j])))
       \/ /\ Crashes
          /\ Write(j, ResolvingRow(job[j]))
          /\ UNCHANGED task
    /\ UNCHANGED <<sweepList, fate>>

StageResume(t) ==
    LET j == task[t].job IN
    /\ task[t].pc = "resolving"
    /\ \/ /\ Parkable(job[j])
          /\ Write(j, StagedRow(job[j], task[t].carry))
          /\ task' = [task EXCEPT ![t].pc = "restaged", ![t].carry = <<>>]
       \/ /\ ~Parkable(job[j])
          /\ Stop(t)
          /\ UNCHANGED job
    /\ UNCHANGED <<sweepList, fate>>

\* resume_agent_job of the same task: a new task if the claim succeeds.
ResumeStaged(t) ==
    LET j == task[t].job IN
    /\ task[t].pc = "restaged"
    /\ \/ /\ job[j].status = "paused"
          /\ StartAgent(t, "boundary", j, ClaimedCarry(job[j]))
          /\ Write(j, ClaimedRow(job[j]))
       \/ /\ job[j].status # "paused"
          /\ Stop(t)
          /\ UNCHANGED job
    /\ UNCHANGED <<sweepList, fate>>

\* An exception while the decision is carried out.
ResolutionFails(t) == task[t].pc = "resolving" /\ EndJob(t, "error", "failure")

-----------------------------------------------------------------------------
(***************************************************************************)
(* Time, the sweep (at startup and whenever somebody lists the jobs), and  *)
(* the death of a worker, which takes its tasks with it.                   *)
(***************************************************************************)

TimePasses(j) ==
    /\ job[j].status \in Stored
    /\ job[j].age < 2
    /\ SlowSteps \/ ~\E t \in Tasks : AgentOf(t, j)
    /\ Write(j, [job[j] EXCEPT !.age = @ + 1])
    /\ UNCHANGED <<task, sweepList, fate>>

SweepStaleActive(j) ==
    /\ Stale(job[j])
    /\ Write(j, InterruptedRow(job[j]))
    /\ UNCHANGED <<task, sweepList, fate>>

\* stale_paused makes the list, each job on it is then cancelled by itself.
SweepListPaused ==
    /\ sweepList = {}
    /\ sweepList' = {j \in Jobs : job[j].status \in Parked /\ job[j].age = 2}
    /\ sweepList' # {}
    /\ UNCHANGED <<job, task, fate>>

SweepCancelPaused(j) ==
    /\ j \in sweepList
    /\ sweepList' = sweepList \ {j}
    /\ Write(j, TimedOutRow(job[j]))
    /\ UNCHANGED <<task, fate>>

PurgeTerminal(j) ==
    /\ job[j].status \in Terminal /\ job[j].age = 2
    /\ Write(j, Removed(job[j]))
    /\ UNCHANGED <<task, sweepList, fate>>

Crash(t) ==
    /\ Crashes
    /\ task[t].pc # "idle"
    /\ Stop(t)
    /\ UNCHANGED <<job, sweepList, fate>>

-----------------------------------------------------------------------------
\* What a task does by itself once it runs.
TaskStep(t) ==
    \/ AttachedReturns(t) \/ Answer(t) \/ Detach(t)
    \/ DrainCorrections(t) \/ Checkpoint(t) \/ PauseCheck(t)
    \/ ModelCall(t) \/ ToolCall(t) \/ LoopExhausted(t) \/ Finalize(t)
    \/ Finish(t) \/ Fail(t) \/ StepCancel(t) \/ SetPaused(t) \/ SetAwaitingConfirmation(t)
    \/ StageResume(t) \/ ResumeStaged(t) \/ ResolutionFails(t)

UserStep(j) ==
    \/ RequestPause(j) \/ RequestCancel(j) \/ DeleteJob(j)
    \/ \E c \in Corrections : QueueCorrection(j, c)
    \/ \E t \in Tasks : StartTurn(t, j) \/ Resume(t, j) \/ ClaimConfirmation(t, j)
    \/ \E event \in 0..MaxPauses :
        \/ BudgetCancel(j, event)
        \/ \E t \in Tasks : BudgetResume(t, j, event)

SweepStep(j) == SweepStaleActive(j) \/ SweepCancelPaused(j) \/ PurgeTerminal(j)

Next ==
    \/ \E t \in Tasks : TaskStep(t) \/ Crash(t)
    \/ \E j \in Jobs : UserStep(j) \/ SweepStep(j) \/ TimePasses(j)
    \/ SweepListPaused

Spec == Init /\ [][Next]_vars

\* Every task of a live worker keeps running, time passes and somebody lists
\* the jobs (or a worker starts) again and again.  Nothing is asked of the user,
\* except not to click for ever: each request for a pause or a cancellation
\* sets updated_at, which keeps the sweep away from a job that has no agent.
Fairness ==
    /\ \A t \in Tasks : WF_vars(TaskStep(t))
    /\ \A j \in Jobs : WF_vars(TimePasses(j)) /\ WF_vars(SweepStaleActive(j))

Patience == \A j \in Jobs : <>[][~RequestPause(j) /\ ~RequestCancel(j)]_vars

FairSpec == Spec /\ Fairness /\ Patience

-----------------------------------------------------------------------------
(***************************************************************************)
(* Safety.                                                                 *)
(***************************************************************************)

\* Types; in particular no correction queue outgrows its limit.
TypeOK ==
    /\ job \in [Jobs -> Row]
    /\ task \in [Tasks -> Task]
    /\ sweepList \subseteq Jobs
    /\ fate \in [Jobs -> Fate]

\* Whatever order detaching, resuming, resolving, sweeping and crashing take,
\* two tasks never run the agent of the same job (claim_resume,
\* claim_budget_action, claim_confirmation_resume, stage_resume_state).
OneAgentPerJob ==
    \A t, u \in Tasks :
        task[t].pc \in AgentPc /\ task[u].pc \in AgentPc /\ task[t].job = task[u].job => t = u

\* A job that is still being worked on is never shown as parked, done or
\* cancelled: only the stale sweep, which takes it for interrupted, and the
\* deletion of what the sweep ended may overtake an agent.
AgentOwnsJob ==
    \A t \in Tasks : task[t].pc \in AgentPc =>
        LET r == job[task[t].job] IN
        \/ r.status \in {"detached", "gone"}
        \/ r.status = "error" /\ r.result = "worker_restart"

\* A job that waits for the user can be taken up again: the claims of
\* claim_resume and claim_confirmation_resume need its saved state.
ParkedCanResume ==
    \A j \in Jobs : job[j].status \in Parked => job[j].resume # NoState

\* A cancellation that was requested keeps the job from waiting for the user
\* again (WHERE ... cancel_requested=0 of the three parking writes).
CancelBlocksParking ==
    \A j \in Jobs : job[j].cancelReq => job[j].status \notin Parked

\* The buttons of the latest budget notice work as long as the job is paused
\* for its budget: no earlier event can have used up this event's one action.
DecisionOpen ==
    \A j \in Jobs :
        job[j].status = "paused" /\ job[j].reason = "budget" => job[j].pauses \notin job[j].acted

\* Each confirmation that was asked is resolved at most once, and the agent
\* only goes on when it was: what a crash leaves uncounted stays without agent.
ConfirmationsBalanced ==
    \A j \in Jobs :
        LET open == job[j].asked - job[j].resolved IN
        /\ open \in {0, 1}
        /\ job[j].status = "awaiting" => open = 1
        /\ job[j].status = "paused" => open = 0
        /\ job[j].status = "detached" /\ (\E t \in Tasks : AgentOf(t, j)) => open = 0

\* Where an accepted correction may still be waiting.
WaitingCorrections(j) ==
    [row   |-> Elements(job[j].queue),
     saved |-> IF job[j].status \in Parked THEN Elements(job[j].resume) ELSE {},
     task  |-> UNION {Elements(task[t].carry) : t \in {u \in Tasks : AgentOf(u, j)}}]

\* A correction is given to the agent at most once: it never waits in two
\* places, or in one after it was applied.
CorrectionOnce ==
    \A j \in Jobs :
        LET waiting == WaitingCorrections(j) IN
        /\ \A p, q \in DOMAIN waiting : p # q => waiting[p] \cap waiting[q] = {}
        /\ \A p \in DOMAIN waiting : waiting[p] \cap fate[j].applied = {}

-----------------------------------------------------------------------------
(***************************************************************************)
(* What a step may never do.                                               *)
(***************************************************************************)

\* The verdict on a job is final: set_terminal, cancellation and the sweeps
\* never replace one, except the sweep's own "worker_restart" when the agent
\* turns out to be alive.
VerdictStands ==
    [][\A j \in Jobs :
            job[j].status \in Terminal /\ job[j].result # "worker_restart"
            => \/ job'[j].status = job[j].status /\ job'[j].result = job[j].result
               \/ job'[j].status = "gone"]_vars

\* However full the list of a user gets, enforce_user_cap drops no job that is
\* still to go on: a waiting one is never dropped, a running one only by the
\* step of its own agent that ends it.
ActiveJobKept ==
    [][\A j \in Jobs :
            job[j].status \in Live /\ job'[j].status = "gone"
            => /\ job[j].status = "detached"
               /\ \E t \in Tasks : AgentOf(t, j) /\ task'[t].pc = "idle"]_vars

\* en.json says of a cancellation that "it will take effect after the current
\* step": an agent that stops while its job is asked to cancel leaves a job
\* that has ended.
RunnerHonoursCancel ==
    [][\A t \in Tasks :
            task[t].pc \in AgentPc /\ task'[t].pc = "idle" /\ job[task[t].job].cancelReq
            => job'[task[t].job].status # "detached"]_vars

\* en.json says of a pause that it "will take effect at the next clean step
\* boundary": the request of a job stays until the job is parked or ended, or
\* the user is warned.
PauseRequestKept ==
    [][\A j \in Jobs :
            job[j].pauseReq /\ ~job'[j].pauseReq
            => job'[j].status # "detached" \/ job'[j].warned]_vars

\* en.json says of a correction that it "will apply at the next step boundary":
\* as long as the job is alive, what was accepted was applied, is waiting, or
\* was pushed out of the full queue.
NoCorrectionLost ==
    \A j \in Jobs :
        job[j].status \in Live /\ ~job[j].cancelReq
        => LET waiting == WaitingCorrections(j) IN
           fate[j].accepted \subseteq fate[j].evicted \cup fate[j].applied
                                       \cup waiting.row \cup waiting.saved \cup waiting.task

-----------------------------------------------------------------------------
(***************************************************************************)
(* The abstract specification of a job, and what of a row it is about.     *)
(***************************************************************************)
NoVerdict == ""

LifeOf(r) ==
    [phase   |-> IF r.status \in Terminal THEN "over"
                 ELSE IF r.status \in Parked THEN "waiting"
                 ELSE IF r.status = "detached" THEN "working"
                 ELSE r.status,
     verdict |-> IF r.status \in Terminal THEN r.result ELSE NoVerdict]

Abstract == INSTANCE JobLifecycle WITH
    life         <- [j \in Jobs |-> LifeOf(job[j])],
    Verdicts     <- Results \ {NoVerdict},
    Guess        <- "worker_restart",
    UserVerdicts <- {"cancelled_by_user", "stale_paused_timeout"}

\* However claims, sweeps, crashes and the agents' own writes interleave, each
\* job lives the life its user is promised (every UPDATE of status or result in
\* agent_jobs.py, and every DELETE).
Lifecycle == Abstract!LifeSpec

-----------------------------------------------------------------------------
(***************************************************************************)
(* Liveness, under FairSpec.                                               *)
(***************************************************************************)

\* No job stays "detached" for ever: its agent ends or parks it, or the sweep
\* finds that it has none.
JobSettles ==
    \A j \in Jobs : job[j].status = "detached" ~> job[j].status # "detached"

\* A job that is asked to cancel ends.
CancelEnds ==
    \A j \in Jobs : job[j].cancelReq ~> job[j].status \in Terminal \cup {"gone"}

=============================================================================
