# A.R.I.A. in TLA+

This directory is a verification development of A.R.I.A. (`src/aria`), a
self-hosted assistant whose native agent calls tools and can continue in the
background as an *agent job*. The modules are written from the Python source;
`PROJECT.json` names, for every definition, the lines it stands for.

## 1. The system

### Components, their state and their operations

| Component | State | Operations | Talks to |
|---|---|---|---|
| Agent job store (`pipeline_orchestrator/agent_jobs.py`) | SQLite tables `agent_jobs`, `agent_job_pause_actions`, `agent_job_notices`; one transaction per method | create, step and usage updates, pause, park, claim, stage, cancel, correct, end, sweep, purge, notices | called by every worker process |
| Job orchestration (`pipeline_orchestrator/pipeline.py`) | asyncio tasks of one process; `state["detached"]` of a turn | `process` (run, wait, detach), `resume_agent_job`, `resolve_agent_job_confirmation`, `request_agent_job_*`, `sweep_stale_agent_jobs`, `_notify_*`, `reconcile_agent_job_notices` | store, agent loop, chat history |
| Native agent loop (`native_agent/handler.py`) | messages, step and call counters, carried corrections, retry flags | one pass per model call; tools; confirmation, pause and budget boundaries; closing call | model, tools, callbacks of the pipeline |
| Pending confirmations (`native_agent/pending_store.py`) and ledger (`action_confirmation/ledger.py`) | two SQLite files: frozen calls with their age; claims with theirs | put, peek, consume, prune; claim, prune | agent loop, pipeline |
| MCP client manager (`mcp/runtime.py`) | per server: lock, session worker and queue, discovered tools, failure, refresh and retry tasks | call, discover, probe, reconnect, inherit, close | tool bindings of the loop, configuration reload |
| Update helper (`update_helper.py`) | a JSON state file, a thread per update or restart | run, restart, status with its reconciliation, start | docker, the update page |
| Chat history (`chat_history_storage/store.py`) | one JSON file per user, last 80 rows, cache by mtime | append exchange, append notice once, clear | web routes, notice delivery |
| Start-up and hygiene (`main.py`) | scheduler tasks | start-up sweep, periodic pruning, notice appender | all stores |
| Activity journal, inbound events, usage meter | SQLite, log files | see the list in `PROJECT.json` | |
| Pages, connectors, recipes, memory, configuration | mostly configuration files and external systems | requests of one user at a time | |

Components interact by calls inside one event loop, by callbacks (the
pipeline passes `step_callback`, `pause_check`, `correction_drain`, ... to the
loop), and through the SQLite files, which several worker processes share.

### What is hard here

* **Interleaving.** Between two transactions of a task any other task, request
  or process may run: every `await`, and, across processes, any two calls.
* **Ownership.** A job has no lock. Who runs its agent follows from who changed
  its status last; four different claims and the detaching turn create agents.
* **Crashes.** A worker takes its tasks with it; the store keeps `detached`
  rows without a runner until a sweep finds them stale.
* **Timeouts.** The stale sweep cannot tell a dead worker from a slow step; the
  caller of a tool call and the worker that executes it have separate deadlines,
  and the caller may give up while its request is queued or being executed.
* **Saved state.** A job goes on from a snapshot, perhaps days later in another
  process: what the snapshot forgets is forgotten by every guard of the loop.
* **Check, then act.** The update helper and the MCP manager test a flag, wait,
  and act on it later.
* **Ordering.** Cancellations, pauses and corrections arrive at any moment and
  only take effect at certain boundaries of the loop.

`PROJECT.json` lists each hazard at its line with the properties aimed at it.

### What makes each part correct

* **Agent jobs.** One agent per job; a job that waits for the user can be taken
  up again; a cancellation, a pause or a correction that was accepted has its
  effect; a decision is used once; a verdict is final; no job stays in the
  background for ever.
* **Notices.** Every verdict has its notice; the chat shows it once; it counts
  as delivered only when it was shown; it arrives although workers die; it tells
  the verdict. The notice of a parked job is shown at most once, and is lost only
  with its courier.
* **Agent loop.** The call budget bounds a job over all its stretches, with room
  kept for the closing call; every tool call of a response gets its answer
  before the next model call; each corrective retry happens once; a refusal
  tells the truth; a job that is asked to finish ends.
* **Pending confirmations and ledger.** A frozen call is taken out once and
  executes once, within its time to live, and what is said of it is true.
* **Update helper.** What the state file says is true, one update runs at a
  time, and the helper does not stay busy, also over its own restart.
* **MCP client manager.** One session per server, closed at the end; no call is
  executed after its caller was told how it ended; the tools of a failed server
  are withdrawn, and it is probed again.
* **Activity journal, inbound events.** One entry per event, whatever is
  delivered twice; retention removes only what is old.

## 2. The plan

The order is by weight for the user: what may be lost, done twice or never
ended in the background comes first.

| Step | Module | Composes | State |
|---|---|---|---|
| 1 | `AgentJobs` – rows, tasks, controls, sweep, crashes | store + pipeline + loop boundaries | done |
| 2 | `JobLifecycle` – what a job promises | refined by 1 and 3 (checked and proved) | done |
| 3 | `JobNotices` – outbox, couriers, chat history | uses 2 in place of 1 | done |
| 4 | `NativeTurn` – the whole loop of one job over all its stretches: budgets, retries, tool protocol, closing call, snapshot and resumption | detail of the loop steps of 1 | done |
| 5 | `FrozenCall`, `Confirmations` – pending tokens, time to live, ledger, from chat and from the job | `FrozenCall` is refined (checked and proved) | done |
| 6 | `EventNotices` – notices of parked jobs, marked before they are sent | beside 3 | done |
| 7 | `McpClients`, `UpdateHelper` | – | done |
| 8 | `AgentJobs` ⇒ `JobLifecycle`, `ActiveJobKept`, `CorrectionOnce`, `McpTypeOK` as theorems; how far the broken promises hold | 1, 2, 3, 7 | done |
| 9 | `ActivityJournal`, `InboundEvents` | deduplication and retention of rows | planned |

Abstract specifications: `JobLifecycle` (one life and one verdict of a job) and
`FrozenCall` (at most once).

Every invariant and action property that a run checks is also a theorem
(section 6), and both abstract specifications are shown to be implemented for all
constants. For the six broken promises of section 5 theorems say how far they
hold: under which condition, or what the steps are that break them. Left of the
plan are step 9, and the same for the further properties of section 5
(`SummaryReserve`, `OneOperation`, `NoticeFollowsExchange`).

## 3. The modules

### `AgentJobs` (agent_jobs.py, pipeline.py, boundaries of handler.py)

*State.* `job[j]` is the row of a job (and of its pause actions); `task[t]` is
an asyncio task: its `pc` names the next thing it does, `carry` is
`queued_corrections` of its state. `sweepList` is the result of
`stale_paused` that a sweep works through. `fate` is a ghost that follows each
correction.

*Rows.* One operator per UPDATE (`PausedRow` for `set_paused`, `ClaimedRow` for
`claim_resume`, `Ended` for `set_terminal`, ...); `enforce_user_cap` is
`UserCapResults`, part of every action whose code calls it. What
only refreshes `updated_at` (steps, details, usage) is `Touched`. The age of a
row has three values: fresh, older than the cutoff of the stale sweep, older
than the retention times.

*Actions.* `StartTurn`, `AttachedReturns`, `Answer`, `Detach` are `process` with
its synchronous budget; `DrainCorrections` to `Finalize` are one pass of the
agent loop; `Finish`, `Fail`, `StepCancel`, `SetPaused`,
`SetAwaitingConfirmation` are what `run_native_job` does with its outcome;
`Resume`, `BudgetResume`, `BudgetCancel`, `RequestPause`, `RequestCancel`,
`QueueCorrection`, `DeleteJob` are the user; `ClaimConfirmation`,
`StageResume`, `ResumeStaged`, `ResolutionFails` are
`resolve_agent_job_confirmation`; `Sweep*`, `PurgeTerminal`, `TimePasses` are
the sweep and the clock; `Crash` is the death of a worker, which takes a task
with it at any point between two transactions.

*Atomicity.* A store method is one SQLite transaction and one atomic part of an
action. An action has at most one write of a row together with the local moves
around it, except where nothing can observe the state in between (a claim
and the `clear_resume_state` that follows it) and except for
`enforce_user_cap`, a second transaction of `create` and `set_terminal`.

### `JobLifecycle`

What the user of a job is promised, as a state machine of one variable: phases
`none`, `working`, `waiting`, `over`, `gone`, and a final verdict, except that
the guess of the sweep may be corrected. `AgentJobs!Abstract` maps rows to
lives; `JobNotices` uses `life` directly.

### `JobNotices` (agent_jobs.py, pipeline.py, main.py, chat_history_storage/store.py)

*State.* `notice[j]` is the row of the outbox, `courier[c]` one call of
`_notify_agent_job_terminal` together with what made its caller notify,
`history` the rows of the chat of one user that its notices depend on, `life`,
`agent` and `stale` the jobs as far as their notices depend on them. `shown` is
a ghost that counts appends.

*Actions.* The callers: `AgentEnds`, `CancelReads`/`CancelWrites` (the copy
`before` and the write it outlives), `SweepReads`/`SweepWrites` (list, then
mark, then notify for the list), `ParkedTimesOut`, `Reconcile`/`ReadRecord`.
The delivery: `Prepare`, `Reserve`, `AppendNotice`, `ReadBack`,
`MarkDelivered`, `Fail`, one transaction or one locked file access each.
Around them `Interrupt` (the task is cancelled while it waits), `Crash`,
`LeaseExpires`, `Chat`, `ClearHistory`.

### `NativeTurn` (handler.py; claim_budget_action, resume and resolution of the job)

*State.* `mem` is what a snapshot saves of the local variables of
`_run_native_agent_loop`: `step_index`, `provider_calls`, whether tools were
used, whether observations and effects are remembered, the three retry flags,
and `open`, the tool calls of the last response that have no answer yet. `run`
holds the limits of the present stretch, `saved` the snapshot of the parked job.
Ghosts: `spent`, `granted`, `retries`, `effects`, over the whole job.

*Actions.* `Advance`, `LeaveLoop` and `PauseAtBoundary` are the boundary of a
step; `AskFails`, `CutOff`, `Answer`, `EmptyResponse`, `CallsTools` are one
model call with up to `MaxAttempts` attempts and what the loop makes of the
response; `CallFailsClosed`, `CallNotRun`, `RunTool`, `AskUserInJob`,
`AskUserInChat` one tool call of a batch; `ParkOnBudget`, `Finalize`,
`FinalizerFails`, `GiveUp` what comes after the loop; `Resume`, `Extend`,
`Finish`, `Resolve` the user; `Detach`, `Abandon` the turn around it. `Snapshot`
leaves out the limits where the code does: at a confirmation.

### `FrozenCall` and `Confirmations` (pending_store.py, ledger.py, the confirmed turn in handler.py, pipeline.py)

`FrozenCall` is the promise: a call is put aside, taken out at most once, and
then run once or void. In `Confirmations`, `pending` and `claims` are the rows of
the two SQLite files with their ages, `decider[d]` a task that decides: a
confirmation in the chat (perhaps twice), approval, refusal and withdrawal in
the job. `Consume`, `Claim`/`ClaimRefused` and `Run` are its steps; a withdrawal
(`WithdrawJob`: cancellation, sweep, deletion) consumes after the job was ended, or
before, while the user may still decide; `Die` takes the task away between any two; `Tick` and `Prune` let rows expire at any moment.
`Fate` maps the tables and tasks to the abstract state of a call.

### `EventNotices` (pipeline.py, agent_jobs.py, main.py)

A stretch is one task of the agent up to its next parking, or one that resolves a
confirmation. `JobParks` is `set_paused` or `set_awaiting_confirmation`, `Stage` is
`stage_resume_state`. `ReadEvent` is the read of the row in
`_notify_agent_job_paused`: `EventKey`, as `_record` computes it, is the key of the
last pause while the job is paused, the confirmation's own key while it awaits one,
and none while an agent works; so a pause that is late may tell of a newer parking,
or of none. The notice of a confirmation knows its key. `as` remembers which of the
two notices a courier sends. `MarkNotified` is `mark_event_notified`, `AppendEvent`
the appender with its bounded wait for the exchange, `Lose` an error or the death of
the worker anywhere on the way; `StoreExchange` and `DropRows` are the history.

### `McpClients` (mcp/runtime.py)

One server. `lock` is the queue of its `asyncio.Lock`, `worker` the session
workers that exist, with queue, session and the attempts at the request in
execution, `current` the entry of the dictionaries, `cache` the discovered
tools and the recorded failure, `caller` the tool calls and the three tasks that
discover.

*Callers.* Operations take the lock (`Operate`, `Acquire`). At its own deadline a
caller gives up (`GiveUp`): it is told of a timeout and releases the lock, and its
request stays where it is, as one whose future is done (`Forsaken`, an *orphan*).
The same becomes of the request of a caller that is cancelled. The next caller may
then queue its request behind it.

*The worker.* It takes the next request up when the one before is over
(`EndRequest`), and does not ask whether anybody still waits for it. `Recycle`,
`StartRequest`, `Succeed`, `AttemptFails`, `Replay`, `OpenFails` are `execute()`.
Closing a session takes time: it is `closing` until `CloseDone`; a close inside the
deadline of the worker is broken off by it (`CloseTimesOut`), the one behind a
timeout has no deadline. `ending` is what the caller hears then. A cancelled worker
first closes its session and then refuses what is in its queue (`StopWorker`); a
cancellation that breaks off this close leaves requests unanswered (`broken`).
`Reconnect` and `Close` are cut where they await.

### `UpdateHelper` (update_helper.py)

`file` is the state file, `operation[o]` a thread. `Accept` tests the file;
`Begin`, the first write of the thread, comes later; `FindFailure`, `Recover`
and `StillFailed` are the validation behind a status request, which may take two
minutes; `HelperDies` stops the process at any point and `HelperStarts` runs
`_normalize_state_after_restart`.

### `MCServices`, `MCServers`

Instances of several parts in one run: `MCServices` has `NativeTurn`,
`Confirmations`, `EventNotices` and `UpdateHelper`, `MCServers` has `McpClients` and
two jobs of `AgentJobs` in a full list. The parts of a run share no state and do not
call each other, so that interleaving them would multiply states and show
nothing: `focus` chooses the one that moves in a behaviour. `MCAgentJobs`,
`MCJobNotices` and `MCMcpClients` are instances of one module.

### Mutant operators

Lines marked `mutant` define slips (a dropped guard, a stale comparison, a
missing reset) that no specification uses. Each property of a passing run is
violated when one of them takes the place of the operator below it;
`PROJECT.json` says which.

## 4. The runs

| Run | Instance | States | Shows |
|---|---|---|---|
| `AgentJobs` | 1 job, 2 tasks, 3 corrections, queue of 2, 2 steps, 2 pauses, 2 confirmations, crashes, slow steps | 882,138 | types, one agent, ownership, parking, decisions, confirmations, corrections used once, final verdicts, refinement of `JobLifecycle` |
| `AgentJobsLive` | 1 job, fair tasks, patient user, crashes | 12,896 | no job is detached for ever; cancelled jobs end |
| `JobNotices` | 1 job, 2 couriers, history of 3 rows, crashes, slow steps, expired leases | 834,516 | shown once, delivered only if shown, every verdict has a notice |
| `JobNoticesLive` | 1 job, 2 couriers, history of 2 rows, deliveries within their lease, crashes that end some time | 176,968 | a delivered notice stays quiet; notices arrive |
| `Services` | agent loop: 3 steps, 4 calls, extensions by 2 up to 6, 3 attempts, batches of 3; 2 tokens, 2 deciders; 2 stretches, 3 parkings; 3 operations of the helper | 101,263 | no model call with an open tool call, calls within the grant, retries once, honest refusals, a job asked to finish ends; frozen calls (refinement), true answers; notices of parked jobs once, and told; a busy helper has a thread and settles |
| `Servers` | 1 MCP call beside 3 discovering tasks, 2 workers, queues of 2; 2 jobs in a list of 1, no crashes | 515,593 | one session, whoever is waited for is the last in the queue, failures withdrawn and probed; the cap drops no job that is to go on |
| `CancelAtConfirmation`, `PauseAtConfirmation`, `CorrectionAtConfirmation`, `NoticeTellsVerdict`, `CloseLeavesNothing`, `ToldIsOver` | small | – | violated: section 5 |

*Why these bounds.* Rows of different jobs meet only in `enforce_user_cap`,
which `Servers` exercises with two jobs; everything else is about one job.
Two tasks suffice for every race between two actors, and an agent that is slow,
a claim and a crash can follow each other in the same slots. A queue of two
with three texts overflows once and is drained and refilled; two pauses give an
old and a current event, two confirmations a resolved and an open one. For the
notices, two couriers give every overlap of a delivery with a retry; an
exchange is two rows, so that a history of three is trimmed by the second
append and one of two loses a notice with the next exchange. The bounds
`MaxSteps`, `MaxPauses`, `MaxAsks` guard the actions that would count on for
ever, and `MaxShown` stops a ghost counter; the theorems of section 6 hold for
all their values. In `NativeTurn` three steps and four calls make both budgets
run out, with and without a call left for the summary; the cap is above the
defaults, so that a job is extended and then refused; three attempts exceed what
is left of a budget; of a batch of three a call can be behind the one that asks
the user and another before it. Time to live and retention differ, so that rows
expire before and after claims do. The MCP run has one tool call, since the
discovering tasks give it the competition for lock and worker, and two workers,
one of which may be dying; with two calls `CloseLeavesNothing` and `ToldIsOver` fail.
A queue of two (`MaxQueue`) has the orphan in execution and the request behind it; one
that finds it full is not entered, and its caller waits for its deadline. Three
parkings let an older stretch read a later key, three operations meet at the
file while a recovery overwrites it. Tasks and couriers are interchangeable, and
the safety runs of jobs and terminal notices use that symmetry; runs with
liveness properties do not.

*Deadlock* is not checked: once its tasks are idle and its jobs deleted, the
system may rest for ever.

*Fairness.* `AgentJobs`: every task of a live worker takes its next step (the
event loop runs ready tasks, and model and tool calls have timeouts), time
passes, and the sweep comes again (it runs at start-up and whenever jobs are
listed). The user need not do anything, but must stop clicking some time, for
each click refreshes `updated_at` (`Patience`). `JobNotices`: couriers go on;
leases end; the chat page polls and reconciles every undelivered notice, which
is strong fairness because the number of courier slots, an artifact of the
model, could otherwise keep the poll out. Workers die finitely often, and
the history is left alone in the end (`Calm`): a history that is cleared or
flooded between append and read-back again and again can keep a notice
undelivered.

`NativeTurn`: the loop takes its next step; nobody has to take up a parked job,
and `FinishEnds` starts when the resumed loop does. `McpClients`: the
event loop runs its callers, each of which has a deadline (`GiveUp`); the backoff of
a probe ends, `reconnect` and `close` go on when the worker they wait for is gone.
Workers have no fairness at all: a close of a session may hang for ever, and
`FailedIsProbed` holds all the same, since waiting for lock and answer ends by the
deadline. Nobody has to call or discover. `EventNotices`:
couriers go on (the wait for the exchange is bounded); jobs need not be resumed.
`UpdateHelper`: threads go on and a stopped helper is started again (its
container restarts). That docker commands end is an assumption about docker: the
code gives most of them no time limit.

## 5. Where code and documents disagree

* **`CancelAtConfirmation`.** A cancellation that arrives while the agent is
  about to ask for a confirmation makes `set_awaiting_confirmation` refuse the
  write. Nothing handles that refusal; the job stays detached without an agent
  until the sweep records it as failed. `en.json` promises that it takes effect
  after the current step.
* **`PauseAtConfirmation`.** A pause requested while a confirmed tool runs is
  cleared by `claim_resume` of the staged state, without pause or warning.
* **`CorrectionAtConfirmation`.** Corrections accepted before the confirmation
  are replaced, not joined, by those accepted while the confirmed tool runs.
* **`NoticeTellsVerdict`.** If the sweep ends a job whose agent is only slow, or
  a cancellation is judged by an outdated copy of the job, the chat keeps the
  first notice although the job list shows another verdict. The changelog
  promises the recorded result.
* **`CloseLeavesNothing`.** A tool call that waits for the lock of its server
  while `close()` cancels the session worker tests `_closed` no more when it gets
  the lock: it starts a worker with a new session that nobody closes. `close()`
  also runs at each reload of the configuration, where the process goes on. Its
  docstring promises that every live session is closed.
* **`ToldIsOver`.** A caller gives up at its deadline and releases the lock, while the
  worker may be in a close of the session that nothing bounds (`runtime.py:442`, and
  388 for a half-open one). The next call is queued behind it, and gives up in its
  turn: the user reads that the call failed. When the close returns the worker takes
  that call up, with a fresh deadline, and may replay it. `CHANGELOG.md:991` says that
  timed-out tool calls remain honest and are never replayed.

`PROJECT.json` quotes the lines. How far each of the six promises holds all the
same is proved (section 6): `CancelsAccountedFor`, `PausesAccountedFor`,
`CorrectionsAccountedFor`, `CurrentCopiesTellVerdict`,
`CloseIsCleanWithoutLateTurns` and `NothingReplayedUnlessGivenUpBehind`.

The modules state further properties that documents or comments suggest and the
code does not keep. No run checks them; they were found while modelling.

* `NativeTurn!ConfirmedCounts`. `resolve_agent_job_confirmation` adds a confirmed
  tool to `successful_tool_names` but not to the effectful ones
  (`pipeline.py:660-662`): the agent that then reports the confirmed change is
  taken for one that claims without having done anything, and the user may read
  that nothing was changed (`CHANGELOG.md:986`: tool-backed results remain valid).
* `NativeTurn!SummaryReserve`. The comment at `handler.py:2053` keeps one call
  for the summary; attempts, corrective retries and previews use it up, and the
  job then ends without a summary of its observations.
* The snapshot of a confirmation omits the raised budgets
  (`handler.py:2297-2324`), so that a job that was extended goes on with the
  default ones; `CHANGELOG.md:971` says that budgets persist.
* `UpdateHelper!OneOperation`. "An update is already running"
  (`update_helper.py:780`) is answered by the file, which the accepted thread
  writes later: two requests in a row may both be accepted.
* `EventNotices!NoticeFollowsExchange`. The comment at `main.py:455-457` wants the
  notice after its exchange; after two seconds the code no longer waits.
* `EventNotices!NoticeFits`. A pause notice of another process that is late reads the
  row while the job awaits a confirmation, and takes that key
  (`agent_jobs.py:1164`): the user is told of a pause, and the notice with the preview
  of the call is not sent.
* The "exact-once" notices of `docs/release/public-release-summary-alpha1006.md:9`
  are at most once: they are marked before they are sent.
* A job whose steps are used up at the moment it goes on parks again before it
  drains (`handler.py:2453-2475` saves no `queued_corrections`): the corrections it
  carried are dropped. Only the loss at a confirmation has a run of its own.
* A storage error while the notice of a finished job is prepared makes the
  handler at `pipeline.py:1552` record the job as failed.

## 6. The proofs

All theorems hold for every value of the constants, under the assumptions
stated with them: `BoundsAssumption` and `NoStateAssumption` in `AgentJobs`
(the queue has at least two places, bounds are natural numbers, NULL is no
queue), `VerdictAssumption` in `JobLifecycle`, `NoticeAssumption` in
`JobNotices` (the history keeps at least one row, marker values are distinct).

*`AgentJobs_proofs`.* The safety properties are not inductive: that nobody else
runs a job follows from what its row says about its agent. `IInv` joins a
statement about each row by itself (`RowInv`: its type; parked rows have a
state and no pending cancellation; confirmations asked and resolved differ by
at most one and by what the status says; used actions are old events) and one
about tasks and rows together (`TaskInv`: two tasks that work for one job are
the same; the job of an agent is detached with nothing open, deleted, or swept;
the job of an attached turn has no row). The argument follows the code: every
UPDATE keeps `RowInv` under its WHERE clause; a claim needs a parked row, which
no agent can have; what others do to a row an agent relies on is harmless; and
the cap removes only ended rows. From `IInv` follow `TypesHold`, `OneAgent`,
`AgentsOwnTheirJobs`, `ParkedJobsCanResume`, `CancelsBlockParking`,
`DecisionsStayOpen`, `ConfirmationsResolvedOnce`, and, for steps, `VerdictsStand`.

What a step makes of the rows is proved in the same pass over the actions
(`NextInv`): `LivesKept` says of every row how its status and verdict may change,
and that a live row is deleted only in the step in which its own agent ends.
`ActiveJobsKept` is a part of it. `JobsKeepLifecycle` is the refinement of
`JobLifecycle`: `LifeGoesOn` maps each such change to `MayBecome`, and
`VerdictsFit` shows that the verdicts of the store meet the assumption of
`JobLifecycle`.

`AgentsOwnTheirJobs` and `VerdictsStand` have an exception, the agent that the
stale sweep took for dead. The last part shows that nothing else causes it. Under
`~SlowSteps` (no step of an agent outlasts `stale_after`), `PromptAgents` is
inductive on top of `IInv`: a claim or a detachment hands the agent a row that is
fresh, its own steps refresh it, and time ages only a row that stays fresh or that
no agent works on. Hence `PromptAgentsKeepTheirJobs`, the job of a running agent is
detached and fresh, and `PromptVerdictsAreFinal`, verdicts are final without
exception.

*`UserRequests_proofs`.* `CorrectionsGivenOnce` is about three places a correction
waits in: the queue of the row, the snapshot of a parked job, the state of a task.
That these are disjoint is not inductive, since nothing in it keeps a new text from
waiting somewhere already. `OnceInv` (`CorrectionInvariance`) adds where texts come
from: what waits is `Pending`, accepted and not applied; what waits in a snapshot
or in a task is not in the queue; a turn that is not detached carries nothing. A
snapshot and a task never wait at once, because no agent runs while its job is
parked (`TaskInv`). A claim, which joins queue and snapshot and keeps the last ones,
then moves every text to one place.

The other three theorems list where the store forgets a request, so that a repair
of these places is a repair of the promise. They are action properties: `Accounted`
says of a step that an accepted text is still somewhere after it, was applied or
pushed out of a full queue, or was lost by the claim after a resolved confirmation
(`Overtaken`), by a stretch that pauses for a spent budget before it drains
(`SpentAtOnce`), or with its worker (`LostWithWorker`). It needs `CarriersInv`: texts
in a task are there only until the next drain, and a job that asks for a confirmation
has none in its snapshot. `PausesAccounted` needs `PauseInv`: of the parked jobs only
those staged after a resolved confirmation keep the request that their claim clears.
`CancelsAccounted`, an agent leaves a job that is asked to cancel running only in a
step that asks or resolves a confirmation, follows from the UPDATEs: every other
outcome ends the job when a park is refused.

*`JobNotices_proofs`.* `AppendKeepsOrder` says what `history[-n:]` keeps, from
which an append keeps the rows without duplicates (`Unique`). `ShownInv` adds
what makes `DeliveredWasShown` inductive: what the history shows was counted,
and so was what a courier is about to mark. `AgentInv` says that a running
agent's job is being worked on, deleted or swept, which is what the refinement
`NoticesKeepLifecycle` needs when the agent writes its verdict. For
`DeliveredOnceOnly` deliveries are assumed to end within their lease; then
`HolderInv`, one courier at a time holds a notice and its lease stands or the
job is gone, is inductive too.

`NoticeTellsVerdict`, which the code breaks, is `CurrentCopiesTellVerdict` under two
conditions on steps. `CallersCurrent`: no cancellation of a job that was read as
parked meets one that works again, and no sweep ends a job that is not stale any
more. `AgentsCurrent`: no agent records a verdict on a job that has one. TLC finds
the promise broken when any of these three is left out. `TruthInv` is inductive then:
what is in the outbox, in the hands of a courier or in the history about a job that
is over is its verdict, because a verdict is written once (`RightStays`) and only
what is right is passed on. `PromptAgentsAreCurrent` discharges the second condition
under `~SlowSteps`, so that `PromptAgentsTellVerdict` needs the first alone.

*`NativeTurn_proofs`.* Under `BudgetAssumption` (limits are positive). `Accounts`
says that a memory, in the loop or in a snapshot, has counted every provider
call and retry of the whole job and remembers its effects; this is what parking
has to keep. `LoopInv` adds that a stretch which asks has a call left, so that
only a preview or the retries of the summary go beyond the limit, and then once;
`ParkInv` that the calls left open by a confirmation are the frozen one and those
the snapshot defers. The five theorems are conjuncts of the same `TurnInv`.

*`Confirmations_proofs`.* Under `ConfirmationAssumption`. `HeldOnce`: a call is
held by one task at most, and then its row is gone and it has not run.
`JobDecidesOnce`: one task at a time decides about the token of a job, beside those
that only withdraw it; without it a refusal could be told of a call that another task runs. `ToldNotRun`: what
was said not to run is out of everybody's reach. From `ConfInv` follow
`AnswersAreTrue`, and `FrozenCallsHold`: each action changes the fates as one
step of `FrozenCall` does, or not at all.

*`McpClients_proofs`.* Under `McpAssumption`. A request somebody waits for
(`Awaited`) was entered under the lock, and its caller holds the lock as long as it
waits: so nobody else can enter one behind it. `McpInv` says this of the queues
(`Queued`: it is the last one of its queue; `QueuedOnce`: all the queues together hold
one such request) and of the dictionaries (`Entered`: until `close` the entry is the only worker). It needs the
discipline of the lock, `LockInv` below, and is inductive together with it
(`McpInvariant`). From it follow `AwaitedRequestsAreLast` and `OneSessionHolds`.

`ToldIsOver`, which the code breaks, holds if no call is given up while its request
waits behind another one (`NobodyGivesUpBehind`): then all that waits behind is
awaited or a discovery (`NoneForsakenBehind`), so that the worker takes no orphaned
call up (`NothingReplayedUnlessGivenUpBehind`). What a caller leaves in execution
therefore does no harm to this promise, and a test of `future.done()` where the
worker takes its next request would be enough.

`CacheInv`, a recorded failure goes with withdrawn tools, is inductive by itself
and gives `FailuresWithdrawTools`. `LockInv` is the discipline of `asyncio.Lock`
(`Orderly`): who works under the lock is at the head of its queue, who waits has
exactly one place in it, nobody else has one. A release or a cancellation takes one
task out (`WithoutOne`, `WithoutNobody`: what `RemoveFirst` leaves), which keeps the
order of the others. From it follow `OneOperationAtATime`, also while `close()`
cancels the tasks that retry or refresh, and `McpTypesHold`.

`CloseLeavesNothing`, which the code breaks, holds when nobody takes the lock once
`close()` has begun to stop the session (`CloseIsCleanWithoutLateTurns`): then
`EntryInv`, that every worker is the one of the entry, which dies while `close()`
waits and is gone afterwards, is inductive. Before that moment a late turn does no
harm, since its worker is cancelled with the entry; and a reconnect or an idle
session cannot leave a second one. To read `_closed` again behind the lock is
therefore enough. `CloseIsCleanWithNobodyWaiting` derives this condition when nobody
waits as `close()` begins: a closed manager refuses before the lock (`NobodyJoins`).

*`EventNotices_proofs`.* `MarksHeldOnce`: a mark is in the hands of one courier at
a time, and until he has used it the notice has never been shown; hence
`EventsShownOnce`, whatever becomes of the history.

*`UpdateHelper_proofs`.* `RunningIsTrue` and `HelperTypesHold` are inductive
together: the first of two operations to end takes "running" back, and a dead
helper has no threads.

*Only model-checked.* Liveness (`JobSettles`, `CancelEnds`, `NoticeArrives`,
`FinishEnds`, `FailedIsProbed`, `ParkedIsTold`, `HelperSettles`): under fairness it
rests on ENABLED, which is out of the prover's reach.

## 7. What is not modelled

* Texts, usage, costs, details and the step log, except that writing them
  refreshes `updated_at`; formatting and bounding of what is shown.
* Errors of SQLite and of the file system inside a transaction: they can strike
  anywhere, and the code has no policy for them beyond generic handlers.
* The status `running` of a row: no caller creates one.
* In the agent loop: images, usage, traces, journal, recipe suggestions, memory
  learning, and the two model calls outside its account (phrasing of a confirmed
  result, memory learning). `AgentJobs` and `NativeTurn` describe the same loop
  for different questions and are not composed: in the first, what budgets and
  guards decide is a choice; in the second, the races of the store are `Abandon`.
* Of the MCP manager: projection of tools and results, disabled servers, other
  transports, and the worker of another event loop. A failure inherited on a
  reload schedules no probe of its own; the next discovery does.
* Of the update helper: what its commands do, its log and token.
* The up to two seconds that a terminal notice waits for its exchange (the same
  wait is in `EventNotices`).
* The older path of signed pending payloads in chat: `flows.py:283` calls
  `pipeline.execute_pending_routed_action`, which the pipeline does not define.
* Activity journal and inbound events: one `INSERT OR IGNORE` per event. The
  journal keeps the first verdict on a job and the job store the last, and no
  document says which one counts.
* The read cache of the history, which is keyed by the file's time and size.
* Components marked `not_modelled` in `PROJECT.json`: external services,
  presentation, configuration, packaging, and sequential programs over
  user-edited files.
