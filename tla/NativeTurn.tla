----------------------------- MODULE NativeTurn -----------------------------
(***************************************************************************)
(* The native agent loop of one job (_run_native_agent_loop in             *)
(* native_agent/handler.py): its step and call budgets, the guards on what *)
(* the model says, the tool protocol, the closing call, and what is saved  *)
(* when the job parks and restored when it goes on (_native_resume_snapshot*)
(* there; claim_budget_action in agent_jobs.py; resume_agent_job and       *)
(* resolve_agent_job_confirmation in pipeline.py).                         *)
(*                                                                         *)
(* The model, the tools and the user are choices: what the model answers,  *)
(* how often a call fails before it succeeds, what a tool returns, when    *)
(* the user pauses, extends, finishes, confirms or declines.  A provider   *)
(* call with its retries is one step, and so is a tool call with the       *)
(* bookkeeping after it.                                                   *)
(*                                                                         *)
(* AgentJobs has the races of the same job on the job store; here they     *)
(* appear as Abandon only.  Left out: corrections, images, usage, journal  *)
(* and recipe suggestions, and the two model calls that are not on this    *)
(* account: the phrasing of a confirmed result, and memory learning.       *)
(***************************************************************************)
EXTENDS Integers, FiniteSets

CONSTANTS
    DefaultSteps,  \* native_agent_max_steps
    DefaultCalls,  \* native_agent_max_provider_calls
    Extension,     \* native_agent_budget_extension_steps
    HardCap,       \* native_agent_budget_max_total
    MaxAttempts,   \* NATIVE_PROVIDER_MAX_ATTEMPTS
    MaxBatch       \* bound: tool calls in one response

ASSUME BudgetAssumption ==
    {DefaultSteps, DefaultCalls, Extension, HardCap, MaxAttempts, MaxBatch} \subseteq Nat \ {0}

VARIABLES
    at,        \* where the loop is
    mem,       \* the local variables that a snapshot saves
    run,       \* the limits of this stretch of the loop, and sole_terminal_call
    saved,     \* resume_state of the parked job
    detached,  \* has the job outlived its synchronous turn?
    outcome,   \* how the job ended
    spent,     \* ghost: provider calls made for this job
    granted,   \* ghost: the largest call budget the job ever had
    retries,   \* ghost: how often a corrective retry of a kind was made
    effects    \* ghost: how effectful tools succeeded for this job

turnVars == <<at, mem, run, saved, detached, outcome, spent, granted, retries, effects>>

-----------------------------------------------------------------------------
\* truncation_retry_used, unsourced_resource_retry_used, action_claim_retry_used
Guards == {"cut", "resource", "action"}

\* open counts the tool calls of the last response that have no answer yet.
Memory == [step : Nat, calls : Nat,
           used     : BOOLEAN,          \* used_tool_names
           seen     : BOOLEAN,          \* successful_effectful_observations
           effected : BOOLEAN,          \* successful_effectful_tool_names
           retried  : SUBSET Guards,
           open     : 0..MaxBatch]

Blank == [step |-> 0, calls |-> 0, used |-> FALSE, seen |-> FALSE, effected |-> FALSE,
          retried |-> {}, open |-> 0]

Limits == [steps : Nat, calls : Nat, finish : BOOLEAN, resumed : BOOLEAN, sole : BOOLEAN]

\* A confirmed or declined call is staged as a plain pause.
Kinds == {"paused", "budget", "confirm"}

Snapshots == [mem : Memory, kind : Kinds, steps : Nat, calls : Nat,
              finish : BOOLEAN, deferred : 0..MaxBatch]

NoSnapshot == [mem |-> Blank, kind |-> "paused", steps |-> 0, calls |-> 0,
               finish |-> FALSE, deferred |-> 0]

Outcomes == {"none", "answered", "truncated", "unsourced", "unsupported", "providerFailed",
             "failClosed", "asksInChat", "bestEffort", "degraded", "notSummarized",
             "withoutObservations", "abandoned"}

Looping == {"boundary", "asking", "batch", "closing"}

TurnTypeOK ==
    /\ at \in Looping \cup {"parked", "ended"}
    /\ mem \in Memory
    /\ run \in Limits
    /\ saved \in Snapshots
    /\ detached \in BOOLEAN
    /\ outcome \in Outcomes /\ (outcome = "none" <=> at # "ended")
    /\ spent \in Nat /\ granted \in Nat
    /\ retries \in [Guards -> Nat]
    /\ effects \subseteq {"direct", "confirmed"}

Larger(a, b)  == IF a >= b THEN a ELSE b
Smaller(a, b) == IF a <= b THEN a ELSE b

-----------------------------------------------------------------------------
(***************************************************************************)
(* What a stretch of the loop starts from.                                 *)
(***************************************************************************)
RestoredLimits(s) ==
    [steps |-> Larger(DefaultSteps, s.steps), calls |-> Larger(DefaultCalls, s.calls),
     finish |-> s.finish, resumed |-> TRUE, sole |-> FALSE]

TurnInit ==
    /\ at = "boundary"
    /\ mem = Blank
    /\ run = [steps |-> DefaultSteps, calls |-> DefaultCalls, finish |-> FALSE,
              resumed |-> FALSE, sole |-> FALSE]
    /\ saved = NoSnapshot
    /\ detached = FALSE
    /\ outcome = "none"
    /\ spent = 0 /\ granted = DefaultCalls
    /\ retries = [g \in Guards |-> 0]
    /\ effects = {}

End(how) ==
    /\ at' = "ended" /\ outcome' = how
    /\ UNCHANGED <<run, saved, detached, granted>>

Go(where) ==
    /\ at' = where
    /\ UNCHANGED <<saved, detached, outcome, granted>>

(***************************************************************************)
(* What a snapshot keeps of the memory, and of the limits: those of a      *)
(* confirmation leave the budgets out, and the restored ones are then the  *)
(* defaults again.  A snapshot that is too large is not made at all.       *)
(***************************************************************************)
KeptBarGuards(m) == [m EXCEPT !.retried = {}]                              \* mutant
KeptBarEffects(m) == [m EXCEPT !.effected = FALSE]                         \* mutant
Kept(m) == m

Snapshot(m, kind) ==
    [mem |-> Kept(m), kind |-> kind, finish |-> FALSE,
     steps |-> IF kind = "confirm" THEN 0 ELSE run.steps,
     calls |-> IF kind = "confirm" THEN 0 ELSE run.calls,
     deferred |-> IF kind = "confirm" THEN m.open - 1 ELSE 0]

Park(m, kind) ==
    /\ at' = "parked" /\ mem' = Blank
    /\ saved' = Snapshot(m, kind)
    /\ UNCHANGED <<run, detached, outcome, granted>>

-----------------------------------------------------------------------------
(***************************************************************************)
(* The boundary of a step.                                                 *)
(***************************************************************************)
\* The synchronous budget is over: the turn goes on as a job.
Detach ==
    /\ at \in Looping /\ ~detached
    /\ detached' = TRUE
    /\ UNCHANGED <<at, mem, run, saved, outcome, spent, granted, retries, effects>>

LoopOpen ==
    /\ ~run.finish
    /\ mem.step < run.steps + Cardinality(mem.retried \cap {"resource", "action"})

PauseAtBoundary ==
    /\ at = "boundary" /\ LoopOpen
    /\ mem.step > 0 /\ detached
    /\ Park(mem, "paused")
    /\ UNCHANGED <<spent, retries, effects>>

\* One call is kept for the summary, as soon as there is something to sum up.
OutOfCalls ==
    \/ mem.calls >= run.calls
    \/ mem.used /\ mem.calls >= run.calls - 1

\* Also after a pause was refused because its snapshot is too large.
Advance ==
    /\ at = "boundary" /\ LoopOpen
    /\ mem' = [mem EXCEPT !.step = @ + 1]
    /\ Go(IF OutOfCalls THEN "closing" ELSE "asking")
    /\ UNCHANGED <<run, spent, retries, effects>>

LeaveLoop ==
    /\ at = "boundary" /\ ~LoopOpen
    /\ Go("closing")
    /\ UNCHANGED <<mem, run, spent, retries, effects>>

-----------------------------------------------------------------------------
(***************************************************************************)
(* Calls of the model, with up to MaxAttempts attempts on transient errors.*)
(***************************************************************************)
AttemptsAnyway(finalizer) ==                                               \* mutant
    Smaller(MaxAttempts, Larger(1, run.calls - mem.calls) + (MaxAttempts - 1))
Attempts(finalizer) ==
    LET remaining == Larger(0, run.calls - mem.calls)
        headroom  == IF finalizer /\ remaining > 0 THEN MaxAttempts - 1 ELSE 0
    IN  Smaller(MaxAttempts, remaining + headroom)

Charged(m, k) == [m EXCEPT !.calls = @ + k]

AskFails ==
    /\ at = "asking"
    /\ \E k \in 1..Attempts(FALSE) :
        /\ mem' = Charged(mem, k) /\ spent' = spent + k
    /\ End("providerFailed")
    /\ UNCHANGED <<retries, effects>>

\* One corrective retry of a kind, while the budget has a call left.
Retry(m, guard) ==
    /\ guard \notin m.retried /\ m.calls < run.calls
    /\ mem' = [m EXCEPT !.retried = @ \cup {guard}]
    /\ retries' = [retries EXCEPT ![guard] = @ + 1]
    /\ Go("boundary")
    /\ UNCHANGED run

NoRetry(m, guard, how) ==
    /\ guard \in m.retried \/ m.calls >= run.calls
    /\ mem' = m
    /\ End(how)
    /\ UNCHANGED retries

\* An empty response that was cut off by the token limit.
CutOff ==
    /\ at = "asking"
    /\ \E k \in 1..Attempts(FALSE) :
        /\ spent' = spent + k
        /\ \/ Retry(Charged(mem, k), "cut")
           \/ NoRetry(Charged(mem, k), "cut", "truncated")
    /\ UNCHANGED effects

\* What a text may look like to the guards.
Looks == SUBSET {"resource", "action"}

UnsourcedResource(m, looks) == "resource" \in looks /\ ~m.used
UnsupportedAction(m, looks) == "action" \in looks /\ ~m.effected

\* The model recapitulates earlier turns; a resumed loop has no history.
Recaps(m) == "action" \in m.retried /\ ~run.resumed

AnswerStands(m, looks) ==
    /\ ~UnsourcedResource(m, looks)
    /\ UnsupportedAction(m, looks) => Recaps(m)

Answer ==
    /\ at = "asking"
    /\ \E k \in 1..Attempts(FALSE), looks \in Looks :
        LET m == Charged(mem, k) IN
        /\ spent' = spent + k
        /\ \/ /\ UnsourcedResource(m, looks)
              /\ Retry(m, "resource") \/ NoRetry(m, "resource", "unsourced")
           \/ /\ ~UnsourcedResource(m, looks) /\ UnsupportedAction(m, looks)
              /\ Retry(m, "action") \/ NoRetry(m, "action", "unsupported")
           \/ /\ AnswerStands(m, looks)
              /\ mem' = m /\ End("answered") /\ UNCHANGED retries
    /\ UNCHANGED effects

\* Neither text nor tool calls, and not cut off.
EmptyResponse ==
    /\ at = "asking"
    /\ \E k \in 1..Attempts(FALSE) :
        /\ mem' = Charged(mem, k) /\ spent' = spent + k
    /\ End("providerFailed")
    /\ UNCHANGED <<retries, effects>>

\* sole_terminal_call: the only call of the turn, of a tool whose result is the answer.
CallsTools ==
    /\ at = "asking"
    /\ \E k \in 1..Attempts(FALSE), n \in 1..MaxBatch, terminal \in BOOLEAN :
        /\ mem' = [Charged(mem, k) EXCEPT !.open = n]
        /\ spent' = spent + k
        /\ run' = [run EXCEPT !.sole = n = 1 /\ ~mem.used /\ terminal]
    /\ Go("batch")
    /\ UNCHANGED <<retries, effects>>

-----------------------------------------------------------------------------
(***************************************************************************)
(* The tool calls of a response, one after the other.                      *)
(***************************************************************************)
AnsweredWithNext(m) == [m EXCEPT !.open = @ - 2]                           \* mutant
Answered(m) == [m EXCEPT !.open = @ - 1]

AfterCall(m) == IF m.open = 0 THEN "boundary" ELSE "batch"

\* A tool that was not offered, no pending store, or a tool that raises.
CallFailsClosed ==
    /\ at = "batch"
    /\ End("failClosed")
    /\ UNCHANGED <<mem, spent, retries, effects>>

\* The connection is not resolved, or the arguments of a frozen call are invalid.
CallNotRun ==
    /\ at = "batch"
    /\ mem' = Answered(mem)
    /\ Go(AfterCall(Answered(mem)))
    /\ UNCHANGED <<run, spent, retries, effects>>

Results == {"failed", "read", "effect"}

Noted(m, result) ==
    [Answered(m) EXCEPT !.used = TRUE,
                        !.seen = @ \/ result # "failed",
                        !.effected = @ \/ result = "effect"]

RunTool ==
    /\ at = "batch"
    /\ \E result \in Results :
        LET m == Noted(mem, result) IN
        /\ mem' = m
        /\ effects' = effects \cup IF result = "effect" THEN {"direct"} ELSE {}
        /\ IF run.sole THEN End("answered") ELSE Go(AfterCall(m)) /\ UNCHANGED run
    /\ UNCHANGED <<spent, retries>>

\* The frozen call is put aside and its preview phrased, over budget or not.
AskUserInJob ==
    /\ at = "batch" /\ detached
    /\ Park(Charged(mem, 1), "confirm")
    /\ spent' = spent + 1
    /\ UNCHANGED <<retries, effects>>

\* Not yet a job, or the snapshot is too large: the chat asks.
AskUserInChat ==
    /\ at = "batch"
    /\ mem' = Charged(mem, 1) /\ spent' = spent + 1
    /\ End("asksInChat")
    /\ UNCHANGED <<retries, effects>>

-----------------------------------------------------------------------------
(***************************************************************************)
(* After the loop.                                                         *)
(***************************************************************************)
MayParkAnyway == mem.used /\ detached                                      \* mutant
MayPark == mem.used /\ ~run.finish /\ detached

ParkOnBudget ==
    /\ at = "closing" /\ MayPark
    /\ Park(mem, "budget")
    /\ UNCHANGED <<spent, retries, effects>>

CanSummarize == mem.used /\ mem.calls < run.calls

\* The closing call, when the job may not park or its snapshot is too large.
Finalize ==
    /\ at = "closing" /\ CanSummarize
    /\ \E k \in 1..Attempts(TRUE), looks \in Looks :
        /\ mem' = Charged(mem, k) /\ spent' = spent + k
        /\ End(IF UnsupportedAction(mem, looks) THEN "unsupported" ELSE "bestEffort")
    /\ UNCHANGED <<retries, effects>>

FinalizerFails ==
    /\ at = "closing" /\ CanSummarize
    /\ \E k \in 1..Attempts(TRUE) :
        /\ mem' = Charged(mem, k) /\ spent' = spent + k
    /\ End(IF mem.seen THEN "degraded" ELSE "notSummarized")
    /\ UNCHANGED <<retries, effects>>

\* native_agent_budget_exhausted_without_observations
GiveUp ==
    /\ at = "closing" /\ ~CanSummarize
    /\ End("withoutObservations")
    /\ UNCHANGED <<mem, spent, retries, effects>>

-----------------------------------------------------------------------------
(***************************************************************************)
(* What the user does with a parked job.                                   *)
(***************************************************************************)
Restart(s) ==
    /\ at' = "boundary"
    /\ mem' = s.mem
    /\ run' = RestoredLimits(s)
    /\ granted' = Larger(granted, RestoredLimits(s).calls)
    /\ saved' = NoSnapshot
    /\ UNCHANGED <<detached, outcome, spent, retries, effects>>

Resume ==
    /\ at = "parked" /\ saved.kind \in {"paused", "budget"}
    /\ Restart(saved)

Raised(limit) == Smaller(HardCap, limit + Extension)

Extend ==
    /\ at = "parked" /\ saved.kind = "budget"
    /\ saved.steps < HardCap \/ saved.calls < HardCap
    /\ Restart([saved EXCEPT !.steps = Raised(@), !.calls = Raised(@)])

Finish ==
    /\ at = "parked" /\ saved.kind = "budget"
    /\ Restart([saved EXCEPT !.finish = TRUE])

(***************************************************************************)
(* The frozen call is run, refused (the token is gone) or declined; the    *)
(* snapshot gets its answer and those of the calls behind it, and is       *)
(* staged as a pause.  The names of effectful tools are not touched.       *)
(***************************************************************************)
ResolvedAlone(s, ran) ==                                                   \* mutant
    [s EXCEPT !.kind = "paused", !.deferred = 0,
              !.mem.used = @ \/ ran, !.mem.open = @ - 1]
Resolved(s, ran) ==
    [s EXCEPT !.kind = "paused", !.deferred = 0,
              !.mem.used = @ \/ ran, !.mem.open = @ - (1 + s.deferred)]

Resolve ==
    /\ at = "parked" /\ saved.kind = "confirm"
    /\ \E result \in Results \cup {"notRun"} :
        /\ saved' = Resolved(saved, result # "notRun")
        /\ effects' = effects \cup IF result = "effect" THEN {"confirmed"} ELSE {}
    /\ UNCHANGED <<at, mem, run, detached, outcome, spent, granted, retries>>

\* Cancelled, interrupted by a dying worker, swept, or timed out while parked.
Abandon ==
    /\ at # "ended" /\ detached
    /\ End("abandoned")
    /\ UNCHANGED <<mem, spent, retries, effects>>

-----------------------------------------------------------------------------
LoopStep ==
    \/ Advance \/ LeaveLoop \/ PauseAtBoundary
    \/ AskFails \/ CutOff \/ Answer \/ EmptyResponse \/ CallsTools
    \/ CallFailsClosed \/ CallNotRun \/ RunTool \/ AskUserInJob \/ AskUserInChat
    \/ ParkOnBudget \/ Finalize \/ FinalizerFails \/ GiveUp

UserStep == Resume \/ Extend \/ Finish \/ Resolve

TurnNext == LoopStep \/ UserStep \/ Detach \/ Abandon

\* The event loop runs the task of the agent; nobody has to take up a parked job.
TurnSpec == TurnInit /\ [][TurnNext]_turnVars /\ WF_turnVars(LoopStep)

-----------------------------------------------------------------------------
(***************************************************************************)
(* Providers reject a history in which a tool call has no answer: whenever *)
(* the loop is about to ask the model or to make the closing call, also    *)
(* after a confirmation cut a batch in two, no call is open.               *)
(***************************************************************************)
HistoryClosed == at \in {"boundary", "asking", "closing"} => mem.open = 0

(***************************************************************************)
(* Parking does not refill the budget: over the whole job, with all its    *)
(* pauses, retries, previews and summaries, the provider is called no more *)
(* often than the largest budget granted, and the retries of a summary.    *)
(***************************************************************************)
SpentWithinGrant == spent <= granted + Larger(1, MaxAttempts - 1)

\* "one bounded corrective retry": of each kind one per job, pauses included.
RetriedOnce == \A g \in Guards : retries[g] <= 1

(***************************************************************************)
(* The refusal of a completion claim tells the user that nothing was done: *)
(* it is never given in a job that changed something by itself, also not   *)
(* in a later stretch than the one that did.                               *)
(***************************************************************************)
RefusedHonestly == outcome = "unsupported" => "direct" \notin effects

\* The same of a call that the user confirmed. The code does not keep it.
ConfirmedCounts == outcome = "unsupported" => "confirmed" \notin effects

(***************************************************************************)
(* The loop keeps one call for the summary of what its tools found: it     *)
(* does not give up as without observations when there are some.  The code *)
(* does not keep it: attempts, corrective retries and previews use it up.  *)
(***************************************************************************)
SummaryReserve == outcome = "withoutObservations" => ~mem.seen

\* A job that its user asked to finish ends, and does not park once more.
FinishEnds == (at = "boundary" /\ run.finish) ~> (at = "ended")
=============================================================================
