----------------------------- MODULE JobNotices -----------------------------
(***************************************************************************)
(* The terminal notices of detached jobs: the outbox agent_job_notices     *)
(* (agent_jobs.py), the tasks that deliver from it and retry               *)
(* (_notify_agent_job_terminal, reconcile_agent_job_notices in             *)
(* pipeline.py), and the chat history of one user, which keeps only the    *)
(* last rows and which the user may clear (chat_history_storage/store.py). *)
(*                                                                         *)
(* The jobs live the lives of JobLifecycle, which AgentJobs implements;    *)
(* here they also have an agent or none, and a row that may look stale.    *)
(* A courier is one call of _notify_agent_job_terminal together with what  *)
(* made its caller notify.  Each transaction on the store and each locked  *)
(* access to the history is one step; other couriers, of the same or of    *)
(* another worker process, may come between any two of them.               *)
(*                                                                         *)
(* Left out: the polls of _append_agent_job_notice, which wait up to two   *)
(* seconds for the exchange of the job to appear and then append anyway,   *)
(* and the notices of pauses and confirmations, which use no outbox.       *)
(***************************************************************************)
EXTENDS JobLifecycle, Integers, Sequences, FiniteSets

CONSTANTS
    Couriers,      \* slots for couriers, over all worker processes
    Cancelled,     \* the verdict cancelled_by_user
    TimedOut,      \* the verdict stale_paused_timeout
    Unknown,       \* what the notice of a job without verdict would tell
    Nobody,        \* stands for the job of an ordinary chat message
    HistoryCap,    \* max_messages
    MaxShown,      \* bound: how often a notice is counted as shown
    SlowSteps,     \* may one agent step outlast the stale cutoff?
    SlowDelivery,  \* may a delivery outlast its lease of 15 seconds?
    Crashes        \* may couriers and agents die or be cancelled?

ASSUME NoticeAssumption ==
    /\ UserVerdicts = {Cancelled, TimedOut}
    /\ Unknown \notin Verdicts \cup {NoVerdict}
    /\ Nobody \notin Jobs
    /\ {HistoryCap, MaxShown} \subseteq Nat \ {0}
    /\ {SlowSteps, SlowDelivery, Crashes} \subseteq BOOLEAN

VARIABLES
    agent,      \* the jobs whose agent runs
    stale,      \* the jobs whose updated_at is older than the stale cutoff
    notice,     \* notice[j]: the row (j, "terminal") of agent_job_notices
    courier,    \* courier[c]: what a courier is about to do, and what it knows
    history,    \* the chat history
    shown       \* ghost: how often the notice of a job was appended

vars == <<life, agent, stale, notice, courier, history, shown>>

-----------------------------------------------------------------------------
Tells == Verdicts \cup {NoVerdict, Unknown}

\* tells is the payload, NoVerdict for '{}'; leased: lease_until > now.
Notice == [state  : {"none", "pending", "delivering", "delivered"},
           tells  : Tells,
           leased : BOOLEAN]

NoNotice == [state |-> "none", tells |-> NoVerdict, leased |-> FALSE]

(***************************************************************************)
(* pc names the next thing a courier does:                                 *)
(*   cancelling, sweeping    the caller has read the job, its write follows *)
(*   listed                  reconcile found the notice, reads the record  *)
(*   preparing, reserving    set_notice_payload, reserve_notice            *)
(*   appending, reading      append_assistant_notice, has_notice           *)
(*   marking, failing        mark_notice_delivered, fail_notice            *)
(***************************************************************************)
Holding   == {"appending", "reading", "marking", "failing"}
CourierPc == {"idle", "cancelling", "sweeping", "listed", "preparing", "reserving"} \cup Holding

Courier == [pc : CourierPc, job : Jobs, tells : Tells, saw : {"working", "waiting"}]

Entry == [of : Jobs \cup {Nobody}, tells : Tells]

TypeOK ==
    /\ LifeOK
    /\ {agent, stale} \subseteq SUBSET Jobs
    /\ notice  \in [Jobs -> Notice]
    /\ courier \in [Couriers -> Courier]
    /\ history \in Seq(Entry) /\ Len(history) <= HistoryCap
    /\ shown \in [Jobs -> 0..MaxShown]

-----------------------------------------------------------------------------
(***************************************************************************)
(* The outbox.                                                             *)
(***************************************************************************)

\* The trigger on agent_jobs and set_terminal: INSERT OR IGNORE.
DueIfPrepared(n) == n                                                      \* mutant
Due(n) == IF n.state = "none" THEN [n EXCEPT !.state = "pending"] ELSE n

\* set_notice_payload, for a job with a row or without.
WithPayload(n, exists, tells) ==
    IF n.state \in {"pending", "delivering"} THEN [n EXCEPT !.tells = tells]
    ELSE IF n.state = "none" /\ exists THEN [n EXCEPT !.state = "pending", !.tells = tells]
    ELSE n

\* reserve_notice: not delivered, nor in the hands of a courier with a lease.
ReservableAnytime(n) == n.state \in {"pending", "delivering"}              \* mutant
Reservable(n) == n.state = "pending" \/ (n.state = "delivering" /\ ~n.leased)

Reserved(n) == [n EXCEPT !.state = "delivering", !.leased = TRUE]

\* mark_notice_delivered
Delivered(n) ==
    IF n.state = "none" THEN n ELSE [n EXCEPT !.state = "delivered", !.leased = FALSE]

\* fail_notice, whoever holds the lease.
FailedForGood(n) == Delivered(n)                                           \* mutant
Failed(n) ==
    IF n.state \in {"none", "delivered"} THEN n
    ELSE [n EXCEPT !.state = "pending", !.leased = FALSE]

-----------------------------------------------------------------------------
(***************************************************************************)
(* The history: history[-max_messages:] after every append.                *)
(***************************************************************************)
RememberedAll(rows, entry) == Append(rows, entry)                          \* mutant
Remembered(rows, entry) ==
    LET all == Append(rows, entry)
    IN  IF Len(all) <= HistoryCap THEN all
        ELSE SubSeq(all, Len(all) - HistoryCap + 1, Len(all))

\* has_notice, and the same test in append_assistant_notice.
HasOlderNotice(rows, j) == \E i \in 1..Len(rows) - 1 : rows[i].of = j       \* mutant
HasNotice(rows, j) == \E i \in 1..Len(rows) : rows[i].of = j

-----------------------------------------------------------------------------
Init ==
    /\ LifeInit
    /\ agent = {} /\ stale = {}
    /\ notice = [j \in Jobs |-> NoNotice]
    /\ \E j \in Jobs :
        courier = [c \in Couriers |->
                     [pc |-> "idle", job |-> j, tells |-> NoVerdict, saw |-> "working"]]
    /\ history = <<>>
    /\ shown = [j \in Jobs |-> 0]

Go(c, pc) == courier' = [courier EXCEPT ![c].pc = pc]

Rest(c) == courier' = [courier EXCEPT ![c].pc = "idle", ![c].tells = NoVerdict,
                                      ![c].saw = "working"]

Call(c, pc, j, tells, saw) ==
    courier' = [courier EXCEPT ![c] = [pc |-> pc, job |-> j, tells |-> tells, saw |-> saw]]

\* The job gets a phase without verdict, or a verdict and with it a notice.
SetPhase(j, phase) == life' = [life EXCEPT ![j].phase = phase]

Conclude(j, verdict) ==
    /\ life' = [life EXCEPT ![j] = [phase |-> "over", verdict |-> verdict]]
    /\ notice' = [notice EXCEPT ![j] = Due(@)]

-----------------------------------------------------------------------------
(***************************************************************************)
(* The jobs, as far as their notices depend on them.                       *)
(***************************************************************************)

StartJob(j) ==
    /\ life[j].phase = "none"
    /\ SetPhase(j, "working") /\ agent' = agent \cup {j}
    /\ UNCHANGED <<stale, notice, courier, history, shown>>

\* set_paused and set_awaiting_confirmation
Park(j) ==
    /\ j \in agent /\ life[j].phase = "working"
    /\ SetPhase(j, "waiting")
    /\ agent' = agent \ {j} /\ stale' = stale \ {j}
    /\ UNCHANGED <<notice, courier, history, shown>>

\* claim_resume, claim_budget_action, claim_confirmation_resume
Continue(j) ==
    /\ life[j].phase = "waiting"
    /\ SetPhase(j, "working")
    /\ agent' = agent \cup {j} /\ stale' = stale \ {j}
    /\ UNCHANGED <<notice, courier, history, shown>>

\* Its worker died, or a refused write made it stop.
AgentVanishes(j) ==
    /\ j \in agent
    /\ agent' = agent \ {j}
    /\ UNCHANGED <<life, stale, notice, courier, history, shown>>

AgentWrites(j) ==
    /\ j \in agent /\ j \in stale
    /\ stale' = stale \ {j}
    /\ UNCHANGED <<life, agent, notice, courier, history, shown>>

LooksStale(j) ==
    /\ life[j].phase = "working" /\ j \notin stale
    /\ SlowSteps \/ j \notin agent
    /\ stale' = stale \cup {j}
    /\ UNCHANGED <<life, agent, notice, courier, history, shown>>

\* delete_terminal, enforce_user_cap, purge_terminal_before: the notice goes
\* with the job.
Delete(j) ==
    /\ life[j].phase = "over"
    /\ life' = [life EXCEPT ![j] = [phase |-> "gone", verdict |-> NoVerdict]]
    /\ notice' = [notice EXCEPT ![j] = NoNotice]
    /\ stale' = stale \ {j}
    /\ UNCHANGED <<agent, courier, history, shown>>

-----------------------------------------------------------------------------
(***************************************************************************)
(* The callers of _notify_agent_job_terminal.                              *)
(***************************************************************************)

\* An agent ends its job, also one that the sweep ended or that was deleted.
AgentEnds(c, j, verdict) ==
    /\ courier[c].pc = "idle"
    /\ j \in agent
    /\ agent' = agent \ {j} /\ stale' = stale \ {j}
    /\ IF life[j].phase = "gone" THEN UNCHANGED <<life, notice>> ELSE Conclude(j, verdict)
    /\ Call(c, "preparing", j, verdict, "working")
    /\ UNCHANGED <<history, shown>>

\* request_agent_job_cancel reads the job ...
CancelReads(c, j) ==
    /\ courier[c].pc = "idle"
    /\ life[j].phase \in {"working", "waiting"}
    /\ Call(c, "cancelling", j, Cancelled, life[j].phase)
    /\ UNCHANGED <<life, agent, stale, notice, history, shown>>

\* ... requests the cancellation and then notifies if the job it read waited.
CancelWrites(c) ==
    LET j == courier[c].job IN
    /\ courier[c].pc = "cancelling"
    /\ \/ life[j].phase = "waiting" /\ Conclude(j, Cancelled)
       \/ life[j].phase # "waiting" /\ UNCHANGED <<life, notice>>
    /\ stale' = stale \ {j}
    /\ IF life[j].phase \in {"working", "waiting"} /\ courier[c].saw = "waiting"
       THEN Go(c, "preparing") ELSE Rest(c)
    /\ UNCHANGED <<agent, history, shown>>

\* sweep_stale_agent_jobs lists the stale jobs ...
SweepReads(c, j) ==
    /\ courier[c].pc = "idle"
    /\ life[j].phase = "working" /\ j \in stale
    /\ Call(c, "sweeping", j, Guess, "working")
    /\ UNCHANGED <<life, agent, stale, notice, history, shown>>

\* The WHERE of mark_stale_interrupted repeats what stale_active asked for.
WasListed(j) == life[j].phase # "gone"                                     \* mutant
StillStale(j) == life[j].phase = "working" /\ j \in stale

\* ... ends those that are stale still, and notifies for those on the list.
SweepWrites(c) ==
    LET j == courier[c].job IN
    /\ courier[c].pc = "sweeping"
    /\ IF StillStale(j)
       THEN Conclude(j, Guess) /\ stale' = stale \ {j}
       ELSE UNCHANGED <<life, notice, stale>>
    /\ Go(c, "preparing")
    /\ UNCHANGED <<agent, history, shown>>

\* cancel_stale_paused
ParkedTimesOut(c, j) ==
    /\ courier[c].pc = "idle"
    /\ life[j].phase = "waiting"
    /\ Conclude(j, TimedOut)
    /\ Call(c, "preparing", j, TimedOut, "working")
    /\ UNCHANGED <<agent, stale, history, shown>>

\* reconcile_agent_job_notices: pending_notices_for_user, then get.
Reconcile(c, j) ==
    /\ courier[c].pc = "idle"
    /\ notice[j].state \in {"pending", "delivering"}
    /\ Call(c, "listed", j, NoVerdict, "working")
    /\ UNCHANGED <<life, agent, stale, notice, history, shown>>

ReadRecord(c) ==
    LET j == courier[c].job IN
    /\ courier[c].pc = "listed"
    /\ IF life[j].phase = "gone" THEN Rest(c)
       ELSE Call(c, "preparing", j,
                 IF life[j].phase = "over" THEN life[j].verdict ELSE Unknown, "working")
    /\ UNCHANGED <<life, agent, stale, notice, history, shown>>

-----------------------------------------------------------------------------
(***************************************************************************)
(* _notify_agent_job_terminal.                                             *)
(***************************************************************************)

Prepare(c) ==
    LET j == courier[c].job IN
    /\ courier[c].pc = "preparing"
    /\ notice' = [notice EXCEPT ![j] = WithPayload(@, life[j].phase # "gone", courier[c].tells)]
    /\ Go(c, "reserving")
    /\ UNCHANGED <<life, agent, stale, history, shown>>

\* The payload of the row, which may be another courier's by now.
Reserve(c) ==
    LET j == courier[c].job IN
    /\ courier[c].pc = "reserving"
    /\ \/ /\ Reservable(notice[j])
          /\ notice' = [notice EXCEPT ![j] = Reserved(@)]
          /\ courier' = [courier EXCEPT
                           ![c].pc = "appending",
                           ![c].tells = IF notice[j].tells = NoVerdict THEN @ ELSE notice[j].tells]
       \/ /\ ~Reservable(notice[j])
          /\ Rest(c)
          /\ UNCHANGED notice
    /\ UNCHANGED <<life, agent, stale, history, shown>>

\* append_assistant_notice: read, test and write under the lock of the file.
AppendNotice(c) ==
    LET j == courier[c].job IN
    /\ courier[c].pc = "appending"
    /\ \/ /\ HasNotice(history, j)
          /\ UNCHANGED <<history, shown>>
       \/ /\ ~HasNotice(history, j)
          /\ history' = Remembered(history, [of |-> j, tells |-> courier[c].tells])
          /\ shown' = [shown EXCEPT ![j] = IF @ < MaxShown THEN @ + 1 ELSE @]
    /\ Go(c, "reading")
    /\ UNCHANGED <<life, agent, stale, notice>>

ReadBack(c) ==
    /\ courier[c].pc = "reading"
    /\ Go(c, IF HasNotice(history, courier[c].job) THEN "marking" ELSE "failing")
    /\ UNCHANGED <<life, agent, stale, notice, history, shown>>

MarkDelivered(c) ==
    /\ courier[c].pc = "marking"
    /\ notice' = [notice EXCEPT ![courier[c].job] = Delivered(@)]
    /\ Rest(c)
    /\ UNCHANGED <<life, agent, stale, history, shown>>

Fail(c) ==
    /\ courier[c].pc = "failing"
    /\ notice' = [notice EXCEPT ![courier[c].job] = Failed(@)]
    /\ Rest(c)
    /\ UNCHANGED <<life, agent, stale, history, shown>>

\* The task is cancelled while it waits for the exchange of the job.
Interrupt(c) ==
    /\ Crashes
    /\ courier[c].pc = "appending"
    /\ Go(c, "failing")
    /\ UNCHANGED <<life, agent, stale, notice, history, shown>>

Crash(c) ==
    /\ Crashes
    /\ courier[c].pc # "idle"
    /\ Rest(c)
    /\ UNCHANGED <<life, agent, stale, notice, history, shown>>

\* Fifteen seconds are over.
LeaseExpires(j) ==
    /\ notice[j].leased
    /\ SlowDelivery \/ ~\E c \in Couriers : courier[c].pc \in Holding /\ courier[c].job = j
    /\ notice' = [notice EXCEPT ![j].leased = FALSE]
    /\ UNCHANGED <<life, agent, stale, courier, history, shown>>

-----------------------------------------------------------------------------
(***************************************************************************)
(* The user chats, a question and its answer at a time, or clears the chat. *)
(***************************************************************************)
Chat ==
    LET message == [of |-> Nobody, tells |-> NoVerdict] IN
    /\ history' = Remembered(Remembered(history, message), message)
    /\ UNCHANGED <<life, agent, stale, notice, courier, shown>>

ClearHistory ==
    /\ history # <<>>
    /\ history' = <<>>
    /\ UNCHANGED <<life, agent, stale, notice, courier, shown>>

-----------------------------------------------------------------------------
JobStep(j) ==
    \/ StartJob(j) \/ Park(j) \/ Continue(j) \/ AgentVanishes(j)
    \/ AgentWrites(j) \/ LooksStale(j) \/ Delete(j)

CallStep(c, j) ==
    \/ \E verdict \in Verdicts \ {Guess, TimedOut} : AgentEnds(c, j, verdict)
    \/ CancelReads(c, j) \/ SweepReads(c, j) \/ ParkedTimesOut(c, j) \/ Reconcile(c, j)

CourierStep(c) ==
    \/ CancelWrites(c) \/ SweepWrites(c) \/ ReadRecord(c)
    \/ Prepare(c) \/ Reserve(c) \/ AppendNotice(c) \/ ReadBack(c)
    \/ MarkDelivered(c) \/ Fail(c)

Next ==
    \/ \E j \in Jobs : JobStep(j) \/ LeaseExpires(j)
    \/ \E c \in Couriers : CourierStep(c) \/ Interrupt(c) \/ Crash(c)
    \/ \E c \in Couriers, j \in Jobs : CallStep(c, j)
    \/ Chat \/ ClearHistory

Spec == Init /\ [][Next]_vars

\* Couriers of a live worker go on; the user opens the chat or the jobs again
\* and again, and each time every undelivered notice gets a courier of its own
\* (strong, because only the number of slots here can keep it waiting).
Fairness ==
    /\ \A c \in Couriers : WF_vars(CourierStep(c))
    /\ \A j \in Jobs : SF_vars(\E c \in Couriers : Reconcile(c, j)) /\ WF_vars(LeaseExpires(j))

\* Some time nothing dies any more and the history is left alone.
Calm == <>[][ /\ \A c \in Couriers : ~Crash(c) /\ ~Interrupt(c)
              /\ ~Chat /\ ~ClearHistory ]_vars

FairSpec == Spec /\ Fairness /\ Calm

-----------------------------------------------------------------------------
(***************************************************************************)
(* Properties.                                                             *)
(***************************************************************************)

\* CHANGELOG: "exactly one" notice.  However many couriers deliver, retry and
\* lose their lease, the chat shows at most one terminal notice of a job
\* (append_assistant_notice).
ShownOnce ==
    \A j \in Jobs : Cardinality({i \in 1..Len(history) : history[i].of = j}) <= 1

\* The outbox forgets nothing: a notice counts as delivered only if the user's
\* chat had it at some time (mark_notice_delivered after the read-back).
DeliveredWasShown ==
    \A j \in Jobs : notice[j].state = "delivered" => shown[j] > 0

\* A job that is over, however it ended, has its notice in the outbox, so that
\* reconcile finds it even if the courier of the caller dies or there is none
\* (the trigger on agent_jobs).
VerdictHasNotice ==
    \A j \in Jobs : life[j].phase = "over" => notice[j].state # "none"

\* The jobs assumed here are jobs as AgentJobs provides them.
Lifecycle == LifeSpec

\* If no delivery outlasts its lease, a delivered notice does not come back,
\* not even after the chat was cleared (reserve_notice).
DeliveredStaysQuiet ==
    [][\A j \in Jobs : notice[j].state = "delivered" => shown'[j] = shown[j]]_vars

\* The notice of a job that is over is delivered, unless the job is deleted
\* first (reconcile_agent_job_notices).
NoticeArrives ==
    \A j \in Jobs : life[j].phase = "over"
                    ~> notice[j].state = "delivered" \/ life[j].phase = "gone"

\* CHANGELOG: the notice includes "the recorded result".
NoticeTellsVerdict ==
    \A i \in 1..Len(history) :
        history[i].of \in Jobs /\ life[history[i].of].phase = "over"
        => history[i].tells = life[history[i].of].verdict
=============================================================================
