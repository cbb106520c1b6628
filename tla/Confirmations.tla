--------------------------- MODULE Confirmations ---------------------------
(***************************************************************************)
(* Calls that wait for the user: the rows of native_pending_actions        *)
(* (native_agent/pending_store.py), the claims of the confirmation ledger  *)
(* (action_confirmation/ledger.py), the turn that runs a confirmed call    *)
(* (native_agent/handler.py) and what one background job does with the     *)
(* calls it asked for (pipeline.py: approve, decline, cancel, time out).   *)
(*                                                                         *)
(* A task is one request or asyncio task.  Each transaction is a step of   *)
(* its own: other tasks, the pruning of data hygiene, time, and the death  *)
(* of the worker may come between any two.                                 *)
(*                                                                         *)
(* Tokens are random and never used twice.  One of a chat is confirmed in  *)
(* the chat, perhaps twice; one of a job only by the buttons of the job.   *)
(* Left out: preview and phrasing, and what the call itself does.          *)
(***************************************************************************)
EXTENDS Naturals, FiniteSets

CONSTANTS
    Tokens,      \* the confirmations that are asked for
    Deciders,    \* slots for tasks that decide, over all worker processes
    NoToken,     \* stands for no token
    PendingTtl,  \* ttl_seconds of the pending store, in ticks of the clock
    Retention    \* retention_seconds of the ledger, in ticks

ASSUME ConfirmationAssumption ==
    /\ NoToken \notin Tokens
    /\ PendingTtl \in Nat /\ Retention \in Nat

VARIABLES
    pending,  \* pending[k]: age of the row of k in native_pending_actions
    claims,   \* claims[k]: age of the claim of k in action_confirmation_claims
    asker,    \* asker[k]: who asked: nobody yet, the chat, the job
    job,      \* the background job: its status and the token it waits for
    decider,  \* decider[d]: what a task is about to do
    runs,     \* ghost: how often the frozen call of k was run
    told      \* ghost: what was said about k, "ran" or "notRun"

confVars == <<pending, claims, asker, job, decider, runs, told>>

-----------------------------------------------------------------------------
\* The age of a row that is not there.
NoRow(limit) == limit + 2
Ages(limit)  == 0..NoRow(limit)

Whys == {"chat", "approve", "decline", "withdraw"}

Decider == [pc : {"idle", "consuming", "claiming", "running"}, why : Whys,
            token : Tokens \cup {NoToken}]

Idle == [pc |-> "idle", why |-> "chat", token |-> NoToken]

Job == [status : {"running", "parking", "awaiting", "resolving", "over"},
        token  : Tokens \cup {NoToken}]

ConfTypeOK ==
    /\ pending \in [Tokens -> Ages(PendingTtl)]
    /\ claims \in [Tokens -> Ages(Retention)]
    /\ asker \in [Tokens -> {"nobody", "chat", "job"}]
    /\ job \in Job
    /\ decider \in [Deciders -> Decider]
    /\ runs \in [Tokens -> 0..1]
    /\ told \in [Tokens -> SUBSET {"ran", "notRun"}]

ConfInit ==
    /\ pending = [k \in Tokens |-> NoRow(PendingTtl)]
    /\ claims = [k \in Tokens |-> NoRow(Retention)]
    /\ asker = [k \in Tokens |-> "nobody"]
    /\ job = [status |-> "running", token |-> NoToken]
    /\ decider = [d \in Deciders |-> Idle]
    /\ runs = [k \in Tokens |-> 0]
    /\ told = [k \in Tokens |-> {}]

-----------------------------------------------------------------------------
(***************************************************************************)
(* The two tables.                                                         *)
(***************************************************************************)
\* created_at < now - ttl_seconds
Purged == [k \in Tokens |-> IF pending[k] > PendingTtl THEN NoRow(PendingTtl) ELSE pending[k]]

Takeable(k) == Purged[k] # NoRow(PendingTtl)

\* consume: what the table is like afterwards.
ConsumedByPeeking(k) == Purged                                             \* mutant
Consumed(k) == [Purged EXCEPT ![k] = NoRow(PendingTtl)]

PurgedClaims == [k \in Tokens |-> IF claims[k] > Retention THEN NoRow(Retention) ELSE claims[k]]

Claimable(k) == PurgedClaims[k] = NoRow(Retention)

-----------------------------------------------------------------------------
(***************************************************************************)
(* Somebody asks.                                                          *)
(***************************************************************************)
Put(k, who) ==
    /\ asker[k] = "nobody"
    /\ asker' = [asker EXCEPT ![k] = who]
    /\ pending' = [pending EXCEPT ![k] = 0]

AskInChat(k) ==
    /\ Put(k, "chat")
    /\ UNCHANGED <<claims, job, decider, runs, told>>

\* The row is written first; the job parks after the preview was phrased.
AskInJob(k) ==
    /\ job.status = "running"
    /\ Put(k, "job")
    /\ job' = [status |-> "parking", token |-> k]
    /\ UNCHANGED <<claims, decider, runs, told>>

\* set_awaiting_confirmation, which is refused once a cancellation is requested.
ParkJob ==
    /\ job.status = "parking"
    /\ \E status \in {"awaiting", "over"} : job' = [job EXCEPT !.status = status]
    /\ UNCHANGED <<pending, claims, asker, decider, runs, told>>

-----------------------------------------------------------------------------
(***************************************************************************)
(* Somebody decides.                                                       *)
(***************************************************************************)
Start(d, why, k) ==
    /\ decider[d].pc = "idle"
    /\ decider' = [decider EXCEPT ![d] = [pc |-> "consuming", why |-> why, token |-> k]]
    /\ UNCHANGED <<pending, claims, asker, runs, told>>

ConfirmInChat(d, k) ==
    /\ asker[k] = "chat"
    /\ Start(d, "chat", k)
    /\ UNCHANGED job

\* claim_confirmation_resume, for approve and decline.
ResolveJob(d) ==
    /\ job.status = "awaiting"
    /\ \E why \in {"approve", "decline"} : Start(d, why, job.token)
    /\ job' = [job EXCEPT !.status = "resolving"]

\* A cancellation ends the job before it consumes the token, if the job still waits; the
\* sweep of what waits for too long, and a deletion, consume first.
WithdrawJob(d) ==
    /\ job.status = "awaiting"
    /\ Start(d, "withdraw", job.token)
    /\ job' \in {job, [job EXCEPT !.status = "over"]}

-----------------------------------------------------------------------------
(***************************************************************************)
(* The task of a decision.                                                 *)
(***************************************************************************)
Proceed(d, pc) == decider' = [decider EXCEPT ![d].pc = pc]
Done(d) == decider' = [decider EXCEPT ![d] = Idle]

Tell(k, what) == told' = [told EXCEPT ![k] = @ \cup {what}]

\* The agent of the job gets its answer and goes on.
AnswerJob(d) ==
    job' = IF decider[d].why \in {"approve", "decline"}
             THEN [status |-> "running", token |-> NoToken] ELSE job

Consume(d) ==
    LET k == decider[d].token IN
    /\ decider[d].pc = "consuming"
    /\ pending' = Consumed(k)
    /\ IF decider[d].why \in {"chat", "approve"} /\ Takeable(k)
         THEN /\ Proceed(d, "claiming")
              /\ UNCHANGED <<job, told>>
         ELSE /\ Done(d)
              /\ AnswerJob(d)
              \* confirmation_expired or declined_by_user; the chat hears "missing,
              \* expired, already used", which says nothing of the call.
              /\ IF decider[d].why \in {"approve", "decline"}
                   THEN Tell(k, "notRun") ELSE UNCHANGED told
    /\ UNCHANGED <<claims, asker, runs>>

\* Unless the tool is no longer offered or the ledger is not available.
Claim(d) ==
    LET k == decider[d].token IN
    /\ decider[d].pc = "claiming"
    /\ Claimable(k)
    /\ claims' = [PurgedClaims EXCEPT ![k] = 0]
    /\ Proceed(d, "running")
    /\ UNCHANGED <<pending, asker, job, runs, told>>

\* "could not be claimed and nothing was executed"
ClaimRefused(d) ==
    LET k == decider[d].token IN
    /\ decider[d].pc = "claiming"
    /\ claims' \in {claims, PurgedClaims}
    /\ Done(d) /\ AnswerJob(d) /\ Tell(k, "notRun")
    /\ UNCHANGED <<pending, asker, runs>>

\* Whatever the call returns or raises, it has been run.
Run(d) ==
    LET k == decider[d].token IN
    /\ decider[d].pc = "running"
    /\ runs' = [runs EXCEPT ![k] = @ + 1]
    /\ Done(d) /\ AnswerJob(d) /\ Tell(k, "ran")
    /\ UNCHANGED <<pending, claims, asker>>

-----------------------------------------------------------------------------
(***************************************************************************)
(* Time, pruning, and workers that die; a job without a task is swept.     *)
(***************************************************************************)
OlderForEver(age, limit) == age + 1                                        \* mutant
Older(age, limit) == IF age <= limit THEN age + 1 ELSE age

Tick ==
    /\ pending' = [k \in Tokens |-> Older(pending[k], PendingTtl)]
    /\ claims' = [k \in Tokens |-> Older(claims[k], Retention)]
    /\ UNCHANGED <<asker, job, decider, runs, told>>

Prune ==
    /\ pending' = Purged
    /\ claims' = PurgedClaims
    /\ UNCHANGED <<asker, job, decider, runs, told>>

Die(d) ==
    /\ decider[d].pc # "idle"
    /\ Done(d)
    /\ job' = IF decider[d].why \in {"approve", "decline"} THEN [job EXCEPT !.status = "over"] ELSE job
    /\ UNCHANGED <<pending, claims, asker, runs, told>>

\* The worker of the agent dies, its job is cancelled between two of its steps, or the job has
\* waited for too long.
JobEnds ==
    /\ job.status \in {"running", "parking", "awaiting"}
    /\ job' = [job EXCEPT !.status = "over"]
    /\ UNCHANGED <<pending, claims, asker, decider, runs, told>>

ConfNext ==
    \/ \E k \in Tokens : AskInChat(k) \/ AskInJob(k)
    \/ \E d \in Deciders :
        \/ \E k \in Tokens : ConfirmInChat(d, k)
        \/ ResolveJob(d) \/ WithdrawJob(d)
        \/ Consume(d) \/ Claim(d) \/ ClaimRefused(d) \/ Run(d) \/ Die(d)
    \/ ParkJob \/ Tick \/ Prune \/ JobEnds

ConfSpec == ConfInit /\ [][ConfNext]_confVars

-----------------------------------------------------------------------------
(***************************************************************************)
(* What the user, or the agent of the job, is told of a call is the truth, *)
(* also later: "nothing was executed", "declined" and "expired" of a call  *)
(* that never runs, a result only of one that did.                         *)
(***************************************************************************)
AnswerIsTrue ==
    \A k \in Tokens :
        /\ "ran" \in told[k] => runs[k] = 1
        /\ "notRun" \in told[k] => runs[k] = 0

Holds(d, k) == decider[d].token = k /\ decider[d].pc \in {"claiming", "running"}

Fate(k) ==
    IF runs[k] > 0 THEN "ran"
    ELSE IF \E d \in Deciders : Holds(d, k) THEN "taken"
    ELSE IF pending[k] <= PendingTtl THEN "frozen"
    ELSE IF asker[k] # "nobody" THEN "void"
    ELSE "absent"

Frozen == INSTANCE FrozenCall WITH fate <- [k \in Tokens |-> Fate(k)]

(***************************************************************************)
(* A frozen call is taken out at most once and runs at most once, and one  *)
(* that is declined, withdrawn, expired or lost with its worker never runs *)
(* any more: Confirmations implements FrozenCall.                          *)
(***************************************************************************)
FrozenOnce == Frozen!FrozenSpec
=============================================================================
