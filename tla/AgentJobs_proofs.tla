-------------------------- MODULE AgentJobs_proofs --------------------------
(***************************************************************************)
(* Proofs about AgentJobs, for any numbers of jobs, tasks, corrections and *)
(* for all bounds.                                                         *)
(*                                                                         *)
(* The inductive invariant has two parts.  RowInv is about one row by      *)
(* itself: every UPDATE of the store preserves it, whoever issues it, and  *)
(* enforce_user_cap only removes rows.  TaskInv relates the tasks to the   *)
(* rows: the guards of the claims keep it.                                 *)
(***************************************************************************)
EXTENDS AgentJobs, TLAPS

Columns == {"status", "cancelReq", "pauseReq", "warned", "resume", "pauses", "reason",
            "acted", "asked", "resolved", "queue", "result", "age"}

\* r \in Row in two parts, which the provers handle better than the record set.
IsRecord(r) == r = [column \in Columns |-> r[column]]

Typed(r) ==
    /\ r.status    \in Status
    /\ r.cancelReq \in BOOLEAN
    /\ r.pauseReq  \in BOOLEAN
    /\ r.warned    \in BOOLEAN
    /\ r.resume    \in CorrectionQueue \cup {NoState}
    /\ r.pauses    \in Nat
    /\ r.reason    \in {"none", "user", "budget"}
    /\ r.acted     \in SUBSET Nat
    /\ r.asked     \in Nat
    /\ r.resolved  \in Nat
    /\ r.queue     \in CorrectionQueue
    /\ r.result    \in Results
    /\ r.age       \in 0..2

Sound(r) ==
    /\ r.status \in Parked => r.resume # NoState
    /\ r.cancelReq => r.status \notin Parked
    /\ r.acted \subseteq 0..r.pauses
    /\ r.status \in {"detached", "awaiting"} => r.reason = "none"
    /\ r.status = "paused" /\ r.reason = "budget" => r.pauses \notin r.acted
    /\ r.resolved <= r.asked /\ r.asked <= r.resolved + 1
    /\ r.status = "awaiting" => r.asked = r.resolved + 1
    /\ r.status = "paused" => r.asked = r.resolved
    /\ r.status \in Terminal => r.result # NoVerdict
    /\ r.status \in {"none", "gone"} => r.queue = <<>>

RowInv(r) == IsRecord(r) /\ Typed(r) /\ Sound(r)

RowsInv == job \in [Jobs -> Row] /\ \A j \in Jobs : RowInv(job[j])

\* The rows an agent may find its job in, and what else may become of a row
\* without the tasks of its job noticing.
Owned(r) ==
    \/ r.status = "detached" /\ r.asked = r.resolved
    \/ r.status = "gone"
    \/ r.status = "error" /\ r.result = "worker_restart"

Harmless(old, new) ==
    /\ old.status = "none" => new.status = "none"
    /\ Owned(old) => Owned(new)

\* A task that works for a job: it runs its agent, or a turn without a row yet.
Busy(t) == task[t].pc \in AgentPc \cup NewPc

Fits(pc, r) ==
    /\ pc \in AgentPc => Owned(r)
    /\ pc \in NewPc => r.status = "none"

TaskInv ==
    /\ task \in [Tasks -> Task]
    /\ \A t, u \in Tasks : Busy(t) /\ Busy(u) /\ task[t].job = task[u].job => t = u
    /\ \A t \in Tasks : Fits(task[t].pc, job[task[t].job])

IInv == RowsInv /\ TaskInv /\ sweepList \subseteq Jobs /\ fate \in [Jobs -> Fate]

\* What one step may make of a job, as its row tells: JobLifecycle's MayBecome
\* without the step that ends a job and drops it at once.
LifeKept(old, new) ==
    \/ new.status = old.status /\ new.result = old.result
    \/ old.status = "none" /\ new.status = "detached"
    \/ old.status = "detached" /\ new.status \in Parked \cup Terminal
    \/ old.status \in Parked /\ \/ new.status = "detached"
                                \/ /\ new.status = "cancelled"
                                   /\ new.result \in {"cancelled_by_user", "stale_paused_timeout"}
    \/ old.status \in Terminal /\ new.status = "gone"
    \/ old.status = "error" /\ old.result = "worker_restart" /\ new.status \in Terminal

SameVerdict(old, new) ==
    /\ new.status = old.status /\ new.result = old.result
    /\ new.asked = old.asked /\ new.resolved = old.resolved

\* enforce_user_cap takes a job away in the step in which its agent ends it.
DroppedByAgent(j) ==
    /\ job[j].status = "detached" /\ job'[j].status = "gone"
    /\ \E t \in Tasks : AgentOf(t, j) /\ task'[t].pc = "idle"

LivesKept == \A j \in Jobs : LifeKept(job[j], job'[j]) \/ DroppedByAgent(j)

-----------------------------------------------------------------------------
(***************************************************************************)
(* Queues.                                                                 *)
(***************************************************************************)

\* The empty queue is a queue, and no queue is the NULL of resume_state.
LEMMA EmptyQueue == <<>> \in CorrectionQueue /\ NoState \notin CorrectionQueue
  BY BoundsAssumption, NoStateAssumption DEF CorrectionQueue

\* queue[-n:] is a sequence of corrections, no longer than n.
LEMMA LastOfType ==
  ASSUME NEW queue \in Seq(Corrections), NEW n \in Nat
  PROVE  LastOf(queue, n) \in Seq(Corrections) /\ Len(LastOf(queue, n)) <= n
  <1>1. CASE Len(queue) <= n
    BY <1>1 DEF LastOf
  <1>2. CASE ~(Len(queue) <= n)
    <2>1. /\ Len(queue) \in Nat
          /\ Len(queue) - n + 1 \in 1..Len(queue) + 1
          /\ Len(queue) \in Nat
      BY <1>2
    <2>2. LastOf(queue, n) = SubSeq(queue, Len(queue) - n + 1, Len(queue))
      BY <1>2 DEF LastOf
    <2>3. SubSeq(queue, Len(queue) - n + 1, Len(queue)) \in Seq(Corrections)
      BY <2>1
    <2>4. Len(SubSeq(queue, Len(queue) - n + 1, Len(queue))) = n
      BY <2>1, <1>2
    <2> QED
      BY <2>2, <2>3, <2>4
  <1> QED
    BY <1>1, <1>2

\* What queue_correction stores is a queue within its limit.
LEMMA CorrectedQueue ==
  ASSUME NEW queue \in CorrectionQueue, NEW c \in Corrections
  PROVE  Append(Kept(queue), c) \in CorrectionQueue
  <1>1. QueueCap - 1 \in Nat /\ queue \in Seq(Corrections)
    BY BoundsAssumption DEF CorrectionQueue
  <1>2. Kept(queue) \in Seq(Corrections) /\ Len(Kept(queue)) <= QueueCap - 1
    BY <1>1, LastOfType DEF Kept
  <1> QED
    BY <1>2, BoundsAssumption DEF CorrectionQueue

\* What a claim hands to the agent is a queue, if the row has a saved state.
LEMMA ClaimedCarryType ==
  ASSUME NEW r \in Row, r.resume # NoState
  PROVE  ClaimedCarry(r) \in CorrectionQueue
  <1>1. r.queue \in Seq(Corrections) /\ QueueCap \in Nat
    BY BoundsAssumption DEF Row, CorrectionQueue
  <1>2. LastOf(r.queue, QueueCap) \in CorrectionQueue
    BY <1>1, LastOfType DEF CorrectionQueue
  <1> QED
    BY <1>2 DEF ClaimedCarry, Row

\* Its elements are corrections.
LEMMA ElementsType ==
  ASSUME NEW queue \in CorrectionQueue
  PROVE  Elements(queue) \subseteq Corrections
  BY DEF Elements, CorrectionQueue
-----------------------------------------------------------------------------
(***************************************************************************)
(* Rows: every UPDATE preserves RowInv under the conditions it is issued.  *)
(***************************************************************************)

\* The two readings of the type of a row agree.
LEMMA RowType == ASSUME NEW r PROVE r \in Row <=> IsRecord(r) /\ Typed(r)
  <1>1. r \in Row => IsRecord(r) /\ Typed(r)
    BY DEF Row, Columns, IsRecord, Typed
  <1>2. ASSUME IsRecord(r), Typed(r) PROVE r \in Row
    BY <1>2 DEF Row, Columns, IsRecord, Typed
  <1> QED
    BY <1>1, <1>2

\* The values the UPDATEs store are among those of their columns.
LEMMA ColumnValues ==
  /\ Terminal \cup {"paused", "awaiting", "detached"} \subseteq Status
  /\ {"cancelled", "error"} \subseteq Terminal
  /\ {"cancelled_by_user", "worker_restart", "stale_paused_timeout"} \subseteq Results
  /\ 0 \in 0..2
  BY DEF Status, Stored, Live, Parked, Terminal, Results

\* append_step, set_usage
LEMMA TouchedInv ==
  ASSUME NEW r, RowInv(r)
  PROVE  RowInv(Touched(r))
  <1>1. IsRecord(r) /\ Typed(r) /\ Sound(r)
    BY DEF RowInv
  <1> DEFINE p == Touched(r)
  <1>2. CASE ~(r.status \in Stored)
    BY <1>2 DEF Touched
  <1>3. CASE r.status \in Stored
    <2>2. IsRecord(p)
      BY <1>1, <1>3 DEF IsRecord, Columns, Touched
    <2>3. /\ p.status = r.status /\ p.cancelReq = r.cancelReq
        /\ p.pauseReq = r.pauseReq /\ p.warned = r.warned /\ p.resume = r.resume
        /\ p.pauses = r.pauses /\ p.reason = r.reason /\ p.acted = r.acted
        /\ p.asked = r.asked /\ p.resolved = r.resolved /\ p.queue = r.queue
        /\ p.result = r.result /\ p.age = 0
      BY <1>1, <1>3 DEF IsRecord, Columns, Touched
    <2> HIDE DEF p
    <2>4. Typed(p)
      BY <1>1, <2>3, ColumnValues DEF Typed
    <2>5. Sound(p)
      BY <1>1, <2>3, <1>3 DEF Typed, Sound, Live, Parked, Terminal
    <2> QED
      BY <2>2, <2>4, <2>5 DEF p, RowInv
  <1> QED
    BY <1>2, <1>3

\* drain_corrections
LEMMA DrainedInv ==
  ASSUME NEW r, RowInv(r)
  PROVE  RowInv(Drained(r))
  <1>1. IsRecord(r) /\ Typed(r) /\ Sound(r)
    BY DEF RowInv
  <1> DEFINE p == Drained(r)
  <1>2. CASE ~(r.status \in Stored)
    BY <1>2 DEF Drained
  <1>3. CASE r.status \in Stored
    <2>2. IsRecord(p)
      BY <1>1, <1>3 DEF IsRecord, Columns, Drained
    <2>3. /\ p.status = r.status /\ p.cancelReq = r.cancelReq
        /\ p.pauseReq = r.pauseReq /\ p.warned = r.warned /\ p.resume = r.resume
        /\ p.pauses = r.pauses /\ p.reason = r.reason /\ p.acted = r.acted
        /\ p.asked = r.asked /\ p.resolved = r.resolved /\ p.queue = <<>>
        /\ p.result = r.result /\ p.age = r.age
      BY <1>1, <1>3 DEF IsRecord, Columns, Drained
    <2> HIDE DEF p
    <2>4. Typed(p)
      BY <1>1, <2>3, ColumnValues, EmptyQueue DEF Typed
    <2>5. Sound(p)
      BY <1>1, <2>3, <1>3 DEF Typed, Sound, Live, Parked, Terminal
    <2> QED
      BY <2>2, <2>4, <2>5 DEF p, RowInv
  <1> QED
    BY <1>2, <1>3

\* refuse_pause
LEMMA PauseRefusedInv ==
  ASSUME NEW r, RowInv(r)
  PROVE  RowInv(PauseRefused(r))
  <1>1. IsRecord(r) /\ Typed(r) /\ Sound(r)
    BY DEF RowInv
  <1> DEFINE p == PauseRefused(r)
  <1>2. CASE ~(r.status = "detached")
    BY <1>2 DEF PauseRefused
  <1>3. CASE r.status = "detached"
    <2>2. IsRecord(p)
      BY <1>1, <1>3 DEF IsRecord, Columns, PauseRefused
    <2>3. /\ p.status = r.status /\ p.cancelReq = r.cancelReq /\ p.pauseReq = FALSE
        /\ p.warned = TRUE /\ p.resume = r.resume /\ p.pauses = r.pauses
        /\ p.reason = r.reason /\ p.acted = r.acted /\ p.asked = r.asked
        /\ p.resolved = r.resolved /\ p.queue = r.queue /\ p.result = r.result
        /\ p.age = 0
      BY <1>1, <1>3 DEF IsRecord, Columns, PauseRefused
    <2> HIDE DEF p
    <2>4. Typed(p)
      BY <1>1, <2>3, ColumnValues DEF Typed
    <2>5. Sound(p)
      BY <1>1, <2>3, <1>3 DEF Typed, Sound, Live, Parked, Terminal
    <2> QED
      BY <2>2, <2>4, <2>5 DEF p, RowInv
  <1> QED
    BY <1>2, <1>3

\* A tick of the clock.
LEMMA AgedInv ==
  ASSUME NEW r, RowInv(r), r.age < 2
  PROVE  RowInv([r EXCEPT !.age = @ + 1])
  <1>1. IsRecord(r) /\ Typed(r) /\ Sound(r)
    BY DEF RowInv
  <1> DEFINE p == [r EXCEPT !.age = @ + 1]
  <1>2. IsRecord(p)
    BY <1>1 DEF IsRecord, Columns, Row
  <1>3. /\ p.status = r.status /\ p.cancelReq = r.cancelReq
      /\ p.pauseReq = r.pauseReq /\ p.warned = r.warned /\ p.resume = r.resume
      /\ p.pauses = r.pauses /\ p.reason = r.reason /\ p.acted = r.acted
      /\ p.asked = r.asked /\ p.resolved = r.resolved /\ p.queue = r.queue
      /\ p.result = r.result /\ p.age = r.age + 1
    BY <1>1 DEF IsRecord, Columns, Row
  <1> HIDE DEF p
  <1>4. Typed(p)
    BY <1>1, <1>3, ColumnValues DEF Typed
  <1>5. Sound(p)
    BY <1>1, <1>3 DEF Typed, Sound, Live, Parked, Terminal
  <1> QED
    BY <1>2, <1>4, <1>5 DEF p, RowInv

\* set_terminal
LEMMA EndedInv ==
  ASSUME NEW r, RowInv(r), NEW status \in Terminal, NEW result \in Results \ {NoVerdict}
  PROVE  RowInv(Ended(r, status, result))
  <1>1. IsRecord(r) /\ Typed(r) /\ Sound(r)
    BY DEF RowInv
  <1> DEFINE p == Ended(r, status, result)
  <1>2. CASE ~(r.status \in Stored)
    BY <1>2 DEF Ended
  <1>3. CASE r.status \in Stored
    <2>2. IsRecord(p)
      BY <1>1, <1>3 DEF IsRecord, Columns, Ended
    <2>3. /\ p.status = status /\ p.cancelReq = r.cancelReq /\ p.pauseReq = FALSE
        /\ p.warned = FALSE /\ p.resume = NoState /\ p.pauses = r.pauses
        /\ p.reason = "none" /\ p.acted = r.acted /\ p.asked = r.asked
        /\ p.resolved = r.resolved /\ p.queue = <<>> /\ p.result = result
        /\ p.age = 0
      BY <1>1, <1>3 DEF IsRecord, Columns, Ended
    <2> HIDE DEF p
    <2>4. Typed(p)
      BY <1>1, <2>3, ColumnValues, EmptyQueue DEF Typed
    <2>5. Sound(p)
      BY <1>1, <2>3, <1>3, EmptyQueue DEF Typed, Sound, Live, Parked, Terminal
    <2> QED
      BY <2>2, <2>4, <2>5 DEF p, RowInv
  <1> QED
    BY <1>2, <1>3

\* set_paused: the new event number is above all that were acted on.
LEMMA PausedInv ==
  ASSUME NEW r, RowInv(r), Parkable(r), r.asked = r.resolved, NEW reason \in {"user", "budget"}
  PROVE  RowInv(PausedRow(r, reason))
  <1>1. IsRecord(r) /\ Typed(r) /\ Sound(r)
    BY DEF RowInv
  <1> DEFINE p == PausedRow(r, reason)
  <1>2. IsRecord(p)
    BY <1>1 DEF IsRecord, Columns, PausedRow
  <1>3. /\ p.status = "paused" /\ p.cancelReq = r.cancelReq /\ p.pauseReq = FALSE
      /\ p.warned = r.warned /\ p.resume = <<>> /\ p.pauses = r.pauses + 1
      /\ p.reason = reason /\ p.acted = r.acted /\ p.asked = r.asked
      /\ p.resolved = r.resolved /\ p.queue = r.queue /\ p.result = r.result
      /\ p.age = 0
    BY <1>1 DEF IsRecord, Columns, PausedRow
  <1> HIDE DEF p
  <1>4. Typed(p)
    <2>1. p.pauses \in Nat
      BY <1>1, <1>3 DEF Typed
    <2>2. p.reason \in {"none", "user", "budget"}
      BY <1>3
    <2> QED
      BY <1>1, <1>3, <2>1, <2>2, ColumnValues, EmptyQueue DEF Typed
  <1>5. Sound(p)
    BY <1>1, <1>3, EmptyQueue DEF Typed, Sound, Live, Parked, Terminal, Parkable
  <1> QED
    BY <1>2, <1>4, <1>5 DEF p, RowInv

\* set_awaiting_confirmation
LEMMA AwaitingInv ==
  ASSUME NEW r, RowInv(r), Parkable(r), r.asked = r.resolved
  PROVE  RowInv(AwaitingRow(r))
  <1>1. IsRecord(r) /\ Typed(r) /\ Sound(r)
    BY DEF RowInv
  <1> DEFINE p == AwaitingRow(r)
  <1>2. IsRecord(p)
    BY <1>1 DEF IsRecord, Columns, AwaitingRow
  <1>3. /\ p.status = "awaiting" /\ p.cancelReq = r.cancelReq
      /\ p.pauseReq = FALSE /\ p.warned = r.warned /\ p.resume = <<>>
      /\ p.pauses = r.pauses /\ p.reason = r.reason /\ p.acted = r.acted
      /\ p.asked = r.asked + 1 /\ p.resolved = r.resolved /\ p.queue = r.queue
      /\ p.result = r.result /\ p.age = 0
    BY <1>1 DEF IsRecord, Columns, AwaitingRow
  <1> HIDE DEF p
  <1>4. Typed(p)
    <2>1. p.asked \in Nat /\ p.status \in Status
      BY <1>1, <1>3, ColumnValues DEF Typed
    <2> QED
      BY <1>1, <1>3, <2>1, ColumnValues, EmptyQueue DEF Typed
  <1>5. Sound(p)
    <2>1. r.status = "detached" /\ ~r.cancelReq
      BY DEF Parkable
    <2>2. /\ r.asked \in Nat /\ r.resolved \in Nat /\ r.asked = r.resolved
          /\ r.reason = "none" /\ r.acted \subseteq 0..r.pauses
      BY <1>1, <2>1 DEF Typed, Sound
    <2>3. /\ p.resolved <= p.asked /\ p.asked <= p.resolved + 1
          /\ p.asked = p.resolved + 1
      BY <1>3, <2>2
    <2>4. p.resume # NoState /\ ~p.cancelReq /\ p.acted \subseteq 0..p.pauses
      BY <1>3, <2>1, <2>2, EmptyQueue
    <2> QED
      BY <1>3, <2>2, <2>3, <2>4 DEF Sound, Terminal
  <1> QED
    BY <1>2, <1>4, <1>5 DEF p, RowInv

\* claim_resume
LEMMA ClaimedInv ==
  ASSUME NEW r, RowInv(r), r.status = "paused"
  PROVE  RowInv(ClaimedRow(r))
  <1>1. IsRecord(r) /\ Typed(r) /\ Sound(r)
    BY DEF RowInv
  <1> DEFINE p == ClaimedRow(r)
  <1>2. IsRecord(p)
    BY <1>1 DEF IsRecord, Columns, ClaimedRow
  <1>3. /\ p.status = "detached" /\ p.cancelReq = r.cancelReq
      /\ p.pauseReq = FALSE /\ p.warned = FALSE /\ p.resume = NoState
      /\ p.pauses = r.pauses /\ p.reason = "none" /\ p.acted = r.acted
      /\ p.asked = r.asked /\ p.resolved = r.resolved /\ p.queue = <<>>
      /\ p.result = r.result /\ p.age = 0
    BY <1>1 DEF IsRecord, Columns, ClaimedRow
  <1> HIDE DEF p
  <1>4. Typed(p)
    BY <1>1, <1>3, ColumnValues, EmptyQueue DEF Typed
  <1>5. Sound(p)
    BY <1>1, <1>3, EmptyQueue DEF Typed, Sound, Live, Parked, Terminal
  <1> QED
    BY <1>2, <1>4, <1>5 DEF p, RowInv

\* claim_confirmation_resume
LEMMA ResolvingInv ==
  ASSUME NEW r, RowInv(r), r.status = "awaiting"
  PROVE  RowInv(ResolvingRow(r))
  <1>1. IsRecord(r) /\ Typed(r) /\ Sound(r)
    BY DEF RowInv
  <1> DEFINE p == ResolvingRow(r)
  <1>2. IsRecord(p)
    BY <1>1 DEF IsRecord, Columns, ResolvingRow
  <1>3. /\ p.status = "detached" /\ p.cancelReq = r.cancelReq
      /\ p.pauseReq = r.pauseReq /\ p.warned = r.warned /\ p.resume = r.resume
      /\ p.pauses = r.pauses /\ p.reason = r.reason /\ p.acted = r.acted
      /\ p.asked = r.asked /\ p.resolved = r.resolved /\ p.queue = <<>>
      /\ p.result = r.result /\ p.age = 0
    BY <1>1 DEF IsRecord, Columns, ResolvingRow
  <1> HIDE DEF p
  <1>4. Typed(p)
    BY <1>1, <1>3, ColumnValues, EmptyQueue DEF Typed
  <1>5. Sound(p)
    BY <1>1, <1>3 DEF Typed, Sound, Live, Parked, Terminal
  <1> QED
    BY <1>2, <1>4, <1>5 DEF p, RowInv

\* record_confirmation_resolution
LEMMA CountedInv ==
  ASSUME NEW r, RowInv(r), r.status = "detached", r.asked = r.resolved + 1
  PROVE  RowInv(CountedRow(r))
  <1>1. IsRecord(r) /\ Typed(r) /\ Sound(r)
    BY DEF RowInv
  <1> DEFINE p == CountedRow(r)
  <1>2. IsRecord(p)
    BY <1>1 DEF IsRecord, Columns, CountedRow
  <1>3. /\ p.status = r.status /\ p.cancelReq = r.cancelReq
      /\ p.pauseReq = r.pauseReq /\ p.warned = r.warned /\ p.resume = r.resume
      /\ p.pauses = r.pauses /\ p.reason = r.reason /\ p.acted = r.acted
      /\ p.asked = r.asked /\ p.resolved = r.resolved + 1 /\ p.queue = r.queue
      /\ p.result = r.result /\ p.age = r.age
    BY <1>1 DEF IsRecord, Columns, CountedRow
  <1> HIDE DEF p
  <1>4. Typed(p)
    <2>1. p.resolved \in Nat
      BY <1>1, <1>3 DEF Typed
    <2> QED
      BY <1>1, <1>3, <2>1 DEF Typed
  <1>5. Sound(p)
    BY <1>1, <1>3 DEF Typed, Sound, Parked
  <1> QED
    BY <1>2, <1>4, <1>5 DEF p, RowInv

\* stage_resume_state
LEMMA StagedInv ==
  ASSUME NEW r, RowInv(r), Parkable(r), r.asked = r.resolved, NEW carry \in CorrectionQueue
  PROVE  RowInv(StagedRow(r, carry))
  <1>1. IsRecord(r) /\ Typed(r) /\ Sound(r)
    BY DEF RowInv
  <1> DEFINE p == StagedRow(r, carry)
  <1>2. IsRecord(p)
    BY <1>1 DEF IsRecord, Columns, StagedRow
  <1>3. /\ p.status = "paused" /\ p.cancelReq = r.cancelReq
      /\ p.pauseReq = r.pauseReq /\ p.warned = r.warned /\ p.resume = carry
      /\ p.pauses = r.pauses /\ p.reason = r.reason /\ p.acted = r.acted
      /\ p.asked = r.asked /\ p.resolved = r.resolved /\ p.queue = r.queue
      /\ p.result = r.result /\ p.age = 0
    BY <1>1 DEF IsRecord, Columns, StagedRow
  <1> HIDE DEF p
  <1>4. Typed(p)
    BY <1>1, <1>3, ColumnValues DEF Typed
  <1>5. Sound(p)
    BY <1>1, <1>3, EmptyQueue DEF Typed, Sound, Live, Parked, Terminal, Parkable
  <1> QED
    BY <1>2, <1>4, <1>5 DEF p, RowInv

\* claim_budget_action, "extend" and "finish"
LEMMA BudgetResumedInv ==
  ASSUME NEW r, RowInv(r), NEW event, BudgetClaimable(r, event)
  PROVE  RowInv(BudgetResumedRow(r, event))
  <1>1. IsRecord(r) /\ Typed(r) /\ Sound(r)
    BY DEF RowInv
  <1> DEFINE p == BudgetResumedRow(r, event)
  <1>2. IsRecord(p)
    BY <1>1 DEF IsRecord, Columns, BudgetResumedRow
  <1>3. /\ p.status = "detached" /\ p.cancelReq = r.cancelReq
      /\ p.pauseReq = r.pauseReq /\ p.warned = r.warned /\ p.resume = NoState
      /\ p.pauses = r.pauses /\ p.reason = "none"
      /\ p.acted = r.acted \cup {event} /\ p.asked = r.asked
      /\ p.resolved = r.resolved /\ p.queue = r.queue /\ p.result = r.result
      /\ p.age = 0
    BY <1>1 DEF IsRecord, Columns, BudgetResumedRow
  <1> HIDE DEF p
  <1>4. Typed(p)
    BY <1>1, <1>3, ColumnValues DEF BudgetClaimable, Typed
  <1>5. Sound(p)
    BY <1>1, <1>3, EmptyQueue DEF Typed, Sound, Live, Parked, Terminal, BudgetClaimable
  <1> QED
    BY <1>2, <1>4, <1>5 DEF p, RowInv

\* claim_budget_action, "cancel"
LEMMA BudgetCancelledInv ==
  ASSUME NEW r, RowInv(r), NEW event, BudgetClaimable(r, event)
  PROVE  RowInv(BudgetCancelledRow(r, event))
  <1>1. IsRecord(r) /\ Typed(r) /\ Sound(r)
    BY DEF RowInv
  <1> DEFINE p == BudgetCancelledRow(r, event)
  <1>2. IsRecord(p)
    BY <1>1 DEF IsRecord, Columns, BudgetCancelledRow
  <1>3. /\ p.status = "cancelled" /\ p.cancelReq = FALSE /\ p.pauseReq = FALSE
      /\ p.warned = r.warned /\ p.resume = NoState /\ p.pauses = r.pauses
      /\ p.reason = r.reason /\ p.acted = r.acted \cup {event}
      /\ p.asked = r.asked /\ p.resolved = r.resolved /\ p.queue = r.queue
      /\ p.result = "cancelled_by_user" /\ p.age = 0
    BY <1>1 DEF IsRecord, Columns, BudgetCancelledRow
  <1> HIDE DEF p
  <1>4. Typed(p)
    BY <1>1, <1>3, ColumnValues DEF BudgetClaimable, Typed
  <1>5. Sound(p)
    BY <1>1, <1>3, EmptyQueue DEF Typed, Sound, Live, Parked, Terminal, BudgetClaimable, NoVerdict
  <1> QED
    BY <1>2, <1>4, <1>5 DEF p, RowInv

\* request_pause
LEMMA PauseRequestedInv ==
  ASSUME NEW r, RowInv(r), r.status = "detached"
  PROVE  RowInv(PauseRequestedRow(r))
  <1>1. IsRecord(r) /\ Typed(r) /\ Sound(r)
    BY DEF RowInv
  <1> DEFINE p == PauseRequestedRow(r)
  <1>2. IsRecord(p)
    BY <1>1 DEF IsRecord, Columns, PauseRequestedRow
  <1>3. /\ p.status = r.status /\ p.cancelReq = r.cancelReq /\ p.pauseReq = TRUE
      /\ p.warned = FALSE /\ p.resume = r.resume /\ p.pauses = r.pauses
      /\ p.reason = r.reason /\ p.acted = r.acted /\ p.asked = r.asked
      /\ p.resolved = r.resolved /\ p.queue = r.queue /\ p.result = r.result
      /\ p.age = 0
    BY <1>1 DEF IsRecord, Columns, PauseRequestedRow
  <1> HIDE DEF p
  <1>4. Typed(p)
    BY <1>1, <1>3, ColumnValues DEF Typed
  <1>5. Sound(p)
    BY <1>1, <1>3 DEF Typed, Sound, Live, Parked, Terminal
  <1> QED
    BY <1>2, <1>4, <1>5 DEF p, RowInv

\* queue_correction
LEMMA CorrectedInv ==
  ASSUME NEW r, RowInv(r), r.status \in Live, NEW c \in Corrections
  PROVE  RowInv(CorrectedRow(r, c))
  <1>1. IsRecord(r) /\ Typed(r) /\ Sound(r)
    BY DEF RowInv
  <1> DEFINE p == CorrectedRow(r, c)
  <1>2. IsRecord(p)
    BY <1>1 DEF IsRecord, Columns, CorrectedRow
  <1>3. /\ p.status = r.status /\ p.cancelReq = r.cancelReq
      /\ p.pauseReq = r.pauseReq /\ p.warned = r.warned /\ p.resume = r.resume
      /\ p.pauses = r.pauses /\ p.reason = r.reason /\ p.acted = r.acted
      /\ p.asked = r.asked /\ p.resolved = r.resolved
      /\ p.queue = Append(Kept(r.queue), c) /\ p.result = r.result /\ p.age = 0
    BY <1>1 DEF IsRecord, Columns, CorrectedRow
  <1> HIDE DEF p
  <1>4. Typed(p)
    BY <1>1, <1>3, ColumnValues, CorrectedQueue DEF Typed
  <1>5. Sound(p)
    BY <1>1, <1>3 DEF Typed, Sound, Live, Parked, Terminal
  <1> QED
    BY <1>2, <1>4, <1>5 DEF p, RowInv

\* request_cancel of a parked job
LEMMA CancelledInv ==
  ASSUME NEW r, RowInv(r)
  PROVE  RowInv(CancelledRow(r))
  <1>1. IsRecord(r) /\ Typed(r) /\ Sound(r)
    BY DEF RowInv
  <1> DEFINE p == CancelledRow(r)
  <1>2. IsRecord(p)
    BY <1>1 DEF IsRecord, Columns, CancelledRow
  <1>3. /\ p.status = "cancelled" /\ p.cancelReq = FALSE /\ p.pauseReq = FALSE
      /\ p.warned = r.warned /\ p.resume = NoState /\ p.pauses = r.pauses
      /\ p.reason = "none" /\ p.acted = r.acted /\ p.asked = r.asked
      /\ p.resolved = r.resolved /\ p.queue = <<>>
      /\ p.result = "cancelled_by_user" /\ p.age = 0
    BY <1>1 DEF IsRecord, Columns, CancelledRow
  <1> HIDE DEF p
  <1>4. Typed(p)
    BY <1>1, <1>3, ColumnValues, EmptyQueue DEF Typed
  <1>5. Sound(p)
    BY <1>1, <1>3, EmptyQueue DEF Typed, Sound, Live, Parked, Terminal, NoVerdict
  <1> QED
    BY <1>2, <1>4, <1>5 DEF p, RowInv

\* request_cancel: what is left is to ask a running job.
LEMMA AfterCancelInv ==
  ASSUME NEW r, RowInv(r)
  PROVE  RowInv(AfterCancel(r))
  <1>1. IsRecord(r) /\ Typed(r) /\ Sound(r)
    BY DEF RowInv
  <1> DEFINE p == AfterCancel(r)
  <1>2. CASE ~(r.status = "detached")
    BY <1>2, CancelledInv DEF AfterCancel
  <1>3. CASE r.status = "detached"
    <2>2. IsRecord(p)
      BY <1>1, <1>3 DEF IsRecord, Columns, AfterCancel
    <2>3. /\ p.status = r.status /\ p.cancelReq = TRUE /\ p.pauseReq = r.pauseReq
        /\ p.warned = r.warned /\ p.resume = r.resume /\ p.pauses = r.pauses
        /\ p.reason = r.reason /\ p.acted = r.acted /\ p.asked = r.asked
        /\ p.resolved = r.resolved /\ p.queue = r.queue /\ p.result = r.result
        /\ p.age = 0
      BY <1>1, <1>3 DEF IsRecord, Columns, AfterCancel
    <2> HIDE DEF p
    <2>4. Typed(p)
      BY <1>1, <2>3, ColumnValues DEF Typed
    <2>5. Sound(p)
      BY <1>1, <2>3, <1>3 DEF Typed, Sound, Live, Parked, Terminal
    <2> QED
      BY <2>2, <2>4, <2>5 DEF p, RowInv
  <1> QED
    BY <1>2, <1>3

\* mark_stale_interrupted
LEMMA InterruptedInv ==
  ASSUME NEW r, RowInv(r)
  PROVE  RowInv(InterruptedRow(r))
  <1>1. IsRecord(r) /\ Typed(r) /\ Sound(r)
    BY DEF RowInv
  <1> DEFINE p == InterruptedRow(r)
  <1>2. IsRecord(p)
    BY <1>1 DEF IsRecord, Columns, InterruptedRow
  <1>3. /\ p.status = "error" /\ p.cancelReq = r.cancelReq /\ p.pauseReq = FALSE
      /\ p.warned = r.warned /\ p.resume = NoState /\ p.pauses = r.pauses
      /\ p.reason = "none" /\ p.acted = r.acted /\ p.asked = r.asked
      /\ p.resolved = r.resolved /\ p.queue = <<>>
      /\ p.result = "worker_restart" /\ p.age = 0
    BY <1>1 DEF IsRecord, Columns, InterruptedRow
  <1> HIDE DEF p
  <1>4. Typed(p)
    BY <1>1, <1>3, ColumnValues, EmptyQueue DEF Typed
  <1>5. Sound(p)
    BY <1>1, <1>3, EmptyQueue DEF Typed, Sound, Live, Parked, Terminal, NoVerdict
  <1> QED
    BY <1>2, <1>4, <1>5 DEF p, RowInv

\* cancel_stale_paused
LEMMA TimedOutInv ==
  ASSUME NEW r, RowInv(r)
  PROVE  RowInv(TimedOutRow(r))
  <1>1. IsRecord(r) /\ Typed(r) /\ Sound(r)
    BY DEF RowInv
  <1> DEFINE p == TimedOutRow(r)
  <1>2. CASE ~(r.status \in Parked)
    BY <1>2 DEF TimedOutRow
  <1>3. CASE r.status \in Parked
    <2>2. IsRecord(p)
      BY <1>1, <1>3 DEF IsRecord, Columns, TimedOutRow
    <2>3. /\ p.status = "cancelled" /\ p.cancelReq = r.cancelReq
        /\ p.pauseReq = r.pauseReq /\ p.warned = r.warned /\ p.resume = NoState
        /\ p.pauses = r.pauses /\ p.reason = "none" /\ p.acted = r.acted
        /\ p.asked = r.asked /\ p.resolved = r.resolved /\ p.queue = <<>>
        /\ p.result = "stale_paused_timeout" /\ p.age = 0
      BY <1>1, <1>3 DEF IsRecord, Columns, TimedOutRow
    <2> HIDE DEF p
    <2>4. Typed(p)
      BY <1>1, <2>3, ColumnValues, EmptyQueue DEF Typed
    <2>5. Sound(p)
      BY <1>1, <2>3, <1>3, EmptyQueue DEF Typed, Sound, Live, Parked, Terminal, NoVerdict
    <2> QED
      BY <2>2, <2>4, <2>5 DEF p, RowInv
  <1> QED
    BY <1>2, <1>3

-----------------------------------------------------------------------------
(***************************************************************************)
(* Tables: one row is written, or several are removed by the cap.          *)
(***************************************************************************)

\* INSERT, and DELETE.
LEMMA NewRows ==
  /\ RowInv(EmptyRow)
  /\ RowInv(DetachedRow)
  /\ \A r : RowInv(Removed(r)) /\ Removed(r).status = "gone"
  <1> DEFINE Blank(p) ==
        /\ p.cancelReq = FALSE /\ p.pauseReq = FALSE /\ p.warned = FALSE
        /\ p.resume = NoState /\ p.pauses = 0 /\ p.reason = "none" /\ p.acted = {}
        /\ p.asked = 0 /\ p.resolved = 0 /\ p.queue = <<>> /\ p.result = "" /\ p.age = 0
  <1>1. ASSUME NEW p, IsRecord(p), Blank(p), p.status \in {"none", "gone", "detached"}
        PROVE  RowInv(p)
    <2>1. p.status \in Status \ Parked /\ p.result \in Results
      BY <1>1 DEF Status, Stored, Live, Parked, Terminal, Results
    <2> p.pauses = 0 /\ p.asked = 0 /\ p.resolved = 0 /\ p.age = 0 /\ p.acted = {}
      BY <1>1
    <2>2. /\ p.pauses \in Nat /\ p.asked \in Nat /\ p.resolved \in Nat /\ p.age \in 0..2
          /\ p.acted \in SUBSET Nat /\ p.acted \subseteq 0..p.pauses
      OBVIOUS
    <2>3. Typed(p)
      BY <1>1, <2>1, <2>2, EmptyQueue DEF Typed
    <2>4. p.resolved <= p.asked /\ p.asked <= p.resolved + 1 /\ p.asked = p.resolved
      OBVIOUS
    <2>5. Sound(p)
      BY <1>1, <2>1, <2>2, <2>4 DEF Sound, Parked, Terminal
    <2> QED
      BY <1>1, <2>3, <2>5 DEF RowInv
  <1>2. IsRecord(EmptyRow) /\ Blank(EmptyRow) /\ EmptyRow.status = "none"
    BY DEF IsRecord, Columns, EmptyRow
  <1>3. IsRecord(DetachedRow) /\ Blank(DetachedRow) /\ DetachedRow.status = "detached"
    BY DEF IsRecord, Columns, EmptyRow, DetachedRow
  <1>4. ASSUME NEW r
        PROVE  IsRecord(Removed(r)) /\ Blank(Removed(r)) /\ Removed(r).status = "gone"
    BY DEF IsRecord, Columns, EmptyRow, Removed
  <1> HIDE DEF Blank
  <1> QED
    BY <1>1, <1>2, <1>3, <1>4

\* An UPDATE of one row.
LEMMA WriteInv ==
  ASSUME RowsInv, NEW j \in Jobs, NEW row, RowInv(row), Write(j, row)
  PROVE  RowsInv' /\ job'[j] = row /\ \A k \in Jobs \ {j} : job'[k] = job[k]
  <1>1. row \in Row
    BY RowType DEF RowInv
  <1>2. job' = [job EXCEPT ![j] = row] /\ job \in [Jobs -> Row]
    BY DEF Write, RowsInv
  <1>3. job' \in [Jobs -> Row] /\ job'[j] = row /\ \A k \in Jobs \ {j} : job'[k] = job[k]
    BY <1>1, <1>2
  <1> QED
    BY <1>3 DEF RowsInv

\* An UPDATE or INSERT followed by enforce_user_cap: only terminal rows go.
LEMMA CapInv ==
  ASSUME RowsInv, NEW j \in Jobs, NEW row, RowInv(row),
         job' \in UserCapResults([job EXCEPT ![j] = row])
  PROVE  /\ RowsInv'
         /\ job'[j] = row \/ (row.status \in Terminal /\ job'[j].status = "gone")
         /\ \A k \in Jobs \ {j} :
                job'[k] = job[k] \/ (job[k].status \in Terminal /\ job'[k].status = "gone")
  <1> DEFINE rows == [job EXCEPT ![j] = row]
  <1>1. row \in Row /\ job \in [Jobs -> Row]
    BY RowType DEF RowInv, RowsInv
  <1>2. rows \in [Jobs -> Row] /\ rows[j] = row /\ \A k \in Jobs \ {j} : rows[k] = job[k]
    BY <1>1
  <1>3. \A k \in Jobs : RowInv(rows[k])
    BY <1>2 DEF RowsInv
  <1>4. PICK oldest :
          /\ \A k \in oldest : Discardable(rows[k])
          /\ job' = [k \in Jobs |-> IF k \in oldest THEN Removed(rows[k]) ELSE rows[k]]
    BY DEF UserCapResults
  <1> HIDE DEF rows
  <1>5. \A k \in Jobs : RowInv(job'[k])
    BY <1>3, <1>4, NewRows
  <1>6. job' \in [Jobs -> Row]
    BY <1>4, <1>5, RowType DEF RowInv
  <1>7. \A k \in Jobs :
          job'[k] = rows[k] \/ (rows[k].status \in Terminal /\ job'[k].status = "gone")
    BY <1>4, NewRows DEF Discardable
  <1> QED
    BY <1>2, <1>5, <1>6, <1>7 DEF RowsInv

-----------------------------------------------------------------------------
(***************************************************************************)
(* Tasks.                                                                  *)
(***************************************************************************)

\* One task becomes x.  If x works for a job, then the task did so already or
\* nobody does; the rows of the other tasks' jobs change harmlessly.
LEMMA TaskMoves ==
  ASSUME TaskInv, NEW t \in Tasks, NEW x \in Task,
         task' = [task EXCEPT ![t] = x],
         Fits(x.pc, job'[x.job]),
         x.pc \in AgentPc \cup NewPc =>
            \A u \in Tasks \ {t} : Busy(u) => task[u].job # x.job,
         \A u \in Tasks \ {t} :
            Busy(u) => Harmless(job[task[u].job], job'[task[u].job])
  PROVE  TaskInv'
  <1>1. task' \in [Tasks -> Task] /\ task'[t] = x /\ \A u \in Tasks \ {t} : task'[u] = task[u]
    BY DEF TaskInv
  <1>2. ASSUME NEW u \in Tasks PROVE Fits(task'[u].pc, job'[task'[u].job])
    <2>1. CASE u = t
      BY <1>1, <2>1
    <2>2. CASE u # t
      BY <1>1, <2>2 DEF TaskInv, Fits, Harmless, Busy
    <2> QED
      BY <2>1, <2>2
  <1>3. ASSUME NEW u \in Tasks, NEW v \in Tasks, Busy(u)', Busy(v)',
               task'[u].job = task'[v].job
        PROVE  u = v
    <2>1. CASE u # t /\ v # t
      BY <1>1, <1>3, <2>1 DEF TaskInv, Busy
    <2>2. CASE u = t \/ v = t
      BY <1>1, <1>3, <2>2 DEF Busy
    <2> QED
      BY <2>1, <2>2
  <1> QED
    BY <1>1, <1>2, <1>3 DEF TaskInv

\* Only rows change, and harmlessly.
LEMMA RowsMove ==
  ASSUME TaskInv, UNCHANGED task, \A j \in Jobs : Harmless(job[j], job'[j])
  PROVE  TaskInv'
  <1>1. \A t \in Tasks : task[t].job \in Jobs
    BY DEF TaskInv, Task
  <1> QED
    BY <1>1 DEF TaskInv, Busy, Fits, Harmless

\* A task that works for a job goes on or stops, and writes no other row,
\* except that the cap may remove some.
LEMMA OwnRowMoves ==
  ASSUME TaskInv, NEW t \in Tasks, Busy(t), NEW x \in Task,
         task' = [task EXCEPT ![t] = x], x.job = task[t].job,
         Fits(x.pc, job'[x.job]),
         \A k \in Jobs \ {task[t].job} :
            job'[k] = job[k] \/ (job[k].status \in Terminal /\ job'[k].status = "gone")
  PROVE  TaskInv'
  <1>1. \A u \in Tasks \ {t} : Busy(u) => task[u].job # task[t].job
    BY DEF TaskInv
  <1>2. ASSUME NEW u \in Tasks \ {t}, Busy(u)
        PROVE  Harmless(job[task[u].job], job'[task[u].job])
    <2>1. task[u].job \in Jobs \ {task[t].job}
      BY <1>1, <1>2 DEF TaskInv, Task
    <2> QED
      BY <2>1 DEF Harmless, Owned, Terminal
  <1> QED
    BY <1>1, <1>2, TaskMoves

\* An idle task takes up a job no task can be working for.
LEMMA ClaimMoves ==
  ASSUME TaskInv, NEW t \in Tasks, NEW j \in Jobs, NEW x \in Task,
         task' = [task EXCEPT ![t] = x], x.job = j, x.pc \in AgentPc,
         ~Owned(job[j]), job[j].status # "none",
         Owned(job'[j]), \A k \in Jobs \ {j} : job'[k] = job[k]
  PROVE  TaskInv'
  <1>1. \A u \in Tasks : Busy(u) => task[u].job # j
    BY DEF TaskInv, Fits, Busy
  <1>2. ASSUME NEW u \in Tasks, Busy(u) PROVE job'[task[u].job] = job[task[u].job]
    BY <1>1, <1>2 DEF TaskInv, Task
  <1>3. Fits(x.pc, job'[x.job])
    BY DEF Fits, AgentPc, NewPc
  <1> QED
    BY <1>1, <1>2, <1>3, TaskMoves DEF Harmless

\* StartAgent fills a slot with a task.
LEMMA SlotType ==
  ASSUME NEW pc \in TaskPc, NEW j \in Jobs, NEW carry \in CorrectionQueue
  PROVE  [pc |-> pc, job |-> j, carry |-> carry, steps |-> 0] \in Task
  BY DEF Task

\* A step of a task that works for a job: what is left to show of it.
LEMMA OwnStep ==
  ASSUME IInv, NEW t \in Tasks, Busy(t), NEW x \in Task,
         task' = [task EXCEPT ![t] = x], x.job = task[t].job,
         RowsInv', Fits(x.pc, job'[x.job]),
         LifeKept(job[x.job], job'[x.job]) \/ DroppedByAgent(x.job),
         \A k \in Jobs \ {task[t].job} :
            job'[k] = job[k] \/ (job[k].status \in Terminal /\ job'[k].status = "gone"),
         UNCHANGED sweepList, fate' \in [Jobs -> Fate]
  PROVE  IInv' /\ LivesKept
  <1>1. TaskInv'
    BY OwnRowMoves DEF IInv
  <1>2. LivesKept
    BY DEF LivesKept, LifeKept
  <1> QED
    BY <1>1, <1>2 DEF IInv

\* What the tasks and the lives do not mind: a row that keeps what they look
\* at, a parked row that ends or goes on, and a deletion.
LEMMA Unnoticed ==
  ASSUME NEW r, NEW p,
         \/ SameVerdict(r, p)
         \/ r.status \in Parked /\ LifeKept(r, p)
         \/ p.status = "gone" /\ r.status \in Terminal
  PROVE  Harmless(r, p) /\ LifeKept(r, p)
  BY DEF SameVerdict, Harmless, LifeKept, Owned, Parked, Terminal

\* A step that writes a row and leaves the tasks alone.
LEMMA RowStep ==
  ASSUME IInv, NEW j \in Jobs, NEW row, RowInv(row), Write(j, row),
         Harmless(job[j], row), LifeKept(job[j], row),
         UNCHANGED task, sweepList' \subseteq Jobs, fate' \in [Jobs -> Fate]
  PROVE  IInv' /\ LivesKept
  <1>1. RowsInv' /\ job'[j] = row /\ \A k \in Jobs \ {j} : job'[k] = job[k]
    BY WriteInv DEF IInv
  <1>2. \A k \in Jobs : Harmless(job[k], job'[k]) /\ LifeKept(job[k], job'[k])
    BY <1>1 DEF Harmless, LifeKept
  <1>3. TaskInv'
    BY <1>2, RowsMove DEF IInv
  <1>4. LivesKept
    BY <1>2 DEF LivesKept
  <1> QED
    BY <1>1, <1>3, <1>4 DEF IInv

\* A step that gives a parked job to an idle task.
LEMMA ClaimStep ==
  ASSUME IInv, NEW t \in Tasks, NEW j \in Jobs, NEW pc \in AgentPc, NEW carry \in CorrectionQueue,
         NEW row, RowInv(row), Write(j, row), StartAgent(t, pc, j, carry),
         job[j].status \in Parked, row.status = "detached", row.asked = row.resolved,
         UNCHANGED <<sweepList, fate>>
  PROVE  IInv' /\ LivesKept
  <1> DEFINE x == [pc |-> pc, job |-> j, carry |-> carry, steps |-> 0]
  <1>1. x \in Task /\ x.job = j /\ x.pc \in AgentPc
    BY SlotType DEF TaskPc
  <1>2. RowsInv' /\ job'[j] = row /\ \A k \in Jobs \ {j} : job'[k] = job[k]
    BY WriteInv DEF IInv
  <1>3. ~Owned(job[j]) /\ job[j].status # "none" /\ Owned(row)
    BY DEF Owned, Parked
  <1>4. task' = [task EXCEPT ![t] = x]
    BY DEF StartAgent
  <1> HIDE DEF x
  <1>5. TaskInv'
    BY <1>1, <1>2, <1>3, <1>4, ClaimMoves DEF IInv
  <1>6. LivesKept
    BY <1>2 DEF LivesKept, LifeKept
  <1> QED
    BY <1>2, <1>5, <1>6 DEF IInv

-----------------------------------------------------------------------------
(***************************************************************************)
(* The actions, one lemma for each kind.                                   *)
(***************************************************************************)

\* A task that only moves on, without a write.
LEMMA GoInv ==
  ASSUME IInv, NEW t \in Tasks, Busy(t), NEW x \in Task,
         task' = [task EXCEPT ![t] = x], x.job = task[t].job,
         \/ x.pc \in AgentPc /\ task[t].pc \in AgentPc
         \/ x.pc \in NewPc /\ task[t].pc \in NewPc
         \/ x.pc \notin AgentPc \cup NewPc,
         UNCHANGED <<job, sweepList, fate>>
  PROVE  IInv' /\ LivesKept
  <1>1. Fits(x.pc, job'[x.job])
    BY DEF IInv, TaskInv, Fits, AgentPc, NewPc
  <1>2. RowsInv' /\ fate' \in [Jobs -> Fate] /\ LifeKept(job[x.job], job'[x.job])
    BY DEF IInv, RowsInv, LifeKept
  <1> QED
    BY <1>1, <1>2, OwnStep

\* An agent that writes its own row and goes on or stops.
LEMMA AgentWrites ==
  ASSUME IInv, NEW t \in Tasks, task[t].pc \in AgentPc, NEW x \in Task,
         task' = [task EXCEPT ![t] = x], x.job = task[t].job,
         NEW row, RowInv(row), Write(task[t].job, row), LifeKept(job[x.job], row),
         \/ x.pc \in AgentPc /\ Owned(row)
         \/ x.pc \notin AgentPc \cup NewPc,
         UNCHANGED sweepList, fate' \in [Jobs -> Fate]
  PROVE  IInv' /\ LivesKept
  <1>1. task[t].job \in Jobs
    BY DEF IInv, TaskInv, Task
  <1>2. RowsInv' /\ job'[x.job] = row /\ \A k \in Jobs \ {task[t].job} : job'[k] = job[k]
    BY <1>1, WriteInv DEF IInv
  <1>3. Fits(x.pc, job'[x.job]) /\ Busy(t)
    BY <1>2 DEF Fits, AgentPc, NewPc, Busy
  <1> QED
    BY <1>2, <1>3, OwnStep

\* append_step, set_usage, drain_corrections and refuse_pause leave the verdict.
LEMMA SmallWrites ==
  ASSUME NEW r, NEW p, p \in {Touched(r), Drained(r), PauseRefused(r)}, IsRecord(r)
  PROVE  /\ p.status = r.status /\ p.result = r.result
         /\ p.asked = r.asked /\ p.resolved = r.resolved
  BY DEF Touched, Drained, PauseRefused, IsRecord, Columns

\* The row and the slot of an agent.
LEMMA AgentFacts ==
  ASSUME IInv, NEW t \in Tasks, task[t].pc \in AgentPc
  PROVE  /\ task[t].job \in Jobs /\ RowInv(job[task[t].job]) /\ Owned(job[task[t].job])
         /\ Busy(t) /\ task[t] \in Task
  BY DEF IInv, TaskInv, RowsInv, Task, Fits, Busy

\* Stop, Go: the slot they leave.
LEMMA SlotMoves ==
  ASSUME IInv, NEW t \in Tasks
  PROVE  /\ Stop(t) => \E x \in Task : x.pc = "idle" /\ x.job = task[t].job /\ task' = [task EXCEPT ![t] = x]
         /\ \A pc \in TaskPc : Go(t, pc) =>
                \E x \in Task : x.pc = pc /\ x.job = task[t].job /\ task' = [task EXCEPT ![t] = x]
  <1>1. task \in [Tasks -> Task]
    BY DEF IInv, TaskInv
  <1>2. ASSUME Stop(t)
        PROVE  \E x \in Task : x.pc = "idle" /\ x.job = task[t].job /\ task' = [task EXCEPT ![t] = x]
    <2> DEFINE x == [task[t] EXCEPT !.pc = "idle", !.carry = <<>>, !.steps = 0]
    <2>1. x \in Task /\ x.pc = "idle" /\ x.job = task[t].job
      BY <1>1, EmptyQueue DEF Task, TaskPc
    <2>2. task' = [task EXCEPT ![t] = x]
      BY <1>1, <1>2 DEF Stop, Task
    <2> QED
      BY <2>1, <2>2
  <1>3. ASSUME NEW pc \in TaskPc, Go(t, pc)
        PROVE  \E x \in Task : x.pc = pc /\ x.job = task[t].job /\ task' = [task EXCEPT ![t] = x]
    <2> DEFINE x == [task[t] EXCEPT !.pc = pc]
    <2>1. x \in Task /\ x.pc = pc /\ x.job = task[t].job
      BY <1>1 DEF Task
    <2>2. task' = [task EXCEPT ![t] = x]
      BY <1>1, <1>3 DEF Go, Task
    <2> QED
      BY <2>1, <2>2
  <1> QED
    BY <1>2, <1>3

\* process() and the turn it waits for.
LEMMA NewTurnStep ==
  ASSUME IInv, NEW t \in Tasks, AttachedReturns(t) \/ Answer(t) \/ Detach(t)
  PROVE  IInv' /\ LivesKept
  <1>1. Busy(t) /\ task[t].pc \in NewPc /\ {"idle", "returned", "working"} \subseteq TaskPc
    BY DEF AttachedReturns, Answer, Detach, Busy, NewPc, TaskPc, AgentPc
  <1>2. CASE AttachedReturns(t)
    BY <1>1, <1>2, SlotMoves, GoInv DEF AttachedReturns, NewPc
  <1>3. CASE Answer(t)
    BY <1>1, <1>3, SlotMoves, GoInv DEF Answer, NewPc, AgentPc
  <1>4. CASE Detach(t)
    <2> DEFINE j == task[t].job
    <2>1. /\ j \in Jobs /\ job[j].status = "none"
      BY <1>1 DEF IInv, TaskInv, Task, Fits
    <2>2. RowInv(DetachedRow) /\ DetachedRow.status = "detached" /\ Owned(DetachedRow)
      BY NewRows DEF DetachedRow, EmptyRow, Owned
    <2>3. job' \in UserCapResults([job EXCEPT ![j] = DetachedRow])
      BY <1>4 DEF Detach
    <2>4. /\ RowsInv' /\ job'[j] = DetachedRow
          /\ \A k \in Jobs \ {j} :
                job'[k] = job[k] \/ (job[k].status \in Terminal /\ job'[k].status = "gone")
      BY <2>1, <2>2, <2>3, CapInv DEF IInv, Terminal
    <2>5. PICK x \in Task : /\ task' = [task EXCEPT ![t] = x] /\ x.job = j
                            /\ x.pc \in {"idle", "working"}
      BY <1>1, <1>4, SlotMoves DEF Detach
    <2>6. Fits(x.pc, job'[x.job]) /\ LifeKept(job[x.job], job'[x.job])
      BY <2>1, <2>2, <2>4, <2>5 DEF Fits, Owned, NewPc, LifeKept
    <2>7. UNCHANGED sweepList /\ fate' \in [Jobs -> Fate]
      BY <1>4 DEF Detach, IInv
    <2> HIDE DEF j
    <2> QED
      BY <1>1, <2>4, <2>5, <2>6, <2>7, OwnStep DEF j
  <1> QED
    BY <1>2, <1>3, <1>4

\* The agent loop where it does not write.
LEMMA LoopStep ==
  ASSUME IInv, NEW t \in Tasks, ToolCall(t) \/ LoopExhausted(t)
  PROVE  IInv' /\ LivesKept
  <1>1. Busy(t) /\ task[t].pc \in AgentPc /\ AgentPc \subseteq TaskPc
    BY DEF ToolCall, LoopExhausted, Busy, TaskPc, AgentPc
  <1>2. PICK pc \in AgentPc : Go(t, pc)
    BY DEF ToolCall, LoopExhausted, AgentPc
  <1>3. UNCHANGED <<job, sweepList, fate>>
    BY DEF ToolCall, LoopExhausted
  <1> QED
    BY <1>1, <1>2, <1>3, SlotMoves, GoInv

\* drain_corrections at the top of the loop.
LEMMA DrainStep ==
  ASSUME IInv, NEW t \in Tasks, DrainCorrections(t)
  PROVE  IInv' /\ LivesKept
  <1> DEFINE j == task[t].job
             found == Elements(task[t].carry) \cup Elements(job[j].queue)
             pc == IF found = {} THEN "pauseCheck" ELSE "corrected"
             x == [task[t] EXCEPT !.carry = <<>>, !.pc = pc]
  <1>1. /\ task[t].pc = "boundary" /\ Write(j, Drained(job[j]))
        /\ task' = [task EXCEPT ![t].carry = <<>>, ![t].pc = pc]
        /\ fate' = [fate EXCEPT ![j].applied = @ \cup found]
        /\ UNCHANGED sweepList
    BY DEF DrainCorrections
  <1>2. /\ task[t].pc \in AgentPc /\ j \in Jobs /\ RowInv(job[j]) /\ Owned(job[j])
        /\ task[t] \in Task
    BY <1>1, AgentFacts DEF AgentPc
  <1>3. x \in Task /\ x.pc = pc /\ x.job = j
    BY <1>2, EmptyQueue DEF Task, TaskPc, AgentPc
  <1>4. task' = [task EXCEPT ![t] = x]
    BY <1>1 DEF IInv, TaskInv, Task
  <1>5. RowInv(Drained(job[j])) /\ Owned(Drained(job[j])) /\ LifeKept(job[j], Drained(job[j]))
    BY <1>2, DrainedInv, SmallWrites DEF Owned, RowInv, LifeKept
  <1>6. found \subseteq Corrections
    BY <1>2, ElementsType DEF RowInv, Typed, Task
  <1>7. fate' \in [Jobs -> Fate]
    <2>1. fate[j] \in Fate
      BY <1>2 DEF IInv
    <2>2. [fate[j] EXCEPT !.applied = @ \cup found] \in Fate
      BY <2>1, <1>6 DEF Fate
    <2> QED
      BY <1>1, <2>2 DEF IInv
  <1>8. pc \in AgentPc
    BY DEF AgentPc
  <1> HIDE DEF x, pc, found
  <1> QED
    BY <1>1, <1>2, <1>3, <1>4, <1>5, <1>7, <1>8, AgentWrites

\* append_step, set_usage and refuse_pause inside the loop.
LEMMA TouchStep ==
  ASSUME IInv, NEW t \in Tasks,
         Checkpoint(t) \/ PauseCheck(t) \/ ModelCall(t) \/ Finalize(t)
  PROVE  IInv' /\ LivesKept
  <1> DEFINE j == task[t].job
  <1>1. task[t].pc \in AgentPc
    BY DEF Checkpoint, PauseCheck, ModelCall, Finalize, AgentPc
  <1>2. /\ j \in Jobs /\ RowInv(job[j]) /\ Owned(job[j]) /\ task[t] \in Task /\ Busy(t)
    BY <1>1, AgentFacts
  <1>3. \/ \E pc \in AgentPc : Go(t, pc)
        \/ task' = [task EXCEPT ![t].pc = "calling", ![t].steps = @ + 1]
        \/ task' = [task EXCEPT ![t].pc = "boundary", ![t].steps = @ + 1]
    BY DEF Checkpoint, PauseCheck, ModelCall, Finalize, AgentPc
  <1>4. PICK x \in Task : x.pc \in AgentPc /\ x.job = j /\ task' = [task EXCEPT ![t] = x]
    <2>1. CASE \E pc \in AgentPc : Go(t, pc)
      <3>1. PICK pc \in AgentPc : Go(t, pc)
        BY <2>1
      <3>2. pc \in TaskPc
        BY DEF TaskPc
      <3> QED
        BY <3>1, <3>2, SlotMoves
    <2>2. ASSUME NEW pc \in {"calling", "boundary"},
                 task' = [task EXCEPT ![t].pc = pc, ![t].steps = @ + 1]
          PROVE  \E x \in Task : x.pc \in AgentPc /\ x.job = j /\ task' = [task EXCEPT ![t] = x]
      <3> DEFINE y == [task[t] EXCEPT !.pc = pc, !.steps = @ + 1]
      <3>1. pc \in AgentPc /\ pc \in TaskPc /\ task[t].steps + 1 \in Nat
        BY <1>2, <2>2 DEF Task, TaskPc, AgentPc
      <3>2. y \in Task /\ y.pc \in AgentPc /\ y.job = j
        BY <1>2, <3>1 DEF Task
      <3>3. task' = [task EXCEPT ![t] = y]
        BY <2>2 DEF IInv, TaskInv, Task
      <3> QED
        BY <3>2, <3>3
    <2> QED
      BY <1>3, <2>1, <2>2
  <1>5. UNCHANGED <<sweepList, fate>>
    BY DEF Checkpoint, PauseCheck, ModelCall, Finalize
  <1>6. CASE UNCHANGED job
    BY <1>1, <1>2, <1>4, <1>5, <1>6, GoInv
  <1>7. ASSUME NEW row \in {Touched(job[j]), PauseRefused(job[j])}, Write(j, row)
        PROVE  IInv' /\ LivesKept
    <2>1. RowInv(row) /\ Owned(row) /\ LifeKept(job[j], row)
      BY <1>2, TouchedInv, PauseRefusedInv, SmallWrites DEF Owned, RowInv, LifeKept
    <2>2. fate' \in [Jobs -> Fate]
      BY <1>5 DEF IInv
    <2> HIDE DEF j
    <2> QED
      BY <1>1, <1>4, <1>5, <1>7, <2>1, <2>2, AgentWrites DEF j
  <1>8. \/ UNCHANGED job
        \/ Write(j, Touched(job[j]))
        \/ Write(j, PauseRefused(job[j]))
    BY DEF Checkpoint, PauseCheck, ModelCall, Finalize
  <1> QED
    BY <1>6, <1>7, <1>8

\* set_terminal, followed by the cap.
LEMMA EndStep ==
  ASSUME IInv, NEW t \in Tasks, task[t].pc \in AgentPc,
         NEW status \in Terminal, NEW result \in Results \ {NoVerdict},
         EndJob(t, status, result)
  PROVE  IInv' /\ LivesKept
  <1> DEFINE j == task[t].job
             row == Ended(job[j], status, result)
  <1>1. /\ j \in Jobs /\ RowInv(job[j]) /\ Owned(job[j]) /\ Busy(t) /\ task[t] \in Task
    BY AgentFacts
  <1>2. RowInv(row)
    BY <1>1, EndedInv
  <1>3. job' \in UserCapResults([job EXCEPT ![j] = row])
    BY DEF EndJob
  <1>4. PICK x \in Task : x.pc = "idle" /\ x.job = j /\ task' = [task EXCEPT ![t] = x]
    BY SlotMoves DEF EndJob
  <1>8. \/ row = job[j] /\ row.status \notin Terminal
        \/ row.status \in Terminal /\ LifeKept(job[j], row)
    <2>1. CASE job[j].status = "gone"
      BY <2>1 DEF Ended, Stored, Live, Parked, Terminal
    <2>2. CASE job[j].status \in Stored
      <3>1. row.status = status
        BY <1>1, <2>2 DEF Ended, RowInv, IsRecord, Columns
      <3>2. \/ job[j].status = "detached"
            \/ job[j].status = "error" /\ job[j].result = "worker_restart"
        BY <1>1, <2>2 DEF Owned, Stored, Live, Parked, Terminal
      <3> HIDE DEF row
      <3> QED
        BY <3>1, <3>2 DEF LifeKept
    <2> QED
      BY <1>1, <2>1, <2>2 DEF Owned, Stored, Live, Terminal
  <1> HIDE DEF row
  <1>5. /\ RowsInv'
        /\ job'[j] = row \/ (row.status \in Terminal /\ job'[j].status = "gone")
        /\ \A k \in Jobs \ {j} :
              job'[k] = job[k] \/ (job[k].status \in Terminal /\ job'[k].status = "gone")
    BY <1>1, <1>2, <1>3, CapInv DEF IInv
  <1>6. Fits(x.pc, job'[x.job])
    BY <1>4 DEF Fits, AgentPc, NewPc
  <1>7. UNCHANGED sweepList /\ fate' \in [Jobs -> Fate]
    BY DEF EndJob, IInv
  <1>9. LifeKept(job[j], job'[j]) \/ DroppedByAgent(j)
    <2>1. CASE job'[j] = row
      BY <1>8, <2>1 DEF LifeKept
    <2>2. CASE row.status \in Terminal /\ job'[j].status = "gone"
      <3>1. CASE job[j].status = "detached"
        <4>1. task'[t].pc = "idle" /\ AgentOf(t, j)
          BY <1>4 DEF IInv, TaskInv, AgentOf
        <4> QED
          BY <2>2, <3>1, <4>1 DEF DroppedByAgent
      <3>2. CASE job[j].status # "detached"
        <4>1. job[j].status \in Terminal
          BY <1>1, <1>8, <2>2, <3>2 DEF Owned, Terminal, Parked, LifeKept
        <4> QED
          BY <2>2, <4>1 DEF LifeKept
      <3> QED
        BY <3>1, <3>2
    <2> QED
      BY <1>5, <2>1, <2>2
  <1> QED
    BY <1>1, <1>4, <1>5, <1>6, <1>7, <1>9, OwnStep

\* The store's answer to the outcome of an agent.
LEMMA OutcomeStep ==
  ASSUME IInv, NEW t \in Tasks,
         \/ Finish(t) \/ Fail(t) \/ StepCancel(t) \/ ResolutionFails(t)
         \/ SetPaused(t) \/ SetAwaitingConfirmation(t)
  PROVE  IInv' /\ LivesKept
  <1> DEFINE j == task[t].job
  <1>1. task[t].pc \in AgentPc
    BY DEF Finish, Fail, StepCancel, ResolutionFails, SetPaused, SetAwaitingConfirmation, AgentPc
  <1>2. /\ j \in Jobs /\ RowInv(job[j]) /\ Busy(t)
        /\ Parkable(job[j]) => job[j].asked = job[j].resolved
    BY <1>1, AgentFacts DEF Owned, Parkable
  <1>3. ASSUME NEW status \in Terminal, NEW result \in Results \ {NoVerdict},
               EndJob(t, status, result)
        PROVE  IInv' /\ LivesKept
    BY <1>1, <1>3, EndStep
  <1>4. CASE Finish(t) \/ Fail(t) \/ StepCancel(t) \/ ResolutionFails(t)
    BY <1>3, <1>4
       DEF Finish, Fail, StepCancel, ResolutionFails, Terminal, Results, NoVerdict
  <1>5. ASSUME Stop(t), UNCHANGED <<job, sweepList, fate>>
        PROVE  IInv' /\ LivesKept
    BY <1>2, <1>5, SlotMoves, GoInv DEF AgentPc, NewPc
  <1>6. ASSUME NEW row, RowInv(row), Write(j, row), LifeKept(job[j], row), Stop(t),
               UNCHANGED <<sweepList, fate>>
        PROVE  IInv' /\ LivesKept
    <2>1. PICK x \in Task : x.pc = "idle" /\ x.job = j /\ task' = [task EXCEPT ![t] = x]
      BY <1>6, SlotMoves
    <2>2. x.pc \notin AgentPc \cup NewPc /\ fate' \in [Jobs -> Fate] /\ UNCHANGED sweepList
      BY <1>6, <2>1 DEF AgentPc, NewPc, IInv
    <2> QED
      BY <1>1, <1>6, <2>1, <2>2, AgentWrites
  <1>7. CASE SetPaused(t)
    <2>1. PICK reason \in {"user", "budget"} :
            \/ Parkable(job[j]) /\ Write(j, PausedRow(job[j], reason)) /\ Stop(t)
               /\ UNCHANGED <<sweepList, fate>>
            \/ Stop(t) /\ UNCHANGED <<job, sweepList, fate>>
            \/ EndJob(t, "cancelled", "cancelled_by_user")
      BY <1>7 DEF SetPaused
    <2>2. ASSUME Parkable(job[j])
          PROVE  RowInv(PausedRow(job[j], reason)) /\ LifeKept(job[j], PausedRow(job[j], reason))
      <3>1. PausedRow(job[j], reason).status = "paused"
        BY <1>2 DEF PausedRow, RowInv, IsRecord, Columns
      <3> QED
        BY <1>2, <2>2, <3>1, PausedInv DEF LifeKept, Parkable, Parked
    <2>3. "cancelled" \in Terminal /\ "cancelled_by_user" \in Results \ {NoVerdict}
      BY DEF Terminal, Results, NoVerdict
    <2> HIDE DEF j
    <2> QED
      BY <1>3, <1>5, <1>6, <2>1, <2>2, <2>3
  <1>8. CASE SetAwaitingConfirmation(t)
    <2>1. /\ \/ Parkable(job[j]) /\ Write(j, AwaitingRow(job[j]))
             \/ UNCHANGED job
          /\ Stop(t) /\ UNCHANGED <<sweepList, fate>>
      BY <1>8 DEF SetAwaitingConfirmation
    <2>2. ASSUME Parkable(job[j])
          PROVE  RowInv(AwaitingRow(job[j])) /\ LifeKept(job[j], AwaitingRow(job[j]))
      <3>1. AwaitingRow(job[j]).status = "awaiting"
        BY <1>2 DEF AwaitingRow, RowInv, IsRecord, Columns
      <3> QED
        BY <1>2, <2>2, <3>1, AwaitingInv DEF LifeKept, Parkable, Parked
    <2> HIDE DEF j
    <2> QED
      BY <1>5, <1>6, <2>1, <2>2
  <1> QED
    BY <1>4, <1>7, <1>8

\* stage_resume_state and the resume that follows it.
LEMMA StageStep ==
  ASSUME IInv, NEW t \in Tasks, StageResume(t)
  PROVE  IInv' /\ LivesKept
  <1> DEFINE j == task[t].job
             x == [task[t] EXCEPT !.pc = "restaged", !.carry = <<>>]
             row == StagedRow(job[j], task[t].carry)
  <1>1. task[t].pc \in AgentPc
    BY DEF StageResume, AgentPc
  <1>2. /\ j \in Jobs /\ RowInv(job[j]) /\ Busy(t) /\ task[t] \in Task
        /\ Parkable(job[j]) => job[j].asked = job[j].resolved
    BY <1>1, AgentFacts DEF Owned, Parkable
  <1>3. CASE Stop(t) /\ UNCHANGED job
    BY <1>2, <1>3, SlotMoves, GoInv DEF StageResume, AgentPc, NewPc
  <1>4. ASSUME Parkable(job[j]), Write(j, row),
               task' = [task EXCEPT ![t].pc = "restaged", ![t].carry = <<>>]
        PROVE  IInv' /\ LivesKept
    <2>1. task' = [task EXCEPT ![t] = x]
      BY <1>4 DEF IInv, TaskInv, Task
    <2>2. x \in Task /\ x.job = j /\ x.pc \notin AgentPc \cup NewPc
      BY <1>2, EmptyQueue DEF Task, TaskPc, AgentPc, NewPc
    <2>3. RowInv(row) /\ LifeKept(job[j], row)
      <3>1. row.status = "paused"
        BY <1>2 DEF StagedRow, RowInv, IsRecord, Columns
      <3> QED
        BY <1>2, <1>4, <3>1, StagedInv DEF Task, LifeKept, Parkable, Parked
    <2>4. UNCHANGED sweepList /\ fate' \in [Jobs -> Fate]
      BY DEF StageResume, IInv
    <2> HIDE DEF x, row
    <2> QED
      BY <1>1, <1>4, <2>1, <2>2, <2>3, <2>4, AgentWrites
  <1> QED
    BY <1>3, <1>4 DEF StageResume

\* A task stops or dies, whatever it was doing.
LEMMA StopStep ==
  ASSUME IInv, NEW t \in Tasks, Stop(t), UNCHANGED <<job, sweepList, fate>>
  PROVE  IInv' /\ LivesKept
  <1>1. PICK x \in Task : x.pc = "idle" /\ x.job = task[t].job /\ task' = [task EXCEPT ![t] = x]
    BY SlotMoves
  <1>2. Fits(x.pc, job'[x.job]) /\ x.pc \notin AgentPc \cup NewPc
    BY <1>1 DEF Fits, AgentPc, NewPc
  <1>3. \A u \in Tasks : Harmless(job[task[u].job], job'[task[u].job])
    BY DEF Harmless
  <1>4. TaskInv'
    BY <1>1, <1>2, <1>3, TaskMoves DEF IInv
  <1> QED
    BY <1>4 DEF IInv, RowsInv, LivesKept, LifeKept

\* A new turn draws an id that no row and no other turn has.
LEMMA StartStep ==
  ASSUME IInv, NEW t \in Tasks, NEW j \in Jobs, StartTurn(t, j)
  PROVE  IInv' /\ LivesKept
  <1> DEFINE x == [pc |-> "attached", job |-> j, carry |-> <<>>, steps |-> 0]
  <1>1. /\ task' = [task EXCEPT ![t] = x] /\ job[j].status = "none"
        /\ \A u \in Tasks : task[u].pc \in NewPc => task[u].job # j
        /\ UNCHANGED <<job, sweepList, fate>>
    BY DEF StartTurn, StartAgent
  <1>2. x \in Task /\ x.pc = "attached" /\ x.job = j
    BY SlotType, EmptyQueue DEF TaskPc, NewPc
  <1> HIDE DEF x
  <1>3. \A u \in Tasks : Busy(u) => task[u].job # j
    BY <1>1 DEF IInv, TaskInv, Fits, Owned, Busy
  <1>4. Fits(x.pc, job'[x.job])
    BY <1>1, <1>2 DEF Fits, AgentPc
  <1>5. \A u \in Tasks : Harmless(job[task[u].job], job'[task[u].job])
    BY <1>1 DEF Harmless
  <1>6. TaskInv'
    BY <1>1, <1>2, <1>3, <1>4, <1>5, TaskMoves DEF IInv
  <1> QED
    BY <1>1, <1>6 DEF IInv, RowsInv, LivesKept, LifeKept

\* claim_resume
LEMMA ResumeStep ==
  ASSUME IInv, NEW t \in Tasks, NEW j \in Jobs, job[j].status = "paused",
         StartAgent(t, "boundary", j, ClaimedCarry(job[j])), Write(j, ClaimedRow(job[j])),
         UNCHANGED <<sweepList, fate>>
  PROVE  IInv' /\ LivesKept
  <1>1. RowInv(job[j]) /\ job[j] \in Row
    BY DEF IInv, RowsInv
  <1>2. /\ RowInv(ClaimedRow(job[j])) /\ ClaimedRow(job[j]).status = "detached"
        /\ ClaimedRow(job[j]).asked = ClaimedRow(job[j]).resolved
    <2>1. RowInv(ClaimedRow(job[j]))
      BY <1>1, ClaimedInv
    <2>2. /\ ClaimedRow(job[j]).status = "detached"
          /\ ClaimedRow(job[j]).asked = job[j].asked
          /\ ClaimedRow(job[j]).resolved = job[j].resolved
      BY <1>1 DEF ClaimedRow, RowInv, IsRecord, Columns
    <2>3. job[j].asked = job[j].resolved
      BY <1>1 DEF RowInv, Sound
    <2> QED
      BY <2>1, <2>2, <2>3
  <1>3. ClaimedCarry(job[j]) \in CorrectionQueue
    BY <1>1, ClaimedCarryType DEF RowInv, Sound, Parked
  <1>4. "boundary" \in AgentPc /\ job[j].status \in Parked
    BY DEF AgentPc, Parked
  <1> QED
    BY <1>2, <1>3, <1>4, ClaimStep

\* claim_confirmation_resume, and its count unless the worker dies before it.
LEMMA ConfirmStep ==
  ASSUME IInv, NEW t \in Tasks, NEW j \in Jobs, ClaimConfirmation(t, j)
  PROVE  IInv' /\ LivesKept
  <1> DEFINE claimed == ResolvingRow(job[j])
             counted == CountedRow(claimed)
  <1>1. RowInv(job[j]) /\ job[j] \in Row /\ job[j].status = "awaiting" /\ job[j].status \in Parked
    BY DEF IInv, RowsInv, ClaimConfirmation, Parked
  <1>2. RowInv(claimed)
    BY <1>1, ResolvingInv
  <1>3. claimed.status = "detached" /\ claimed.asked = claimed.resolved + 1
    BY <1>1 DEF ResolvingRow, RowInv, IsRecord, Columns, Sound
  <1>4. RowInv(counted)
    BY <1>2, <1>3, CountedInv
  <1> HIDE DEF claimed
  <1>5. counted.status = "detached" /\ counted.asked = counted.resolved
    BY <1>2, <1>3 DEF CountedRow, RowInv, IsRecord, Columns
  <1> HIDE DEF counted
  <1>6. CASE StartAgent(t, "resolving", j, ClaimedCarry(job[j])) /\ Write(j, counted)
    <2>1. ClaimedCarry(job[j]) \in CorrectionQueue
      BY <1>1, ClaimedCarryType DEF RowInv, Sound, Parked
    <2>2. "resolving" \in AgentPc
      BY DEF AgentPc
    <2> QED
      BY <1>1, <1>4, <1>5, <1>6, <2>1, <2>2, ClaimStep DEF ClaimConfirmation
  <1>7. CASE Write(j, claimed) /\ UNCHANGED task
    <2>1. Harmless(job[j], claimed) /\ LifeKept(job[j], claimed)
      BY <1>1, <1>3, Unnoticed DEF LifeKept
    <2>2. sweepList' \subseteq Jobs /\ fate' \in [Jobs -> Fate]
      BY DEF ClaimConfirmation, IInv
    <2> QED
      BY <1>2, <1>7, <2>1, <2>2, RowStep
  <1> QED
    BY <1>6, <1>7 DEF ClaimConfirmation, claimed, counted

\* claim_budget_action, "extend" and "finish"
LEMMA BudgetStep ==
  ASSUME IInv, NEW t \in Tasks, NEW j \in Jobs, NEW event, BudgetResume(t, j, event)
  PROVE  IInv' /\ LivesKept
  <1>1. RowInv(job[j]) /\ BudgetClaimable(job[j], event)
    BY DEF IInv, RowsInv, BudgetResume
  <1>2. RowInv(BudgetResumedRow(job[j], event))
    BY <1>1, BudgetResumedInv
  <1>3. /\ BudgetResumedRow(job[j], event).status = "detached"
        /\ BudgetResumedRow(job[j], event).asked = job[j].asked
        /\ BudgetResumedRow(job[j], event).resolved = job[j].resolved
        /\ job[j].asked = job[j].resolved
    BY <1>1 DEF BudgetResumedRow, BudgetClaimable, RowInv, IsRecord, Columns, Sound
  <1>4. job[j].status \in Parked /\ job[j].resume \in CorrectionQueue
    BY <1>1 DEF BudgetClaimable, RowInv, Sound, Typed, Parked
  <1>5. PICK pc \in AgentPc : StartAgent(t, pc, j, job[j].resume)
    BY DEF BudgetResume, AgentPc
  <1> QED
    BY <1>2, <1>3, <1>4, <1>5, ClaimStep DEF BudgetResume

\* resume_agent_job of the task that staged the job.
LEMMA StagedResumeStep ==
  ASSUME IInv, NEW t \in Tasks, ResumeStaged(t)
  PROVE  IInv' /\ LivesKept
  <1>1. task[t].job \in Jobs
    BY DEF IInv, TaskInv, Task
  <1> QED
    BY <1>1, ResumeStep, StopStep DEF ResumeStaged

\* The controls that do not start a task.
LEMMA UserRowStep ==
  ASSUME IInv, NEW j \in Jobs,
         \/ RequestPause(j) \/ RequestCancel(j) \/ DeleteJob(j)
         \/ \E c \in Corrections : QueueCorrection(j, c)
         \/ \E event \in 0..MaxPauses : BudgetCancel(j, event)
  PROVE  IInv' /\ LivesKept
  <1> DEFINE r == job[j]
  <1>1. RowInv(r) /\ IsRecord(r)
    BY DEF IInv, RowsInv, RowInv
  <1>2. ASSUME NEW row, RowInv(row), Write(j, row), UNCHANGED <<task, sweepList, fate>>,
               \/ SameVerdict(r, row)
               \/ r.status \in Parked /\ LifeKept(r, row)
               \/ row.status = "gone" /\ r.status \in Terminal
        PROVE  IInv' /\ LivesKept
    <2>1. Harmless(r, row) /\ LifeKept(r, row)
      BY <1>2, Unnoticed
    <2>2. sweepList' \subseteq Jobs /\ fate' \in [Jobs -> Fate]
      BY <1>2 DEF IInv
    <2> QED
      BY <1>2, <2>1, <2>2, RowStep
  <1>3. CASE RequestPause(j)
    <2> DEFINE row == PauseRequestedRow(r)
    <2>1. RowInv(row)
      BY <1>1, <1>3, PauseRequestedInv DEF RequestPause
    <2>2. SameVerdict(r, row)
      BY <1>1 DEF SameVerdict, PauseRequestedRow, IsRecord, Columns
    <2>3. Write(j, row) /\ UNCHANGED <<task, sweepList, fate>>
      BY <1>3 DEF RequestPause
    <2> QED
      BY <1>2, <2>1, <2>2, <2>3
  <1>4. CASE RequestCancel(j)
    <2> DEFINE row == AfterCancel(r)
    <2>1. RowInv(row)
      BY <1>1, <1>4, AfterCancelInv DEF RequestCancel
    <2>2. \/ SameVerdict(r, row)
          \/ r.status \in Parked /\ LifeKept(r, row)
      <3>1. CASE r.status = "detached"
        BY <1>1, <3>1 DEF SameVerdict, AfterCancel, IsRecord, Columns
      <3>2. CASE r.status \in Parked
        <4>1. row.status = "cancelled" /\ row.result = "cancelled_by_user"
          BY <1>1, <3>2 DEF AfterCancel, CancelledRow, Parked, IsRecord, Columns
        <4> QED
          BY <3>2, <4>1 DEF LifeKept
      <3> QED
        BY <1>4, <3>1, <3>2 DEF RequestCancel, Live
    <2>3. Write(j, row) /\ UNCHANGED <<task, sweepList, fate>>
      BY <1>4 DEF RequestCancel
    <2> QED
      BY <1>2, <2>1, <2>2, <2>3
  <1>5. CASE DeleteJob(j)
    BY <1>2, <1>5, NewRows DEF DeleteJob
  <1>6. ASSUME NEW c \in Corrections, QueueCorrection(j, c) PROVE IInv' /\ LivesKept
    <2> DEFINE row == CorrectedRow(r, c)
               pushed == Elements(r.queue) \ Elements(Kept(r.queue))
    <2>1. RowInv(row)
      BY <1>1, <1>6, CorrectedInv DEF QueueCorrection
    <2>2. SameVerdict(r, row)
      BY <1>1 DEF SameVerdict, CorrectedRow, IsRecord, Columns
    <2>3. Harmless(r, row) /\ LifeKept(r, row)
      BY <2>2, Unnoticed
    <2>4. /\ Write(j, row) /\ UNCHANGED <<task, sweepList>>
          /\ fate' = [fate EXCEPT ![j].accepted = @ \cup {c}, ![j].evicted = @ \cup pushed]
      BY <1>6 DEF QueueCorrection
    <2>5. pushed \subseteq Corrections
      BY <1>1, ElementsType DEF RowInv, Typed
    <2> HIDE DEF row, pushed
    <2>6. [fate[j] EXCEPT !.accepted = @ \cup {c}, !.evicted = @ \cup pushed] \in Fate
      BY <2>5 DEF IInv, Fate
    <2>7. fate' \in [Jobs -> Fate]
      BY <2>4, <2>6 DEF IInv
    <2>8. sweepList' \subseteq Jobs /\ UNCHANGED task
      BY <2>4 DEF IInv
    <2> QED
      BY <2>1, <2>3, <2>4, <2>7, <2>8, RowStep
  <1>7. ASSUME NEW event, BudgetCancel(j, event) PROVE IInv' /\ LivesKept
    <2> DEFINE row == BudgetCancelledRow(r, event)
    <2>1. BudgetClaimable(r, event) /\ Write(j, row) /\ UNCHANGED <<task, sweepList, fate>>
      BY <1>7 DEF BudgetCancel
    <2>2. RowInv(row)
      BY <1>1, <2>1, BudgetCancelledInv
    <2>3. r.status \in Parked /\ LifeKept(r, row)
      <3>1. row.status = "cancelled" /\ row.result = "cancelled_by_user"
        BY <1>1 DEF BudgetCancelledRow, IsRecord, Columns
      <3> QED
        BY <2>1, <3>1 DEF BudgetClaimable, Parked, LifeKept
    <2> HIDE DEF row
    <2> QED
      BY <1>2, <2>1, <2>2, <2>3
  <1> QED
    BY <1>3, <1>4, <1>5, <1>6, <1>7

\* Time and the sweep.
LEMMA SweepRowStep ==
  ASSUME IInv, NEW j \in Jobs, SweepStep(j) \/ TimePasses(j)
  PROVE  IInv' /\ LivesKept
  <1> DEFINE r == job[j]
  <1>1. RowInv(r) /\ IsRecord(r)
    BY DEF IInv, RowsInv, RowInv
  <1>2. sweepList' \subseteq Jobs /\ fate' \in [Jobs -> Fate] /\ UNCHANGED task
    BY DEF SweepStep, SweepStaleActive, SweepCancelPaused, PurgeTerminal, TimePasses, IInv
  <1>3. ASSUME NEW row, RowInv(row), Write(j, row), Harmless(r, row), LifeKept(r, row)
        PROVE  IInv' /\ LivesKept
    BY <1>2, <1>3, RowStep
  <1>4. CASE TimePasses(j)
    <2> DEFINE row == [r EXCEPT !.age = @ + 1]
    <2>1. RowInv(row)
      BY <1>1, <1>4, AgedInv DEF TimePasses
    <2>2. SameVerdict(r, row)
      BY <1>1 DEF SameVerdict, IsRecord, Columns
    <2>3. Write(j, row)
      BY <1>4 DEF TimePasses
    <2> HIDE DEF row
    <2> QED
      BY <1>3, <2>1, <2>2, <2>3, Unnoticed
  <1>5. CASE SweepStaleActive(j)
    <2> DEFINE row == InterruptedRow(r)
    <2>1. RowInv(row) /\ Write(j, row) /\ r.status = "detached"
      BY <1>1, <1>5, InterruptedInv DEF SweepStaleActive, Stale
    <2>2. row.status = "error" /\ row.result = "worker_restart"
      BY <1>1 DEF InterruptedRow, IsRecord, Columns
    <2>3. Harmless(r, row) /\ LifeKept(r, row)
      BY <2>1, <2>2 DEF Harmless, LifeKept, Owned, Terminal
    <2> QED
      BY <1>3, <2>1, <2>3
  <1>6. CASE SweepCancelPaused(j)
    <2> DEFINE row == TimedOutRow(r)
    <2>1. RowInv(row) /\ Write(j, row)
      BY <1>1, <1>6, TimedOutInv DEF SweepCancelPaused
    <2>2. row = r \/ (r.status \in Parked /\ LifeKept(r, row))
      <3>1. CASE r.status \in Parked
        <4>1. row.status = "cancelled" /\ row.result = "stale_paused_timeout"
          BY <1>1, <3>1 DEF TimedOutRow, IsRecord, Columns
        <4> QED
          BY <3>1, <4>1 DEF LifeKept
      <3> QED
        BY <3>1 DEF TimedOutRow
    <2>3. Harmless(r, row) /\ LifeKept(r, row)
      BY <2>2, Unnoticed DEF SameVerdict
    <2> QED
      BY <1>3, <2>1, <2>3
  <1>7. CASE PurgeTerminal(j)
    <2>1. Write(j, Removed(r)) /\ r.status \in Terminal
      BY <1>7 DEF PurgeTerminal
    <2> QED
      BY <1>3, <2>1, NewRows, Unnoticed
  <1> QED
    BY <1>4, <1>5, <1>6, <1>7 DEF SweepStep

-----------------------------------------------------------------------------
(***************************************************************************)
(* The invariant, and what follows from it.                                *)
(***************************************************************************)

\* Nothing has been started yet.
LEMMA InitInv == Init => IInv
  <1> SUFFICES ASSUME Init PROVE IInv
    OBVIOUS
  <1>1. EmptyRow \in Row /\ RowInv(EmptyRow)
    BY NewRows, RowType DEF RowInv
  <1>2. RowsInv
    BY <1>1 DEF Init, RowsInv
  <1>3. PICK j \in Jobs :
          task = [t \in Tasks |-> [pc |-> "idle", job |-> j, carry |-> <<>>, steps |-> 0]]
    BY DEF Init
  <1>4. [pc |-> "idle", job |-> j, carry |-> <<>>, steps |-> 0] \in Task
    BY SlotType, EmptyQueue DEF TaskPc
  <1>5. TaskInv
    BY <1>3, <1>4 DEF TaskInv, Busy, Fits, AgentPc, NewPc
  <1>6. fate \in [Jobs -> Fate] /\ sweepList \subseteq Jobs
    BY DEF Init, Fate
  <1> QED
    BY <1>2, <1>5, <1>6 DEF IInv

\* Every step keeps the invariant and the verdicts.
LEMMA NextInv ==
  ASSUME IInv, [Next]_vars
  PROVE  IInv' /\ LivesKept
  <1>1. ASSUME NEW t \in Tasks, TaskStep(t) PROVE IInv' /\ LivesKept
    BY <1>1, NewTurnStep, LoopStep, DrainStep, TouchStep, OutcomeStep, StageStep,
       StagedResumeStep
       DEF TaskStep
  <1>2. ASSUME NEW t \in Tasks, Crash(t) PROVE IInv' /\ LivesKept
    BY <1>2, StopStep DEF Crash
  <1>3. ASSUME NEW j \in Jobs, UserStep(j) PROVE IInv' /\ LivesKept
    <2>1. ASSUME NEW t \in Tasks, Resume(t, j) PROVE IInv' /\ LivesKept
      BY <2>1, ResumeStep DEF Resume
    <2> QED
      BY <1>3, <2>1, UserRowStep, StartStep, ConfirmStep, BudgetStep DEF UserStep
  <1>4. ASSUME NEW j \in Jobs, SweepStep(j) \/ TimePasses(j) PROVE IInv' /\ LivesKept
    BY <1>4, SweepRowStep
  <1>5. CASE SweepListPaused \/ UNCHANGED vars
    <2>1. UNCHANGED <<job, task, fate>> /\ sweepList' \subseteq Jobs
      BY <1>5 DEF SweepListPaused, vars, IInv
    <2> QED
      BY <2>1 DEF IInv, RowsInv, TaskInv, Busy, Fits, LivesKept, LifeKept
  <1> QED
    BY <1>1, <1>2, <1>3, <1>4, <1>5 DEF Next

\* The inductive invariant holds in every reachable state: every row is sound by
\* itself, and every task that works for a job is the only one and finds the row
\* as it may be.
THEOREM Invariance == Spec => []IInv
  <1>1. Init => IInv
    BY InitInv
  <1>2. IInv /\ [Next]_vars => IInv'
    BY NextInv
  <1> QED
    BY <1>1, <1>2, PTL DEF Spec

\* Types: no write of the store leaves its column, and no correction queue
\* outgrows its limit.
THEOREM TypesHold == Spec => []TypeOK
  <1>1. IInv => TypeOK
    BY DEF IInv, RowsInv, TaskInv, TypeOK
  <1> QED
    BY <1>1, Invariance, PTL

\* The claims exclude each other: never two tasks run the agent of one job.
THEOREM OneAgent == Spec => []OneAgentPerJob
  <1>1. IInv => OneAgentPerJob
    BY DEF IInv, TaskInv, Busy, OneAgentPerJob
  <1> QED
    BY <1>1, Invariance, PTL

\* A job an agent works on is "detached", unless the stale sweep took it for
\* interrupted or it was deleted after that.
THEOREM AgentsOwnTheirJobs == Spec => []AgentOwnsJob
  <1>1. IInv => AgentOwnsJob
    BY DEF IInv, TaskInv, Fits, Owned, AgentOwnsJob
  <1> QED
    BY <1>1, Invariance, PTL

\* Whatever parked a job saved a state for the claim that takes it up again.
THEOREM ParkedJobsCanResume == Spec => []ParkedCanResume
  <1>1. IInv => ParkedCanResume
    BY DEF IInv, RowsInv, RowInv, Sound, ParkedCanResume
  <1> QED
    BY <1>1, Invariance, PTL

\* No write parks a job that was asked to cancel.
THEOREM CancelsBlockParking == Spec => []CancelBlocksParking
  <1>1. IInv => CancelBlocksParking
    BY DEF IInv, RowsInv, RowInv, Sound, CancelBlocksParking
  <1> QED
    BY <1>1, Invariance, PTL

\* The one action of a pause event is still to be had while the job is paused
\* for its budget.
THEOREM DecisionsStayOpen == Spec => []DecisionOpen
  <1>1. IInv => DecisionOpen
    BY DEF IInv, RowsInv, RowInv, Sound, DecisionOpen
  <1> QED
    BY <1>1, Invariance, PTL

\* Every confirmation is resolved at most once, and none is open while the
\* agent goes on.
THEOREM ConfirmationsResolvedOnce == Spec => []ConfirmationsBalanced
  <1>1. ASSUME IInv PROVE ConfirmationsBalanced
    <2> SUFFICES ASSUME NEW j \in Jobs
                 PROVE  LET open == job[j].asked - job[j].resolved IN
                        /\ open \in {0, 1}
                        /\ job[j].status = "awaiting" => open = 1
                        /\ job[j].status = "paused" => open = 0
                        /\ job[j].status = "detached" /\ (\E t \in Tasks : AgentOf(t, j)) => open = 0
      BY DEF ConfirmationsBalanced
    <2>1. /\ job[j].asked \in Nat /\ job[j].resolved \in Nat
          /\ job[j].resolved <= job[j].asked /\ job[j].asked <= job[j].resolved + 1
          /\ job[j].status = "awaiting" => job[j].asked = job[j].resolved + 1
          /\ job[j].status = "paused" => job[j].asked = job[j].resolved
      BY <1>1 DEF IInv, RowsInv, RowInv, Sound, Typed
    <2>2. job[j].status = "detached" /\ (\E t \in Tasks : AgentOf(t, j))
          => job[j].asked = job[j].resolved
      BY <1>1 DEF IInv, TaskInv, Fits, Owned, AgentOf
    <2> QED
      BY <2>1, <2>2
  <1> QED
    BY <1>1, Invariance, PTL

\* A recorded verdict other than the sweep's own guess is never replaced.
THEOREM VerdictsStand == Spec => VerdictStands
  <1>1. IInv /\ [Next]_vars =>
          [\A j \in Jobs :
            job[j].status \in Terminal /\ job[j].result # "worker_restart"
            => \/ job'[j].status = job[j].status /\ job'[j].result = job[j].result
               \/ job'[j].status = "gone"]_vars
    BY NextInv DEF LivesKept, LifeKept, DroppedByAgent, Terminal, Parked
  <1> QED
    BY <1>1, Invariance, PTL DEF Spec, VerdictStands

\* No job that is still to go on is dropped from a full list, except by the step
\* of its own agent that ends it.
THEOREM ActiveJobsKept == Spec => ActiveJobKept
  <1>1. IInv /\ [Next]_vars =>
          [\A j \in Jobs :
            job[j].status \in Live /\ job'[j].status = "gone"
            => /\ job[j].status = "detached"
               /\ \E t \in Tasks : AgentOf(t, j) /\ task'[t].pc = "idle"]_vars
    BY NextInv DEF LivesKept, LifeKept, DroppedByAgent, Live, Parked, Terminal
  <1> QED
    BY <1>1, Invariance, PTL DEF Spec, ActiveJobKept

-----------------------------------------------------------------------------
(***************************************************************************)
(* As long as no step of an agent outlasts the cutoff of the stale sweep,  *)
(* nobody takes a job away from its agent, and every verdict is final.     *)
(***************************************************************************)
Fresh(r) == r.status = "detached" /\ r.age = 0

PromptAgents == \A t \in Tasks : task[t].pc \in AgentPc => Fresh(job[task[t].job])

FinalVerdict(old, new) ==
    old.status \in Terminal => \/ new.status = old.status /\ new.result = old.result
                               \/ new.status = "gone"

VerdictsFinal == \A j \in Jobs : FinalVerdict(job[j], job'[j])

\* A write that an agent of the job does not mind, nor a verdict.
Steady(old, new) == (Fresh(old) => Fresh(new)) /\ FinalVerdict(old, new)

LEMMA SteadyStep ==
  ASSUME IInv, PromptAgents, \A j \in Jobs : Steady(job[j], job'[j]),
         \A u \in Tasks : task'[u].pc \in AgentPc =>
            \/ task[u].pc \in AgentPc /\ task'[u].job = task[u].job
            \/ Fresh(job'[task'[u].job])
  PROVE  PromptAgents' /\ VerdictsFinal
  <1>1. \A u \in Tasks : task[u].job \in Jobs
    BY DEF IInv, TaskInv, Task
  <1> QED
    BY <1>1 DEF PromptAgents, VerdictsFinal, Steady

\* An agent that is over leaves its row as it likes: no other agent has it.
LEMMA OverStep ==
  ASSUME IInv, PromptAgents, NEW t \in Tasks, task[t].pc \in AgentPc,
         task'[t].pc \notin AgentPc, \A u \in Tasks \ {t} : task'[u] = task[u],
         \A k \in Jobs \ {task[t].job} :
            job'[k] = job[k] \/ (job[k].status \in Terminal /\ job'[k].status = "gone")
  PROVE  PromptAgents' /\ VerdictsFinal
  <1>1. Fresh(job[task[t].job])
    BY DEF PromptAgents
  <1>2. ASSUME NEW u \in Tasks, task'[u].pc \in AgentPc
        PROVE  Fresh(job'[task'[u].job])
    <2>1. task[u].job \in Jobs \ {task[t].job} /\ task'[u] = task[u]
      BY <1>2 DEF IInv, TaskInv, Task, Busy
    <2>2. Fresh(job[task[u].job])
      BY <1>2, <2>1 DEF PromptAgents
    <2> QED
      BY <2>1, <2>2 DEF Fresh, Terminal
  <1>3. ASSUME NEW j \in Jobs
        PROVE  FinalVerdict(job[j], job'[j])
    BY <1>1 DEF FinalVerdict, Fresh, Terminal
  <1> QED
    BY <1>2, <1>3 DEF PromptAgents, VerdictsFinal

\* A row is written and no task changes.
LEMMA SteadyRow ==
  ASSUME IInv, PromptAgents, NEW j \in Jobs, NEW row, Write(j, row), UNCHANGED task,
         Steady(job[j], row)
  PROVE  PromptAgents' /\ VerdictsFinal
  <1>1. job'[j] = row /\ \A k \in Jobs \ {j} : job'[k] = job[k]
    BY DEF IInv, RowsInv, Write
  <1>2. \A k \in Jobs : Steady(job[k], job'[k])
    BY <1>1 DEF Steady, FinalVerdict
  <1> QED
    BY <1>2, SteadyStep

\* The agent loop and the drain keep what the agent needs.
LEMMA PromptLoop ==
  ASSUME IInv, PromptAgents, NEW t \in Tasks,
         \/ DrainCorrections(t) \/ Checkpoint(t) \/ PauseCheck(t) \/ ModelCall(t)
         \/ ToolCall(t) \/ LoopExhausted(t) \/ Finalize(t)
  PROVE  PromptAgents' /\ VerdictsFinal
  <1>0. PICK j \in Jobs : j = task[t].job
    BY DEF IInv, TaskInv, Task
  <1>1. task[t].pc \in AgentPc /\ task \in [Tasks -> Task] /\ job \in [Jobs -> Row]
        /\ IsRecord(job[j])
    BY DEF DrainCorrections, Checkpoint, PauseCheck, ModelCall, ToolCall, LoopExhausted, Finalize,
           AgentPc, IInv, TaskInv, RowsInv, RowInv
  <1>2. \/ UNCHANGED job
        \/ \E row \in {Touched(job[j]), Drained(job[j]), PauseRefused(job[j])} : Write(j, row)
    BY <1>0 DEF DrainCorrections, Checkpoint, PauseCheck, ModelCall, ToolCall, LoopExhausted,
                Finalize
  <1>3. task'[t].job = j /\ \A u \in Tasks \ {t} : task'[u] = task[u]
    BY <1>0, <1>1 DEF DrainCorrections, Checkpoint, PauseCheck, ModelCall, ToolCall,
                      LoopExhausted, Finalize, Go, Task
  <1>4. ASSUME NEW row \in {Touched(job[j]), Drained(job[j]), PauseRefused(job[j])}
        PROVE  Steady(job[j], row)
    <2>1. row.status = job[j].status /\ row.result = job[j].result
      BY <1>1, SmallWrites
    <2>2. job[j].age = 0 => row.age = 0
      BY <1>1 DEF Touched, Drained, PauseRefused, IsRecord, Columns
    <2> QED
      BY <2>1, <2>2 DEF Steady, Fresh, FinalVerdict
  <1>5. \A k \in Jobs : Steady(job[k], job'[k])
    <2>1. CASE UNCHANGED job
      BY <2>1 DEF Steady, FinalVerdict
    <2>2. ASSUME NEW row \in {Touched(job[j]), Drained(job[j]), PauseRefused(job[j])}, Write(j, row)
          PROVE  \A k \in Jobs : Steady(job[k], job'[k])
      <3>1. job'[j] = row /\ \A k \in Jobs \ {j} : job'[k] = job[k]
        BY <1>1, <2>2 DEF Write
      <3> QED
        BY <1>4, <3>1 DEF Steady, FinalVerdict
    <2> QED
      BY <1>2, <2>1, <2>2
  <1> QED
    BY <1>0, <1>1, <1>3, <1>5, SteadyStep

\* Outcomes and the end of a resolution.
LEMMA PromptOutcome ==
  ASSUME IInv, PromptAgents, NEW t \in Tasks,
         \/ Finish(t) \/ Fail(t) \/ StepCancel(t) \/ SetPaused(t) \/ SetAwaitingConfirmation(t)
         \/ StageResume(t) \/ ResolutionFails(t)
  PROVE  PromptAgents' /\ VerdictsFinal
  <1>0. PICK j \in Jobs : j = task[t].job
    BY DEF IInv, TaskInv, Task
  <1>1. task[t].pc \in AgentPc /\ task \in [Tasks -> Task] /\ job \in [Jobs -> Row]
    BY DEF Finish, Fail, StepCancel, SetPaused, SetAwaitingConfirmation, StageResume,
           ResolutionFails, AgentPc, IInv, TaskInv, RowsInv
  <1>2. /\ \/ UNCHANGED job
           \/ \E row : Write(j, row)
           \/ \E status, result : EndJob(t, status, result)
        /\ Stop(t) \/ task' = [task EXCEPT ![t].pc = "restaged", ![t].carry = <<>>]
    BY <1>0 DEF Finish, Fail, StepCancel, SetPaused, SetAwaitingConfirmation, StageResume,
                ResolutionFails, EndJob
  <1>3. task'[t].pc \notin AgentPc /\ \A u \in Tasks \ {t} : task'[u] = task[u]
    BY <1>1, <1>2 DEF Stop, Task, AgentPc
  <1>4. \A k \in Jobs \ {j} :
            job'[k] = job[k] \/ (job[k].status \in Terminal /\ job'[k].status = "gone")
    <2>1. CASE UNCHANGED job \/ \E row : Write(j, row)
      BY <1>1, <2>1 DEF Write
    <2>2. CASE \E status, result : EndJob(t, status, result)
      <3>1. PICK status, result :
              job' \in UserCapResults([job EXCEPT ![j] = Ended(@, status, result)])
        BY <1>0, <2>2 DEF EndJob
      <3>2. [job EXCEPT ![j] = Ended(@, status, result)]
              = [job EXCEPT ![j] = Ended(job[j], status, result)]
        BY <1>1
      <3>3. \A k \in Jobs \ {j} : [job EXCEPT ![j] = Ended(job[j], status, result)][k] = job[k]
        BY <1>1
      <3>4. PICK oldest :
              /\ \A k \in oldest :
                   [job EXCEPT ![j] = Ended(job[j], status, result)][k].status \in Terminal
              /\ job' = [k \in Jobs |->
                           IF k \in oldest
                             THEN Removed([job EXCEPT ![j] = Ended(job[j], status, result)][k])
                             ELSE [job EXCEPT ![j] = Ended(job[j], status, result)][k]]
        BY <3>1, <3>2 DEF UserCapResults, Discardable
      <3> QED
        BY <3>3, <3>4, NewRows
    <2> QED
      BY <1>2, <2>1, <2>2
  <1> QED
    BY <1>0, <1>1, <1>3, <1>4, OverStep

\* A claim gives the agent a row that was written just now.
LEMMA PromptClaim ==
  ASSUME IInv, PromptAgents, NEW t \in Tasks, NEW j \in Jobs,
         \/ Resume(t, j) \/ ClaimConfirmation(t, j)
         \/ \E event \in 0..MaxPauses : BudgetResume(t, j, event)
         \/ ResumeStaged(t) /\ j = task[t].job
  PROVE  PromptAgents' /\ VerdictsFinal
  <1>1. task \in [Tasks -> Task] /\ job \in [Jobs -> Row] /\ IsRecord(job[j])
    BY DEF IInv, TaskInv, RowsInv, RowInv
  <1>2. ASSUME UNCHANGED job, Stop(t)
        PROVE  PromptAgents' /\ VerdictsFinal
    <2>1. \A u \in Tasks : task'[u].pc \in AgentPc =>
             task[u].pc \in AgentPc /\ task'[u].job = task[u].job
      BY <1>1, <1>2 DEF Stop, AgentPc, Task
    <2>2. \A k \in Jobs : Steady(job[k], job'[k])
      BY <1>2 DEF Steady, FinalVerdict
    <2> QED
      BY <2>1, <2>2, SteadyStep
  <1>3. ASSUME NEW row, Write(j, row), job[j].status \in Parked, Fresh(row),
               UNCHANGED task \/ \E pc, carry : StartAgent(t, pc, j, carry)
        PROVE  PromptAgents' /\ VerdictsFinal
    <2>1. job'[j] = row /\ \A k \in Jobs \ {j} : job'[k] = job[k]
      BY <1>1, <1>3 DEF Write
    <2>2. \A u \in Tasks : task'[u] = task[u] \/ task'[u].job = j
      BY <1>1, <1>3 DEF StartAgent
    <2>3. \A k \in Jobs : Steady(job[k], job'[k])
      BY <2>1, <1>3 DEF Steady, Fresh, FinalVerdict, Parked, Terminal
    <2> QED
      BY <1>3, <2>1, <2>2, <2>3, SteadyStep
  <1>4. \/ UNCHANGED job /\ Stop(t)
        \/ \E row : /\ Write(j, row) /\ job[j].status \in Parked /\ Fresh(row)
                    /\ UNCHANGED task \/ \E pc, carry : StartAgent(t, pc, j, carry)
    <2>1. /\ Fresh(ClaimedRow(job[j])) /\ Fresh(ResolvingRow(job[j]))
          /\ Fresh(CountedRow(ResolvingRow(job[j])))
          /\ \A event : Fresh(BudgetResumedRow(job[j], event))
      BY <1>1 DEF IsRecord, Columns, Fresh, ClaimedRow, ResolvingRow, CountedRow, BudgetResumedRow
    <2>2. CASE Resume(t, j)
      BY <2>1, <2>2 DEF Resume, Parked
    <2>3. CASE ClaimConfirmation(t, j)
      BY <2>1, <2>3 DEF ClaimConfirmation, Parked
    <2>4. CASE \E event \in 0..MaxPauses : BudgetResume(t, j, event)
      BY <2>1, <2>4 DEF BudgetResume, BudgetClaimable, Parked
    <2>5. CASE ResumeStaged(t) /\ j = task[t].job
      BY <2>1, <2>5 DEF ResumeStaged, Parked
    <2> QED
      BY <2>2, <2>3, <2>4, <2>5
  <1> QED
    BY <1>2, <1>3, <1>4

\* Turns before their row, and what stops without a word.
LEMMA PromptTurn ==
  ASSUME IInv, PromptAgents, NEW t \in Tasks,
         \/ AttachedReturns(t) \/ Answer(t) \/ Crash(t) \/ \E j \in Jobs : StartTurn(t, j)
  PROVE  PromptAgents' /\ VerdictsFinal
  <1>1. task \in [Tasks -> Task] /\ UNCHANGED job
    BY DEF IInv, TaskInv, AttachedReturns, Answer, Crash, StartTurn
  <1>2. \A u \in Tasks : task'[u].pc \in AgentPc => task'[u] = task[u]
    <2>1. CASE AttachedReturns(t)
      BY <1>1, <2>1 DEF AttachedReturns, Go, AgentPc
    <2>2. CASE Answer(t) \/ Crash(t)
      <3>1. task'[t].pc = "idle" /\ \A u \in Tasks \ {t} : task'[u] = task[u]
        BY <1>1, <2>2 DEF Answer, Crash, Stop, Task
      <3> QED
        BY <3>1 DEF AgentPc
    <2>3. CASE \E j \in Jobs : StartTurn(t, j)
      BY <1>1, <2>3 DEF StartTurn, StartAgent, AgentPc
    <2> QED
      BY <2>1, <2>2, <2>3
  <1>3. \A j \in Jobs : Steady(job[j], job'[j])
    BY <1>1 DEF Steady, FinalVerdict
  <1> QED
    BY <1>2, <1>3, SteadyStep

LEMMA PromptDetach ==
  ASSUME IInv, PromptAgents, NEW t \in Tasks, Detach(t)
  PROVE  PromptAgents' /\ VerdictsFinal
  <1>0. PICK j \in Jobs : j = task[t].job
    BY DEF IInv, TaskInv, Task
  <1>1. /\ task \in [Tasks -> Task] /\ task[t].pc \in NewPc /\ job[j].status = "none"
        /\ job' \in UserCapResults([job EXCEPT ![j] = DetachedRow])
    BY <1>0 DEF Detach, IInv, TaskInv, Fits
  <1>2. RowInv(DetachedRow) /\ Fresh(DetachedRow)
    BY NewRows DEF Fresh, DetachedRow, EmptyRow
  <1>3. /\ job'[j] = DetachedRow
        /\ \A k \in Jobs \ {j} :
             job'[k] = job[k] \/ (job[k].status \in Terminal /\ job'[k].status = "gone")
    BY <1>1, <1>2, CapInv DEF IInv, Fresh, Terminal
  <1>4. \A k \in Jobs : Steady(job[k], job'[k])
    BY <1>1, <1>2, <1>3 DEF Steady, Fresh, FinalVerdict, Terminal
  <1>5. task'[t].job = j /\ \A u \in Tasks \ {t} : task'[u] = task[u]
    BY <1>0, <1>1 DEF Detach, Go, Stop, Task
  <1> QED
    BY <1>2, <1>3, <1>4, <1>5, SteadyStep

\* The controls and the sweeps: what is fresh is not stale.
LEMMA PromptRows ==
  ASSUME IInv, PromptAgents, NEW j \in Jobs,
         \/ RequestPause(j) \/ RequestCancel(j) \/ DeleteJob(j)
         \/ \E c \in Corrections : QueueCorrection(j, c)
         \/ \E event \in 0..MaxPauses : BudgetCancel(j, event)
         \/ SweepStep(j)
  PROVE  PromptAgents' /\ VerdictsFinal
  <1> DEFINE r == job[j]
  <1>r. IsRecord(r)
    BY DEF IInv, RowsInv, RowInv
  <1>1. CASE RequestPause(j)
    <2>1. Steady(r, PauseRequestedRow(r))
      BY <1>1, <1>r DEF RequestPause, Steady, Fresh, FinalVerdict, Terminal, PauseRequestedRow,
                        IsRecord, Columns
    <2> QED
      BY <1>1, <2>1, SteadyRow DEF RequestPause
  <1>2. CASE RequestCancel(j)
    <2>1. Steady(r, AfterCancel(r))
      BY <1>2, <1>r DEF RequestCancel, Steady, Fresh, FinalVerdict, Terminal, Live, Parked,
                        AfterCancel, IsRecord, Columns
    <2> QED
      BY <1>2, <2>1, SteadyRow DEF RequestCancel
  <1>3. CASE DeleteJob(j) \/ PurgeTerminal(j)
    <2>1. r.status \in Terminal => Steady(r, Removed(r))
      BY NewRows DEF Steady, Fresh, FinalVerdict, Terminal
    <2> QED
      BY <1>3, <2>1, SteadyRow DEF DeleteJob, PurgeTerminal
  <1>4. CASE \E c \in Corrections : QueueCorrection(j, c)
    <2>1. PICK c \in Corrections : QueueCorrection(j, c)
      BY <1>4
    <2>2. Steady(r, CorrectedRow(r, c))
      BY <2>1, <1>r DEF QueueCorrection, Steady, Fresh, FinalVerdict, Terminal, Live, Parked,
                        CorrectedRow, IsRecord, Columns
    <2> QED
      BY <2>1, <2>2, SteadyRow DEF QueueCorrection
  <1>5. CASE \E event \in 0..MaxPauses : BudgetCancel(j, event)
    <2>1. PICK event : BudgetCancel(j, event)
      BY <1>5
    <2>2. Steady(r, BudgetCancelledRow(r, event))
      BY <2>1 DEF BudgetCancel, BudgetClaimable, Steady, Fresh, FinalVerdict, Terminal
    <2> QED
      BY <2>1, <2>2, SteadyRow DEF BudgetCancel
  <1>6. CASE SweepStaleActive(j)
    <2>1. Steady(r, InterruptedRow(r))
      BY <1>6 DEF SweepStaleActive, Stale, Steady, Fresh, FinalVerdict, Terminal
    <2> QED
      BY <1>6, <2>1, SteadyRow DEF SweepStaleActive
  <1>7. CASE SweepCancelPaused(j)
    <2>1. Steady(r, TimedOutRow(r))
      BY DEF TimedOutRow, Steady, Fresh, FinalVerdict, Terminal, Parked
    <2> QED
      BY <1>7, <2>1, SteadyRow DEF SweepCancelPaused
  <1> QED
    BY <1>1, <1>2, <1>3, <1>4, <1>5, <1>6, <1>7 DEF SweepStep

LEMMA PromptNext ==
  ASSUME IInv, PromptAgents, ~SlowSteps, [Next]_vars
  PROVE  PromptAgents' /\ VerdictsFinal
  <1>1. ASSUME NEW t \in Tasks, TaskStep(t) PROVE PromptAgents' /\ VerdictsFinal
    <2>1. CASE ResumeStaged(t)
      <3>1. task[t].job \in Jobs
        BY DEF IInv, TaskInv, Task
      <3> QED
        BY <2>1, <3>1, PromptClaim
    <2> QED
      BY <1>1, <2>1, PromptTurn, PromptDetach, PromptLoop, PromptOutcome DEF TaskStep
  <1>2. ASSUME NEW t \in Tasks, Crash(t) PROVE PromptAgents' /\ VerdictsFinal
    BY <1>2, PromptTurn
  <1>3. ASSUME NEW j \in Jobs, UserStep(j) PROVE PromptAgents' /\ VerdictsFinal
    BY <1>3, PromptTurn, PromptClaim, PromptRows DEF UserStep
  <1>4. ASSUME NEW j \in Jobs, SweepStep(j) PROVE PromptAgents' /\ VerdictsFinal
    BY <1>4, PromptRows
  <1>5. ASSUME NEW j \in Jobs, TimePasses(j) PROVE PromptAgents' /\ VerdictsFinal
    <2>1. /\ Write(j, [job[j] EXCEPT !.age = @ + 1]) /\ UNCHANGED task
          /\ \A t \in Tasks : ~AgentOf(t, j)
      BY <1>5 DEF TimePasses
    <2>2. /\ job'[j].status = job[j].status /\ job'[j].result = job[j].result
          /\ \A k \in Jobs \ {j} : job'[k] = job[k]
      BY <2>1 DEF Write, IInv, RowsInv, RowInv, IsRecord, Columns
    <2> QED
      BY <2>1, <2>2 DEF PromptAgents, AgentOf, VerdictsFinal, FinalVerdict, IInv, TaskInv, Task
  <1>6. CASE SweepListPaused \/ UNCHANGED vars
    <2>1. UNCHANGED <<job, task>>
      BY <1>6 DEF SweepListPaused, vars
    <2> QED
      BY <2>1 DEF PromptAgents, VerdictsFinal, FinalVerdict
  <1> QED
    BY <1>1, <1>2, <1>3, <1>4, <1>5, <1>6 DEF Next

LEMMA PromptInvariance == ASSUME ~SlowSteps PROVE Spec => [](IInv /\ PromptAgents)
  <1>1. Init => IInv /\ PromptAgents
    <2>1. Init => \A t \in Tasks : task[t].pc \notin AgentPc
      BY DEF Init, AgentPc
    <2> QED
      BY <2>1, InitInv DEF PromptAgents
  <1>2. IInv /\ PromptAgents /\ [Next]_vars => IInv' /\ PromptAgents'
    BY NextInv, PromptNext
  <1> QED
    BY <1>1, <1>2, PTL DEF Spec

\* Provided that a working agent refreshes its row before the cutoff, it is never
\* taken for interrupted: every claim and every detachment hands it a fresh row,
\* however long the job was parked, and no control of the user, sweep or other task
\* takes the row away (updated_at in each claim and in create).
THEOREM PromptAgentsKeepTheirJobs == ASSUME ~SlowSteps PROVE Spec => []PromptAgents
  <1> QED
    BY PromptInvariance, PTL

\* ... and then the exception of VerdictStands is not needed: the verdict on a job
\* never changes, "worker_restart" included, until the job is deleted.
THEOREM PromptVerdictsAreFinal == ASSUME ~SlowSteps PROVE Spec => [][VerdictsFinal]_vars
  <1>1. IInv /\ PromptAgents /\ [Next]_vars => [VerdictsFinal]_vars
    BY PromptNext
  <1> QED
    BY <1>1, PromptInvariance, PTL DEF Spec

-----------------------------------------------------------------------------
(***************************************************************************)
(* The jobs live the lives of JobLifecycle.                                *)
(***************************************************************************)

\* The verdicts of the store are such as JobLifecycle asks for: the sweep's guess
\* is one of them and not one of the user's.
LEMMA VerdictsFit == Abstract!VerdictAssumption
  BY DEF Abstract!VerdictAssumption, Results, NoVerdict

\* A row tells of a life that JobLifecycle knows.
LEMMA LifeType ==
  ASSUME NEW r, RowInv(r)
  PROVE  LifeOf(r) \in Abstract!Open \cup Abstract!Over
  <1>1. r.status \in Status /\ r.result \in Results
    BY DEF RowInv, Typed
  <1>2. CASE r.status \in Terminal
    BY <1>1, <1>2 DEF LifeOf, RowInv, Sound, Abstract!Over
  <1>3. CASE r.status \notin Terminal
    BY <1>1, <1>3 DEF LifeOf, Abstract!Open, Status, Stored, Live, Parked
  <1> QED
    BY <1>2, <1>3

\* What a step makes of a row is what JobLifecycle lets become of its life.
LEMMA LifeGoesOn ==
  ASSUME NEW r, NEW p, RowInv(r), RowInv(p),
         LifeKept(r, p) \/ (r.status = "detached" /\ p.status = "gone")
  PROVE  Abstract!MayBecome(LifeOf(r), LifeOf(p))
  <1>1. p.status \in Status /\ r.status \in Status
    BY DEF RowInv, Typed
  <1>2. CASE p.status = r.status /\ p.result = r.result
    BY <1>2 DEF LifeOf, Abstract!MayBecome
  <1>3. CASE r.status = "none" /\ p.status = "detached"
    BY <1>3 DEF LifeOf, Abstract!MayBecome, Terminal, Parked
  <1>4. CASE r.status = "detached" /\ p.status \in Parked \cup Terminal \cup {"gone"}
    BY <1>4 DEF LifeOf, Abstract!MayBecome, Terminal, Parked
  <1>5. CASE r.status \in Parked
    BY <1>5 DEF LifeKept, LifeOf, Abstract!MayBecome, Terminal, Parked
  <1>6. CASE r.status \in Terminal /\ p.status = "gone"
    BY <1>6 DEF LifeOf, Abstract!MayBecome, Terminal, Parked
  <1>7. CASE r.status = "error" /\ r.result = "worker_restart" /\ p.status \in Terminal
    BY <1>7 DEF LifeOf, Abstract!MayBecome, Terminal
  <1> QED
    BY <1>2, <1>3, <1>4, <1>5, <1>6, <1>7 DEF LifeKept

\* Every write and every delete of the store, in whatever order claims, sweeps,
\* crashes and the agents' own outcomes come, is a step of JobLifecycle for every
\* job, or leaves the lives as they are.
THEOREM JobsKeepLifecycle == Spec => Lifecycle
  <1> DEFINE lives == [j \in Jobs |-> LifeOf(job[j])]
  <1>1. Init => Abstract!LifeInit
    <2>1. LifeOf(EmptyRow) = [phase |-> "none", verdict |-> NoVerdict]
      BY DEF EmptyRow, LifeOf, Terminal, Parked
    <2>2. Init => job = [j \in Jobs |-> EmptyRow]
      BY DEF Init
    <2> QED
      BY <2>1, <2>2 DEF Abstract!LifeInit
  <1>2. IInv /\ IInv' /\ [Next]_vars => [Abstract!LifeNext]_lives
    <2> SUFFICES ASSUME IInv, IInv', [Next]_vars
                 PROVE  Abstract!LifeNext
      OBVIOUS
    <2>1. \A j \in Jobs : RowInv(job[j]) /\ RowInv(job'[j])
      BY DEF IInv, RowsInv
    <2>2. \A j \in Jobs :
            LifeKept(job[j], job'[j]) \/ (job[j].status = "detached" /\ job'[j].status = "gone")
      BY NextInv DEF LivesKept, DroppedByAgent
    <2>3. \A j \in Jobs : Abstract!MayBecome(LifeOf(job[j]), LifeOf(job'[j]))
      BY <2>1, <2>2, LifeGoesOn
    <2>4. \A j \in Jobs : LifeOf(job'[j]) \in Abstract!Open \cup Abstract!Over
      BY <2>1, LifeType
    <2> QED
      BY <2>3, <2>4 DEF Abstract!LifeNext
  <1> QED
    BY <1>1, <1>2, Invariance, PTL DEF Spec, Lifecycle, Abstract!LifeSpec

=============================================================================
