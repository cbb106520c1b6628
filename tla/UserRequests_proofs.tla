------------------------ MODULE UserRequests_proofs ------------------------
(***************************************************************************)
(* Proofs about what becomes of what the user asks of a running job.       *)
(*                                                                         *)
(* A correction is given to the agent at most once, on its way through the *)
(* queue of the row, the snapshot of a parked job and the state a task     *)
(* carries.  What makes it true is more than CorrectionOnce says: whatever *)
(* waits was accepted and not yet applied, so a text that is new cannot be *)
(* waiting anywhere; and what waits in a snapshot or in a task is not in   *)
(* the queue.  A snapshot and a task never wait at the same time, because  *)
(* no agent runs while its job is parked (TaskInv).                        *)
(*                                                                         *)
(* NoCorrectionLost, PauseRequestKept and RunnerHonoursCancel, which state *)
(* what en.json tells the user, do not hold.  The other sections prove how *)
(* far they hold: they name the steps that may break them, and no other    *)
(* step can.                                                               *)
(***************************************************************************)
EXTENDS AgentJobs_proofs

\* Accepted and not yet given to the agent.
Pending(j) == fate[j].accepted \ fate[j].applied

\* What may wait outside the queue.
Outside(j) == Pending(j) \ Elements(job[j].queue)

Once(j) ==
    /\ fate[j].applied \subseteq fate[j].accepted
    /\ Elements(job[j].queue) \subseteq Pending(j)
    /\ job[j].status \in Parked => Elements(job[j].resume) \subseteq Outside(j)
    /\ \A t \in Tasks : AgentOf(t, j) => Elements(task[t].carry) \subseteq Outside(j)

\* A turn that is not detached yet carries nothing: it becomes an agent later.
NewCarryInv == \A t \in Tasks : task[t].pc \in NewPc => task[t].carry = <<>>

OnceInv == IInv /\ NewCarryInv /\ \A j \in Jobs : Once(j)

-----------------------------------------------------------------------------
(***************************************************************************)
(* The elements of queues.                                                 *)
(***************************************************************************)

\* An empty queue holds nothing.
LEMMA NothingInEmpty == Elements(<<>>) = {}
  BY DEF Elements

\* queue[-n:] keeps some of the elements.
LEMMA LastOfElements ==
  ASSUME NEW queue \in Seq(Corrections), NEW n \in Nat
  PROVE  Elements(LastOf(queue, n)) \subseteq Elements(queue)
  <1>1. CASE Len(queue) <= n
    BY <1>1 DEF LastOf
  <1>2. CASE ~(Len(queue) <= n)
    <2> DEFINE first == Len(queue) - n + 1
               last == SubSeq(queue, first, Len(queue))
    <2>1. first \in 1..Len(queue) + 1 /\ Len(queue) \in Nat /\ LastOf(queue, n) = last
      BY <1>2 DEF LastOf
    <2>2. Len(last) = n /\ \A i \in 1..n : last[i] = queue[first + i - 1]
      BY <2>1, <1>2
    <2>3. \A i \in 1..n : first + i - 1 \in 1..Len(queue)
      BY <2>1, <1>2
    <2> HIDE DEF last
    <2> QED
      BY <2>1, <2>2, <2>3 DEF Elements
  <1> QED
    BY <1>1, <1>2

\* queue_correction adds the new text to what it keeps.
LEMMA CorrectedElements ==
  ASSUME NEW queue \in CorrectionQueue, NEW c \in Corrections
  PROVE  Elements(Append(Kept(queue), c)) \subseteq Elements(queue) \cup {c}
  <1> DEFINE kept == Kept(queue)
  <1>1. QueueCap - 1 \in Nat /\ queue \in Seq(Corrections)
    BY BoundsAssumption DEF CorrectionQueue
  <1>2. kept \in Seq(Corrections) /\ Elements(kept) \subseteq Elements(queue)
    BY <1>1, LastOfType, LastOfElements DEF Kept
  <1> HIDE DEF kept
  <1>3. Elements(Append(kept, c)) \subseteq Elements(kept) \cup {c}
    BY <1>2 DEF Elements
  <1> QED
    BY <1>2, <1>3 DEF kept

\* A claim hands over what was in the queue or in the snapshot.
LEMMA ClaimedElements ==
  ASSUME NEW r \in Row
  PROVE  Elements(ClaimedCarry(r)) \subseteq Elements(r.queue) \cup Elements(r.resume)
  <1>1. r.queue \in Seq(Corrections) /\ QueueCap \in Nat
    BY BoundsAssumption DEF Row, CorrectionQueue
  <1> QED
    BY <1>1, LastOfElements DEF ClaimedCarry

\* What each UPDATE leaves of status, queue and snapshot.
Waiting(r, p) == p.status = r.status /\ p.queue = r.queue /\ p.resume = r.resume

LEMMA SameColumns ==
  ASSUME NEW r, IsRecord(r)
  PROVE  /\ Waiting(r, Touched(r)) /\ Waiting(r, PauseRefused(r))
         /\ Waiting(r, PauseRequestedRow(r)) /\ Waiting(r, [r EXCEPT !.age = @ + 1])
         /\ r.status = "detached" => Waiting(r, AfterCancel(r))
  BY DEF Waiting, IsRecord, Columns, Touched, PauseRefused, PauseRequestedRow, AfterCancel

LEMMA EndingColumns ==
  ASSUME NEW r, IsRecord(r), NEW p,
         \/ p = CancelledRow(r) \/ p = InterruptedRow(r)
         \/ p = TimedOutRow(r) /\ r.status \in Parked
         \/ \E event : p = BudgetCancelledRow(r, event)
  PROVE  p.status \in Terminal /\ (p.queue = r.queue \/ p.queue = <<>>)
  BY DEF IsRecord, Columns, Terminal, CancelledRow, InterruptedRow, TimedOutRow,
         BudgetCancelledRow

-----------------------------------------------------------------------------
(***************************************************************************)
(* One job in one step.                                                    *)
(***************************************************************************)

\* Nothing is accepted or applied, and what waits stays where it was, or goes
\* from the agent into the snapshot, or is thrown away.
LEMMA StaysOnce ==
  ASSUME NEW j \in Jobs, Once(j), fate'[j] = fate[j],
         Elements(job'[j].queue) \subseteq Elements(job[j].queue),
         job'[j].status \in Parked => Elements(job'[j].resume) \subseteq Outside(j),
         \A t \in Tasks : AgentOf(t, j)' => Elements(task'[t].carry) \subseteq Outside(j)
  PROVE  Once(j)'
  BY DEF Once, Outside, Pending

\* No agent of j starts, and those that go on carry what they carried.
SameAgents(j) ==
    \A t \in Tasks : AgentOf(t, j)' => AgentOf(t, j) /\ task'[t].carry = task[t].carry

\* The row keeps status, queue and snapshot.
LEMMA QuietRow ==
  ASSUME NEW j \in Jobs, Once(j), fate'[j] = fate[j], Waiting(job[j], job'[j]), SameAgents(j)
  PROVE  Once(j)'
  <1>1. job'[j].status \in Parked => Elements(job'[j].resume) \subseteq Outside(j)
    BY DEF Once, Waiting
  <1>2. \A t \in Tasks : AgentOf(t, j)' => Elements(task'[t].carry) \subseteq Outside(j)
    BY DEF Once, SameAgents
  <1>3. Elements(job'[j].queue) \subseteq Elements(job[j].queue)
    BY DEF Waiting
  <1> QED
    BY <1>1, <1>2, <1>3, StaysOnce

\* The row ends or goes: its queue stays or is emptied.
LEMMA EndedRow ==
  ASSUME NEW j \in Jobs, Once(j), fate'[j] = fate[j], SameAgents(j),
         job'[j].status \notin Parked, job'[j].queue = job[j].queue \/ job'[j].queue = <<>>
  PROVE  Once(j)'
  <1>1. \A t \in Tasks : AgentOf(t, j)' => Elements(task'[t].carry) \subseteq Outside(j)
    BY DEF Once, SameAgents
  <1>2. Elements(job'[j].queue) \subseteq Elements(job[j].queue)
    BY NothingInEmpty
  <1> QED
    BY <1>1, <1>2, StaysOnce

\* A job that is gone has nothing in its queue.
LEMMA GoneIsEmpty ==
  ASSUME RowsInv, NEW j \in Jobs, job[j].status \in {"none", "gone"}
  PROVE  job[j].queue = <<>>
  BY DEF RowsInv, RowInv, Sound

\* It is enough to look at the job a step is about: for the others a row may go,
\* and the slot of a task may change hands.
LEMMA OneJobStep ==
  ASSUME OnceInv, IInv', NEW j \in Jobs,
         \A k \in Jobs \ {j} : /\ job'[k] = job[k] \/ job'[k].status = "gone"
                               /\ fate'[k] = fate[k],
         \A u \in Tasks : \/ task'[u] = task[u]
                          \/ /\ task'[u].job = j
                             /\ task'[u].pc \in NewPc => task'[u].carry = <<>>,
         Once(j)'
  PROVE  OnceInv'
  <1>1. ASSUME NEW k \in Jobs \ {j} PROVE Once(k)'
    <2>1. SameAgents(k)
      BY DEF SameAgents, AgentOf
    <2>2. CASE job'[k] = job[k]
      BY <2>1, <2>2, QuietRow DEF OnceInv, Waiting
    <2>3. CASE job'[k].status = "gone"
      <3>1. job'[k].queue = <<>>
        BY <2>3 DEF IInv, RowsInv, RowInv, Sound
      <3> QED
        BY <2>1, <2>3, <3>1, EndedRow DEF OnceInv, Parked
    <2> QED
      BY <2>2, <2>3
  <1>2. NewCarryInv'
    BY DEF OnceInv, NewCarryInv
  <1> QED
    BY <1>1, <1>2 DEF OnceInv

\* A row is written and no task changes.
LEMMA OneRowStep ==
  ASSUME OnceInv, IInv', NEW j \in Jobs, NEW row, Write(j, row),
         UNCHANGED <<task, fate>>,
         \/ Waiting(job[j], row)
         \/ row.status \notin Parked /\ (row.queue = job[j].queue \/ row.queue = <<>>)
  PROVE  OnceInv'
  <1>1. job'[j] = row /\ \A k \in Jobs \ {j} : job'[k] = job[k]
    BY DEF OnceInv, IInv, RowsInv, Write
  <1>2. SameAgents(j)
    BY DEF SameAgents, AgentOf
  <1>3. Once(j)'
    BY <1>1, <1>2, QuietRow, EndedRow DEF OnceInv
  <1> QED
    BY <1>1, <1>3, OneJobStep

\* A task changes that works for its job or for nobody, and goes on with what it
\* carries or without it; the row keeps what waits, or it ends or goes.
LEMMA OneTaskStep ==
  ASSUME OnceInv, IInv', NEW t \in Tasks, NEW x, task' = [task EXCEPT ![t] = x],
         x.job = task[t].job,
         x.pc \in AgentPc => task[t].pc \in AgentPc /\ x.carry = task[t].carry,
         x.pc \in NewPc => x.carry = <<>>,
         \A k \in Jobs \ {x.job} : job'[k] = job[k] \/ job'[k].status = "gone",
         UNCHANGED fate,
         \/ Waiting(job[x.job], job'[x.job])
         \/ /\ job'[x.job].status \notin Parked
            /\ job'[x.job].queue = job[x.job].queue \/ job'[x.job].queue = <<>>
  PROVE  OnceInv'
  <1> DEFINE j == x.job
  <1>1. j \in Jobs /\ task \in [Tasks -> Task]
    BY DEF OnceInv, IInv, TaskInv, Task
  <1>2. task'[t] = x /\ \A u \in Tasks \ {t} : task'[u] = task[u]
    BY <1>1
  <1>3. SameAgents(j)
    BY <1>2 DEF SameAgents, AgentOf
  <1>4. Once(j)'
    BY <1>1, <1>3, QuietRow, EndedRow DEF OnceInv
  <1> HIDE DEF j
  <1> QED
    BY <1>1, <1>2, <1>4, OneJobStep DEF j

-----------------------------------------------------------------------------
(***************************************************************************)
(* The actions.                                                            *)
(***************************************************************************)

\* Stop, Go: what they leave in the slot.
LEMMA SlotCarries ==
  ASSUME IInv, NEW t \in Tasks
  PROVE  /\ Stop(t) => \E x : /\ x.pc = "idle" /\ x.job = task[t].job /\ x.carry = <<>>
                            /\ task' = [task EXCEPT ![t] = x]
         /\ \A pc : Go(t, pc) => \E x : /\ x.pc = pc /\ x.job = task[t].job
                                        /\ x.carry = task[t].carry
                                        /\ task' = [task EXCEPT ![t] = x]
         /\ \A pc : task' = [task EXCEPT ![t].pc = pc, ![t].steps = @ + 1] =>
                     \E x : /\ x.pc = pc /\ x.job = task[t].job
                            /\ x.carry = task[t].carry
                            /\ task' = [task EXCEPT ![t] = x]
  <1>1. task[t] \in Task /\ task \in [Tasks -> Task]
    BY DEF IInv, TaskInv
  <1>2. ASSUME Stop(t)
        PROVE  \E x : /\ x.pc = "idle" /\ x.job = task[t].job /\ x.carry = <<>>
                      /\ task' = [task EXCEPT ![t] = x]
    <2> WITNESS [task[t] EXCEPT !.pc = "idle", !.carry = <<>>, !.steps = 0]
    <2> QED
      BY <1>1, <1>2 DEF Stop, Task
  <1>3. ASSUME NEW pc, Go(t, pc)
        PROVE  \E x : /\ x.pc = pc /\ x.job = task[t].job /\ x.carry = task[t].carry
                      /\ task' = [task EXCEPT ![t] = x]
    <2> WITNESS [task[t] EXCEPT !.pc = pc]
    <2> QED
      BY <1>1, <1>3 DEF Go, Task
  <1>4. ASSUME NEW pc, task' = [task EXCEPT ![t].pc = pc, ![t].steps = @ + 1]
        PROVE  \E x : /\ x.pc = pc /\ x.job = task[t].job /\ x.carry = task[t].carry
                      /\ task' = [task EXCEPT ![t] = x]
    <2> WITNESS [task[t] EXCEPT !.pc = pc, !.steps = @ + 1]
    <2> QED
      BY <1>1, <1>4 DEF Task
  <1> QED
    BY <1>2, <1>3, <1>4

\* The row of the job of a task that works for it.
LEMMA OwnRow ==
  ASSUME OnceInv, NEW t \in Tasks
  PROVE  task[t].job \in Jobs /\ RowInv(job[task[t].job]) /\ IsRecord(job[task[t].job])
  BY DEF OnceInv, IInv, TaskInv, Task, RowsInv, RowInv

\* A task that stops, alone or with its worker, takes with it what it carries.
LEMMA StopOnce ==
  ASSUME OnceInv, IInv', NEW t \in Tasks, Stop(t), UNCHANGED <<job, fate>>
  PROVE  OnceInv'
  <1>1. PICK x : x.pc = "idle" /\ x.job = task[t].job /\ task' = [task EXCEPT ![t] = x]
    BY SlotCarries DEF OnceInv
  <1>2. x.pc \notin AgentPc \cup NewPc /\ Waiting(job[x.job], job'[x.job])
    BY <1>1 DEF AgentPc, NewPc, Waiting
  <1> QED
    BY <1>1, <1>2, OneTaskStep

\* The agent loop, except for its drain: nothing moves.
LEMMA LoopOnce ==
  ASSUME OnceInv, IInv', NEW t \in Tasks,
         \/ Checkpoint(t) \/ PauseCheck(t) \/ ModelCall(t) \/ ToolCall(t)
         \/ LoopExhausted(t) \/ Finalize(t)
  PROVE  OnceInv'
  <1> DEFINE j == task[t].job
  <1>1. task[t].pc \in AgentPc
    BY DEF Checkpoint, PauseCheck, ModelCall, ToolCall, LoopExhausted, Finalize, AgentPc
  <1>2. PICK pc \in AgentPc :
          Go(t, pc) \/ task' = [task EXCEPT ![t].pc = pc, ![t].steps = @ + 1]
    BY DEF Checkpoint, PauseCheck, ModelCall, ToolCall, LoopExhausted, Finalize, AgentPc
  <1>3. PICK x : /\ x.pc = pc /\ x.job = j /\ x.carry = task[t].carry
                 /\ task' = [task EXCEPT ![t] = x]
    BY <1>2, SlotCarries DEF OnceInv
  <1>4. /\ UNCHANGED fate
        /\ \/ UNCHANGED job
           \/ \E row \in {Touched(job[j]), PauseRefused(job[j])} : Write(j, row)
    BY DEF Checkpoint, PauseCheck, ModelCall, ToolCall, LoopExhausted, Finalize
  <1>5. Waiting(job[j], job'[j]) /\ \A k \in Jobs \ {j} : job'[k] = job[k]
    BY <1>4, OwnRow, SameColumns DEF Write, OnceInv, IInv, RowsInv, Waiting
  <1>6. x.pc \notin NewPc
    BY <1>3 DEF AgentPc, NewPc
  <1> HIDE DEF j
  <1> QED
    BY <1>1, <1>3, <1>4, <1>5, <1>6, OneTaskStep DEF j

\* drain_corrections: what waited in the queue and in the task is applied, and
\* nothing else is left of it.
LEMMA DrainOnce ==
  ASSUME OnceInv, IInv', NEW t \in Tasks, DrainCorrections(t)
  PROVE  OnceInv'
  <1>0. PICK j \in Jobs : j = task[t].job
    BY OwnRow
  <1> DEFINE found == Elements(task[t].carry) \cup Elements(job[j].queue)
             pc == IF found = {} THEN "pauseCheck" ELSE "corrected"
  <1>1. /\ task[t].pc = "boundary" /\ Write(j, Drained(job[j]))
        /\ task' = [task EXCEPT ![t].carry = <<>>, ![t].pc = pc]
        /\ fate' = [fate EXCEPT ![j].applied = @ \cup found]
    BY <1>0 DEF DrainCorrections
  <1>2. /\ IsRecord(job[j]) /\ Owned(job[j]) /\ AgentOf(t, j)
        /\ task \in [Tasks -> Task] /\ fate \in [Jobs -> Fate] /\ job \in [Jobs -> Row]
    BY <1>0, <1>1, AgentFacts, OwnRow DEF OnceInv, IInv, RowsInv, TaskInv, AgentOf, AgentPc
  <1>3. /\ task'[t].pc = pc /\ task'[t].job = j /\ task'[t].carry = <<>>
        /\ \A u \in Tasks \ {t} : task'[u] = task[u]
    BY <1>0, <1>1, <1>2 DEF Task
  <1>4. \A k \in Jobs \ {j} : job'[k] = job[k] /\ fate'[k] = fate[k]
    BY <1>1, <1>2 DEF Write
  <1>5. /\ fate'[j].accepted = fate[j].accepted
        /\ fate'[j].applied = fate[j].applied \cup found
    BY <1>1, <1>2 DEF Fate
  <1>6. job'[j].queue = <<>> /\ job'[j].status = job[j].status
    <2>1. job'[j] = Drained(job[j])
      BY <1>1, <1>2 DEF Write
    <2>2. CASE job[j].status \in Stored
      BY <1>2, <2>1, <2>2 DEF Drained, IsRecord, Columns
    <2>3. CASE job[j].status = "gone"
      BY <1>2, <2>1, <2>3, GoneIsEmpty
         DEF Drained, OnceInv, IInv, Stored, Live, Parked, Terminal
    <2> QED
      BY <1>2, <2>2, <2>3 DEF Owned, Stored, Live, Terminal
  <1>7. \A u \in Tasks : AgentOf(u, j)' => u = t
    BY <1>2, <1>3 DEF OnceInv, IInv, TaskInv, Busy, AgentOf
  <1>8. Once(j)'
    <2>1. found \subseteq Pending(j) /\ fate[j].applied \subseteq fate[j].accepted
      BY <1>2 DEF OnceInv, Once, Outside
    <2>2. job'[j].status \notin Parked
      BY <1>2, <1>6 DEF Owned, Parked
    <2> HIDE DEF found
    <2> QED
      BY <1>3, <1>5, <1>6, <1>7, <2>1, <2>2, NothingInEmpty DEF Once, Pending
  <1>9. task'[t].pc \notin NewPc
    BY <1>3 DEF NewPc
  <1> QED
    BY <1>2, <1>3, <1>4, <1>8, <1>9, OneJobStep

\* The turn goes on as an agent, or has ended, when its row is inserted: neither
\* a text nor another agent is there.
LEMMA DetachOnce ==
  ASSUME OnceInv, IInv', NEW t \in Tasks, Detach(t)
  PROVE  OnceInv'
  <1>0. PICK j \in Jobs : j = task[t].job
    BY OwnRow
  <1>1. /\ task[t].pc \in NewPc /\ UNCHANGED fate
        /\ job' \in UserCapResults([job EXCEPT ![j] = DetachedRow])
        /\ Go(t, "working") \/ Stop(t)
    BY <1>0 DEF Detach
  <1>2. PICK x : /\ x.job = j /\ task' = [task EXCEPT ![t] = x]
                 /\ x.pc = "idle" \/ (x.pc = "working" /\ x.carry = <<>>)
    BY <1>0, <1>1, SlotCarries DEF OnceInv, NewCarryInv
  <1>3. x.pc \notin NewPc /\ task \in [Tasks -> Task]
    BY <1>2 DEF NewPc, OnceInv, IInv, TaskInv
  <1>4. task'[t] = x /\ \A u \in Tasks \ {t} : task'[u] = task[u]
    BY <1>2, <1>3
  <1>5. /\ DetachedRow.status = "detached" /\ DetachedRow.queue = <<>>
        /\ RowInv(DetachedRow)
    BY NewRows DEF DetachedRow, EmptyRow
  <1>6. /\ job'[j] = DetachedRow
        /\ \A k \in Jobs \ {j} : job'[k] = job[k] \/ job'[k].status = "gone"
    BY <1>1, <1>5, CapInv DEF OnceInv, IInv, Terminal
  <1>7. ASSUME NEW u \in Tasks, AgentOf(u, j)' PROVE u = t /\ task'[u].carry = <<>>
    <2>1. job[j].status = "none" /\ (AgentOf(u, j) => Owned(job[j]))
      BY <1>0, <1>1 DEF OnceInv, IInv, TaskInv, Fits, AgentOf
    <2>2. CASE u # t
      BY <1>4, <1>7, <2>1, <2>2 DEF AgentOf, Owned
    <2> QED
      BY <1>2, <1>4, <1>7, <2>2 DEF AgentOf, AgentPc
  <1>8. Once(j)'
    <2>1. fate[j].applied \subseteq fate[j].accepted
      BY DEF OnceInv, Once
    <2>2. job'[j].status \notin Parked
      BY <1>5, <1>6 DEF Parked
    <2> QED
      BY <1>1, <1>5, <1>6, <1>7, <2>1, <2>2, NothingInEmpty DEF Once, Pending
  <1> QED
    BY <1>1, <1>2, <1>3, <1>4, <1>6, <1>8, OneJobStep

\* process() and its turn before that.
LEMMA NewTurnOnce ==
  ASSUME OnceInv, IInv', NEW t \in Tasks, AttachedReturns(t) \/ Answer(t)
  PROVE  OnceInv'
  <1>1. CASE Answer(t)
    BY <1>1, StopOnce DEF Answer
  <1>2. CASE AttachedReturns(t)
    <2>1. /\ task[t].pc \in NewPc /\ Go(t, "returned") /\ UNCHANGED <<job, fate>>
      BY <1>2 DEF AttachedReturns, NewPc
    <2>2. PICK x : /\ x.pc = "returned" /\ x.job = task[t].job /\ x.carry = task[t].carry
                   /\ task' = [task EXCEPT ![t] = x]
      BY <2>1, SlotCarries DEF OnceInv
    <2>3. x.pc \notin AgentPc /\ x.carry = <<>> /\ Waiting(job[x.job], job'[x.job])
      BY <2>1, <2>2 DEF AgentPc, OnceInv, NewCarryInv, Waiting
    <2> QED
      BY <2>1, <2>2, <2>3, OneTaskStep
  <1> QED
    BY <1>1, <1>2

\* A new turn draws an id without a row, so without an agent.
LEMMA StartOnce ==
  ASSUME OnceInv, IInv', NEW t \in Tasks, NEW j \in Jobs, StartTurn(t, j)
  PROVE  OnceInv'
  <1> DEFINE x == [pc |-> "attached", job |-> j, carry |-> <<>>, steps |-> 0]
  <1>1. task' = [task EXCEPT ![t] = x] /\ UNCHANGED <<job, fate>>
    BY DEF StartTurn, StartAgent
  <1>2. x.job = j /\ x.pc \notin AgentPc /\ x.carry = <<>>
    BY DEF AgentPc
  <1> HIDE DEF x
  <1>3. task'[t] = x /\ \A u \in Tasks \ {t} : task'[u] = task[u]
    BY <1>1 DEF OnceInv, IInv, TaskInv
  <1>4. SameAgents(j)
    BY <1>2, <1>3 DEF SameAgents, AgentOf
  <1>5. Once(j)'
    BY <1>1, <1>4, QuietRow DEF Waiting, OnceInv
  <1> QED
    BY <1>1, <1>2, <1>3, <1>5, OneJobStep

\* set_terminal empties the queue of the row it finds.
LEMMA EndOnce ==
  ASSUME OnceInv, IInv', NEW t \in Tasks, task[t].pc \in AgentPc,
         NEW status \in Terminal, NEW result \in Results \ {NoVerdict},
         EndJob(t, status, result)
  PROVE  OnceInv'
  <1>0. PICK j \in Jobs : j = task[t].job
    BY OwnRow
  <1> DEFINE row == Ended(job[j], status, result)
  <1>1. /\ UNCHANGED fate /\ job' \in UserCapResults([job EXCEPT ![j] = row])
        /\ RowInv(job[j]) /\ Owned(job[j])
    BY <1>0, AgentFacts DEF EndJob, OnceInv
  <1>2. PICK x : x.pc = "idle" /\ x.job = j /\ task' = [task EXCEPT ![t] = x]
    BY <1>0, SlotCarries DEF EndJob, OnceInv
  <1>3. RowInv(row)
    BY <1>1, EndedInv
  <1>4. row.status \notin Parked /\ (row.queue = <<>> \/ row.queue = job[j].queue)
    BY <1>1 DEF Ended, RowInv, IsRecord, Columns, Owned, Stored, Live, Parked, Terminal
  <1> HIDE DEF row
  <1>5. /\ job'[j] = row \/ job'[j].status = "gone"
        /\ \A k \in Jobs \ {j} : job'[k] = job[k] \/ job'[k].status = "gone"
    BY <1>1, <1>3, CapInv DEF OnceInv, IInv
  <1>6. job'[j].status = "gone" => job'[j].queue = <<>>
    BY DEF IInv, RowsInv, RowInv, Sound
  <1>7. /\ job'[j].status \notin Parked
        /\ job'[j].queue = job[j].queue \/ job'[j].queue = <<>>
    BY <1>4, <1>5, <1>6 DEF Parked
  <1>8. x.pc \notin AgentPc \cup NewPc
    BY <1>2 DEF AgentPc, NewPc
  <1> QED
    BY <1>0, <1>1, <1>2, <1>5, <1>7, <1>8, OneTaskStep

\* A write that parks the job of an agent that is over: the snapshot holds at most
\* what the agent carried.
LEMMA ParkOnce ==
  ASSUME OnceInv, IInv', NEW t \in Tasks, task[t].pc \in AgentPc,
         NEW j \in Jobs, j = task[t].job, NEW row, Write(j, row), UNCHANGED fate,
         row.status \in Parked, row.queue = job[j].queue,
         Elements(row.resume) \subseteq Elements(task[t].carry),
         NEW x, task' = [task EXCEPT ![t] = x], x.job = j, x.pc \notin NewPc
  PROVE  OnceInv'
  <1>1. job'[j] = row /\ \A k \in Jobs \ {j} : job'[k] = job[k]
    BY DEF OnceInv, IInv, RowsInv, Write
  <1>2. task'[t] = x /\ \A u \in Tasks \ {t} : task'[u] = task[u]
    BY DEF OnceInv, IInv, TaskInv
  <1>3. \A u \in Tasks : ~AgentOf(u, j)'
    <2>1. ~Owned(job'[j])
      BY <1>1 DEF Owned, Parked
    <2> QED
      BY <2>1 DEF IInv, TaskInv, Fits, AgentOf
  <1>4. Elements(task[t].carry) \subseteq Outside(j)
    BY DEF OnceInv, Once, AgentOf
  <1>5. Once(j)'
    BY <1>1, <1>3, <1>4, StaysOnce DEF OnceInv
  <1> QED
    BY <1>1, <1>2, <1>5, OneJobStep

\* The store's answer to the outcome of an agent.
LEMMA OutcomeOnce ==
  ASSUME OnceInv, IInv', NEW t \in Tasks,
         \/ Finish(t) \/ Fail(t) \/ StepCancel(t) \/ ResolutionFails(t)
         \/ SetPaused(t) \/ SetAwaitingConfirmation(t)
  PROVE  OnceInv'
  <1>0. PICK j \in Jobs : j = task[t].job /\ IsRecord(job[j])
    BY OwnRow
  <1>1. task[t].pc \in AgentPc
    BY DEF Finish, Fail, StepCancel, ResolutionFails, SetPaused, SetAwaitingConfirmation, AgentPc
  <1>2. CASE Finish(t) \/ Fail(t) \/ StepCancel(t) \/ ResolutionFails(t)
    BY <1>1, <1>2, EndOnce
       DEF Finish, Fail, StepCancel, ResolutionFails, Terminal, Results, NoVerdict
  <1>3. ASSUME NEW row, Write(j, row), Stop(t), UNCHANGED fate,
               row.status \in Parked, row.queue = job[j].queue, row.resume = <<>>
        PROVE  OnceInv'
    <2>1. PICK x : x.pc = "idle" /\ x.job = j /\ task' = [task EXCEPT ![t] = x]
      BY <1>0, <1>3, SlotCarries DEF OnceInv
    <2>2. x.pc \notin NewPc /\ Elements(row.resume) \subseteq Elements(task[t].carry)
      BY <1>3, <2>1, NothingInEmpty DEF NewPc
    <2> QED
      BY <1>0, <1>1, <1>3, <2>1, <2>2, ParkOnce
  <1>4. CASE SetPaused(t)
    <2>1. PICK reason \in {"user", "budget"} :
            \/ Write(j, PausedRow(job[j], reason)) /\ Stop(t) /\ UNCHANGED fate
            \/ Stop(t) /\ UNCHANGED <<job, fate>>
            \/ EndJob(t, "cancelled", "cancelled_by_user")
      BY <1>0, <1>4 DEF SetPaused
    <2> DEFINE row == PausedRow(job[j], reason)
    <2>2. row.status \in Parked /\ row.queue = job[j].queue /\ row.resume = <<>>
      BY <1>0 DEF PausedRow, IsRecord, Columns, Parked
    <2>3. "cancelled" \in Terminal /\ "cancelled_by_user" \in Results \ {NoVerdict}
      BY DEF Terminal, Results, NoVerdict
    <2> HIDE DEF row
    <2> QED
      BY <1>1, <1>3, <2>1, <2>2, <2>3, StopOnce, EndOnce DEF row
  <1>5. CASE SetAwaitingConfirmation(t)
    <2> DEFINE row == AwaitingRow(job[j])
    <2>1. Write(j, row) \/ UNCHANGED job
      BY <1>0, <1>5 DEF SetAwaitingConfirmation
    <2>2. row.status \in Parked /\ row.queue = job[j].queue /\ row.resume = <<>>
      BY <1>0 DEF AwaitingRow, IsRecord, Columns, Parked
    <2>3. Stop(t) /\ UNCHANGED fate
      BY <1>5 DEF SetAwaitingConfirmation
    <2> HIDE DEF row
    <2> QED
      BY <1>3, <2>1, <2>2, <2>3, StopOnce
  <1> QED
    BY <1>2, <1>4, <1>5

\* stage_resume_state: what the resolving task carries becomes the snapshot.
LEMMA StageOnce ==
  ASSUME OnceInv, IInv', NEW t \in Tasks, StageResume(t)
  PROVE  OnceInv'
  <1>0. PICK j \in Jobs : j = task[t].job /\ IsRecord(job[j])
    BY OwnRow
  <1>1. CASE Stop(t) /\ UNCHANGED job
    BY <1>1, StopOnce DEF StageResume
  <1> DEFINE row == StagedRow(job[j], task[t].carry)
             x == [task[t] EXCEPT !.pc = "restaged", !.carry = <<>>]
  <1>2. CASE Write(j, row) /\ task' = [task EXCEPT ![t].pc = "restaged", ![t].carry = <<>>]
    <2>1. task[t] \in Task /\ task[t].pc \in AgentPc /\ UNCHANGED fate
      BY DEF OnceInv, IInv, TaskInv, StageResume, AgentPc
    <2>2. x.job = j /\ x.pc = "restaged" /\ x.pc \notin NewPc
      BY <1>0, <2>1 DEF Task, NewPc
    <2>3. task' = [task EXCEPT ![t] = x]
      BY <1>2, <2>1 DEF OnceInv, IInv, TaskInv
    <2>4. /\ row.status \in Parked /\ row.queue = job[j].queue
          /\ row.resume = task[t].carry
      BY <1>0 DEF StagedRow, IsRecord, Columns, Parked
    <2> HIDE DEF row, x
    <2> QED
      BY <1>0, <1>2, <2>1, <2>2, <2>3, <2>4, ParkOnce
  <1> QED
    BY <1>0, <1>1, <1>2 DEF StageResume

\* A claim: the new task carries what it took from the row.
LEMMA ClaimOnce ==
  ASSUME OnceInv, IInv', NEW t \in Tasks, NEW j \in Jobs, NEW pc \in AgentPc,
         NEW carry, NEW row, Write(j, row), StartAgent(t, pc, j, carry), UNCHANGED fate,
         job[j].status \in Parked, row.status = "detached",
         \/ /\ row.queue = <<>>
            /\ Elements(carry) \subseteq Elements(job[j].queue) \cup Elements(job[j].resume)
         \/ row.queue = job[j].queue /\ carry = job[j].resume
  PROVE  OnceInv'
  <1> DEFINE x == [pc |-> pc, job |-> j, carry |-> carry, steps |-> 0]
  <1>1. job'[j] = row /\ \A k \in Jobs \ {j} : job'[k] = job[k]
    BY DEF OnceInv, IInv, RowsInv, Write
  <1>2. x.pc = pc /\ x.job = j /\ x.carry = carry /\ x.pc \notin NewPc
    BY DEF AgentPc, NewPc
  <1>3. task' = [task EXCEPT ![t] = x]
    BY DEF StartAgent
  <1> HIDE DEF x
  <1>4. task'[t] = x /\ \A u \in Tasks \ {t} : task'[u] = task[u]
    BY <1>3 DEF OnceInv, IInv, TaskInv
  <1>5. \A u \in Tasks : AgentOf(u, j)' => u = t
    <2>1. ~Owned(job[j])
      BY DEF Owned, Parked
    <2> QED
      BY <1>4, <2>1 DEF OnceInv, IInv, TaskInv, Fits, AgentOf
  <1>6. Once(j)'
    <2>1. /\ fate[j].applied \subseteq fate[j].accepted /\ fate'[j] = fate[j]
          /\ Elements(job[j].queue) \subseteq Pending(j)
          /\ Elements(job[j].resume) \subseteq Outside(j)
      BY DEF OnceInv, Once
    <2>2. /\ Elements(row.queue) \subseteq Elements(job[j].queue)
          /\ Elements(carry) \subseteq Pending(j) \ Elements(row.queue)
      BY <2>1, NothingInEmpty DEF Outside
    <2>3. job'[j].status \notin Parked
      BY <1>1 DEF Parked
    <2> QED
      BY <1>1, <1>2, <1>4, <1>5, <2>1, <2>2, <2>3 DEF Once, Outside, Pending
  <1> QED
    BY <1>1, <1>2, <1>4, <1>6, OneJobStep

\* claim_resume, claim_confirmation_resume and claim_budget_action.
LEMMA ClaimsOnce ==
  ASSUME OnceInv, IInv', NEW t \in Tasks, NEW j \in Jobs,
         \/ /\ job[j].status = "paused" /\ Write(j, ClaimedRow(job[j])) /\ UNCHANGED fate
            /\ StartAgent(t, "boundary", j, ClaimedCarry(job[j]))
         \/ ClaimConfirmation(t, j)
         \/ \E event : BudgetResume(t, j, event)
  PROVE  OnceInv'
  <1> DEFINE r == job[j]
  <1>1. r \in Row /\ IsRecord(r)
    BY DEF OnceInv, IInv, RowsInv, RowInv
  <1>2. Elements(ClaimedCarry(r)) \subseteq Elements(r.queue) \cup Elements(r.resume)
    BY <1>1, ClaimedElements
  <1>3. {"boundary", "finalizing", "resolving"} \subseteq AgentPc
        /\ {"paused", "awaiting"} \subseteq Parked
    BY DEF AgentPc, Parked
  <1>4. /\ ClaimedRow(r).status = "detached" /\ ClaimedRow(r).queue = <<>>
        /\ ResolvingRow(r).status = "detached" /\ ResolvingRow(r).queue = <<>>
        /\ CountedRow(ResolvingRow(r)).status = "detached"
        /\ CountedRow(ResolvingRow(r)).queue = <<>>
    BY <1>1 DEF ClaimedRow, ResolvingRow, CountedRow, IsRecord, Columns
  <1>5. \A event : /\ BudgetResumedRow(r, event).status = "detached"
                   /\ BudgetResumedRow(r, event).queue = r.queue
    BY <1>1 DEF BudgetResumedRow, IsRecord, Columns
  <1>6. CASE /\ r.status = "paused" /\ Write(j, ClaimedRow(r)) /\ UNCHANGED fate
             /\ StartAgent(t, "boundary", j, ClaimedCarry(r))
    BY <1>2, <1>3, <1>4, <1>6, ClaimOnce
  <1>7. CASE ClaimConfirmation(t, j)
    <2>1. r.status \in Parked /\ UNCHANGED fate
      BY <1>3, <1>7 DEF ClaimConfirmation
    <2>2. CASE /\ StartAgent(t, "resolving", j, ClaimedCarry(r))
               /\ Write(j, CountedRow(ResolvingRow(r)))
      BY <1>2, <1>3, <1>4, <2>1, <2>2, ClaimOnce
    <2>3. CASE Write(j, ResolvingRow(r)) /\ UNCHANGED task
      <3>1. ResolvingRow(r).status \notin Parked
        BY <1>4 DEF Parked
      <3> QED
        BY <1>4, <2>1, <2>3, <3>1, OneRowStep
    <2> QED
      BY <1>7, <2>2, <2>3 DEF ClaimConfirmation
  <1>8. ASSUME NEW event, BudgetResume(t, j, event) PROVE OnceInv'
    <2>1. PICK pc \in {"boundary", "finalizing"} : StartAgent(t, pc, j, r.resume)
      BY <1>8 DEF BudgetResume
    <2>2. /\ r.status \in Parked /\ Write(j, BudgetResumedRow(r, event)) /\ UNCHANGED fate
          /\ pc \in AgentPc
      BY <1>3, <1>8 DEF BudgetResume, BudgetClaimable
    <2> QED
      BY <1>5, <2>1, <2>2, ClaimOnce
  <1> QED
    BY <1>6, <1>7, <1>8

\* resume_agent_job of the task that staged the job.
LEMMA StagedResumeOnce ==
  ASSUME OnceInv, IInv', NEW t \in Tasks, ResumeStaged(t)
  PROVE  OnceInv'
  BY OwnRow, StopOnce, ClaimsOnce DEF ResumeStaged

\* queue_correction: the text is accepted for the first time, so it was nowhere.
LEMMA CorrectedOnce ==
  ASSUME OnceInv, IInv', NEW j \in Jobs, NEW c \in Corrections, QueueCorrection(j, c)
  PROVE  OnceInv'
  <1> DEFINE r == job[j]
             row == CorrectedRow(r, c)
             pushed == Elements(r.queue) \ Elements(Kept(r.queue))
  <1>1. /\ c \notin fate[j].accepted /\ Write(j, row) /\ UNCHANGED task
        /\ fate' = [fate EXCEPT ![j].accepted = @ \cup {c}, ![j].evicted = @ \cup pushed]
    BY DEF QueueCorrection
  <1>2. /\ job \in [Jobs -> Row] /\ fate \in [Jobs -> Fate] /\ IsRecord(r)
        /\ r.queue \in CorrectionQueue
    BY DEF OnceInv, IInv, RowsInv, RowInv, Typed
  <1>3. /\ row.queue = Append(Kept(r.queue), c) /\ row.status = r.status
        /\ row.resume = r.resume
    BY <1>2 DEF CorrectedRow, IsRecord, Columns
  <1> HIDE DEF row, pushed
  <1>4. /\ job'[j] = row /\ \A k \in Jobs \ {j} : job'[k] = job[k] /\ fate'[k] = fate[k]
        /\ fate'[j].accepted = fate[j].accepted \cup {c}
        /\ fate'[j].applied = fate[j].applied
    BY <1>1, <1>2 DEF Write, Fate
  <1>5. Elements(job'[j].queue) \subseteq Elements(r.queue) \cup {c}
    BY <1>2, <1>3, <1>4, CorrectedElements
  <1>6. Once(j)'
    <2>1. Once(j) /\ Pending(j)' = Pending(j) \cup {c} /\ c \notin Pending(j)
      BY <1>1, <1>4 DEF OnceInv, Once, Pending
    <2>2. Outside(j) \subseteq Outside(j)'
      BY <1>5, <2>1 DEF Outside
    <2>3. Elements(job'[j].queue) \subseteq Pending(j)'
      BY <1>5, <2>1 DEF Once
    <2>4. fate'[j].applied \subseteq fate'[j].accepted
      BY <1>4, <2>1 DEF Once
    <2>5. job'[j].status \in Parked => Elements(job'[j].resume) \subseteq Outside(j)'
      BY <1>3, <1>4, <2>1, <2>2 DEF Once
    <2>6. \A t \in Tasks : AgentOf(t, j)' => Elements(task'[t].carry) \subseteq Outside(j)'
      BY <1>1, <2>1, <2>2 DEF Once, AgentOf
    <2> QED
      BY <2>3, <2>4, <2>5, <2>6 DEF Once
  <1> QED
    BY <1>1, <1>4, <1>6, OneJobStep

\* The other controls, time and the sweep: one row, and no task.
LEMMA RowsOnce ==
  ASSUME OnceInv, IInv', NEW j \in Jobs,
         \/ RequestPause(j) \/ RequestCancel(j) \/ DeleteJob(j)
         \/ \E event : BudgetCancel(j, event)
         \/ SweepStep(j) \/ TimePasses(j)
  PROVE  OnceInv'
  <1> DEFINE r == job[j]
  <1>1. IsRecord(r) /\ UNCHANGED <<task, fate>>
    BY DEF OnceInv, IInv, RowsInv, RowInv, RequestPause, RequestCancel, DeleteJob, BudgetCancel,
           SweepStep, SweepStaleActive, SweepCancelPaused, PurgeTerminal, TimePasses
  <1>2. ASSUME NEW row, Write(j, row), Waiting(r, row) PROVE OnceInv'
    BY <1>1, <1>2, OneRowStep
  <1>3. ASSUME NEW row, Write(j, row), row.status \in Terminal,
               row.queue = r.queue \/ row.queue = <<>>
        PROVE  OnceInv'
    BY <1>1, <1>3, OneRowStep DEF Terminal, Parked
  <1>4. CASE Write(j, Removed(r))
    <2>1. Removed(r).status \notin Parked /\ Removed(r).queue = <<>>
      BY DEF Removed, EmptyRow, Parked
    <2> QED
      BY <1>1, <1>4, <2>1, OneRowStep
  <1>5. \/ Write(j, PauseRequestedRow(r)) \/ Write(j, [r EXCEPT !.age = @ + 1])
        \/ Write(j, Removed(r))
        \/ r.status \in Live /\ Write(j, AfterCancel(r))
        \/ Write(j, InterruptedRow(r)) \/ Write(j, TimedOutRow(r))
        \/ \E event : Write(j, BudgetCancelledRow(r, event))
    BY DEF RequestPause, RequestCancel, DeleteJob, BudgetCancel, SweepStep, SweepStaleActive,
           SweepCancelPaused, PurgeTerminal, TimePasses
  <1>6. CASE Write(j, PauseRequestedRow(r)) \/ Write(j, [r EXCEPT !.age = @ + 1])
    BY <1>1, <1>2, <1>6, SameColumns
  <1>7. CASE r.status \in Live /\ Write(j, AfterCancel(r))
    <2>1. CASE r.status = "detached"
      BY <1>1, <1>2, <1>7, <2>1, SameColumns
    <2>2. CASE r.status # "detached"
      BY <1>1, <1>3, <1>7, <2>2, EndingColumns DEF AfterCancel
    <2> QED
      BY <2>1, <2>2
  <1>8. CASE Write(j, TimedOutRow(r))
    <2>1. CASE r.status \in Parked
      BY <1>1, <1>3, <1>8, <2>1, EndingColumns
    <2>2. CASE r.status \notin Parked
      BY <1>2, <1>8, <2>2 DEF TimedOutRow, Waiting
    <2> QED
      BY <2>1, <2>2
  <1>9. CASE Write(j, InterruptedRow(r)) \/ \E event : Write(j, BudgetCancelledRow(r, event))
    BY <1>1, <1>3, <1>9, EndingColumns
  <1> QED
    BY <1>4, <1>5, <1>6, <1>7, <1>8, <1>9

-----------------------------------------------------------------------------
(***************************************************************************)
(* The invariant, and what follows from it.                                *)
(***************************************************************************)

\* Nothing has been sent yet.
LEMMA InitOnce == Init => OnceInv
  <1> SUFFICES ASSUME Init PROVE OnceInv
    OBVIOUS
  <1>1. \A t \in Tasks : task[t].pc \notin AgentPc \cup NewPc
    BY DEF Init, AgentPc, NewPc
  <1>2. \A j \in Jobs : /\ job[j].status \notin Parked /\ job[j].queue = <<>>
                        /\ fate[j].applied = {}
    BY DEF Init, EmptyRow, Parked
  <1> QED
    BY <1>1, <1>2, InitInv, NothingInEmpty DEF OnceInv, NewCarryInv, Once, AgentOf

\* Every step keeps each text in at most one place.
LEMMA NextOnce ==
  ASSUME OnceInv, [Next]_vars
  PROVE  OnceInv'
  <1>1. IInv'
    BY NextInv DEF OnceInv
  <1>2. ASSUME NEW t \in Tasks, TaskStep(t) PROVE OnceInv'
    BY <1>1, <1>2, NewTurnOnce, DetachOnce, DrainOnce, LoopOnce, OutcomeOnce, StageOnce,
       StagedResumeOnce
       DEF TaskStep
  <1>3. ASSUME NEW t \in Tasks, Crash(t) PROVE OnceInv'
    BY <1>1, <1>3, StopOnce DEF Crash
  <1>4. ASSUME NEW j \in Jobs, UserStep(j) PROVE OnceInv'
    <2>1. ASSUME NEW t \in Tasks, Resume(t, j) PROVE OnceInv'
      BY <1>1, <2>1, ClaimsOnce DEF Resume
    <2> QED
      BY <1>1, <1>4, <2>1, StartOnce, ClaimsOnce, CorrectedOnce, RowsOnce DEF UserStep
  <1>5. ASSUME NEW j \in Jobs, SweepStep(j) \/ TimePasses(j) PROVE OnceInv'
    BY <1>1, <1>5, RowsOnce
  <1>6. CASE SweepListPaused \/ UNCHANGED vars
    <2>1. UNCHANGED <<job, task, fate>>
      BY <1>6 DEF SweepListPaused, vars
    <2> QED
      BY <1>1, <2>1 DEF OnceInv, NewCarryInv, Once, Outside, Pending, AgentOf
  <1> QED
    BY <1>2, <1>3, <1>4, <1>5, <1>6 DEF Next

\* Whatever waits was accepted and not yet applied, in every reachable state.
THEOREM CorrectionInvariance == Spec => []OnceInv
  <1>1. Init => OnceInv
    BY InitOnce
  <1>2. OnceInv /\ [Next]_vars => OnceInv'
    BY NextOnce
  <1> QED
    BY <1>1, <1>2, PTL DEF Spec

\* A correction never waits in two places, nor anywhere after it was applied: the
\* agent gets it at most once, however claims, pauses, confirmations, sweeps and
\* crashes interleave.
THEOREM CorrectionsGivenOnce == Spec => []CorrectionOnce
  <1>1. ASSUME OnceInv PROVE CorrectionOnce
    <2> SUFFICES ASSUME NEW j \in Jobs
                 PROVE  LET waiting == WaitingCorrections(j) IN
                        /\ \A p, q \in DOMAIN waiting : p # q => waiting[p] \cap waiting[q] = {}
                        /\ \A p \in DOMAIN waiting : waiting[p] \cap fate[j].applied = {}
      BY DEF CorrectionOnce
    <2> DEFINE waiting == WaitingCorrections(j)
    <2>1. DOMAIN waiting = {"row", "saved", "task"}
      BY DEF WaitingCorrections
    <2>2. Once(j)
      BY <1>1 DEF OnceInv
    <2>3. waiting.row = Elements(job[j].queue)
      BY DEF WaitingCorrections
    <2>4. waiting.saved \subseteq Outside(j)
      BY <2>2 DEF WaitingCorrections, Once
    <2>5. waiting.task \subseteq Outside(j)
      BY <2>2 DEF WaitingCorrections, Once
    <2>6. waiting.saved = {} \/ waiting.task = {}
      <3>1. CASE job[j].status \in Parked
        <4>1. ~Owned(job[j])
          BY <3>1 DEF Owned, Parked
        <4>2. \A t \in Tasks : ~AgentOf(t, j)
          BY <1>1, <4>1 DEF OnceInv, IInv, TaskInv, Fits, AgentOf
        <4> QED
          BY <4>2 DEF WaitingCorrections
      <3> QED
        BY <3>1 DEF WaitingCorrections
    <2> HIDE DEF waiting
    <2> QED
      BY <2>1, <2>2, <2>3, <2>4, <2>5, <2>6 DEF Once, Outside, Pending, waiting
  <1> QED
    BY <1>1, CorrectionInvariance, PTL

-----------------------------------------------------------------------------
(***************************************************************************)
(* Where a correction may be lost.  NoCorrectionLost does not hold; what   *)
(* follows says of every step that may lose one which it is.               *)
(***************************************************************************)
Somewhere(j) == LET waiting == WaitingCorrections(j)
                IN  waiting.row \cup waiting.saved \cup waiting.task

\* A claim prefers the queue to what the snapshot carries (claim_resume): a text
\* that was carried over a confirmation is overtaken by one that came after it.
Overtaken(j, c) ==
    /\ job[j].status = "paused" /\ job'[j].status = "detached"
    /\ c \in Elements(job[j].resume) /\ job[j].queue # <<>>

\* A job that goes on with its steps used up parks again before it drains.
SpentAtOnce(j, c) ==
    /\ job'[j].status = "paused"
    /\ \E t \in Tasks :
          AgentOf(t, j) /\ task[t].pc = "overBudget" /\ c \in Elements(task[t].carry)

\* The worker dies with the task, or before there is one (claim_confirmation_resume).
LostWithWorker(j, c) ==
    /\ Crashes
    /\ \/ \E t \in Tasks :
             AgentOf(t, j) /\ task'[t].pc = "idle" /\ c \in Elements(task[t].carry)
       \/ /\ job[j].status = "awaiting" /\ job'[j].status = "detached"
          /\ \A t \in Tasks : ~AgentOf(t, j)'

\* A text that is accepted waits, and one that waits for a job which goes on and
\* is not asked to cancel keeps waiting, is given to the agent, or is pushed out
\* of the full queue, but for the three ways above.
AccountedFor(j, c) ==
    /\ c \in fate'[j].accepted \ fate[j].accepted => c \in Somewhere(j)'
    /\ c \in Somewhere(j) /\ job'[j].status \in Live /\ ~job'[j].cancelReq
       => \/ c \in Somewhere(j)' \cup fate'[j].applied \cup fate'[j].evicted
          \/ Overtaken(j, c) \/ SpentAtOnce(j, c) \/ LostWithWorker(j, c)

Accounted == \A j \in Jobs : \A c \in Corrections : AccountedFor(j, c)

\* Who carries texts has not drained yet or will not any more, and a confirmation
\* is asked only after a drain.
CarryPc == {"boundary", "resolving", "overBudget", "finalizing", "finishing", "failing"}

CarriersInv ==
    /\ \A t \in Tasks : task[t].carry # <<>> => task[t].pc \in CarryPc
    /\ \A j \in Jobs : job[j].status = "awaiting" => job[j].resume = <<>>

Traced == CarriersInv' /\ Accounted

\* The three places, before and after a step.
LEMMA Places ==
  ASSUME NEW j, NEW c
  PROVE  /\ c \in Somewhere(j) <=>
              \/ c \in Elements(job[j].queue)
              \/ job[j].status \in Parked /\ c \in Elements(job[j].resume)
              \/ \E t \in Tasks : AgentOf(t, j) /\ c \in Elements(task[t].carry)
         /\ c \in Somewhere(j)' <=>
              \/ c \in Elements(job'[j].queue)
              \/ job'[j].status \in Parked /\ c \in Elements(job'[j].resume)
              \/ \E t \in Tasks : AgentOf(t, j)' /\ c \in Elements(task'[t].carry)
  BY DEF Somewhere, WaitingCorrections

\* The job ends or is asked to: nothing is promised of its texts any more.
LEMMA EndTraced ==
  ASSUME NEW j, NEW c, fate'[j] = fate[j], job'[j].status \notin Live \/ job'[j].cancelReq
  PROVE  AccountedFor(j, c)
  BY DEF AccountedFor

\* Row and agents keep what they hold.
LEMMA QuietTraced ==
  ASSUME NEW j, NEW c, fate'[j] = fate[j], Waiting(job[j], job'[j]),
         \A t \in Tasks : AgentOf(t, j) =>
            \/ AgentOf(t, j)' /\ task'[t].carry = task[t].carry
            \/ task[t].carry = <<>>
  PROVE  AccountedFor(j, c)
  <1>1. ASSUME c \in Somewhere(j) PROVE c \in Somewhere(j)'
    <2>1. CASE \E t \in Tasks : AgentOf(t, j) /\ c \in Elements(task[t].carry)
      <3>1. PICK t \in Tasks : AgentOf(t, j) /\ c \in Elements(task[t].carry)
        BY <2>1
      <3>2. AgentOf(t, j)' /\ task'[t].carry = task[t].carry
        BY <3>1, NothingInEmpty
      <3> QED
        BY <3>1, <3>2, Places
    <2> QED
      BY <1>1, <2>1, Places DEF Waiting
  <1> QED
    BY <1>1 DEF AccountedFor

\* It is enough to look at the job a step is about.
LEMMA OneJobTraced ==
  ASSUME CarriersInv, NEW j \in Jobs,
         \A k \in Jobs \ {j} : /\ job'[k] = job[k] \/ job'[k].status = "gone"
                               /\ fate'[k] = fate[k],
         \A u \in Tasks : \/ task'[u] = task[u]
                          \/ /\ task[u].pc \in AgentPc => task[u].job = j
                             /\ task'[u].carry # <<>> => task'[u].pc \in CarryPc,
         job'[j].status = "awaiting" => job'[j].resume = <<>>,
         \A c \in Corrections : AccountedFor(j, c)
  PROVE  Traced
  <1>1. ASSUME NEW k \in Jobs \ {j}, NEW c \in Corrections PROVE AccountedFor(k, c)
    <2>1. CASE job'[k] = job[k]
      <3>1. Waiting(job[k], job'[k])
        BY <2>1 DEF Waiting
      <3>2. \A u \in Tasks : AgentOf(u, k) => AgentOf(u, k)' /\ task'[u].carry = task[u].carry
        BY DEF AgentOf
      <3> QED
        BY <3>1, <3>2, QuietTraced
    <2>2. CASE job'[k].status = "gone"
      BY <2>2, EndTraced DEF Live, Parked
    <2> QED
      BY <2>1, <2>2
  <1>2. CarriersInv'
    BY DEF CarriersInv
  <1> QED
    BY <1>1, <1>2 DEF Traced, Accounted

\* A row is written and no task changes.
LEMMA RowTraced ==
  ASSUME IInv, CarriersInv, NEW j \in Jobs, NEW row, Write(j, row), UNCHANGED <<task, fate>>,
         Waiting(job[j], row) \/ row.status \notin Live
  PROVE  Traced
  <1>1. job'[j] = row /\ \A k \in Jobs \ {j} : job'[k] = job[k]
    BY DEF IInv, RowsInv, Write
  <1>2. \A t \in Tasks : AgentOf(t, j) => AgentOf(t, j)' /\ task'[t].carry = task[t].carry
    BY DEF AgentOf
  <1>3. \A c \in Corrections : AccountedFor(j, c)
    BY <1>1, <1>2, QuietTraced, EndTraced
  <1>4. job'[j].status = "awaiting" => job'[j].resume = <<>>
    BY <1>1 DEF CarriersInv, Waiting, Live, Parked
  <1> QED
    BY <1>1, <1>3, <1>4, OneJobTraced

\* A task of job j changes: it goes on with what it carries, or carried nothing,
\* or the job ends.
LEMMA TaskTraced ==
  ASSUME IInv, CarriersInv, NEW t \in Tasks, NEW j \in Jobs, task[t].pc \in AgentPc => task[t].job = j,
         NEW x, task' = [task EXCEPT ![t] = x],
         x.carry # <<>> => x.pc \in CarryPc,
         \A k \in Jobs \ {j} : job'[k] = job[k] \/ job'[k].status = "gone",
         UNCHANGED fate,
         \/ /\ Waiting(job[j], job'[j])
            /\ \/ x.job = j /\ x.pc \in AgentPc /\ x.carry = task[t].carry
               \/ task[t].carry = <<>>
         \/ job'[j].status \notin Live
         \/ job'[j].cancelReq /\ job'[j] = job[j]
  PROVE  Traced
  <1>1. task'[t] = x /\ \A u \in Tasks \ {t} : task'[u] = task[u]
    BY DEF IInv, TaskInv
  <1>2. ASSUME NEW c \in Corrections PROVE AccountedFor(j, c)
    <2>1. CASE job'[j].status \notin Live \/ job'[j].cancelReq
      BY <2>1, EndTraced
    <2>2. CASE /\ Waiting(job[j], job'[j])
               /\ \/ x.job = j /\ x.pc \in AgentPc /\ x.carry = task[t].carry
                  \/ task[t].carry = <<>>
      <3>1. \A u \in Tasks : AgentOf(u, j) =>
              \/ AgentOf(u, j)' /\ task'[u].carry = task[u].carry
              \/ task[u].carry = <<>>
        BY <1>1, <2>2 DEF AgentOf
      <3> QED
        BY <2>2, <3>1, QuietTraced
    <2> QED
      BY <2>1, <2>2
  <1>3. job'[j].status = "awaiting" => job'[j].resume = <<>>
    BY DEF CarriersInv, Waiting, Live, Parked
  <1> QED
    BY <1>1, <1>2, <1>3, OneJobTraced

\* A task stops that carried nothing, or whose job goes on no more.
LEMMA StopTraced ==
  ASSUME IInv, CarriersInv, NEW t \in Tasks, Stop(t), UNCHANGED <<job, fate>>,
         \/ task[t].carry = <<>>
         \/ job[task[t].job].status \notin Live
         \/ job[task[t].job].cancelReq
  PROVE  Traced
  <1>1. PICK j \in Jobs : j = task[t].job
    BY DEF IInv, TaskInv, Task
  <1>2. PICK x : x.pc = "idle" /\ x.carry = <<>> /\ task' = [task EXCEPT ![t] = x]
    BY SlotCarries
  <1>3. Waiting(job[j], job'[j])
    BY DEF Waiting
  <1> QED
    BY <1>1, <1>2, <1>3, TaskTraced

\* The agent loop, except for its drain: who carries texts and goes on keeps them.
LEMMA LoopTraced ==
  ASSUME IInv, CarriersInv, NEW t \in Tasks,
         \/ Checkpoint(t) \/ PauseCheck(t) \/ ModelCall(t) \/ ToolCall(t)
         \/ LoopExhausted(t) \/ Finalize(t)
  PROVE  Traced
  <1>0. PICK j \in Jobs : j = task[t].job /\ IsRecord(job[j])
    BY DEF IInv, TaskInv, Task, RowsInv, RowInv
  <1>1. PICK pc \in AgentPc :
          /\ Go(t, pc) \/ task' = [task EXCEPT ![t].pc = pc, ![t].steps = @ + 1]
          /\ task[t].pc \in CarryPc => pc \in CarryPc
    BY DEF Checkpoint, PauseCheck, ModelCall, ToolCall, LoopExhausted, Finalize, AgentPc, CarryPc
  <1>2. PICK x : /\ x.pc = pc /\ x.job = j /\ x.carry = task[t].carry
                 /\ task' = [task EXCEPT ![t] = x]
    BY <1>0, <1>1, SlotCarries
  <1>3. /\ UNCHANGED fate
        /\ \/ UNCHANGED job
           \/ \E row \in {Touched(job[j]), PauseRefused(job[j])} : Write(j, row)
    BY <1>0 DEF Checkpoint, PauseCheck, ModelCall, ToolCall, LoopExhausted, Finalize
  <1>4. Waiting(job[j], job'[j]) /\ \A k \in Jobs \ {j} : job'[k] = job[k]
    BY <1>0, <1>3, SameColumns DEF Write, IInv, RowsInv, Waiting
  <1>5. x.carry # <<>> => x.pc \in CarryPc
    BY <1>1, <1>2 DEF CarriersInv
  <1> QED
    BY <1>0, <1>2, <1>3, <1>4, <1>5, TaskTraced

\* drain_corrections gives the agent all that waited.
LEMMA DrainTraced ==
  ASSUME IInv, CarriersInv, NEW t \in Tasks, DrainCorrections(t)
  PROVE  Traced
  <1>0. PICK j \in Jobs : j = task[t].job
    BY DEF IInv, TaskInv, Task
  <1> DEFINE found == Elements(task[t].carry) \cup Elements(job[j].queue)
             pc == IF found = {} THEN "pauseCheck" ELSE "corrected"
  <1>1. /\ task[t].pc = "boundary" /\ Write(j, Drained(job[j]))
        /\ task' = [task EXCEPT ![t].carry = <<>>, ![t].pc = pc]
        /\ fate' = [fate EXCEPT ![j].applied = @ \cup found]
    BY <1>0 DEF DrainCorrections
  <1>2. /\ Owned(job[j]) /\ AgentOf(t, j) /\ IsRecord(job[j])
        /\ task \in [Tasks -> Task] /\ fate \in [Jobs -> Fate] /\ job \in [Jobs -> Row]
    BY <1>0, <1>1, AgentFacts DEF IInv, RowsInv, RowInv, TaskInv, AgentOf, AgentPc
  <1>3. task'[t].carry = <<>> /\ \A u \in Tasks \ {t} : task'[u] = task[u]
    BY <1>1, <1>2 DEF Task
  <1>4. /\ \A k \in Jobs \ {j} : job'[k] = job[k] /\ fate'[k] = fate[k]
        /\ fate'[j].applied = fate[j].applied \cup found
        /\ fate'[j].accepted = fate[j].accepted
    BY <1>1, <1>2 DEF Write, Fate
  <1>5. job'[j].status \notin Parked
    BY <1>1, <1>2 DEF Write, Drained, IsRecord, Columns, Owned, Parked
  <1>6. ASSUME NEW c \in Corrections PROVE AccountedFor(j, c)
    <2>1. ASSUME NEW u \in Tasks, AgentOf(u, j) PROVE u = t
      BY <1>2, <2>1 DEF IInv, TaskInv, Busy, AgentOf
    <2>2. job[j].status \notin Parked
      BY <1>2 DEF Owned, Parked
    <2>3. c \in Somewhere(j) => c \in found
      BY <2>1, <2>2, Places
    <2> HIDE DEF found
    <2> QED
      BY <1>4, <2>3 DEF AccountedFor
  <1>7. job'[j].status # "awaiting"
    BY <1>5 DEF Parked
  <1> QED
    BY <1>0, <1>3, <1>4, <1>6, <1>7, OneJobTraced

\* process() and its turn: before the row there is nothing to lose.
LEMMA NewTurnTraced ==
  ASSUME IInv, CarriersInv, NEW t \in Tasks, AttachedReturns(t) \/ Answer(t) \/ Detach(t)
  PROVE  Traced
  <1>0. PICK j \in Jobs : j = task[t].job
    BY DEF IInv, TaskInv, Task
  <1>1. task[t].pc \in NewPc /\ task[t].pc \notin CarryPc /\ UNCHANGED fate
    BY DEF AttachedReturns, Answer, Detach, NewPc, CarryPc
  <1>2. task[t].carry = <<>> /\ job[j].status = "none"
    BY <1>0, <1>1 DEF CarriersInv, IInv, TaskInv, Fits
  <1>3. Stop(t) \/ \E pc : Go(t, pc)
    BY DEF AttachedReturns, Answer, Detach
  <1>4. PICK x : x.carry = <<>> /\ task' = [task EXCEPT ![t] = x]
    BY <1>2, <1>3, SlotCarries
  <1>5. CASE AttachedReturns(t) \/ Answer(t)
    <2>1. UNCHANGED job
      BY <1>5 DEF AttachedReturns, Answer
    <2> QED
      BY <1>0, <1>1, <1>2, <1>4, <2>1, TaskTraced DEF Waiting
  <1>6. CASE Detach(t)
    <2>0. job' \in UserCapResults([job EXCEPT ![j] = DetachedRow])
      BY <1>0, <1>6 DEF Detach
    <2>1. RowInv(DetachedRow)
      BY NewRows
    <2>2. DetachedRow.status = "detached"
      BY DEF DetachedRow, EmptyRow
    <2>3. /\ job'[j] = DetachedRow
          /\ \A k \in Jobs \ {j} : job'[k] = job[k] \/ job'[k].status = "gone"
      BY <2>0, <2>1, <2>2, CapInv DEF IInv, Terminal
    <2>4. task'[t] = x /\ \A u \in Tasks \ {t} : task'[u] = task[u]
      BY <1>4 DEF IInv, TaskInv
    <2>5. \A c \in Corrections : c \notin Somewhere(j)
      <3>1. job[j].queue = <<>> /\ job[j].status \notin Parked /\ ~Owned(job[j])
        BY <1>2, GoneIsEmpty DEF IInv, Parked, Owned
      <3>2. \A u \in Tasks : ~AgentOf(u, j)
        BY <3>1 DEF IInv, TaskInv, Fits, AgentOf
      <3> QED
        BY <3>1, <3>2, NothingInEmpty, Places
    <2>6. \A c \in Corrections : AccountedFor(j, c)
      BY <1>1, <2>5 DEF AccountedFor
    <2> QED
      BY <1>0, <1>1, <1>4, <2>2, <2>3, <2>4, <2>6, OneJobTraced
  <1> QED
    BY <1>5, <1>6

\* A new turn draws an id without a row.
LEMMA StartTraced ==
  ASSUME IInv, CarriersInv, NEW t \in Tasks, NEW j \in Jobs, StartTurn(t, j)
  PROVE  Traced
  <1> DEFINE x == [pc |-> "attached", job |-> j, carry |-> <<>>, steps |-> 0]
  <1>1. /\ task[t].pc \notin AgentPc /\ task[t].pc \notin CarryPc /\ UNCHANGED <<job, fate>>
        /\ task' = [task EXCEPT ![t] = x]
    BY DEF StartTurn, StartAgent, AgentPc, CarryPc
  <1>2. x.carry = <<>>
    OBVIOUS
  <1> HIDE DEF x
  <1>3. task[t].carry = <<>> /\ Waiting(job[j], job'[j])
    BY <1>1 DEF CarriersInv, Waiting
  <1> QED
    BY <1>1, <1>2, <1>3, TaskTraced

\* set_terminal, and the cap of the user.
LEMMA EndJobTraced ==
  ASSUME IInv, CarriersInv, NEW t \in Tasks, task[t].pc \in AgentPc,
         NEW status \in Terminal, NEW result \in Results \ {NoVerdict},
         EndJob(t, status, result)
  PROVE  Traced
  <1>0. PICK j \in Jobs : j = task[t].job
    BY AgentFacts
  <1> DEFINE row == Ended(job[j], status, result)
  <1>1. /\ UNCHANGED fate /\ job' \in UserCapResults([job EXCEPT ![j] = row])
        /\ RowInv(job[j]) /\ Owned(job[j])
    BY <1>0, AgentFacts DEF EndJob
  <1>2. PICK x : x.carry = <<>> /\ task' = [task EXCEPT ![t] = x]
    BY SlotCarries DEF EndJob
  <1>3. RowInv(row)
    BY <1>1, EndedInv
  <1>4. row.status \notin Live
    BY <1>1 DEF Ended, RowInv, IsRecord, Columns, Owned, Stored, Live, Parked, Terminal
  <1> HIDE DEF row
  <1>5. /\ job'[j] = row \/ job'[j].status = "gone"
        /\ \A k \in Jobs \ {j} : job'[k] = job[k] \/ job'[k].status = "gone"
    BY <1>1, <1>3, CapInv DEF IInv
  <1>6. job'[j].status \notin Live
    BY <1>4, <1>5 DEF Live, Parked
  <1> QED
    BY <1>0, <1>1, <1>2, <1>5, <1>6, TaskTraced

\* A write that parks the job of an agent: what it carried goes into the snapshot,
\* or the steps of the job were used up before it drained.
LEMMA ParkTraced ==
  ASSUME IInv, CarriersInv, NEW t \in Tasks, task[t].pc \in AgentPc,
         NEW j \in Jobs, j = task[t].job, NEW row, Write(j, row), UNCHANGED fate,
         job[j].status = "detached", row.status \in Parked, row.queue = job[j].queue,
         row.status = "awaiting" => row.resume = <<>>,
         \/ row.resume = task[t].carry
         \/ task[t].carry = <<>>
         \/ row.status = "paused" /\ task[t].pc = "overBudget",
         NEW x, task' = [task EXCEPT ![t] = x], x.carry = <<>>
  PROVE  Traced
  <1>1. job'[j] = row /\ \A k \in Jobs \ {j} : job'[k] = job[k]
    BY DEF IInv, RowsInv, Write
  <1>2. task'[t] = x /\ \A u \in Tasks \ {t} : task'[u] = task[u]
    BY DEF IInv, TaskInv
  <1>3. ASSUME NEW u \in Tasks, AgentOf(u, j) PROVE u = t
    BY <1>3 DEF IInv, TaskInv, Busy, AgentOf
  <1>4. ASSUME NEW c \in Corrections, c \in Somewhere(j)
        PROVE  c \in Somewhere(j)' \/ SpentAtOnce(j, c)
    <2>1. c \in Elements(job[j].queue) \/ c \in Elements(task[t].carry)
      BY <1>3, <1>4, Places DEF Parked
    <2>2. CASE c \in Elements(job[j].queue)
      BY <1>1, <2>2, Places
    <2>3. CASE c \in Elements(task[t].carry)
      <3>1. AgentOf(t, j) /\ task[t].carry # <<>>
        BY <2>3, NothingInEmpty DEF AgentOf
      <3>2. CASE row.resume = task[t].carry
        BY <1>1, <2>3, <3>2, Places
      <3>3. CASE row.status = "paused" /\ task[t].pc = "overBudget"
        BY <1>1, <2>3, <3>1, <3>3 DEF SpentAtOnce
      <3> QED
        BY <3>1, <3>2, <3>3
    <2> QED
      BY <2>1, <2>2, <2>3
  <1>5. \A c \in Corrections : AccountedFor(j, c)
    BY <1>4 DEF AccountedFor
  <1> QED
    BY <1>1, <1>2, <1>5, OneJobTraced

\* The store's answer to the outcome of an agent.
LEMMA OutcomeTraced ==
  ASSUME IInv, CarriersInv, NEW t \in Tasks,
         \/ Finish(t) \/ Fail(t) \/ StepCancel(t) \/ ResolutionFails(t)
         \/ SetPaused(t) \/ SetAwaitingConfirmation(t)
  PROVE  Traced
  <1>1. task[t].pc \in AgentPc
    BY DEF Finish, Fail, StepCancel, ResolutionFails, SetPaused, SetAwaitingConfirmation, AgentPc
  <1>0. PICK j \in Jobs : j = task[t].job /\ IsRecord(job[j]) /\ Owned(job[j])
    BY <1>1, AgentFacts DEF RowInv
  <1>2. CASE Finish(t) \/ Fail(t) \/ StepCancel(t) \/ ResolutionFails(t)
    <2>1. \/ EndJob(t, "done", "answer") \/ EndJob(t, "error", "failure")
          \/ EndJob(t, "cancelled", "cancelled_by_user")
      BY <1>2 DEF Finish, Fail, StepCancel, ResolutionFails
    <2>2. /\ {"done", "error", "cancelled"} \subseteq Terminal
          /\ {"answer", "failure", "cancelled_by_user"} \subseteq Results \ {NoVerdict}
      BY DEF Terminal, Results, NoVerdict
    <2> QED
      BY <1>1, <2>1, <2>2, EndJobTraced
  <1>3. CASE SetPaused(t)
    <2>1. PICK reason \in {"user", "budget"} :
            \/ /\ Parkable(job[j]) /\ Write(j, PausedRow(job[j], reason))
               /\ Stop(t) /\ UNCHANGED fate
            \/ /\ ~Parkable(job[j]) /\ ~job[j].cancelReq
               /\ Stop(t) /\ UNCHANGED <<job, fate>>
            \/ EndJob(t, "cancelled", "cancelled_by_user")
      BY <1>0, <1>3 DEF SetPaused
    <2> DEFINE row == PausedRow(job[j], reason)
    <2>2. row.status = "paused" /\ row.queue = job[j].queue
      BY <1>0 DEF PausedRow, IsRecord, Columns
    <2>3. "cancelled" \in Terminal /\ "cancelled_by_user" \in Results \ {NoVerdict}
      BY DEF Terminal, Results, NoVerdict
    <2>4. task[t].carry = <<>> \/ task[t].pc = "overBudget"
      BY <1>3 DEF SetPaused, CarriersInv, CarryPc
    <2> HIDE DEF row
    <2>5. CASE Parkable(job[j]) /\ Write(j, row) /\ Stop(t) /\ UNCHANGED fate
      <3>1. PICK x : x.carry = <<>> /\ task' = [task EXCEPT ![t] = x]
        BY <2>5, SlotCarries
      <3>2. job[j].status = "detached" /\ row.status \in Parked
        BY <2>2, <2>5 DEF Parkable, Parked
      <3> QED
        BY <1>0, <1>1, <2>2, <2>4, <2>5, <3>1, <3>2, ParkTraced
    <2>6. CASE /\ ~Parkable(job[j]) /\ ~job[j].cancelReq
               /\ Stop(t) /\ UNCHANGED <<job, fate>>
      <3>1. job[j].status \notin Live
        BY <1>0, <2>6 DEF Parkable, Owned, Live, Parked
      <3> QED
        BY <1>0, <2>6, <3>1, StopTraced
    <2> QED
      BY <1>1, <2>1, <2>3, <2>5, <2>6, EndJobTraced DEF row
  <1>4. CASE SetAwaitingConfirmation(t)
    <2> DEFINE row == AwaitingRow(job[j])
    <2>1. /\ (Parkable(job[j]) /\ Write(j, row)) \/ UNCHANGED job
          /\ Stop(t) /\ UNCHANGED fate /\ task[t].carry = <<>>
      BY <1>0, <1>4 DEF SetAwaitingConfirmation, CarriersInv, CarryPc
    <2>2. row.status = "awaiting" /\ row.queue = job[j].queue /\ row.resume = <<>>
      BY <1>0 DEF AwaitingRow, IsRecord, Columns
    <2> HIDE DEF row
    <2>3. CASE Parkable(job[j]) /\ Write(j, row)
      <3>1. PICK x : x.carry = <<>> /\ task' = [task EXCEPT ![t] = x]
        BY <2>1, SlotCarries
      <3>2. job[j].status = "detached" /\ row.status \in Parked
        BY <2>2, <2>3 DEF Parkable, Parked
      <3> QED
        BY <1>0, <1>1, <2>1, <2>2, <2>3, <3>1, <3>2, ParkTraced
    <2> QED
      BY <2>1, <2>3, StopTraced
  <1> QED
    BY <1>2, <1>3, <1>4

\* stage_resume_state: what the claim handed over becomes the snapshot, or the
\* job was cancelled or swept meanwhile.
LEMMA StageTraced ==
  ASSUME IInv, CarriersInv, NEW t \in Tasks, StageResume(t)
  PROVE  Traced
  <1>1. task[t].pc \in AgentPc /\ task[t] \in Task /\ UNCHANGED fate
    BY DEF StageResume, AgentPc, IInv, TaskInv
  <1>0. PICK j \in Jobs : j = task[t].job /\ IsRecord(job[j]) /\ Owned(job[j])
    BY <1>1, AgentFacts DEF RowInv
  <1>2. CASE ~Parkable(job[j]) /\ Stop(t) /\ UNCHANGED job
    <2>1. job[j].status \notin Live \/ job[j].cancelReq
      BY <1>0, <1>2 DEF Parkable, Owned, Live, Parked
    <2> QED
      BY <1>0, <1>1, <1>2, <2>1, StopTraced
  <1> DEFINE row == StagedRow(job[j], task[t].carry)
             x == [task[t] EXCEPT !.pc = "restaged", !.carry = <<>>]
  <1>3. CASE /\ Parkable(job[j]) /\ Write(j, row)
             /\ task' = [task EXCEPT ![t].pc = "restaged", ![t].carry = <<>>]
    <2>1. x.carry = <<>> /\ task' = [task EXCEPT ![t] = x]
      BY <1>1, <1>3 DEF Task, IInv, TaskInv
    <2>2. /\ row.status = "paused" /\ row.queue = job[j].queue
          /\ row.resume = task[t].carry
      BY <1>0 DEF StagedRow, IsRecord, Columns
    <2>3. job[j].status = "detached" /\ row.status \in Parked
      BY <1>3, <2>2 DEF Parkable, Parked
    <2> HIDE DEF row, x
    <2> QED
      BY <1>0, <1>1, <1>3, <2>1, <2>2, <2>3, ParkTraced
  <1> QED
    BY <1>0, <1>2, <1>3 DEF StageResume

\* A claim hands over all that was in the queue, or else all of the snapshot.
LEMMA ClaimedAll ==
  ASSUME NEW r \in Row
  PROVE  /\ r.queue # <<>> => Elements(ClaimedCarry(r)) = Elements(r.queue)
         /\ r.queue = <<>> => ClaimedCarry(r) = r.resume
  <1>1. Len(r.queue) <= QueueCap
    BY DEF Row, CorrectionQueue
  <1> QED
    BY <1>1 DEF ClaimedCarry, LastOf

\* A claim: what the new task does not get was overtaken.
LEMMA ClaimTraced ==
  ASSUME IInv, CarriersInv, NEW t \in Tasks, task[t].pc \notin AgentPc, NEW j \in Jobs,
         NEW pc \in CarryPc, NEW carry, NEW row,
         Write(j, row), StartAgent(t, pc, j, carry), UNCHANGED fate,
         job[j].status \in Parked, row.status = "detached",
         \/ carry = ClaimedCarry(job[j])
         \/ row.queue = job[j].queue /\ carry = job[j].resume
  PROVE  Traced
  <1> DEFINE x == [pc |-> pc, job |-> j, carry |-> carry, steps |-> 0]
             r == job[j]
  <1>1. /\ job'[j] = row /\ \A k \in Jobs \ {j} : job'[k] = job[k]
        /\ r \in Row
    BY DEF IInv, RowsInv, Write
  <1>2. x.pc = pc /\ x.job = j /\ x.carry = carry /\ task' = [task EXCEPT ![t] = x]
    BY DEF StartAgent
  <1> HIDE DEF x
  <1>3. task'[t] = x /\ \A u \in Tasks \ {t} : task'[u] = task[u]
    BY <1>2 DEF IInv, TaskInv
  <1>4. AgentOf(t, j)' /\ task'[t].carry = carry
    BY <1>2, <1>3 DEF AgentOf, AgentPc, CarryPc
  <1>5. \A u \in Tasks : ~AgentOf(u, j)
    BY DEF Owned, Parked, IInv, TaskInv, Fits, AgentOf
  <1>6. ASSUME NEW c \in Corrections, c \in Somewhere(j)
        PROVE  c \in Somewhere(j)' \/ Overtaken(j, c)
    <2>1. c \in Elements(r.queue) \/ c \in Elements(r.resume)
      BY <1>5, <1>6, Places
    <2>2. CASE row.queue = r.queue /\ carry = r.resume
      BY <1>1, <1>4, <2>1, <2>2, Places
    <2>3. CASE carry = ClaimedCarry(r)
      <3>1. CASE c \in Elements(carry)
        BY <1>4, <3>1, Places
      <3>2. CASE c \notin Elements(carry)
        <4>1. r.queue # <<>> /\ c \notin Elements(r.queue)
          BY <1>1, <2>1, <2>3, <3>2, ClaimedAll, NothingInEmpty
        <4>2. r.status = "paused"
          BY <2>1, <4>1, NothingInEmpty DEF CarriersInv, Parked
        <4> QED
          BY <1>1, <2>1, <4>1, <4>2 DEF Overtaken
      <3> QED
        BY <3>1, <3>2
    <2> QED
      BY <2>2, <2>3
  <1>7. \A c \in Corrections : AccountedFor(j, c)
    BY <1>6 DEF AccountedFor
  <1>8. job'[j].status # "awaiting" /\ x.pc \in CarryPc
    BY <1>1, <1>2
  <1> QED
    BY <1>1, <1>3, <1>7, <1>8, OneJobTraced

\* claim_resume, claim_confirmation_resume and claim_budget_action; a worker that
\* dies between the claim of a confirmation and its count loses the queue.
LEMMA ClaimsTraced ==
  ASSUME IInv, CarriersInv, NEW t \in Tasks, task[t].pc \notin AgentPc, NEW j \in Jobs,
         \/ /\ job[j].status = "paused" /\ Write(j, ClaimedRow(job[j])) /\ UNCHANGED fate
            /\ StartAgent(t, "boundary", j, ClaimedCarry(job[j]))
         \/ ClaimConfirmation(t, j)
         \/ \E event : BudgetResume(t, j, event)
  PROVE  Traced
  <1> DEFINE r == job[j]
  <1>1. r \in Row /\ IsRecord(r)
    BY DEF IInv, RowsInv, RowInv
  <1>2. {"boundary", "finalizing", "resolving"} \subseteq CarryPc
        /\ {"paused", "awaiting"} \subseteq Parked
    BY DEF CarryPc, Parked
  <1>3. /\ ClaimedRow(r).status = "detached"
        /\ ResolvingRow(r).status = "detached"
        /\ CountedRow(ResolvingRow(r)).status = "detached"
    BY <1>1 DEF ClaimedRow, ResolvingRow, CountedRow, IsRecord, Columns
  <1>4. \A event : /\ BudgetResumedRow(r, event).status = "detached"
                   /\ BudgetResumedRow(r, event).queue = r.queue
    BY <1>1 DEF BudgetResumedRow, IsRecord, Columns
  <1>5. CASE /\ r.status = "paused" /\ Write(j, ClaimedRow(r)) /\ UNCHANGED fate
             /\ StartAgent(t, "boundary", j, ClaimedCarry(r))
    BY <1>2, <1>3, <1>5, ClaimTraced
  <1>6. CASE ClaimConfirmation(t, j)
    <2>1. r.status = "awaiting" /\ r.status \in Parked /\ UNCHANGED fate
      BY <1>2, <1>6 DEF ClaimConfirmation
    <2>2. CASE /\ StartAgent(t, "resolving", j, ClaimedCarry(r))
               /\ Write(j, CountedRow(ResolvingRow(r)))
      BY <1>2, <1>3, <2>1, <2>2, ClaimTraced
    <2>3. CASE Crashes /\ Write(j, ResolvingRow(r)) /\ UNCHANGED task
      <3>1. job'[j].status = "detached" /\ \A k \in Jobs \ {j} : job'[k] = job[k]
        BY <1>3, <2>3 DEF Write, IInv, RowsInv
      <3>2. \A u \in Tasks : ~AgentOf(u, j)'
        BY <2>1, <2>3 DEF Owned, Parked, IInv, TaskInv, Fits, AgentOf
      <3>3. \A c \in Corrections : AccountedFor(j, c)
        BY <2>1, <2>3, <3>1, <3>2 DEF AccountedFor, LostWithWorker
      <3> QED
        BY <2>1, <2>3, <3>1, <3>3, OneJobTraced
    <2> QED
      BY <1>6, <2>2, <2>3 DEF ClaimConfirmation
  <1>7. ASSUME NEW event, BudgetResume(t, j, event) PROVE Traced
    <2>1. PICK pc \in {"boundary", "finalizing"} : StartAgent(t, pc, j, r.resume)
      BY <1>7 DEF BudgetResume
    <2>2. /\ r.status \in Parked /\ Write(j, BudgetResumedRow(r, event)) /\ UNCHANGED fate
          /\ pc \in CarryPc
      BY <1>2, <1>7 DEF BudgetResume, BudgetClaimable
    <2> QED
      BY <1>4, <2>1, <2>2, ClaimTraced
  <1> QED
    BY <1>5, <1>6, <1>7

\* resume_agent_job of the task that staged the job.
LEMMA StagedResumeTraced ==
  ASSUME IInv, CarriersInv, NEW t \in Tasks, ResumeStaged(t)
  PROVE  Traced
  <1>1. /\ task[t].pc \notin AgentPc /\ task[t].carry = <<>> /\ task[t].job \in Jobs
        /\ UNCHANGED fate
    BY DEF ResumeStaged, AgentPc, CarriersInv, CarryPc, IInv, TaskInv, Task
  <1> QED
    BY <1>1, ClaimsTraced, StopTraced DEF ResumeStaged

\* queue_correction: the new text waits, and what no longer fits is pushed out.
LEMMA CorrectedTraced ==
  ASSUME IInv, CarriersInv, NEW j \in Jobs, NEW new \in Corrections, QueueCorrection(j, new)
  PROVE  Traced
  <1> DEFINE r == job[j]
             row == CorrectedRow(r, new)
             kept == Kept(r.queue)
             pushed == Elements(r.queue) \ Elements(kept)
  <1>1. /\ Write(j, row) /\ UNCHANGED task
        /\ fate' = [fate EXCEPT ![j].accepted = @ \cup {new}, ![j].evicted = @ \cup pushed]
    BY DEF QueueCorrection
  <1>2. /\ job \in [Jobs -> Row] /\ fate \in [Jobs -> Fate] /\ IsRecord(r)
        /\ r.queue \in CorrectionQueue
    BY DEF IInv, RowsInv, RowInv, Typed
  <1>3. row.queue = Append(kept, new) /\ row.status = r.status /\ row.resume = r.resume
    BY <1>2 DEF CorrectedRow, IsRecord, Columns
  <1>4. kept \in Seq(Corrections)
    <2>1. QueueCap - 1 \in Nat /\ r.queue \in Seq(Corrections)
      BY <1>2, BoundsAssumption DEF CorrectionQueue
    <2> QED
      BY <2>1, LastOfType DEF Kept
  <1> HIDE DEF row, kept, pushed
  <1>5. /\ job'[j] = row /\ \A k \in Jobs \ {j} : job'[k] = job[k] /\ fate'[k] = fate[k]
        /\ fate'[j].accepted = fate[j].accepted \cup {new}
        /\ fate'[j].evicted = fate[j].evicted \cup pushed
    BY <1>1, <1>2 DEF Write, Fate
  <1>6. Elements(job'[j].queue) = Elements(kept) \cup {new}
    <2>1. Elements(Append(kept, new)) = Elements(kept) \cup {new}
      <3>1. Len(Append(kept, new)) = Len(kept) + 1 /\ Len(kept) \in Nat
        BY <1>4
      <3>2. \A i \in 1..Len(kept) : Append(kept, new)[i] = kept[i]
        BY <1>4
      <3>3. Append(kept, new)[Len(kept) + 1] = new
        BY <1>4
      <3> QED
        BY <3>1, <3>2, <3>3 DEF Elements
    <2> QED
      BY <1>3, <1>5, <2>1
  <1>7. ASSUME NEW c \in Corrections, c \in Somewhere(j)
        PROVE  c \in Somewhere(j)' \cup fate'[j].evicted
    <2>1. CASE c \in Elements(r.queue)
      BY <1>5, <1>6, <2>1, Places DEF pushed
    <2>2. CASE r.status \in Parked /\ c \in Elements(r.resume)
      BY <1>3, <1>5, <2>2, Places
    <2>3. CASE \E t \in Tasks : AgentOf(t, j) /\ c \in Elements(task[t].carry)
      BY <1>1, <2>3, Places DEF AgentOf
    <2> QED
      BY <1>7, <2>1, <2>2, <2>3, Places
  <1>8. new \in Somewhere(j)'
    BY <1>6, Places
  <1>9. \A c \in Corrections : AccountedFor(j, c)
    BY <1>5, <1>7, <1>8 DEF AccountedFor
  <1>10. job'[j].status = "awaiting" => job'[j].resume = <<>>
    BY <1>3, <1>5 DEF CarriersInv
  <1> QED
    BY <1>1, <1>5, <1>9, <1>10, OneJobTraced

\* The other controls, time and the sweep: what waits stays, or the job ends.
LEMMA RowsTraced ==
  ASSUME IInv, CarriersInv, NEW j \in Jobs,
         \/ RequestPause(j) \/ RequestCancel(j) \/ DeleteJob(j)
         \/ \E event : BudgetCancel(j, event)
         \/ SweepStep(j) \/ TimePasses(j)
  PROVE  Traced
  <1> DEFINE r == job[j]
  <1>1. IsRecord(r) /\ UNCHANGED <<task, fate>>
    BY DEF IInv, RowsInv, RowInv, RequestPause, RequestCancel, DeleteJob, BudgetCancel,
           SweepStep, SweepStaleActive, SweepCancelPaused, PurgeTerminal, TimePasses
  <1>2. ASSUME NEW row, Write(j, row), Waiting(r, row) \/ row.status \notin Live PROVE Traced
    BY <1>1, <1>2, RowTraced
  <1>3. ASSUME NEW row, Write(j, row), row.status \in Terminal PROVE Traced
    BY <1>2, <1>3 DEF Terminal, Live, Parked
  <1>4. CASE Write(j, Removed(r))
    <2>1. Removed(r).status \notin Live
      BY DEF Removed, EmptyRow, Live, Parked
    <2> QED
      BY <1>2, <1>4, <2>1
  <1>5. \/ Write(j, PauseRequestedRow(r)) \/ Write(j, [r EXCEPT !.age = @ + 1])
        \/ Write(j, Removed(r))
        \/ r.status \in Live /\ Write(j, AfterCancel(r))
        \/ Write(j, InterruptedRow(r)) \/ Write(j, TimedOutRow(r))
        \/ \E event : Write(j, BudgetCancelledRow(r, event))
    BY DEF RequestPause, RequestCancel, DeleteJob, BudgetCancel, SweepStep, SweepStaleActive,
           SweepCancelPaused, PurgeTerminal, TimePasses
  <1>6. CASE Write(j, PauseRequestedRow(r)) \/ Write(j, [r EXCEPT !.age = @ + 1])
    BY <1>1, <1>2, <1>6, SameColumns
  <1>7. CASE r.status \in Live /\ Write(j, AfterCancel(r))
    <2>1. CASE r.status = "detached"
      BY <1>1, <1>2, <1>7, <2>1, SameColumns
    <2>2. CASE r.status # "detached"
      BY <1>1, <1>3, <1>7, <2>2, EndingColumns DEF AfterCancel
    <2> QED
      BY <2>1, <2>2
  <1>8. CASE Write(j, TimedOutRow(r))
    <2>1. CASE r.status \in Parked
      BY <1>1, <1>3, <1>8, <2>1, EndingColumns
    <2>2. CASE r.status \notin Parked
      BY <1>2, <1>8, <2>2 DEF TimedOutRow, Waiting
    <2> QED
      BY <2>1, <2>2
  <1>9. CASE Write(j, InterruptedRow(r)) \/ \E event : Write(j, BudgetCancelledRow(r, event))
    BY <1>1, <1>3, <1>9, EndingColumns
  <1> QED
    BY <1>4, <1>5, <1>6, <1>7, <1>8, <1>9

\* A worker dies with its task and what that carried; the row keeps the rest.
LEMMA CrashTraced ==
  ASSUME IInv, CarriersInv, NEW t \in Tasks, Crash(t)
  PROVE  Traced
  <1>1. PICK j \in Jobs : j = task[t].job
    BY DEF IInv, TaskInv, Task
  <1>2. Crashes /\ UNCHANGED <<job, fate>>
    BY DEF Crash
  <1>3. PICK x : x.pc = "idle" /\ x.carry = <<>> /\ task' = [task EXCEPT ![t] = x]
    BY SlotCarries DEF Crash
  <1>4. task'[t] = x /\ \A u \in Tasks \ {t} : task'[u] = task[u]
    BY <1>3 DEF IInv, TaskInv
  <1>5. ASSUME NEW c \in Corrections, c \in Somewhere(j)
        PROVE  c \in Somewhere(j)' \/ LostWithWorker(j, c)
    <2>1. CASE AgentOf(t, j) /\ c \in Elements(task[t].carry)
      BY <1>2, <1>3, <1>4, <2>1 DEF LostWithWorker
    <2>2. CASE \E u \in Tasks \ {t} : AgentOf(u, j) /\ c \in Elements(task[u].carry)
      BY <1>4, <2>2, Places DEF AgentOf
    <2>3. CASE c \in Elements(job[j].queue) \/ (job[j].status \in Parked /\ c \in Elements(job[j].resume))
      BY <1>2, <2>3, Places
    <2> QED
      BY <1>5, <2>1, <2>2, <2>3, Places
  <1>6. \A c \in Corrections : AccountedFor(j, c)
    BY <1>2, <1>5 DEF AccountedFor
  <1>7. job'[j].status = "awaiting" => job'[j].resume = <<>>
    BY <1>2 DEF CarriersInv
  <1> QED
    BY <1>1, <1>2, <1>3, <1>4, <1>6, <1>7, OneJobTraced

\* Every step accounts for every text of every job.
LEMMA NextTraced ==
  ASSUME IInv, CarriersInv, [Next]_vars
  PROVE  Traced
  <1>1. ASSUME NEW t \in Tasks, TaskStep(t) PROVE Traced
    BY <1>1, NewTurnTraced, DrainTraced, LoopTraced, OutcomeTraced, StageTraced,
       StagedResumeTraced
       DEF TaskStep
  <1>2. ASSUME NEW t \in Tasks, Crash(t) PROVE Traced
    BY <1>2, CrashTraced
  <1>3. ASSUME NEW j \in Jobs, UserStep(j) PROVE Traced
    <2>1. ASSUME NEW t \in Tasks, task[t].pc = "idle" PROVE task[t].pc \notin AgentPc
      BY <2>1 DEF AgentPc
    <2>2. ASSUME NEW t \in Tasks, Resume(t, j) PROVE Traced
      BY <2>1, <2>2, ClaimsTraced DEF Resume
    <2>3. ASSUME NEW t \in Tasks, ClaimConfirmation(t, j) PROVE Traced
      <3>1. task[t].pc \notin AgentPc
        BY <2>1, <2>3 DEF ClaimConfirmation
      <3> QED
        BY <2>3, <3>1, ClaimsTraced
    <2>4. ASSUME NEW t \in Tasks, NEW event, BudgetResume(t, j, event) PROVE Traced
      <3>1. task[t].pc \notin AgentPc
        BY <2>1, <2>4 DEF BudgetResume
      <3> QED
        BY <2>4, <3>1, ClaimsTraced
    <2> QED
      BY <1>3, <2>2, <2>3, <2>4, StartTraced, CorrectedTraced, RowsTraced DEF UserStep
  <1>4. ASSUME NEW j \in Jobs, SweepStep(j) \/ TimePasses(j) PROVE Traced
    BY <1>4, RowsTraced
  <1>5. CASE SweepListPaused \/ UNCHANGED vars
    <2>1. UNCHANGED <<job, task, fate>>
      BY <1>5 DEF SweepListPaused, vars
    <2>2. \A j \in Jobs : \A c \in Corrections : AccountedFor(j, c)
      BY <2>1, QuietTraced DEF Waiting, AgentOf
    <2> QED
      BY <2>1, <2>2 DEF Traced, Accounted, CarriersInv
  <1> QED
    BY <1>1, <1>2, <1>3, <1>4, <1>5 DEF Next

\* Nobody carries anything yet.
LEMMA InitCarriers == Init => CarriersInv
  <1> SUFFICES ASSUME Init PROVE CarriersInv
    OBVIOUS
  <1>1. EmptyRow.status = "none"
    BY DEF EmptyRow
  <1>2. \A j \in Jobs : job[j].status # "awaiting"
    BY <1>1 DEF Init
  <1>3. \A t \in Tasks : task[t].carry = <<>>
    BY DEF Init
  <1> QED
    BY <1>2, <1>3 DEF CarriersInv

\* A correction that was accepted waits until it is given to the agent or pushed
\* out of the full queue, as long as its job goes on and is not asked to cancel:
\* the three ways to lose one that Overtaken, SpentAtOnce and LostWithWorker name
\* are all there are, in whatever order claims, pauses, confirmations and crashes
\* come.
THEOREM CorrectionsAccountedFor == Spec => [][Accounted]_vars
  <1>1. Init => CarriersInv
    BY InitCarriers
  <1>2. IInv /\ CarriersInv /\ [Next]_vars => CarriersInv' /\ Accounted
    BY NextTraced DEF Traced
  <1> QED
    BY <1>1, <1>2, Invariance, PTL DEF Spec

-----------------------------------------------------------------------------
(***************************************************************************)
(* Where the request for a pause may be forgotten: only in a job that is   *)
(* paused because its confirmation was resolved, when the claim of that    *)
(* pause clears the request (claim_resume after stage_resume_state).       *)
(***************************************************************************)
PausesAccounted ==
    \A j \in Jobs :
        job[j].pauseReq /\ ~job'[j].pauseReq
        => \/ job'[j].status # "detached" \/ job'[j].warned
           \/ job[j].status = "paused" /\ job[j].resolved > 0

\* A pause that the loop makes clears the request; one that is staged does not.
PauseFits(r) ==
    r.pauseReq => \/ r.status \in {"detached", "gone"} \cup Terminal
                  \/ r.status = "paused" /\ r.resolved > 0

PauseInv ==
    /\ \A j \in Jobs : PauseFits(job[j])
    /\ \A t \in Tasks : task[t].pc = "resolving" /\ job[task[t].job].status = "detached"
                         => job[task[t].job].resolved > 0

PauseTraced == PauseInv' /\ PausesAccounted

\* What a write may do to the request.
PauseStep(old, new) ==
    /\ PauseFits(new)
    /\ old.pauseReq /\ ~new.pauseReq
       => \/ new.status # "detached" \/ new.warned
          \/ old.status = "paused" /\ old.resolved > 0
    /\ new.status = "detached"
       => \/ old.status \in {"none"} \cup Parked
          \/ old.status = "detached" /\ new.resolved = old.resolved

\* What a write of a working agent, of the user or of the sweep does to it.
LEMMA PauseWrites ==
  ASSUME NEW r, RowInv(r), PauseFits(r)
  PROVE  /\ PauseStep(r, r) /\ PauseStep(r, Touched(r)) /\ PauseStep(r, Drained(r))
         /\ PauseStep(r, PauseRefused(r)) /\ PauseStep(r, [r EXCEPT !.age = @ + 1])
         /\ PauseStep(r, Removed(r)) /\ PauseStep(r, TimedOutRow(r))
         /\ PauseStep(r, InterruptedRow(r))
         /\ r.status = "detached" => PauseStep(r, PauseRequestedRow(r))
         /\ r.status \in Live => PauseStep(r, AfterCancel(r))
         /\ \A c : PauseStep(r, CorrectedRow(r, c))
         /\ \A event : PauseStep(r, BudgetCancelledRow(r, event))
  <1> USE DEF PauseStep, PauseFits
  <1>1. IsRecord(r) /\ r.status \in Status /\ r.resolved \in Nat /\ r.pauseReq \in BOOLEAN
    BY DEF RowInv, Typed
  <1>2. PauseStep(r, r) /\ PauseStep(r, Touched(r)) /\ PauseStep(r, Drained(r))
    BY <1>1 DEF Touched, Drained, IsRecord, Columns, Status, Stored, Live, Terminal, Parked
  <1>3. PauseStep(r, PauseRefused(r)) /\ PauseStep(r, [r EXCEPT !.age = @ + 1])
    BY <1>1 DEF PauseRefused, IsRecord, Columns, Status, Stored, Live, Terminal, Parked
  <1>4. PauseStep(r, Removed(r))
    BY DEF Removed, EmptyRow
  <1>5. PauseStep(r, TimedOutRow(r)) /\ PauseStep(r, InterruptedRow(r))
    BY <1>1 DEF TimedOutRow, InterruptedRow, IsRecord, Columns, Status, Stored, Live, Terminal, Parked
  <1>6. r.status = "detached" => PauseStep(r, PauseRequestedRow(r))
    BY <1>1 DEF PauseRequestedRow, IsRecord, Columns
  <1>7. r.status \in Live => PauseStep(r, AfterCancel(r))
    BY <1>1 DEF AfterCancel, CancelledRow, IsRecord, Columns, Terminal
  <1>8. \A c : PauseStep(r, CorrectedRow(r, c))
    BY <1>1 DEF CorrectedRow, IsRecord, Columns, Status, Stored, Live, Terminal, Parked
  <1>9. \A event : PauseStep(r, BudgetCancelledRow(r, event))
    BY <1>1 DEF BudgetCancelledRow, IsRecord, Columns, Terminal
  <1> QED
    BY <1>2, <1>3, <1>4, <1>5, <1>6, <1>7, <1>8, <1>9

\* The outcomes of an agent, and the claims.
LEMMA PauseOutcomes ==
  ASSUME NEW r, RowInv(r), PauseFits(r)
  PROVE  /\ \A status \in Terminal : \A result : PauseStep(r, Ended(r, status, result))
         /\ \A reason : PauseStep(r, PausedRow(r, reason))
         /\ PauseStep(r, AwaitingRow(r))
         /\ r.status = "detached" /\ r.resolved > 0 =>
               \A carry : PauseStep(r, StagedRow(r, carry))
         /\ r.status = "paused" => PauseStep(r, ClaimedRow(r))
         /\ r.status = "awaiting" =>
               PauseStep(r, ResolvingRow(r)) /\ PauseStep(r, CountedRow(ResolvingRow(r)))
         /\ r.status = "paused" => \A event : PauseStep(r, BudgetResumedRow(r, event))
         /\ CountedRow(ResolvingRow(r)).resolved > 0
  <1> USE DEF PauseStep, PauseFits
  <1>1. IsRecord(r) /\ r.status \in Status /\ r.resolved \in Nat /\ r.pauseReq \in BOOLEAN
    BY DEF RowInv, Typed
  <1>2. \A status \in Terminal : \A result : PauseStep(r, Ended(r, status, result))
    BY <1>1 DEF Ended, IsRecord, Columns, Status, Stored, Live, Terminal, Parked
  <1>3. PauseStep(r, AwaitingRow(r)) /\ \A reason : PauseStep(r, PausedRow(r, reason))
    BY <1>1 DEF AwaitingRow, PausedRow, IsRecord, Columns
  <1>4. r.status = "detached" /\ r.resolved > 0 => \A carry : PauseStep(r, StagedRow(r, carry))
    BY <1>1 DEF StagedRow, IsRecord, Columns
  <1>5. r.status = "paused" => PauseStep(r, ClaimedRow(r))
    BY <1>1 DEF ClaimedRow, IsRecord, Columns, Terminal, Parked
  <1>6. r.status = "awaiting" =>
          PauseStep(r, ResolvingRow(r)) /\ PauseStep(r, CountedRow(ResolvingRow(r)))
    <2> DEFINE p == ResolvingRow(r)
    <2>1. p.status = "detached" /\ p.pauseReq = r.pauseReq
      BY <1>1 DEF ResolvingRow, IsRecord, Columns
    <2>2. CountedRow(p).status = "detached" /\ CountedRow(p).pauseReq = r.pauseReq
      BY <1>1 DEF ResolvingRow, CountedRow, IsRecord, Columns
    <2>3. r.status = "awaiting" => r.status \in Parked
      BY DEF Parked
    <2> HIDE DEF p
    <2> QED
      BY <1>1, <2>1, <2>2, <2>3 DEF p
  <1>7. r.status = "paused" => \A event : PauseStep(r, BudgetResumedRow(r, event))
    <2>1. r.status = "paused" => r.status \in Parked
      BY DEF Parked
    <2>2. \A event : /\ BudgetResumedRow(r, event).status = "detached"
                     /\ BudgetResumedRow(r, event).pauseReq = r.pauseReq
      BY <1>1 DEF BudgetResumedRow, IsRecord, Columns
    <2> QED
      BY <1>1, <2>1, <2>2
  <1>8. CountedRow(ResolvingRow(r)).resolved > 0
    BY <1>1 DEF ResolvingRow, CountedRow, IsRecord, Columns
  <1> QED
    BY <1>2, <1>3, <1>4, <1>5, <1>6, <1>7, <1>8

\* A row that goes takes its request with it.
LEMMA PauseGone ==
  ASSUME NEW r, NEW p, p.status = "gone"
  PROVE  PauseStep(r, p)
  BY DEF PauseStep, PauseFits

\* Who resolves a confirmation resolves one that was counted.
LEMMA PauseStepTraced ==
  ASSUME IInv, PauseInv, \A k \in Jobs : PauseStep(job[k], job'[k]),
         \A u \in Tasks : task'[u].pc = "resolving" =>
            \/ task[u].pc = "resolving" /\ task'[u].job = task[u].job
            \/ job'[task'[u].job].resolved > 0
  PROVE  PauseTraced
  <1>1. ASSUME NEW u \in Tasks, task[u].pc = "resolving", task'[u].job = task[u].job,
               job'[task[u].job].status = "detached"
        PROVE  job'[task[u].job].resolved > 0
    <2>1. task[u].job \in Jobs /\ Owned(job[task[u].job])
      BY <1>1 DEF IInv, TaskInv, Task, Fits, AgentPc
    <2>2. /\ job[task[u].job].status = "detached"
          /\ job'[task[u].job].resolved = job[task[u].job].resolved
      BY <1>1, <2>1 DEF PauseStep, Owned, Parked
    <2> QED
      BY <1>1, <2>2 DEF PauseInv
  <1> QED
    BY <1>1 DEF PauseTraced, PauseInv, PausesAccounted, PauseStep

\* A row is written; of the tasks none starts to resolve.
LEMMA PauseRowTraced ==
  ASSUME IInv, PauseInv, NEW j \in Jobs, NEW row, Write(j, row), PauseStep(job[j], row),
         \A u \in Tasks : task'[u].pc = "resolving" =>
            \/ task[u].pc = "resolving" /\ task'[u].job = task[u].job
            \/ task'[u].job = j /\ row.resolved > 0
  PROVE  PauseTraced
  <1>1. job'[j] = row /\ \A k \in Jobs \ {j} : job'[k] = job[k]
    BY DEF IInv, RowsInv, Write
  <1>2. \A k \in Jobs : PauseStep(job[k], job[k])
    BY PauseWrites DEF IInv, RowsInv, PauseInv
  <1>3. \A k \in Jobs : PauseStep(job[k], job'[k])
    BY <1>1, <1>2
  <1> QED
    BY <1>1, <1>3, PauseStepTraced

\* No row changes.
LEMMA PauseStillTraced ==
  ASSUME IInv, PauseInv, UNCHANGED job,
         \A u \in Tasks : task'[u].pc = "resolving" =>
            task[u].pc = "resolving" /\ task'[u].job = task[u].job
  PROVE  PauseTraced
  <1>1. \A k \in Jobs : PauseStep(job[k], job'[k])
    BY PauseWrites DEF IInv, RowsInv, PauseInv
  <1> QED
    BY <1>1, PauseStepTraced

\* The agent loop writes its row or none, and resolves nothing.
LEMMA PauseLoop ==
  ASSUME IInv, PauseInv, NEW t \in Tasks,
         \/ DrainCorrections(t) \/ Checkpoint(t) \/ PauseCheck(t) \/ ModelCall(t)
         \/ ToolCall(t) \/ LoopExhausted(t) \/ Finalize(t)
  PROVE  PauseTraced
  <1>0. PICK j \in Jobs : j = task[t].job
    BY DEF IInv, TaskInv, Task
  <1>1. task \in [Tasks -> Task] /\ RowInv(job[j]) /\ PauseFits(job[j])
    BY DEF IInv, TaskInv, RowsInv, PauseInv
  <1>2. \/ UNCHANGED job
        \/ \E row \in {Touched(job[j]), Drained(job[j]), PauseRefused(job[j])} : Write(j, row)
    BY <1>0 DEF DrainCorrections, Checkpoint, PauseCheck, ModelCall, ToolCall, LoopExhausted,
                Finalize
  <1>3. task'[t].pc # "resolving" /\ \A u \in Tasks \ {t} : task'[u] = task[u]
    BY <1>1 DEF DrainCorrections, Checkpoint, PauseCheck, ModelCall, ToolCall,
                LoopExhausted, Finalize, Go, Task
  <1>4. \A u \in Tasks : task'[u].pc = "resolving" =>
           task[u].pc = "resolving" /\ task'[u].job = task[u].job
    BY <1>3
  <1>5. ASSUME NEW row \in {Touched(job[j]), Drained(job[j]), PauseRefused(job[j])}, Write(j, row)
        PROVE  PauseTraced
    <2>1. PauseStep(job[j], row)
      BY <1>1, PauseWrites
    <2> QED
      BY <1>4, <1>5, <2>1, PauseRowTraced
  <1> QED
    BY <1>2, <1>4, <1>5, PauseStillTraced

\* A row is written and the user's list is cut: what goes is over.
LEMMA PauseCutTraced ==
  ASSUME IInv, PauseInv, NEW j \in Jobs, NEW row, RowInv(row), PauseStep(job[j], row),
         job' \in UserCapResults([job EXCEPT ![j] = row]),
         \A u \in Tasks : task'[u].pc = "resolving" =>
            task[u].pc = "resolving" /\ task'[u].job = task[u].job
  PROVE  PauseTraced
  <1>1. /\ job'[j] = row \/ job'[j].status = "gone"
        /\ \A k \in Jobs \ {j} : job'[k] = job[k] \/ job'[k].status = "gone"
    BY CapInv DEF IInv
  <1>2. \A k \in Jobs : PauseStep(job[k], job[k])
    BY PauseWrites DEF IInv, RowsInv, PauseInv
  <1>3. \A k \in Jobs : PauseStep(job[k], job'[k])
    BY <1>1, <1>2, PauseGone
  <1> QED
    BY <1>3, PauseStepTraced

\* Outcomes, the end of a resolution included: what is staged was counted.
LEMMA PauseOutcome ==
  ASSUME IInv, PauseInv, NEW t \in Tasks,
         \/ Finish(t) \/ Fail(t) \/ StepCancel(t) \/ SetPaused(t) \/ SetAwaitingConfirmation(t)
         \/ StageResume(t) \/ ResolutionFails(t)
  PROVE  PauseTraced
  <1>0. PICK j \in Jobs : j = task[t].job
    BY DEF IInv, TaskInv, Task
  <1>1. task \in [Tasks -> Task] /\ job \in [Jobs -> Row] /\ RowInv(job[j]) /\ PauseFits(job[j])
    BY DEF IInv, TaskInv, RowsInv, PauseInv
  <1>2. Stop(t) \/ task' = [task EXCEPT ![t].pc = "restaged", ![t].carry = <<>>]
    BY DEF Finish, Fail, StepCancel, SetPaused, SetAwaitingConfirmation, StageResume,
           ResolutionFails, EndJob
  <1>3. task'[t].pc # "resolving" /\ \A u \in Tasks \ {t} : task'[u] = task[u]
    BY <1>1, <1>2 DEF Stop, Task
  <1>4. \A u \in Tasks : task'[u].pc = "resolving" =>
           task[u].pc = "resolving" /\ task'[u].job = task[u].job
    BY <1>3
  <1>5. ASSUME NEW status \in Terminal, NEW result \in Results \ {NoVerdict},
               EndJob(t, status, result)
        PROVE  PauseTraced
    <2>1. PauseStep(job[j], Ended(job[j], status, result))
      BY <1>1, PauseOutcomes
    <2>2. job' \in UserCapResults([job EXCEPT ![j] = Ended(job[j], status, result)])
      BY <1>0, <1>1, <1>5 DEF EndJob
    <2>3. RowInv(Ended(job[j], status, result))
      BY <1>1, EndedInv
    <2> QED
      BY <1>4, <2>1, <2>2, <2>3, PauseCutTraced
  <1>6. CASE \E row : Write(j, row) /\ PauseStep(job[j], row)
    BY <1>4, <1>6, PauseRowTraced
  <1>7. CASE SetPaused(t)
    <2>1. PICK reason : \/ Write(j, PausedRow(job[j], reason))
                        \/ UNCHANGED job
                        \/ EndJob(t, "cancelled", "cancelled_by_user")
      BY <1>0, <1>7 DEF SetPaused
    <2>2. PauseStep(job[j], PausedRow(job[j], reason))
      BY <1>1, PauseOutcomes
    <2>3. "cancelled" \in Terminal /\ "cancelled_by_user" \in Results \ {NoVerdict}
      BY DEF Terminal, Results, NoVerdict
    <2> QED
      BY <1>4, <1>5, <1>6, <2>1, <2>2, <2>3, PauseStillTraced
  <1>8. CASE SetAwaitingConfirmation(t)
    <2>1. Write(j, AwaitingRow(job[j])) \/ UNCHANGED job
      BY <1>0, <1>8 DEF SetAwaitingConfirmation
    <2>2. PauseStep(job[j], AwaitingRow(job[j]))
      BY <1>1, PauseOutcomes
    <2> QED
      BY <1>4, <1>6, <2>1, <2>2, PauseStillTraced
  <1>9. CASE StageResume(t)
    <2>1. CASE Parkable(job[j]) /\ Write(j, StagedRow(job[j], task[t].carry))
      <3>1. job[j].status = "detached" /\ job[j].resolved > 0
        BY <1>0, <1>9, <2>1 DEF Parkable, StageResume, PauseInv
      <3> QED
        BY <1>1, <1>6, <2>1, <3>1, PauseOutcomes
    <2> QED
      BY <1>0, <1>4, <1>9, <2>1, PauseStillTraced DEF StageResume
  <1>10. CASE Finish(t) \/ Fail(t) \/ StepCancel(t) \/ ResolutionFails(t)
    <2>1. /\ {"done", "error", "cancelled"} \subseteq Terminal
          /\ {"answer", "failure", "cancelled_by_user"} \subseteq Results \ {NoVerdict}
      BY DEF Terminal, Results, NoVerdict
    <2>2. \/ EndJob(t, "done", "answer") \/ EndJob(t, "error", "failure")
          \/ EndJob(t, "cancelled", "cancelled_by_user")
      BY <1>10 DEF Finish, Fail, StepCancel, ResolutionFails
    <2> QED
      BY <1>5, <2>1, <2>2
  <1> QED
    BY <1>7, <1>8, <1>9, <1>10

\* A claim; who claims a confirmation and lives counts it.
LEMMA PauseClaim ==
  ASSUME IInv, PauseInv, NEW t \in Tasks, NEW j \in Jobs,
         \/ Resume(t, j) \/ ClaimConfirmation(t, j)
         \/ \E event : BudgetResume(t, j, event)
         \/ ResumeStaged(t) /\ j = task[t].job
  PROVE  PauseTraced
  <1>1. task \in [Tasks -> Task] /\ RowInv(job[j]) /\ PauseFits(job[j])
    BY DEF IInv, TaskInv, RowsInv, PauseInv
  <1>2. ASSUME NEW pc, NEW carry, StartAgent(t, pc, j, carry), NEW row, Write(j, row),
               PauseStep(job[j], row), pc = "resolving" => row.resolved > 0
        PROVE  PauseTraced
    <2>1. /\ task'[t].pc = pc /\ task'[t].job = j
          /\ \A u \in Tasks \ {t} : task'[u] = task[u]
      BY <1>1, <1>2 DEF StartAgent
    <2>2. \A u \in Tasks : task'[u].pc = "resolving" =>
             \/ task[u].pc = "resolving" /\ task'[u].job = task[u].job
             \/ task'[u].job = j /\ row.resolved > 0
      BY <1>2, <2>1
    <2> QED
      BY <1>2, <2>2, PauseRowTraced
  <1>3. ASSUME job[j].status = "paused", Write(j, ClaimedRow(job[j])),
               NEW carry, StartAgent(t, "boundary", j, carry)
        PROVE  PauseTraced
    <2>1. PauseStep(job[j], ClaimedRow(job[j]))
      BY <1>1, <1>3, PauseOutcomes
    <2> QED
      BY <1>2, <1>3, <2>1
  <1>4. CASE Resume(t, j)
    BY <1>3, <1>4 DEF Resume
  <1>5. CASE ClaimConfirmation(t, j)
    <2>1. /\ PauseStep(job[j], ResolvingRow(job[j]))
          /\ PauseStep(job[j], CountedRow(ResolvingRow(job[j])))
          /\ CountedRow(ResolvingRow(job[j])).resolved > 0
      <3>1. job[j].status = "awaiting"
        BY <1>5 DEF ClaimConfirmation
      <3> QED
        BY <1>1, <3>1, PauseOutcomes
    <2>2. CASE Write(j, ResolvingRow(job[j])) /\ UNCHANGED task
      BY <2>1, <2>2, PauseRowTraced
    <2> QED
      BY <1>2, <1>5, <2>1, <2>2 DEF ClaimConfirmation
  <1>6. ASSUME NEW event, BudgetResume(t, j, event) PROVE PauseTraced
    <2>1. job[j].status = "paused" /\ Write(j, BudgetResumedRow(job[j], event))
      BY <1>6 DEF BudgetResume, BudgetClaimable
    <2>2. PauseStep(job[j], BudgetResumedRow(job[j], event))
      BY <1>1, <2>1, PauseOutcomes
    <2>3. PICK pc \in {"boundary", "finalizing"} : StartAgent(t, pc, j, job[j].resume)
      BY <1>6 DEF BudgetResume
    <2> QED
      BY <1>2, <2>1, <2>2, <2>3
  <1>7. CASE ResumeStaged(t) /\ j = task[t].job
    <2>1. CASE Stop(t) /\ UNCHANGED job
      <3>1. \A u \in Tasks : task'[u].pc = "resolving" => task'[u] = task[u]
        BY <1>1, <2>1 DEF Stop, Task
      <3> QED
        BY <2>1, <3>1, PauseStillTraced
    <2> QED
      BY <1>3, <1>7, <2>1 DEF ResumeStaged
  <1> QED
    BY <1>4, <1>5, <1>6, <1>7

\* Turns before their row, the row they get, and the death of a worker.
LEMMA PauseTurn ==
  ASSUME IInv, PauseInv, NEW t \in Tasks,
         \/ AttachedReturns(t) \/ Answer(t) \/ Detach(t) \/ Crash(t)
         \/ \E j \in Jobs : StartTurn(t, j)
  PROVE  PauseTraced
  <1>0. PICK j \in Jobs : j = task[t].job
    BY DEF IInv, TaskInv, Task
  <1>1. task \in [Tasks -> Task]
    BY DEF IInv, TaskInv
  <1>2. \/ Go(t, "returned") \/ Go(t, "working") \/ Stop(t)
        \/ \E k \in Jobs : StartAgent(t, "attached", k, <<>>)
    BY DEF AttachedReturns, Answer, Detach, Crash, StartTurn
  <1>3. task'[t].pc # "resolving" /\ \A u \in Tasks \ {t} : task'[u] = task[u]
    BY <1>1, <1>2 DEF Go, Stop, StartAgent, Task
  <1>4. \A u \in Tasks : task'[u].pc = "resolving" =>
           task[u].pc = "resolving" /\ task'[u].job = task[u].job
    BY <1>3
  <1>5. CASE Detach(t)
    <2>1. job[j].status = "none" /\ job' \in UserCapResults([job EXCEPT ![j] = DetachedRow])
      BY <1>0, <1>5 DEF Detach, IInv, TaskInv, Fits
    <2>2. RowInv(DetachedRow) /\ DetachedRow.status = "detached" /\ ~DetachedRow.pauseReq
      <3>1. DetachedRow.status = "detached" /\ ~DetachedRow.pauseReq
        BY DEF DetachedRow, EmptyRow
      <3> QED
        BY <3>1, NewRows
    <2>3. PauseFits(job[j]) /\ "none" \notin {"detached", "gone"} \cup Terminal
      BY DEF PauseInv, Terminal
    <2>4. PauseStep(job[j], DetachedRow)
      BY <2>1, <2>2, <2>3 DEF PauseStep, PauseFits
    <2> QED
      BY <1>4, <2>1, <2>2, <2>4, PauseCutTraced
  <1>6. CASE UNCHANGED job
    BY <1>4, <1>6, PauseStillTraced
  <1> QED
    BY <1>5, <1>6 DEF AttachedReturns, Answer, Crash, StartTurn

\* The controls, time and the sweep.
LEMMA PauseRows ==
  ASSUME IInv, PauseInv, NEW j \in Jobs,
         \/ RequestPause(j) \/ RequestCancel(j) \/ DeleteJob(j)
         \/ \E c \in Corrections : QueueCorrection(j, c)
         \/ \E event : BudgetCancel(j, event)
         \/ SweepStep(j) \/ TimePasses(j)
  PROVE  PauseTraced
  <1>1. RowInv(job[j]) /\ PauseFits(job[j]) /\ UNCHANGED task
    BY DEF IInv, RowsInv, PauseInv, RequestPause, RequestCancel, DeleteJob, QueueCorrection,
           BudgetCancel, SweepStep, SweepStaleActive, SweepCancelPaused, PurgeTerminal, TimePasses
  <1>2. \E row :
          /\ Write(j, row)
          /\ \/ job[j].status = "detached" /\ row = PauseRequestedRow(job[j])
             \/ job[j].status \in Live /\ row = AfterCancel(job[j])
             \/ row \in {Removed(job[j]), InterruptedRow(job[j]), TimedOutRow(job[j]),
                         [job[j] EXCEPT !.age = @ + 1]}
             \/ \E c : row = CorrectedRow(job[j], c)
             \/ \E event : row = BudgetCancelledRow(job[j], event)
    BY DEF RequestPause, RequestCancel, DeleteJob, QueueCorrection, BudgetCancel, SweepStep,
           SweepStaleActive, SweepCancelPaused, PurgeTerminal, TimePasses
  <1>3. \E row : Write(j, row) /\ PauseStep(job[j], row)
    BY <1>1, <1>2, PauseWrites
  <1> QED
    BY <1>1, <1>3, PauseRowTraced

LEMMA PauseNext ==
  ASSUME IInv, PauseInv, [Next]_vars
  PROVE  PauseTraced
  <1>1. ASSUME NEW t \in Tasks, TaskStep(t) PROVE PauseTraced
    <2>1. CASE ResumeStaged(t)
      <3>1. task[t].job \in Jobs
        BY DEF IInv, TaskInv, Task
      <3> QED
        BY <2>1, <3>1, PauseClaim
    <2> QED
      BY <1>1, <2>1, PauseTurn, PauseLoop, PauseOutcome DEF TaskStep
  <1>2. ASSUME NEW t \in Tasks, Crash(t) PROVE PauseTraced
    BY <1>2, PauseTurn
  <1>3. ASSUME NEW j \in Jobs, UserStep(j) PROVE PauseTraced
    BY <1>3, PauseTurn, PauseClaim, PauseRows DEF UserStep
  <1>4. ASSUME NEW j \in Jobs, SweepStep(j) \/ TimePasses(j) PROVE PauseTraced
    BY <1>4, PauseRows
  <1>5. CASE SweepListPaused \/ UNCHANGED vars
    <2>1. UNCHANGED <<job, task>>
      BY <1>5 DEF SweepListPaused, vars
    <2> QED
      BY <2>1, PauseStillTraced
  <1> QED
    BY <1>1, <1>2, <1>3, <1>4, <1>5 DEF Next

\* A request for a pause stays until the job is parked or ended or the user is
\* warned, in whatever order the controls, confirmations and crashes come, but for
\* one way to forget it: the job waited paused after a confirmation of it was
\* resolved, and the claim that takes it up again clears the request.  Whoever
\* asks while nothing was resolved is not forgotten (claim_resume, set_paused,
\* refuse_pause, stage_resume_state).
THEOREM PausesAccountedFor == Spec => [][PausesAccounted]_vars
  <1>1. Init => PauseInv
    <2>1. ~EmptyRow.pauseReq /\ EmptyRow.status # "detached"
      BY DEF EmptyRow
    <2> QED
      BY <2>1 DEF Init, PauseInv, PauseFits
  <1>2. IInv /\ PauseInv /\ [Next]_vars => PauseInv' /\ PausesAccounted
    BY PauseNext DEF PauseTraced
  <1> QED
    BY <1>1, <1>2, Invariance, PTL DEF Spec

-----------------------------------------------------------------------------
(***************************************************************************)
(* Where an agent may leave a job that is asked to cancel running: only    *)
(* while a confirmation is asked or resolved (set_awaiting_confirmation    *)
(* and stage_resume_state refuse to park it and nothing ends it then), or  *)
(* when its worker dies.                                                   *)
(***************************************************************************)
CancelsAccounted ==
    \A t \in Tasks :
        task[t].pc \in AgentPc /\ task'[t].pc = "idle" /\ job[task[t].job].cancelReq
        => \/ job'[task[t].job].status # "detached"
           \/ task[t].pc \in {"asking", "resolving"}
           \/ Crashes /\ UNCHANGED job

\* A step of another task, of the user or of the sweep stops no agent.
LEMMA AgentsGoOn ==
  ASSUME \A t \in Tasks : task'[t].pc = "idle" => task[t].pc \notin AgentPc
  PROVE  CancelsAccounted
  BY DEF CancelsAccounted

\* The outcomes of an agent.
LEMMA CancelOutcome ==
  ASSUME IInv, NEW t \in Tasks,
         \/ Finish(t) \/ Fail(t) \/ StepCancel(t) \/ SetPaused(t) \/ SetAwaitingConfirmation(t)
         \/ StageResume(t) \/ ResolutionFails(t) \/ Crash(t)
  PROVE  CancelsAccounted
  <1>0. PICK j \in Jobs : j = task[t].job
    BY DEF IInv, TaskInv, Task
  <1>1. task \in [Tasks -> Task] /\ job \in [Jobs -> Row] /\ RowInv(job[j])
    BY DEF IInv, TaskInv, RowsInv
  <1>2. \A u \in Tasks \ {t} : task'[u] = task[u]
    BY <1>1 DEF Finish, Fail, StepCancel, SetPaused, SetAwaitingConfirmation, StageResume,
                ResolutionFails, Crash, EndJob, Stop
  <1>3. \A u \in Tasks \ {t} : task'[u].pc = "idle" => task[u].pc \notin AgentPc
    BY <1>2 DEF AgentPc
  <1>4. ASSUME task[t].pc \in AgentPc, job[j].cancelReq, job'[j].status = "detached"
        PROVE  task[t].pc \in {"asking", "resolving"} \/ (Crashes /\ UNCHANGED job)
    <2>1. Owned(job[j])
      BY <1>0, <1>4, AgentFacts
    <2>2. ASSUME NEW status \in Terminal, NEW result \in Results \ {NoVerdict},
                 EndJob(t, status, result)
          PROVE  FALSE
      <3> DEFINE row == Ended(job[j], status, result)
      <3>1. job' \in UserCapResults([job EXCEPT ![j] = row])
        BY <1>0, <1>1, <2>2 DEF EndJob
      <3>2. RowInv(row)
        BY <1>1, EndedInv
      <3>3. row.status # "detached"
        BY <1>1 DEF Ended, RowInv, IsRecord, Columns, Stored, Live, Terminal
      <3> HIDE DEF row
      <3>4. job'[j] = row \/ job'[j].status = "gone"
        BY <3>1, <3>2, CapInv DEF IInv
      <3> QED
        BY <1>4, <3>3, <3>4
    <2>3. CASE Finish(t) \/ Fail(t) \/ StepCancel(t)
      <3>1. /\ {"done", "error", "cancelled"} \subseteq Terminal
            /\ {"answer", "failure", "cancelled_by_user"} \subseteq Results \ {NoVerdict}
        BY DEF Terminal, Results, NoVerdict
      <3>2. \/ EndJob(t, "done", "answer") \/ EndJob(t, "error", "failure")
            \/ EndJob(t, "cancelled", "cancelled_by_user")
        BY <2>3 DEF Finish, Fail, StepCancel
      <3> QED
        BY <2>2, <3>1, <3>2
    <2>4. CASE SetPaused(t)
      <3>1. ~Parkable(job[j])
        BY <1>4 DEF Parkable
      <3>2. EndJob(t, "cancelled", "cancelled_by_user")
        BY <1>0, <1>4, <2>4, <3>1 DEF SetPaused
      <3>3. "cancelled" \in Terminal /\ "cancelled_by_user" \in Results \ {NoVerdict}
        BY DEF Terminal, Results, NoVerdict
      <3> QED
        BY <2>2, <3>2, <3>3
    <2>5. CASE SetAwaitingConfirmation(t) \/ StageResume(t) \/ ResolutionFails(t)
      BY <2>5 DEF SetAwaitingConfirmation, StageResume, ResolutionFails
    <2>6. CASE Crash(t)
      BY <2>6 DEF Crash
    <2> QED
      BY <2>3, <2>4, <2>5, <2>6
  <1> QED
    BY <1>0, <1>3, <1>4 DEF CancelsAccounted

\* A task that runs on is not idle, and one that ends a turn ran no agent.
LEMMA CancelRest ==
  ASSUME IInv, NEW t \in Tasks,
         \/ DrainCorrections(t) \/ Checkpoint(t) \/ PauseCheck(t) \/ ModelCall(t)
         \/ ToolCall(t) \/ LoopExhausted(t) \/ Finalize(t)
         \/ AttachedReturns(t) \/ Answer(t) \/ Detach(t) \/ ResumeStaged(t)
         \/ \E j \in Jobs : StartTurn(t, j) \/ Resume(t, j) \/ ClaimConfirmation(t, j)
         \/ \E j \in Jobs : \E event : BudgetResume(t, j, event)
  PROVE  CancelsAccounted
  <1>1. task \in [Tasks -> Task]
    BY DEF IInv, TaskInv
  <1>2. \A u \in Tasks \ {t} : task'[u] = task[u]
    BY <1>1 DEF DrainCorrections, Checkpoint, PauseCheck, ModelCall, ToolCall, LoopExhausted,
                Finalize, AttachedReturns, Answer, Detach, ResumeStaged, StartTurn, Resume,
                ClaimConfirmation, BudgetResume, Go, Stop, StartAgent
  <1>3. task'[t].pc = "idle" => task[t].pc \notin AgentPc
    <2>1. CASE \/ DrainCorrections(t) \/ Checkpoint(t) \/ PauseCheck(t) \/ ModelCall(t)
               \/ ToolCall(t) \/ LoopExhausted(t) \/ Finalize(t)
      BY <1>1, <2>1 DEF DrainCorrections, Checkpoint, PauseCheck, ModelCall, ToolCall,
                        LoopExhausted, Finalize, Go, Task
    <2>2. CASE \/ AttachedReturns(t) \/ Answer(t) \/ Detach(t) \/ ResumeStaged(t)
               \/ \E j \in Jobs : StartTurn(t, j) \/ Resume(t, j) \/ ClaimConfirmation(t, j)
               \/ \E j \in Jobs : \E event : BudgetResume(t, j, event)
      BY <2>2 DEF AttachedReturns, Answer, Detach, ResumeStaged, StartTurn, Resume,
                  ClaimConfirmation, BudgetResume, NewPc, AgentPc
    <2> QED
      BY <2>1, <2>2
  <1> QED
    BY <1>2, <1>3, AgentsGoOn DEF AgentPc

LEMMA CancelNext ==
  ASSUME IInv, [Next]_vars
  PROVE  CancelsAccounted
  <1>1. ASSUME NEW t \in Tasks, TaskStep(t) \/ Crash(t) PROVE CancelsAccounted
    BY <1>1, CancelRest, CancelOutcome DEF TaskStep
  <1>2. CASE UNCHANGED task
    BY <1>2, AgentsGoOn DEF AgentPc
  <1>3. ASSUME NEW j \in Jobs, UserStep(j) PROVE CancelsAccounted
    <2>1. ASSUME \/ RequestPause(j) \/ RequestCancel(j) \/ DeleteJob(j)
                 \/ \E c \in Corrections : QueueCorrection(j, c)
                 \/ \E event : BudgetCancel(j, event)
          PROVE  CancelsAccounted
      BY <1>2, <2>1 DEF RequestPause, RequestCancel, DeleteJob, QueueCorrection, BudgetCancel
    <2>2. ASSUME NEW t \in Tasks, \/ StartTurn(t, j) \/ Resume(t, j) \/ ClaimConfirmation(t, j)
                                  \/ \E event : BudgetResume(t, j, event)
          PROVE  CancelsAccounted
      BY <2>2, CancelRest
    <2> QED
      BY <1>3, <2>1, <2>2 DEF UserStep
  <1>4. ASSUME NEW j \in Jobs, SweepStep(j) \/ TimePasses(j) PROVE CancelsAccounted
    BY <1>2, <1>4 DEF SweepStep, SweepStaleActive, SweepCancelPaused, PurgeTerminal, TimePasses
  <1> QED
    BY <1>1, <1>2, <1>3, <1>4 DEF Next, SweepListPaused, vars

\* An agent that stops while its job is asked to cancel leaves it ended, unless it
\* stops to ask for a confirmation, resolves one, or dies with its worker: the
\* checkpoint, the pauses and every ordinary end honour the request.
THEOREM CancelsAccountedFor == Spec => [][CancelsAccounted]_vars
  <1>1. IInv /\ [Next]_vars => [CancelsAccounted]_vars
    BY CancelNext
  <1> QED
    BY <1>1, Invariance, PTL DEF Spec

=============================================================================
