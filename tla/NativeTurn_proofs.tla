-------------------------- MODULE NativeTurn_proofs --------------------------
(***************************************************************************)
(* Proofs about NativeTurn, for any budgets, retry limits and batch sizes. *)
(***************************************************************************)
EXTENDS NativeTurn, TLAPS

(***************************************************************************)
(* What a memory accounts for, wherever it is: every provider call and     *)
(* every corrective retry of the job, and what its tools changed.          *)
(***************************************************************************)
Accounts(m) ==
    /\ m.calls = spent
    /\ \A g \in Guards : retries[g] = IF g \in m.retried THEN 1 ELSE 0
    /\ "direct" \in effects => m.effected

\* The loop asks only while a call is left, so a batch is paid for.
LoopInv ==
    at \in Looping =>
        /\ Accounts(mem)
        /\ at = "asking" => mem.calls < run.calls
        /\ at = "batch" => mem.calls <= run.calls /\ mem.open >= 1
        /\ at # "batch" => mem.open = 0

\* The calls that a confirmation left open are the frozen one and those behind it.
ParkInv ==
    at = "parked" =>
        /\ Accounts(saved.mem)
        /\ IF saved.kind = "confirm" THEN saved.mem.open = saved.deferred + 1
                                     ELSE saved.mem.open = 0

TurnInv ==
    /\ TurnTypeOK /\ LoopInv /\ ParkInv
    /\ run.calls <= granted
    /\ SpentWithinGrant /\ RetriedOnce /\ RefusedHonestly

LEMMA TurnInitInv == TurnInit => TurnInv
<1> SUFFICES ASSUME TurnInit PROVE TurnInv
  OBVIOUS
<1> USE BudgetAssumption DEF TurnInit, Blank
<1>1. Blank \in Memory
  BY DEF Memory
<1>2. TurnTypeOK
  <2>1. NoSnapshot \in Snapshots
    BY <1>1 DEF NoSnapshot, Snapshots, Kinds
  <2>2. run \in Limits
    BY DEF Limits
  <2>3. retries \in [Guards -> Nat] /\ spent \in Nat /\ granted \in Nat
    OBVIOUS
  <2>4. outcome \in Outcomes /\ at \in Looping
    BY DEF Outcomes, Looping
  <2>5. mem \in Memory /\ saved \in Snapshots
    BY <1>1, <2>1 DEF TurnInit
  <2> HIDE DEF Blank
  <2> QED
    BY <2>2, <2>3, <2>4, <2>5 DEF TurnTypeOK
<1>3. LoopInv /\ ParkInv
  BY DEF LoopInv, ParkInv, Looping, Accounts
<1>4. run.calls <= granted /\ SpentWithinGrant /\ RetriedOnce /\ RefusedHonestly
  BY DEF SpentWithinGrant, Larger, RetriedOnce, RefusedHonestly
<1> QED
  BY <1>2, <1>3, <1>4 DEF TurnInv

-----------------------------------------------------------------------------
(***************************************************************************)
(* The four ways in which a step of the job may end.                       *)
(***************************************************************************)
Ghosts ==
    /\ spent \in Nat /\ retries \in [Guards -> Nat] /\ effects \subseteq {"direct", "confirmed"}
    /\ SpentWithinGrant /\ RetriedOnce

LEMMA EndInv ==
    ASSUME TurnInv, at # "ended", NEW how \in Outcomes \ {"none"}, End(how),
           mem' \in Memory, Ghosts',
           how = "unsupported" => "direct" \notin effects'
    PROVE  TurnInv'
<1>1. TurnTypeOK'
  BY DEF TurnInv, TurnTypeOK, End, Ghosts
<1>2. LoopInv' /\ ParkInv'
  BY DEF LoopInv, ParkInv, End, Looping
<1>3. run'.calls <= granted' /\ RefusedHonestly'
  BY DEF TurnInv, End, RefusedHonestly
<1> QED
  BY <1>1, <1>2, <1>3 DEF TurnInv, Ghosts

LEMMA GoInv ==
    ASSUME TurnInv, at \in Looping, NEW where \in Looping, Go(where),
           mem' \in Memory, Accounts(mem)', Ghosts', run' \in Limits, run'.calls = run.calls,
           where = "asking" => mem'.calls < run'.calls,
           where = "batch" => mem'.calls <= run'.calls /\ mem'.open >= 1,
           where # "batch" => mem'.open = 0
    PROVE  TurnInv'
<1>1. TurnTypeOK'
  BY DEF TurnInv, TurnTypeOK, Go, Ghosts, Looping
<1>2. LoopInv' /\ ParkInv'
  BY DEF LoopInv, ParkInv, Go, Looping
<1>3. run'.calls <= granted' /\ RefusedHonestly'
  BY DEF TurnInv, TurnTypeOK, Go, RefusedHonestly, Looping
<1> QED
  BY <1>1, <1>2, <1>3 DEF TurnInv, Ghosts

LEMMA ParkStepInv ==
    ASSUME TurnInv, at \in Looping, NEW m \in Memory, NEW kind \in Kinds, Park(m, kind),
           Accounts(m)', Ghosts',
           IF kind = "confirm" THEN m.open >= 1 ELSE m.open = 0
    PROVE  TurnInv'
<1> USE BudgetAssumption
<1>1. Snapshot(m, kind) \in Snapshots
  BY DEF Snapshot, Snapshots, Kept, TurnInv, TurnTypeOK, Limits, Memory
<1>2. /\ saved'.mem = m /\ saved'.kind = kind
      /\ saved'.deferred = IF kind = "confirm" THEN m.open - 1 ELSE 0
  BY DEF Park, Snapshot, Kept
<1>3. TurnTypeOK'
  BY <1>1 DEF TurnInv, TurnTypeOK, Park, Ghosts, Looping, Memory, Blank
<1>4. LoopInv'
  BY DEF LoopInv, Park, Looping
<1>5. ParkInv'
  <2>1. m.open \in 0..MaxBatch
    BY DEF Memory
  <2> QED
    BY <1>2, <2>1 DEF ParkInv, Park, Accounts
<1>6. run'.calls <= granted' /\ RefusedHonestly'
  BY DEF TurnInv, TurnTypeOK, Park, RefusedHonestly, Looping
<1> QED
  BY <1>3, <1>4, <1>5, <1>6 DEF TurnInv, Ghosts

LEMMA RestartInv ==
    ASSUME TurnInv, at = "parked", saved.kind # "confirm",
           NEW s \in Snapshots, s.mem = saved.mem, Restart(s)
    PROVE  TurnInv'
<1> USE BudgetAssumption
<1>1. RestoredLimits(s) \in Limits
  BY DEF RestoredLimits, Limits, Snapshots, Larger
<1>2. /\ at' = "boundary" /\ mem' = saved.mem /\ run' = RestoredLimits(s)
      /\ UNCHANGED <<detached, outcome, spent, retries, effects>> /\ saved' = NoSnapshot
  BY DEF Restart
<1>3. /\ granted \in Nat /\ RestoredLimits(s).calls \in Nat
      /\ granted' = Larger(granted, RestoredLimits(s).calls)
  BY <1>1 DEF TurnInv, TurnTypeOK, Restart, Limits
<1>4. granted' \in Nat /\ granted' >= granted /\ granted' >= run'.calls
  BY <1>2, <1>3 DEF Larger
<1>5. NoSnapshot \in Snapshots
  BY DEF NoSnapshot, Snapshots, Blank, Memory, Kinds
<1>6. TurnTypeOK'
  <2>1. saved.mem \in Memory
    BY DEF TurnInv, TurnTypeOK, Snapshots
  <2> QED
    BY <1>1, <1>2, <1>4, <1>5, <2>1 DEF TurnInv, TurnTypeOK, Looping
<1>7. LoopInv' /\ ParkInv'
  BY <1>2 DEF TurnInv, LoopInv, ParkInv, Looping, Accounts
<1>8. SpentWithinGrant'
  <2>1. spent <= granted + Larger(1, MaxAttempts - 1) /\ spent \in Nat
    BY DEF TurnInv, TurnTypeOK, SpentWithinGrant
  <2>2. Larger(1, MaxAttempts - 1) \in Nat
    BY DEF Larger
  <2> QED
    BY <1>2, <1>3, <1>4, <2>1, <2>2 DEF SpentWithinGrant
<1>9. RetriedOnce' /\ RefusedHonestly'
  BY <1>2 DEF TurnInv, RetriedOnce, RefusedHonestly
<1> QED
  BY <1>2, <1>4, <1>6, <1>7, <1>8, <1>9 DEF TurnInv

-----------------------------------------------------------------------------
(***************************************************************************)
(* Provider calls.                                                         *)
(***************************************************************************)
LEMMA ChargedMemory ==
    ASSUME NEW m \in Memory, NEW k \in Nat
    PROVE  /\ Charged(m, k) \in Memory
           /\ Charged(m, k).calls = m.calls + k
           /\ Charged(m, k).retried = m.retried /\ Charged(m, k).open = m.open
           /\ Charged(m, k).effected = m.effected /\ Charged(m, k).used = m.used
           /\ Charged(m, k).seen = m.seen /\ Charged(m, k).step = m.step
BY DEF Charged, Memory

\* What the loop asks is within the budget, and what the closing call takes
\* is so but for its retries.
LEMMA AttemptsWithin ==
    ASSUME TurnTypeOK, run.calls <= granted
    PROVE  /\ \A k \in 1..Attempts(FALSE) : k \in Nat /\ mem.calls + k <= run.calls
           /\ \A k \in 1..Attempts(TRUE) :
                 k \in Nat /\ mem.calls + k <= granted + Larger(1, MaxAttempts - 1)
<1> USE BudgetAssumption
<1>1. mem.calls \in Nat /\ run.calls \in Nat /\ granted \in Nat
  BY DEF TurnTypeOK, Memory, Limits
<1> QED
  BY <1>1 DEF Attempts, Smaller, Larger

LEMMA WithinGrant ==
    ASSUME TurnTypeOK, run.calls <= granted, NEW n \in Nat, n <= run.calls + 1
    PROVE  n <= granted + Larger(1, MaxAttempts - 1)
<1>1. run.calls \in Nat /\ granted \in Nat /\ MaxAttempts \in Nat
  BY BudgetAssumption DEF TurnTypeOK, Limits
<1> QED
  BY <1>1 DEF Larger

\* A memory that asks k times more than the one in the loop did.
LEMMA Asked ==
    ASSUME TurnInv, at = "asking", NEW k \in 1..Attempts(FALSE), spent' = spent + k
    PROVE  /\ Charged(mem, k) \in Memory
           /\ Charged(mem, k).calls <= run.calls /\ Charged(mem, k).calls = spent'
           /\ Charged(mem, k).open = 0
           /\ \A g \in Guards : retries[g] = IF g \in Charged(mem, k).retried THEN 1 ELSE 0
           /\ "direct" \in effects => Charged(mem, k).effected
           /\ spent' \in Nat /\ spent' <= granted + Larger(1, MaxAttempts - 1)
<1>1. /\ TurnTypeOK /\ run.calls <= granted
      /\ mem \in Memory /\ spent \in Nat /\ run.calls \in Nat
      /\ Accounts(mem) /\ mem.open = 0
  BY DEF TurnInv, TurnTypeOK, LoopInv, Looping, Limits
<1>2. k \in Nat /\ mem.calls + k <= run.calls
  BY <1>1, AttemptsWithin
<1>3. spent' \in Nat /\ spent' = mem.calls + k
  BY <1>1, <1>2 DEF Accounts
<1>4. spent' <= granted + Larger(1, MaxAttempts - 1)
  BY <1>1, <1>2, <1>3, WithinGrant
<1> QED
  BY <1>1, <1>2, <1>3, <1>4, ChargedMemory DEF Accounts

\* The ghosts when only calls were made.
LEMMA GhostsAfterCalls ==
    ASSUME TurnInv, spent' \in Nat, spent' <= granted + Larger(1, MaxAttempts - 1),
           UNCHANGED <<granted, retries, effects>>
    PROVE  Ghosts'
BY DEF TurnInv, TurnTypeOK, Ghosts, SpentWithinGrant, RetriedOnce

LEMMA AskEndsInv ==
    ASSUME TurnInv, AskFails \/ EmptyResponse
    PROVE  TurnInv'
<1>1. PICK k \in 1..Attempts(FALSE) : mem' = Charged(mem, k) /\ spent' = spent + k
  BY DEF AskFails, EmptyResponse
<1>2. at = "asking" /\ End("providerFailed") /\ UNCHANGED <<retries, effects>>
  BY DEF AskFails, EmptyResponse
<1>3. mem' \in Memory /\ spent' \in Nat /\ spent' <= granted + Larger(1, MaxAttempts - 1)
  BY <1>1, <1>2, Asked
<1>4. Ghosts'
  BY <1>2, <1>3, GhostsAfterCalls DEF End
<1> QED
  BY <1>2, <1>3, <1>4, EndInv DEF Outcomes

\* A corrective retry is made once, and goes back to the boundary.
LEMMA RetryInv ==
    ASSUME TurnInv, at = "asking", NEW k \in 1..Attempts(FALSE), spent' = spent + k,
           NEW guard \in Guards, Retry(Charged(mem, k), guard), effects' = effects
    PROVE  TurnInv'
<1>0. PICK m \in Memory :
        /\ m = Charged(mem, k)
        /\ m.calls <= run.calls /\ m.calls = spent' /\ m.open = 0
        /\ \A g \in Guards : retries[g] = IF g \in m.retried THEN 1 ELSE 0
        /\ "direct" \in effects => m.effected
        /\ spent' \in Nat /\ spent' <= granted + Larger(1, MaxAttempts - 1)
  BY Asked
<1>1. /\ guard \notin m.retried
      /\ mem' = [m EXCEPT !.retried = @ \cup {guard}]
      /\ retries' = [retries EXCEPT ![guard] = @ + 1]
      /\ Go("boundary") /\ run' = run
  BY <1>0 DEF Retry
<1>2. /\ mem' \in Memory /\ mem'.calls = m.calls /\ mem'.open = 0
      /\ mem'.effected = m.effected /\ mem'.retried = m.retried \cup {guard}
  BY <1>0, <1>1 DEF Memory
<1>3. retries \in [Guards -> Nat]
  BY DEF TurnInv, TurnTypeOK
<1>4. /\ retries' \in [Guards -> Nat]
      /\ \A g \in Guards : retries'[g] = IF g \in mem'.retried THEN 1 ELSE 0
  BY <1>0, <1>1, <1>2, <1>3
<1>5. Accounts(mem)'
  BY <1>0, <1>2, <1>4 DEF Accounts
<1>6. Ghosts'
  <2>1. SpentWithinGrant' /\ effects' \subseteq {"direct", "confirmed"}
    BY <1>0, <1>1 DEF SpentWithinGrant, Go, TurnInv, TurnTypeOK
  <2>2. RetriedOnce'
    BY <1>4 DEF RetriedOnce
  <2> QED
    BY <1>0, <1>4, <2>1, <2>2 DEF Ghosts
<1>7. run' \in Limits /\ run'.calls = run.calls
  BY <1>1 DEF TurnInv, TurnTypeOK
<1> QED
  BY <1>1, <1>2, <1>5, <1>6, <1>7, GoInv DEF Looping

LEMMA NoRetryInv ==
    ASSUME TurnInv, at = "asking", NEW k \in 1..Attempts(FALSE), spent' = spent + k,
           NEW guard \in Guards, NEW how \in Outcomes \ {"none"},
           NoRetry(Charged(mem, k), guard, how), effects' = effects,
           how = "unsupported" => ~mem.effected
    PROVE  TurnInv'
<1>1. mem' = Charged(mem, k) /\ End(how) /\ retries' = retries
  BY DEF NoRetry
<1>2. /\ mem' \in Memory /\ spent' \in Nat
      /\ spent' <= granted + Larger(1, MaxAttempts - 1)
  BY <1>1, Asked
<1>3. Ghosts'
  BY <1>1, <1>2, GhostsAfterCalls DEF End
<1>4. how = "unsupported" => "direct" \notin effects'
  BY DEF TurnInv, LoopInv, Looping, Accounts
<1> QED
  BY <1>1, <1>2, <1>3, <1>4, EndInv

LEMMA CutOffInv == ASSUME TurnInv, CutOff PROVE TurnInv'
<1>1. PICK k \in 1..Attempts(FALSE) :
        /\ spent' = spent + k
        /\ Retry(Charged(mem, k), "cut") \/ NoRetry(Charged(mem, k), "cut", "truncated")
  BY DEF CutOff
<1>2. at = "asking" /\ effects' = effects
  BY DEF CutOff
<1> QED
  BY <1>1, <1>2, RetryInv, NoRetryInv DEF Guards, Outcomes

LEMMA AnswerInv == ASSUME TurnInv, Answer PROVE TurnInv'
<1>1. PICK k \in 1..Attempts(FALSE), looks \in Looks :
        LET m == Charged(mem, k) IN
        /\ spent' = spent + k
        /\ \/ /\ UnsourcedResource(m, looks)
              /\ Retry(m, "resource") \/ NoRetry(m, "resource", "unsourced")
           \/ /\ ~UnsourcedResource(m, looks) /\ UnsupportedAction(m, looks)
              /\ Retry(m, "action") \/ NoRetry(m, "action", "unsupported")
           \/ /\ AnswerStands(m, looks)
              /\ mem' = m /\ End("answered") /\ UNCHANGED retries
  BY DEF Answer
<1>2. at = "asking" /\ effects' = effects
  BY DEF Answer
<1>3. mem \in Memory /\ k \in Nat
  BY <1>1, AttemptsWithin DEF TurnInv, TurnTypeOK
<1>4. Charged(mem, k).effected = mem.effected
  BY <1>3, ChargedMemory
<1>5. CASE \E g \in Guards : Retry(Charged(mem, k), g)
  BY <1>1, <1>2, <1>5, RetryInv
<1>6. CASE NoRetry(Charged(mem, k), "resource", "unsourced")
  BY <1>1, <1>2, <1>6, NoRetryInv DEF Guards, Outcomes
<1>7. CASE UnsupportedAction(Charged(mem, k), looks) /\ NoRetry(Charged(mem, k), "action", "unsupported")
  BY <1>1, <1>2, <1>4, <1>7, NoRetryInv DEF Guards, Outcomes, UnsupportedAction
<1>8. CASE mem' = Charged(mem, k) /\ End("answered") /\ UNCHANGED retries
  <2>1. /\ mem' \in Memory /\ spent' \in Nat
        /\ spent' <= granted + Larger(1, MaxAttempts - 1)
    BY <1>1, <1>2, <1>8, Asked
  <2>2. Ghosts'
    BY <1>2, <1>8, <2>1, GhostsAfterCalls DEF End
  <2> QED
    BY <1>2, <1>8, <2>1, <2>2, EndInv DEF Outcomes
<1> QED
  BY <1>1, <1>5, <1>6, <1>7, <1>8 DEF Guards

LEMMA CallsToolsInv == ASSUME TurnInv, CallsTools PROVE TurnInv'
<1> USE BudgetAssumption
<1>1. PICK k \in 1..Attempts(FALSE), n \in 1..MaxBatch, terminal \in BOOLEAN :
        /\ mem' = [Charged(mem, k) EXCEPT !.open = n]
        /\ spent' = spent + k
        /\ run' = [run EXCEPT !.sole = n = 1 /\ ~mem.used /\ terminal]
  BY DEF CallsTools
<1>2. at = "asking" /\ Go("batch") /\ UNCHANGED <<retries, effects>>
  BY DEF CallsTools
<1>3. PICK m \in Memory :
        /\ m = Charged(mem, k)
        /\ m.calls <= run.calls /\ m.calls = spent' /\ m.open = 0
        /\ \A g \in Guards : retries[g] = IF g \in m.retried THEN 1 ELSE 0
        /\ "direct" \in effects => m.effected
        /\ spent' \in Nat /\ spent' <= granted + Larger(1, MaxAttempts - 1)
  BY <1>1, <1>2, Asked
<1>4. /\ mem' \in Memory /\ mem'.calls = m.calls /\ mem'.open = n
      /\ mem'.effected = m.effected /\ mem'.retried = m.retried
  BY <1>1, <1>3 DEF Memory
<1>5. Accounts(mem)'
  BY <1>2, <1>3, <1>4 DEF Accounts
<1>6. Ghosts'
  BY <1>2, <1>3, GhostsAfterCalls DEF Go
<1>7. run' \in Limits /\ run'.calls = run.calls
  <2>1. run \in Limits /\ mem.used \in BOOLEAN
    BY DEF TurnInv, TurnTypeOK, Memory
  <2> QED
    BY <1>1, <2>1 DEF Limits
<1> QED
  BY <1>2, <1>3, <1>4, <1>5, <1>6, <1>7, GoInv DEF Looping

-----------------------------------------------------------------------------
(***************************************************************************)
(* The boundary.                                                           *)
(***************************************************************************)
LEMMA GhostsUnchanged ==
    ASSUME TurnInv, UNCHANGED <<spent, granted, retries, effects>>
    PROVE  Ghosts'
BY DEF TurnInv, TurnTypeOK, Ghosts, SpentWithinGrant, RetriedOnce

LEMMA BoundaryInv == ASSUME TurnInv, Advance \/ LeaveLoop PROVE TurnInv'
<1>1. /\ at = "boundary" /\ mem \in Memory /\ run \in Limits
      /\ Accounts(mem) /\ mem.open = 0
  BY DEF Advance, LeaveLoop, TurnInv, TurnTypeOK, LoopInv, Looping
<1>2. /\ mem' \in Memory /\ mem'.calls = mem.calls /\ mem'.open = mem.open
      /\ mem'.effected = mem.effected /\ mem'.retried = mem.retried
  BY <1>1 DEF Advance, LeaveLoop, Memory
<1>3. PICK where \in {"asking", "closing"} :
        Go(where) /\ (where = "asking" => ~(mem.calls >= run.calls))
  BY DEF Advance, LeaveLoop, OutOfCalls
<1>4. UNCHANGED <<run, spent, granted, retries, effects>>
  BY DEF Advance, LeaveLoop, Go
<1>5. Accounts(mem)'
  BY <1>1, <1>2, <1>4 DEF Accounts
<1>6. Ghosts'
  BY <1>4, GhostsUnchanged
<1>7. where = "asking" => mem'.calls < run'.calls
  BY <1>1, <1>2, <1>3, <1>4 DEF Memory, Limits
<1> QED
  BY <1>1, <1>2, <1>3, <1>4, <1>5, <1>6, <1>7, GoInv DEF Looping

LEMMA ParkedInv == ASSUME TurnInv, PauseAtBoundary \/ ParkOnBudget PROVE TurnInv'
<1>1. /\ at \in {"boundary", "closing"} /\ UNCHANGED <<spent, retries, effects>>
      /\ Park(mem, "paused") \/ Park(mem, "budget")
  BY DEF PauseAtBoundary, ParkOnBudget
<1>2. PICK m \in Memory : m = mem
  BY DEF TurnInv, TurnTypeOK
<1>3. Accounts(m) /\ m.open = 0
  BY <1>1, <1>2 DEF TurnInv, LoopInv, Looping
<1>4. Accounts(m)'
  BY <1>1, <1>3 DEF Accounts
<1>5. Ghosts'
  BY <1>1, GhostsUnchanged DEF Park
<1> QED
  BY <1>1, <1>2, <1>3, <1>4, <1>5, ParkStepInv DEF Looping, Kinds

-----------------------------------------------------------------------------
(***************************************************************************)
(* The batch.                                                              *)
(***************************************************************************)
LEMMA InBatch ==
    ASSUME TurnInv, at = "batch"
    PROVE  /\ mem \in Memory /\ run \in Limits
           /\ Accounts(mem) /\ mem.calls <= run.calls /\ mem.open \in 1..MaxBatch
           /\ spent \in Nat /\ effects \subseteq {"direct", "confirmed"}
BY BudgetAssumption DEF TurnInv, TurnTypeOK, LoopInv, Looping, Memory

LEMMA AnsweredMemory ==
    ASSUME NEW m \in Memory, m.open \in 1..MaxBatch
    PROVE  /\ Answered(m) \in Memory
           /\ Answered(m).open = m.open - 1 /\ Answered(m).calls = m.calls
           /\ Answered(m).effected = m.effected /\ Answered(m).retried = m.retried
BY BudgetAssumption DEF Answered, Memory

\* The call that was handled is closed; the rest of the batch follows, or the
\* next boundary.
LEMMA NextCallInv ==
    ASSUME TurnInv, at = "batch", NEW m \in Memory, mem' = m, m.open \in Nat,
           m.calls = mem.calls, Go(AfterCall(m)), Accounts(m)',
           UNCHANGED <<run, spent, retries>>, effects' \subseteq {"direct", "confirmed"}
    PROVE  TurnInv'
<1>1. run \in Limits /\ mem.calls <= run.calls
  BY InBatch
<1>2. Ghosts'
  BY DEF TurnInv, TurnTypeOK, Ghosts, SpentWithinGrant, RetriedOnce, Go
<1>3. AfterCall(m) = (IF m.open = 0 THEN "boundary" ELSE "batch")
  BY DEF AfterCall
<1>4. Accounts(mem)'
  BY DEF Accounts
<1> QED
  BY <1>1, <1>2, <1>3, <1>4, GoInv DEF Looping

LEMMA CallNotRunInv == ASSUME TurnInv, CallNotRun PROVE TurnInv'
<1>1. /\ at = "batch" /\ mem' = Answered(mem) /\ Go(AfterCall(Answered(mem)))
      /\ UNCHANGED <<run, spent, retries, effects>>
  BY DEF CallNotRun
<1>2. PICK m \in Memory : m = Answered(mem)
  BY <1>1, InBatch, AnsweredMemory
<1>3. m.open \in Nat /\ m.calls = mem.calls /\ m.effected = mem.effected /\ m.retried = mem.retried
  BY <1>1, <1>2, InBatch, AnsweredMemory
<1>4. Accounts(m)'
  BY <1>1, <1>3, InBatch DEF Accounts
<1>5. effects' \subseteq {"direct", "confirmed"}
  BY <1>1, InBatch
<1> QED
  BY <1>1, <1>2, <1>3, <1>4, <1>5, NextCallInv

LEMMA RunToolInv == ASSUME TurnInv, RunTool PROVE TurnInv'
<1>1. PICK result \in Results :
        /\ mem' = Noted(mem, result)
        /\ effects' = effects \cup IF result = "effect" THEN {"direct"} ELSE {}
        /\ IF run.sole THEN End("answered") ELSE Go(AfterCall(Noted(mem, result))) /\ UNCHANGED run
  BY DEF RunTool
<1>2. at = "batch" /\ UNCHANGED <<spent, retries>>
  BY DEF RunTool
<1>3. PICK a \in Memory :
        /\ a = Answered(mem)
        /\ a.open \in Nat /\ a.calls = mem.calls
        /\ a.effected = mem.effected /\ a.retried = mem.retried
  BY <1>2, InBatch, AnsweredMemory
<1>b. PICK seen \in BOOLEAN, effected \in BOOLEAN :
        /\ seen = (a.seen \/ result # "failed")
        /\ effected = (a.effected \/ result = "effect")
  OBVIOUS
<1>n. Noted(mem, result) = [a EXCEPT !.used = TRUE, !.seen = seen, !.effected = effected]
  BY <1>b, <1>3, Zenon DEF Noted
<1>4. PICK m \in Memory :
        /\ m = Noted(mem, result)
        /\ m.open = a.open /\ m.calls = a.calls /\ m.retried = a.retried
        /\ m.effected = effected
  BY <1>3, <1>n DEF Memory
<1>5. effects' \subseteq {"direct", "confirmed"}
  BY <1>1, <1>2, InBatch
<1>6. CASE run.sole
  <2>1. Ghosts'
    BY <1>1, <1>2, <1>5, <1>6 DEF TurnInv, TurnTypeOK, Ghosts, SpentWithinGrant, RetriedOnce, End
  <2> QED
    BY <1>1, <1>2, <1>4, <1>6, <2>1, EndInv DEF Outcomes
<1>7. CASE ~run.sole
  <2>1. "direct" \in effects' => m.effected
    BY <1>1, <1>2, <1>3, <1>4, <1>b, InBatch DEF Accounts
  <2>2. Accounts(m)'
    BY <1>2, <1>3, <1>4, <2>1, InBatch DEF Accounts
  <2> QED
    BY <1>1, <1>2, <1>3, <1>4, <1>5, <1>7, <2>2, NextCallInv
<1> QED
  BY <1>6, <1>7

\* The phrasing of a preview may be one call over the budget.
LEMMA PreviewInv == ASSUME TurnInv, AskUserInJob \/ AskUserInChat PROVE TurnInv'
<1>1. at = "batch" /\ spent' = spent + 1 /\ UNCHANGED <<granted, retries, effects>>
  BY DEF AskUserInJob, AskUserInChat, Park, End
<1>2. PICK m \in Memory :
        /\ m = Charged(mem, 1) /\ m.calls = mem.calls + 1 /\ m.open = mem.open
        /\ m.effected = mem.effected /\ m.retried = mem.retried
  BY <1>1, InBatch, ChargedMemory
<1>3. m.calls = spent' /\ spent' \in Nat /\ spent' <= run.calls + 1
  BY <1>1, <1>2, InBatch DEF Accounts, Limits
<1>4. spent' <= granted + Larger(1, MaxAttempts - 1)
  BY <1>3, WithinGrant DEF TurnInv
<1>5. Ghosts'
  BY <1>1, <1>3, <1>4, GhostsAfterCalls
<1>6. CASE AskUserInJob
  <2>1. Park(m, "confirm")
    BY <1>2, <1>6 DEF AskUserInJob
  <2>2. Accounts(m)'
    BY <1>1, <1>2, <1>3, InBatch DEF Accounts
  <2>3. m.open >= 1
    BY <1>1, <1>2, InBatch
  <2> QED
    BY <1>1, <1>5, <2>1, <2>2, <2>3, ParkStepInv DEF Looping, Kinds
<1>7. CASE AskUserInChat
  BY <1>1, <1>2, <1>5, <1>7, EndInv DEF AskUserInChat, Outcomes
<1> QED
  BY <1>6, <1>7

-----------------------------------------------------------------------------
(***************************************************************************)
(* The end of the loop, the user, and the rest.                            *)
(***************************************************************************)
LEMMA FinalInv == ASSUME TurnInv, Finalize \/ FinalizerFails PROVE TurnInv'
<1>1. /\ at = "closing" /\ UNCHANGED <<granted, retries, effects>>
      /\ TurnTypeOK /\ run.calls <= granted /\ mem \in Memory /\ spent \in Nat
      /\ Accounts(mem)
  BY DEF Finalize, FinalizerFails, End, TurnInv, TurnTypeOK, LoopInv, Looping
<1>2. PICK k \in 1..Attempts(TRUE) : mem' = Charged(mem, k) /\ spent' = spent + k
  BY DEF Finalize, FinalizerFails
<1>3. k \in Nat /\ mem.calls + k <= granted + Larger(1, MaxAttempts - 1)
  BY <1>1, AttemptsWithin
<1>4. /\ mem' \in Memory /\ spent' \in Nat
      /\ spent' <= granted + Larger(1, MaxAttempts - 1)
  BY <1>1, <1>2, <1>3, ChargedMemory DEF Accounts
<1>5. Ghosts'
  BY <1>1, <1>4, GhostsAfterCalls
<1>6. PICK how \in Outcomes \ {"none"} : End(how) /\ (how = "unsupported" => ~mem.effected)
  <2>1. CASE Finalize
    BY <2>1 DEF Finalize, Outcomes, UnsupportedAction
  <2>2. CASE FinalizerFails
    BY <2>2 DEF FinalizerFails, Outcomes
  <2> QED
    BY <2>1, <2>2
<1>7. how = "unsupported" => "direct" \notin effects'
  BY <1>1, <1>6 DEF Accounts
<1> QED
  BY <1>1, <1>4, <1>5, <1>6, <1>7, EndInv

LEMMA JustEndsInv == ASSUME TurnInv, CallFailsClosed \/ GiveUp \/ Abandon PROVE TurnInv'
<1>1. at # "ended" /\ UNCHANGED <<mem, spent, granted, retries, effects>>
  BY DEF CallFailsClosed, GiveUp, Abandon, End
<1>2. PICK how \in Outcomes \ {"none", "unsupported"} : End(how)
  BY DEF CallFailsClosed, GiveUp, Abandon, Outcomes
<1>3. Ghosts' /\ mem' \in Memory
  BY <1>1, GhostsUnchanged DEF TurnInv, TurnTypeOK
<1> QED
  BY <1>1, <1>2, <1>3, EndInv

LEMMA TakenUpInv == ASSUME TurnInv, Resume \/ Extend \/ Finish PROVE TurnInv'
<1> USE BudgetAssumption
<1>1. at = "parked" /\ saved.kind # "confirm" /\ saved \in Snapshots
  BY DEF Resume, Extend, Finish, TurnInv, TurnTypeOK
<1>2. CASE Resume
  BY <1>1, <1>2, RestartInv DEF Resume
<1>3. CASE Extend
  <2>1. Raised(saved.steps) \in Nat /\ Raised(saved.calls) \in Nat
    BY <1>1 DEF Raised, Smaller, Snapshots
  <2> DEFINE s == [saved EXCEPT !.steps = Raised(@), !.calls = Raised(@)]
  <2>2. s \in Snapshots /\ s.mem = saved.mem
    BY <1>1, <2>1 DEF Snapshots
  <2> QED
    BY <1>1, <1>3, <2>2, RestartInv DEF Extend
<1>4. CASE Finish
  <2> DEFINE s == [saved EXCEPT !.finish = TRUE]
  <2>1. s \in Snapshots /\ s.mem = saved.mem
    BY <1>1 DEF Snapshots
  <2> QED
    BY <1>1, <1>4, <2>1, RestartInv DEF Finish
<1> QED
  BY <1>2, <1>3, <1>4

\* One answer for the frozen call and one for each call behind it: none is open.
LEMMA ResolveInv == ASSUME TurnInv, Resolve PROVE TurnInv'
<1>0. 0 \in 0..MaxBatch
  BY BudgetAssumption
<1>1. PICK result \in Results \cup {"notRun"} :
        /\ saved' = Resolved(saved, result # "notRun")
        /\ effects' = effects \cup IF result = "effect" THEN {"confirmed"} ELSE {}
  BY DEF Resolve
<1>2. /\ at = "parked" /\ saved.kind = "confirm"
      /\ UNCHANGED <<at, mem, run, detached, outcome, spent, granted, retries>>
  BY DEF Resolve
<1>3. /\ saved \in Snapshots /\ saved.mem \in Memory /\ Accounts(saved.mem)
      /\ saved.mem.open = saved.deferred + 1 /\ saved.deferred \in 0..MaxBatch
  BY <1>2 DEF TurnInv, TurnTypeOK, ParkInv, Snapshots
<1>b. PICK used \in BOOLEAN : used = (saved.mem.used \/ result # "notRun")
  OBVIOUS
<1>o. saved.mem.open - (1 + saved.deferred) = 0
  BY <1>3
<1> DEFINE n == [saved.mem EXCEPT !.used = used, !.open = 0]
<1>n. /\ n \in Memory /\ n.open = 0 /\ n.calls = saved.mem.calls
      /\ n.effected = saved.mem.effected /\ n.retried = saved.mem.retried
  <2>1. saved.mem \in Memory
    BY <1>3
  <2> QED
    BY <2>1, <1>0 DEF Memory
<1>4. PICK m \in Memory :
        /\ m = n
        /\ m.open = 0 /\ m.calls = saved.mem.calls
        /\ m.effected = saved.mem.effected /\ m.retried = saved.mem.retried
  BY <1>n
<1>5. saved' = [saved EXCEPT !.kind = "paused", !.deferred = 0, !.mem = m]
  <2>1. saved' = [saved EXCEPT !.kind = "paused", !.deferred = 0,
                    !.mem.used = saved.mem.used \/ result # "notRun",
                    !.mem.open = saved.mem.open - (1 + saved.deferred)]
    BY <1>1, <1>3 DEF Resolved
  <2>2. saved' = [saved EXCEPT !.kind = "paused", !.deferred = 0,
                    !.mem.used = used, !.mem.open = 0]
    BY <2>1, <1>b, <1>o, Zenon
  <2> QED
    BY <2>2, <1>3, <1>4 DEF Snapshots, Memory
<1>6. saved' \in Snapshots /\ saved'.mem = m /\ saved'.kind = "paused"
  <2>1. saved \in Snapshots
    BY <1>3
  <2> HIDE DEF n
  <2> QED
    BY <2>1, <1>0, <1>5 DEF Snapshots, Kinds
<1>7. effects' \subseteq {"direct", "confirmed"} /\ ("direct" \in effects' => "direct" \in effects)
  BY <1>1 DEF TurnInv, TurnTypeOK
<1>8. TurnTypeOK'
  BY <1>2, <1>6, <1>7 DEF TurnInv, TurnTypeOK
<1>9. LoopInv' /\ ParkInv'
  BY <1>2, <1>3, <1>4, <1>6, <1>7 DEF LoopInv, ParkInv, Looping, Accounts
<1>10. run'.calls <= granted' /\ SpentWithinGrant' /\ RetriedOnce' /\ RefusedHonestly'
  BY <1>2, <1>7 DEF TurnInv, SpentWithinGrant, RetriedOnce, RefusedHonestly
<1> QED
  BY <1>8, <1>9, <1>10 DEF TurnInv

LEMMA StaysInv == ASSUME TurnInv, Detach \/ UNCHANGED turnVars PROVE TurnInv'
<1>1. /\ UNCHANGED <<at, mem, run, saved, outcome, spent, granted, retries, effects>>
      /\ detached' \in BOOLEAN
  BY DEF Detach, turnVars, TurnInv, TurnTypeOK
<1> QED
  BY <1>1 DEF TurnInv, TurnTypeOK, LoopInv, ParkInv, Accounts, SpentWithinGrant,
              RetriedOnce, RefusedHonestly

LEMMA TurnStepInv == TurnInv /\ [TurnNext]_turnVars => TurnInv'
BY BoundaryInv, ParkedInv, AskEndsInv, CutOffInv, AnswerInv, CallsToolsInv, JustEndsInv,
   CallNotRunInv, RunToolInv, PreviewInv, FinalInv, TakenUpInv, ResolveInv, StaysInv
   DEF TurnNext, LoopStep, UserStep

-----------------------------------------------------------------------------
\* The memory of the loop and its snapshots have their shapes, whatever is kept.
THEOREM TurnTypesHold == TurnSpec => []TurnTypeOK
<1>1. TurnInv => TurnTypeOK
  BY DEF TurnInv
<1> QED
  BY TurnInitInv, TurnStepInv, <1>1, PTL DEF TurnSpec

\* The model is never shown a history with an unanswered tool call.
THEOREM HistoriesClosed == TurnSpec => []HistoryClosed
<1>1. TurnInv => HistoryClosed
  BY DEF TurnInv, LoopInv, Looping, HistoryClosed
<1> QED
  BY TurnInitInv, TurnStepInv, <1>1, PTL DEF TurnSpec

\* No way of parking and going on refills the budget of provider calls.
THEOREM SpentIsWithinGrant == TurnSpec => []SpentWithinGrant
<1>1. TurnInv => SpentWithinGrant
  BY DEF TurnInv
<1> QED
  BY TurnInitInv, TurnStepInv, <1>1, PTL DEF TurnSpec

\* Each corrective retry is made once in a job, pauses and confirmations included.
THEOREM RetriesAreOnce == TurnSpec => []RetriedOnce
<1>1. TurnInv => RetriedOnce
  BY DEF TurnInv
<1> QED
  BY TurnInitInv, TurnStepInv, <1>1, PTL DEF TurnSpec

\* A completion claim is not refused as unsupported in a job that changed
\* something by itself, in whichever stretch.
THEOREM RefusalsAreHonest == TurnSpec => []RefusedHonestly
<1>1. TurnInv => RefusedHonestly
  BY DEF TurnInv
<1> QED
  BY TurnInitInv, TurnStepInv, <1>1, PTL DEF TurnSpec
=============================================================================
