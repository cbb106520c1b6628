------------------------ MODULE Confirmations_proofs ------------------------
(***************************************************************************)
(* Proofs about Confirmations, for any number of tokens and of deciding    *)
(* tasks: what is told of a call is true, and the two tables together are  *)
(* the frozen call of FrozenCall.                                          *)
(***************************************************************************)
EXTENDS Confirmations, TLAPS

\* A task that withdraws only consumes; it may overlap with one that decides.
Busy(d, k) ==
    decider[d].pc # "idle" /\ decider[d].why # "withdraw" /\ decider[d].token = k

Spent(k) == pending[k] = NoRow(PendingTtl)

(***************************************************************************)
(* Only tokens that were put are decided about: those of a chat in the     *)
(* chat, perhaps by several tasks, those of the job by one task at a time, *)
(* beside the ones that withdraw it.                                       *)
(***************************************************************************)
DecidedOfPut ==
    \A d \in Deciders : decider[d].pc # "idle" =>
        /\ decider[d].token \in Tokens
        /\ asker[decider[d].token] = IF decider[d].why = "chat" THEN "chat" ELSE "job"
        /\ decider[d].pc # "consuming" => decider[d].why # "withdraw"

JobDecidesOnce ==
    /\ \A k \in Tokens : asker[k] = "job" =>
        /\ \A d, e \in Deciders : Busy(d, k) /\ Busy(e, k) => d = e
        /\ \A d \in Deciders : Busy(d, k) => runs[k] = 0
    /\ job.status \in {"parking", "awaiting"} =>
        /\ job.token \in Tokens /\ asker[job.token] = "job"
        /\ runs[job.token] = 0
        /\ \A d \in Deciders : ~Busy(d, job.token)

\* A call is held by one task at most, and then neither in the table nor run yet.
HeldOnce ==
    /\ \A k \in Tokens, d, e \in Deciders : Holds(d, k) /\ Holds(e, k) => d = e
    /\ \A k \in Tokens, d \in Deciders : Holds(d, k) => Spent(k) /\ runs[k] = 0

RunIsOver ==
    \A k \in Tokens :
        /\ runs[k] > 0 => Spent(k)
        /\ asker[k] = "nobody" => Spent(k) /\ runs[k] = 0 /\ told[k] = {}

\* What was said not to run is out of everybody's reach.
ToldNotRun ==
    \A k \in Tokens : "notRun" \in told[k] =>
        /\ runs[k] = 0 /\ Spent(k)
        /\ \A d \in Deciders : ~Holds(d, k)

ToldRan == \A k \in Tokens : "ran" \in told[k] => runs[k] = 1

ConfInv ==
    ConfTypeOK /\ DecidedOfPut /\ JobDecidesOnce /\ HeldOnce /\ RunIsOver /\ ToldNotRun /\ ToldRan

-----------------------------------------------------------------------------
LEMMA ConfInitInv == ConfInit => ConfInv
<1> SUFFICES ASSUME ConfInit PROVE ConfInv
  OBVIOUS
<1> USE ConfirmationAssumption DEF ConfInit
<1>1. ConfTypeOK
  BY DEF ConfTypeOK, Ages, NoRow, Job, Decider, Idle, Whys
<1>2. DecidedOfPut /\ JobDecidesOnce /\ HeldOnce
  BY DEF DecidedOfPut, JobDecidesOnce, HeldOnce, Busy, Holds, Idle
<1>3. RunIsOver /\ ToldNotRun /\ ToldRan
  BY DEF RunIsOver, ToldNotRun, ToldRan, Spent, Holds, Idle
<1> QED
  BY <1>1, <1>2, <1>3 DEF ConfInv

(***************************************************************************)
(* The tables: what is out of the table stays out, whatever purges or ages *)
(* it, and a row that is taken was in it.                                  *)
(***************************************************************************)
LEMMA PurgedTables ==
    ASSUME ConfTypeOK
    PROVE  /\ Purged \in [Tokens -> Ages(PendingTtl)]
           /\ PurgedClaims \in [Tokens -> Ages(Retention)]
           /\ \A k \in Tokens : Spent(k) => Purged[k] = NoRow(PendingTtl)
           /\ \A k \in Tokens : Purged[k] <= PendingTtl <=> pending[k] <= PendingTtl
           /\ \A k \in Tokens : Takeable(k) <=> pending[k] <= PendingTtl
<1> USE ConfirmationAssumption
<1>1. \A k \in Tokens : pending[k] \in Ages(PendingTtl) /\ claims[k] \in Ages(Retention)
  BY DEF ConfTypeOK
<1>2. NoRow(PendingTtl) \in Ages(PendingTtl) /\ NoRow(PendingTtl) > PendingTtl
      /\ NoRow(Retention) \in Ages(Retention)
      /\ Ages(PendingTtl) \subseteq Nat
  BY DEF NoRow, Ages
<1> QED
  BY <1>1, <1>2 DEF Purged, PurgedClaims, Takeable, Spent

LEMMA ConsumedTable ==
    ASSUME ConfTypeOK, NEW k \in Tokens
    PROVE  /\ Consumed(k) \in [Tokens -> Ages(PendingTtl)]
           /\ Consumed(k)[k] = NoRow(PendingTtl)
           /\ \A j \in Tokens : Spent(j) => Consumed(k)[j] = NoRow(PendingTtl)
           /\ \A j \in Tokens \ {k} : Consumed(k)[j] <= PendingTtl <=> pending[j] <= PendingTtl
<1> USE ConfirmationAssumption
<1>1. NoRow(PendingTtl) \in Ages(PendingTtl)
  BY DEF NoRow, Ages
<1> QED
  BY <1>1, PurgedTables DEF Consumed

LEMMA OlderTables ==
    ASSUME ConfTypeOK, Tick
    PROVE  /\ pending' \in [Tokens -> Ages(PendingTtl)]
           /\ claims' \in [Tokens -> Ages(Retention)]
           /\ \A k \in Tokens : Spent(k) => pending'[k] = NoRow(PendingTtl)
           /\ \A k \in Tokens : pending'[k] <= PendingTtl => pending[k] <= PendingTtl
<1> USE ConfirmationAssumption
<1>1. \A k \in Tokens : pending[k] \in Ages(PendingTtl) /\ claims[k] \in Ages(Retention)
  BY DEF ConfTypeOK
<1>2. ASSUME NEW l \in Nat, NEW a \in Ages(l)
      PROVE  /\ Older(a, l) \in Ages(l)
             /\ a = NoRow(l) => Older(a, l) = NoRow(l)
             /\ Older(a, l) <= l => a <= l
  BY DEF Older, Ages, NoRow
<1> QED
  BY <1>1, <1>2 DEF Tick, Spent

(***************************************************************************)
(* What a task does changes its own entry only.                            *)
(***************************************************************************)
LEMMA EntryOf ==
    ASSUME ConfTypeOK, NEW d \in Deciders, NEW r \in Decider,
           decider' = [decider EXCEPT ![d] = r]
    PROVE  /\ decider' \in [Deciders -> Decider]
           /\ decider'[d] = r
           /\ \A e \in Deciders \ {d} : decider'[e] = decider[e]
BY DEF ConfTypeOK

LEMMA ProceedEntry ==
    ASSUME ConfTypeOK, NEW d \in Deciders, NEW pc \in {"claiming", "running"}, Proceed(d, pc)
    PROVE  /\ decider' \in [Deciders -> Decider]
           /\ decider'[d].pc = pc /\ decider'[d].token = decider[d].token
           /\ decider'[d].why = decider[d].why
           /\ \A e \in Deciders \ {d} : decider'[e] = decider[e]
<1>1. decider[d] \in Decider
  BY DEF ConfTypeOK
<1>2. [decider[d] EXCEPT !.pc = pc] \in Decider
  BY <1>1 DEF Decider
<1>3. decider' = [decider EXCEPT ![d] = [decider[d] EXCEPT !.pc = pc]]
  BY DEF Proceed, ConfTypeOK
<1> QED
  BY <1>1, <1>2, <1>3, EntryOf DEF Decider

LEMMA DoneEntry ==
    ASSUME ConfTypeOK, NEW d \in Deciders, Done(d)
    PROVE  /\ decider' \in [Deciders -> Decider]
           /\ decider'[d].pc = "idle"
           /\ \A e \in Deciders \ {d} : decider'[e] = decider[e]
<1>1. Idle \in Decider
  BY DEF Idle, Decider, Whys
<1>2. decider' = [decider EXCEPT ![d] = Idle]
  BY DEF Done
<1> QED
  BY <1>1, <1>2, EntryOf DEF Idle

LEMMA DoneFrees ==
    ASSUME ConfInv, NEW d \in Deciders, Done(d), asker' = asker
    PROVE  /\ DecidedOfPut'
           /\ \A e \in Deciders, k \in Tokens :
                /\ Busy(e, k)' => e # d /\ Busy(e, k)
                /\ Holds(e, k)' => e # d /\ Holds(e, k)
<1>1. ConfTypeOK /\ DecidedOfPut
  BY DEF ConfInv
<1>2. /\ decider'[d].pc = "idle"
      /\ \A e \in Deciders \ {d} : decider'[e] = decider[e]
  BY <1>1, DoneEntry
<1> QED
  BY <1>1, <1>2 DEF DecidedOfPut, Busy, Holds

LEMMA ProceedKeeps ==
    ASSUME ConfInv, NEW d \in Deciders, NEW pc \in {"claiming", "running"}, Proceed(d, pc),
           decider[d].pc # "idle", decider[d].why # "withdraw", asker' = asker
    PROVE  /\ DecidedOfPut'
           /\ \A e \in Deciders, k \in Tokens :
                /\ Busy(e, k)' => Busy(e, k)
                /\ Holds(e, k)' => Holds(e, k) \/ (e = d /\ k = decider[d].token)
<1>1. ConfTypeOK /\ DecidedOfPut
  BY DEF ConfInv
<1>2. /\ decider'[d].pc = pc /\ decider'[d].token = decider[d].token
      /\ decider'[d].why = decider[d].why
      /\ \A e \in Deciders \ {d} : decider'[e] = decider[e]
  BY <1>1, ProceedEntry
<1> QED
  BY <1>1, <1>2 DEF DecidedOfPut, Busy, Holds

\* The job of a decision that ends waits for no token.
LEMMA JobAfter ==
    ASSUME ConfInv, NEW d \in Deciders, AnswerJob(d)
    PROVE  job' \in Job /\ (job'.status \in {"parking", "awaiting"} => job' = job)
BY DEF ConfInv, ConfTypeOK, AnswerJob, Job

-----------------------------------------------------------------------------
(***************************************************************************)
(* Somebody asks.                                                          *)
(***************************************************************************)
LEMMA PutInv ==
    ASSUME ConfInv, NEW k \in Tokens, NEW who \in {"chat", "job"}, Put(k, who),
           UNCHANGED <<claims, decider, runs, told>>,
           job' = job \/ (who = "job" /\ job' = [status |-> "parking", token |-> k])
    PROVE  ConfInv'
<1> USE ConfirmationAssumption
<1>t. ConfTypeOK /\ DecidedOfPut /\ JobDecidesOnce /\ HeldOnce /\ RunIsOver /\ ToldNotRun /\ ToldRan
  BY DEF ConfInv
<1>1. /\ asker[k] = "nobody" /\ asker' = [asker EXCEPT ![k] = who]
      /\ pending' = [pending EXCEPT ![k] = 0]
  BY DEF Put
<1>2. /\ \A d \in Deciders : ~Busy(d, k) /\ ~Holds(d, k)
      /\ \A d \in Deciders : decider[d].pc # "idle" => decider[d].token # k
      /\ runs[k] = 0 /\ told[k] = {}
  BY <1>1, <1>t DEF DecidedOfPut, Busy, Holds, RunIsOver
<1>3. /\ pending' \in [Tokens -> Ages(PendingTtl)]
      /\ asker' \in [Tokens -> {"nobody", "chat", "job"}]
      /\ asker'[k] = who
      /\ \A j \in Tokens \ {k} : pending'[j] = pending[j] /\ asker'[j] = asker[j]
  BY <1>1, <1>t DEF ConfTypeOK, Ages, NoRow
<1>4. job' \in Job
  BY <1>t DEF ConfTypeOK, Job
<1>5. ConfTypeOK'
  BY <1>3, <1>4, <1>t DEF ConfTypeOK
<1>6. \A d \in Deciders, j \in Tokens :
        /\ Busy(d, j)' <=> Busy(d, j)
        /\ Holds(d, j)' <=> Holds(d, j)
  BY DEF Busy, Holds
<1>7. DecidedOfPut'
  BY <1>2, <1>3, <1>t DEF DecidedOfPut
<1>8. JobDecidesOnce'
  <2>1. \A j \in Tokens : asker'[j] = "job" =>
          /\ \A d, e \in Deciders : Busy(d, j)' /\ Busy(e, j)' => d = e
          /\ \A d \in Deciders : Busy(d, j)' => runs'[j] = 0
    BY <1>2, <1>3, <1>6, <1>t DEF JobDecidesOnce
  <2>2. job'.status \in {"parking", "awaiting"} =>
          /\ job'.token \in Tokens /\ asker'[job'.token] = "job"
          /\ runs'[job'.token] = 0
          /\ \A d \in Deciders : ~Busy(d, job.token)'
    <3>1. CASE job' = job
      <4>1. job.status \in {"parking", "awaiting"} => job.token \in Tokens \ {k}
        BY <1>1, <1>t DEF JobDecidesOnce
      <4> QED
        BY <3>1, <4>1, <1>3, <1>6, <1>t DEF JobDecidesOnce
    <3>2. CASE who = "job" /\ job' = [status |-> "parking", token |-> k]
      BY <3>2, <1>2, <1>3, <1>6
    <3> QED
      BY <3>1, <3>2
  <2> QED
    BY <2>1, <2>2 DEF JobDecidesOnce
<1>9. HeldOnce' /\ RunIsOver' /\ ToldNotRun' /\ ToldRan'
  <2>1. \A j \in Tokens \ {k} : Spent(j)' <=> Spent(j)
    BY <1>3 DEF Spent
  <2>2. HeldOnce'
    BY <2>1, <1>2, <1>6, <1>t DEF HeldOnce
  <2>3. RunIsOver'
    BY <2>1, <1>2, <1>3, <1>t DEF RunIsOver
  <2>4. ToldNotRun' /\ ToldRan'
    BY <2>1, <1>2, <1>6, <1>t DEF ToldNotRun, ToldRan
  <2> QED
    BY <2>2, <2>3, <2>4
<1> QED
  BY <1>5, <1>7, <1>8, <1>9 DEF ConfInv

(***************************************************************************)
(* Somebody begins to decide.                                              *)
(***************************************************************************)
LEMMA StartInv ==
    ASSUME ConfInv, NEW d \in Deciders, NEW why \in Whys, NEW k \in Tokens, Start(d, why, k),
           \/ why = "chat" /\ asker[k] = "chat" /\ job' = job
           \/ /\ why # "chat" /\ job.status = "awaiting" /\ k = job.token /\ job' \in Job
              /\ job'.status \in {"parking", "awaiting"} => why = "withdraw" /\ job' = job
    PROVE  ConfInv'
<1>t. ConfTypeOK /\ DecidedOfPut /\ JobDecidesOnce /\ HeldOnce /\ RunIsOver /\ ToldNotRun /\ ToldRan
  BY DEF ConfInv
<1>1. /\ decider[d].pc = "idle"
      /\ decider' = [decider EXCEPT ![d] = [pc |-> "consuming", why |-> why, token |-> k]]
      /\ UNCHANGED <<pending, claims, asker, runs, told>>
  BY DEF Start
<1>2. [pc |-> "consuming", why |-> why, token |-> k] \in Decider
  BY DEF Decider
<1>3. /\ decider' \in [Deciders -> Decider]
      /\ decider'[d] = [pc |-> "consuming", why |-> why, token |-> k]
      /\ \A e \in Deciders \ {d} : decider'[e] = decider[e]
  BY <1>1, <1>2, <1>t, EntryOf
<1>4. \A e \in Deciders, j \in Tokens :
        /\ Busy(e, j)' => (Busy(e, j) /\ e # d) \/ (e = d /\ j = k /\ why # "withdraw")
        /\ Holds(e, j)' => Holds(e, j)
  BY <1>1, <1>3 DEF Busy, Holds
<1>5. /\ asker[k] = IF why = "chat" THEN "chat" ELSE "job"
      /\ why # "chat" => runs[k] = 0 /\ \A e \in Deciders : ~Busy(e, k)
  BY <1>t DEF JobDecidesOnce
<1>6. ConfTypeOK'
  BY <1>1, <1>3, <1>t DEF ConfTypeOK
<1>7. DecidedOfPut'
  BY <1>1, <1>3, <1>5, <1>t DEF DecidedOfPut
<1>8. JobDecidesOnce'
  <2>1. \A j \in Tokens : asker'[j] = "job" =>
          /\ \A e, f \in Deciders : Busy(e, j)' /\ Busy(f, j)' => e = f
          /\ \A e \in Deciders : Busy(e, j)' => runs'[j] = 0
    BY <1>1, <1>4, <1>5, <1>t DEF JobDecidesOnce
  <2>2. job'.status \in {"parking", "awaiting"} =>
          /\ job'.token \in Tokens /\ asker'[job'.token] = "job"
          /\ runs'[job'.token] = 0
          /\ \A e \in Deciders : ~Busy(e, job.token)'
    <3> SUFFICES ASSUME why \in {"chat", "withdraw"}, job' = job,
                        job.status \in {"parking", "awaiting"}
                 PROVE  /\ job.token \in Tokens /\ asker'[job.token] = "job"
                        /\ runs'[job.token] = 0
                        /\ \A e \in Deciders : ~Busy(e, job.token)'
      BY Zenon
    <3> QED
      BY <1>1, <1>4, <1>5, <1>t DEF JobDecidesOnce
  <2> QED
    BY <2>1, <2>2 DEF JobDecidesOnce
<1>9. HeldOnce' /\ RunIsOver' /\ ToldNotRun' /\ ToldRan'
  BY <1>1, <1>4, <1>t DEF HeldOnce, RunIsOver, ToldNotRun, ToldRan, Spent
<1> QED
  BY <1>6, <1>7, <1>8, <1>9 DEF ConfInv

(***************************************************************************)
(* A task takes the call, or finds that it is not there, or is not to run. *)
(***************************************************************************)
LEMMA ConsumeInv ==
    ASSUME ConfInv, NEW d \in Deciders, Consume(d)
    PROVE  ConfInv'
<1>t. ConfTypeOK /\ DecidedOfPut /\ JobDecidesOnce /\ HeldOnce /\ RunIsOver /\ ToldNotRun /\ ToldRan
  BY DEF ConfInv
<1>k. PICK k \in Tokens : k = decider[d].token
  BY <1>t DEF Consume, DecidedOfPut
<1>1. /\ decider[d].pc = "consuming" /\ k \in Tokens
      /\ decider[d].why # "withdraw" => Busy(d, k)
      /\ asker[k] = IF decider[d].why = "chat" THEN "chat" ELSE "job"
      /\ pending' = Consumed(k)
      /\ UNCHANGED <<claims, asker, runs>>
  BY <1>k, <1>t DEF Consume, DecidedOfPut, Busy
<1>2. /\ pending' \in [Tokens -> Ages(PendingTtl)]
      /\ Spent(k)'
      /\ \A j \in Tokens : Spent(j) => Spent(j)'
  BY <1>1, <1>t, ConsumedTable DEF Spent
<1>3. RunIsOver' \/ told' # told
  BY <1>1, <1>2, <1>t DEF RunIsOver
<1>4. CASE decider[d].why \in {"chat", "approve"} /\ Takeable(k)
  <2>1. Proceed(d, "claiming") /\ UNCHANGED <<job, told>>
    BY <1>4, <1>k DEF Consume
  <2>2. ~Spent(k) /\ runs[k] = 0 /\ "notRun" \notin told[k] /\ \A e \in Deciders : ~Holds(e, k)
    <3>1. ~Spent(k)
      BY <1>4, <1>1, <1>t, PurgedTables, ConfirmationAssumption DEF Spent, NoRow
    <3>2. runs[k] \in 0..1
      BY <1>1, <1>t DEF ConfTypeOK
    <3> QED
      BY <3>1, <3>2, <1>1, <1>t DEF RunIsOver, ToldNotRun, HeldOnce
  <2>3. /\ decider' \in [Deciders -> Decider]
        /\ DecidedOfPut'
        /\ \A e \in Deciders, j \in Tokens :
             /\ Busy(e, j)' => Busy(e, j)
             /\ Holds(e, j)' => Holds(e, j) \/ (e = d /\ j = k)
    <3>1. decider[d].why # "withdraw"
      BY <1>4
    <3> QED
      BY <3>1, <2>1, <1>k, <1>1, <1>t, ProceedEntry, ProceedKeeps
  <2>4. ConfTypeOK'
    BY <2>1, <2>3, <1>1, <1>2, <1>t DEF ConfTypeOK
  <2>5. JobDecidesOnce'
    BY <2>1, <2>3, <1>1, <1>t DEF JobDecidesOnce
  <2>6. HeldOnce'
    BY <2>2, <2>3, <1>1, <1>2, <1>t DEF HeldOnce
  <2>7. ToldNotRun' /\ ToldRan'
    BY <2>1, <2>2, <2>3, <1>1, <1>2, <1>t DEF ToldNotRun, ToldRan
  <2> QED
    BY <2>1, <2>3, <2>4, <2>5, <2>6, <2>7, <1>3 DEF ConfInv
<1>5. CASE ~(decider[d].why \in {"chat", "approve"} /\ Takeable(k))
  <2>1. /\ Done(d) /\ AnswerJob(d)
        /\ \/ decider[d].why \in {"approve", "decline"} /\ Tell(k, "notRun")
           \/ UNCHANGED told
    BY <1>5, <1>k DEF Consume
  <2>2. /\ decider' \in [Deciders -> Decider]
        /\ DecidedOfPut'
        /\ \A e \in Deciders, j \in Tokens :
             /\ Busy(e, j)' => e # d /\ Busy(e, j)
             /\ Holds(e, j)' => e # d /\ Holds(e, j)
        /\ job' \in Job /\ (job'.status \in {"parking", "awaiting"} => job' = job)
    BY <2>1, <1>1, <1>t, DoneEntry, DoneFrees, JobAfter
  <2>3. /\ told' \in [Tokens -> SUBSET {"ran", "notRun"}]
        /\ \A j \in Tokens : told'[j] = told[j]
            \/ /\ j = k /\ told'[j] = told[j] \cup {"notRun"}
               /\ decider[d].why \in {"approve", "decline"}
    BY <2>1, <1>1, <1>t DEF Tell, ConfTypeOK
  <2>4. ConfTypeOK'
    BY <2>2, <2>3, <1>1, <1>2, <1>t DEF ConfTypeOK
  <2>5. JobDecidesOnce'
    BY <2>2, <1>1, <1>t DEF JobDecidesOnce
  <2>6. HeldOnce'
    BY <2>2, <1>1, <1>2, <1>t DEF HeldOnce
  <2>7. decider[d].why \in {"approve", "decline"} =>
          runs[k] = 0 /\ asker[k] = "job" /\ \A e \in Deciders : Busy(e, k) => e = d
    BY <1>1, <1>t DEF JobDecidesOnce
  <2>8. RunIsOver'
    BY <2>3, <2>7, <1>1, <1>2, <1>t DEF RunIsOver
  <2>9. ToldNotRun' /\ ToldRan'
    <3>1. \A e \in Deciders : Holds(e, k)' => Busy(e, k) /\ e # d
      BY <2>2, <1>1, <1>t DEF Holds, Busy, DecidedOfPut
    <3>2. ToldNotRun'
      BY <3>1, <2>2, <2>3, <2>7, <1>1, <1>2, <1>t DEF ToldNotRun
    <3>3. ToldRan'
      BY <2>3, <2>7, <1>1, <1>t DEF ToldRan
    <3> QED
      BY <3>2, <3>3
  <2> QED
    BY <2>2, <2>4, <2>5, <2>6, <2>8, <2>9 DEF ConfInv
<1> QED
  BY <1>4, <1>5

\* A holder claims, and goes on to run the call.
LEMMA ClaimInv ==
    ASSUME ConfInv, NEW d \in Deciders, Claim(d)
    PROVE  ConfInv'
<1>t. ConfTypeOK /\ DecidedOfPut /\ JobDecidesOnce /\ HeldOnce /\ RunIsOver /\ ToldNotRun /\ ToldRan
  BY DEF ConfInv
<1>k. PICK k \in Tokens : k = decider[d].token
  BY <1>t DEF Claim, DecidedOfPut
<1>p. claims' = [PurgedClaims EXCEPT ![k] = 0]
  BY <1>k DEF Claim
<1>1. /\ decider[d].pc = "claiming" /\ decider[d].why # "withdraw" /\ Holds(d, k)
      /\ Proceed(d, "running")
      /\ UNCHANGED <<pending, asker, job, runs, told>>
  BY <1>k, <1>t DEF Claim, DecidedOfPut, Holds
<1>2. /\ decider' \in [Deciders -> Decider]
      /\ DecidedOfPut'
      /\ \A e \in Deciders, j \in Tokens :
           /\ Busy(e, j)' => Busy(e, j)
           /\ Holds(e, j)' => Holds(e, j)
  BY <1>k, <1>1, <1>t, ProceedEntry, ProceedKeeps
<1>3. claims' \in [Tokens -> Ages(Retention)]
  BY <1>p, <1>t, PurgedTables, ConfirmationAssumption DEF Ages, NoRow
<1>4. ConfTypeOK'
  BY <1>1, <1>2, <1>3, <1>t DEF ConfTypeOK
<1>5. JobDecidesOnce'
  BY <1>1, <1>2, <1>t DEF JobDecidesOnce
<1>6. HeldOnce' /\ RunIsOver' /\ ToldNotRun' /\ ToldRan'
  BY <1>1, <1>2, <1>t DEF HeldOnce, RunIsOver, ToldNotRun, ToldRan, Spent
<1> QED
  BY <1>2, <1>4, <1>5, <1>6 DEF ConfInv

(***************************************************************************)
(* A holder is done: the call has been run, or is not to run.              *)
(***************************************************************************)
LEMMA HolderDone ==
    ASSUME ConfInv, NEW d \in Deciders, decider[d].pc \in {"claiming", "running"},
           NEW what \in {"ran", "notRun"},
           Done(d), AnswerJob(d), Tell(decider[d].token, what),
           claims' \in [Tokens -> Ages(Retention)], UNCHANGED <<pending, asker>>,
           runs' = IF what = "ran" THEN [runs EXCEPT ![decider[d].token] = @ + 1] ELSE runs
    PROVE  ConfInv'
<1>t. ConfTypeOK /\ DecidedOfPut /\ JobDecidesOnce /\ HeldOnce /\ RunIsOver /\ ToldNotRun /\ ToldRan
  BY DEF ConfInv
<1>k. PICK k \in Tokens : k = decider[d].token
  BY <1>t DEF DecidedOfPut
<1>1. k \in Tokens /\ Holds(d, k) /\ Busy(d, k) /\ asker[k] # "nobody"
  BY <1>k, <1>t DEF DecidedOfPut, Holds, Busy
<1>2. /\ Spent(k) /\ runs[k] = 0
      /\ \A e \in Deciders : Holds(e, k) => e = d
  BY <1>1, <1>t DEF HeldOnce
<1>3. "notRun" \notin told[k] /\ "ran" \notin told[k]
  BY <1>1, <1>2, <1>t DEF ToldNotRun, ToldRan
<1>4. /\ runs' \in [Tokens -> 0..1]
      /\ runs'[k] = (IF what = "ran" THEN 1 ELSE 0)
      /\ \A j \in Tokens \ {k} : runs'[j] = runs[j]
  BY <1>k, <1>1, <1>2, <1>t DEF ConfTypeOK
<1>5. /\ told' \in [Tokens -> SUBSET {"ran", "notRun"}]
      /\ told'[k] = told[k] \cup {what}
      /\ \A j \in Tokens \ {k} : told'[j] = told[j]
  BY <1>k, <1>1, <1>t DEF Tell, ConfTypeOK
<1>6. /\ decider' \in [Deciders -> Decider]
      /\ DecidedOfPut'
      /\ \A e \in Deciders, j \in Tokens :
           /\ Busy(e, j)' => e # d /\ Busy(e, j)
           /\ Holds(e, j)' => e # d /\ Holds(e, j)
      /\ job' \in Job /\ (job'.status \in {"parking", "awaiting"} => job' = job)
  BY <1>t, DoneEntry, DoneFrees, JobAfter
<1>7. ConfTypeOK'
  BY <1>4, <1>5, <1>6, <1>t DEF ConfTypeOK
<1>8. JobDecidesOnce'
  <2>1. \A j \in Tokens : asker'[j] = "job" =>
          /\ \A e, f \in Deciders : Busy(e, j)' /\ Busy(f, j)' => e = f
          /\ \A e \in Deciders : Busy(e, j)' => j # k /\ runs[j] = 0
    BY <1>1, <1>6, <1>t DEF JobDecidesOnce
  <2>2. job'.status \in {"parking", "awaiting"} =>
          /\ job'.token \in Tokens \ {k} /\ asker'[job'.token] = "job"
          /\ runs[job'.token] = 0
          /\ \A e \in Deciders : ~Busy(e, job.token)'
    BY <1>1, <1>6, <1>t DEF JobDecidesOnce
  <2> QED
    BY <2>1, <2>2, <1>4 DEF JobDecidesOnce
<1>9. HeldOnce'
  <2>1. \A e \in Deciders : ~Holds(e, k)'
    BY <1>2, <1>6
  <2> QED
    BY <2>1, <1>4, <1>6, <1>t DEF HeldOnce, Spent
<1>10. RunIsOver'
  BY <1>1, <1>2, <1>4, <1>5, <1>t DEF RunIsOver, Spent
<1>11. ToldNotRun'
  BY <1>2, <1>3, <1>4, <1>5, <1>6, <1>t DEF ToldNotRun, Spent
<1>12. ToldRan'
  BY <1>3, <1>4, <1>5, <1>t DEF ToldRan
<1> QED
  BY <1>6, <1>7, <1>8, <1>9, <1>10, <1>11, <1>12 DEF ConfInv

LEMMA ClaimRefusedInv ==
    ASSUME ConfInv, NEW d \in Deciders, ClaimRefused(d)
    PROVE  ConfInv'
<1>1. claims' \in [Tokens -> Ages(Retention)]
  BY PurgedTables DEF ClaimRefused, ConfInv, ConfTypeOK
<1> QED
  BY <1>1, HolderDone DEF ClaimRefused

LEMMA RunInv ==
    ASSUME ConfInv, NEW d \in Deciders, Run(d)
    PROVE  ConfInv'
<1>1. claims' \in [Tokens -> Ages(Retention)]
  BY DEF Run, ConfInv, ConfTypeOK
<1> QED
  BY <1>1, HolderDone DEF Run

(***************************************************************************)
(* Time, pruning, death, and the other moves of the job.                   *)
(***************************************************************************)
LEMMA TablesAgeInv ==
    ASSUME ConfInv, Tick \/ Prune
    PROVE  ConfInv'
<1>t. ConfTypeOK /\ DecidedOfPut /\ JobDecidesOnce /\ HeldOnce /\ RunIsOver /\ ToldNotRun /\ ToldRan
  BY DEF ConfInv
<1>1. UNCHANGED <<asker, job, decider, runs, told>>
  BY DEF Tick, Prune
<1>2. /\ pending' \in [Tokens -> Ages(PendingTtl)]
      /\ claims' \in [Tokens -> Ages(Retention)]
      /\ \A k \in Tokens : Spent(k) => Spent(k)'
  BY <1>t, OlderTables, PurgedTables DEF Prune, Spent
<1>3. ConfTypeOK'
  BY <1>1, <1>2, <1>t DEF ConfTypeOK
<1>4. \A d \in Deciders, k \in Tokens : (Busy(d, k)' <=> Busy(d, k)) /\ (Holds(d, k)' <=> Holds(d, k))
  BY <1>1 DEF Busy, Holds
<1>5. DecidedOfPut' /\ JobDecidesOnce'
  BY <1>1, <1>4, <1>t DEF DecidedOfPut, JobDecidesOnce, Busy
<1>6. HeldOnce' /\ RunIsOver' /\ ToldNotRun' /\ ToldRan'
  BY <1>1, <1>2, <1>4, <1>t DEF HeldOnce, RunIsOver, ToldNotRun, ToldRan
<1> QED
  BY <1>3, <1>5, <1>6 DEF ConfInv

LEMMA DieInv ==
    ASSUME ConfInv, NEW d \in Deciders, Die(d)
    PROVE  ConfInv'
<1>t. ConfTypeOK /\ DecidedOfPut /\ JobDecidesOnce /\ HeldOnce /\ RunIsOver /\ ToldNotRun /\ ToldRan
  BY DEF ConfInv
<1>1. Done(d) /\ UNCHANGED <<pending, claims, asker, runs, told>>
  BY DEF Die
<1>2. job' \in Job /\ (job'.status \in {"parking", "awaiting"} => job' = job)
  BY <1>t DEF Die, ConfTypeOK, Job
<1>3. /\ decider' \in [Deciders -> Decider]
      /\ DecidedOfPut'
      /\ \A e \in Deciders, j \in Tokens :
           /\ Busy(e, j)' => e # d /\ Busy(e, j)
           /\ Holds(e, j)' => e # d /\ Holds(e, j)
  BY <1>1, <1>t, DoneEntry, DoneFrees
<1>4. ConfTypeOK'
  BY <1>1, <1>2, <1>3, <1>t DEF ConfTypeOK
<1>5. JobDecidesOnce'
  BY <1>1, <1>2, <1>3, <1>t DEF JobDecidesOnce
<1>6. HeldOnce' /\ RunIsOver' /\ ToldNotRun' /\ ToldRan'
  BY <1>1, <1>3, <1>t DEF HeldOnce, RunIsOver, ToldNotRun, ToldRan, Spent
<1> QED
  BY <1>3, <1>4, <1>5, <1>6 DEF ConfInv

LEMMA JobMovesInv ==
    ASSUME ConfInv, ParkJob \/ JobEnds \/ UNCHANGED confVars
    PROVE  ConfInv'
<1>t. ConfTypeOK /\ DecidedOfPut /\ JobDecidesOnce /\ HeldOnce /\ RunIsOver /\ ToldNotRun /\ ToldRan
  BY DEF ConfInv
<1>1. UNCHANGED <<pending, claims, asker, decider, runs, told>>
  BY DEF ParkJob, JobEnds, confVars
<1>2. /\ job' \in Job
      /\ job'.status \in {"parking", "awaiting"} =>
            job.status \in {"parking", "awaiting"} /\ job'.token = job.token
  BY <1>t DEF ParkJob, JobEnds, confVars, ConfTypeOK, Job
<1>3. ConfTypeOK'
  BY <1>1, <1>2, <1>t DEF ConfTypeOK
<1>4. \A d \in Deciders, k \in Tokens : (Busy(d, k)' <=> Busy(d, k)) /\ (Holds(d, k)' <=> Holds(d, k))
  BY <1>1 DEF Busy, Holds
<1>5. DecidedOfPut'
  BY <1>1, <1>t DEF DecidedOfPut
<1>6. JobDecidesOnce'
  <2>1. job'.status \in {"parking", "awaiting"} => \A d \in Deciders : ~Busy(d, job.token)'
    BY <1>1, <1>2, <1>t DEF JobDecidesOnce, Busy
  <2> QED
    BY <2>1, <1>1, <1>2, <1>4, <1>t DEF JobDecidesOnce
<1>7. HeldOnce' /\ RunIsOver' /\ ToldNotRun' /\ ToldRan'
  BY <1>1, <1>4, <1>t DEF HeldOnce, RunIsOver, ToldNotRun, ToldRan, Spent
<1> QED
  BY <1>3, <1>5, <1>6, <1>7 DEF ConfInv

LEMMA AskedInv ==
    ASSUME ConfInv, NEW k \in Tokens, AskInChat(k) \/ AskInJob(k)
    PROVE  ConfInv'
BY PutInv DEF AskInChat, AskInJob

LEMMA DecidingInv ==
    ASSUME ConfInv, NEW d \in Deciders,
           (\E k \in Tokens : ConfirmInChat(d, k)) \/ ResolveJob(d) \/ WithdrawJob(d)
    PROVE  ConfInv'
<1>1. job \in Job /\ (job.status = "awaiting" => job.token \in Tokens)
  BY DEF ConfInv, ConfTypeOK, JobDecidesOnce
<1>2. ASSUME NEW k \in Tokens, ConfirmInChat(d, k)
      PROVE  ConfInv'
  BY <1>2, StartInv DEF ConfirmInChat, Whys
<1>3. ASSUME ResolveJob(d)
      PROVE  ConfInv'
  <2>1. PICK why \in {"approve", "decline"} : Start(d, why, job.token)
    BY <1>3 DEF ResolveJob
  <2>2. job' \in Job /\ job'.status = "resolving" /\ job.status = "awaiting"
    BY <1>1, <1>3 DEF ResolveJob, Job
  <2>3. PICK k \in Tokens : k = job.token
    BY <1>1, <2>2
  <2> QED
    BY <2>1, <2>2, <2>3, StartInv DEF Whys
<1>4. ASSUME WithdrawJob(d)
      PROVE  ConfInv'
  <2>1. Start(d, "withdraw", job.token)
    BY <1>4 DEF WithdrawJob
  <2>2. /\ job' \in Job /\ job.status = "awaiting"
        /\ job'.status = "over" \/ job' = job
    BY <1>1, <1>4 DEF WithdrawJob, Job
  <2>3. PICK k \in Tokens : k = job.token
    BY <1>1, <2>2
  <2> QED
    BY <2>1, <2>2, <2>3, StartInv DEF Whys
<1> QED
  BY <1>2, <1>3, <1>4

LEMMA ConfStepInv == ConfInv /\ [ConfNext]_confVars => ConfInv'
<1> SUFFICES ASSUME ConfInv, [ConfNext]_confVars
             PROVE  ConfInv'
  OBVIOUS
<1>1. CASE \E k \in Tokens : AskInChat(k) \/ AskInJob(k)
  BY <1>1, AskedInv
<1>2. CASE \E d \in Deciders :
              (\E k \in Tokens : ConfirmInChat(d, k)) \/ ResolveJob(d) \/ WithdrawJob(d)
  BY <1>2, DecidingInv
<1>3. CASE \E d \in Deciders : Consume(d)
  BY <1>3, ConsumeInv
<1>4. CASE \E d \in Deciders : Claim(d)
  BY <1>4, ClaimInv
<1>5. CASE \E d \in Deciders : ClaimRefused(d)
  BY <1>5, ClaimRefusedInv
<1>6. CASE \E d \in Deciders : Run(d)
  BY <1>6, RunInv
<1>7. CASE \E d \in Deciders : Die(d)
  BY <1>7, DieInv
<1>8. CASE Tick \/ Prune
  BY <1>8, TablesAgeInv
<1>9. CASE ParkJob \/ JobEnds \/ UNCHANGED confVars
  BY <1>9, JobMovesInv
<1> QED
  BY <1>1, <1>2, <1>3, <1>4, <1>5, <1>6, <1>7, <1>8, <1>9 DEF ConfNext

-----------------------------------------------------------------------------
\* Tables, claims and tasks have their shapes, and no call runs twice.
THEOREM ConfTypesHold == ConfSpec => []ConfTypeOK
<1>1. ConfInv => ConfTypeOK
  BY DEF ConfInv
<1> QED
  BY ConfInitInv, ConfStepInv, <1>1, PTL DEF ConfSpec

(***************************************************************************)
(* "Nothing was executed", "declined" and "expired" are said of calls that *)
(* never run, a result of one that did, however the tasks interleave with  *)
(* time, pruning and dying workers.                                        *)
(***************************************************************************)
THEOREM AnswersAreTrue == ConfSpec => []AnswerIsTrue
<1>1. ConfInv => AnswerIsTrue
  BY DEF ConfInv, ToldRan, ToldNotRun, AnswerIsTrue
<1> QED
  BY ConfInitInv, ConfStepInv, <1>1, PTL DEF ConfSpec

-----------------------------------------------------------------------------
(***************************************************************************)
(* Refinement: what each step does to the fate of a call.                  *)
(***************************************************************************)
Held(k) == \E d \in Deciders : Holds(d, k)

Fates == [k \in Tokens |-> Fate(k)]

LEMMA FateStays ==
    ASSUME NEW k \in Tokens,
           runs'[k] = runs[k],
           pending'[k] <= PendingTtl <=> pending[k] <= PendingTtl,
           asker'[k] # "nobody" <=> asker[k] # "nobody",
           Held(k)' <=> Held(k)
    PROVE  Fate(k)' = Fate(k)
BY DEF Fate, Held

LEMMA FateFrozen ==
    ASSUME NEW k \in Tokens, runs[k] = 0, ~Held(k), pending[k] <= PendingTtl
    PROVE  Fate(k) = "frozen"
BY DEF Fate, Held

LEMMA FateTaken ==
    ASSUME NEW k \in Tokens, runs[k] = 0, Held(k)
    PROVE  Fate(k) = "taken"
BY DEF Fate, Held

LEMMA FateVoid ==
    ASSUME NEW k \in Tokens, runs[k] = 0, ~Held(k), ~(pending[k] <= PendingTtl), asker[k] # "nobody"
    PROVE  Fate(k) = "void"
BY DEF Fate, Held

\* One call moves on.
LEMMA OneMoves ==
    ASSUME NEW k \in Tokens, NEW from, NEW to,
           Fate(k) = from, Fate(k)' = to,
           \A j \in Tokens \ {k} : Fate(j)' = Fate(j)
    PROVE  Frozen!Becomes(k, from, to)
<1>1. [j \in Tokens |-> Fate(j)]' = [[j \in Tokens |-> Fate(j)] EXCEPT ![k] = to]
  OBVIOUS
<1> QED
  BY <1>1 DEF Frozen!Becomes

\* Some calls that were frozen expire together, the others stay what they are.
LEMMA SomeExpire ==
    ASSUME NEW K \in SUBSET Tokens,
           \A k \in K : Fate(k) = "frozen" /\ Fate(k)' = "void",
           \A k \in Tokens \ K : Fate(k)' = Fate(k)
    PROVE  Frozen!FrozenNext
<1>1. [k \in Tokens |-> Fate(k)]' =
        [k \in Tokens |-> IF k \in K THEN "void" ELSE [j \in Tokens |-> Fate(j)][k]]
  OBVIOUS
<1>2. \A k \in K : [j \in Tokens |-> Fate(j)][k] = "frozen"
  OBVIOUS
<1> QED
  BY <1>1, <1>2 DEF Frozen!FrozenNext

LEMMA AllStay ==
    ASSUME \A k \in Tokens : Fate(k)' = Fate(k)
    PROVE  UNCHANGED Fates
BY DEF Fates

LEMMA AskRefines ==
    ASSUME ConfInv, NEW k \in Tokens, AskInChat(k) \/ AskInJob(k)
    PROVE  Frozen!FrozenNext
<1>1. /\ asker[k] = "nobody" /\ pending' = [pending EXCEPT ![k] = 0]
      /\ asker'[k] # "nobody"
      /\ \A j \in Tokens \ {k} : asker'[j] = asker[j] /\ pending'[j] = pending[j]
      /\ pending'[k] = 0 /\ UNCHANGED <<decider, runs>>
  BY DEF AskInChat, AskInJob, Put, ConfInv, ConfTypeOK
<1>2. Spent(k) /\ runs[k] = 0 /\ ~Held(k)
  BY <1>1 DEF ConfInv, RunIsOver, DecidedOfPut, Held, Holds
<1>3. \A j \in Tokens : Held(j)' <=> Held(j)
  BY <1>1 DEF Held, Holds
<1>4. Fate(k) = "absent"
  BY <1>1, <1>2, ConfirmationAssumption DEF Fate, Held, Spent, NoRow
<1>5. Fate(k)' = "frozen"
  <2>1. runs'[k] = 0 /\ ~Held(k)' /\ pending'[k] <= PendingTtl
    BY <1>1, <1>2, <1>3, ConfirmationAssumption
  <2> QED
    BY <2>1 DEF Fate, Held
<1>6. \A j \in Tokens \ {k} : Fate(j)' = Fate(j)
  BY <1>1, <1>3, FateStays
<1> QED
  BY <1>4, <1>5, <1>6, OneMoves DEF Frozen!FrozenNext

LEMMA ConsumeRefines ==
    ASSUME ConfInv, NEW d \in Deciders, Consume(d)
    PROVE  Frozen!FrozenNext \/ UNCHANGED Fates
<1>t. ConfTypeOK /\ DecidedOfPut /\ HeldOnce /\ RunIsOver
  BY DEF ConfInv
<1>k. PICK k \in Tokens : k = decider[d].token
  BY <1>t DEF Consume, DecidedOfPut
<1>1. /\ decider[d].pc = "consuming" /\ asker[k] # "nobody"
      /\ pending' = Consumed(k)
      /\ UNCHANGED <<claims, asker, runs>>
      /\ Proceed(d, "claiming") \/ Done(d)
  BY <1>k, <1>t DEF Consume, DecidedOfPut
<1>2. /\ ~(pending'[k] <= PendingTtl)
      /\ \A j \in Tokens \ {k} : pending'[j] <= PendingTtl <=> pending[j] <= PendingTtl
  BY <1>1, <1>t, ConsumedTable, ConfirmationAssumption DEF NoRow
<1>3. \A j \in Tokens \ {k} : Held(j)' <=> Held(j)
  <2>1. \A e \in Deciders \ {d} : decider'[e] = decider[e]
    BY <1>1, <1>t, ProceedEntry, DoneEntry
  <2>2. \A j \in Tokens \ {k} : ~Holds(d, j)' /\ ~Holds(d, j)
    BY <1>k, <1>1, <1>t, ProceedEntry, DoneEntry DEF Holds
  <2> QED
    BY <2>1, <2>2 DEF Held, Holds
<1>4. \A j \in Tokens \ {k} : Fate(j)' = Fate(j)
  BY <1>1, <1>2, <1>3, FateStays
<1>5. CASE Takeable(k)
  <2>1. pending[k] <= PendingTtl /\ ~Spent(k)
    BY <1>5, <1>t, PurgedTables, ConfirmationAssumption DEF Spent, NoRow
  <2>2. runs[k] = 0 /\ ~Held(k)
    <3>1. runs[k] \in 0..1
      BY <1>t DEF ConfTypeOK
    <3> QED
      BY <3>1, <2>1, <1>t DEF RunIsOver, HeldOnce, Held
  <2>3. Fate(k) = "frozen"
    BY <2>1, <2>2, FateFrozen
  <2>4. CASE Proceed(d, "claiming")
    <3>1. Held(k)'
      BY <2>4, <1>k, <1>t, ProceedEntry DEF Held, Holds
    <3>2. runs'[k] = 0
      BY <2>2, <1>1
    <3>3. Fate(k)' = "taken"
      BY <3>1, <3>2 DEF Fate, Held
    <3> QED
      BY <2>3, <3>3, <1>4, OneMoves DEF Frozen!FrozenNext
  <2>5. CASE Done(d)
    <3>1. ~Held(k)'
      <4>1. \A e \in Deciders : Holds(e, k)' => Holds(e, k)
        BY <2>5, <1>1, DoneFrees
      <4> QED
        BY <4>1, <2>2 DEF Held
    <3>2. runs'[k] = 0 /\ asker'[k] # "nobody"
      BY <2>2, <1>1
    <3>3. Fate(k)' = "void"
      BY <3>1, <3>2, <1>2 DEF Fate, Held
    <3> QED
      BY <2>3, <3>3, <1>4, SomeExpire, {k} \in SUBSET Tokens
  <2> QED
    BY <2>4, <2>5, <1>1
<1>6. CASE ~Takeable(k)
  <2>1. ~(pending[k] <= PendingTtl)
    BY <1>6, <1>t, PurgedTables
  <2>2. Done(d)
    BY <1>6, <1>k DEF Consume
  <2>3. Held(k)' <=> Held(k)
    <3>1. \A e \in Deciders \ {d} : decider'[e] = decider[e]
      BY <2>2, <1>t, DoneEntry
    <3>2. ~Holds(d, k)' /\ ~Holds(d, k)
      BY <2>2, <1>1, <1>t, DoneEntry DEF Holds
    <3> QED
      BY <3>1, <3>2 DEF Held, Holds
  <2>4. Fate(k)' = Fate(k)
    BY <2>1, <2>3, <1>1, <1>2, FateStays
  <2> QED
    BY <2>4, <1>4, AllStay
<1> QED
  BY <1>5, <1>6

\* A holder is done, in one of three ways.
LEMMA HolderRefines ==
    ASSUME ConfInv, NEW d \in Deciders, decider[d].pc \in {"claiming", "running"}, Done(d),
           UNCHANGED <<pending, asker>>,
           NEW n \in {0, 1}, runs' = [runs EXCEPT ![decider[d].token] = @ + n]
    PROVE  Frozen!FrozenNext
<1>t. ConfTypeOK /\ DecidedOfPut /\ HeldOnce
  BY DEF ConfInv
<1>k. PICK k \in Tokens : k = decider[d].token
  BY <1>t DEF DecidedOfPut
<1>1. Holds(d, k) /\ Held(k) /\ asker[k] # "nobody"
  BY <1>k, <1>t DEF Holds, Held, DecidedOfPut
<1>2. /\ runs[k] = 0 /\ Spent(k)
      /\ \A e \in Deciders : Holds(e, k) => e = d
  BY <1>1, <1>t DEF HeldOnce
<1>3. /\ runs'[k] = n
      /\ \A j \in Tokens \ {k} : runs'[j] = runs[j]
  BY <1>k, <1>2, <1>t DEF ConfTypeOK
<1>4. /\ ~Held(k)'
      /\ \A j \in Tokens \ {k} : Held(j)' <=> Held(j)
  <2>1. /\ decider'[d].pc = "idle"
        /\ \A e \in Deciders \ {d} : decider'[e] = decider[e]
    BY <1>t, DoneEntry
  <2>2. \A e \in Deciders : ~Holds(e, k)'
    BY <2>1, <1>2 DEF Holds
  <2>3. \A j \in Tokens \ {k} : ~Holds(d, j)' /\ ~Holds(d, j)
    BY <2>1, <1>k DEF Holds
  <2> QED
    BY <2>1, <2>2, <2>3 DEF Held, Holds
<1>5. \A j \in Tokens \ {k} : Fate(j)' = Fate(j)
  BY <1>3, <1>4, FateStays
<1>6. Fate(k) = "taken"
  BY <1>1, <1>2, FateTaken
<1>7. CASE n = 1
  <2>1. runs'[k] > 0
    BY <1>3, <1>7
  <2>2. Fate(k)' = "ran"
    BY <2>1 DEF Fate
  <2> QED
    BY <2>2, <1>5, <1>6, OneMoves DEF Frozen!FrozenNext
<1>8. CASE n = 0
  <2>1. runs'[k] = 0 /\ asker'[k] # "nobody" /\ ~(pending'[k] <= PendingTtl)
    BY <1>1, <1>2, <1>3, <1>8, ConfirmationAssumption DEF Spent, NoRow
  <2>2. Fate(k)' = "void"
    BY <2>1, <1>4 DEF Fate, Held
  <2> QED
    BY <2>2, <1>5, <1>6, OneMoves DEF Frozen!FrozenNext
<1> QED
  BY <1>7, <1>8

LEMMA HolderStepRefines ==
    ASSUME ConfInv, NEW d \in Deciders, ClaimRefused(d) \/ Run(d) \/ Die(d)
    PROVE  Frozen!FrozenNext \/ UNCHANGED Fates
<1>t. ConfTypeOK /\ DecidedOfPut
  BY DEF ConfInv
<1>r. \A k \in Tokens : runs[k] \in 0..1 /\ runs = [runs EXCEPT ![k] = @ + 0]
  BY <1>t DEF ConfTypeOK
<1>1. CASE Run(d)
  BY <1>1, HolderRefines DEF Run
<1>2. CASE (ClaimRefused(d) \/ Die(d)) /\ decider[d].pc \in {"claiming", "running"}
  <2>1. decider[d].token \in Tokens
    BY <1>2, <1>t DEF DecidedOfPut
  <2>2. runs' = [runs EXCEPT ![decider[d].token] = @ + 0]
    BY <1>2, <1>r, <2>1 DEF ClaimRefused, Die
  <2> QED
    BY <1>2, <2>2, HolderRefines DEF ClaimRefused, Die
<1>3. CASE Die(d) /\ decider[d].pc \notin {"claiming", "running"}
  <2>1. /\ decider'[d].pc = "idle"
        /\ \A e \in Deciders \ {d} : decider'[e] = decider[e]
        /\ UNCHANGED <<pending, asker, runs>>
    BY <1>3, <1>t, DoneEntry DEF Die
  <2>2. \A j \in Tokens : ~Holds(d, j) /\ ~Holds(d, j)'
    BY <1>3, <2>1 DEF Holds
  <2>3. \A j \in Tokens : Held(j)' <=> Held(j)
    BY <2>1, <2>2 DEF Held, Holds
  <2> QED
    BY <2>1, <2>3, FateStays, AllStay
<1> QED
  BY <1>1, <1>2, <1>3 DEF ClaimRefused

\* Starting to decide and claiming neither take a call nor give it back.
LEMMA DecidingRefines ==
    ASSUME ConfInv, NEW d \in Deciders, NEW r \in Decider,
           decider' = [decider EXCEPT ![d] = r],
           \A k \in Tokens : Holds(d, k) <=> r.token = k /\ r.pc \in {"claiming", "running"},
           UNCHANGED <<pending, asker, runs>>
    PROVE  UNCHANGED Fates
<1>1. /\ decider'[d] = r
      /\ \A e \in Deciders \ {d} : decider'[e] = decider[e]
  BY EntryOf DEF ConfInv
<1>2. \A j \in Tokens : Held(j)' <=> Held(j)
  BY <1>1 DEF Held, Holds
<1> QED
  BY <1>2, FateStays, AllStay

LEMMA StartRefines ==
    ASSUME ConfInv, NEW d \in Deciders, NEW why \in Whys, NEW k \in Tokens, Start(d, why, k)
    PROVE  UNCHANGED Fates
<1>1. [pc |-> "consuming", why |-> why, token |-> k] \in Decider
  BY DEF Decider
<1> QED
  BY <1>1, DecidingRefines DEF Start, Holds

LEMMA ClaimRefines ==
    ASSUME ConfInv, NEW d \in Deciders, Claim(d)
    PROVE  UNCHANGED Fates
<1>1. decider[d] \in Decider /\ [decider[d] EXCEPT !.pc = "running"] \in Decider
  BY DEF ConfInv, ConfTypeOK, Decider
<1>2. decider' = [decider EXCEPT ![d] = [decider[d] EXCEPT !.pc = "running"]]
  BY DEF Claim, Proceed, ConfInv, ConfTypeOK
<1>3. \A k \in Tokens : Holds(d, k) <=>
          /\ [decider[d] EXCEPT !.pc = "running"].token = k
          /\ [decider[d] EXCEPT !.pc = "running"].pc \in {"claiming", "running"}
  BY <1>1 DEF Claim, Holds, Decider
<1>4. UNCHANGED <<pending, asker, runs>>
  BY DEF Claim
<1> QED
  BY <1>1, <1>2, <1>3, <1>4, DecidingRefines

\* Time and pruning let rows expire, and bring none back.
LEMMA TablesAgeRefines ==
    ASSUME ConfInv, Tick \/ Prune
    PROVE  Frozen!FrozenNext
<1>t. ConfTypeOK /\ HeldOnce /\ RunIsOver
  BY DEF ConfInv
<1> DEFINE K == {k \in Tokens : /\ Fate(k) = "frozen"
                                /\ ~(pending'[k] <= PendingTtl)}
<1>1. \A k \in Tokens : pending'[k] <= PendingTtl => pending[k] <= PendingTtl
  BY <1>t, OlderTables, PurgedTables DEF Prune
<1>2. UNCHANGED <<asker, decider, runs>>
  BY DEF Tick, Prune
<1>3. \A k \in Tokens : Held(k)' <=> Held(k)
  BY <1>2 DEF Held, Holds
<1>4. \A k \in Tokens : runs[k] \in 0..1
  BY <1>t DEF ConfTypeOK
<1>5. \A k \in Tokens : asker[k] = "nobody" => ~(pending[k] <= PendingTtl)
  BY <1>t, ConfirmationAssumption DEF RunIsOver, Spent, NoRow
<1>6. ASSUME NEW k \in K PROVE Fate(k)' = "void"
  <2>1. runs[k] = 0 /\ ~Held(k) /\ pending[k] <= PendingTtl
    BY <1>4 DEF Fate, Held
  <2>2. runs'[k] = 0 /\ ~Held(k)' /\ ~(pending'[k] <= PendingTtl) /\ asker'[k] # "nobody"
    BY <2>1, <1>2, <1>3, <1>5
  <2> QED
    BY <2>2 DEF Fate, Held
<1>7. ASSUME NEW k \in Tokens \ K PROVE Fate(k)' = Fate(k)
  <2>1. CASE pending'[k] <= PendingTtl <=> pending[k] <= PendingTtl
    BY <2>1, <1>2, <1>3, FateStays
  <2>2. CASE ~(pending'[k] <= PendingTtl) /\ pending[k] <= PendingTtl
    <3>1. Fate(k) # "frozen"
      BY <2>2
    <3>2. runs[k] > 0 \/ Held(k)
      BY <3>1, <2>2 DEF Fate, Held
    <3> QED
      BY <3>2, <1>2, <1>3 DEF Fate, Held
  <2> QED
    BY <2>1, <2>2, <1>1
<1>8. K \in SUBSET Tokens /\ \A k \in K : Fate(k) = "frozen"
  OBVIOUS
<1> HIDE DEF K
<1> QED
  BY <1>6, <1>7, <1>8, SomeExpire

LEMMA OthersRefine ==
    ASSUME UNCHANGED <<pending, asker, decider, runs>>
    PROVE  UNCHANGED Fates
<1>1. \A j \in Tokens : Held(j)' <=> Held(j)
  BY DEF Held, Holds
<1> QED
  BY <1>1, FateStays, AllStay

LEMMA ConfStepRefines == ConfInv /\ [ConfNext]_confVars => [Frozen!FrozenNext]_Fates
<1> SUFFICES ASSUME ConfInv, [ConfNext]_confVars
             PROVE  Frozen!FrozenNext \/ UNCHANGED Fates
  OBVIOUS
<1>1. CASE \E k \in Tokens : AskInChat(k) \/ AskInJob(k)
  BY <1>1, AskRefines
<1>2. CASE \E d \in Deciders :
              (\E k \in Tokens : ConfirmInChat(d, k)) \/ ResolveJob(d) \/ WithdrawJob(d)
  <2>1. job.status = "awaiting" => job.token \in Tokens
    BY DEF ConfInv, JobDecidesOnce
  <2>2. PICK d \in Deciders, why \in Whys, k \in Tokens : Start(d, why, k)
    BY <1>2, <2>1 DEF ConfirmInChat, ResolveJob, WithdrawJob, Whys
  <2> QED
    BY <2>2, StartRefines
<1>3. CASE \E d \in Deciders : Consume(d)
  BY <1>3, ConsumeRefines
<1>4. CASE \E d \in Deciders : Claim(d)
  BY <1>4, ClaimRefines
<1>5. CASE \E d \in Deciders : ClaimRefused(d) \/ Run(d) \/ Die(d)
  BY <1>5, HolderStepRefines
<1>6. CASE Tick \/ Prune
  BY <1>6, TablesAgeRefines
<1>7. CASE ParkJob \/ JobEnds \/ UNCHANGED confVars
  BY <1>7, OthersRefine DEF ParkJob, JobEnds, confVars
<1> QED
  BY <1>1, <1>2, <1>3, <1>4, <1>5, <1>6, <1>7 DEF ConfNext

LEMMA ConfInitRefines == ConfInit => Frozen!FrozenInit
<1> SUFFICES ASSUME ConfInit PROVE Frozen!FrozenInit
  OBVIOUS
<1>1. \A k \in Tokens : Fate(k) = "absent"
  BY ConfirmationAssumption DEF ConfInit, Fate, Holds, Idle, NoRow
<1> QED
  BY <1>1 DEF Frozen!FrozenInit

(***************************************************************************)
(* The pending store, the ledger and the tasks together are the frozen     *)
(* call: taken out at most once, run at most once, and never after it was  *)
(* declined, withdrawn, expired, or lost with its worker.                  *)
(***************************************************************************)
THEOREM FrozenCallsHold == ConfSpec => FrozenOnce
<1>1. ConfInv /\ [ConfNext]_confVars =>
        [Frozen!FrozenNext]_([k \in Tokens |-> Fate(k)])
  BY ConfStepRefines DEF Fates
<1> QED
  BY ConfInitInv, ConfStepInv, ConfInitRefines, <1>1, PTL
  DEF ConfSpec, FrozenOnce, Frozen!FrozenSpec
=============================================================================
