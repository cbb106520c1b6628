-------------------------- MODULE McpClients_proofs --------------------------
(***************************************************************************)
(* Proofs about McpClients, for any number of calls and of workers.        *)
(***************************************************************************)
EXTENDS McpClients, FiniteSetTheorems, SequenceTheorems, TLAPS

\* The part of McpTypeOK that the queues and the entries rest on.
Shapes ==
    /\ caller \in [Callers -> Caller]
    /\ worker \in [Ids -> Worker]
    /\ current \in 0..MaxWorkers

\* Entry n of queue i is the request of somebody who still waits for it.
Awaited(i, n) == n \in 1..Len(worker[i].queue) /\ worker[i].queue[n] \in Callers

\* Whoever waits in a queue is running, and its request is the last one.
Queued ==
    \A i \in Ids, n \in Nat :
        Awaited(i, n) => /\ n = Len(worker[i].queue)
                         /\ caller[worker[i].queue[n]].pc = "running"

\* Only one request is waited for, in all the queues.
QueuedOnce ==
    \A i, j \in Ids, m, n \in Nat : Awaited(i, m) /\ Awaited(j, n) => i = j /\ m = n

\* The entry of the dictionaries is a worker, and until close it is the only one.
Entered ==
    /\ \A i \in Ids : worker[i].life = "none" => worker[i] = NoWorker /\ i # current
    /\ ~Closed => \A i \in Ids : worker[i].life # "none" => i = current

McpInv == Shapes /\ Queued /\ QueuedOnce /\ Entered

LEMMA Disjoint ==
    /\ Orphans \cap Callers = {} /\ Calls \cap Discoveries = {}
    /\ Calls \subseteq Callers /\ Discoveries \subseteq Callers /\ Callers \subseteq Requests
    /\ {"refresh", "retry", "reconnect"} \subseteq Discoveries
    /\ 0 \notin Ids /\ 0 \in 0..MaxWorkers
<1>1. Calls \cap Discoveries = {} /\ Calls \cap Orphans = {}
  BY McpAssumption
<1>2. Discoveries \cap Orphans = {} /\ {"refresh", "retry", "reconnect"} \subseteq Discoveries
  BY DEF Discoveries, Orphans
<1>3. Orphans \cap Callers = {}
  BY <1>1, <1>2 DEF Callers
<1>4. Calls \subseteq Callers /\ Discoveries \subseteq Callers /\ Callers \subseteq Requests
  BY DEF Callers, Requests
<1>5. 0 \notin Ids /\ 0 \in 0..MaxWorkers
  BY McpAssumption DEF Ids
<1> QED
  BY <1>1, <1>2, <1>3, <1>4, <1>5

LEMMA Records ==
    /\ AtRest \in Caller /\ AtRest.pc = "idle"
    /\ \A pc \in {"delay", "stopping", "stoppingAgain"} :
         [AtRest EXCEPT !.pc = pc] \in Caller /\ [AtRest EXCEPT !.pc = pc].pc = pc
    /\ \A pc \in {"waiting", "running"}, again \in BOOLEAN :
         [pc |-> pc, answer |-> "none", again |-> again] \in Caller
    /\ [pc |-> "answered", answer |-> "error", again |-> FALSE] \in Caller
    /\ NoWorker \in Worker /\ NoWorker.queue = <<>> /\ NoWorker.life = "none"
    /\ NoWorker.session = "none"
<1>1. <<>> \in Seq(Requests)
  OBVIOUS
<1>2. NoWorker \in Worker
  BY <1>1 DEF NoWorker, Worker
<1>3. NoWorker.queue = <<>> /\ NoWorker.life = "none" /\ NoWorker.session = "none"
  BY DEF NoWorker
<1>4. /\ AtRest \in Caller /\ AtRest.pc = "idle"
      /\ \A pc \in {"delay", "stopping", "stoppingAgain"} :
           [AtRest EXCEPT !.pc = pc] \in Caller /\ [AtRest EXCEPT !.pc = pc].pc = pc
  BY DEF AtRest, Caller, Answers
<1>5. /\ \A pc \in {"waiting", "running"}, again \in BOOLEAN :
           [pc |-> pc, answer |-> "none", again |-> again] \in Caller
      /\ [pc |-> "answered", answer |-> "error", again |-> FALSE] \in Caller
  BY DEF Caller, Answers
<1> QED
  BY <1>2, <1>3, <1>4, <1>5

LEMMA McpInitInv == McpInit => McpInv /\ FailedIsWithdrawn
<1> SUFFICES ASSUME McpInit PROVE McpInv /\ FailedIsWithdrawn
  OBVIOUS
<1>0. /\ caller = [t \in Callers |-> AtRest] /\ worker = [i \in Ids |-> NoWorker] /\ current = 0
      /\ cache \in {[tools |-> "cold", failure |-> "none"], [tools |-> "offered", failure |-> "none"],
                    [tools |-> "none", failure |-> "inherited"]}
  BY DEF McpInit
<1>1. Shapes
  BY <1>0, Records, Disjoint DEF Shapes
<1>2. \A i \in Ids : worker[i] = NoWorker /\ Len(worker[i].queue) = 0
  <2>1. Len(<<>>) = 0
    OBVIOUS
  <2> QED
    BY <2>1, <1>0, Records
<1>3. Queued /\ QueuedOnce
  BY <1>2 DEF Queued, QueuedOnce, Awaited
<1>4. Entered
  BY <1>0, <1>2, Records, Disjoint DEF Entered
<1>5. FailedIsWithdrawn
  BY <1>0 DEF FailedIsWithdrawn
<1> QED
  BY <1>1, <1>3, <1>4, <1>5 DEF McpInv

-----------------------------------------------------------------------------
(***************************************************************************)
(* Steps that add no request: what is still waited for was so before, is   *)
(* as far from the end of its queue, and who waits for it goes on running. *)
(***************************************************************************)
WasAwaited(j, n, m) ==
    /\ m \in 1..Len(worker[j].queue) /\ worker[j].queue[m] = worker'[j].queue[n]
    /\ Len(worker[j].queue) - m = Len(worker'[j].queue) - n

LEMMA EntriesStay ==
    ASSUME McpInv, Shapes', Entered',
           \A j \in Ids, n \in Nat :
               Awaited(j, n)' => /\ \E m \in Nat : WasAwaited(j, n, m)
                                 /\ caller'[worker'[j].queue[n]].pc = "running"
    PROVE  McpInv'
<1>t. Queued /\ QueuedOnce
  BY DEF McpInv
<1>q. \A j \in Ids : Len(worker[j].queue) \in Nat /\ Len(worker'[j].queue) \in Nat
  BY DEF McpInv, Shapes, Worker
<1>1. Queued'
  <2> SUFFICES ASSUME NEW j \in Ids, NEW n \in Nat, Awaited(j, n)'
               PROVE  /\ n = Len(worker'[j].queue)
                      /\ caller'[worker'[j].queue[n]].pc = "running"
    BY DEF Queued
  <2>1. PICK m \in Nat : WasAwaited(j, n, m)
    OBVIOUS
  <2>2. Awaited(j, m)
    BY <2>1 DEF WasAwaited, Awaited
  <2>3. m = Len(worker[j].queue)
    BY <2>2, <1>t DEF Queued
  <2> QED
    BY <2>1, <2>3, <1>q DEF WasAwaited
<1>2. QueuedOnce'
  <2> SUFFICES ASSUME NEW i \in Ids, NEW j \in Ids, NEW m \in Nat, NEW n \in Nat,
                      Awaited(i, m)', Awaited(j, n)'
               PROVE  i = j /\ m = n
    BY DEF QueuedOnce
  <2>1. PICK a \in Nat, b \in Nat : WasAwaited(i, m, a) /\ WasAwaited(j, n, b)
    OBVIOUS
  <2>2. Awaited(i, a) /\ Awaited(j, b)
    BY <2>1 DEF WasAwaited, Awaited
  <2>3. i = j /\ a = b
    BY <2>2, <1>t DEF QueuedOnce
  <2> QED
    BY <2>1, <2>3, <1>q DEF WasAwaited
<1> QED
  BY <1>1, <1>2 DEF McpInv

\* The queues are left alone, and who is served goes on.
LEMMA QueuesStay ==
    ASSUME McpInv, Shapes', Entered',
           \A i \in Ids : worker'[i].queue = worker[i].queue,
           \A t \in Callers : caller[t].pc = "running" => caller'[t].pc = "running"
    PROVE  McpInv'
<1>1. ASSUME NEW j \in Ids, NEW n \in Nat, Awaited(j, n)'
      PROVE  /\ \E m \in Nat : WasAwaited(j, n, m)
             /\ caller'[worker'[j].queue[n]].pc = "running"
  <2>1. PICK t \in Callers : t = worker[j].queue[n] /\ n \in 1..Len(worker[j].queue)
    BY <1>1 DEF Awaited
  <2>2. caller[t].pc = "running" /\ worker'[j].queue[n] = t
    BY <2>1 DEF McpInv, Queued, Awaited
  <2>3. WasAwaited(j, n, n)
    BY <2>1, <2>2 DEF WasAwaited
  <2> QED
    BY <2>2, <2>3
<1> QED
  BY <1>1, EntriesStay

\* The workers do not hear of the step.
LEMMA CallersStep ==
    ASSUME McpInv, UNCHANGED <<worker, current>>, Closed => Closed',
           caller' \in [Callers -> Caller],
           \A t \in Callers : caller[t].pc = "running" => caller'[t].pc = "running"
    PROVE  McpInv'
<1>1. Shapes /\ Entered
  BY DEF McpInv
<1>2. Shapes' /\ Entered'
  BY <1>1 DEF Shapes, Entered, Closed
<1> QED
  BY <1>2, QueuesStay

-----------------------------------------------------------------------------
(***************************************************************************)
(* The lock: whoever is served or waits for it has one place in l, and     *)
(* nobody is served but the first.                                         *)
(***************************************************************************)
Orderly(l, ts) ==
    /\ l \in Seq(Callers)
    /\ \A m, n \in 1..Len(l) : l[m] = l[n] => m = n
    /\ \A t \in Callers : ts[t].pc = "running" => 1 \in 1..Len(l) /\ l[1] = t
    /\ \A t \in Callers : ts[t].pc = "waiting" => \E n \in 1..Len(l) : l[n] = t
    /\ \A n \in 2..Len(l) : ts[l[n]].pc = "waiting"

\* deque.remove and release: the place of one goes, the order of the others stays.
LEMMA WithoutOne ==
    ASSUME NEW l \in Seq(Callers), NEW m \in 1..Len(l),
           \A n \in 1..Len(l) : l[n] = l[m] => n = m
    PROVE  /\ Without(l, l[m]) \in Seq(Callers)
           /\ Len(Without(l, l[m])) = Len(l) - 1
           /\ \A n \in 1..(Len(l) - 1) :
                Without(l, l[m])[n] = IF n < m THEN l[n] ELSE l[n + 1]
<1> DEFINE t == l[m]
           I == {n \in 1..Len(l) : l[n] = t}
<1>1. I = {m}
  OBVIOUS
<1>2. SE!Min(I) = m
  <2>1. m <= m
    OBVIOUS
  <2> QED
    BY <1>1, <2>1 DEF SE!Min
<1>3. SE!SelectInSeq(l, LAMBDA v : v = t) = SE!Min(I)
  BY <1>1 DEF SE!SelectInSeq
<1>4. Without(l, t) = SE!RemoveAt(l, SE!SelectInSeq(l, LAMBDA v : v = t))
  BY DEF Without, SE!RemoveFirst
<1>5. Without(l, t) = SubSeq(l, 1, m - 1) \o SubSeq(l, m + 1, Len(l))
  BY <1>2, <1>3, <1>4 DEF SE!RemoveAt
<1> DEFINE a == SubSeq(l, 1, m - 1)
           b == SubSeq(l, m + 1, Len(l))
<1>6. /\ a \in Seq(Callers) /\ Len(a) = m - 1
      /\ \A n \in 1..(m - 1) : a[n] = l[n]
  <2>1. \A n \in 1..(m - 1) : l[n] \in Callers
    OBVIOUS
  <2> QED
    BY <2>1, SubSeqProperties
<1>7. /\ b \in Seq(Callers) /\ Len(b) = Len(l) - m
      /\ \A n \in 1..(Len(l) - m) : b[n] = l[m + n]
  <2>1. \A n \in (m + 1)..Len(l) : l[n] \in Callers
    OBVIOUS
  <2> QED
    BY <2>1, SubSeqProperties
<1> HIDE DEF a, b
<1>8. /\ a \o b \in Seq(Callers) /\ Len(a \o b) = Len(l) - 1
      /\ \A n \in 1..(Len(l) - 1) : (a \o b)[n] = IF n <= m - 1 THEN a[n] ELSE b[n - (m - 1)]
  <2>1. /\ a \o b \in Seq(Callers) /\ Len(a \o b) = Len(a) + Len(b)
        /\ \A n \in 1..(Len(a) + Len(b)) :
             (a \o b)[n] = IF n <= Len(a) THEN a[n] ELSE b[n - Len(a)]
    BY <1>6, <1>7, ConcatProperties
  <2> QED
    BY <2>1, <1>6, <1>7
<1>9. ASSUME NEW n \in 1..(Len(l) - 1)
      PROVE  (a \o b)[n] = IF n < m THEN l[n] ELSE l[n + 1]
  <2>1. CASE n < m
    BY <2>1, <1>6, <1>8
  <2>2. CASE ~(n < m)
    <3>1. n - (m - 1) \in 1..(Len(l) - m) /\ m + (n - (m - 1)) = n + 1
      BY <2>2
    <3>2. b[n - (m - 1)] = l[m + (n - (m - 1))]
      BY <3>1, <1>7
    <3> QED
      BY <2>2, <3>1, <3>2, <1>8
  <2> QED
    BY <2>1, <2>2
<1> QED
  BY <1>5, <1>8, <1>9 DEF a, b

\* Who has no place has none to lose.
LEMMA WithoutNobody ==
    ASSUME NEW l \in Seq(Callers), NEW t, \A n \in 1..Len(l) : l[n] # t
    PROVE  Without(l, t) = l
<1> QED
  BY DEF Without, SE!RemoveFirst

\* One leaves: a caller that gave up, was answered or is cancelled.
LEMMA LeavesLock ==
    ASSUME NEW l, NEW ts, Orderly(l, ts), NEW t \in Callers, NEW us,
           us[t].pc \notin {"waiting", "running"},
           \A u \in Callers \ {t} :
               {us[u].pc, ts[u].pc} \cap {"waiting", "running"} # {} => us[u].pc = ts[u].pc
    PROVE  /\ Orderly(Without(l, t), us)
           /\ \A n \in 1..Len(Without(l, t)) : Without(l, t)[n] # t
<1> DEFINE k == Without(l, t)
<1>t. l \in Seq(Callers) /\ Len(l) \in Nat
  BY DEF Orderly
<1>d. \A m, n \in 1..Len(l) : l[m] = l[n] => m = n
  BY DEF Orderly
<1>s. ASSUME NEW u \in Callers, us[u].pc \in {"waiting", "running"}
      PROVE  u # t /\ us[u].pc = ts[u].pc
  <2>1. us[u].pc \in {us[u].pc, ts[u].pc} \cap {"waiting", "running"}
    BY <1>s
  <2> QED
    BY <2>1
<1>w. ASSUME NEW u \in Callers \ {t}, ts[u].pc \in {"waiting", "running"}
      PROVE  us[u].pc = ts[u].pc
  <2>1. ts[u].pc \in {us[u].pc, ts[u].pc} \cap {"waiting", "running"}
    BY <1>w
  <2> QED
    BY <2>1
<1>1. CASE \A n \in 1..Len(l) : l[n] # t
  <2>1. k = l
    BY <1>1, <1>t, WithoutNobody
  <2>2. ASSUME NEW n \in 2..Len(l)
        PROVE  us[l[n]].pc = "waiting"
    <3>1. l[n] \in Callers \ {t} /\ ts[l[n]].pc = "waiting"
      BY <1>1, <1>t DEF Orderly
    <3> QED
      BY <3>1, <1>w
  <2>3. Orderly(l, us)
    BY <2>2, <1>s DEF Orderly
  <2> QED
    BY <2>1, <2>3, <1>1
<1>2. CASE \E n \in 1..Len(l) : l[n] = t
  <2>1. PICK m \in 1..Len(l) : l[m] = t
    BY <1>2
  <2>2. \A n \in 1..Len(l) : l[n] = l[m] => n = m
    BY <1>d
  <2>3. /\ k \in Seq(Callers) /\ Len(k) = Len(l) - 1
        /\ \A n \in 1..(Len(l) - 1) : k[n] = IF n < m THEN l[n] ELSE l[n + 1]
    BY <2>1, <2>2, <1>t, WithoutOne
  <2> HIDE DEF k
  <2>4. ASSUME NEW n \in 1..Len(k)
        PROVE  /\ n + 1 \in 1..Len(l) /\ n \in 1..Len(l)
               /\ n < m => k[n] = l[n]
               /\ ~(n < m) => k[n] = l[n + 1]
    BY <2>3, <1>t
  <2>5. \A n \in 1..Len(k) : k[n] # t
    <3> SUFFICES ASSUME NEW n \in 1..Len(k), k[n] = t PROVE FALSE
      OBVIOUS
    <3>1. CASE n < m
      BY <3>1, <2>1, <2>2, <2>4
    <3>2. CASE ~(n < m)
      <4>1. l[n + 1] = l[m] /\ n + 1 \in 1..Len(l) /\ n + 1 # m
        BY <3>2, <2>1, <2>4
      <4> QED
        BY <4>1, <2>2
    <3> QED
      BY <3>1, <3>2
  <2>6. ASSUME NEW m1 \in 1..Len(k), NEW n1 \in 1..Len(k), k[m1] = k[n1]
        PROVE  m1 = n1
    <3>1. PICK i \in 1..Len(l), j \in 1..Len(l) :
            /\ k[m1] = l[i] /\ (IF m1 < m THEN i = m1 ELSE i = m1 + 1)
            /\ k[n1] = l[j] /\ (IF n1 < m THEN j = n1 ELSE j = n1 + 1)
      <4>1. \E i \in 1..Len(l) : k[m1] = l[i] /\ (IF m1 < m THEN i = m1 ELSE i = m1 + 1)
        BY <2>4
      <4>2. \E j \in 1..Len(l) : k[n1] = l[j] /\ (IF n1 < m THEN j = n1 ELSE j = n1 + 1)
        BY <2>4
      <4> QED
        BY <4>1, <4>2
    <3>2. l[i] = l[j]
      BY <3>1, <2>6
    <3>3. i = j
      BY <3>2, <1>d
    <3> QED
      BY <3>1, <3>3
  <2>7. ASSUME NEW u \in Callers, us[u].pc = "running"
        PROVE  1 \in 1..Len(k) /\ k[1] = u
    <3>1. u # t /\ ts[u].pc = "running"
      BY <2>7, <1>s
    <3>2. 1 \in 1..Len(l) /\ l[1] = u
      BY <3>1 DEF Orderly
    <3>3. m # 1 /\ Len(l) >= 2
      BY <3>1, <3>2, <2>1, <1>t
    <3>4. 1 \in 1..Len(k) /\ 1 < m
      BY <3>3, <2>3, <1>t
    <3> QED
      BY <3>2, <3>4, <2>4
  <2>8. ASSUME NEW u \in Callers, us[u].pc = "waiting"
        PROVE  \E n \in 1..Len(k) : k[n] = u
    <3>1. u # t /\ ts[u].pc = "waiting"
      BY <2>8, <1>s
    <3>2. PICK n \in 1..Len(l) : l[n] = u
      BY <3>1 DEF Orderly
    <3>3. n # m
      BY <3>1, <3>2, <2>1
    <3>4. CASE n < m
      <4>1. n \in 1..Len(k) /\ k[n] = l[n]
        BY <3>4, <2>3, <1>t
      <4> QED
        BY <4>1, <3>2
    <3>5. CASE m < n
      <4>1. n - 1 \in 1..Len(k) /\ ~(n - 1 < m) /\ (n - 1) + 1 = n
        BY <3>5, <2>3, <1>t
      <4>2. k[n - 1] = l[n]
        BY <4>1, <2>4
      <4> QED
        BY <4>1, <4>2, <3>2
    <3> QED
      BY <3>3, <3>4, <3>5
  <2>9. ASSUME NEW n \in 2..Len(k)
        PROVE  us[k[n]].pc = "waiting"
    <3>1. n \in 1..Len(k) /\ Len(k) \in Nat
      BY <2>3, <1>t
    <3>2. PICK i \in 2..Len(l) : k[n] = l[i]
      <4>1. n \in 2..Len(l) /\ n + 1 \in 2..Len(l)
        BY <3>1, <2>4
      <4> QED
        BY <4>1, <3>1, <2>4
    <3>3. ts[l[i]].pc = "waiting" /\ l[i] \in Callers
      BY <3>2, <1>t DEF Orderly
    <3>4. l[i] # t
      BY <3>1, <3>2, <2>5
    <3> QED
      BY <3>2, <3>3, <3>4, <1>w
  <2>10. k \in Seq(Callers)
    BY <2>3
  <2>11. Orderly(k, us)
    BY <2>6, <2>7, <2>8, <2>9, <2>10 DEF Orderly
  <2> QED
    BY <2>5, <2>11 DEF k
<1> QED
  BY <1>1, <1>2

\* One joins: it takes a free lock, or it waits.
LEMMA JoinsLock ==
    ASSUME NEW l, NEW ts, Orderly(l, ts), NEW t \in Callers, NEW us,
           \A n \in 1..Len(l) : l[n] # t,
           us[t].pc = IF l = <<>> THEN "running" ELSE "waiting",
           \A u \in Callers \ {t} : us[u].pc = ts[u].pc
    PROVE  Orderly(Append(l, t), us)
<1>t. l \in Seq(Callers) /\ Len(l) \in Nat
  BY DEF Orderly
<1> DEFINE k == Append(l, t)
<1>1. /\ k \in Seq(Callers) /\ Len(k) = Len(l) + 1 /\ k[Len(l) + 1] = t
      /\ \A n \in 1..Len(l) : k[n] = l[n]
  BY <1>t, AppendProperties
<1> HIDE DEF k
<1>2. \A n \in 1..Len(k) : n \in 1..Len(l) \/ n = Len(l) + 1
  BY <1>1, <1>t
<1>3. \A m, n \in 1..Len(k) : k[m] = k[n] => m = n
  BY <1>1, <1>2, <1>t DEF Orderly
<1>4. ASSUME NEW u \in Callers, us[u].pc = "running"
      PROVE  1 \in 1..Len(k) /\ k[1] = u
  <2>1. CASE u = t
    <3>1. Len(l) = 0
      BY <2>1, <1>4
    <3> QED
      BY <3>1, <2>1, <1>1
  <2>2. CASE u # t
    <3>1. 1 \in 1..Len(l) /\ l[1] = u
      BY <2>2, <1>4 DEF Orderly
    <3> QED
      BY <3>1, <1>1, <1>t
  <2> QED
    BY <2>1, <2>2
<1>5. ASSUME NEW u \in Callers, us[u].pc = "waiting"
      PROVE  \E n \in 1..Len(k) : k[n] = u
  <2>1. CASE u = t
    BY <2>1, <1>1, <1>t
  <2>2. CASE u # t
    <3>1. PICK n \in 1..Len(l) : l[n] = u
      BY <2>2, <1>5 DEF Orderly
    <3> QED
      BY <3>1, <1>1, <1>t
  <2> QED
    BY <2>1, <2>2
<1>6. ASSUME NEW n \in 2..Len(k)
      PROVE  us[k[n]].pc = "waiting"
  <2>1. CASE n = Len(l) + 1
    <3>1. l # <<>>
      BY <2>1
    <3> QED
      BY <3>1, <2>1, <1>1
  <2>2. CASE n \in 2..Len(l)
    <3>1. ts[l[n]].pc = "waiting" /\ k[n] = l[n] /\ l[n] \in Callers \ {t}
      BY <2>2, <1>1, <1>t DEF Orderly
    <3> QED
      BY <3>1
  <2> QED
    BY <2>1, <2>2, <1>1, <1>t
<1>7. Orderly(k, us)
  BY <1>1, <1>3, <1>4, <1>5, <1>6 DEF Orderly
<1> QED
  BY <1>7 DEF k

LockInv == Orderly(lock, caller)

LEMMA LockInit == McpInit => LockInv
<1> SUFFICES ASSUME McpInit PROVE LockInv
  OBVIOUS
<1>1. lock = <<>> /\ \A t \in Callers : caller[t].pc = "idle"
  BY DEF McpInit, AtRest
<1> QED
  BY <1>1 DEF LockInv, Orderly

-----------------------------------------------------------------------------
(***************************************************************************)
(* A request: nobody was served, so none was waited for, and now one is.   *)
(***************************************************************************)
NobodyServed == \A t \in Callers : caller[t].pc # "running"

\* The queue of one worker gets the request at its end, or is full.
LEMMA Appended ==
    ASSUME McpInv, NEW t \in Callers, Requested(t)
    PROVE  \/ UNCHANGED <<worker, current>>
           \/ \E i \in Ids :
                /\ worker' \in [Ids -> Worker] /\ current' = i /\ worker'[i].life # "none"
                /\ current \in {0, i} /\ \A j \in Ids \ {i} : worker'[j] = worker[j]
                /\ Len(worker'[i].queue) = Len(worker[i].queue) + 1
                /\ \A n \in 1..Len(worker[i].queue) : worker'[i].queue[n] = worker[i].queue[n]
                /\ worker'[i].queue[Len(worker'[i].queue)] = t
<1>t. Shapes /\ Entered /\ t \in Requests
  BY Disjoint DEF McpInv
<1>1. CASE HasWorker
  <2>1. current \in Ids /\ worker[current] \in Worker /\ worker[current].life # "none"
    BY <1>1, <1>t DEF HasWorker, Shapes, Ids, Entered
  <2>2. PICK i \in Ids, q \in Seq(Requests) : i = current /\ q = worker[i].queue
    BY <2>1 DEF Worker
  <2>3. PICK p \in Seq(Requests) : p = Append(q, t)
    BY <1>t, AppendProperties
  <2>4. Len(p) = Len(q) + 1 /\ p[Len(p)] = t /\ \A n \in 1..Len(q) : p[n] = q[n]
    BY <2>3, <1>t, AppendProperties
  <2>5. /\ current' = current
        /\ \/ worker' = worker
           \/ worker' = [worker EXCEPT ![i] = [worker[i] EXCEPT !.queue = p]]
    <3>1. Len(worker[i].queue) # MaxQueue
            => worker' = [worker EXCEPT ![i].queue = p]
      BY <1>1, <2>2, <2>3, <1>t DEF Requested, Shapes
    <3> QED
      BY <3>1, <1>1, <2>2, <1>t DEF Requested, Shapes
  <2> HIDE <2>3
  <2>6. [worker[i] EXCEPT !.queue = p] \in Worker /\ [worker[i] EXCEPT !.queue = p].queue = p
        /\ [worker[i] EXCEPT !.queue = p].life # "none"
    BY <2>1, <2>2 DEF Worker
  <2>7. CASE worker' = [worker EXCEPT ![i] = [worker[i] EXCEPT !.queue = p]]
    <3>1. /\ worker' \in [Ids -> Worker] /\ worker'[i].queue = p /\ worker'[i].life # "none"
          /\ \A j \in Ids \ {i} : worker'[j] = worker[j]
      BY <2>6, <2>7, <1>t DEF Shapes
    <3>2. /\ Len(worker'[i].queue) = Len(worker[i].queue) + 1
          /\ \A n \in 1..Len(worker[i].queue) : worker'[i].queue[n] = worker[i].queue[n]
          /\ worker'[i].queue[Len(worker'[i].queue)] = t
      BY <3>1, <2>2, <2>4
    <3>3. current' = i /\ current \in {0, i}
      BY <2>2, <2>5
    <3> QED
      BY <3>1, <3>2, <3>3
  <2> QED
    BY <2>5, <2>7
<1>2. CASE ~HasWorker
  <2>1. PICK i \in Ids :
          worker[i].life = "none" /\ worker' = [worker EXCEPT ![i] = Spawned(t)] /\ current' = i
    BY <1>2 DEF Requested
  <2>2. worker[i].queue = <<>> /\ current = 0
    BY <2>1, <1>2, <1>t, Records DEF Entered, HasWorker
  <2>3. PICK p \in Seq(Requests) : p = <<t>>
    <3>1. <<t>> \in Seq(Requests)
      BY <1>t
    <3> QED
      BY <3>1
  <2>4. Len(p) = 1 /\ p[1] = t /\ Len(<<>>) = 0
    BY <2>3
  <2>5. Spawned(t) = [NoWorker EXCEPT !.life = "live", !.queue = p]
    BY <2>3 DEF Spawned
  <2> HIDE <2>3
  <2>6. Spawned(t).queue = p /\ Spawned(t).life = "live" /\ Spawned(t) \in Worker
    BY <2>5, Records DEF Worker
  <2>7. /\ worker' \in [Ids -> Worker] /\ worker'[i].queue = p /\ worker'[i].life = "live"
        /\ \A j \in Ids \ {i} : worker'[j] = worker[j]
    BY <2>1, <2>6, <1>t DEF Shapes
  <2>8. /\ Len(worker'[i].queue) = Len(worker[i].queue) + 1
        /\ \A n \in 1..Len(worker[i].queue) : worker'[i].queue[n] = worker[i].queue[n]
        /\ worker'[i].queue[Len(worker'[i].queue)] = t
    <3>1. worker'[i].queue = p /\ worker[i].queue = <<>>
      BY <2>2, <2>7
    <3> QED
      BY <3>1, <2>4
  <2> QED
    BY <2>1, <2>2, <2>7, <2>8
<1> QED
  BY <1>1, <1>2

LEMMA RequestedInv ==
    ASSUME McpInv, NobodyServed, NEW t \in Callers, Requested(t),
           caller' \in [Callers -> Caller], caller'[t].pc = "running",
           \A u \in Callers \ {t} : caller'[u] = caller[u],
           shutdown' = shutdown
    PROVE  McpInv'
<1>t. Shapes /\ Queued /\ QueuedOnce /\ Entered
  BY DEF McpInv
<1>1. ASSUME NEW j \in Ids, NEW n \in Nat PROVE ~Awaited(j, n)
  <2>1. Awaited(j, n) => worker[j].queue[n] \in Callers
    BY DEF Awaited
  <2> QED
    BY <2>1, <1>t DEF Queued, NobodyServed
<1>2. CASE UNCHANGED <<worker, current>>
  <2>1. \A u \in Callers : caller[u].pc = "running" => caller'[u].pc = "running"
    BY DEF NobodyServed
  <2> QED
    BY <2>1, <1>2, CallersStep DEF Closed
<1>3. CASE \E i \in Ids :
                /\ worker' \in [Ids -> Worker] /\ current' = i /\ worker'[i].life # "none"
                /\ current \in {0, i} /\ \A j \in Ids \ {i} : worker'[j] = worker[j]
                /\ Len(worker'[i].queue) = Len(worker[i].queue) + 1
                /\ \A n \in 1..Len(worker[i].queue) : worker'[i].queue[n] = worker[i].queue[n]
                /\ worker'[i].queue[Len(worker'[i].queue)] = t
  <2>1. PICK i \in Ids :
                /\ worker' \in [Ids -> Worker] /\ current' = i /\ worker'[i].life # "none"
                /\ current \in {0, i} /\ \A j \in Ids \ {i} : worker'[j] = worker[j]
                /\ Len(worker'[i].queue) = Len(worker[i].queue) + 1
                /\ \A n \in 1..Len(worker[i].queue) : worker'[i].queue[n] = worker[i].queue[n]
                /\ worker'[i].queue[Len(worker'[i].queue)] = t
    BY <1>3
  <2>q. Len(worker[i].queue) \in Nat
    BY <1>t DEF Shapes, Worker
  <2>2. ASSUME NEW j \in Ids, NEW n \in Nat, Awaited(j, n)'
        PROVE  j = i /\ n = Len(worker'[i].queue)
    <3>1. CASE j # i
      <4>1. worker'[j] = worker[j]
        BY <2>1, <3>1
      <4>2. Awaited(j, n)
        BY <4>1, <2>2 DEF Awaited
      <4> QED
        BY <4>2, <1>1
    <3>2. CASE j = i /\ n # Len(worker'[i].queue)
      <4>1. n \in 1..Len(worker[i].queue) /\ worker'[i].queue[n] \in Callers
        BY <2>1, <2>2, <2>q, <3>2 DEF Awaited
      <4>2. Awaited(i, n)
        BY <4>1, <2>1 DEF Awaited
      <4> QED
        BY <4>2, <1>1
    <3> QED
      BY <3>1, <3>2
  <2>3. Queued'
    <3>1. ASSUME NEW j \in Ids, NEW n \in Nat, Awaited(j, n)'
          PROVE  /\ n = Len(worker'[j].queue)
                 /\ caller'[worker'[j].queue[n]].pc = "running"
      BY <3>1, <2>1, <2>2
    <3> QED
      BY <3>1 DEF Queued
  <2>4. QueuedOnce'
    <3>1. ASSUME NEW j \in Ids, NEW k \in Ids, NEW m \in Nat, NEW n \in Nat,
                 Awaited(j, m)', Awaited(k, n)'
          PROVE  j = k /\ m = n
      <4>1. j = i /\ m = Len(worker'[i].queue)
        BY <3>1, <2>2
      <4>2. k = i /\ n = Len(worker'[i].queue)
        BY <3>1, <2>2
      <4> QED
        BY <4>1, <4>2
    <3> QED
      BY <3>1 DEF QueuedOnce
  <2>5. Shapes'
    BY <2>1 DEF Shapes, Ids
  <2>6. Entered'
    <3>1. \A j \in Ids : worker'[j].life = "none" => worker'[j] = NoWorker /\ j # current'
      BY <2>1, <1>t DEF Entered
    <3>2. ~Closed' => \A j \in Ids : worker'[j].life # "none" => j = current'
      BY <2>1, <1>t, Disjoint DEF Entered, Closed
    <3> QED
      BY <3>1, <3>2 DEF Entered
  <2> QED
    BY <2>3, <2>4, <2>5, <2>6 DEF McpInv
<1> QED
  BY <1>2, <1>3, Appended

\* An operation starts: at once, or behind the lock, or not at all.
LEMMA OperateInv ==
    ASSUME McpInv, LockInv, NEW t \in Callers, caller[t].pc \notin {"waiting", "running"},
           NEW again \in BOOLEAN, Operate(t, caller, again), shutdown' = shutdown
    PROVE  McpInv'
<1> DEFINE Being(pc) == [caller EXCEPT ![t] = [pc |-> pc, answer |-> "none", again |-> again]]
           refused == [caller EXCEPT ![t] = [pc |-> "answered", answer |-> "error", again |-> FALSE]]
<1>1. Shapes /\ Entered
  BY DEF McpInv
<1>2. \/ caller' = Being("running") /\ Requested(t) /\ Without(lock, t) = <<>>
      \/ caller' \in {Being("waiting"), refused} /\ UNCHANGED <<worker, current>>
  BY DEF Operate
<1>3. CASE caller' = Being("running") /\ Requested(t) /\ Without(lock, t) = <<>>
  <2>1. /\ caller' \in [Callers -> Caller] /\ caller'[t].pc = "running"
        /\ \A u \in Callers \ {t} : caller'[u] = caller[u]
    BY <1>1, <1>3, Records DEF Shapes
  <2>2. Orderly(<<>>, caller)
    BY <1>3, LeavesLock DEF LockInv
  <2>3. NobodyServed
    BY <2>2 DEF Orderly, NobodyServed
  <2> QED
    BY <2>1, <2>3, <1>3, RequestedInv
<1>4. CASE caller' \in {Being("waiting"), refused} /\ UNCHANGED <<worker, current>>
  <2>1. /\ caller' \in [Callers -> Caller]
        /\ \A u \in Callers \ {t} : caller'[u] = caller[u]
    BY <1>1, <1>4, Records DEF Shapes
  <2>2. \A u \in Callers : caller[u].pc = "running" => caller'[u].pc = "running"
    BY <2>1
  <2> QED
    BY <2>1, <2>2, <1>4, CallersStep DEF Closed
<1> QED
  BY <1>2, <1>3, <1>4

LEMMA AcquireInv ==
    ASSUME McpInv, LockInv, NEW t \in Callers, Acquire(t)
    PROVE  McpInv'
<1>1. /\ caller \in [Callers -> Caller] /\ caller[t].pc = "waiting" /\ lock[1] = t
      /\ caller' = [caller EXCEPT ![t].pc = "running"] /\ Requested(t) /\ shutdown' = shutdown
  BY DEF McpInv, Shapes, Acquire
<1>2. /\ caller' \in [Callers -> Caller] /\ caller'[t].pc = "running"
      /\ \A u \in Callers \ {t} : caller'[u] = caller[u]
  BY <1>1 DEF Caller
<1>3. NobodyServed
  BY <1>1 DEF LockInv, Orderly, NobodyServed
<1> QED
  BY <1>1, <1>2, <1>3, RequestedInv

-----------------------------------------------------------------------------
(***************************************************************************)
(* Steps of a worker.                                                      *)
(***************************************************************************)
LEMMA Told ==
    ASSUME caller \in [Callers -> Caller], NEW R, NEW answer \in Answers, Tell(R, answer)
    PROVE  /\ caller' \in [Callers -> Caller]
           /\ \A u \in Callers : u \notin R => caller'[u] = caller[u]
           /\ \A u \in Callers : u \in R => caller'[u].pc = "answered"
<1>1. \A t \in Callers :
        /\ caller[t] \in Caller
        /\ [caller[t] EXCEPT !.pc = "answered", !.answer = answer] \in Caller
        /\ [caller[t] EXCEPT !.pc = "answered", !.answer = answer].pc = "answered"
  BY DEF Caller
<1> QED
  BY <1>1 DEF Tell

\* The request in execution is answered and leaves its queue.
LEMMA EndRequestInv ==
    ASSUME McpInv, NEW i \in Ids, Executing(i), NEW session \in {"none", "open"},
           NEW answer \in Answers, EndRequest(i, session, answer)
    PROVE  McpInv'
<1>t. Shapes /\ Queued /\ QueuedOnce /\ Entered
  BY DEF McpInv
<1>1. PICK q \in Seq(Requests) :
        q = worker[i].queue /\ q # <<>> /\ worker[i] \in Worker /\ worker[i].life = "live"
  BY <1>t DEF Executing, Shapes, Worker
<1>2. PICK p \in Seq(Requests) :
        p = Tail(q) /\ Len(p) = Len(q) - 1 /\ \A n \in 1..Len(p) : p[n] = q[n + 1]
  <2>1. /\ Tail(q) \in Seq(Requests) /\ Len(Tail(q)) = Len(q) - 1
        /\ \A n \in 1..Len(Tail(q)) : Tail(q)[n] = q[n + 1]
    BY <1>1, HeadTailProperties
  <2> QED
    BY <2>1
<1>3. Len(q) \in Nat /\ 1 \in 1..Len(q) /\ Head(q) = q[1]
  BY <1>1
<1> DEFINE w == [NoWorker EXCEPT !.life = "live", !.session = session, !.queue = p]
<1>4. w \in Worker /\ w.queue = p /\ w.life = "live"
  BY Records DEF Worker
<1>5. worker' = [worker EXCEPT ![i] = w] /\ UNCHANGED <<lock, current, cache, shutdown>>
  BY <1>1, <1>2 DEF EndRequest
<1> HIDE DEF w
<1>6. /\ worker' \in [Ids -> Worker] /\ worker'[i].queue = p /\ worker'[i].life = "live"
      /\ \A j \in Ids \ {i} : worker'[j] = worker[j]
  BY <1>4, <1>5, <1>t DEF Shapes
<1>7. /\ caller' \in [Callers -> Caller]
      /\ \A u \in Callers : u # q[1] => caller'[u] = caller[u]
  <2>1. Tell({q[1]}, answer)
    BY <1>1, <1>3 DEF EndRequest
  <2> QED
    BY <2>1, <1>t, Told DEF Shapes
<1>8. Shapes' /\ Entered'
  <2>1. Shapes'
    BY <1>5, <1>6, <1>7, <1>t DEF Shapes, Ids
  <2>2. Entered'
    BY <1>1, <1>5, <1>6, <1>t DEF Entered, Closed
  <2> QED
    BY <2>1, <2>2
<1>9. ASSUME NEW j \in Ids, NEW n \in Nat, Awaited(j, n)'
      PROVE  /\ \E m \in Nat : WasAwaited(j, n, m)
             /\ caller'[worker'[j].queue[n]].pc = "running"
  <2>1. PICK t \in Callers : t = worker'[j].queue[n] /\ n \in 1..Len(worker'[j].queue)
    BY <1>9 DEF Awaited
  <2>2. PICK m \in Nat : WasAwaited(j, n, m) /\ ~(j = i /\ m = 1)
    <3>1. CASE j = i
      <4>1. /\ n + 1 \in Nat /\ n + 1 \in 1..Len(q) /\ q[n + 1] = t
            /\ Len(q) - (n + 1) = Len(p) - n /\ n + 1 # 1
        BY <3>1, <2>1, <1>2, <1>3, <1>6
      <4>2. WasAwaited(j, n, n + 1)
        BY <4>1, <3>1, <2>1, <1>1, <1>6 DEF WasAwaited
      <4> QED
        BY <4>1, <4>2
    <3>2. CASE j # i
      <4>1. worker'[j] = worker[j]
        BY <3>2, <1>6
      <4>2. WasAwaited(j, n, n)
        BY <4>1, <2>1 DEF WasAwaited
      <4> QED
        BY <4>2, <3>2
    <3> QED
      BY <3>1, <3>2
  <2>3. Awaited(j, m) /\ worker[j].queue[m] = t
    BY <2>1, <2>2 DEF WasAwaited, Awaited
  <2>4. t # q[1]
    <3> SUFFICES ASSUME t = q[1] PROVE FALSE
      OBVIOUS
    <3>1. Awaited(i, 1)
      BY <1>1, <1>3 DEF Awaited
    <3> QED
      BY <2>2, <2>3, <3>1, <1>t DEF QueuedOnce
  <2>5. caller[t].pc = "running"
    BY <2>3, <1>t DEF Queued
  <2> QED
    BY <2>1, <2>2, <2>4, <2>5, <1>7
<1> QED
  BY <1>8, <1>9, EntriesStay

\* The worker goes on with the request in execution.
LEMMA GoesInv ==
    ASSUME McpInv, NEW i \in Ids, Executing(i), NEW w \in Worker, Goes(i, w),
           w.queue = worker[i].queue, w.life = "live"
    PROVE  McpInv'
<1>1. Shapes /\ Entered /\ worker[i].life = "live"
  BY DEF McpInv, Executing
<1>2. worker' = [worker EXCEPT ![i] = w] /\ UNCHANGED <<caller, lock, current, cache, shutdown>>
  BY DEF Goes
<1>3. worker' \in [Ids -> Worker] /\ worker'[i] = w /\ \A j \in Ids \ {i} : worker'[j] = worker[j]
  BY <1>1, <1>2 DEF Shapes
<1>4. Shapes' /\ Entered'
  BY <1>1, <1>2, <1>3 DEF Shapes, Entered, Closed
<1>5. \A j \in Ids : worker'[j].queue = worker[j].queue
  BY <1>3
<1> QED
  BY <1>2, <1>4, <1>5, QueuesStay

\* What a step of a worker that is not cancelled amounts to.
LEMMA RequestSteps ==
    ASSUME worker \in [Ids -> Worker], NEW i \in Ids, WorkerStep(i), ~StopWorker(i)
    PROVE  /\ Executing(i)
           /\ \/ \E w \in Worker : Goes(i, w) /\ w.queue = worker[i].queue /\ w.life = "live"
              \/ \E session \in {"none", "open"}, answer \in Answers \ {"none"} :
                   EndRequest(i, session, answer)
<1>1. Executing(i) /\ worker[i] \in Worker /\ worker[i].life = "live"
  BY DEF WorkerStep, Recycle, StartRequest, Succeed, AttemptFails, Replay, OpenFails, CloseDone,
         CloseTimesOut, Executing
<1>2. CASE Recycle(i)
  <2>1. [worker[i] EXCEPT !.session = "closing"] \in Worker
        /\ [worker[i] EXCEPT !.session = "closing"].queue = worker[i].queue
        /\ [worker[i] EXCEPT !.session = "closing"].life = "live"
    BY <1>1 DEF Worker
  <2> QED
    BY <2>1, <1>1, <1>2 DEF Recycle
<1>3. CASE StartRequest(i)
  <2>1. [worker[i] EXCEPT !.session = "open", !.tries = 1] \in Worker
        /\ [worker[i] EXCEPT !.session = "open", !.tries = 1].queue = worker[i].queue
        /\ [worker[i] EXCEPT !.session = "open", !.tries = 1].life = "live"
    <3>1. 1 \in 0..2
      OBVIOUS
    <3> QED
      BY <3>1, <1>1 DEF Worker
  <2> QED
    BY <2>1, <1>1, <1>3 DEF StartRequest
<1>4. CASE AttemptFails(i)
  <2>1. PICK ending \in {"none", "raised", "timeout"} :
          Goes(i, [worker[i] EXCEPT !.session = "closing", !.ending = ending])
    BY <1>4 DEF AttemptFails
  <2>2. [worker[i] EXCEPT !.session = "closing", !.ending = ending] \in Worker
        /\ [worker[i] EXCEPT !.session = "closing", !.ending = ending].queue = worker[i].queue
        /\ [worker[i] EXCEPT !.session = "closing", !.ending = ending].life = "live"
    BY <1>1 DEF Worker
  <2> QED
    BY <2>1, <2>2, <1>1
<1>5. CASE Replay(i)
  <2>1. [worker[i] EXCEPT !.session = "open", !.tries = 2] \in Worker
        /\ [worker[i] EXCEPT !.session = "open", !.tries = 2].queue = worker[i].queue
        /\ [worker[i] EXCEPT !.session = "open", !.tries = 2].life = "live"
    <3>1. 2 \in 0..2
      OBVIOUS
    <3> QED
      BY <3>1, <1>1 DEF Worker
  <2> QED
    BY <2>1, <1>1, <1>5 DEF Replay
<1>6. CASE CloseDone(i)
  <2>1. [worker[i] EXCEPT !.session = "none"] \in Worker
        /\ [worker[i] EXCEPT !.session = "none"].queue = worker[i].queue
        /\ [worker[i] EXCEPT !.session = "none"].life = "live"
    BY <1>1 DEF Worker
  <2>2. CASE worker[i].ending = "none"
    BY <2>1, <2>2, <1>1, <1>6 DEF CloseDone
  <2>3. CASE worker[i].ending = "raised"
    <3>1. \E answer \in Raised : EndRequest(i, "none", answer)
      BY <2>3, <1>6 DEF CloseDone
    <3>2. Raised \subseteq Answers \ {"none"} /\ "none" \in {"none", "open"}
      BY DEF Raised, Answers
    <3> QED
      BY <3>1, <3>2, <1>1
  <2>4. CASE worker[i].ending = "timeout"
    <3>1. EndRequest(i, "none", "timeout")
      BY <2>4, <1>6 DEF CloseDone
    <3> QED
      BY <3>1, <1>1 DEF Answers
  <2> QED
    BY <2>2, <2>3, <2>4, <1>1 DEF Worker
<1>7. CASE Succeed(i) \/ OpenFails(i) \/ CloseTimesOut(i)
  <2>1. Raised \cup {"timeout", "ok"} \subseteq Answers \ {"none"}
    BY DEF Raised, Answers
  <2>2. \E session \in {"none", "open"}, answer \in Raised \cup {"timeout", "ok"} :
          EndRequest(i, session, answer)
    BY <1>7 DEF Succeed, OpenFails, CloseTimesOut
  <2> QED
    BY <2>1, <2>2, <1>1
<1> QED
  BY <1>2, <1>3, <1>4, <1>5, <1>6, <1>7 DEF WorkerStep

\* A cancelled worker refuses some of its queue and is no more.
LEMMA Stopped ==
    ASSUME McpInv, NEW i \in Ids, StopWorker(i)
    PROVE  /\ worker' \in [Ids -> Worker] /\ worker'[i] = NoWorker
           /\ \A j \in Ids \ {i} : worker'[j] = worker[j]
           /\ current' = IF current = i THEN 0 ELSE current
           /\ UNCHANGED <<lock, cache, shutdown>> /\ worker[i].life \in {"dying", "broken"}
           /\ \E R : /\ Tell(R, "lost")
                     /\ \A t \in R \cap Callers : \E n \in Nat :
                          Awaited(i, n) /\ worker[i].queue[n] = t
<1>1. worker \in [Ids -> Worker]
  BY DEF McpInv, Shapes
<1>2. /\ worker' \in [Ids -> Worker] /\ worker'[i] = NoWorker
      /\ \A j \in Ids \ {i} : worker'[j] = worker[j]
      /\ current' = IF current = i THEN 0 ELSE current
      /\ UNCHANGED <<lock, cache, shutdown>> /\ worker[i].life \in {"dying", "broken"}
  BY <1>1, Records DEF StopWorker, RemovedEntry
<1>3. PICK q \in Seq(Requests) : q = worker[i].queue
  BY <1>1 DEF Worker
<1>4. \E m \in {1, 2} : \E R \in {{q[n] : n \in m..Len(q)}, {}} : Tell(R, "lost")
  BY <1>3 DEF StopWorker
<1>p. PICK m \in {1, 2} : \E R \in {{q[n] : n \in m..Len(q)}, {}} : Tell(R, "lost")
  BY <1>4
<1>5. PICK R : R \in {{q[n] : n \in m..Len(q)}, {}} /\ Tell(R, "lost")
  BY <1>p
<1>6. ASSUME NEW t \in R \cap Callers
      PROVE  \E n \in Nat : Awaited(i, n) /\ worker[i].queue[n] = t
  <2>1. PICK n \in m..Len(q) : t = q[n]
    BY <1>5
  <2>2. n \in Nat /\ n \in 1..Len(q)
    BY <2>1
  <2> QED
    BY <2>1, <2>2, <1>3 DEF Awaited
<1> QED
  BY <1>2, <1>5, <1>6

LEMMA StopInv ==
    ASSUME McpInv, NEW i \in Ids, StopWorker(i)
    PROVE  McpInv'
<1>t. Shapes /\ Queued /\ QueuedOnce /\ Entered
  BY DEF McpInv
<1>1. /\ worker' \in [Ids -> Worker] /\ worker'[i] = NoWorker
      /\ \A j \in Ids \ {i} : worker'[j] = worker[j]
      /\ current' = IF current = i THEN 0 ELSE current
      /\ shutdown' = shutdown /\ worker[i].life \in {"dying", "broken"}
  BY Stopped
<1>2. PICK R : /\ Tell(R, "lost")
               /\ \A t \in R \cap Callers : \E n \in Nat :
                    Awaited(i, n) /\ worker[i].queue[n] = t
  BY Stopped
<1>3. /\ caller' \in [Callers -> Caller]
      /\ \A u \in Callers : u \notin R => caller'[u] = caller[u]
  <2>1. "lost" \in Answers
    BY DEF Answers
  <2> QED
    BY <2>1, <1>2, <1>t, Told DEF Shapes
<1>4. Shapes'
  BY <1>1, <1>3, <1>t, Disjoint DEF Shapes
<1>5. Entered'
  <2>1. \A j \in Ids : worker'[j].life = "none" => worker'[j] = NoWorker /\ j # current'
    BY <1>1, <1>t, Disjoint DEF Entered
  <2>2. ~Closed' => \A j \in Ids : worker'[j].life # "none" => j = current'
    BY <1>1, <1>t, Records DEF Entered, Closed
  <2> QED
    BY <2>1, <2>2 DEF Entered
<1>6. ASSUME NEW j \in Ids, NEW n \in Nat, Awaited(j, n)'
      PROVE  /\ \E m \in Nat : WasAwaited(j, n, m)
             /\ caller'[worker'[j].queue[n]].pc = "running"
  <2>1. j # i
    <3>1. Len(<<>>) = 0
      OBVIOUS
    <3> QED
      BY <3>1, <1>1, <1>6, Records DEF Awaited
  <2>2. worker'[j] = worker[j]
    BY <2>1, <1>1
  <2>3. WasAwaited(j, n, n) /\ Awaited(j, n)
    BY <2>2, <1>6 DEF WasAwaited, Awaited
  <2>4. PICK t \in Callers : t = worker[j].queue[n]
    BY <2>3 DEF Awaited
  <2>5. t \notin R
    BY <2>1, <2>3, <1>2, <1>t DEF QueuedOnce
  <2>6. caller'[t].pc = "running"
    BY <2>3, <2>4, <2>5, <1>3, <1>t DEF Queued
  <2> QED
    BY <2>2, <2>3, <2>4, <2>6
<1> QED
  BY <1>4, <1>5, <1>6, EntriesStay

LEMMA WorkerStepInv ==
    ASSUME McpInv, NEW i \in Ids, WorkerStep(i)
    PROVE  McpInv'
<1>1. CASE StopWorker(i)
  BY <1>1, StopInv
<1>2. CASE ~StopWorker(i)
  <2>1. /\ Executing(i)
        /\ \/ \E w \in Worker : Goes(i, w) /\ w.queue = worker[i].queue /\ w.life = "live"
           \/ \E session \in {"none", "open"}, answer \in Answers : EndRequest(i, session, answer)
    BY <1>2, RequestSteps DEF McpInv, Shapes
  <2> QED
    BY <2>1, GoesInv, EndRequestInv
<1> QED
  BY <1>1, <1>2

-----------------------------------------------------------------------------
(***************************************************************************)
(* Steps of the callers and of close.                                      *)
(***************************************************************************)
LEMMA CallEndsInv ==
    ASSUME McpInv, NEW c \in Calls, CallEnds(c)
    PROVE  McpInv'
<1>1. /\ caller \in [Callers -> Caller] /\ c \in Callers /\ "retry" \in Callers
      /\ UNCHANGED <<worker, current, shutdown>> /\ caller[c].pc = "answered"
  BY Disjoint DEF McpInv, Shapes, CallEnds
<1> DEFINE rested == [caller EXCEPT ![c] = AtRest]
<1>2. rested \in [Callers -> Caller] /\ \A u \in Callers \ {c} : rested[u] = caller[u]
  BY <1>1, Records
<1>3. \/ caller' = rested
      \/ rested["retry"].pc = "idle" /\ caller' = [rested EXCEPT !["retry"].pc = "delay"]
  BY DEF CallEnds, RetryScheduled
<1> HIDE DEF rested
<1>4. [rested["retry"] EXCEPT !.pc = "delay"] \in Caller
  BY <1>1, <1>2 DEF Caller
<1>5. caller' \in [Callers -> Caller]
  BY <1>1, <1>2, <1>3, <1>4
<1>6. \A u \in Callers : caller[u].pc = "running" => caller'[u].pc = "running"
  BY <1>1, <1>2, <1>3
<1> QED
  BY <1>1, <1>5, <1>6, CallersStep DEF Closed

\* Where a discovery leaves its task.
LEMMA RestedSomewhere ==
    ASSUME caller \in [Callers -> Caller], NEW t \in Discoveries, NEW ok \in BOOLEAN
    PROVE  \E r \in Caller : /\ r.pc \in {"idle", "delay", "stoppingAgain"}
                             /\ Closed => r.pc # "delay"
                             /\ Rested(t, ok) = [caller EXCEPT ![t] = r]
<1>1. /\ AtRest \in Caller /\ AtRest.pc = "idle"
      /\ [AtRest EXCEPT !.pc = "delay"] \in Caller /\ [AtRest EXCEPT !.pc = "delay"].pc = "delay"
      /\ [AtRest EXCEPT !.pc = "stoppingAgain"] \in Caller
      /\ [AtRest EXCEPT !.pc = "stoppingAgain"].pc = "stoppingAgain"
  BY Records
<1>2. CASE t = "retry" /\ ~ok /\ ~Closed
  BY <1>1, <1>2 DEF Rested
<1>3. CASE t = "reconnect" /\ ~ok
  BY <1>1, <1>3 DEF Rested
<1>4. CASE ~(t = "retry" /\ ~ok /\ ~Closed) /\ ~(t = "reconnect" /\ ~ok)
  BY <1>1, <1>4 DEF Rested
<1> QED
  BY <1>2, <1>3, <1>4

LEMMA DiscoveryEndsInv ==
    ASSUME McpInv, NEW t \in Discoveries, DiscoveryEnds(t)
    PROVE  McpInv'
<1>1. /\ caller \in [Callers -> Caller] /\ t \in Callers /\ "retry" \in Callers
      /\ UNCHANGED <<worker, current, shutdown>> /\ caller[t].pc = "answered"
  BY Disjoint DEF McpInv, Shapes, DiscoveryEnds
<1>2. PICK ok \in BOOLEAN :
        \/ caller' = Rested(t, ok)
        \/ caller' = RetryScheduled(Rested(t, ok))
  BY DEF DiscoveryEnds
<1>3. PICK r \in Caller : Rested(t, ok) = [caller EXCEPT ![t] = r]
  BY <1>1, RestedSomewhere
<1> DEFINE ts == [caller EXCEPT ![t] = r]
<1>4. ts \in [Callers -> Caller] /\ \A u \in Callers \ {t} : ts[u] = caller[u]
  BY <1>1
<1>5. \/ caller' = ts
      \/ ts["retry"].pc = "idle" /\ caller' = [ts EXCEPT !["retry"].pc = "delay"]
  BY <1>2, <1>3 DEF RetryScheduled
<1> HIDE DEF ts
<1>6. [ts["retry"] EXCEPT !.pc = "delay"] \in Caller
  BY <1>1, <1>4 DEF Caller
<1>7. caller' \in [Callers -> Caller]
  BY <1>1, <1>4, <1>5, <1>6
<1>8. \A u \in Callers : caller[u].pc = "running" => caller'[u].pc = "running"
  BY <1>1, <1>4, <1>5
<1> QED
  BY <1>1, <1>7, <1>8, CallersStep DEF Closed

\* What becomes of a queue: its requests stay where they are, and nobody waits for some.
LEMMA ForsakenQueue ==
    ASSUME worker \in [Ids -> Worker], NEW T, NEW j \in Ids, NEW v, v = Forsaken(T)[j]
    PROVE  /\ v \in Worker
           /\ v = [worker[j] EXCEPT !.queue = v.queue]
           /\ Len(v.queue) = Len(worker[j].queue)
           /\ \A n \in 1..Len(worker[j].queue) :
                \/ v.queue[n] = worker[j].queue[n] /\ worker[j].queue[n] \notin T
                \/ v.queue[n] = "orphaned call" /\ worker[j].queue[n] \in T \cap Calls
                \/ v.queue[n] = "orphaned discovery"
<1>1. PICK q \in Seq(Requests) : q = worker[j].queue
  BY DEF Worker
<1> DEFINE p == [n \in 1..Len(q) |-> CASE q[n] \notin T -> q[n]
                               [] q[n] \in T \cap Calls -> "orphaned call"
                               [] OTHER -> "orphaned discovery"]
<1>2. \A n \in 1..Len(q) : /\ p[n] \in Requests
                           /\ \/ p[n] = q[n] /\ q[n] \notin T
                              \/ p[n] = "orphaned call" /\ q[n] \in T \cap Calls
                              \/ p[n] = "orphaned discovery"
  <2> SUFFICES ASSUME NEW n \in 1..Len(q)
               PROVE  /\ p[n] \in Requests
                      /\ \/ p[n] = q[n] /\ q[n] \notin T
                         \/ p[n] = "orphaned call" /\ q[n] \in T \cap Calls
                         \/ p[n] = "orphaned discovery"
    OBVIOUS
  <2>1. q[n] \in Requests /\ "orphaned call" \in Requests /\ "orphaned discovery" \in Requests
    <3> HIDE DEF p
    <3>1. q[n] \in Requests
      OBVIOUS
    <3> QED
      BY <3>1 DEF Requests, Orphans
  <2>2. CASE q[n] \notin T
    BY <2>1, <2>2
  <2>3. CASE q[n] \in T \cap Calls
    BY <2>1, <2>3
  <2>4. CASE q[n] \in T /\ q[n] \notin Calls
    BY <2>1, <2>4
  <2> QED
    BY <2>2, <2>3, <2>4
<1>3. p \in Seq(Requests) /\ Len(p) = Len(q)
  <2>1. Len(q) \in Nat
    BY LenProperties
  <2>2. p \in [1..Len(q) -> Requests]
    BY <1>2
  <2> HIDE DEF p
  <2> QED
    BY <2>1, <2>2, LenProperties, SeqDef
<1>4. v = [worker[j] EXCEPT !.queue = p]
  BY <1>1 DEF Forsaken
<1> HIDE DEF p
<1>5. [worker[j] EXCEPT !.queue = p] \in Worker /\ [worker[j] EXCEPT !.queue = p].queue = p
  BY <1>3 DEF Worker
<1> QED
  BY <1>1, <1>2, <1>3, <1>4, <1>5

\* Callers give up or are cancelled.
LEMMA ForsakenInv ==
    ASSUME McpInv, NEW T, worker' = Forsaken(T), current' = current, Closed => Closed',
           caller' \in [Callers -> Caller],
           \A u \in Callers \ T : caller[u].pc = "running" => caller'[u].pc = "running"
    PROVE  McpInv'
<1>t. Shapes /\ Queued /\ QueuedOnce /\ Entered /\ worker \in [Ids -> Worker]
  BY DEF McpInv, Shapes
<1>f. ASSUME NEW j \in Ids
      PROVE  /\ worker'[j] \in Worker
             /\ worker'[j] = [worker[j] EXCEPT !.queue = worker'[j].queue]
             /\ Len(worker'[j].queue) = Len(worker[j].queue)
             /\ \A n \in 1..Len(worker[j].queue) :
                  worker'[j].queue[n] \notin Orphans
                    => worker'[j].queue[n] = worker[j].queue[n] /\ worker[j].queue[n] \notin T
  <2>1. PICK v : v = worker'[j] /\ v = Forsaken(T)[j]
    OBVIOUS
  <2>2. /\ v \in Worker
        /\ v = [worker[j] EXCEPT !.queue = v.queue]
        /\ Len(v.queue) = Len(worker[j].queue)
        /\ \A n \in 1..Len(worker[j].queue) :
             \/ v.queue[n] = worker[j].queue[n] /\ worker[j].queue[n] \notin T
             \/ v.queue[n] = "orphaned call" /\ worker[j].queue[n] \in T \cap Calls
             \/ v.queue[n] = "orphaned discovery"
    BY <2>1, <1>t, ForsakenQueue, Zenon
  <2>3. \A n \in 1..Len(worker[j].queue) :
          v.queue[n] \notin Orphans
            => v.queue[n] = worker[j].queue[n] /\ worker[j].queue[n] \notin T
    BY <2>2 DEF Orphans
  <2> QED
    BY <2>1, <2>2, <2>3
<1>1. \A j \in Ids : worker'[j] \in Worker /\ worker'[j].life = worker[j].life
  <2> SUFFICES ASSUME NEW j \in Ids
               PROVE  worker'[j] \in Worker /\ worker'[j].life = worker[j].life
    OBVIOUS
  <2>1. worker[j] \in Worker
    BY <1>t
  <2>2. [worker[j] EXCEPT !.queue = worker'[j].queue].life = worker[j].life
    BY <2>1 DEF Worker
  <2> QED
    BY <2>2, <1>f
<1>2. worker' \in [Ids -> Worker]
  <2>1. worker' = [j \in Ids |-> worker'[j]]
    BY DEF Forsaken
  <2> QED
    BY <2>1, <1>1
<1>3. ASSUME NEW j \in Ids, worker[j].life = "none"
      PROVE  worker'[j] = NoWorker
  <2>1. worker[j] = NoWorker /\ Len(worker[j].queue) = 0
    <3>1. Len(<<>>) = 0
      OBVIOUS
    <3> QED
      BY <3>1, <1>3, <1>t, Records DEF Entered
  <2>2. worker'[j].queue \in Seq(Requests) /\ Len(worker'[j].queue) = 0
    BY <2>1, <1>f DEF Worker
  <2>3. worker'[j].queue = <<>>
    BY <2>2
  <2>4. worker'[j] = [NoWorker EXCEPT !.queue = <<>>]
    BY <2>1, <2>3, <1>f
  <2> QED
    BY <2>4 DEF NoWorker
<1>4. Shapes' /\ Entered'
  <2>1. Shapes'
    BY <1>2, <1>t DEF Shapes
  <2>2. Entered'
    BY <1>1, <1>3, <1>t DEF Entered
  <2> QED
    BY <2>1, <2>2
<1>5. ASSUME NEW j \in Ids, NEW n \in Nat, Awaited(j, n)'
      PROVE  /\ \E m \in Nat : WasAwaited(j, n, m)
             /\ caller'[worker'[j].queue[n]].pc = "running"
  <2>1. Len(worker'[j].queue) = Len(worker[j].queue) /\ n \in 1..Len(worker[j].queue)
    BY <1>5, <1>f DEF Awaited
  <2>2. worker'[j].queue[n] \in Callers /\ worker'[j].queue[n] \notin Orphans
    BY <1>5, Disjoint DEF Awaited
  <2>3. worker'[j].queue[n] = worker[j].queue[n] /\ worker[j].queue[n] \notin T
    BY <2>1, <2>2, <1>f
  <2>4. WasAwaited(j, n, n) /\ Awaited(j, n)
    BY <2>1, <2>2, <2>3 DEF WasAwaited, Awaited
  <2>5. caller[worker[j].queue[n]].pc = "running"
    BY <2>4, <1>t DEF Queued
  <2> QED
    BY <2>2, <2>3, <2>4, <2>5
<1> QED
  BY <1>4, <1>5, EntriesStay

LEMMA GiveUpInv ==
    ASSUME McpInv, NEW t \in Callers, GiveUp(t)
    PROVE  McpInv'
<1>1. /\ caller \in [Callers -> Caller] /\ worker' = Forsaken({t}) /\ UNCHANGED <<current, shutdown>>
      /\ caller' = [caller EXCEPT ![t] = [caller[t] EXCEPT !.pc = "answered", !.answer = "timeout"]]
  BY DEF McpInv, Shapes, GiveUp
<1>2. [caller[t] EXCEPT !.pc = "answered", !.answer = "timeout"] \in Caller
  BY <1>1 DEF Caller, Answers
<1>3. caller' \in [Callers -> Caller] /\ \A u \in Callers \ {t} : caller'[u] = caller[u]
  BY <1>1, <1>2
<1> QED
  BY <1>1, <1>3, ForsakenInv DEF Closed

\* The worker of the entry is cancelled, on reconnect and on close; its queue stays.
LEMMA CancelledWorker ==
    ASSUME McpInv, WorkerCancelled
    PROVE  /\ current' = current
           /\ \/ ~HasWorker /\ worker' = worker
              \/ /\ current \in Ids /\ worker[current].life # "none"
                 /\ worker' \in [Ids -> Worker] /\ worker'[current].queue = worker[current].queue
                 /\ worker'[current].life \in {"dying", "broken"}
                 /\ \A j \in Ids \ {current} : worker'[j] = worker[j]
<1>t. Shapes /\ Entered
  BY DEF McpInv
<1>1. CASE ~HasWorker
  BY <1>1 DEF WorkerCancelled
<1>2. CASE HasWorker
  <2>1. /\ current \in Ids /\ worker[current] \in Worker
        /\ worker[current].life # "none" /\ current' = current
    BY <1>2, <1>t DEF HasWorker, Shapes, Ids, Entered, WorkerCancelled
  <2>2. PICK life \in {"dying", "broken"}, session \in {"none", "closing"} :
          worker' = [worker EXCEPT ![current] =
            [NoWorker EXCEPT !.life = life, !.session = session, !.queue = worker[current].queue]]
    <3>1. PICK w \in Cancelled(current) : worker' = [worker EXCEPT ![current] = w]
      BY <1>2 DEF WorkerCancelled
    <3>2. \E life \in {"dying", "broken"}, session \in {"none", "closing"} :
            w = [NoWorker EXCEPT !.life = life, !.session = session, !.queue = worker[current].queue]
      BY <3>1 DEF Cancelled
    <3> QED
      BY <3>1, <3>2
  <2>3. PICK q \in Seq(Requests) : q = worker[current].queue
    BY <2>1 DEF Worker
  <2> DEFINE w == [NoWorker EXCEPT !.life = life, !.session = session, !.queue = q]
  <2>4. w \in Worker /\ w.queue = q /\ w.life = life
    BY Records DEF Worker
  <2>5. worker' = [worker EXCEPT ![current] = w]
    BY <2>2, <2>3
  <2> HIDE DEF w
  <2>6. /\ worker' \in [Ids -> Worker]
        /\ worker'[current] = w /\ \A j \in Ids \ {current} : worker'[j] = worker[j]
    BY <2>1, <2>4, <2>5, <1>t DEF Shapes
  <2> QED
    BY <2>1, <2>3, <2>4, <2>6
<1> QED
  BY <1>1, <1>2

LEMMA WorkerCancelledInv ==
    ASSUME McpInv, WorkerCancelled, Closed => Closed', caller' \in [Callers -> Caller],
           \A t \in Callers : caller[t].pc = "running" => caller'[t].pc = "running"
    PROVE  McpInv'
<1>t. Shapes /\ Entered
  BY DEF McpInv
<1>1. current' = current
  BY CancelledWorker
<1>2. CASE worker' = worker
  BY <1>1, <1>2, CallersStep
<1>3. CASE /\ current \in Ids /\ worker[current].life # "none"
           /\ worker' \in [Ids -> Worker] /\ worker'[current].queue = worker[current].queue
           /\ worker'[current].life \in {"dying", "broken"}
           /\ \A j \in Ids \ {current} : worker'[j] = worker[j]
  <2>1. Shapes' /\ Entered'
    BY <1>1, <1>3, <1>t DEF Shapes, Entered
  <2>2. \A j \in Ids : worker'[j].queue = worker[j].queue
    BY <1>3
  <2> QED
    BY <2>1, <2>2, QueuesStay
<1> QED
  BY <1>2, <1>3, CancelledWorker

LEMMA ReconnectInv ==
    ASSUME McpInv, LockInv, Reconnect \/ StopSession \/ StartAfresh
    PROVE  McpInv'
<1>t. caller \in [Callers -> Caller] /\ {"refresh", "retry", "reconnect"} \subseteq Callers
  BY Disjoint DEF McpInv, Shapes
<1>1. CASE Reconnect
  <2>1. [caller["reconnect"] EXCEPT !.pc = "cancelling"] \in Caller
    BY <1>t DEF Caller
  <2> DEFINE ts == [caller EXCEPT !["reconnect"].pc = "cancelling"]
  <2>2. ts \in [Callers -> Caller] /\ \A u \in Callers \ {"reconnect"} : ts[u] = caller[u]
    BY <2>1, <1>t
  <2>3. /\ caller' = [u \in Callers |-> IF u \in {"refresh"} THEN AtRest ELSE ts[u]]
        /\ worker' = Forsaken({"refresh"}) /\ UNCHANGED <<current, shutdown>>
        /\ caller["reconnect"].pc = "idle"
    BY <1>1 DEF Reconnect, CallersCancelled
  <2> HIDE DEF ts
  <2>4. /\ caller' \in [Callers -> Caller]
        /\ \A u \in Callers \ {"refresh"} : caller[u].pc = "running" => caller'[u].pc = "running"
    BY <2>2, <2>3, Records
  <2> QED
    BY <2>3, <2>4, ForsakenInv DEF Closed
<1>2. CASE StopSession
  <2>1. PICK r \in Caller : caller' = [caller EXCEPT !["reconnect"] = r]
    BY <1>2, Records, <1>t DEF StopSession
  <2>2. caller["reconnect"].pc # "running"
    BY <1>2 DEF StopSession
  <2>3. /\ caller' \in [Callers -> Caller]
        /\ \A t \in Callers : caller[t].pc = "running" => caller'[t].pc = "running"
    BY <2>1, <2>2, <1>t
  <2>4. WorkerCancelled /\ (Closed => Closed')
    BY <1>2 DEF StopSession, Closed
  <2> QED
    BY <2>3, <2>4, WorkerCancelledInv
<1>3. CASE StartAfresh
  <2>1. /\ caller["reconnect"].pc \notin {"waiting", "running"}
        /\ Operate("reconnect", caller, HasWorker) /\ shutdown' = shutdown
    BY <1>3 DEF StartAfresh
  <2>2. HasWorker \in BOOLEAN
    BY DEF HasWorker
  <2> QED
    BY <2>1, <2>2, <1>t, OperateInv
<1> QED
  BY <1>1, <1>2, <1>3

LEMMA CloseInv ==
    ASSUME McpInv, Close \/ CloseSessions \/ CloseEnds
    PROVE  McpInv'
<1>t. caller \in [Callers -> Caller] /\ Shapes /\ Entered
  BY DEF McpInv, Shapes
<1>1. CASE Close
  <2>1. /\ caller' = [t \in Callers |-> IF t \in {"retry", "refresh"} THEN AtRest ELSE caller[t]]
        /\ worker' = Forsaken({"retry", "refresh"}) /\ current' = current /\ (Closed => Closed')
    BY <1>1 DEF Close, CallersCancelled, Closed
  <2>2. /\ caller' \in [Callers -> Caller]
        /\ \A u \in Callers \ {"retry", "refresh"} : caller'[u] = caller[u]
    BY <2>1, <1>t, Records
  <2> QED
    BY <2>1, <2>2, ForsakenInv
<1>2. CASE CloseSessions
  <2>1. WorkerCancelled /\ (Closed => Closed') /\ caller' = caller
    BY <1>2 DEF CloseSessions, Closed
  <2> QED
    BY <2>1, <1>t, WorkerCancelledInv
<1>3. CASE CloseEnds
  <2>1. caller' = caller /\ worker' = worker /\ current' = 0 /\ shutdown' = "closed"
    BY <1>3 DEF CloseEnds
  <2>2. Shapes' /\ Entered'
    BY <2>1, <1>t, Disjoint DEF Shapes, Entered, Closed
  <2> QED
    BY <2>1, <2>2, QueuesStay
<1> QED
  BY <1>1, <1>2, <1>3

\* Calls, refreshes and retries that start, and the second try of a discovery.
LEMMA StartsInv ==
    ASSUME McpInv, LockInv,
           \/ \E c \in Calls : Call(c)
           \/ Discover \/ Probe
           \/ \E t \in Discoveries : DiscoverAgain(t)
    PROVE  McpInv'
<1>1. \E t \in Callers, again \in BOOLEAN :
        /\ caller[t].pc \notin {"waiting", "running"}
        /\ Operate(t, caller, again) /\ shutdown' = shutdown
  <2>1. HasWorker \in BOOLEAN
    BY DEF HasWorker
  <2>2. CASE \E c \in Calls : Call(c)
    BY <2>2, Disjoint DEF Call
  <2>3. CASE Discover \/ Probe
    BY <2>1, <2>3, Disjoint DEF Discover, Probe
  <2>4. CASE \E t \in Discoveries : DiscoverAgain(t)
    BY <2>4, Disjoint DEF DiscoverAgain
  <2> QED
    BY <2>2, <2>3, <2>4
<1> QED
  BY <1>1, OperateInv

-----------------------------------------------------------------------------
(***************************************************************************)
(* What every step does to the lock.                                       *)
(***************************************************************************)
\* Nobody joins or leaves; a worker may answer the one that is served.
LEMMA LockStays ==
    ASSUME LockInv, lock' = lock,
           \A u \in Callers :
               \/ caller'[u].pc = caller[u].pc
               \/ caller'[u].pc \notin {"waiting", "running"} /\ caller[u].pc # "waiting"
    PROVE  LockInv'
<1>1. \A n \in 2..Len(lock) : lock[n] \in Callers /\ caller[lock[n]].pc = "waiting"
  BY DEF LockInv, Orderly
<1>2. \A n \in 2..Len(lock) : caller'[lock[n]].pc = "waiting"
  BY <1>1
<1> QED
  BY <1>2 DEF LockInv, Orderly

LEMMA OperateLock ==
    ASSUME LockInv, caller \in [Callers -> Caller], NEW t \in Callers, NEW again,
           caller[t].pc \notin {"waiting", "running"}, Operate(t, caller, again)
    PROVE  LockInv'
<1> DEFINE others == Without(lock, t)
<1>1. Orderly(others, caller) /\ \A n \in 1..Len(others) : others[n] # t
  BY LeavesLock DEF LockInv
<1>2. CASE Closed
  <2>1. /\ caller' = [caller EXCEPT ![t] = [pc |-> "answered", answer |-> "error", again |-> FALSE]]
        /\ lock' = others
    BY <1>2 DEF Operate
  <2>2. caller'[t].pc = "answered" /\ \A u \in Callers \ {t} : caller'[u].pc = caller[u].pc
    BY <2>1
  <2>3. Orderly(others, caller')
    BY <2>2, LeavesLock DEF LockInv
  <2> QED
    BY <2>1, <2>3 DEF LockInv
<1>3. CASE ~Closed
  <2>1. /\ lock' = Append(others, t)
        /\ \E pc \in {"running", "waiting"} :
             /\ pc = IF others = <<>> THEN "running" ELSE "waiting"
             /\ caller' = [caller EXCEPT ![t] = [pc |-> pc, answer |-> "none", again |-> again]]
    BY <1>3 DEF Operate
  <2>2. /\ caller'[t].pc = IF others = <<>> THEN "running" ELSE "waiting"
        /\ \A u \in Callers \ {t} : caller'[u].pc = caller[u].pc
    BY <2>1
  <2> HIDE DEF others
  <2>3. Orderly(Append(others, t), caller')
    BY <1>1, <2>2, JoinsLock
  <2> QED
    BY <2>1, <2>3 DEF LockInv
<1> QED
  BY <1>2, <1>3

\* One goes its way, whatever its answer was.
LEMMA LeavesLockStep ==
    ASSUME LockInv, NEW t \in Callers, lock' = Without(lock, t),
           caller'[t].pc \notin {"waiting", "running"},
           \A u \in Callers \ {t} :
               \/ caller'[u].pc = caller[u].pc
               \/ caller'[u].pc \notin {"waiting", "running"} /\ caller[u].pc \notin {"waiting", "running"}
    PROVE  LockInv'
<1>1. ASSUME NEW u \in Callers \ {t}, {caller'[u].pc, caller[u].pc} \cap {"waiting", "running"} # {}
      PROVE  caller'[u].pc = caller[u].pc
  BY <1>1
<1>2. Orderly(Without(lock, t), caller')
  BY <1>1, LeavesLock DEF LockInv
<1> QED
  BY <1>2 DEF LockInv

\* Whose turn it is takes the lock.
LEMMA AcquireLock ==
    ASSUME LockInv, caller \in [Callers -> Caller], NEW t \in Callers, Acquire(t)
    PROVE  LockInv'
<1>1. /\ caller[t].pc = "waiting" /\ lock[1] = t /\ lock' = lock /\ lock \in Seq(Callers)
      /\ caller'[t].pc = "running" /\ \A u \in Callers \ {t} : caller'[u] = caller[u]
  BY DEF Acquire, LockInv, Orderly
<1>2. 1 \in 1..Len(lock)
  <2>1. PICK n \in 1..Len(lock) : lock[n] = t
    BY <1>1 DEF LockInv, Orderly
  <2> QED
    BY <2>1, <1>1
<1>3. ASSUME NEW u \in Callers, caller'[u].pc = "running"
      PROVE  lock[1] = u
  BY <1>1, <1>3 DEF LockInv, Orderly
<1>4. ASSUME NEW n \in 2..Len(lock)
      PROVE  caller'[lock[n]].pc = "waiting"
  <2>1. lock[n] \in Callers \ {t} /\ caller[lock[n]].pc = "waiting"
    BY <1>1, <1>2 DEF LockInv, Orderly
  <2> QED
    BY <2>1, <1>1
<1>5. \A u \in Callers : caller'[u].pc = "waiting" => caller[u].pc = "waiting"
  BY <1>1
<1> QED
  BY <1>1, <1>2, <1>3, <1>4, <1>5 DEF LockInv, Orderly

LEMMA EndsLock ==
    ASSUME LockInv, caller \in [Callers -> Caller],
           \/ \E c \in Calls : CallEnds(c)
           \/ \E t \in Discoveries : DiscoveryEnds(t)
           \/ \E t \in Callers : GiveUp(t)
    PROVE  LockInv'
<1> DEFINE Quiet == {"idle", "delay", "stoppingAgain"}
<1>1. ASSUME NEW t \in Callers, NEW rested, rested \in [Callers -> Caller],
             rested[t].pc \in Quiet, \A u \in Callers \ {t} : rested[u] = caller[u],
             lock' = Without(lock, t), caller' = rested \/ caller' = RetryScheduled(rested)
      PROVE  LockInv'
  <2>1. "retry" \in Callers
    BY DEF Callers, Discoveries
  <2>2. \/ caller' = rested
        \/ rested["retry"].pc = "idle" /\ caller' = [rested EXCEPT !["retry"].pc = "delay"]
    BY <1>1 DEF RetryScheduled
  <2>3. /\ caller'[t].pc \notin {"waiting", "running"}
        /\ \A u \in Callers \ {t} :
             \/ caller'[u].pc = caller[u].pc
             \/ caller'[u].pc \notin {"waiting", "running"} /\ caller[u].pc \notin {"waiting", "running"}
    <3>1. CASE caller' = rested
      BY <3>1, <1>1
    <3>2. CASE rested["retry"].pc = "idle" /\ caller' = [rested EXCEPT !["retry"].pc = "delay"]
      <4>1. caller'["retry"].pc = "delay" /\ \A u \in Callers \ {"retry"} : caller'[u] = rested[u]
        BY <3>2, <2>1, <1>1 DEF Caller
      <4>2. "retry" # t => caller["retry"].pc = "idle"
        BY <3>2, <2>1, <1>1
      <4> QED
        BY <4>1, <4>2, <1>1
    <3> QED
      BY <2>2, <3>1, <3>2
  <2> QED
    BY <2>3, <1>1, LeavesLockStep
<1> HIDE DEF Quiet
<1>2. ASSUME NEW c \in Calls, CallEnds(c)
      PROVE  LockInv'
  <2>1. c \in Callers
    BY DEF Callers
  <2> DEFINE rested == [caller EXCEPT ![c] = AtRest]
  <2>2. /\ lock' = Without(lock, c)
        /\ caller' = rested \/ caller' = RetryScheduled(rested)
    BY <1>2 DEF CallEnds
  <2>3. /\ rested \in [Callers -> Caller] /\ rested[c].pc \in Quiet
        /\ \A u \in Callers \ {c} : rested[u] = caller[u]
    BY <2>1, Records DEF Quiet
  <2> HIDE DEF rested
  <2> QED
    BY <2>1, <2>2, <2>3, <1>1
<1>3. ASSUME NEW t \in Discoveries, DiscoveryEnds(t)
      PROVE  LockInv'
  <2>1. t \in Callers
    BY DEF Callers
  <2>2. PICK ok \in BOOLEAN :
          /\ lock' = Without(lock, t)
          /\ caller' = Rested(t, ok) \/ caller' = RetryScheduled(Rested(t, ok))
    BY <1>3 DEF DiscoveryEnds
  <2>3. PICK r \in Caller : r.pc \in Quiet /\ Rested(t, ok) = [caller EXCEPT ![t] = r]
    BY RestedSomewhere DEF Quiet
  <2>4. /\ Rested(t, ok) \in [Callers -> Caller] /\ Rested(t, ok)[t].pc \in Quiet
        /\ \A u \in Callers \ {t} : Rested(t, ok)[u] = caller[u]
    BY <2>1, <2>3
  <2> QED
    BY <2>1, <2>2, <2>4, <1>1
<1>4. ASSUME NEW t \in Callers, GiveUp(t)
      PROVE  LockInv'
  <2>1. /\ lock' = Without(lock, t) /\ caller'[t].pc = "answered"
        /\ \A u \in Callers \ {t} : caller'[u] = caller[u]
    BY <1>4 DEF GiveUp
  <2> QED
    BY <2>1, LeavesLockStep
<1> QED
  BY <1>2, <1>3, <1>4


\* Whoever is told by a worker was running.
LEMMA WorkerLock ==
    ASSUME McpInv, LockInv, NEW i \in Ids, WorkerStep(i)
    PROVE  LockInv'
<1>t. caller \in [Callers -> Caller] /\ worker \in [Ids -> Worker] /\ Queued
  BY DEF McpInv, Shapes
<1>1. ASSUME NEW R, NEW answer \in Answers, Tell(R, answer), lock' = lock,
             \A t \in R \cap Callers : \E n \in Nat : Awaited(i, n) /\ worker[i].queue[n] = t
      PROVE  LockInv'
  <2>1. \A t \in R \cap Callers : caller[t].pc = "running"
    BY <1>1, <1>t DEF Queued
  <2>2. \A u \in Callers : \/ caller'[u].pc = caller[u].pc
                           \/ caller'[u].pc = "answered" /\ caller[u].pc = "running"
    BY <2>1, <1>1, <1>t, Told
  <2> QED
    BY <2>2, <1>1, LockStays
<1>2. CASE StopWorker(i)
  <2>1. "lost" \in Answers
    BY DEF Answers
  <2> QED
    BY <2>1, <1>1, <1>2, Stopped
<1>3. CASE Executing(i) /\ \E session : \E answer \in Answers : EndRequest(i, session, answer)
  <2>1. PICK answer \in Answers : Tell({Head(worker[i].queue)}, answer) /\ lock' = lock
    BY <1>3 DEF EndRequest
  <2>2. PICK q \in Seq(Requests) : q = worker[i].queue /\ q # <<>>
    BY <1>3, <1>t DEF Executing, Worker
  <2>3. Head(q) = q[1] /\ 1 \in 1..Len(q)
    BY <2>2
  <2>4. \A t \in {Head(q)} \cap Callers : Awaited(i, 1) /\ worker[i].queue[1] = t
    BY <2>2, <2>3 DEF Awaited
  <2> QED
    BY <2>1, <2>2, <2>4, <1>1
<1>4. CASE \E w : Goes(i, w)
  <2>1. UNCHANGED <<caller, lock>>
    BY <1>4 DEF Goes
  <2> QED
    BY <2>1, LockStays
<1> QED
  BY <1>2, <1>3, <1>4, <1>t, RequestSteps

LEMMA SessionEndsLock ==
    ASSUME LockInv, caller \in [Callers -> Caller],
           \/ Reconnect \/ StopSession \/ Close \/ CloseSessions \/ CloseEnds
    PROVE  LockInv'
<1>t. {"refresh", "retry", "reconnect"} \subseteq Callers /\ AtRest.pc = "idle"
  BY DEF Callers, Discoveries, AtRest
<1>1. CASE Reconnect
  <2>1. /\ caller["reconnect"].pc = "idle" /\ lock' = Without(lock, "refresh")
        /\ caller'["refresh"].pc = "idle" /\ caller'["reconnect"].pc = "cancelling"
        /\ \A u \in Callers \ {"refresh", "reconnect"} : caller'[u] = caller[u]
    BY <1>1, <1>t DEF Reconnect, CallersCancelled
  <2> QED
    BY <2>1, <1>t, LeavesLockStep
<1>2. CASE StopSession
  <2>1. /\ caller["reconnect"].pc \in {"cancelling", "stoppingAgain"} /\ lock' = lock
        /\ caller'["reconnect"].pc \in {"stopping", "idle"}
        /\ \A u \in Callers \ {"reconnect"} : caller'[u] = caller[u]
    BY <1>2, <1>t DEF StopSession, AtRest
  <2> QED
    BY <2>1, LockStays
<1>3. CASE Close
  <2> DEFINE ts == [caller EXCEPT !["retry"] = AtRest]
             l  == Without(lock, "retry")
  <2>1. /\ ts["retry"].pc = "idle" /\ \A u \in Callers \ {"retry"} : ts[u] = caller[u]
        /\ caller'["refresh"].pc = "idle" /\ \A u \in Callers \ {"refresh"} : caller'[u] = ts[u]
        /\ lock' = Without(l, "refresh")
    BY <1>3, <1>t DEF Close, CallersCancelled
  <2> HIDE DEF ts
  <2>2. Orderly(l, ts)
    BY <2>1, <1>t, LeavesLock DEF LockInv
  <2> HIDE DEF l
  <2>3. Orderly(lock', caller')
    BY <2>1, <2>2, <1>t, LeavesLock
  <2> QED
    BY <2>3 DEF LockInv
<1>4. CASE CloseSessions \/ CloseEnds
  <2>1. UNCHANGED <<caller, lock>>
    BY <1>4 DEF CloseSessions, CloseEnds
  <2> QED
    BY <2>1, LockStays
<1> QED
  BY <1>1, <1>2, <1>3, <1>4

LEMMA LockStep ==
    ASSUME McpInv, LockInv, [McpNext]_mcpVars
    PROVE  LockInv'
<1>t. caller \in [Callers -> Caller]
  BY DEF McpInv, Shapes
<1>1. CASE \/ \E c \in Calls : Call(c)
           \/ Discover \/ Probe \/ StartAfresh
           \/ \E t \in Discoveries : DiscoverAgain(t)
  <2>1. \E t \in Callers : \E again :
          caller[t].pc \notin {"waiting", "running"} /\ Operate(t, caller, again)
    BY <1>1 DEF Call, Discover, Probe, StartAfresh, DiscoverAgain, Callers, Discoveries
  <2> QED
    BY <2>1, <1>t, OperateLock
<1>2. CASE \E t \in Callers : Acquire(t)
  BY <1>2, <1>t, AcquireLock
<1>3. CASE \/ \E c \in Calls : CallEnds(c)
           \/ \E t \in Discoveries : DiscoveryEnds(t)
           \/ \E t \in Callers : GiveUp(t)
  BY <1>3, <1>t, EndsLock
<1>4. CASE \E i \in Ids : WorkerStep(i)
  BY <1>4, WorkerLock
<1>5. CASE Reconnect \/ StopSession \/ Close \/ CloseStep
  BY <1>5, <1>t, SessionEndsLock DEF CloseStep
<1>6. CASE UNCHANGED mcpVars
  <2>1. UNCHANGED <<caller, lock>>
    BY <1>6 DEF mcpVars
  <2> QED
    BY <2>1, LockStays
<1> QED
  BY <1>1, <1>2, <1>3, <1>4, <1>5, <1>6
     DEF McpNext, DiscoveryStep, ReconnectStep, Callers

LEMMA McpStepInv == McpInv /\ LockInv /\ [McpNext]_mcpVars => McpInv'
<1> SUFFICES ASSUME McpInv, LockInv, [McpNext]_mcpVars PROVE McpInv'
  OBVIOUS
<1>1. CASE \E c \in Calls : Call(c)
  BY <1>1, StartsInv
<1>2. CASE \E c \in Calls : CallEnds(c)
  BY <1>2, CallEndsInv
<1>3. CASE \E t \in Callers : Acquire(t)
  BY <1>3, AcquireInv
<1>4. CASE \E t \in Discoveries : DiscoverAgain(t)
  BY <1>4, StartsInv
<1>5. CASE \E t \in Discoveries : DiscoveryEnds(t)
  BY <1>5, DiscoveryEndsInv
<1>6. CASE \E t \in Callers : GiveUp(t)
  BY <1>6, GiveUpInv
<1>7. CASE \E i \in Ids : WorkerStep(i)
  BY <1>7, WorkerStepInv
<1>8. CASE Discover \/ Probe
  BY <1>8, StartsInv
<1>9. CASE Reconnect \/ ReconnectStep
  BY <1>9, ReconnectInv DEF ReconnectStep
<1>10. CASE Close \/ CloseStep
  BY <1>10, CloseInv DEF CloseStep
<1>11. CASE UNCHANGED mcpVars
  <2>1. UNCHANGED <<caller, worker, current, shutdown>>
    BY <1>11 DEF mcpVars
  <2> QED
    BY <2>1 DEF McpInv, Shapes, Queued, QueuedOnce, Awaited, Entered, Closed
<1> QED
  BY <1>1, <1>2, <1>3, <1>4, <1>5, <1>6, <1>7, <1>8, <1>9, <1>10, <1>11
     DEF McpNext, DiscoveryStep, Callers

LEMMA McpInvariant == McpSpec => [](McpInv /\ LockInv)
<1>1. McpInit => McpInv /\ LockInv
  BY McpInitInv, LockInit
<1>2. McpInv /\ LockInv /\ [McpNext]_mcpVars => McpInv' /\ LockInv'
  BY McpStepInv, LockStep
<1> QED
  BY <1>1, <1>2, PTL DEF McpSpec

-----------------------------------------------------------------------------
(***************************************************************************)
(* A request that somebody waits for is the last of its queue: however     *)
(* callers give up in front of the lock or behind their request, whatever  *)
(* a cancelled worker fails to refuse, and whoever cancels a discovery.    *)
(***************************************************************************)
THEOREM AwaitedRequestsAreLast == McpSpec => []AwaitedIsLast
<1>1. McpInv => AwaitedIsLast
  <2> SUFFICES ASSUME McpInv, NEW i \in Ids, NEW n \in 1..Len(worker[i].queue),
                      worker[i].queue[n] \in Callers
               PROVE  n = Len(worker[i].queue)
    BY DEF AwaitedIsLast
  <2>1. n \in Nat /\ Awaited(i, n)
    BY DEF Awaited
  <2> QED
    BY <2>1 DEF McpInv, Queued
<1> QED
  BY <1>1, McpInvariant, PTL

(***************************************************************************)
(* One session: until close only the worker of the entry has one.          *)
(***************************************************************************)
THEOREM OneSessionHolds == McpSpec => []OneSession
<1>1. McpInv => OneSession
  <2> SUFFICES ASSUME McpInv, ~Closed PROVE Cardinality(Sessions) <= 1
    BY DEF OneSession
  <2>1. Sessions \subseteq {current}
    <3> SUFFICES ASSUME NEW i \in Ids, worker[i].session # "none" PROVE i = current
      BY DEF Sessions
    <3>1. worker[i] # NoWorker
      BY DEF NoWorker
    <3> QED
      BY <3>1 DEF McpInv, Entered
  <2>2. IsFiniteSet({current}) /\ Cardinality({current}) = 1
    BY FS_Singleton
  <2>3. IsFiniteSet(Sessions) /\ Cardinality(Sessions) <= Cardinality({current})
    BY <2>1, <2>2, FS_Subset
  <2> QED
    BY <2>2, <2>3
<1> QED
  BY <1>1, McpInvariant, PTL

CacheInv == cache \in Cache /\ FailedIsWithdrawn

LEMMA CacheInvariant == McpSpec => []CacheInv
<1> USE DEF CacheInv
<1>1. McpInit => CacheInv
  <2>1. McpInit => cache \in Cache
    BY DEF McpInit, Cache
  <2> QED
    BY <2>1, McpInitInv
<1>2. McpInv /\ CacheInv /\ [McpNext]_mcpVars => CacheInv'
  <2> SUFFICES ASSUME McpInv, CacheInv, [McpNext]_mcpVars PROVE CacheInv'
    OBVIOUS
  <2> DEFINE Fresh(c) == c \in {[tools |-> "offered", failure |-> "none"],
                                [tools |-> "cold", failure |-> "none"]}
  <2>1. \/ cache' = cache
        \/ cache' = Withdrawn(cache)
        \/ Fresh(cache')
    <3>1. ASSUME NEW c \in Calls, Call(c) \/ CallEnds(c) \/ Acquire(c)
          PROVE  cache' = cache \/ cache' = Withdrawn(cache)
      BY <3>1 DEF Call, CallEnds, Acquire
    <3>2. ASSUME NEW t \in Discoveries, DiscoveryStep(t)
          PROVE  cache' = cache \/ cache' = Withdrawn(cache) \/ Fresh(cache')
      BY <3>2 DEF DiscoveryStep, Acquire, DiscoverAgain, DiscoveryEnds
    <3>3. ASSUME NEW t \in Callers, GiveUp(t)
          PROVE  cache' = cache
      BY <3>3 DEF GiveUp
    <3>4. ASSUME NEW i \in Ids, WorkerStep(i)
          PROVE  cache' = cache
      <4>1. CASE StopWorker(i)
        BY <4>1 DEF StopWorker
      <4>2. CASE ~StopWorker(i)
        <5>1. (\E w : Goes(i, w)) \/ (\E session, answer : EndRequest(i, session, answer))
          BY <3>4, <4>2, RequestSteps DEF McpInv, Shapes
        <5> QED
          BY <5>1 DEF Goes, EndRequest
      <4> QED
        BY <4>1, <4>2
    <3>5. Discover \/ Probe \/ Reconnect \/ ReconnectStep \/ Close \/ CloseStep
            => cache' = cache \/ Fresh(cache')
      BY DEF Discover, Probe, Reconnect, ReconnectStep, StopSession, StartAfresh,
             Close, CloseStep, CloseSessions, CloseEnds
    <3>6. UNCHANGED mcpVars => cache' = cache
      BY DEF mcpVars
    <3> QED
      BY <3>1, <3>2, <3>3, <3>4, <3>5, <3>6 DEF McpNext
  <2>2. CASE cache' = Withdrawn(cache)
    <3>1. cache' \in Cache /\ cache'.tools = "none"
      BY <2>2 DEF Withdrawn, Cache
    <3> QED
      BY <3>1 DEF FailedIsWithdrawn
  <2>3. CASE Fresh(cache')
    BY <2>3 DEF FailedIsWithdrawn, Cache
  <2>4. CASE cache' = cache
    BY <2>4 DEF FailedIsWithdrawn
  <2> QED
    BY <2>1, <2>2, <2>3, <2>4
<1> HIDE DEF CacheInv
<1> QED
  BY <1>1, <1>2, McpInvariant, PTL DEF McpSpec

(***************************************************************************)
(* The tools of a failed server are withdrawn, whoever notices the failure *)
(* and whatever another discovery brings.                                  *)
(***************************************************************************)
THEOREM FailuresWithdrawTools == McpSpec => []FailedIsWithdrawn
<1>1. CacheInv => FailedIsWithdrawn
  BY DEF CacheInv
<1> QED
  BY <1>1, CacheInvariant, PTL

(***************************************************************************)
(* One operation at a time: whoever is served holds the lock, so however   *)
(* calls, discoveries, a reconnect and close overtake, time out on and     *)
(* cancel each other, never two callers wait for an answer of the worker   *)
(* (_run_server_operation).                                                *)
(***************************************************************************)
OneOperation ==
    \A t, u \in Callers : caller[t].pc = "running" /\ caller[u].pc = "running" => t = u

THEOREM OneOperationAtATime == McpSpec => []OneOperation
<1>1. LockInv => OneOperation
  BY DEF LockInv, Orderly, OneOperation
<1> QED
  BY <1>1, McpInvariant, PTL

(***************************************************************************)
(* Types; the lock keeps being a sequence of callers when somebody leaves it *)
(* out of turn, and the entry of the dictionaries is a worker that lives.  *)
(***************************************************************************)
THEOREM McpTypesHold == McpSpec => []McpTypeOK
<1> DEFINE Stage == shutdown \in {"open", "refusing", "stopping", "closed"}
<1>1. McpInit => Stage
  BY DEF McpInit
<1>2. McpInv /\ Stage /\ [McpNext]_mcpVars => Stage'
  <2> SUFFICES ASSUME McpInv, Stage, [McpNext]_mcpVars, shutdown' # shutdown PROVE Stage'
    OBVIOUS
  <2>1. ASSUME NEW i \in Ids, WorkerStep(i)
        PROVE  shutdown' = shutdown
    <3>1. CASE StopWorker(i)
      BY <3>1 DEF StopWorker
    <3>2. CASE ~StopWorker(i)
      <4>1. (\E w : Goes(i, w)) \/ (\E session, answer : EndRequest(i, session, answer))
        BY <2>1, <3>2, RequestSteps DEF McpInv, Shapes
      <4> QED
        BY <4>1 DEF Goes, EndRequest
    <3> QED
      BY <3>1, <3>2
  <2>2. Close \/ CloseStep
    BY <2>1 DEF McpNext, mcpVars, Call, CallEnds, Acquire, DiscoveryStep, DiscoverAgain,
                DiscoveryEnds, GiveUp, Discover, Probe, Reconnect, ReconnectStep,
                StopSession, StartAfresh
  <2> QED
    BY <2>2 DEF Close, CloseStep, CloseSessions, CloseEnds
<1>3. McpInv /\ LockInv /\ CacheInv /\ Stage => McpTypeOK
  BY DEF McpInv, Shapes, Entered, LockInv, Orderly, CacheInv, McpTypeOK
<1> HIDE DEF Stage
<1> QED
  BY <1>1, <1>2, <1>3, McpInvariant, CacheInvariant, PTL DEF McpSpec

-----------------------------------------------------------------------------
(***************************************************************************)
(* How far close() keeps its promise (CloseLeavesNothing).                 *)
(***************************************************************************)
TakesLock(t) == caller[t].pc = "waiting" /\ caller'[t].pc = "running"

\* As if _closed were read again once the lock is there.
NoLateTurn == shutdown \in {"stopping", "closed"} => \A t \in Callers : ~TakesLock(t)

\* Nobody is in front of the lock when close() has cancelled the discoveries.
NobodyWaits ==
    shutdown = "open" /\ shutdown' # "open" => \A t \in Callers : caller'[t].pc # "waiting"

\* Until close() is done there is no worker but the one of the entry.
EntryInv ==
    /\ shutdown \in {"open", "refusing", "stopping", "closed"}
    /\ shutdown # "closed" => \A i \in Ids : worker[i].life # "none" => i = current
    /\ shutdown = "stopping" => \A i \in Ids : worker[i].life # "live"
    /\ shutdown = "closed" => \A i \in Ids : worker[i].life = "none"

LivesStay == current' = current /\ \A i \in Ids : worker'[i].life = worker[i].life

\* What becomes of the workers: an operation that starts or ends touches no life.
LEMMA LivesOfOperations ==
    ASSUME McpInv, NEW t \in Callers, NEW again, Operate(t, caller, again)
    PROVE  \/ LivesStay
           \/ shutdown = "open" /\ Requested(t)
<1>1. CASE UNCHANGED <<worker, current>>
  BY <1>1 DEF LivesStay
<1>2. UNCHANGED <<worker, current>> \/ (~Closed /\ Requested(t))
  BY DEF Operate
<1> QED
  BY <1>1, <1>2 DEF Closed

LEMMA LivesOfRequests ==
    ASSUME McpInv, NEW i \in Ids, WorkerStep(i)
    PROVE  \/ LivesStay /\ shutdown' = shutdown
           \/ StopWorker(i)
<1>1. worker \in [Ids -> Worker]
  BY DEF McpInv, Shapes
<1>2. CASE \E w : worker' = [worker EXCEPT ![i] = w] /\ w.life = worker[i].life
                  /\ current' = current /\ shutdown' = shutdown
  BY <1>1, <1>2 DEF LivesStay
<1>3. CASE ~StopWorker(i)
  <2>1. worker[i].life = "live"
    BY <1>1, <1>3, RequestSteps DEF Executing
  <2>2. CASE \E w : Goes(i, w) /\ w.life = "live"
    BY <2>1, <2>2, <1>2 DEF Goes
  <2>3. CASE \E session, answer : EndRequest(i, session, answer)
    <3>1. PICK session, answer : EndRequest(i, session, answer)
      BY <2>3
    <3> DEFINE w == [NoWorker EXCEPT !.life = "live", !.session = session,
                                     !.queue = Tail(worker[i].queue)]
    <3>2. worker' = [worker EXCEPT ![i] = w] /\ UNCHANGED <<current, shutdown>>
      BY <3>1 DEF EndRequest
    <3>3. w.life = worker[i].life
      BY <2>1 DEF NoWorker
    <3> HIDE DEF w
    <3> QED
      BY <3>2, <3>3, <1>2
  <2> QED
    BY <2>2, <2>3, <1>1, <1>3, RequestSteps
<1> QED
  BY <1>3

\* Nor does a caller that gives up or is cancelled.
LEMMA LivesOfForsaken ==
    ASSUME McpInv, NEW T, worker' = Forsaken(T), current' = current
    PROVE  LivesStay
<1> SUFFICES ASSUME NEW j \in Ids PROVE worker'[j].life = worker[j].life
  BY DEF LivesStay
<1>1. worker[j] \in Worker
  BY DEF McpInv, Shapes
<1>2. \E q : worker'[j] = [worker[j] EXCEPT !.queue = q]
  BY DEF Forsaken
<1> QED
  BY <1>1, <1>2 DEF Worker

(***************************************************************************)
(* Whom a step lets live: who has the lock before the sessions are stopped *)
(* may start a worker, and afterwards they are only stopped.               *)
(***************************************************************************)
LEMMA LivesOfSteps ==
    ASSUME McpInv, EntryInv, [McpNext]_mcpVars, [NoLateTurn]_mcpVars
    PROVE  \/ LivesStay /\ (shutdown' = shutdown \/ (shutdown = "open" /\ shutdown' = "refusing"))
           \/ /\ shutdown \in {"open", "refusing"} /\ shutdown' = shutdown
              /\ \E t \in Callers : Requested(t)
           \/ \E i \in Ids : StopWorker(i)
           \/ /\ shutdown' = shutdown \/ (shutdown = "refusing" /\ shutdown' = "stopping")
              /\ WorkerCancelled
           \/ CloseEnds
<1>1. CASE \/ \E c \in Calls : Call(c)
           \/ Discover \/ Probe \/ StartAfresh
           \/ \E t \in Discoveries : DiscoverAgain(t)
  <2>1. shutdown' = shutdown /\ \E t \in Callers : \E again : Operate(t, caller, again)
    BY <1>1 DEF Call, Discover, Probe, StartAfresh, DiscoverAgain, Callers, Discoveries
  <2> QED
    BY <2>1, LivesOfOperations
<1>2. CASE \E t \in Callers : Acquire(t)
  <2>1. PICK t \in Callers : Acquire(t)
    BY <1>2
  <2>2. TakesLock(t)
    BY <2>1 DEF Acquire, TakesLock, McpInv, Shapes, Caller
  <2>3. mcpVars' # mcpVars
    BY <2>2 DEF TakesLock, mcpVars
  <2>4. shutdown \in {"open", "refusing"}
    BY <2>2, <2>3 DEF NoLateTurn, EntryInv
  <2> QED
    BY <2>1, <2>4 DEF Acquire
<1>3. CASE \/ \E c \in Calls : CallEnds(c)
           \/ \E t \in Discoveries : DiscoveryEnds(t)
           \/ UNCHANGED mcpVars
  BY <1>3 DEF CallEnds, DiscoveryEnds, mcpVars, LivesStay
<1>4. CASE \E i \in Ids : WorkerStep(i)
  BY <1>4, LivesOfRequests
<1>6. CASE (\E t \in Callers : GiveUp(t)) \/ Reconnect \/ Close
  <2>1. /\ \E T : worker' = Forsaken(T)
        /\ current' = current
        /\ shutdown' = shutdown \/ (shutdown = "open" /\ shutdown' = "refusing")
    BY <1>6 DEF GiveUp, Reconnect, Close, CallersCancelled
  <2> QED
    BY <2>1, LivesOfForsaken
<1>5. CASE StopSession \/ CloseSessions \/ CloseEnds
  BY <1>5 DEF StopSession, CloseSessions
<1> QED
  BY <1>1, <1>2, <1>3, <1>4, <1>5, <1>6
     DEF McpNext, DiscoveryStep, ReconnectStep, CloseStep, Callers

LEMMA EntryStep ==
    ASSUME McpInv, EntryInv, [McpNext]_mcpVars, [NoLateTurn]_mcpVars
    PROVE  EntryInv'
<1>t. worker \in [Ids -> Worker] /\ 0 \notin Ids
  BY DEF McpInv, Shapes, Ids
<1>1. CASE LivesStay /\ (shutdown' = shutdown \/ (shutdown = "open" /\ shutdown' = "refusing"))
  BY <1>1 DEF LivesStay, EntryInv
<1>2. CASE /\ shutdown \in {"open", "refusing"} /\ shutdown' = shutdown
           /\ \E t \in Callers : Requested(t)
  <2>1. ASSUME NEW i \in Ids, worker'[i].life # "none"
        PROVE  i = current'
    <3>1. CASE HasWorker
      <4>1. current' = current /\ \A j \in Ids \ {current} : worker'[j] = worker[j]
        BY <3>1, <1>2, <1>t DEF Requested
      <4> QED
        BY <4>1, <2>1, <1>2 DEF EntryInv
    <3>2. CASE ~HasWorker
      <4>1. /\ current' \in Ids
            /\ \A j \in Ids \ {current'} : worker'[j] = worker[j]
        BY <3>2, <1>2, <1>t DEF Requested
      <4>2. worker[i].life = "none"
        BY <3>2, <1>2, <1>t DEF EntryInv, HasWorker
      <4> QED
        BY <4>1, <4>2, <2>1
    <3> QED
      BY <3>1, <3>2
  <2> QED
    BY <2>1, <1>2 DEF EntryInv
<1>3. CASE \E i \in Ids : StopWorker(i)
  <2>1. PICK i \in Ids : StopWorker(i)
    BY <1>3
  <2>2. /\ worker'[i].life = "none" /\ shutdown' = shutdown
        /\ \A j \in Ids \ {i} : worker'[j] = worker[j]
        /\ current # i => current' = current
    BY <2>1, Stopped, Records
  <2> QED
    BY <2>2 DEF EntryInv
<1>4. CASE /\ shutdown' = shutdown \/ (shutdown = "refusing" /\ shutdown' = "stopping")
           /\ WorkerCancelled
  <2>1. current' = current
    BY <1>4, CancelledWorker
  <2>2. ASSUME NEW i \in Ids
        PROVE  worker'[i] = worker[i] \/ (i = current /\ worker'[i].life \in {"dying", "broken"})
    BY <1>4, CancelledWorker
  <2>3. ASSUME NEW i \in Ids, i = current
        PROVE  worker'[i].life \in {"dying", "broken"}
    BY <2>3, <1>4, <1>t, CancelledWorker DEF HasWorker
  <2>4. shutdown # "closed" => \A i \in Ids : worker'[i].life # "none" => i = current'
    BY <2>1, <2>2 DEF EntryInv
  <2>5. shutdown' = "stopping" => \A i \in Ids : worker'[i].life # "live"
    <3> SUFFICES ASSUME shutdown' = "stopping", NEW i \in Ids PROVE worker'[i].life # "live"
      OBVIOUS
    <3>1. shutdown # "closed"
      BY <1>4
    <3>2. worker'[i].life # "none" => i = current
      BY <3>1, <2>1, <2>4
    <3> QED
      BY <3>2, <2>3
  <2>6. shutdown' = "closed" => \A i \in Ids : worker'[i].life = "none"
    <3> SUFFICES ASSUME shutdown' = "closed", NEW i \in Ids PROVE worker'[i].life = "none"
      OBVIOUS
    <3>1. shutdown = "closed" /\ worker[i].life = "none"
      BY <1>4 DEF EntryInv
    <3>2. i # current
      BY <3>1 DEF McpInv, Entered
    <3> QED
      BY <3>1, <3>2, <2>2
  <2> QED
    BY <2>4, <2>5, <2>6, <1>4 DEF EntryInv
<1>5. CASE CloseEnds
  <2>1. shutdown = "stopping" /\ shutdown' = "closed" /\ worker' = worker
    BY <1>5 DEF CloseEnds
  <2>2. ASSUME NEW i \in Ids
        PROVE  worker[i].life = "none"
    <3>1. worker[i].life # "live" /\ (worker[i].life # "none" => i = current)
      BY <2>1 DEF EntryInv
    <3>2. i = current => worker[i].life = "live"
      BY <1>5 DEF CloseEnds, WorkerGone
    <3> QED
      BY <3>1, <3>2
  <2> QED
    BY <2>1, <2>2 DEF EntryInv
<1> QED
  BY <1>1, <1>2, <1>3, <1>4, <1>5, LivesOfSteps

LEMMA InitialEntry == McpInit => EntryInv
<1> SUFFICES ASSUME McpInit PROVE EntryInv
  OBVIOUS
<1>1. shutdown = "open" /\ \A i \in Ids : worker[i] = NoWorker
  BY DEF McpInit
<1> QED
  BY <1>1 DEF EntryInv, NoWorker

(***************************************************************************)
(* "Clean application-shutdown closure" fails by the missing second check  *)
(* of _closed alone: if nobody takes the lock once close() has begun to    *)
(* stop the session, then no session is open when it is done, and none is  *)
(* ever again, whichever calls, discoveries and reconnects are under way.  *)
(***************************************************************************)
THEOREM CloseIsCleanWithoutLateTurns ==
    McpSpec /\ [][NoLateTurn]_mcpVars => []CloseLeavesNothing
<1>1. McpInit => EntryInv
  BY InitialEntry
<1>2. McpInv /\ EntryInv /\ [McpNext]_mcpVars /\ [NoLateTurn]_mcpVars => EntryInv'
  BY EntryStep
<1>3. McpInv /\ EntryInv => CloseLeavesNothing
  BY DEF McpInv, EntryInv, CloseLeavesNothing, Entered, NoWorker, Sessions
<1> QED
  BY <1>1, <1>2, <1>3, McpInvariant, PTL DEF McpSpec

-----------------------------------------------------------------------------
NobodyLeft == Closed => \A t \in Callers : caller[t].pc # "waiting"

\* A closed manager has nobody wait: it refuses before the lock.
LEMMA NobodyJoins ==
    ASSUME McpInv, NobodyLeft, [McpNext]_mcpVars, [NobodyWaits]_mcpVars
    PROVE  NobodyLeft' /\ [NoLateTurn]_mcpVars
<1>t. caller \in [Callers -> Caller] /\ AtRest.pc # "waiting"
  BY DEF McpInv, Shapes, AtRest
<1>n. NoLateTurn \/ UNCHANGED mcpVars
  BY DEF NobodyLeft, NoLateTurn, TakesLock, Closed
<1> SUFFICES NobodyLeft'
  BY <1>n
<1>1. CASE ~Closed
  BY <1>1 DEF NobodyLeft, NobodyWaits, Closed, mcpVars
<1>2. CASE Closed
  <2>c. \A t \in Callers : caller[t].pc # "waiting"
    BY <1>2 DEF NobodyLeft
  <2> SUFFICES \A t \in Callers : caller'[t].pc # "waiting"
    BY DEF NobodyLeft
  <2>1. CASE \/ \E c \in Calls : Call(c)
             \/ Discover \/ Probe \/ StartAfresh
             \/ \E t \in Discoveries : DiscoverAgain(t)
    <3>1. \E t \in Callers : \E again : Operate(t, caller, again)
      BY <2>1 DEF Call, Discover, Probe, StartAfresh, DiscoverAgain, Callers, Discoveries
    <3>2. \E t \in Callers : caller' = [caller EXCEPT ![t] =
                             [pc |-> "answered", answer |-> "error", again |-> FALSE]]
      BY <3>1, <1>2 DEF Operate
    <3> QED
      BY <3>2, <2>c, <1>t
  <2>2. CASE \E t \in Callers : Acquire(t) \/ GiveUp(t)
    BY <2>2, <2>c, <1>t DEF Acquire, GiveUp, Caller
  <2>3. CASE \E c \in Calls : CallEnds(c)
    <3>1. PICK c \in Calls : CallEnds(c)
      BY <2>3
    <3>2. caller' = [caller EXCEPT ![c] = AtRest]
      BY <3>1, <1>2 DEF CallEnds, RetryScheduled
    <3> QED
      BY <3>2, <2>c, <1>t
  <2>4. CASE \E t \in Discoveries : DiscoveryEnds(t)
    <3>1. PICK t \in Discoveries, ok \in BOOLEAN :
            caller' = Rested(t, ok) \/ caller' = RetryScheduled(Rested(t, ok))
      BY <2>4 DEF DiscoveryEnds
    <3>2. caller' = Rested(t, ok)
      BY <3>1, <1>2 DEF RetryScheduled
    <3>3. PICK r : r.pc # "waiting" /\ Rested(t, ok) = [caller EXCEPT ![t] = r]
      BY <1>t, RestedSomewhere
    <3> QED
      BY <3>2, <3>3, <2>c, <1>t
  <2>5. CASE \E i \in Ids : WorkerStep(i)
    <3>1. caller' = caller \/ \E R, answer : Tell(R, answer)
      <4>1. PICK i \in Ids : WorkerStep(i)
        BY <2>5
      <4>2. CASE StopWorker(i)
        BY <4>2, Stopped
      <4>3. CASE (\E w : Goes(i, w)) \/ (\E session, answer : EndRequest(i, session, answer))
        BY <4>3 DEF Goes, EndRequest
      <4> QED
        BY <4>1, <4>2, <4>3, RequestSteps DEF McpInv, Shapes
    <3>2. ASSUME NEW R, NEW answer, Tell(R, answer), NEW t \in Callers
          PROVE  caller'[t].pc # "waiting"
      BY <3>2, <2>c, <1>t DEF Tell, Caller
    <3> QED
      BY <3>1, <3>2, <2>c
  <2>6. CASE Reconnect \/ StopSession \/ Close
    BY <2>6, <2>c, <1>t, <1>2
       DEF Reconnect, StopSession, Close, CallersCancelled, Closed, Caller, AtRest
  <2>7. CASE CloseSessions \/ CloseEnds \/ UNCHANGED mcpVars
    BY <2>7, <2>c DEF CloseSessions, CloseEnds, mcpVars
  <2> QED
    BY <2>1, <2>2, <2>3, <2>4, <2>5, <2>6, <2>7
       DEF McpNext, DiscoveryStep, ReconnectStep, CloseStep, Callers
<1> QED
  BY <1>1, <1>2

(***************************************************************************)
(* So the caller that spoils close() was in front of the lock when it      *)
(* began: with nobody there, nothing is left, and who calls, discovers or  *)
(* reconnects from then on is refused before it waits.                     *)
(***************************************************************************)
THEOREM CloseIsCleanWithNobodyWaiting ==
    McpSpec /\ [][NobodyWaits]_mcpVars => []CloseLeavesNothing
<1>1. McpInit => NobodyLeft
  BY DEF McpInit, NobodyLeft, Closed
<1>2. McpInv /\ NobodyLeft /\ [McpNext]_mcpVars /\ [NobodyWaits]_mcpVars
        => NobodyLeft' /\ [NoLateTurn]_mcpVars
  BY NobodyJoins
<1> QED
  BY <1>1, <1>2, McpInvariant, CloseIsCleanWithoutLateTurns, PTL DEF McpSpec

-----------------------------------------------------------------------------
(***************************************************************************)
(* How far calls that timed out are never replayed (ToldIsOver).           *)
(***************************************************************************)
\* As if no deadline passed behind the request of somebody else.
NobodyGivesUpBehind ==
    \A c \in Calls, i \in Ids, n \in Nat :
        n \in 2..Len(worker[i].queue) /\ worker[i].queue[n] = c => ~GiveUp(c)

NoneForsakenBehind ==
    \A i \in Ids, n \in Nat :
        n \in 2..Len(worker[i].queue) => worker[i].queue[n] # "orphaned call"

LEMMA ForsakenBehind ==
    ASSUME McpInv, NoneForsakenBehind, NEW T, worker' = Forsaken(T),
           \A i \in Ids, n \in Nat :
               n \in 2..Len(worker[i].queue) => worker[i].queue[n] \notin T \cap Calls
    PROVE  NoneForsakenBehind'
<1> SUFFICES ASSUME NEW j \in Ids, NEW n \in Nat, n \in 2..Len(worker'[j].queue)
             PROVE  worker'[j].queue[n] # "orphaned call"
  BY DEF NoneForsakenBehind
<1>1. worker \in [Ids -> Worker]
  BY DEF McpInv, Shapes
<1>2. PICK v : v = worker'[j] /\ v = Forsaken(T)[j]
  OBVIOUS
<1>3. /\ v \in Worker
      /\ v = [worker[j] EXCEPT !.queue = v.queue]
      /\ Len(v.queue) = Len(worker[j].queue)
      /\ \A m \in 1..Len(worker[j].queue) :
           \/ v.queue[m] = worker[j].queue[m] /\ worker[j].queue[m] \notin T
           \/ v.queue[m] = "orphaned call" /\ worker[j].queue[m] \in T \cap Calls
           \/ v.queue[m] = "orphaned discovery"
  BY <1>1, <1>2, ForsakenQueue, Zenon
<1>4. n \in 2..Len(worker[j].queue) /\ n \in 1..Len(worker[j].queue)
  <2>1. Len(worker[j].queue) = Len(worker'[j].queue)
    BY <1>2, <1>3
  <2>2. n \in 2..Len(worker[j].queue)
    BY <2>1
  <2>3. Len(worker[j].queue) \in Nat
    BY <1>1 DEF Worker
  <2> QED
    BY <2>2, <2>3
<1>5. worker[j].queue[n] # "orphaned call" /\ worker[j].queue[n] \notin T \cap Calls
  BY <1>4 DEF NoneForsakenBehind
<1> QED
  BY <1>2, <1>3, <1>4, <1>5

LEMMA RequestedBehind ==
    ASSUME McpInv, NoneForsakenBehind, NEW t \in Callers, Requested(t)
    PROVE  NoneForsakenBehind'
<1>1. CASE UNCHANGED worker
  BY <1>1 DEF NoneForsakenBehind
<1>2. CASE ~UNCHANGED worker
  <2>1. PICK i \in Ids :
          /\ \A j \in Ids \ {i} : worker'[j] = worker[j]
          /\ Len(worker'[i].queue) = Len(worker[i].queue) + 1
          /\ \A n \in 1..Len(worker[i].queue) : worker'[i].queue[n] = worker[i].queue[n]
          /\ worker'[i].queue[Len(worker'[i].queue)] = t
    BY <1>2, Appended
  <2>2. Len(worker[i].queue) \in Nat /\ t # "orphaned call"
    <3>1. Len(worker[i].queue) \in Nat
      BY DEF McpInv, Shapes, Worker
    <3>2. t \notin Orphans
      BY Disjoint
    <3> QED
      BY <3>1, <3>2 DEF Orphans
  <2> SUFFICES ASSUME NEW j \in Ids, NEW n \in Nat, n \in 2..Len(worker'[j].queue)
               PROVE  worker'[j].queue[n] # "orphaned call"
    BY DEF NoneForsakenBehind
  <2>3. CASE j # i
    BY <2>1, <2>3 DEF NoneForsakenBehind
  <2>4. CASE j = i /\ n = Len(worker'[i].queue)
    BY <2>1, <2>2, <2>4
  <2>5. CASE j = i /\ n # Len(worker'[i].queue)
    <3>1. n \in 2..Len(worker[i].queue) /\ n \in 1..Len(worker[i].queue)
      <4>1. PICK k \in Nat : k = Len(worker[i].queue) /\ Len(worker'[i].queue) = k + 1
        BY <2>1, <2>2
      <4>2. n \in 2..(k + 1) /\ n # k + 1
        BY <4>1, <2>5
      <4>3. n \in 2..k /\ n \in 1..k
        BY <4>2
      <4> QED
        BY <4>1, <4>3
    <3> QED
      BY <2>1, <2>5, <3>1 DEF NoneForsakenBehind
  <2> QED
    BY <2>3, <2>4, <2>5
<1> QED
  BY <1>1, <1>2

\* Every queue is as it was, without its first request, or gone.
LEMMA WorkerStepBehind ==
    ASSUME McpInv, NoneForsakenBehind, NEW i \in Ids, WorkerStep(i)
    PROVE  NoneForsakenBehind'
<1>t. worker \in [Ids -> Worker]
  BY DEF McpInv, Shapes
<1> SUFFICES ASSUME NEW j \in Ids, NEW n \in Nat, n \in 2..Len(worker'[j].queue)
             PROVE  worker'[j].queue[n] # "orphaned call"
  BY DEF NoneForsakenBehind
<1>1. CASE worker'[j].queue = worker[j].queue
  BY <1>1 DEF NoneForsakenBehind
<1>2. CASE worker'[j].queue = <<>>
  <2>1. Len(<<>>) = 0
    OBVIOUS
  <2>2. n \in 2..0 /\ 2..0 = {}
    BY <2>1, <1>2
  <2> QED
    BY <2>2, Zenon
<1>3. CASE worker[j].queue # <<>> /\ worker'[j].queue = Tail(worker[j].queue)
  <2>1. PICK q \in Seq(Requests) : q = worker[j].queue /\ q # <<>>
    BY <1>3, <1>t DEF Worker
  <2>2. Len(q) \in Nat /\ Len(Tail(q)) = Len(q) - 1 /\ \A m \in 1..Len(Tail(q)) : Tail(q)[m] = q[m + 1]
    BY <2>1, HeadTailProperties, LenProperties
  <2>3. n + 1 \in Nat /\ n + 1 \in 2..Len(q) /\ worker'[j].queue[n] = q[n + 1]
    BY <2>1, <2>2, <1>3
  <2> QED
    BY <2>1, <2>3 DEF NoneForsakenBehind
<1>4. \/ worker'[j].queue = worker[j].queue \/ worker'[j].queue = <<>>
      \/ worker[j].queue # <<>> /\ worker'[j].queue = Tail(worker[j].queue)
  <2>1. CASE StopWorker(i)
    BY <2>1, Stopped, Records
  <2>2. CASE \E w : Goes(i, w) /\ w.queue = worker[i].queue
    BY <2>2, <1>t DEF Goes
  <2>3. CASE Executing(i) /\ \E session, answer : EndRequest(i, session, answer)
    <3>1. PICK session, answer : EndRequest(i, session, answer)
      BY <2>3
    <3>2. [NoWorker EXCEPT !.life = "live", !.session = session,
                           !.queue = Tail(worker[i].queue)].queue = Tail(worker[i].queue)
      BY DEF NoWorker
    <3> QED
      BY <3>1, <3>2, <2>3, <1>t DEF EndRequest, Executing
  <2> QED
    BY <2>1, <2>2, <2>3, <1>t, RequestSteps
<1> QED
  BY <1>1, <1>2, <1>3, <1>4

LEMMA BehindStep ==
    ASSUME McpInv, NoneForsakenBehind, [McpNext]_mcpVars, [NobodyGivesUpBehind]_mcpVars
    PROVE  NoneForsakenBehind'
<1>1. CASE \/ \E c \in Calls : Call(c)
           \/ Discover \/ Probe \/ StartAfresh
           \/ \E t \in Discoveries : DiscoverAgain(t)
  <2>1. \E t \in Callers : \E again : Operate(t, caller, again)
    BY <1>1, Disjoint DEF Call, Discover, Probe, StartAfresh, DiscoverAgain
  <2>2. UNCHANGED worker \/ \E t \in Callers : Requested(t)
    BY <2>1 DEF Operate
  <2>3. UNCHANGED worker => NoneForsakenBehind'
    BY DEF NoneForsakenBehind
  <2> QED
    BY <2>2, <2>3, RequestedBehind
<1>2. CASE \E t \in Callers : Acquire(t)
  BY <1>2, RequestedBehind DEF Acquire
<1>3. CASE \/ \E c \in Calls : CallEnds(c)
           \/ \E t \in Discoveries : DiscoveryEnds(t)
           \/ CloseEnds \/ UNCHANGED mcpVars
  <2>1. UNCHANGED worker
    BY <1>3 DEF CallEnds, DiscoveryEnds, CloseEnds, mcpVars
  <2> QED
    BY <2>1 DEF NoneForsakenBehind
<1>4. CASE \E i \in Ids : WorkerStep(i)
  BY <1>4, WorkerStepBehind
<1>5. CASE \E t \in Callers : GiveUp(t)
  <2>1. PICK t \in Callers : GiveUp(t)
    BY <1>5
  <2>2. caller' # caller
    <3>1. caller[t] \in Caller
      BY DEF McpInv, Shapes
    <3>2. caller'[t].pc = "answered" /\ caller[t].pc # "answered"
      BY <2>1, <3>1 DEF GiveUp, McpInv, Shapes, Caller
    <3> QED
      BY <3>2
  <2>3. NobodyGivesUpBehind
    BY <2>2 DEF mcpVars
  <2>4. \A i \in Ids, n \in Nat :
          n \in 2..Len(worker[i].queue) => worker[i].queue[n] \notin {t} \cap Calls
    BY <2>1, <2>3 DEF NobodyGivesUpBehind
  <2>5. worker' = Forsaken({t})
    BY <2>1 DEF GiveUp
  <2> QED
    BY <2>4, <2>5, ForsakenBehind
<1>6. CASE Reconnect \/ Close
  <2>1. \E T : worker' = Forsaken(T) /\ T \subseteq Discoveries
    BY <1>6, Disjoint DEF Reconnect, Close, CallersCancelled
  <2> QED
    BY <2>1, Disjoint, ForsakenBehind
<1>7. CASE StopSession \/ CloseSessions
  <2>1. \A j \in Ids : worker'[j].queue = worker[j].queue
    <3>1. WorkerCancelled
      BY <1>7 DEF StopSession, CloseSessions
    <3> QED
      BY <3>1, CancelledWorker
  <2> QED
    BY <2>1 DEF NoneForsakenBehind
<1> QED
  BY <1>1, <1>2, <1>3, <1>4, <1>5, <1>6, <1>7
     DEF McpNext, DiscoveryStep, ReconnectStep, CloseStep, Callers

(***************************************************************************)
(* "Timed-out Tool calls ... are never replayed" fails by one thing alone: *)
(* if no caller of a tool gives up while its request is behind another one *)
(* (in the queue of a worker that hangs), then no worker takes up a call   *)
(* whose caller was told, whatever else times out, fails or is cancelled.  *)
(***************************************************************************)
THEOREM NothingReplayedUnlessGivenUpBehind ==
    McpSpec /\ [][NobodyGivesUpBehind]_mcpVars => ToldIsOver
<1>1. McpInit => NoneForsakenBehind
  <2>1. Len(<<>>) = 0
    OBVIOUS
  <2> SUFFICES ASSUME McpInit, NEW i \in Ids, NEW n \in Nat, n \in 2..Len(worker[i].queue)
               PROVE  worker[i].queue[n] # "orphaned call"
    BY DEF NoneForsakenBehind
  <2>2. worker[i].queue = <<>>
    BY Records DEF McpInit
  <2>3. n \in 2..0 /\ 2..0 = {}
    BY <2>1, <2>2
  <2> QED
    BY <2>3, Zenon
<1>2. McpInv /\ NoneForsakenBehind /\ [McpNext]_mcpVars /\ [NobodyGivesUpBehind]_mcpVars
        => NoneForsakenBehind'
  BY BehindStep
<1>3. McpInv /\ NoneForsakenBehind
        => \A i \in Ids :
             LET q == worker[i].queue
                 p == worker'[i].queue
             IN  q # <<>> /\ p # <<>> /\ p = Tail(q) => p[1] # "orphaned call"
  <2> SUFFICES ASSUME McpInv, NoneForsakenBehind, NEW i \in Ids, worker[i].queue # <<>>,
                      worker'[i].queue # <<>>, worker'[i].queue = Tail(worker[i].queue)
               PROVE  worker'[i].queue[1] # "orphaned call"
    OBVIOUS
  <2>1. PICK q \in Seq(Requests) : q = worker[i].queue /\ q # <<>> /\ Tail(q) # <<>>
    BY DEF McpInv, Shapes, Worker
  <2>2. Len(q) \in Nat /\ Len(Tail(q)) = Len(q) - 1 /\ Tail(q) \in Seq(Requests)
        /\ \A m \in 1..Len(Tail(q)) : Tail(q)[m] = q[m + 1]
    BY <2>1, HeadTailProperties, LenProperties
  <2>3. Len(Tail(q)) \in Nat /\ Len(Tail(q)) # 0
    <3>1. \A r \in Seq(Requests) : r # <<>> => Len(r) \in Nat /\ Len(r) # 0
      OBVIOUS
    <3> QED
      BY <3>1, <2>1, <2>2
  <2>4. 2 \in 2..Len(q) /\ Tail(q)[1] = q[2]
    BY <2>2, <2>3
  <2> QED
    BY <2>1, <2>4 DEF NoneForsakenBehind
<1> QED
  BY <1>1, <1>2, <1>3, McpInvariant, PTL DEF McpSpec, ToldIsOver
=============================================================================
