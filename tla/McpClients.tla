----------------------------- MODULE McpClients -----------------------------
(***************************************************************************)
(* MCPClientManager (mcp/runtime.py) and one of its servers: the lock that *)
(* serializes its operations, the worker task that owns the session, tool  *)
(* calls, discovery with its cache, the probe of a failed server, the      *)
(* reconnect of the administrator, and close() on reload and shutdown.     *)
(*                                                                         *)
(* A caller is a tool call, or one of the three tasks that discover: the   *)
(* refresh, the retry after a failure, the reconnect.  A step lasts until  *)
(* the task awaits; only time and the server decide how an operation ends. *)
(* A request has two deadlines: that of its caller, who gives up and lets  *)
(* the lock go, and that of the worker, from when it takes the request up; *)
(* neither waits for the other, and nothing bounds the close of a session. *)
(* The cooldown of a failed server, the age of the cache and the recycling *)
(* of an idle session are choices.                                         *)
(*                                                                         *)
(* Left out: servers that are disabled or of an unsupported transport, the *)
(* projection of tools and results, and the worker of another event loop.  *)
(***************************************************************************)
EXTENDS Naturals, Sequences, FiniteSets
SE == INSTANCE SequencesExt

CONSTANTS
    Calls,      \* slots for tool calls
    MaxWorkers, \* bound: workers that exist at a time
    MaxQueue    \* bound: requests in the queue of a worker, also those given up

VARIABLES
    caller,    \* caller[t]: where its task is, and the answer it was given
    lock,      \* _session_locks: who holds it, then who waits
    worker,    \* worker[i]: the i-th session worker
    current,   \* _session_workers and _session_queues, 0 for no entry
    cache,     \* _discovery and _statuses, _failure_at
    shutdown   \* how far close() is, _closed from "refusing" on

mcpVars == <<caller, lock, worker, current, cache, shutdown>>

-----------------------------------------------------------------------------
Discoveries == {"refresh", "retry", "reconnect"}

\* A request whose future is done, since its caller gave up or was cancelled.
Orphans == {"orphaned call", "orphaned discovery"}

ASSUME McpAssumption ==
    /\ MaxWorkers \in Nat /\ MaxQueue \in Nat \ {0}
    /\ Calls \cap (Discoveries \cup Orphans) = {}

Callers == Calls \cup Discoveries
Requests == Callers \cup Orphans

\* "lost": the transport failed, or the session was closed.
Answers == {"none", "ok", "error", "lost", "timeout"}

\* delay: the backoff of a retry; stopping, stoppingAgain: reconnect waits for the worker.
Caller == [pc : {"idle", "delay", "waiting", "running", "answered", "cancelling", "stopping",
               "stoppingAgain"},
         answer : Answers,
         again  : BOOLEAN]  \* may a discovery that times out try once more?

AtRest == [pc |-> "idle", answer |-> "none", again |-> FALSE]

(***************************************************************************)
(* closing: the worker awaits the end of its session, and ending is what   *)
(* it tells the caller then ("none": it goes on with the same request).    *)
(* dying: cancelled; broken: cancelled so that it cannot refuse them all.  *)
(***************************************************************************)
Worker == [life    : {"none", "live", "dying", "broken"},
           session : {"none", "open", "closing"},
           queue   : Seq(Requests), \* the request in execution, then the next ones
           tries   : 0..2,          \* how often the one in execution was started
           ending  : {"none", "raised", "timeout"}]

NoWorker == [life |-> "none", session |-> "none", queue |-> <<>>, tries |-> 0, ending |-> "none"]
Spawned(t) == [NoWorker EXCEPT !.life = "live", !.queue = <<t>>]

Ids == 1..MaxWorkers

Cache == [tools   : {"cold", "none", "offered"},
          failure : {"none", "recorded", "inherited"}]

McpTypeOK ==
    /\ caller \in [Callers -> Caller]
    /\ lock \in Seq(Callers)
    /\ worker \in [Ids -> Worker]
    /\ \A i \in Ids : worker[i].life = "none" => worker[i] = NoWorker /\ i # current
    /\ current \in 0..MaxWorkers
    /\ cache \in Cache
    /\ shutdown \in {"open", "refusing", "stopping", "closed"}

Closed == shutdown # "open"

\* A new manager is cold or has inherited the snapshot of the one before.
McpInit ==
    /\ caller = [t \in Callers |-> AtRest]
    /\ lock = <<>>
    /\ worker = [i \in Ids |-> NoWorker]
    /\ current = 0
    /\ cache \in {[tools |-> "cold", failure |-> "none"], [tools |-> "offered", failure |-> "none"],
                  [tools |-> "none", failure |-> "inherited"]}
    /\ shutdown = "open"

-----------------------------------------------------------------------------
(***************************************************************************)
(* _run_server_operation: the lock, the worker, the request.               *)
(***************************************************************************)
Without(s, t) == SE!RemoveFirst(s, t)

\* Whether there is a worker that is not done; a dying one still counts.
HasWorker == current # 0

\* Nothing bounds the queue: one over MaxQueue only waits for its deadline.
Requested(t) ==
    IF HasWorker
      THEN /\ worker' = IF Len(worker[current].queue) = MaxQueue THEN worker
                        ELSE [worker EXCEPT ![current].queue = Append(@, t)]
           /\ UNCHANGED current
      ELSE \E i \in Ids :
           /\ worker[i].life = "none" /\ \A j \in 1..(i - 1) : worker[j].life # "none"
           /\ worker' = [worker EXCEPT ![i] = Spawned(t)]
           /\ current' = i

(***************************************************************************)
(* Caller t starts an operation; ts is what the step makes of the others.  *)
(* A closed manager refuses it; a free lock is taken without awaiting.     *)
(***************************************************************************)
Operate(t, ts, again) ==
    LET others   == Without(lock, t)
        Being(pc) == [ts EXCEPT ![t] = [pc |-> pc, answer |-> "none", again |-> again]]
    IN  IF Closed
          THEN /\ caller' = [ts EXCEPT ![t] =
                             [pc |-> "answered", answer |-> "error", again |-> FALSE]]
               /\ lock' = others
               /\ UNCHANGED <<worker, current>>
          ELSE /\ lock' = Append(others, t)
               /\ IF others = <<>>
                    THEN caller' = Being("running") /\ Requested(t)
                    ELSE caller' = Being("waiting") /\ UNCHANGED <<worker, current>>

\* The check of _closed is not made again when the lock has been waited for.
Acquire(t) ==
    /\ caller[t].pc = "waiting" /\ lock[1] = t
    /\ caller' = [caller EXCEPT ![t].pc = "running"]
    /\ Requested(t)
    /\ UNCHANGED <<lock, cache, shutdown>>

\* Cancelled futures: their requests stay in the queues, and nobody waits for them.
StillAwaited(T) == worker                                                  \* mutant
Forsaken(T) ==
    [i \in Ids |-> [worker[i] EXCEPT !.queue =
        [n \in 1..Len(@) |-> CASE @[n] \notin T -> @[n]
                               [] @[n] \in T \cap Calls -> "orphaned call"
                               [] OTHER -> "orphaned discovery"]]]

\* The deadline of the caller, in the lock or behind the request.
GiveUp(t) ==
    /\ caller[t].pc \in {"waiting", "running"}
    /\ caller' = [caller EXCEPT ![t].pc = "answered", ![t].answer = "timeout"]
    /\ lock' = Without(lock, t)
    /\ worker' = Forsaken({t})
    /\ UNCHANGED <<current, cache, shutdown>>

-----------------------------------------------------------------------------
(***************************************************************************)
(* _session_worker.                                                        *)
(***************************************************************************)
\* The next request is taken up in the step that ends the one before.
Executing(i) == worker[i].life = "live" /\ worker[i].queue # <<>>

\* Set the futures of those who wait for the requests in R.
Tell(R, answer) ==
    caller' = [t \in Callers |-> IF t \in R
                               THEN [caller[t] EXCEPT !.pc = "answered", !.answer = answer]
                               ELSE caller[t]]

\* The worker goes on with its request, and nobody notices.
Goes(i, w) ==
    worker' = [worker EXCEPT ![i] = w] /\ UNCHANGED <<caller, lock, current, cache, shutdown>>

\* The request in execution is over; the worker does not ask who still waits for the next.
EndRequest(i, session, answer) ==
    /\ worker' = [worker EXCEPT ![i] = [NoWorker EXCEPT !.life = "live", !.session = session,
                                                       !.queue = Tail(worker[i].queue)]]
    /\ Tell({Head(worker[i].queue)}, answer)
    /\ UNCHANGED <<lock, current, cache, shutdown>>

\* A session that has been idle for too long is closed first.
Recycle(i) ==
    /\ Executing(i) /\ worker[i].tries = 0 /\ worker[i].session = "open"
    /\ Goes(i, [worker[i] EXCEPT !.session = "closing"])

\* On the session there is, or a new one.
StartRequest(i) ==
    /\ Executing(i) /\ worker[i].tries = 0 /\ worker[i].session # "closing"
    /\ Goes(i, [worker[i] EXCEPT !.session = "open", !.tries = 1])

\* The attempt is over, well or with an exception; or the deadline of the worker is.
Succeed(i) ==
    /\ Executing(i) /\ worker[i].tries > 0 /\ worker[i].session = "open"
    /\ EndRequest(i, "open", "ok")

AttemptFails(i) ==
    /\ Executing(i) /\ worker[i].tries > 0 /\ worker[i].session = "open"
    /\ \E ending \in {"timeout", IF worker[i].tries = 1 THEN "none" ELSE "raised"} :
         Goes(i, [worker[i] EXCEPT !.session = "closing", !.ending = ending])

Raised == {"error", "lost"}

\* Once more after an exception, on a new session.
Replay(i) ==
    /\ Executing(i) /\ worker[i].tries = 1 /\ worker[i].session = "none"
    /\ Goes(i, [worker[i] EXCEPT !.session = "open", !.tries = 2])

\* No session could be opened; nor does the clean-up of a half-open one have a deadline.
OpenFails(i) ==
    /\ Executing(i) /\ worker[i].session = "none"
    /\ \E answer \in Raised \cup {"timeout"} : EndRequest(i, "none", answer)

\* The close of a session returns, at some time or never.
CloseDone(i) ==
    /\ Executing(i) /\ worker[i].session = "closing"
    /\ CASE worker[i].ending = "none" -> Goes(i, [worker[i] EXCEPT !.session = "none"])
         [] worker[i].ending = "raised" -> \E answer \in Raised : EndRequest(i, "none", answer)
         [] worker[i].ending = "timeout" -> EndRequest(i, "none", "timeout")

\* The deadline of the worker breaks off a close that it covers.
CloseTimesOut(i) ==
    /\ Executing(i) /\ worker[i].session = "closing" /\ worker[i].ending # "timeout"
    /\ EndRequest(i, "none", "timeout")

KeptEntry(i) == current                                                    \* mutant
RemovedEntry(i) == IF current = i THEN 0 ELSE current

\* The cancelled worker has closed its session and refuses what is in its queue.
StopWorker(i) ==
    LET q       == worker[i].queue
        In(m)   == {q[n] : n \in m..Len(q)}
        refused == IF worker[i].life = "dying" THEN {In(1)} ELSE {In(2), {}}
    IN  /\ worker[i].life \in {"dying", "broken"}
        /\ worker' = [worker EXCEPT ![i] = NoWorker]
        /\ current' = RemovedEntry(i)
        /\ \E R \in refused : Tell(R, "lost")
        /\ UNCHANGED <<lock, cache, shutdown>>

-----------------------------------------------------------------------------
(***************************************************************************)
(* What the callers do with their answers.                                 *)
(***************************************************************************)
\* _schedule_retry, by a caller other than the retry.
RetryScheduled(ts) ==
    IF ~Closed /\ ts["retry"].pc = "idle" THEN [ts EXCEPT !["retry"].pc = "delay"] ELSE ts

WithdrawnLater(c) == [c EXCEPT !.failure = "recorded"]                     \* mutant
Withdrawn(c) == [c EXCEPT !.failure = "recorded", !.tools = "none"]

Call(c) ==
    /\ caller[c].pc = "idle" /\ ~Closed
    /\ Operate(c, caller, FALSE)
    /\ UNCHANGED <<cache, shutdown>>

CallEnds(c) ==
    LET rested == [caller EXCEPT ![c] = AtRest] IN
    /\ caller[c].pc = "answered"
    /\ lock' = Without(lock, c)
    /\ IF caller[c].answer \in {"lost", "timeout"}
         THEN /\ cache' = Withdrawn(cache)
              /\ caller' = RetryScheduled(rested)
         ELSE /\ caller' = rested
              /\ UNCHANGED cache
    /\ UNCHANGED <<worker, current, shutdown>>

\* discover_all, or a stale cache; one refresh at a time.
Discover ==
    /\ caller["refresh"].pc = "idle"
    /\ Operate("refresh", caller, HasWorker)
    /\ UNCHANGED <<cache, shutdown>>

\* The backoff is over.
Probe ==
    /\ caller["retry"].pc = "delay"
    /\ Operate("retry", caller, HasWorker)
    /\ UNCHANGED <<cache, shutdown>>

\* Half of the time on a session that was open before, the rest on a new one.
DiscoverAgain(t) ==
    /\ caller[t].pc = "answered" /\ caller[t].answer = "timeout" /\ caller[t].again
    /\ Operate(t, caller, FALSE)
    /\ UNCHANGED <<cache, shutdown>>

\* The caller itself after its discovery, and the callback at the end of a retry.
RestedForGood(t, ok) == [caller EXCEPT ![t] = AtRest]                        \* mutant
Rested(t, ok) ==
    CASE t = "retry" /\ ~ok /\ ~Closed -> [caller EXCEPT ![t] = [AtRest EXCEPT !.pc = "delay"]]
      [] t = "reconnect" /\ ~ok -> [caller EXCEPT ![t] = [AtRest EXCEPT !.pc = "stoppingAgain"]]
      [] OTHER -> [caller EXCEPT ![t] = AtRest]

DiscoveryEnds(t) ==
    LET ok == caller[t].answer = "ok" IN
    /\ caller[t].pc = "answered"
    /\ ~(caller[t].answer = "timeout" /\ caller[t].again)
    /\ lock' = Without(lock, t)
    /\ IF ok THEN /\ cache' = [tools |-> "offered", failure |-> "none"]
                  /\ caller' = Rested(t, ok)
             ELSE /\ cache' = Withdrawn(cache)
                  /\ caller' = IF t = "retry" THEN Rested(t, ok) ELSE RetryScheduled(Rested(t, ok))
    /\ UNCHANGED <<worker, current, shutdown>>

-----------------------------------------------------------------------------
(***************************************************************************)
(* The ends of a session: reconnect and close.                             *)
(***************************************************************************)
\* Cancelled where they are; the worker does not hear of it.
CallersCancelled(T, ts) ==
    /\ caller' = [t \in Callers |-> IF t \in T THEN AtRest ELSE ts[t]]
    /\ worker' = Forsaken(T)

(***************************************************************************)
(* _close_server_session: the worker is cancelled, and then waited for.  A *)
(* cancellation breaks off a close under way, but those in execute() where *)
(* the future is still set; a worker that has not run yet refuses nobody.  *)
(***************************************************************************)
BreaksOff(i) ==
    \/ worker[i].life # "live" \/ worker[i].ending = "timeout"
    \/ worker[i].tries = 0 /\ worker[i].session = "none" /\ Len(worker[i].queue) = 1

Cancelled(i) ==
    LET session == IF worker[i].session = "none" THEN "none" ELSE "closing" IN
    {[NoWorker EXCEPT !.life = life, !.session = session, !.queue = worker[i].queue] :
        life \in {l \in {"dying", "broken"} :
                    IF l = "dying" THEN worker[i].life = "live" ELSE BreaksOff(i)}}

WorkerForgotten ==                                                         \* mutant
    /\ HasWorker => \E w \in Cancelled(current) : worker' = [worker EXCEPT ![current] = w]
    /\ ~HasWorker => UNCHANGED worker
    /\ current' = 0
WorkerCancelled ==
    /\ HasWorker => \E w \in Cancelled(current) : worker' = [worker EXCEPT ![current] = w]
    /\ ~HasWorker => UNCHANGED worker
    /\ UNCHANGED current

\* Whom a cancelled caller has handed the lock runs before the one that cancelled it.
LockHandedOver == \A t \in Callers : caller[t].pc = "waiting" => lock[1] # t

WorkerGone == ~\E i \in Ids : i = current /\ worker[i].life # "live"

Reconnect ==
    /\ caller["reconnect"].pc = "idle" /\ ~Closed
    /\ CallersCancelled({"refresh"}, [caller EXCEPT !["reconnect"].pc = "cancelling"])
    /\ lock' = Without(lock, "refresh")
    /\ UNCHANGED <<current, cache, shutdown>>

\* Before the discovery, and once more when it failed.
StopSession ==
    /\ caller["reconnect"].pc \in {"cancelling", "stoppingAgain"}
    /\ LockHandedOver
    /\ WorkerCancelled
    /\ caller' = [caller EXCEPT !["reconnect"] =
                  IF @.pc = "cancelling" THEN [AtRest EXCEPT !.pc = "stopping"] ELSE AtRest]
    /\ UNCHANGED <<lock, cache, shutdown>>

StartAfresh ==
    /\ caller["reconnect"].pc = "stopping" /\ WorkerGone
    /\ cache' = [tools |-> "cold", failure |-> "none"]
    /\ Operate("reconnect", caller, HasWorker)
    /\ UNCHANGED shutdown

Close ==
    /\ shutdown = "open"
    /\ shutdown' = "refusing"
    /\ CallersCancelled({"retry", "refresh"}, caller)
    /\ lock' = Without(Without(lock, "retry"), "refresh")
    /\ UNCHANGED <<current, cache>>

CloseSessions ==
    /\ shutdown = "refusing" /\ LockHandedOver
    /\ shutdown' = "stopping"
    /\ WorkerCancelled
    /\ UNCHANGED <<caller, lock, cache>>

\* What has been entered in the dictionaries meanwhile is forgotten.
CloseEnds ==
    /\ shutdown = "stopping" /\ WorkerGone
    /\ shutdown' = "closed"
    /\ current' = 0
    /\ UNCHANGED <<caller, lock, worker, cache>>

-----------------------------------------------------------------------------
WorkerStep(i) ==
    \/ Recycle(i) \/ StartRequest(i) \/ Succeed(i) \/ AttemptFails(i) \/ Replay(i)
    \/ OpenFails(i) \/ CloseDone(i) \/ CloseTimesOut(i) \/ StopWorker(i)

DiscoveryStep(t) == Acquire(t) \/ DiscoverAgain(t) \/ DiscoveryEnds(t)

ReconnectStep == StopSession \/ StartAfresh

CloseStep == CloseSessions \/ CloseEnds

McpNext ==
    \/ \E c \in Calls : Call(c) \/ CallEnds(c) \/ Acquire(c)
    \/ \E t \in Discoveries : DiscoveryStep(t)
    \/ \E t \in Callers : GiveUp(t)
    \/ \E i \in Ids : WorkerStep(i)
    \/ Discover \/ Probe \/ Reconnect \/ ReconnectStep \/ Close \/ CloseStep

\* The event loop; every caller has a deadline; a worker may hang, and nobody has to call.
McpFairness ==
    /\ \A c \in Calls : WF_mcpVars(Acquire(c) \/ CallEnds(c))
    /\ \A t \in Discoveries : WF_mcpVars(DiscoveryStep(t))
    /\ \A t \in Callers : WF_mcpVars(GiveUp(t))
    /\ WF_mcpVars(Probe) /\ WF_mcpVars(ReconnectStep) /\ WF_mcpVars(CloseStep)

McpSpec == McpInit /\ [][McpNext]_mcpVars /\ McpFairness

-----------------------------------------------------------------------------
Sessions == {i \in Ids : worker[i].session # "none"}

(***************************************************************************)
(* "One persistent transport session per enabled server": until close, the *)
(* server never sees a second one, neither during a reconnect.             *)
(***************************************************************************)
OneSession == ~Closed => Cardinality(Sessions) <= 1

(***************************************************************************)
(* A request that somebody waits for is the last of its queue: whatever it *)
(* has to wait behind was given up.  So is kept, although a caller leaves  *)
(* the lock at its deadline or its cancellation, and its request does not. *)
(***************************************************************************)
AwaitedIsLast ==
    \A i \in Ids : \A n \in 1..Len(worker[i].queue) :
        worker[i].queue[n] \in Callers => n = Len(worker[i].queue)

(***************************************************************************)
(* "Timed-out Tool calls remain honest and are never replayed": a worker   *)
(* that turns to its next request takes no call up whose caller was told   *)
(* already.  The code does not keep it: what waits behind the close of a   *)
(* session is executed when that returns, with a deadline of its own.      *)
(***************************************************************************)
ToldIsOver ==
    [][\A i \in Ids :
         LET q == worker[i].queue
             p == worker'[i].queue
         IN  q # <<>> /\ p # <<>> /\ p = Tail(q) => p[1] # "orphaned call"]_mcpVars

(***************************************************************************)
(* The tools of a failed server are withdrawn until a discovery succeeds,  *)
(* also when a call fails while another one discovers.                     *)
(***************************************************************************)
FailedIsWithdrawn == cache.failure # "none" => cache.tools = "none"

(***************************************************************************)
(* A failed server is probed again and again, until it answers: a failure  *)
(* that this manager recorded never stays without a discovery that has     *)
(* begun, if only to wait in vain for the lock.                            *)
(***************************************************************************)
FailedIsProbed ==
    (cache.failure = "recorded")
        ~> (\/ Closed \/ cache.failure # "recorded"
            \/ \E t \in Discoveries : caller[t].pc \in {"waiting", "running"})

(***************************************************************************)
(* "Clean application-shutdown closure": when close() is done, no session  *)
(* is open and none will be.  The code does not keep it: a call that waits *)
(* for the lock meanwhile starts a worker that nobody stops.               *)
(***************************************************************************)
CloseLeavesNothing == shutdown = "closed" => Sessions = {}
=============================================================================
