------------------------- MODULE EventNotices_proofs -------------------------
(***************************************************************************)
(* Proofs about EventNotices, for any number of stretches and parkings.    *)
(***************************************************************************)
EXTENDS EventNotices, TLAPS

Places == {"idle", "working", "resolving", "reading", "marking", "waiting"}

\* One stretch at a time works on the job, and couriers tell of parkings that were.
Courteous ==
    /\ \A s, u \in Stretches : stretch[s].pc \in AtWork /\ stretch[u].pc \in AtWork => s = u
    /\ \A s \in Stretches : stretch[s].pc \in {"marking", "waiting"} => stretch[s].event > 0

(***************************************************************************)
(* A mark is in the hands of one courier at a time, and until he has used  *)
(* it the notice has never been shown.                                     *)
(***************************************************************************)
MarksHeldOnce ==
    /\ \A s \in Stretches : stretch[s].pc = "waiting" => shown[stretch[s].event] = 0
    /\ \A s, u \in Stretches :
        /\ stretch[s].pc = "waiting" /\ stretch[u].pc = "waiting"
        /\ stretch[s].event = stretch[u].event
        => s = u
    /\ \A e \in Events : shown[e] > 0 => e \in marked

EventInv == EventTypeOK /\ Courteous /\ MarksHeldOnce /\ EventOnce

LEMMA EventInitInv == EventInit => EventInv
<1> SUFFICES ASSUME EventInit PROVE EventInv
  OBVIOUS
<1> USE EventAssumption DEF Events, AtEase
<1>1. PICK s \in Stretches :
        stretch = [u \in Stretches |-> IF u = s THEN [AtEase EXCEPT !.pc = "working"] ELSE AtEase]
  BY DEF EventInit
<1>2. \A u \in Stretches :
        /\ stretch[u] \in Stretch /\ stretch[u].pc \in {"idle", "working"} /\ stretch[u].event = 0
        /\ stretch[u].pc = "working" => u = s
  BY <1>1 DEF Stretch
<1>3. stretch \in [Stretches -> Stretch]
  BY <1>1, <1>2
<1>4. EventTypeOK
  BY <1>2, <1>3 DEF EventInit, EventTypeOK, AtWork
<1>5. Courteous
  BY <1>2 DEF Courteous, AtWork
<1>6. MarksHeldOnce /\ EventOnce
  BY <1>2 DEF MarksHeldOnce, EventOnce, EventInit
<1> QED
  BY <1>4, <1>5, <1>6 DEF EventInv

(***************************************************************************)
(* What a stretch does changes its own entry only.                         *)
(***************************************************************************)
LEMMA NowOthers ==
    ASSUME NEW s \in Stretches, NEW pc \in Places,
           NEW e \in 0..MaxEvents, EventTypeOK, Now(s, pc, e)
    PROVE  /\ stretch' \in [Stretches -> Stretch]
           /\ stretch'[s].pc = pc /\ stretch'[s].event = e
           /\ \A u \in Stretches \ {s} : stretch'[u] = stretch[u]
BY DEF Now, EventTypeOK, Stretch, Places

LEMMA EventStepInv == EventInv /\ [EventNext]_eventVars => EventInv'
<1> SUFFICES ASSUME EventInv, [EventNext]_eventVars
             PROVE  EventInv'
  OBVIOUS
<1> USE EventAssumption DEF Events, Places, AtWork
<1>t. /\ EventTypeOK /\ Courteous /\ MarksHeldOnce /\ EventOnce
      /\ event \in 0..MaxEvents /\ key \in 0..MaxEvents
  BY DEF EventInv, EventTypeOK
<1>1. ASSUME NEW s \in Stretches, JobParks(s)
      PROVE  EventInv'
  <2>1. PICK r \in Stretch, e \in Nat :
          /\ stretch' = [stretch EXCEPT ![s] = r] /\ e = event + 1
          /\ r.pc \in {"reading", "marking"} /\ r.event = e
          /\ key' \in {e, key} /\ status' \in {"paused", "awaiting_confirmation"}
    <3>1. /\ event + 1 \in Nat /\ event + 1 \in 0..MaxEvents
          /\ [pc |-> "reading", event |-> event + 1, as |-> "pause"] \in Stretch
          /\ [pc |-> "marking", event |-> event + 1, as |-> "confirmation"] \in Stretch
      BY <1>1, <1>t DEF JobParks, Stretch
    <3> QED
      BY <3>1, <1>1, <1>t DEF JobParks
  <2>2. /\ event' = e /\ e \in 1..MaxEvents /\ e \in 0..MaxEvents /\ key' \in 0..MaxEvents
        /\ stretch[s].pc = "working"
        /\ UNCHANGED <<marked, exchange, history, shown, lost>>
    BY <1>1, <2>1, <1>t DEF JobParks
  <2>3. /\ stretch' \in [Stretches -> Stretch]
        /\ stretch'[s].pc \in {"reading", "marking"} /\ stretch'[s].event = e
        /\ \A u \in Stretches \ {s} : stretch'[u] = stretch[u]
    BY <2>1, <1>t DEF EventTypeOK
  <2>4. /\ \A u \in Stretches : stretch'[u].pc \notin AtWork
        /\ \A u \in Stretches : stretch'[u].pc = "waiting" => u # s /\ stretch'[u] = stretch[u]
    <3>1. \A u \in Stretches \ {s} : stretch[u].pc \notin AtWork
      BY <2>2, <1>t DEF Courteous
    <3> QED
      BY <2>1, <2>3, <3>1
  <2>5. \A u \in Stretches : stretch'[u].pc \in {"marking", "waiting"} => stretch'[u].event > 0
    BY <2>1, <2>2, <2>3, <1>t DEF Courteous
  <2>t. EventTypeOK'
    <3>1. \A u \in Stretches : stretch'[u].pc = "waiting" => stretch'[u].event \in marked'
      BY <2>2, <2>4, <1>t DEF EventTypeOK
    <3>2. status' \in {"paused", "awaiting_confirmation"} /\ event' \in 0..MaxEvents
      BY <2>1, <2>2
    <3> QED
      BY <2>2, <2>3, <2>4, <3>1, <3>2, <1>t DEF EventTypeOK
  <2>c. Courteous'
    BY <2>4, <2>5 DEF Courteous
  <2>m. MarksHeldOnce'
    BY <2>2, <2>4, <1>t DEF MarksHeldOnce
  <2>o. EventOnce'
    BY <2>1, <2>2, <2>3, <1>t DEF EventOnce
  <2> QED
    BY <2>t, <2>c, <2>m, <2>o DEF EventInv
<1>2. ASSUME NEW s \in Stretches, ResumeJob(s)
      PROVE  EventInv'
  <2>1. /\ \E pc \in AtWork : Now(s, pc, 0)
        /\ status # "detached" /\ status' = "detached"
        /\ UNCHANGED <<event, key, marked, exchange, history, shown, lost>>
    BY <1>2 DEF ResumeJob, Resumable
  <2>2. /\ stretch' \in [Stretches -> Stretch]
        /\ stretch'[s].pc \in AtWork /\ stretch'[s].event = 0
        /\ \A u \in Stretches \ {s} : stretch'[u] = stretch[u]
    BY <2>1, <1>t, NowOthers
  <2>3. \A u \in Stretches \ {s} : stretch'[u].pc \notin AtWork
    BY <2>1, <2>2, <1>t DEF EventTypeOK
  <2>4. EventTypeOK'
    BY <2>1, <2>2, <1>t DEF EventTypeOK
  <2>5. Courteous'
    BY <2>1, <2>2, <2>3, <1>t DEF Courteous
  <2>6. MarksHeldOnce' /\ EventOnce'
    BY <2>1, <2>2, <1>t DEF MarksHeldOnce, EventOnce
  <2> QED
    BY <2>4, <2>5, <2>6 DEF EventInv
<1>s. ASSUME NEW s \in Stretches, Stage(s)
      PROVE  EventInv'
  <2>1. Now(s, "idle", 0) /\ status' = "paused" /\ stretch[s].pc = "resolving"
        /\ UNCHANGED <<event, key, marked, exchange, history, shown, lost>>
    BY <1>s DEF Stage
  <2>2. /\ stretch' \in [Stretches -> Stretch]
        /\ stretch'[s].pc = "idle" /\ stretch'[s].event = 0
        /\ \A u \in Stretches \ {s} : stretch'[u] = stretch[u]
    BY <2>1, <1>t, NowOthers
  <2>3. \A u \in Stretches : stretch'[u].pc \notin AtWork
    BY <2>1, <2>2, <1>t DEF Courteous
  <2>4. EventTypeOK'
    BY <2>1, <2>2, <2>3, <1>t DEF EventTypeOK
  <2>5. Courteous'
    BY <2>1, <2>2, <2>3, <1>t DEF Courteous
  <2>6. MarksHeldOnce' /\ EventOnce'
    BY <2>1, <2>2, <1>t DEF MarksHeldOnce, EventOnce
  <2> QED
    BY <2>4, <2>5, <2>6 DEF EventInv
<1>3. ASSUME NEW s \in Stretches, ReadEvent(s)
      PROVE  EventInv'
  <2>1. PICK pc \in {"idle", "marking"}, e \in 0..MaxEvents :
          /\ Now(s, pc, e) /\ stretch[s].pc = "reading" /\ (pc = "marking" => e > 0)
          /\ UNCHANGED <<status, event, key, marked, exchange, history, shown, lost>>
    <3>1. EventKey \in 0..MaxEvents /\ 0 \in 0..MaxEvents
      BY <1>t DEF EventKey
    <3> QED
      BY <3>1, <1>3 DEF ReadEvent
  <2>2. /\ stretch' \in [Stretches -> Stretch]
        /\ stretch'[s].pc = pc /\ stretch'[s].event = e
        /\ \A u \in Stretches \ {s} : stretch'[u] = stretch[u]
    BY <2>1, <1>t, NowOthers
  <2>4. EventTypeOK'
    BY <2>1, <2>2, <1>t DEF EventTypeOK
  <2>5. Courteous'
    BY <2>1, <2>2, <1>t DEF Courteous
  <2>6. MarksHeldOnce' /\ EventOnce'
    BY <2>1, <2>2, <1>t DEF MarksHeldOnce, EventOnce
  <2> QED
    BY <2>4, <2>5, <2>6 DEF EventInv
<1>4. ASSUME NEW s \in Stretches, MarkNotified(s)
      PROVE  EventInv'
  <2> DEFINE e == stretch[s].event
  <2>1. /\ stretch[s].pc = "marking" /\ e \in 1..MaxEvents
        /\ UNCHANGED <<status, event, key, exchange, history, shown, lost>>
    BY <1>4, <1>t DEF MarkNotified, Courteous, EventTypeOK, Stretch
  <2>2. CASE NewKey(e)
    <3>1. e \notin marked /\ marked' = marked \cup {e} /\ Now(s, "waiting", e)
      BY <2>2, <1>4 DEF MarkNotified, NewKey
    <3> HIDE DEF e
    <3>2. /\ stretch' \in [Stretches -> Stretch]
          /\ stretch'[s].pc = "waiting" /\ stretch'[s].event = e
          /\ \A u \in Stretches \ {s} : stretch'[u] = stretch[u]
      BY <3>1, <2>1, <1>t, NowOthers
    <3>3. shown[e] = 0 /\ \A u \in Stretches : stretch[u].pc = "waiting" => stretch[u].event # e
      BY <3>1, <2>1, <1>t DEF MarksHeldOnce, EventTypeOK
    <3>4. \A u \in Stretches : stretch'[u].pc = "waiting" =>
            \/ u = s /\ stretch'[u].event = e
            \/ u # s /\ stretch'[u] = stretch[u] /\ stretch'[u].event # e
      BY <3>2, <3>3
    <3>t. EventTypeOK'
      BY <2>1, <3>1, <3>2, <3>3, <1>t DEF EventTypeOK
    <3>c. Courteous'
      <4>1. \A u, v \in Stretches :
              stretch'[u].pc \in AtWork /\ stretch'[v].pc \in AtWork => u = v
        BY <3>2, <1>t DEF Courteous
      <4>3. e > 0
        BY <2>1
      <4>4. \A u \in Stretches : stretch'[u].pc \in {"marking", "waiting"} => stretch'[u].event > 0
        BY <3>2, <4>3, <1>t DEF Courteous
      <4> QED
        BY <4>1, <4>4 DEF Courteous
    <3>m. MarksHeldOnce'
      <4>1. \A u \in Stretches : stretch'[u].pc = "waiting" => shown'[stretch'[u].event] = 0
        BY <2>1, <3>3, <3>4, <1>t DEF MarksHeldOnce
      <4>2. \A u, v \in Stretches :
              /\ stretch'[u].pc = "waiting" /\ stretch'[v].pc = "waiting"
              /\ stretch'[u].event = stretch'[v].event
              => u = v
        BY <3>4, <1>t DEF MarksHeldOnce
      <4>3. \A f \in Events : shown'[f] > 0 => f \in marked'
        BY <2>1, <3>1, <1>t DEF MarksHeldOnce
      <4> QED
        BY <4>1, <4>2, <4>3 DEF MarksHeldOnce
    <3>o. EventOnce'
      BY <2>1, <3>1, <3>2, <3>3, <1>t DEF EventOnce
    <3> QED
      BY <3>t, <3>c, <3>m, <3>o DEF EventInv
  <2>3. CASE ~NewKey(e)
    <3>1. marked' = marked /\ Now(s, "idle", 0)
      BY <2>3, <1>4 DEF MarkNotified
    <3>2. /\ stretch' \in [Stretches -> Stretch]
          /\ stretch'[s].pc = "idle" /\ stretch'[s].event = 0
          /\ \A u \in Stretches \ {s} : stretch'[u] = stretch[u]
      BY <3>1, <1>t, NowOthers
    <3>t. EventTypeOK'
      BY <2>1, <3>1, <3>2, <1>t DEF EventTypeOK
    <3>c. Courteous'
      BY <2>1, <3>1, <3>2, <1>t DEF Courteous
    <3>m. MarksHeldOnce'
      BY <2>1, <3>1, <3>2, <1>t DEF MarksHeldOnce
    <3>o. EventOnce'
      BY <2>1, <3>1, <3>2, <1>t DEF EventOnce
    <3> QED
      BY <3>t, <3>c, <3>m, <3>o DEF EventInv
  <2> QED
    BY <2>2, <2>3
<1>5. ASSUME NEW s \in Stretches, AppendEvent(s)
      PROVE  EventInv'
  <2> DEFINE e == stretch[s].event
  <2>1. /\ stretch[s].pc = "waiting" /\ e \in marked /\ e \in 1..MaxEvents /\ shown[e] = 0
        /\ \A u \in Stretches \ {s} : stretch[u].pc = "waiting" => stretch[u].event # e
    BY <1>5, <1>t DEF AppendEvent, EventTypeOK, MarksHeldOnce
  <2>2. /\ history' = history \cup {e} /\ Now(s, "idle", 0)
        /\ UNCHANGED <<status, event, key, marked, exchange, lost>>
    BY <1>5 DEF AppendEvent
  <2>3. /\ shown' \in [1..MaxEvents -> Nat]
        /\ shown'[e] <= 1
        /\ \A f \in (1..MaxEvents) \ {e} : shown'[f] = shown[f]
    BY <1>5, <2>1, <1>t DEF AppendEvent, EventTypeOK
  <2> HIDE DEF e
  <2>4. /\ stretch' \in [Stretches -> Stretch]
        /\ stretch'[s].pc = "idle" /\ stretch'[s].event = 0
        /\ \A u \in Stretches \ {s} : stretch'[u] = stretch[u]
    BY <2>2, <1>t, NowOthers
  <2>t. EventTypeOK'
    BY <2>1, <2>2, <2>3, <2>4, <1>t DEF EventTypeOK
  <2>c. Courteous'
    BY <2>1, <2>2, <2>3, <2>4, <1>t DEF EventTypeOK, Courteous
  <2>5. \A u \in Stretches : stretch'[u].pc = "waiting" =>
          u # s /\ stretch'[u] = stretch[u] /\ stretch'[u].event # e
    BY <2>1, <2>4
  <2>m. MarksHeldOnce'
    <3>1. \A u \in Stretches : stretch'[u].pc = "waiting" => shown'[stretch'[u].event] = 0
      <4> SUFFICES ASSUME NEW u \in Stretches, stretch'[u].pc = "waiting"
                   PROVE  shown'[stretch'[u].event] = 0
        OBVIOUS
      <4>1. stretch[u].event \in 1..MaxEvents /\ shown[stretch[u].event] = 0
        BY <2>5, <1>t DEF EventTypeOK, MarksHeldOnce
      <4> QED
        BY <2>3, <2>5, <4>1
    <3>2. \A u, v \in Stretches :
            /\ stretch'[u].pc = "waiting" /\ stretch'[v].pc = "waiting"
            /\ stretch'[u].event = stretch'[v].event
            => u = v
      BY <2>5, <1>t DEF MarksHeldOnce
    <3>3. \A f \in Events : shown'[f] > 0 => f \in marked'
      BY <2>1, <2>2, <2>3, <1>t DEF MarksHeldOnce
    <3> QED
      BY <3>1, <3>2, <3>3 DEF MarksHeldOnce
  <2>o. EventOnce'
    BY <2>1, <2>2, <2>3, <2>4, <1>t DEF EventOnce
  <2> QED
    BY <2>t, <2>c, <2>m, <2>o DEF EventInv
<1>6. ASSUME NEW s \in Stretches, Lose(s)
      PROVE  EventInv'
  <2>1. /\ Now(s, "idle", 0)
        /\ UNCHANGED <<status, event, key, marked, exchange, history, shown>>
    BY <1>6 DEF Lose
  <2>2. lost' \subseteq 1..MaxEvents
    <3>1. lost \subseteq 1..MaxEvents /\ {stretch[s].event} \ {0} \subseteq 1..MaxEvents
      BY <1>t DEF EventTypeOK, Stretch
    <3>2. lost' = lost \cup ({stretch[s].event} \ {0})
      BY <1>6 DEF Lose
    <3> QED
      BY <3>1, <3>2
  <2>3. /\ stretch' \in [Stretches -> Stretch]
        /\ stretch'[s].pc = "idle" /\ stretch'[s].event = 0
        /\ \A u \in Stretches \ {s} : stretch'[u] = stretch[u]
    BY <2>1, <1>t, NowOthers
  <2>t. EventTypeOK'
    BY <2>1, <2>2, <2>3, <1>t DEF EventTypeOK
  <2>c. Courteous'
    BY <2>1, <2>2, <2>3, <1>t DEF Courteous
  <2>m. MarksHeldOnce'
    BY <2>1, <2>2, <2>3, <1>t DEF MarksHeldOnce
  <2>o. EventOnce'
    BY <2>1, <2>2, <2>3, <1>t DEF EventOnce
  <2> QED
    BY <2>t, <2>c, <2>m, <2>o DEF EventInv
<1>7. CASE StoreExchange \/ DropRows \/ UNCHANGED eventVars
  <2>1. UNCHANGED <<status, event, key, marked, stretch, shown, lost>>
    BY <1>7 DEF StoreExchange, DropRows, eventVars
  <2>2. history' \subseteq history /\ exchange' \in {"due", "stored", "never"}
    BY <1>7, <1>t DEF StoreExchange, DropRows, eventVars, EventTypeOK
  <2>t. EventTypeOK'
    BY <2>1, <2>2, <1>t DEF EventTypeOK
  <2>c. Courteous'
    BY <2>1, <2>2, <1>t DEF Courteous
  <2>m. MarksHeldOnce'
    BY <2>1, <2>2, <1>t DEF MarksHeldOnce
  <2>o. EventOnce'
    BY <2>1, <2>2, <1>t DEF EventOnce
  <2> QED
    BY <2>t, <2>c, <2>m, <2>o DEF EventInv
<1> QED
  BY <1>1, <1>2, <1>s, <1>3, <1>4, <1>5, <1>6, <1>7 DEF EventNext, Courier

(***************************************************************************)
(* However many stretches tell of the same parking, and whatever becomes   *)
(* of the history in between, its notice is shown once at the most.        *)
(***************************************************************************)
THEOREM EventsShownOnce == EventSpec => []EventOnce
<1>1. EventInv => EventOnce
  BY DEF EventInv
<1> QED
  BY EventInitInv, EventStepInv, <1>1, PTL DEF EventSpec

\* Types, and: who is about to append has marked, a job that is worked on is not parked.
THEOREM EventTypesHold == EventSpec => []EventTypeOK
<1>1. EventInv => EventTypeOK
  BY DEF EventInv
<1> QED
  BY EventInitInv, EventStepInv, <1>1, PTL DEF EventSpec
=============================================================================
