---------------------------- MODULE EventNotices ----------------------------
(***************************************************************************)
(* The notices of a job that parks (_notify_agent_job_paused and           *)
(* _notify_agent_job_awaiting_confirmation in pipeline.py,                 *)
(* mark_event_notified in agent_jobs.py, _append_agent_job_notice in       *)
(* main.py).  Unlike the terminal notice (JobNotices) they are marked as   *)
(* delivered before they are sent, and are not sent again.                 *)
(*                                                                         *)
(* A stretch is one task of the agent, between a start or resumption and   *)
(* the next parking; it sends the notice as its last act, while the user   *)
(* may already have resumed the job in another stretch.  A pause reads the *)
(* key of its notice from the row, and takes the one that the job has now; *)
(* a confirmation knows its own.  The appender waits two seconds for a row *)
(* of the job in the history, and then appends the notice anyway.  Left    *)
(* out: the text, and jobs that end.                                       *)
(***************************************************************************)
EXTENDS Naturals, FiniteSets

CONSTANTS
    Stretches,  \* slots for tasks of the agent, over all worker processes
    MaxEvents   \* bound: how often the job parks

ASSUME EventAssumption == MaxEvents \in Nat

VARIABLES
    status,    \* of the row of the job
    event,     \* the last parking, 0 for none; it names pending_token, too
    key,       \* pause_event_key: the last one that was a pause, and no confirmation
    marked,    \* the keys in agent_job_notices
    stretch,   \* stretch[s]: what a task is about to do, for which event
    exchange,  \* the exchange that started the job: due, stored, or never stored
    history,   \* the events whose notices are in the history
    shown,     \* ghost: how often a notice was appended
    lost       \* ghost: the events whose courier failed or died

eventVars == <<status, event, key, marked, stretch, exchange, history, shown, lost>>

-----------------------------------------------------------------------------
Events == 1..MaxEvents

\* as: the notice that the courier sends.
Stretch == [pc    : {"idle", "working", "resolving", "reading", "marking", "waiting"},
            event : 0..MaxEvents,
            as    : {"pause", "confirmation"}]

AtEase == [pc |-> "idle", event |-> 0, as |-> "pause"]

AtWork == {"working", "resolving"}

EventTypeOK ==
    /\ status \in {"detached", "paused", "awaiting_confirmation"}
    /\ event \in 0..MaxEvents /\ key \in 0..MaxEvents
    /\ marked \subseteq Events
    /\ stretch \in [Stretches -> Stretch]
    \* Whoever is about to append has marked, and a job that is worked on is not parked.
    /\ \A s \in Stretches : stretch[s].pc = "waiting" => stretch[s].event \in marked
    /\ \A s \in Stretches : stretch[s].pc \in AtWork => status = "detached"
    /\ exchange \in {"due", "stored", "never"}
    /\ history \subseteq marked
    /\ shown \in [Events -> Nat]
    /\ lost \subseteq Events

EventInit ==
    /\ status = "detached" /\ event = 0 /\ key = 0
    /\ marked = {}
    /\ \E s \in Stretches :
        stretch = [u \in Stretches |-> IF u = s THEN [AtEase EXCEPT !.pc = "working"] ELSE AtEase]
    /\ exchange = "due"
    /\ history = {}
    /\ shown = [e \in Events |-> 0]
    /\ lost = {}

Now(s, pc, e) == stretch' = [stretch EXCEPT ![s] = [@ EXCEPT !.pc = pc, !.event = e]]

-----------------------------------------------------------------------------
\* set_paused or set_awaiting_confirmation: every parking has a key of its own.
JobParks(s) ==
    /\ stretch[s].pc = "working" /\ event < MaxEvents
    /\ event' = event + 1
    /\ \/ /\ status' = "paused" /\ key' = event + 1
          /\ stretch' = [stretch EXCEPT ![s] =
                            [pc |-> "reading", event |-> event + 1, as |-> "pause"]]
       \/ /\ status' = "awaiting_confirmation" /\ UNCHANGED key
          /\ stretch' = [stretch EXCEPT ![s] =
                            [pc |-> "marking", event |-> event + 1, as |-> "confirmation"]]
    /\ UNCHANGED <<marked, exchange, history, shown, lost>>

\* The two claims: of a pause, also of a staged one, and of a confirmation.
ResumableAnytime == TRUE                                                   \* mutant
Resumable == status # "detached"

ResumeJob(s) ==
    /\ Resumable /\ stretch[s].pc = "idle"
    /\ status' = "detached"
    /\ Now(s, IF status = "awaiting_confirmation" THEN "resolving" ELSE "working", 0)
    /\ UNCHANGED <<event, key, marked, exchange, history, shown, lost>>

\* stage_resume_state: paused again, under the key of an older pause, if there was one.
Stage(s) ==
    /\ stretch[s].pc = "resolving"
    /\ status' = "paused"
    /\ Now(s, "idle", 0)
    /\ UNCHANGED <<event, key, marked, exchange, history, shown, lost>>

\* record.event_key, by the status of the row; there is none of a job that is worked on.
EventKey ==
    CASE status = "paused" -> key
      [] status = "awaiting_confirmation" -> event
      [] OTHER -> 0

ReadEvent(s) ==
    /\ stretch[s].pc = "reading"
    /\ IF EventKey = 0 THEN Now(s, "idle", 0) ELSE Now(s, "marking", EventKey)
    /\ UNCHANGED <<status, event, key, marked, exchange, history, shown, lost>>

NewKeyOfJob(e) == marked = {}                                              \* mutant
NewKeyUnchecked(e) == TRUE                                                 \* mutant
NewKey(e) == e \notin marked

\* mark_event_notified: inserted once, and then as delivered.
MarkNotified(s) ==
    LET e == stretch[s].event IN
    /\ stretch[s].pc = "marking"
    /\ IF NewKey(e) THEN marked' = marked \cup {e} /\ Now(s, "waiting", e)
                    ELSE Now(s, "idle", 0) /\ UNCHANGED marked
    /\ UNCHANGED <<status, event, key, exchange, history, shown, lost>>

\* When a row of the job is found, or when the two seconds are over.
AppendEvent(s) ==
    LET e == stretch[s].event IN
    /\ stretch[s].pc = "waiting"
    /\ history' = history \cup {e}
    /\ shown' = IF e \in history THEN shown ELSE [shown EXCEPT ![e] = @ + 1]
    /\ Now(s, "idle", 0)
    /\ UNCHANGED <<status, event, key, marked, exchange, lost>>

\* The history cannot be written, or the worker dies.
Lose(s) ==
    /\ stretch[s].pc # "idle"
    /\ lost' = lost \cup ({stretch[s].event} \ {0})
    /\ Now(s, "idle", 0)
    /\ UNCHANGED <<status, event, key, marked, exchange, history, shown>>

-----------------------------------------------------------------------------
\* The web route stores the exchange after the turn was detached, if it lives.
StoreExchange ==
    /\ exchange = "due"
    /\ exchange' \in {"stored", "never"}
    /\ UNCHANGED <<status, event, key, marked, stretch, history, shown, lost>>

\* Trimmed to its last rows, or cleared by the user.
DropRows ==
    /\ \E kept \in SUBSET history : history' = kept
    /\ UNCHANGED <<status, event, key, marked, stretch, exchange, shown, lost>>

-----------------------------------------------------------------------------
Courier(s) == ReadEvent(s) \/ MarkNotified(s) \/ AppendEvent(s)

EventNext ==
    \/ \E s \in Stretches : JobParks(s) \/ ResumeJob(s) \/ Stage(s) \/ Courier(s) \/ Lose(s)
    \/ StoreExchange \/ DropRows

\* The event loop; the wait for the exchange is bounded.
EventFairness == \A s \in Stretches : WF_eventVars(Courier(s))

EventSpec == EventInit /\ [][EventNext]_eventVars /\ EventFairness

-----------------------------------------------------------------------------
(***************************************************************************)
(* "Exact-once pause/budget notices", as far as the code goes: at most     *)
(* once, also when two stretches tell of the same parking and the history  *)
(* is cleared between them.                                                *)
(***************************************************************************)
EventOnce == \A e \in Events : shown[e] <= 1

(***************************************************************************)
(* And at least once, unless its courier fails or dies: the user is told   *)
(* of a job that waits for him, if only by the notice of an older pause    *)
(* that is late and takes the key of this parking.                         *)
(***************************************************************************)
WaitsForUser(e) ==
    event = e /\ (status = "awaiting_confirmation" \/ (status = "paused" /\ key = e))

ParkedIsTold ==
    \A e \in Events : WaitsForUser(e) ~> (shown[e] > 0 \/ e \in lost \/ ~WaitsForUser(e))

(***************************************************************************)
(* A job that awaits a confirmation is told of with its preview.  The code *)
(* does not keep it: the notice of an older pause, sent by another process *)
(* that is late, marks the key of the confirmation and says "paused".      *)
(***************************************************************************)
NoticeFits ==
    \A s \in Stretches :
        /\ stretch[s].pc = "waiting" /\ stretch[s].event = event
        /\ status = "awaiting_confirmation"
        => stretch[s].as = "confirmation"

(***************************************************************************)
(* "A very fast background completion must follow it, rather than racing   *)
(* ahead of it": no notice comes before its exchange.  The code does not   *)
(* keep it when the exchange takes longer than two seconds.                *)
(***************************************************************************)
NoticeFollowsExchange == exchange = "due" => history = {}
=============================================================================
