---------------------------- MODULE MCServices ----------------------------
(***************************************************************************)
(* Small instances, for TLC, of four parts of the system that share no     *)
(* state and do not call each other here: the turn of the native agent,    *)
(* confirmations, notices of parked jobs, and the update helper.           *)
(* Interleaving them would only multiply their states: one of them moves   *)
(* in a behaviour, the others stay where they start.                       *)
(***************************************************************************)
EXTENDS NativeTurn, Confirmations, EventNotices, UpdateHelper

CONSTANTS k1, k2, d1, d2, s1, s2, o1, o2, o3

TwoTokens       == {k1, k2}
TwoDeciders     == {d1, d2}
TwoStretches    == {s1, s2}
ThreeOperations == {o1, o2, o3}

VARIABLE focus  \* the part that moves

ServicesInit ==
    /\ focus \in {"turn", "confirmations", "events", "helper"}
    /\ TurnInit /\ ConfInit /\ EventInit /\ HelperInit
    \* The stretches are interchangeable.
    /\ stretch[s1].pc = "working"

ServicesNext ==
    /\ UNCHANGED focus
    /\ \/ focus = "turn" /\ TurnNext /\ UNCHANGED <<confVars, eventVars, helperVars>>
       \/ focus = "confirmations" /\ ConfNext /\ UNCHANGED <<turnVars, eventVars, helperVars>>
       \/ focus = "events" /\ EventNext /\ UNCHANGED <<turnVars, confVars, helperVars>>
       \/ focus = "helper" /\ HelperNext /\ UNCHANGED <<turnVars, confVars, eventVars>>

\* A turn can go on where it starts, the others have no fair action there.
ServicesSpec ==
    /\ ServicesInit
    /\ [][ServicesNext]_<<turnVars, confVars, eventVars, helperVars, focus>>
    /\ WF_turnVars(focus = "turn" /\ LoopStep)
    /\ EventFairness /\ HelperFairness
=============================================================================
