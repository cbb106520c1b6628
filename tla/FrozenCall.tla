----------------------------- MODULE FrozenCall -----------------------------
(***************************************************************************)
(* What the user is promised of a call that waits for a confirmation: it   *)
(* is put aside once, somebody takes it out at most once, and then it is   *)
(* either run, once, or void.  A call that is void never runs.             *)
(*                                                                         *)
(* Confirmations implements this with two SQLite files and tasks that may  *)
(* die between any two transactions.                                       *)
(***************************************************************************)
CONSTANT Tokens    \* the names under which calls are put aside

VARIABLE fate      \* fate[k]: what has become of the call k

Fates == {"absent", "frozen", "taken", "ran", "void"}

Becomes(k, from, to) ==
    /\ fate[k] = from
    /\ fate' = [fate EXCEPT ![k] = to]

FrozenInit == fate = [k \in Tokens |-> "absent"]

FrozenNext ==
    \/ \E k \in Tokens :
        \/ Becomes(k, "absent", "frozen")
        \/ Becomes(k, "frozen", "taken")
        \/ Becomes(k, "taken", "ran")
        \/ Becomes(k, "taken", "void")
    \* Time runs out for several calls at once.
    \/ \E K \in SUBSET Tokens :
        /\ \A k \in K : fate[k] = "frozen"
        /\ fate' = [k \in Tokens |-> IF k \in K THEN "void" ELSE fate[k]]

FrozenSpec == FrozenInit /\ [][FrozenNext]_fate
=============================================================================
