---------------------------- MODULE MCJobNotices ----------------------------
(***************************************************************************)
(* Small instances of JobNotices for TLC.                                  *)
(***************************************************************************)
EXTENDS JobNotices, TLC

CONSTANTS j1, c1, c2, answer, restart

OneJob      == {j1}
TwoCouriers == {c1, c2}

AllVerdicts  == {answer, Cancelled, TimedOut, restart}
ByUser       == {Cancelled, TimedOut}

Interchangeable == Permutations(Couriers)
=============================================================================
