------------------------- MODULE UpdateHelper_proofs -------------------------
(***************************************************************************)
(* Proofs about UpdateHelper, for any number of operations.                *)
(***************************************************************************)
EXTENDS UpdateHelper, TLAPS

HelperInv == HelperTypeOK /\ RunningHasWorker

LEMMA HelperInitInv == HelperInit => HelperInv
<1> SUFFICES ASSUME HelperInit PROVE HelperInv
  OBVIOUS
<1>1. /\ file \in [running : BOOLEAN, status : {"idle", "running", "ok", "error"}, failed : BOOLEAN]
      /\ file.running = FALSE /\ file.status = "idle"
  BY DEF HelperInit
<1>2. operation \in [Operations -> Phases] /\ reconciling \in BOOLEAN /\ alive = TRUE
  BY DEF HelperInit, Phases
<1> QED
  BY <1>1, <1>2 DEF HelperInv, HelperTypeOK, RunningHasWorker

(***************************************************************************)
(* What a step may make of the file: what a live thread has begun, or      *)
(* something that does not run.                                            *)
(***************************************************************************)
FileType == [running : BOOLEAN, status : {"idle", "running", "ok", "error"}, failed : BOOLEAN]

LEMMA HelperFiles ==
    /\ \A ok \in BOOLEAN : file \in FileType =>
         /\ Ended(ok) \in FileType /\ Ended(ok).running = FALSE
         /\ Ended(ok).status \in {"ok", "error"}
         /\ Ended(ok).status = "error" => Ended(ok).failed
    /\ HelperTypeOK =>
         /\ Normalized \in FileType /\ Normalized.running = FALSE
         /\ Normalized.status = "error" => Normalized.failed
BY DEF Ended, Normalized, FileType, HelperTypeOK

LEMMA HelperWorkInv ==
    ASSUME HelperInv, NEW o \in Operations, Accept(o) \/ Work(o)
    PROVE  HelperInv'
<1> USE DEF HelperInv, HelperTypeOK, RunningHasWorker, Phases, Phase, Working
<1>1. CASE Accept(o)
  BY <1>1 DEF Accept
<1>2. CASE Begin(o)
  <2>1. /\ file' \in FileType
        /\ file'.running = TRUE /\ file'.status = "running"
    BY <1>2 DEF Begin, FileType
  <2>2. /\ operation' \in [Operations -> Phases] /\ operation'[o] = "updating"
        /\ alive /\ UNCHANGED <<reconciling, alive>>
    BY <1>2 DEF Begin
  <2> QED
    BY <2>1, <2>2 DEF FileType
<1>3. CASE Repair(o)
  BY <1>3 DEF Repair
<1>4. CASE Check(o)
  BY <1>4 DEF Check
<1>5. ASSUME NEW ok \in BOOLEAN, EndOperation(o, ok)
      PROVE  HelperInv'
  <2>1. /\ file' \in FileType /\ file'.running = FALSE
        /\ file'.status # "running" /\ (file'.status = "error" => file'.failed)
    BY <1>5, HelperFiles DEF EndOperation, FileType
  <2>2. /\ operation' \in [Operations -> Phases]
        /\ alive /\ UNCHANGED <<reconciling, alive>>
    BY <1>5 DEF EndOperation
  <2> QED
    BY <2>1, <2>2 DEF FileType
<1> QED
  BY <1>1, <1>2, <1>3, <1>4, <1>5 DEF Work, FinishOperation

LEMMA HelperStepInv == HelperInv /\ [HelperNext]_helperVars => HelperInv'
<1> SUFFICES ASSUME HelperInv, [HelperNext]_helperVars
             PROVE  HelperInv'
  OBVIOUS
<1>1. ASSUME NEW o \in Operations, Accept(o) \/ Work(o)
      PROVE  HelperInv'
  BY <1>1, HelperWorkInv
<1>2. CASE FindFailure \/ StillFailed
  BY <1>2 DEF FindFailure, StillFailed, HelperInv, HelperTypeOK, RunningHasWorker, Working
<1>3. CASE Recover
  <2>1. file' \in FileType /\ file'.running = FALSE /\ file'.status = "ok"
    BY <1>3 DEF Recover, FileType
  <2> QED
    BY <1>3, <2>1 DEF Recover, FileType, HelperInv, HelperTypeOK, RunningHasWorker
<1>4. CASE HelperDies
  BY <1>4 DEF HelperDies, HelperInv, HelperTypeOK, RunningHasWorker, Phases
<1>5. CASE HelperStarts
  <2>1. /\ file' \in FileType /\ file'.running = FALSE
        /\ file'.status = "error" => file'.failed
    BY <1>5, HelperFiles DEF HelperStarts, HelperInv
  <2>2. UNCHANGED <<operation, reconciling>> /\ alive' = TRUE
    BY <1>5 DEF HelperStarts
  <2> QED
    BY <2>1, <2>2 DEF FileType, HelperInv, HelperTypeOK, RunningHasWorker
<1>6. CASE UNCHANGED helperVars
  BY <1>6 DEF helperVars, HelperInv, HelperTypeOK, RunningHasWorker, Working
<1> QED
  BY <1>1, <1>2, <1>3, <1>4, <1>5, <1>6 DEF HelperNext

(***************************************************************************)
(* Whenever the state file refuses further operations, a thread is at work *)
(* that will end that, however many were let in and whatever a status      *)
(* request or a restart wrote in between.                                  *)
(***************************************************************************)
THEOREM RunningIsTrue == HelperSpec => []RunningHasWorker
<1>1. HelperInv => RunningHasWorker
  BY DEF HelperInv
<1> QED
  BY HelperInitInv, HelperStepInv, <1>1, PTL DEF HelperSpec

\* The state of the helper stays in its types, and a dead one has no threads.
THEOREM HelperTypesHold == HelperSpec => []HelperTypeOK
<1>1. HelperInv => HelperTypeOK
  BY DEF HelperInv
<1> QED
  BY HelperInitInv, HelperStepInv, <1>1, PTL DEF HelperSpec
=============================================================================
