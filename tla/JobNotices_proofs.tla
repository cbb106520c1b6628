-------------------------- MODULE JobNotices_proofs --------------------------
(***************************************************************************)
(* Proofs about JobNotices, for any numbers of jobs and couriers and any   *)
(* length of the history.                                                  *)
(*                                                                         *)
(* The inductive invariant is proved part by part: the types; no two rows  *)
(* of the history with the same notice; what the outbox and the couriers   *)
(* know about the history; and what a running agent implies for its job.   *)
(***************************************************************************)
EXTENDS JobNotices, FiniteSetTheorems, TLAPS

-----------------------------------------------------------------------------
(***************************************************************************)
(* The history.                                                            *)
(***************************************************************************)

\* An append keeps the last rows in order and puts the new one at the end.
LEMMA AppendKeepsOrder ==
    ASSUME NEW rows \in Seq(Entry), NEW entry \in Entry, HistoryCap \in Nat \ {0},
           Len(rows) <= HistoryCap
    PROVE  LET kept == Remembered(rows, entry) IN
           /\ kept \in Seq(Entry)
           /\ Len(kept) <= HistoryCap
           /\ \E lost \in Nat :
                /\ lost + Len(kept) = Len(rows) + 1
                /\ \A i \in 1..Len(kept) :
                       kept[i] = IF i < Len(kept) THEN rows[i + lost] ELSE entry
<1> DEFINE all == Append(rows, entry)
<1>1. all \in Seq(Entry) /\ Len(all) = Len(rows) + 1
      /\ \A i \in 1..Len(all) : all[i] = IF i < Len(all) THEN rows[i] ELSE entry
  OBVIOUS
<1>2. CASE Len(all) <= HistoryCap
  <2>1. Remembered(rows, entry) = all
    BY <1>2 DEF Remembered
  <2>2. \A i \in 1..Len(all) : all[i] = IF i < Len(all) THEN rows[i + 0] ELSE entry
    BY <1>1
  <2> QED BY <1>1, <1>2, <2>1, <2>2
<1>3. CASE ~(Len(all) <= HistoryCap)
  <2> DEFINE kept == SubSeq(all, Len(all) - HistoryCap + 1, Len(all))
  <2>1. Len(all) = HistoryCap + 1
    BY <1>1, <1>3
  <2>2. kept = SubSeq(all, 2, HistoryCap + 1)
    BY <2>1
  <2>3. kept \in Seq(Entry) /\ Len(kept) = HistoryCap
        /\ \A i \in 1..HistoryCap : kept[i] = all[i + 1]
    BY <1>1, <2>1, <2>2
  <2>4. Remembered(rows, entry) = kept
    BY <1>3 DEF Remembered
  <2>5. 1 + Len(kept) = Len(rows) + 1
    BY <1>1, <2>1, <2>3
  <2>6. \A i \in 1..Len(kept) : kept[i] = IF i < Len(kept) THEN rows[i + 1] ELSE entry
    BY <1>1, <2>1, <2>3
  <2> HIDE DEF kept
  <2> QED BY <2>3, <2>4, <2>5, <2>6
<1> QED BY <1>2, <1>3

Unique(rows) ==
    \A i, k \in 1..Len(rows) : rows[i].of \in Jobs /\ rows[i].of = rows[k].of => i = k

\* An append brings no other notice than the new one, and no second copy of it
\* if it was not there.
LEMMA AppendKeepsUnique ==
    ASSUME NEW rows \in Seq(Entry), NEW entry \in Entry, HistoryCap \in Nat \ {0},
           Len(rows) <= HistoryCap
    PROVE  /\ \A j \in Jobs : HasNotice(Remembered(rows, entry), j)
                              => HasNotice(rows, j) \/ j = entry.of
           /\ Unique(rows) /\ (entry.of \in Jobs => ~HasNotice(rows, entry.of))
              => Unique(Remembered(rows, entry))
<1> DEFINE kept == Remembered(rows, entry)
<1>1. /\ kept \in Seq(Entry)
      /\ \E lost \in Nat :
           /\ lost + Len(kept) = Len(rows) + 1
           /\ \A i \in 1..Len(kept) :
                  kept[i] = IF i < Len(kept) THEN rows[i + lost] ELSE entry
  BY AppendKeepsOrder
<1> HIDE DEF kept
<1>2. PICK lost \in Nat :
           /\ lost + Len(kept) = Len(rows) + 1
           /\ \A i \in 1..Len(kept) :
                  kept[i] = IF i < Len(kept) THEN rows[i + lost] ELSE entry
  BY <1>1
<1>3. Len(kept) \in Nat /\ Len(rows) \in Nat
  BY <1>1
<1>4. \A i \in 1..Len(kept) : i < Len(kept) => i + lost \in 1..Len(rows)
  BY <1>2, <1>3
<1>5. \A j \in Jobs : HasNotice(kept, j) => HasNotice(rows, j) \/ j = entry.of
  BY <1>2, <1>3, <1>4 DEF HasNotice
<1>6. ASSUME Unique(rows), entry.of \in Jobs => ~HasNotice(rows, entry.of)
      PROVE  Unique(kept)
  <2> SUFFICES ASSUME NEW i \in 1..Len(kept), NEW k \in 1..Len(kept),
                      kept[i].of \in Jobs, kept[i].of = kept[k].of
               PROVE  i = k
    BY DEF Unique
  <2>1. CASE i < Len(kept) /\ k < Len(kept)
    <3>1. kept[i] = rows[i + lost] /\ kept[k] = rows[k + lost]
      BY <1>2, <2>1
    <3>2. i + lost = k + lost
      BY <1>4, <1>6, <2>1, <3>1 DEF Unique
    <3> QED BY <3>2
  <2>2. CASE i < Len(kept) /\ ~(k < Len(kept))
    <3>1. kept[i] = rows[i + lost] /\ kept[k] = entry /\ i + lost \in 1..Len(rows)
      BY <1>2, <1>4, <2>2
    <3>2. HasNotice(rows, entry.of)
      BY <3>1 DEF HasNotice
    <3> QED BY <1>6, <3>1, <3>2
  <2>3. CASE ~(i < Len(kept)) /\ k < Len(kept)
    <3>1. kept[k] = rows[k + lost] /\ kept[i] = entry /\ k + lost \in 1..Len(rows)
      BY <1>2, <1>4, <2>3
    <3>2. HasNotice(rows, entry.of)
      BY <3>1 DEF HasNotice
    <3> QED BY <1>6, <3>1, <3>2
  <2>4. CASE ~(i < Len(kept)) /\ ~(k < Len(kept))
    BY <1>3, <2>4
  <2> QED BY <2>1, <2>2, <2>3, <2>4
<1> QED BY <1>5, <1>6 DEF kept

\* A history without duplicates has each notice at most once.
LEMMA UniqueIsOnce ==
    ASSUME Unique(history)
    PROVE  ShownOnce
<1> SUFFICES ASSUME NEW j \in Jobs
             PROVE  Cardinality({i \in 1..Len(history) : history[i].of = j}) <= 1
  BY DEF ShownOnce
<1> DEFINE places == {i \in 1..Len(history) : history[i].of = j}
<1>1. CASE places = {}
  BY <1>1, FS_EmptySet
<1>2. CASE places # {}
  <2>1. PICK i \in places : TRUE
    BY <1>2
  <2>2. places = {i}
    BY <2>1 DEF Unique
  <2>3. Cardinality({i}) = 1
    BY FS_Singleton
  <2> HIDE DEF places
  <2>4. Cardinality(places) <= 1
    BY <2>2, <2>3
  <2> QED BY <2>4 DEF places
<1> QED BY <1>1, <1>2

-----------------------------------------------------------------------------
(***************************************************************************)
(* The outbox: what the UPDATEs of one notice do.                          *)
(***************************************************************************)
LEMMA NoticeUpdates ==
    ASSUME NEW n \in Notice, NEW exists \in BOOLEAN, NEW tells \in Tells
    PROVE  /\ {NoNotice, Due(n), WithPayload(n, exists, tells), Delivered(n), Failed(n)}
                  \subseteq Notice
           /\ n.state # "none" => Reserved(n) \in Notice
           /\ [n EXCEPT !.leased = FALSE] \in Notice
<1>1. NoNotice \in Notice
  BY DEF Notice, NoNotice, Tells
<1>2. Due(n) \in Notice /\ WithPayload(n, exists, tells) \in Notice
  BY DEF Notice, Due, WithPayload
<1>3. Delivered(n) \in Notice /\ Failed(n) \in Notice
  BY DEF Notice, Delivered, Failed
<1>4. Reserved(n) \in Notice /\ [n EXCEPT !.leased = FALSE] \in Notice
  BY DEF Notice, Reserved
<1> QED BY <1>1, <1>2, <1>3, <1>4

\* Once there is a notice, only a deletion takes it away.
LEMMA NoticeStays ==
    ASSUME NEW n \in Notice, NEW exists, NEW tells
    PROVE  /\ Due(n).state # "none"
           /\ n.state # "none" =>
                  /\ WithPayload(n, exists, tells).state # "none"
                  /\ Delivered(n).state # "none"
                  /\ Failed(n).state # "none"
                  /\ Reserved(n).state # "none"
BY DEF Notice, Due, WithPayload, Delivered, Failed, Reserved

\* Only mark_notice_delivered makes a notice count as delivered.
LEMMA DeliveredByMark ==
    ASSUME NEW n \in Notice, NEW exists, NEW tells
    PROVE  /\ NoNotice.state # "delivered"
           /\ Due(n).state = "delivered" => n.state = "delivered"
           /\ WithPayload(n, exists, tells).state = "delivered" => n.state = "delivered"
           /\ Failed(n).state = "delivered" => n.state = "delivered"
           /\ Reserved(n).state # "delivered"
BY DEF Notice, NoNotice, Due, WithPayload, Failed, Reserved

-----------------------------------------------------------------------------
(***************************************************************************)
(* The invariant.                                                          *)
(***************************************************************************)

\* The ghost counts what the history shows and what couriers have seen there.
ShownInv ==
    /\ \A j \in Jobs : HasNotice(history, j) => shown[j] > 0
    /\ \A c \in Couriers : courier[c].pc = "marking" => shown[courier[c].job] > 0
    /\ DeliveredWasShown

\* An agent runs for a job that is being worked on, was deleted, or was taken
\* for interrupted.
AgentFits(l) ==
    \/ l.phase \in {"working", "gone"}
    \/ l.phase = "over" /\ l.verdict = Guess

AgentInv == \A j \in agent : AgentFits(life[j])

IInv == TypeOK /\ Unique(history) /\ ShownInv /\ VerdictHasNotice /\ AgentInv

-----------------------------------------------------------------------------
(***************************************************************************)
(* Types.                                                                  *)
(***************************************************************************)
LEMMA CourierMoves ==
    ASSUME TypeOK, NEW c \in Couriers
    PROVE  /\ \A pc \in CourierPc : Go(c, pc) => courier' \in [Couriers -> Courier]
           /\ Rest(c) => courier' \in [Couriers -> Courier]
           /\ \A pc \in CourierPc, j \in Jobs, tells \in Tells, saw \in {"working", "waiting"} :
                  Call(c, pc, j, tells, saw) => courier' \in [Couriers -> Courier]
<1> NoVerdict \in Tells /\ "idle" \in CourierPc
  BY DEF Tells, CourierPc
<1>1. courier \in [Couriers -> Courier]
  BY DEF TypeOK
<1>2. ASSUME NEW pc \in CourierPc, Go(c, pc)
      PROVE  courier' \in [Couriers -> Courier]
  BY <1>1, <1>2 DEF Go, Courier
<1>3. ASSUME Rest(c)
      PROVE  courier' \in [Couriers -> Courier]
  BY <1>1, <1>3 DEF Rest, Courier
<1>4. ASSUME NEW pc \in CourierPc, NEW j \in Jobs, NEW tells \in Tells,
             NEW saw \in {"working", "waiting"}, Call(c, pc, j, tells, saw)
      PROVE  courier' \in [Couriers -> Courier]
  BY <1>1, <1>4 DEF Call, Courier
<1> QED BY <1>2, <1>3, <1>4

LEMMA LifeMoves ==
    ASSUME TypeOK, NEW j \in Jobs
    PROVE  /\ \A phase \in {"working", "waiting"} :
                  life[j].phase # "over" /\ SetPhase(j, phase) => LifeOK'
           /\ \A verdict \in Verdicts :
                  Conclude(j, verdict) => LifeOK' /\ notice' \in [Jobs -> Notice]
<1>1. life \in [Jobs -> Open \cup Over] /\ notice \in [Jobs -> Notice]
  BY DEF TypeOK, LifeOK
<1>2. ASSUME NEW phase \in {"working", "waiting"}, life[j].phase # "over", SetPhase(j, phase)
      PROVE  LifeOK'
  <2>1. life[j] \in Open
    BY <1>1, <1>2 DEF Over
  <2>2. [life[j] EXCEPT !.phase = phase] \in Open
    BY <1>2, <2>1 DEF Open
  <2> QED BY <1>1, <1>2, <2>2 DEF SetPhase, LifeOK
<1>3. ASSUME NEW verdict \in Verdicts, Conclude(j, verdict)
      PROVE  LifeOK' /\ notice' \in [Jobs -> Notice]
  <2>1. [phase |-> "over", verdict |-> verdict] \in Over
    BY <1>3 DEF Over
  <2>2. Due(notice[j]) \in Notice
    BY <1>1 DEF Notice, Due
  <2> QED BY <1>1, <1>3, <2>1, <2>2 DEF Conclude, LifeOK
<1> QED BY <1>2, <1>3

\* The new history after an append, with its type.
LEMMA HistoryGrows ==
    ASSUME TypeOK, NEW entry \in Entry
    PROVE  /\ Remembered(history, entry) \in Seq(Entry)
           /\ Len(Remembered(history, entry)) <= HistoryCap
BY AppendKeepsOrder, NoticeAssumption DEF TypeOK

LEMMA EntriesAreTyped ==
    /\ [of |-> Nobody, tells |-> NoVerdict] \in Entry
    /\ \A j \in Jobs, tells \in Tells : [of |-> j, tells |-> tells] \in Entry
BY DEF Entry, Tells

LEMMA SpecialVerdicts ==
    /\ {Cancelled, TimedOut, Guess} \subseteq Verdicts
    /\ Verdicts \cup {NoVerdict, Unknown} = Tells
    /\ {Cancelled, TimedOut} = UserVerdicts
BY VerdictAssumption, NoticeAssumption DEF Tells

LEMMA TypesStep ==
    ASSUME TypeOK, [Next]_vars
    PROVE  TypeOK'
<1> USE SpecialVerdicts
<1>0. /\ LifeOK /\ agent \subseteq Jobs /\ stale \subseteq Jobs
      /\ notice \in [Jobs -> Notice] /\ courier \in [Couriers -> Courier]
      /\ history \in Seq(Entry) /\ Len(history) <= HistoryCap
      /\ shown \in [Jobs -> 0..MaxShown]
  BY DEF TypeOK
<1>1. ASSUME NEW j \in Jobs, JobStep(j)
      PROVE  TypeOK'
  <2>1. CASE StartJob(j)
    <3>1. LifeOK'
      BY <2>1, LifeMoves DEF StartJob
    <3> QED BY <1>0, <2>1, <3>1 DEF StartJob, TypeOK
  <2>2. CASE Park(j)
    <3>1. LifeOK'
      BY <2>2, LifeMoves DEF Park
    <3> QED BY <1>0, <2>2, <3>1 DEF Park, TypeOK
  <2>3. CASE Continue(j)
    <3>1. LifeOK'
      BY <2>3, LifeMoves DEF Continue
    <3> QED BY <1>0, <2>3, <3>1 DEF Continue, TypeOK
  <2>4. CASE AgentVanishes(j)
    BY <1>0, <2>4 DEF AgentVanishes, TypeOK, LifeOK
  <2>5. CASE AgentWrites(j)
    BY <1>0, <2>5 DEF AgentWrites, TypeOK, LifeOK
  <2>6. CASE LooksStale(j)
    BY <1>0, <2>6 DEF LooksStale, TypeOK, LifeOK
  <2>7. CASE Delete(j)
    <3>1. [phase |-> "gone", verdict |-> NoVerdict] \in Open
      BY DEF Open
    <3>2. LifeOK'
      BY <1>0, <2>7, <3>1 DEF Delete, LifeOK
    <3>3. notice' \in [Jobs -> Notice]
      BY <1>0, <2>7, NoticeUpdates DEF Delete
    <3> QED BY <1>0, <2>7, <3>2, <3>3 DEF Delete, TypeOK
  <2> QED BY <1>1, <2>1, <2>2, <2>3, <2>4, <2>5, <2>6, <2>7 DEF JobStep
<1>2. ASSUME NEW j \in Jobs, LeaseExpires(j)
      PROVE  TypeOK'
  <2>1. notice' \in [Jobs -> Notice]
    BY <1>0, <1>2 DEF LeaseExpires, Notice
  <2> QED BY <1>0, <1>2, <2>1 DEF LeaseExpires, TypeOK, LifeOK
<1>3. ASSUME NEW c \in Couriers, NEW j \in Jobs, CallStep(c, j)
      PROVE  TypeOK'
  <2> {"preparing", "cancelling", "sweeping", "listed"} \subseteq CourierPc
    BY DEF CourierPc
  <2>1. ASSUME NEW verdict \in Verdicts, AgentEnds(c, j, verdict)
        PROVE  TypeOK'
    <3>1. courier' \in [Couriers -> Courier]
      BY <2>1, CourierMoves DEF AgentEnds
    <3>2. LifeOK' /\ notice' \in [Jobs -> Notice]
      <4>1. CASE life[j].phase = "gone"
        BY <1>0, <2>1, <4>1 DEF AgentEnds, LifeOK
      <4>2. CASE life[j].phase # "gone"
        BY <2>1, <4>2, LifeMoves DEF AgentEnds
      <4> QED BY <4>1, <4>2
    <3> QED BY <1>0, <2>1, <3>1, <3>2 DEF AgentEnds, TypeOK
  <2>2. CASE CancelReads(c, j)
    <3>1. courier' \in [Couriers -> Courier]
      BY <2>2, CourierMoves DEF CancelReads
    <3> QED BY <1>0, <2>2, <3>1 DEF CancelReads, TypeOK, LifeOK
  <2>3. CASE SweepReads(c, j)
    <3>1. courier' \in [Couriers -> Courier]
      BY <2>3, CourierMoves DEF SweepReads
    <3> QED BY <1>0, <2>3, <3>1 DEF SweepReads, TypeOK, LifeOK
  <2>4. CASE ParkedTimesOut(c, j)
    <3>1. courier' \in [Couriers -> Courier]
      BY <2>4, CourierMoves DEF ParkedTimesOut
    <3>2. LifeOK' /\ notice' \in [Jobs -> Notice]
      BY <2>4, LifeMoves DEF ParkedTimesOut
    <3> QED BY <1>0, <2>4, <3>1, <3>2 DEF ParkedTimesOut, TypeOK
  <2>5. CASE Reconcile(c, j)
    <3>1. courier' \in [Couriers -> Courier]
      BY <2>5, CourierMoves DEF Reconcile
    <3> QED BY <1>0, <2>5, <3>1 DEF Reconcile, TypeOK, LifeOK
  <2> QED BY <1>3, <2>1, <2>2, <2>3, <2>4, <2>5 DEF CallStep
<1>4. ASSUME NEW c \in Couriers, CourierStep(c) \/ Interrupt(c) \/ Crash(c)
      PROVE  TypeOK'
  <2> DEFINE j == courier[c].job
  <2> {"preparing", "reserving", "appending", "reading", "marking", "failing"} \subseteq CourierPc
    BY DEF CourierPc, Holding
  <2>0. j \in Jobs /\ courier[c].tells \in Tells /\ notice[j] \in Notice
    BY <1>0 DEF Courier
  <2>1. CASE CancelWrites(c)
    <3>1. courier' \in [Couriers -> Courier]
      BY <2>1, CourierMoves DEF CancelWrites
    <3>2. LifeOK' /\ notice' \in [Jobs -> Notice]
      BY <1>0, <2>0, <2>1, LifeMoves DEF CancelWrites, LifeOK
    <3> QED BY <1>0, <2>0, <2>1, <3>1, <3>2 DEF CancelWrites, TypeOK
  <2>2. CASE SweepWrites(c)
    <3>1. courier' \in [Couriers -> Courier]
      BY <2>2, CourierMoves DEF SweepWrites
    <3>2. LifeOK' /\ notice' \in [Jobs -> Notice]
      BY <1>0, <2>0, <2>2, LifeMoves DEF SweepWrites, LifeOK
    <3> QED BY <1>0, <2>0, <2>2, <3>1, <3>2 DEF SweepWrites, TypeOK
  <2>3. CASE ReadRecord(c)
    <3>0. life[j].phase = "over" => life[j].verdict \in Tells
      BY <1>0, <2>0 DEF LifeOK, Open, Over
    <3>1. courier' \in [Couriers -> Courier]
      <4>1. CASE life[j].phase = "gone"
        BY <2>3, <4>1, CourierMoves DEF ReadRecord
      <4>2. CASE life[j].phase # "gone"
        <5> DEFINE tells == IF life[j].phase = "over" THEN life[j].verdict ELSE Unknown
        <5>1. tells \in Tells
          BY <3>0 DEF Tells
        <5>2. Call(c, "preparing", j, tells, "working")
          BY <2>3, <4>2 DEF ReadRecord
        <5> HIDE DEF tells
        <5> QED BY <2>0, <5>1, <5>2, CourierMoves
      <4> QED BY <4>1, <4>2
    <3> QED BY <1>0, <2>3, <3>1 DEF ReadRecord, TypeOK, LifeOK
  <2>4. CASE Prepare(c)
    <3>1. courier' \in [Couriers -> Courier]
      BY <2>4, CourierMoves DEF Prepare
    <3>2. WithPayload(notice[j], life[j].phase # "gone", courier[c].tells) \in Notice
      BY <2>0, NoticeUpdates
    <3>3. notice' \in [Jobs -> Notice]
      BY <1>0, <2>4, <3>2 DEF Prepare
    <3> QED BY <1>0, <2>4, <3>1, <3>3 DEF Prepare, TypeOK, LifeOK
  <2>5. CASE Reserve(c)
    <3>1. CASE Reservable(notice[j])
      <4>1. Reserved(notice[j]) \in Notice
        BY <2>0, <3>1, NoticeUpdates DEF Reservable
      <4>2. notice' \in [Jobs -> Notice]
        BY <1>0, <2>5, <3>1, <4>1 DEF Reserve
      <4> DEFINE tells == IF notice[j].tells = NoVerdict THEN courier[c].tells
                          ELSE notice[j].tells
      <4>3. tells \in Tells
        BY <2>0 DEF Notice
      <4>4. courier' \in [Couriers -> Courier]
        <5>1. courier' = [courier EXCEPT ![c].pc = "appending", ![c].tells = tells]
          BY <2>5, <3>1 DEF Reserve
        <5> HIDE DEF tells
        <5> QED BY <1>0, <4>3, <5>1 DEF Courier
      <4> QED BY <1>0, <2>5, <4>2, <4>4 DEF Reserve, TypeOK, LifeOK
    <3>2. CASE ~Reservable(notice[j])
      <4>1. courier' \in [Couriers -> Courier]
        BY <2>5, <3>2, CourierMoves DEF Reserve
      <4> QED BY <1>0, <2>5, <3>2, <4>1 DEF Reserve, TypeOK, LifeOK
    <3> QED BY <3>1, <3>2
  <2>6. CASE AppendNotice(c)
    <3>1. courier' \in [Couriers -> Courier]
      BY <2>6, CourierMoves DEF AppendNotice
    <3>2. history' \in Seq(Entry) /\ Len(history') <= HistoryCap
      BY <1>0, <2>0, <2>6, HistoryGrows, EntriesAreTyped DEF AppendNotice
    <3>3. shown' \in [Jobs -> 0..MaxShown]
      BY <1>0, <2>0, <2>6, NoticeAssumption DEF AppendNotice
    <3> QED BY <1>0, <2>6, <3>1, <3>2, <3>3 DEF AppendNotice, TypeOK, LifeOK
  <2>7. CASE ReadBack(c)
    <3>1. courier' \in [Couriers -> Courier]
      BY <2>7, CourierMoves DEF ReadBack
    <3> QED BY <1>0, <2>7, <3>1 DEF ReadBack, TypeOK, LifeOK
  <2>8. CASE MarkDelivered(c)
    <3>1. courier' \in [Couriers -> Courier]
      BY <2>8, CourierMoves DEF MarkDelivered
    <3>2. Delivered(notice[j]) \in Notice
      BY <2>0, NoticeUpdates
    <3>3. notice' \in [Jobs -> Notice]
      BY <1>0, <2>8, <3>2 DEF MarkDelivered
    <3> QED BY <1>0, <2>8, <3>1, <3>3 DEF MarkDelivered, TypeOK, LifeOK
  <2>9. CASE Fail(c)
    <3>1. courier' \in [Couriers -> Courier]
      BY <2>9, CourierMoves DEF Fail
    <3>2. Failed(notice[j]) \in Notice
      BY <2>0, NoticeUpdates
    <3>3. notice' \in [Jobs -> Notice]
      BY <1>0, <2>9, <3>2 DEF Fail
    <3> QED BY <1>0, <2>9, <3>1, <3>3 DEF Fail, TypeOK, LifeOK
  <2>10. CASE Interrupt(c)
    <3>1. courier' \in [Couriers -> Courier]
      BY <2>10, CourierMoves DEF Interrupt
    <3> QED BY <1>0, <2>10, <3>1 DEF Interrupt, TypeOK, LifeOK
  <2>11. CASE Crash(c)
    <3>1. courier' \in [Couriers -> Courier]
      BY <2>11, CourierMoves DEF Crash
    <3> QED BY <1>0, <2>11, <3>1 DEF Crash, TypeOK, LifeOK
  <2> QED BY <1>4, <2>1, <2>2, <2>3, <2>4, <2>5, <2>6, <2>7, <2>8, <2>9, <2>10, <2>11
          DEF CourierStep
<1>5. CASE Chat
  <2> DEFINE message == [of |-> Nobody, tells |-> NoVerdict]
  <2> DEFINE asked == Remembered(history, message)
  <2>1. message \in Entry /\ asked \in Seq(Entry) /\ Len(asked) <= HistoryCap
    BY HistoryGrows, EntriesAreTyped
  <2>2. history' = Remembered(asked, message)
    BY <1>5 DEF Chat
  <2> HIDE DEF message, asked
  <2>3. history' \in Seq(Entry) /\ Len(history') <= HistoryCap
    BY <2>1, <2>2, AppendKeepsOrder, NoticeAssumption
  <2> QED BY <1>0, <1>5, <2>3 DEF Chat, TypeOK, LifeOK
<1>6. CASE ClearHistory
  BY <1>0, <1>6, NoticeAssumption DEF ClearHistory, TypeOK, LifeOK
<1>7. CASE UNCHANGED vars
  BY <1>0, <1>7 DEF vars, TypeOK, LifeOK
<1> QED BY <1>1, <1>2, <1>3, <1>4, <1>5, <1>6, <1>7 DEF Next

-----------------------------------------------------------------------------
(***************************************************************************)
(* The history and what is known about it.                                 *)
(***************************************************************************)

\* What a step does to the history: nothing, an append of a notice that was
\* not there, an exchange, or a clear.
LEMMA HistoryStep ==
    ASSUME TypeOK, Unique(history), [Next]_vars
    PROVE  /\ Unique(history')
           /\ \A j \in Jobs : HasNotice(history', j) =>
                  \/ HasNotice(history, j)
                  \/ \E c \in Couriers : AppendNotice(c) /\ ~HasNotice(history, j)
                                         /\ courier[c].job = j
<1>0. /\ history \in Seq(Entry) /\ Len(history) <= HistoryCap /\ HistoryCap \in Nat \ {0}
      /\ courier \in [Couriers -> Courier]
  BY NoticeAssumption DEF TypeOK
<1>1. CASE UNCHANGED history
  BY <1>1
<1>2. ASSUME NEW c \in Couriers, AppendNotice(c), ~HasNotice(history, courier[c].job)
      PROVE  /\ Unique(history')
             /\ \A j \in Jobs : HasNotice(history', j)
                                => HasNotice(history, j) \/ j = courier[c].job
  <2> DEFINE entry == [of |-> courier[c].job, tells |-> courier[c].tells]
  <2>1. entry \in Entry /\ entry.of = courier[c].job
    BY <1>0 DEF Entry, Courier
  <2>2. history' = Remembered(history, entry)
    BY <1>2 DEF AppendNotice
  <2> HIDE DEF entry
  <2> QED BY <1>0, <1>2, <2>1, <2>2, AppendKeepsUnique
<1>3. CASE Chat
  <2> DEFINE message == [of |-> Nobody, tells |-> NoVerdict]
  <2> DEFINE asked == Remembered(history, message)
  <2>1. message \in Entry /\ message.of \notin Jobs
    BY EntriesAreTyped, NoticeAssumption
  <2>2. asked \in Seq(Entry) /\ Len(asked) <= HistoryCap
    BY <2>1, HistoryGrows
  <2>3. history' = Remembered(asked, message)
    BY <1>3 DEF Chat
  <2> HIDE DEF message
  <2>4. Unique(asked) /\ \A j \in Jobs : HasNotice(asked, j) => HasNotice(history, j)
    BY <1>0, <2>1, AppendKeepsUnique
  <2> HIDE DEF asked
  <2>5. /\ Unique(history')
        /\ \A j \in Jobs : HasNotice(history', j) => HasNotice(asked, j)
    BY <1>0, <2>1, <2>2, <2>3, <2>4, AppendKeepsUnique
  <2> QED BY <2>4, <2>5
<1>4. CASE ClearHistory
  <2>1. Len(history') = 0
    BY <1>4 DEF ClearHistory
  <2> QED BY <2>1 DEF Unique, HasNotice
<1>5. ASSUME NEW j \in Jobs, JobStep(j) \/ LeaseExpires(j)
      PROVE  UNCHANGED history
  BY <1>5 DEF JobStep, LeaseExpires, StartJob, Park, Continue, AgentVanishes, AgentWrites,
              LooksStale, Delete
<1>6. ASSUME NEW c \in Couriers, NEW j \in Jobs, CallStep(c, j)
      PROVE  UNCHANGED history
  BY <1>6 DEF CallStep, AgentEnds, CancelReads, SweepReads, ParkedTimesOut, Reconcile
<1>7. ASSUME NEW c \in Couriers, CourierStep(c) \/ Interrupt(c) \/ Crash(c)
      PROVE  UNCHANGED history \/ (AppendNotice(c) /\ ~HasNotice(history, courier[c].job))
  BY <1>7 DEF CourierStep, Interrupt, Crash, CancelWrites, SweepWrites, ReadRecord, Prepare,
              Reserve, AppendNotice, ReadBack, MarkDelivered, Fail
<1>8. CASE UNCHANGED vars
  BY <1>8 DEF vars
<1> QED BY <1>1, <1>2, <1>3, <1>4, <1>5, <1>6, <1>7, <1>8 DEF Next

\* A courier comes to mark a notice only by seeing it in the history.
LEMMA MarkingStep ==
    ASSUME TypeOK, [Next]_vars, NEW d \in Couriers, courier'[d].pc = "marking"
    PROVE  /\ courier'[d].job = courier[d].job
           /\ \/ courier[d].pc = "marking"
              \/ HasNotice(history, courier[d].job)
<1>0. courier \in [Couriers -> Courier]
  BY DEF TypeOK
<1>1. ASSUME NEW j \in Jobs, JobStep(j) \/ LeaseExpires(j)
      PROVE  UNCHANGED courier
  BY <1>1 DEF JobStep, LeaseExpires, StartJob, Park, Continue, AgentVanishes, AgentWrites,
              LooksStale, Delete
<1>2. ASSUME NEW c \in Couriers, NEW j \in Jobs, CallStep(c, j)
      PROVE  c # d /\ UNCHANGED courier[d]
  BY <1>0, <1>2 DEF CallStep, AgentEnds, CancelReads, SweepReads, ParkedTimesOut, Reconcile,
                    Call, Courier
<1>3. ASSUME NEW c \in Couriers, CourierStep(c) \/ Interrupt(c) \/ Crash(c), c # d
      PROVE  UNCHANGED courier[d]
  BY <1>0, <1>3 DEF CourierStep, Interrupt, Crash, CancelWrites, SweepWrites, ReadRecord,
                    Prepare, Reserve, AppendNotice, ReadBack, MarkDelivered, Fail,
                    Go, Rest, Call
<1>4. CASE ReadBack(d)
  BY <1>0, <1>4 DEF ReadBack, Go, Courier
<1>5. ASSUME CourierStep(d) \/ Interrupt(d) \/ Crash(d), ~ReadBack(d)
      PROVE  FALSE
  BY <1>0, <1>5 DEF CourierStep, Interrupt, Crash, CancelWrites, SweepWrites, ReadRecord,
                    Prepare, Reserve, AppendNotice, MarkDelivered, Fail, Go, Rest, Call,
                    Courier
<1>6. CASE Chat \/ ClearHistory \/ UNCHANGED vars
  BY <1>6 DEF Chat, ClearHistory, vars
<1> QED BY <1>1, <1>2, <1>3, <1>4, <1>5, <1>6 DEF Next

\* The ghost counter of a job never goes back, and counts every append.
LEMMA ShownStep ==
    ASSUME TypeOK, [Next]_vars, NEW j \in Jobs
    PROVE  /\ shown[j] > 0 => shown'[j] > 0
           /\ \A c \in Couriers :
                  AppendNotice(c) /\ courier[c].job = j /\ ~HasNotice(history, j)
                  => shown'[j] > 0
<1>0. shown \in [Jobs -> 0..MaxShown] /\ MaxShown \in Nat \ {0}
  BY NoticeAssumption DEF TypeOK
<1>1. ASSUME NEW c \in Couriers, AppendNotice(c)
      PROVE  /\ shown[j] > 0 => shown'[j] > 0
             /\ courier[c].job = j /\ ~HasNotice(history, j) => shown'[j] > 0
  BY <1>0, <1>1 DEF AppendNotice
<1>2. ASSUME NEW k \in Jobs, JobStep(k) \/ LeaseExpires(k)
      PROVE  UNCHANGED shown
  BY <1>2 DEF JobStep, LeaseExpires, StartJob, Park, Continue, AgentVanishes, AgentWrites,
              LooksStale, Delete
<1>3. ASSUME NEW c \in Couriers, NEW k \in Jobs, CallStep(c, k)
      PROVE  UNCHANGED shown
  BY <1>3 DEF CallStep, AgentEnds, CancelReads, SweepReads, ParkedTimesOut, Reconcile
<1>4. ASSUME NEW c \in Couriers, CourierStep(c) \/ Interrupt(c) \/ Crash(c), ~AppendNotice(c)
      PROVE  UNCHANGED shown
  BY <1>4 DEF CourierStep, Interrupt, Crash, CancelWrites, SweepWrites, ReadRecord, Prepare,
              Reserve, ReadBack, MarkDelivered, Fail
<1>5. ASSUME Chat \/ ClearHistory \/ UNCHANGED vars
      PROVE  UNCHANGED shown
  BY <1>5 DEF Chat, ClearHistory, vars
<1> QED BY <1>1, <1>2, <1>3, <1>4, <1>5 DEF Next

\* What a step does to the notice of a job: only a courier about to mark it
\* makes it delivered, and only the deletion of the job takes it away.
LEMMA NoticeStep ==
    ASSUME TypeOK, [Next]_vars, NEW j \in Jobs
    PROVE  /\ notice'[j].state = "delivered" =>
                  \/ notice[j].state = "delivered"
                  \/ \E c \in Couriers : courier[c].pc = "marking" /\ courier[c].job = j
           /\ notice[j].state # "none" => \/ notice'[j].state # "none"
                                          \/ life'[j].phase = "gone"
<1> DEFINE Goal ==
      /\ notice'[j].state = "delivered" =>
             \/ notice[j].state = "delivered"
             \/ \E c \in Couriers : courier[c].pc = "marking" /\ courier[c].job = j
      /\ notice[j].state # "none" => notice'[j].state # "none" \/ life'[j].phase = "gone"
<1> DEFINE Mild ==
      \/ notice'[j] = notice[j] \/ notice'[j] = Due(notice[j])
      \/ \E exists, tells : notice'[j] = WithPayload(notice[j], exists, tells)
      \/ notice'[j] = Failed(notice[j]) \/ notice'[j] = Reserved(notice[j])
      \/ notice'[j] = [notice[j] EXCEPT !.leased = FALSE]
<1>0. /\ notice \in [Jobs -> Notice] /\ courier \in [Couriers -> Courier]
      /\ life \in [Jobs -> Open \cup Over] /\ notice[j] \in Notice
  BY DEF TypeOK, LifeOK
<1>1. ASSUME Mild
      PROVE  Goal
  <2>1. CASE \E exists, tells : notice'[j] = WithPayload(notice[j], exists, tells)
    BY <1>0, <2>1, NoticeStays, DeliveredByMark
  <2>2. CASE notice'[j] = [notice[j] EXCEPT !.leased = FALSE]
    BY <1>0, <2>2 DEF Notice
  <2>3. CASE notice'[j] = Reserved(notice[j])
    BY <1>0, <2>3 DEF Notice, Reserved
  <2> QED BY <1>0, <1>1, <2>1, <2>2, <2>3, NoticeStays, DeliveredByMark
<1>2. ASSUME NEW k \in Jobs, JobStep(k), ~Delete(k)
      PROVE  Mild
  BY <1>2 DEF JobStep, StartJob, Park, Continue, AgentVanishes, AgentWrites, LooksStale
<1>3. ASSUME NEW k \in Jobs, Delete(k)
      PROVE  Goal
  BY <1>0, <1>3, DeliveredByMark DEF Delete
<1>4. ASSUME NEW k \in Jobs, LeaseExpires(k)
      PROVE  Mild
  BY <1>0, <1>4 DEF LeaseExpires
<1>5. ASSUME NEW c \in Couriers, NEW k \in Jobs, CallStep(c, k)
      PROVE  Mild
  BY <1>0, <1>5 DEF CallStep, AgentEnds, CancelReads, SweepReads, ParkedTimesOut, Reconcile,
                    Conclude
<1>6. ASSUME NEW c \in Couriers, MarkDelivered(c)
      PROVE  Goal
  BY <1>0, <1>6 DEF MarkDelivered, Delivered, Notice
<1>7. ASSUME NEW c \in Couriers, Prepare(c)
      PROVE  Mild
  BY <1>0, <1>7 DEF Prepare
<1>8. ASSUME NEW c \in Couriers, CourierStep(c) \/ Interrupt(c) \/ Crash(c),
             ~MarkDelivered(c), ~Prepare(c)
      PROVE  Mild
  BY <1>0, <1>8 DEF CourierStep, Interrupt, Crash, CancelWrites, SweepWrites, ReadRecord,
                    Reserve, AppendNotice, ReadBack, Fail, Conclude
<1>9. ASSUME Chat \/ ClearHistory \/ UNCHANGED vars
      PROVE  Mild
  BY <1>9 DEF Chat, ClearHistory, vars
<1> HIDE DEF Goal, Mild
<1>10. Goal
  BY <1>1, <1>2, <1>3, <1>4, <1>5, <1>6, <1>7, <1>8, <1>9 DEF Next
<1> QED BY <1>10 DEF Goal

-----------------------------------------------------------------------------
(***************************************************************************)
(* The jobs.                                                               *)
(***************************************************************************)

\* What a step does to one job: a step of its life, a notice with its verdict,
\* and an agent that fits.
LifeStepOf(j) ==
    /\ MayBecome(life[j], life'[j])
    /\ life'[j].phase = "over" => life[j].phase = "over" \/ notice'[j].state # "none"
    /\ j \in agent' => AgentFits(life'[j])

LEMMA LifeStep ==
    ASSUME TypeOK, AgentInv, [Next]_vars, NEW j \in Jobs
    PROVE  LifeStepOf(j)
<1>0. /\ life \in [Jobs -> Open \cup Over] /\ notice \in [Jobs -> Notice]
      /\ courier \in [Couriers -> Courier] /\ agent \subseteq Jobs
      /\ \A k \in Jobs : k \in agent => AgentFits(life[k])
  BY DEF TypeOK, LifeOK, AgentInv
<1>1. ASSUME life'[j] = life[j], j \in agent' => j \in agent
      PROVE  LifeStepOf(j)
  BY <1>0, <1>1 DEF LifeStepOf, MayBecome
<1>2. ASSUME NEW k \in Jobs, NEW verdict \in Verdicts, Conclude(k, verdict), k # j
      PROVE  life'[j] = life[j]
  BY <1>0, <1>2 DEF Conclude
<1>3. ASSUME NEW verdict \in Verdicts, Conclude(j, verdict)
      PROVE  /\ life'[j].phase = "over" /\ life'[j].verdict = verdict
             /\ notice'[j].state # "none"
  <2>1. notice'[j] = Due(notice[j])
    BY <1>0, <1>3 DEF Conclude
  <2>2. life'[j] = [phase |-> "over", verdict |-> verdict]
    BY <1>0, <1>3 DEF Conclude
  <2> QED BY <1>0, <2>1, <2>2, NoticeStays
<1>4. ASSUME NEW k \in Jobs, JobStep(k)
      PROVE  LifeStepOf(j)
  <2>1. CASE StartJob(k) \/ Continue(k)
    <3>1. CASE k = j
      <4>1. life'[j].phase = "working"
        BY <1>0, <2>1, <3>1 DEF StartJob, Continue, SetPhase, Open, Over
      <4> QED BY <2>1, <3>1, <4>1 DEF StartJob, Continue, LifeStepOf, MayBecome, AgentFits
    <3>2. CASE k # j
      BY <1>0, <1>1, <2>1, <3>2 DEF StartJob, Continue, SetPhase
    <3> QED BY <3>1, <3>2
  <2>2. CASE Park(k)
    <3>1. CASE k = j
      <4>1. life[j].phase = "working" /\ life'[j].phase = "waiting" /\ j \notin agent'
        BY <1>0, <2>2, <3>1 DEF Park, SetPhase, Open, Over
      <4> QED BY <4>1 DEF LifeStepOf, MayBecome
    <3>2. CASE k # j
      BY <1>0, <1>1, <2>2, <3>2 DEF Park, SetPhase
    <3> QED BY <3>1, <3>2
  <2>3. CASE AgentVanishes(k) \/ AgentWrites(k) \/ LooksStale(k)
    BY <1>1, <2>3 DEF AgentVanishes, AgentWrites, LooksStale
  <2>4. CASE Delete(k)
    <3>1. CASE k = j
      <4>1. life[j].phase = "over" /\ life'[j].phase = "gone"
        BY <1>0, <2>4, <3>1 DEF Delete
      <4> QED BY <4>1 DEF LifeStepOf, MayBecome, AgentFits
    <3>2. CASE k # j
      BY <1>0, <1>1, <2>4, <3>2 DEF Delete
    <3> QED BY <3>1, <3>2
  <2> QED BY <1>4, <2>1, <2>2, <2>3, <2>4 DEF JobStep
<1>5. ASSUME NEW k \in Jobs, LeaseExpires(k)
      PROVE  LifeStepOf(j)
  BY <1>1, <1>5 DEF LeaseExpires
<1>6. ASSUME NEW c \in Couriers, NEW k \in Jobs, CallStep(c, k)
      PROVE  LifeStepOf(j)
  <2>1. ASSUME NEW verdict \in Verdicts, AgentEnds(c, k, verdict)
        PROVE  LifeStepOf(j)
    <3>1. CASE life[k].phase = "gone" \/ k # j
      BY <1>1, <1>2, <2>1, <3>1 DEF AgentEnds
    <3>2. CASE life[k].phase # "gone" /\ k = j
      <4>1. Conclude(j, verdict) /\ j \in agent /\ j \notin agent'
        BY <2>1, <3>2 DEF AgentEnds
      <4>2. life[j].phase = "working" \/ (life[j].phase = "over" /\ life[j].verdict = Guess)
        BY <1>0, <3>2, <4>1 DEF AgentFits
      <4> QED BY <1>3, <4>1, <4>2 DEF LifeStepOf, MayBecome
    <3> QED BY <3>1, <3>2
  <2>2. CASE CancelReads(c, k) \/ SweepReads(c, k) \/ Reconcile(c, k)
    BY <1>1, <2>2 DEF CancelReads, SweepReads, Reconcile
  <2>3. CASE ParkedTimesOut(c, k)
    <3>1. CASE k = j
      <4>1. Conclude(j, TimedOut) /\ life[j].phase = "waiting" /\ agent' = agent
        BY <2>3, <3>1 DEF ParkedTimesOut
      <4>2. j \notin agent
        BY <1>0, <4>1 DEF AgentFits
      <4> QED BY <1>3, <4>1, <4>2, SpecialVerdicts DEF LifeStepOf, MayBecome
    <3>2. CASE k # j
      BY <1>1, <1>2, <2>3, <3>2, SpecialVerdicts DEF ParkedTimesOut
    <3> QED BY <3>1, <3>2
  <2> QED BY <1>6, <2>1, <2>2, <2>3 DEF CallStep
<1>7. ASSUME NEW c \in Couriers, CancelWrites(c)
      PROVE  LifeStepOf(j)
  <2> DEFINE k == courier[c].job
  <2>0. k \in Jobs /\ agent' = agent
    BY <1>0, <1>7 DEF Courier, CancelWrites
  <2>1. CASE life[k].phase = "waiting"
    <3>1. Conclude(k, Cancelled)
      BY <1>7, <2>1 DEF CancelWrites
    <3>2. CASE k = j
      <4>1. j \notin agent
        BY <1>0, <2>1, <3>2 DEF AgentFits
      <4> QED BY <1>3, <2>0, <2>1, <3>1, <3>2, <4>1, SpecialVerdicts DEF LifeStepOf, MayBecome
    <3>3. CASE k # j
      BY <1>1, <1>2, <2>0, <3>1, <3>3, SpecialVerdicts
    <3> QED BY <3>2, <3>3
  <2>2. CASE life[k].phase # "waiting"
    BY <1>1, <1>7, <2>2 DEF CancelWrites
  <2> QED BY <2>1, <2>2
<1>8. ASSUME NEW c \in Couriers, SweepWrites(c)
      PROVE  LifeStepOf(j)
  <2> DEFINE k == courier[c].job
  <2>0. k \in Jobs /\ agent' = agent
    BY <1>0, <1>8 DEF Courier, SweepWrites
  <2>1. CASE StillStale(k)
    <3>1. Conclude(k, Guess) /\ life[k].phase = "working"
      BY <1>8, <2>1 DEF SweepWrites, StillStale
    <3>2. CASE k = j
      BY <1>3, <3>1, <3>2, SpecialVerdicts DEF LifeStepOf, MayBecome, AgentFits
    <3>3. CASE k # j
      BY <1>1, <1>2, <2>0, <3>1, <3>3, SpecialVerdicts
    <3> QED BY <3>2, <3>3
  <2>2. CASE ~StillStale(k)
    BY <1>1, <1>8, <2>2 DEF SweepWrites
  <2> QED BY <2>1, <2>2
<1>9. ASSUME NEW c \in Couriers, CourierStep(c) \/ Interrupt(c) \/ Crash(c),
             ~CancelWrites(c), ~SweepWrites(c)
      PROVE  life' = life /\ agent' = agent
  BY <1>9 DEF CourierStep, Interrupt, Crash, ReadRecord, Prepare, Reserve, AppendNotice,
              ReadBack, MarkDelivered, Fail
<1>10. ASSUME Chat \/ ClearHistory \/ UNCHANGED vars
       PROVE  life' = life /\ agent' = agent
  BY <1>10 DEF Chat, ClearHistory, vars
<1> QED BY <1>1, <1>4, <1>5, <1>6, <1>7, <1>8, <1>9, <1>10 DEF Next

-----------------------------------------------------------------------------
(***************************************************************************)
(* The invariant holds.                                                    *)
(***************************************************************************)
LEMMA StepsKeepInvariant ==
    ASSUME IInv, [Next]_vars
    PROVE  IInv'
<1>0. TypeOK /\ Unique(history) /\ ShownInv /\ VerdictHasNotice /\ AgentInv
  BY DEF IInv
<1>1. TypeOK'
  BY <1>0, TypesStep
<1>2. Unique(history')
  BY <1>0, HistoryStep
<1>3. ShownInv'
  <2>1. ASSUME NEW j \in Jobs, HasNotice(history', j)
        PROVE  shown'[j] > 0
    <3>1. CASE HasNotice(history, j)
      BY <1>0, <3>1, ShownStep DEF ShownInv
    <3>2. CASE ~HasNotice(history, j)
      BY <1>0, <2>1, <3>2, HistoryStep, ShownStep
    <3> QED BY <3>1, <3>2
  <2>2. ASSUME NEW c \in Couriers, courier'[c].pc = "marking"
        PROVE  shown'[courier'[c].job] > 0
    <3>1. courier[c].job \in Jobs
      BY <1>0 DEF TypeOK, Courier
    <3>2. courier'[c].job = courier[c].job
      BY <1>0, <2>2, MarkingStep
    <3>3. courier[c].pc = "marking" \/ HasNotice(history, courier[c].job)
      BY <1>0, <2>2, MarkingStep
    <3>4. shown[courier[c].job] > 0
      BY <1>0, <3>1, <3>3 DEF ShownInv
    <3> QED BY <1>0, <3>1, <3>2, <3>4, ShownStep
  <2>3. ASSUME NEW j \in Jobs, notice'[j].state = "delivered"
        PROVE  shown'[j] > 0
    <3>1. \/ notice[j].state = "delivered"
          \/ \E c \in Couriers : courier[c].pc = "marking" /\ courier[c].job = j
      BY <1>0, <2>3, NoticeStep
    <3>2. shown[j] > 0
      BY <1>0, <3>1 DEF ShownInv, DeliveredWasShown
    <3> QED BY <1>0, <3>2, ShownStep
  <2> QED BY <2>1, <2>2, <2>3 DEF ShownInv, DeliveredWasShown, HasNotice
<1>4. VerdictHasNotice'
  <2> SUFFICES ASSUME NEW j \in Jobs, life'[j].phase = "over"
               PROVE  notice'[j].state # "none"
    BY DEF VerdictHasNotice
  <2>1. CASE life[j].phase = "over"
    <3>1. notice[j].state # "none"
      BY <1>0, <2>1 DEF VerdictHasNotice
    <3> QED BY <1>0, <3>1, NoticeStep
  <2>2. CASE life[j].phase # "over"
    BY <1>0, <2>2, LifeStep DEF LifeStepOf
  <2> QED BY <2>1, <2>2
<1>5. AgentInv'
  <2>1. agent' \subseteq Jobs
    BY <1>1 DEF TypeOK
  <2> QED BY <1>0, <2>1, LifeStep DEF LifeStepOf, AgentInv
<1> QED BY <1>1, <1>2, <1>3, <1>4, <1>5 DEF IInv, Unique

LEMMA InitialInvariant ==
    ASSUME Init
    PROVE  IInv
<1>1. TypeOK
  <2>1. LifeOK
    BY DEF Init, LifeInit, LifeOK, Open
  <2>2. NoNotice \in Notice
    BY DEF NoNotice, Notice, Tells
  <2>3. courier \in [Couriers -> Courier]
    BY DEF Init, Courier, CourierPc, Tells
  <2> QED BY <2>1, <2>2, <2>3, NoticeAssumption DEF Init, TypeOK
<1>2. Unique(history) /\ \A j \in Jobs : ~HasNotice(history, j)
  BY DEF Init, Unique, HasNotice
<1>3. ShownInv
  <2>1. \A c \in Couriers : courier[c].pc # "marking"
    BY DEF Init
  <2>2. \A j \in Jobs : notice[j].state # "delivered"
    BY DEF Init, NoNotice
  <2> QED BY <1>2, <2>1, <2>2 DEF ShownInv, DeliveredWasShown
<1>4. VerdictHasNotice /\ AgentInv
  BY DEF Init, LifeInit, VerdictHasNotice, AgentInv
<1> QED BY <1>1, <1>2, <1>3, <1>4 DEF IInv

\* The inductive invariant: types, no notice twice, what couriers and outbox
\* know about the history, and what a running agent implies for its job.
THEOREM NoticeInvariance == Spec => []IInv
<1>1. Init => IInv
  BY InitialInvariant
<1>2. IInv /\ [Next]_vars => IInv'
  BY StepsKeepInvariant
<1> QED BY <1>1, <1>2, PTL DEF Spec

\* Jobs, outbox, couriers and history keep their types; in particular the
\* history keeps its length.
THEOREM NoticeTypes == Spec => []TypeOK
<1>1. IInv => TypeOK
  BY DEF IInv
<1> QED BY <1>1, NoticeInvariance, PTL

\* However many couriers there are and however long the history is, it shows at
\* most one terminal notice of a job (append_assistant_notice).
THEOREM NoticesShownOnce == Spec => []ShownOnce
<1>1. IInv => ShownOnce
  BY UniqueIsOnce DEF IInv
<1> QED BY <1>1, NoticeInvariance, PTL

\* No notice counts as delivered that the chat never had (mark_notice_delivered
\* after the read-back).
THEOREM NothingForgotten == Spec => []DeliveredWasShown
<1>1. IInv => DeliveredWasShown
  BY DEF IInv, ShownInv
<1> QED BY <1>1, NoticeInvariance, PTL

\* Every way to end a job leaves a notice in the outbox.
THEOREM VerdictsAreDue == Spec => []VerdictHasNotice
<1>1. IInv => VerdictHasNotice
  BY DEF IInv
<1> QED BY <1>1, NoticeInvariance, PTL

\* The jobs of JobNotices live the lives of JobLifecycle: initial states map to
\* initial states, and every step to a step or a stutter.
THEOREM NoticesKeepLifecycle == Spec => Lifecycle
<1>1. Init => LifeInit
  BY DEF Init
<1>2. IInv /\ IInv' /\ [Next]_vars => [LifeNext]_life
  <2> SUFFICES ASSUME IInv, IInv', [Next]_vars
               PROVE  LifeNext
    OBVIOUS
  <2>1. \A j \in Jobs : MayBecome(life[j], life'[j])
    BY LifeStep DEF IInv, LifeStepOf
  <2>2. life' \in [Jobs -> Open \cup Over]
    BY DEF IInv, TypeOK, LifeOK
  <2> QED BY <2>1, <2>2 DEF LifeNext
<1> QED BY <1>1, <1>2, NoticeInvariance, PTL DEF Spec, Lifecycle, LifeSpec

-----------------------------------------------------------------------------
(***************************************************************************)
(* Deliveries within their lease: a notice is in the hands of one courier. *)
(***************************************************************************)
Holds(c, j) == courier[c].pc \in Holding /\ courier[c].job = j

\* What a courier relies on: its lease, or that the notice went with its job.
Held(j) ==
    \/ notice[j].state = "delivering" /\ notice[j].leased
    \/ notice[j].state = "none" /\ life[j].phase = "gone"

HolderInv ==
    /\ \A c \in Couriers, j \in Jobs : Holds(c, j) => Held(j)
    /\ \A c, d \in Couriers, j \in Jobs : Holds(c, j) /\ Holds(d, j) => c = d

\* A courier gets hold of a notice only by reserving it.
LEMMA HoldingStep ==
    ASSUME TypeOK, [Next]_vars, NEW d \in Couriers, NEW j \in Jobs, Holds(d, j)'
    PROVE  Holds(d, j) \/ (Reserve(d) /\ courier[d].job = j /\ Reservable(notice[j]))
<1>0. courier \in [Couriers -> Courier] /\ courier'[d].pc \in Holding /\ courier'[d].job = j
  BY DEF TypeOK, Holds
<1>1. ASSUME UNCHANGED courier[d]
      PROVE  Holds(d, j)
  BY <1>0, <1>1 DEF Holds
<1>2. ASSUME NEW k \in Jobs, JobStep(k) \/ LeaseExpires(k)
      PROVE  UNCHANGED courier[d]
  BY <1>2 DEF JobStep, LeaseExpires, StartJob, Park, Continue, AgentVanishes, AgentWrites,
              LooksStale, Delete
<1>3. ASSUME NEW c \in Couriers, NEW k \in Jobs, CallStep(c, k)
      PROVE  UNCHANGED courier[d]
  BY <1>0, <1>3 DEF CallStep, AgentEnds, CancelReads, SweepReads, ParkedTimesOut, Reconcile,
                    Call, Courier, Holding
<1>4. ASSUME NEW c \in Couriers, CourierStep(c) \/ Interrupt(c) \/ Crash(c), c # d
      PROVE  UNCHANGED courier[d]
  BY <1>0, <1>4 DEF CourierStep, Interrupt, Crash, CancelWrites, SweepWrites, ReadRecord,
                    Prepare, Reserve, AppendNotice, ReadBack, MarkDelivered, Fail,
                    Go, Rest, Call
<1>5. CASE AppendNotice(d) \/ ReadBack(d) \/ Interrupt(d)
  BY <1>0, <1>5 DEF AppendNotice, ReadBack, Interrupt, Go, Courier, Holds, Holding
<1>6. CASE Reserve(d)
  BY <1>0, <1>6 DEF Reserve, Rest, Courier, Holding
<1>7. ASSUME CourierStep(d) \/ Crash(d), ~AppendNotice(d), ~ReadBack(d), ~Reserve(d)
      PROVE  FALSE
  BY <1>0, <1>7 DEF CourierStep, Crash, CancelWrites, SweepWrites, ReadRecord, Prepare,
                    MarkDelivered, Fail, Go, Rest, Call, Courier, Holding
<1>8. CASE Chat \/ ClearHistory \/ UNCHANGED vars
  BY <1>1, <1>8 DEF Chat, ClearHistory, vars
<1> QED BY <1>1, <1>2, <1>3, <1>4, <1>5, <1>6, <1>7, <1>8 DEF Next

\* As long as a courier holds a notice, nobody else touches it.
LEMMA HeldStays ==
    ASSUME ~SlowDelivery, TypeOK, AgentInv, HolderInv, [Next]_vars,
           NEW d \in Couriers, NEW j \in Jobs, Holds(d, j), Holds(d, j)'
    PROVE  Held(j)'
<1>0. /\ courier \in [Couriers -> Courier] /\ notice \in [Jobs -> Notice]
      /\ life \in [Jobs -> Open \cup Over] /\ Held(j)
  BY DEF TypeOK, LifeOK, HolderInv
<1>1. life[j].phase = "gone" => life'[j].phase = "gone"
  BY LifeStep DEF LifeStepOf, MayBecome
<1>2. ASSUME notice'[j] = notice[j]
      PROVE  Held(j)'
  BY <1>0, <1>1, <1>2 DEF Held
<1>3. ASSUME NEW k \in Jobs, NEW verdict, life[k].phase # "gone", Conclude(k, verdict)
      PROVE  notice'[j] = notice[j]
  BY <1>0, <1>3 DEF Conclude, Due, Held
<1>4. ASSUME NEW k \in Jobs, JobStep(k)
      PROVE  Held(j)'
  <2>1. CASE Delete(k) /\ k = j
    BY <1>0, <2>1 DEF Delete, NoNotice, Held
  <2>2. CASE ~(Delete(k) /\ k = j)
    BY <1>0, <1>2, <1>4, <2>2 DEF JobStep, StartJob, Park, Continue, AgentVanishes,
                                  AgentWrites, LooksStale, Delete
  <2> QED BY <2>1, <2>2
<1>5. ASSUME NEW k \in Jobs, LeaseExpires(k)
      PROVE  notice'[j] = notice[j]
  BY <1>0, <1>5 DEF LeaseExpires, Holds
<1>6. ASSUME NEW c \in Couriers, NEW k \in Jobs, CallStep(c, k)
      PROVE  notice'[j] = notice[j]
  BY <1>3, <1>6 DEF CallStep, AgentEnds, CancelReads, SweepReads, ParkedTimesOut, Reconcile
<1>7. ASSUME NEW c \in Couriers, CancelWrites(c) \/ SweepWrites(c)
      PROVE  notice'[j] = notice[j]
  <2>1. courier[c].job \in Jobs
    BY <1>0 DEF Courier
  <2> QED BY <1>3, <1>7, <2>1 DEF CancelWrites, SweepWrites, StillStale
<1>8. ASSUME NEW c \in Couriers, Prepare(c)
      PROVE  Held(j)'
  <2> DEFINE k == courier[c].job
  <2>1. life' = life /\ k \in Jobs
        /\ notice' = [notice EXCEPT
                        ![k] = WithPayload(@, life[k].phase # "gone", courier[c].tells)]
    BY <1>0, <1>8 DEF Prepare, Courier
  <2>2. CASE k # j
    BY <1>0, <1>2, <2>1, <2>2
  <2>3. CASE k = j
    <3>1. notice'[j] = WithPayload(notice[j], life[j].phase # "gone", courier[c].tells)
      BY <1>0, <2>1, <2>3
    <3>2. CASE notice[j].state = "none" /\ life[j].phase = "gone"
      BY <1>2, <3>1, <3>2 DEF WithPayload
    <3>3. CASE notice[j].state = "delivering" /\ notice[j].leased
      <4>1. notice'[j] = [notice[j] EXCEPT !.tells = courier[c].tells]
        BY <3>1, <3>3 DEF WithPayload
      <4>2. notice'[j].state = "delivering" /\ notice'[j].leased
        BY <1>0, <3>3, <4>1 DEF Notice
      <4> QED BY <4>2 DEF Held
    <3> QED BY <1>0, <3>2, <3>3 DEF Held
  <2> QED BY <2>2, <2>3
<1>9. ASSUME NEW c \in Couriers, Reserve(c)
      PROVE  notice'[j] = notice[j]
  BY <1>0, <1>9 DEF Reserve, Reservable, Held
<1>10. ASSUME NEW c \in Couriers, MarkDelivered(c) \/ Fail(c)
       PROVE  notice'[j] = notice[j]
  <2>1. courier'[c].pc = "idle" /\ courier[c].job \in Jobs /\ Holds(c, courier[c].job)
    BY <1>0, <1>10 DEF MarkDelivered, Fail, Rest, Courier, Holds, Holding
  <2>2. courier[c].job # j
    BY <2>1 DEF HolderInv, Holds, Holding
  <2> QED BY <1>0, <1>10, <2>2 DEF MarkDelivered, Fail
<1>11. ASSUME NEW c \in Couriers,
              \/ ReadRecord(c) \/ AppendNotice(c) \/ ReadBack(c) \/ Interrupt(c) \/ Crash(c)
       PROVE  notice'[j] = notice[j]
  BY <1>11 DEF ReadRecord, AppendNotice, ReadBack, Interrupt, Crash
<1>12. ASSUME Chat \/ ClearHistory \/ UNCHANGED vars
       PROVE  notice'[j] = notice[j]
  BY <1>12 DEF Chat, ClearHistory, vars
<1> QED BY <1>2, <1>4, <1>5, <1>6, <1>7, <1>8, <1>9, <1>10, <1>11, <1>12
        DEF Next, CourierStep

LEMMA HolderStep ==
    ASSUME ~SlowDelivery, TypeOK, AgentInv, HolderInv, [Next]_vars
    PROVE  HolderInv'
<1>0. courier \in [Couriers -> Courier] /\ notice \in [Jobs -> Notice]
  BY DEF TypeOK
<1>1. ASSUME NEW c \in Couriers, NEW j \in Jobs, Holds(c, j)'
      PROVE  Held(j)'
  <2>1. CASE Holds(c, j)
    BY <1>1, <2>1, HeldStays
  <2>2. CASE Reserve(c) /\ courier[c].job = j /\ Reservable(notice[j])
    <3>1. notice'[j] = Reserved(notice[j])
      BY <1>0, <2>2 DEF Reserve
    <3> QED BY <1>0, <3>1 DEF Reserved, Notice, Held
  <2> QED BY <1>1, <2>1, <2>2, HoldingStep
<1>2. ASSUME NEW c \in Couriers, NEW d \in Couriers, NEW j \in Jobs,
             Holds(c, j)', Holds(d, j)', Reserve(c), courier[c].job = j, Reservable(notice[j])
      PROVE  c = d
  <2>1. ~Held(j)
    BY <1>2 DEF Held, Reservable
  <2>2. ~Holds(d, j)
    BY <2>1 DEF HolderInv
  <2>3. courier[d].pc = "reserving"
    BY <1>2, <2>2, HoldingStep DEF Reserve
  <2>4. CASE c # d
    <3>1. courier'[d] = courier[d]
      BY <1>0, <1>2, <2>4 DEF Reserve
    <3> QED BY <1>2, <2>3, <3>1 DEF Holds, Holding
  <2> QED BY <2>4
<1>3. ASSUME NEW c \in Couriers, NEW d \in Couriers, NEW j \in Jobs,
             Holds(c, j)', Holds(d, j)'
      PROVE  c = d
  <2>1. Holds(c, j) \/ (Reserve(c) /\ courier[c].job = j /\ Reservable(notice[j]))
    BY <1>3, HoldingStep
  <2>2. Holds(d, j) \/ (Reserve(d) /\ courier[d].job = j /\ Reservable(notice[j]))
    BY <1>3, HoldingStep
  <2>3. CASE Holds(c, j) /\ Holds(d, j)
    BY <2>3 DEF HolderInv
  <2> QED BY <1>2, <1>3, <2>1, <2>2, <2>3
<1> QED BY <1>1, <1>3 DEF HolderInv

\* If no delivery outlasts its lease, a delivered notice is never shown again,
\* whoever retries and whether or not the chat was cleared (reserve_notice).
THEOREM DeliveredOnceOnly ==
    ASSUME ~SlowDelivery
    PROVE  Spec => DeliveredStaysQuiet
<1> DEFINE Quiet == \A j \in Jobs : notice[j].state = "delivered" => shown'[j] = shown[j]
<1>1. Init => HolderInv
  BY DEF Init, HolderInv, Holds, Holding
<1>2. IInv /\ HolderInv /\ [Next]_vars => HolderInv'
  BY HolderStep DEF IInv
<1>3. IInv /\ HolderInv /\ [Next]_vars => [Quiet]_vars
  <2> SUFFICES ASSUME IInv, HolderInv, [Next]_vars, NEW j \in Jobs,
                      notice[j].state = "delivered"
               PROVE  shown'[j] = shown[j]
    OBVIOUS
  <2>0. shown \in [Jobs -> 0..MaxShown] /\ courier \in [Couriers -> Courier] /\ ~Held(j)
    BY DEF IInv, TypeOK, Held
  <2>1. ASSUME NEW c \in Couriers, AppendNotice(c)
        PROVE  shown'[j] = shown[j]
    <3>1. courier[c].job # j
      BY <2>0, <2>1 DEF AppendNotice, HolderInv, Holds, Holding
    <3> QED BY <2>0, <2>1, <3>1 DEF AppendNotice
  <2>2. ASSUME NEW k \in Jobs, JobStep(k) \/ LeaseExpires(k)
        PROVE  shown' = shown
    BY <2>2 DEF JobStep, LeaseExpires, StartJob, Park, Continue, AgentVanishes, AgentWrites,
                LooksStale, Delete
  <2>3. ASSUME NEW c \in Couriers, NEW k \in Jobs, CallStep(c, k)
        PROVE  shown' = shown
    BY <2>3 DEF CallStep, AgentEnds, CancelReads, SweepReads, ParkedTimesOut, Reconcile
  <2>4. ASSUME NEW c \in Couriers, CourierStep(c) \/ Interrupt(c) \/ Crash(c),
               ~AppendNotice(c)
        PROVE  shown' = shown
    BY <2>4 DEF CourierStep, Interrupt, Crash, CancelWrites, SweepWrites, ReadRecord,
                Prepare, Reserve, ReadBack, MarkDelivered, Fail
  <2>5. ASSUME Chat \/ ClearHistory \/ UNCHANGED vars
        PROVE  shown' = shown
    BY <2>5 DEF Chat, ClearHistory, vars
  <2> QED BY <2>1, <2>2, <2>3, <2>4, <2>5 DEF Next
<1> QED BY <1>1, <1>2, <1>3, NoticeInvariance, PTL DEF Spec, DeliveredStaysQuiet
-----------------------------------------------------------------------------
(***************************************************************************)
(* When the chat tells the verdict: if nobody acts on an outdated copy of  *)
(* a job.  There are three such copies: the one that                       *)
(* request_agent_job_cancel judges the cancellation by, the list of        *)
(* sweep_stale_agent_jobs, and what an agent believes of its job when the  *)
(* sweep has ended it.                                                     *)
(***************************************************************************)
CallersCurrent ==
    \A c \in Couriers :
        LET l == life[courier[c].job] IN
        /\ CancelWrites(c) => ~(courier[c].saw = "waiting" /\ l.phase = "working")
        /\ SweepWrites(c) => \/ StillStale(courier[c].job) \/ l.phase = "gone"
                             \/ l.phase = "over" /\ l.verdict = Guess

AgentsCurrent ==
    \A c \in Couriers, j \in Jobs, verdict \in Verdicts :
        AgentEnds(c, j, verdict) => life[j].phase # "over"

\* What may be told of a job: nothing before it is over, and then its verdict.
Right(l, tells) == \/ l.phase = "gone"
                   \/ l.phase = "over" /\ tells = l.verdict

RightNotice(n, l) == /\ n = NoNotice \/ l.phase = "over"
                     /\ n.tells = NoVerdict \/ Right(l, n.tells)

Telling == {"preparing", "reserving"} \cup Holding

RightCourier(k) ==
    /\ k.pc \in Telling => Right(life[k.job], k.tells)
    /\ k.pc = "listed" => life[k.job].phase \in {"over", "gone"}
    /\ k.pc = "cancelling" => k.tells = Cancelled
    /\ k.pc = "sweeping" => k.tells = Guess

RightRows(rows) ==
    \A i \in 1..Len(rows) : rows[i].of \in Jobs => Right(life[rows[i].of], rows[i].tells)

TruthInv ==
    /\ \A j \in Jobs : RightNotice(notice[j], life[j])
    /\ \A c \in Couriers : RightCourier(courier[c])
    /\ RightRows(history)

\* What was right to tell of a job stays right.
LEMMA RightStays ==
    ASSUME TypeOK, [Next]_vars, AgentsCurrent, NEW j \in Jobs, life[j].phase \in {"over", "gone"}
    PROVE  /\ life'[j] = life[j] \/ life'[j].phase = "gone"
           /\ \A tells : Right(life[j], tells) => Right(life'[j], tells)
<1>0. life \in [Jobs -> Open \cup Over]
  BY DEF TypeOK, LifeOK
<1>1. ASSUME NEW k \in Jobs, JobStep(k) \/ LeaseExpires(k)
      PROVE  life'[j] = life[j] \/ life'[j].phase = "gone"
  BY <1>0, <1>1 DEF JobStep, LeaseExpires, StartJob, Park, Continue, AgentVanishes, AgentWrites,
                    LooksStale, Delete, SetPhase
<1>2. ASSUME NEW c \in Couriers, NEW k \in Jobs, CallStep(c, k)
      PROVE  life'[j] = life[j] \/ life'[j].phase = "gone"
  <2>1. ASSUME NEW verdict \in Verdicts, AgentEnds(c, k, verdict)
        PROVE  life'[j] = life[j] \/ life'[j].phase = "gone"
    <3>1. life[k].phase # "over"
      BY <2>1 DEF AgentsCurrent
    <3> QED BY <1>0, <2>1, <3>1 DEF AgentEnds, Conclude
  <2>2. CASE ParkedTimesOut(c, k)
    BY <1>0, <2>2 DEF ParkedTimesOut, Conclude
  <2>3. CASE CancelReads(c, k) \/ SweepReads(c, k) \/ Reconcile(c, k)
    BY <2>3 DEF CancelReads, SweepReads, Reconcile
  <2> QED BY <1>2, <2>1, <2>2, <2>3 DEF CallStep
<1>3. ASSUME NEW c \in Couriers, CourierStep(c) \/ Interrupt(c) \/ Crash(c)
      PROVE  life'[j] = life[j] \/ life'[j].phase = "gone"
  BY <1>0, <1>3 DEF CourierStep, Interrupt, Crash, CancelWrites, SweepWrites, ReadRecord, Prepare,
                    Reserve, AppendNotice, ReadBack, MarkDelivered, Fail, Conclude, StillStale
<1>4. CASE Chat \/ ClearHistory \/ UNCHANGED vars
  BY <1>4 DEF Chat, ClearHistory, vars
<1>5. life'[j] = life[j] \/ life'[j].phase = "gone"
  BY <1>1, <1>2, <1>3, <1>4 DEF Next
<1> QED BY <1>5 DEF Right

\* The UPDATEs of a notice by couriers who tell what is right.
LEMMA RightUpdates ==
    ASSUME NEW n \in Notice, NEW l, RightNotice(n, l)
    PROVE  /\ RightNotice(Delivered(n), l) /\ RightNotice(Failed(n), l)
           /\ Reservable(n) => RightNotice(Reserved(n), l) /\ l.phase = "over"
           /\ n.leased => RightNotice([n EXCEPT !.leased = FALSE], l)
           /\ n.state # "none" => l.phase = "over"
           /\ \A tells : Right(l, tells) => RightNotice(WithPayload(n, l.phase # "gone", tells), l)
           /\ l.phase # "over" => n = NoNotice
<1>1. NoNotice.state = "none" /\ NoNotice.tells = NoVerdict /\ NoNotice.leased = FALSE
  BY DEF NoNotice
<1>2. n.state # "none" \/ n.leased => l.phase = "over"
  BY <1>1 DEF RightNotice
<1>3. RightNotice(Delivered(n), l) /\ RightNotice(Failed(n), l)
  BY <1>2 DEF RightNotice, Delivered, Failed, Notice
<1>4. Reservable(n) => RightNotice(Reserved(n), l) /\ l.phase = "over"
  BY <1>2 DEF RightNotice, Reservable, Reserved, Notice
<1>5. n.leased => RightNotice([n EXCEPT !.leased = FALSE], l)
  BY <1>2 DEF RightNotice, Notice
<1>6. ASSUME NEW tells, Right(l, tells)
      PROVE  RightNotice(WithPayload(n, l.phase # "gone", tells), l)
  BY <1>2, <1>6 DEF RightNotice, Right, WithPayload, Notice
<1> QED BY <1>2, <1>3, <1>4, <1>5, <1>6 DEF RightNotice

\* A job that gets its first verdict has no notice yet, and then one that tells
\* nothing so far.
LEMMA RightVerdict ==
    ASSUME TypeOK, TruthInv, NEW k \in Jobs, NEW verdict \in Verdicts, life[k].phase # "over",
           Conclude(k, verdict)
    PROVE  /\ life'[k].phase = "over" /\ life'[k].verdict = verdict
           /\ \A j \in Jobs : RightNotice(notice'[j], life'[j])
<1>0. life \in [Jobs -> Open \cup Over] /\ notice \in [Jobs -> Notice]
  BY DEF TypeOK, LifeOK
<1>1. life'[k] = [phase |-> "over", verdict |-> verdict] /\ notice'[k] = Due(notice[k])
  BY <1>0 DEF Conclude
<1>2. \A j \in Jobs \ {k} : life'[j] = life[j] /\ notice'[j] = notice[j]
  BY <1>0 DEF Conclude
<1>3. notice[k] = NoNotice
  BY DEF TruthInv, RightNotice
<1>4. notice'[k].tells = NoVerdict
  BY <1>1, <1>3 DEF Due, NoNotice
<1>5. RightNotice(notice'[k], life'[k])
  BY <1>1, <1>4 DEF RightNotice
<1> QED BY <1>1, <1>2, <1>5 DEF TruthInv

\* The outbox goes on telling what is right.
LEMMA RightNotices ==
    ASSUME TypeOK, TruthInv, [Next]_vars, CallersCurrent, AgentsCurrent
    PROVE  \A j \in Jobs : RightNotice(notice'[j], life'[j])
<1> DEFINE Goal == \A j \in Jobs : RightNotice(notice'[j], life'[j])
<1>0. /\ life \in [Jobs -> Open \cup Over] /\ notice \in [Jobs -> Notice]
      /\ courier \in [Couriers -> Courier] /\ \A c \in Couriers : courier[c].job \in Jobs
  BY DEF TypeOK, LifeOK, Courier
<1>1. \A j \in Jobs : RightNotice(notice[j], life[j])
  BY DEF TruthInv
<1> HIDE DEF Goal
<1>2. ASSUME UNCHANGED <<life, notice>>
      PROVE  Goal
  BY <1>1, <1>2 DEF Goal
<1>3. ASSUME NEW k \in Jobs, UNCHANGED life, NEW n, notice' = [notice EXCEPT ![k] = n],
             RightNotice(n, life[k])
      PROVE  Goal
  BY <1>0, <1>1, <1>3 DEF Goal
<1>4. ASSUME NEW k \in Jobs, NEW verdict \in Verdicts, life[k].phase # "over", Conclude(k, verdict)
      PROVE  Goal
  BY <1>4, RightVerdict DEF Goal
<1>5. ASSUME NEW k \in Jobs, JobStep(k)
      PROVE  Goal
  <2>1. CASE Delete(k)
    <3>1. RightNotice(NoNotice, [phase |-> "gone", verdict |-> NoVerdict])
      BY DEF RightNotice, NoNotice
    <3> QED BY <1>0, <1>1, <2>1, <3>1 DEF Delete, Goal
  <2>2. CASE StartJob(k) \/ Park(k) \/ Continue(k)
    <3>1. life[k].phase # "over" /\ UNCHANGED notice
      BY <2>2 DEF StartJob, Park, Continue
    <3>2. \A j \in Jobs \ {k} : life'[j] = life[j]
      BY <1>0, <2>2 DEF StartJob, Park, Continue, SetPhase
    <3>3. notice[k] = NoNotice /\ NoNotice.tells = NoVerdict
      BY <1>1, <3>1 DEF RightNotice, NoNotice
    <3>4. RightNotice(NoNotice, life'[k])
      BY <3>3 DEF RightNotice
    <3> QED BY <1>1, <3>1, <3>2, <3>3, <3>4 DEF Goal
  <2>3. CASE AgentVanishes(k) \/ AgentWrites(k) \/ LooksStale(k)
    BY <1>2, <2>3 DEF AgentVanishes, AgentWrites, LooksStale
  <2> QED BY <1>5, <2>1, <2>2, <2>3 DEF JobStep
<1>6. ASSUME NEW k \in Jobs, LeaseExpires(k)
      PROVE  Goal
  <2>1. RightNotice([notice[k] EXCEPT !.leased = FALSE], life[k])
    BY <1>0, <1>1, <1>6, RightUpdates DEF LeaseExpires
  <2>2. notice' = [notice EXCEPT ![k] = [notice[k] EXCEPT !.leased = FALSE]] /\ UNCHANGED life
    BY <1>0, <1>6 DEF LeaseExpires, Notice
  <2> QED BY <1>3, <2>1, <2>2
<1>7. ASSUME NEW c \in Couriers, NEW k \in Jobs, CallStep(c, k)
      PROVE  Goal
  <2>1. ASSUME NEW verdict \in Verdicts, AgentEnds(c, k, verdict)
        PROVE  Goal
    BY <1>2, <1>4, <2>1 DEF AgentEnds, AgentsCurrent
  <2>2. CASE ParkedTimesOut(c, k)
    BY <1>4, <2>2, SpecialVerdicts DEF ParkedTimesOut
  <2>3. CASE CancelReads(c, k) \/ SweepReads(c, k) \/ Reconcile(c, k)
    BY <1>2, <2>3 DEF CancelReads, SweepReads, Reconcile
  <2> QED BY <1>7, <2>1, <2>2, <2>3 DEF CallStep
<1>8. ASSUME NEW c \in Couriers, CourierStep(c) \/ Interrupt(c) \/ Crash(c)
      PROVE  Goal
  <2> DEFINE k == courier[c].job
  <2>0. k \in Jobs /\ notice[k] \in Notice /\ RightNotice(notice[k], life[k])
    BY <1>0, <1>1
  <2>1. CASE CancelWrites(c) \/ SweepWrites(c)
    BY <1>2, <1>4, <2>0, <2>1, SpecialVerdicts DEF CancelWrites, SweepWrites, StillStale
  <2>2. CASE Prepare(c)
    <3>1. Right(life[k], courier[c].tells)
      BY <2>2 DEF Prepare, TruthInv, RightCourier, Telling
    <3>2. RightNotice(WithPayload(notice[k], life[k].phase # "gone", courier[c].tells), life[k])
      BY <2>0, <3>1, RightUpdates
    <3> QED BY <1>3, <2>0, <2>2, <3>2 DEF Prepare
  <2>3. CASE Reserve(c)
    BY <1>2, <1>3, <2>0, <2>3, RightUpdates DEF Reserve
  <2>4. CASE MarkDelivered(c)
    BY <1>3, <2>0, <2>4, RightUpdates DEF MarkDelivered
  <2>5. CASE Fail(c)
    BY <1>3, <2>0, <2>5, RightUpdates DEF Fail
  <2>6. CASE ReadRecord(c) \/ AppendNotice(c) \/ ReadBack(c) \/ Interrupt(c) \/ Crash(c)
    BY <1>2, <2>6 DEF ReadRecord, AppendNotice, ReadBack, Interrupt, Crash
  <2> QED BY <1>8, <2>1, <2>2, <2>3, <2>4, <2>5, <2>6 DEF CourierStep
<1>9. ASSUME Chat \/ ClearHistory \/ UNCHANGED vars
      PROVE  Goal
  <2>1. UNCHANGED <<life, notice>>
    BY <1>9 DEF Chat, ClearHistory, vars
  <2> QED BY <1>2, <2>1
<1>10. Goal
  BY <1>5, <1>6, <1>7, <1>8, <1>9 DEF Next
<1> QED BY <1>10 DEF Goal

\* A courier that moves on while its job stays, and one that is done.
LEMMA RightMoves ==
    ASSUME TypeOK, TruthInv, NEW c \in Couriers
    PROVE  /\ \A pc : /\ Go(c, pc) /\ UNCHANGED life
                      /\ courier[c].pc \in Telling
                      /\ pc \in Telling
                      => RightCourier(courier[c])'
           /\ Rest(c) => RightCourier(courier[c])'
<1>0. courier \in [Couriers -> Courier]
  BY DEF TypeOK
<1>1. ASSUME NEW pc \in Telling, Go(c, pc), UNCHANGED life, courier[c].pc \in Telling
      PROVE  RightCourier(courier[c])'
  <2>1. courier'[c].pc = pc /\ courier'[c].job = courier[c].job
        /\ courier'[c].tells = courier[c].tells
    BY <1>0, <1>1 DEF Go, Courier
  <2>2. Right(life[courier[c].job], courier[c].tells)
    BY <1>1 DEF TruthInv, RightCourier
  <2>3. pc \notin {"listed", "cancelling", "sweeping"}
    BY <1>1 DEF Telling, Holding
  <2> QED BY <1>1, <2>1, <2>2, <2>3 DEF RightCourier
<1>2. ASSUME Rest(c)
      PROVE  RightCourier(courier[c])'
  <2>1. courier'[c].pc = "idle"
    BY <1>0, <1>2 DEF Rest, Courier
  <2>2. "idle" \notin Telling
    BY DEF Telling, Holding
  <2> QED BY <2>1, <2>2 DEF RightCourier
<1> QED BY <1>1, <1>2

\* Every courier goes on telling what is right.
LEMMA RightCouriers ==
    ASSUME TypeOK, TruthInv, [Next]_vars, CallersCurrent, AgentsCurrent
    PROVE  \A d \in Couriers : RightCourier(courier[d])'
<1> DEFINE Goal == \A d \in Couriers : RightCourier(courier[d])'
<1>0. /\ life \in [Jobs -> Open \cup Over] /\ notice \in [Jobs -> Notice]
      /\ courier \in [Couriers -> Courier]
      /\ \A c \in Couriers : courier[c].job \in Jobs /\ RightCourier(courier[c])
      /\ \A j \in Jobs : RightNotice(notice[j], life[j])
  BY DEF TypeOK, LifeOK, Courier, TruthInv
<1>1. ASSUME NEW d \in Couriers, courier'[d] = courier[d]
      PROVE  RightCourier(courier[d])'
  <2> DEFINE k == courier[d].job
  <2>1. RightCourier(courier[d]) /\ k \in Jobs
    BY <1>0
  <2>2. life[k].phase \in {"over", "gone"} =>
            /\ life'[k].phase \in {"over", "gone"}
            /\ Right(life[k], courier[d].tells) => Right(life'[k], courier[d].tells)
    BY <2>1, RightStays
  <2>3. Right(life[k], courier[d].tells) => life[k].phase \in {"over", "gone"}
    BY DEF Right
  <2> QED BY <1>1, <2>1, <2>2, <2>3 DEF RightCourier
<1>2. ASSUME NEW c \in Couriers, \A d \in Couriers \ {c} : courier'[d] = courier[d],
             RightCourier(courier[c])'
      PROVE  Goal
  BY <1>1, <1>2
<1>3. ASSUME UNCHANGED courier
      PROVE  Goal
  BY <1>1, <1>3
<1> HIDE DEF Goal
<1>4. ASSUME NEW c \in Couriers, NEW k \in Jobs, NEW tells, NEW pc, NEW saw,
             Call(c, pc, k, tells, saw),
             \/ pc = "preparing" /\ Right(life'[k], tells)
             \/ pc = "listed" /\ life'[k].phase \in {"over", "gone"}
             \/ pc = "cancelling" /\ tells = Cancelled
             \/ pc = "sweeping" /\ tells = Guess
      PROVE  Goal
  <2>1. /\ courier'[c].pc = pc /\ courier'[c].job = k /\ courier'[c].tells = tells
        /\ \A d \in Couriers \ {c} : courier'[d] = courier[d]
    BY <1>0, <1>4 DEF Call
  <2>2. {"listed", "cancelling", "sweeping"} \cap Telling = {}
    BY DEF Telling, Holding
  <2>3. RightCourier(courier[c])'
    BY <1>4, <2>1, <2>2 DEF RightCourier
  <2> QED BY <1>2, <2>1, <2>3
<1>5. ASSUME NEW c \in Couriers, Rest(c)
      PROVE  Goal
  <2>1. \A d \in Couriers \ {c} : courier'[d] = courier[d]
    BY <1>0, <1>5 DEF Rest
  <2> QED BY <1>2, <1>5, <2>1, RightMoves
<1>6. ASSUME NEW c \in Couriers, NEW pc, Go(c, pc), pc \in Telling, courier[c].pc \in Telling,
             UNCHANGED life
      PROVE  Goal
  <2>1. \A d \in Couriers \ {c} : courier'[d] = courier[d]
    BY <1>0, <1>6 DEF Go
  <2> QED BY <1>2, <1>6, <2>1, RightMoves
<1>7. ASSUME NEW c \in Couriers, NEW k \in Jobs, CallStep(c, k)
      PROVE  Goal
  <2>1. ASSUME NEW verdict \in Verdicts, AgentEnds(c, k, verdict)
        PROVE  Goal
    <3>1. life[k].phase # "over"
      BY <2>1 DEF AgentsCurrent
    <3>2. Right(life'[k], verdict)
      BY <1>0, <2>1, <3>1 DEF AgentEnds, Conclude, Right
    <3> QED BY <1>4, <2>1, <3>2 DEF AgentEnds
  <2>2. CASE ParkedTimesOut(c, k)
    <3>1. Right(life'[k], TimedOut)
      BY <1>0, <2>2 DEF ParkedTimesOut, Conclude, Right
    <3> QED BY <1>4, <2>2, <3>1 DEF ParkedTimesOut
  <2>3. CASE CancelReads(c, k) \/ SweepReads(c, k)
    BY <1>4, <2>3 DEF CancelReads, SweepReads
  <2>4. CASE Reconcile(c, k)
    <3>1. notice[k].state # "none" /\ notice[k] \in Notice /\ RightNotice(notice[k], life[k])
      BY <1>0, <2>4 DEF Reconcile
    <3>2. life[k].phase = "over"
      BY <3>1, RightUpdates
    <3> QED BY <1>4, <2>4, <3>2 DEF Reconcile
  <2> QED BY <1>7, <2>1, <2>2, <2>3, <2>4 DEF CallStep
<1>8. ASSUME NEW c \in Couriers, CancelWrites(c)
      PROVE  Goal
  <2> DEFINE k == courier[c].job
  <2>1. CASE Rest(c)
    BY <1>5, <2>1
  <2>2. CASE life[k].phase = "waiting" /\ Conclude(k, Cancelled) /\ Go(c, "preparing")
    <3>1. Right(life'[k], Cancelled)
      BY <1>0, <2>2 DEF Conclude, Right
    <3>2. /\ courier'[c].pc = "preparing" /\ courier'[c].job = k
          /\ courier'[c].tells = Cancelled
          /\ \A d \in Couriers \ {c} : courier'[d] = courier[d]
      BY <1>0, <1>8, <2>2 DEF CancelWrites, Go, Courier, RightCourier
    <3>3. RightCourier(courier[c])'
      BY <3>1, <3>2 DEF RightCourier
    <3> QED BY <1>2, <3>2, <3>3
  <2> QED BY <1>8, <2>1, <2>2 DEF CancelWrites, CallersCurrent
<1>9. ASSUME NEW c \in Couriers, SweepWrites(c)
      PROVE  Goal
  <2> DEFINE k == courier[c].job
  <2>1. Right(life'[k], Guess)
    <3>1. CASE StillStale(k)
      BY <1>0, <1>9, <3>1 DEF SweepWrites, Conclude, Right
    <3>2. CASE ~StillStale(k)
      BY <1>9, <3>2 DEF SweepWrites, CallersCurrent, Right
    <3> QED BY <3>1, <3>2
  <2>2. /\ courier'[c].pc = "preparing" /\ courier'[c].job = k /\ courier'[c].tells = Guess
        /\ \A d \in Couriers \ {c} : courier'[d] = courier[d]
    BY <1>0, <1>9 DEF SweepWrites, Go, Courier, RightCourier
  <2>3. RightCourier(courier[c])'
    BY <2>1, <2>2 DEF RightCourier
  <2> QED BY <1>2, <2>2, <2>3
<1>10. ASSUME NEW c \in Couriers, ReadRecord(c)
       PROVE  Goal
  <2>1. life[courier[c].job].phase \in {"over", "gone"} /\ courier[c].job \in Jobs
        /\ UNCHANGED life
    BY <1>0, <1>10 DEF ReadRecord, RightCourier
  <2>2. CASE Rest(c)
    BY <1>5, <2>2
  <2>3. CASE /\ life[courier[c].job].phase = "over"
             /\ Call(c, "preparing", courier[c].job, life[courier[c].job].verdict, "working")
    <3>1. Right(life'[courier[c].job], life[courier[c].job].verdict)
      BY <2>1, <2>3 DEF Right
    <3> QED BY <1>4, <2>1, <2>3, <3>1
  <2> QED BY <1>10, <2>1, <2>2, <2>3 DEF ReadRecord
<1>11. ASSUME NEW c \in Couriers, Reserve(c)
       PROVE  Goal
  <2> DEFINE k == courier[c].job
  <2>1. CASE Rest(c)
    BY <1>5, <2>1
  <2>2. CASE courier' = [courier EXCEPT
                           ![c].pc = "appending",
                           ![c].tells = IF notice[k].tells = NoVerdict THEN @ ELSE notice[k].tells]
    <3>1. /\ courier'[c].pc = "appending" /\ courier'[c].job = k
          /\ courier'[c].tells
               = IF notice[k].tells = NoVerdict THEN courier[c].tells ELSE notice[k].tells
          /\ \A d \in Couriers \ {c} : courier'[d] = courier[d]
      BY <1>0, <2>2 DEF Courier
    <3>2. Right(life[k], courier[c].tells) /\ UNCHANGED life
      BY <1>0, <1>11 DEF Reserve, RightCourier, Telling
    <3>3. Right(life'[k], courier'[c].tells)
      BY <1>0, <3>1, <3>2 DEF RightNotice
    <3>4. RightCourier(courier[c])'
      BY <3>1, <3>3 DEF RightCourier
    <3> QED BY <1>2, <3>1, <3>4
  <2> QED BY <1>11, <2>1, <2>2 DEF Reserve
<1>12. ASSUME NEW c \in Couriers, \/ Prepare(c) \/ AppendNotice(c) \/ ReadBack(c) \/ Interrupt(c)
       PROVE  Goal
  <2>1. /\ courier[c].pc \in Telling /\ UNCHANGED life
        /\ \E pc \in Telling : Go(c, pc)
    BY <1>12 DEF Prepare, AppendNotice, ReadBack, Interrupt, Telling, Holding
  <2> QED BY <1>6, <2>1
<1>13. ASSUME NEW c \in Couriers, MarkDelivered(c) \/ Fail(c) \/ Crash(c)
       PROVE  Goal
  BY <1>5, <1>13 DEF MarkDelivered, Fail, Crash
<1>14. ASSUME NEW k \in Jobs, JobStep(k) \/ LeaseExpires(k)
       PROVE  Goal
  <2>1. UNCHANGED courier
    BY <1>14 DEF JobStep, LeaseExpires, StartJob, Park, Continue, AgentVanishes, AgentWrites,
                 LooksStale, Delete
  <2> QED BY <1>3, <2>1
<1>15. ASSUME Chat \/ ClearHistory \/ UNCHANGED vars
       PROVE  Goal
  <2>1. UNCHANGED courier
    BY <1>15 DEF Chat, ClearHistory, vars
  <2> QED BY <1>3, <2>1
<1>16. Goal
  BY <1>7, <1>8, <1>9, <1>10, <1>11, <1>12, <1>13, <1>14, <1>15 DEF Next, CourierStep
<1> QED BY <1>16 DEF Goal

\* The chat goes on showing what is right: an append keeps old rows and adds what
\* its courier tells.
LEMMA RightHistory ==
    ASSUME TypeOK, TruthInv, [Next]_vars, AgentsCurrent
    PROVE  RightRows(history)'
<1>0. /\ history \in Seq(Entry) /\ Len(history) <= HistoryCap /\ HistoryCap \in Nat \ {0}
      /\ courier \in [Couriers -> Courier] /\ RightRows(history)
  BY NoticeAssumption DEF TypeOK, TruthInv
<1> DEFINE Fine(rows) == \A i \in 1..Len(rows) :
                             rows[i].of \in Jobs => Right(life'[rows[i].of], rows[i].tells)
<1>1. Fine(history)
  <2> SUFFICES ASSUME NEW i \in 1..Len(history), history[i].of \in Jobs
               PROVE  Right(life'[history[i].of], history[i].tells)
    OBVIOUS
  <2>1. Right(life[history[i].of], history[i].tells)
    BY <1>0 DEF RightRows
  <2> QED BY <2>1, RightStays DEF Right
<1>2. ASSUME NEW rows \in Seq(Entry), Len(rows) <= HistoryCap, Fine(rows), NEW entry \in Entry,
             entry.of \in Jobs => Right(life'[entry.of], entry.tells)
      PROVE  Fine(Remembered(rows, entry))
  <2> DEFINE kept == Remembered(rows, entry)
  <2>1. /\ kept \in Seq(Entry)
        /\ \E lost \in Nat :
             /\ lost + Len(kept) = Len(rows) + 1
             /\ \A i \in 1..Len(kept) :
                    kept[i] = IF i < Len(kept) THEN rows[i + lost] ELSE entry
    BY <1>0, <1>2, AppendKeepsOrder
  <2> HIDE DEF kept
  <2>2. PICK lost \in Nat :
             /\ lost + Len(kept) = Len(rows) + 1
             /\ \A i \in 1..Len(kept) :
                    kept[i] = IF i < Len(kept) THEN rows[i + lost] ELSE entry
    BY <2>1
  <2>3. ASSUME NEW i \in 1..Len(kept), kept[i].of \in Jobs
        PROVE  Right(life'[kept[i].of], kept[i].tells)
    <3>1. CASE i < Len(kept)
      <4>1. i + lost \in 1..Len(rows) /\ kept[i] = rows[i + lost]
        BY <1>2, <2>1, <2>2, <3>1
      <4> QED BY <1>2, <2>3, <4>1
    <3>2. CASE ~(i < Len(kept))
      BY <1>2, <2>2, <2>3, <3>2
    <3> QED BY <3>1, <3>2
  <2> QED BY <2>3 DEF kept
<1> HIDE DEF Fine
<1>3. ASSUME NEW c \in Couriers, AppendNotice(c)
      PROVE  Fine(history')
  <2>1. CASE UNCHANGED history
    BY <1>1, <2>1
  <2>2. CASE history' = Remembered(history, [of |-> courier[c].job, tells |-> courier[c].tells])
    <3> DEFINE entry == [of |-> courier[c].job, tells |-> courier[c].tells]
    <3>1. entry \in Entry /\ entry.of = courier[c].job /\ entry.tells = courier[c].tells
      BY <1>0 DEF Entry, Courier
    <3>2. Right(life[courier[c].job], courier[c].tells) /\ UNCHANGED life
      BY <1>3 DEF AppendNotice, TruthInv, RightCourier, Telling, Holding
    <3> HIDE DEF entry
    <3>3. Fine(Remembered(history, entry))
      BY <1>0, <1>1, <1>2, <3>1, <3>2
    <3> QED BY <2>2, <3>3 DEF entry
  <2> QED BY <1>3, <2>1, <2>2 DEF AppendNotice
<1>4. ASSUME Chat
      PROVE  Fine(history')
  <2> DEFINE message == [of |-> Nobody, tells |-> NoVerdict]
             asked == Remembered(history, message)
  <2>1. message \in Entry /\ message.of \notin Jobs
    BY EntriesAreTyped, NoticeAssumption
  <2>2. asked \in Seq(Entry) /\ Len(asked) <= HistoryCap
    BY <2>1, HistoryGrows
  <2>3. history' = Remembered(asked, message)
    BY <1>4 DEF Chat
  <2> HIDE DEF message
  <2>4. Fine(asked)
    BY <1>0, <1>1, <1>2, <2>1
  <2> HIDE DEF asked
  <2> QED BY <1>2, <2>1, <2>2, <2>3, <2>4
<1>5. ASSUME ClearHistory
      PROVE  Fine(history')
  <2>1. Len(history') = 0
    BY <1>5 DEF ClearHistory
  <2> QED BY <2>1 DEF Fine
<1>6. ASSUME UNCHANGED history
      PROVE  Fine(history')
  BY <1>1, <1>6
<1>7. ASSUME NEW j \in Jobs, JobStep(j) \/ LeaseExpires(j)
      PROVE  UNCHANGED history
  BY <1>7 DEF JobStep, LeaseExpires, StartJob, Park, Continue, AgentVanishes, AgentWrites,
              LooksStale, Delete
<1>8. ASSUME NEW c \in Couriers, NEW j \in Jobs, CallStep(c, j)
      PROVE  UNCHANGED history
  BY <1>8 DEF CallStep, AgentEnds, CancelReads, SweepReads, ParkedTimesOut, Reconcile
<1>9. ASSUME NEW c \in Couriers, CourierStep(c) \/ Interrupt(c) \/ Crash(c), ~AppendNotice(c)
      PROVE  UNCHANGED history
  BY <1>9 DEF CourierStep, Interrupt, Crash, CancelWrites, SweepWrites, ReadRecord, Prepare,
              Reserve, ReadBack, MarkDelivered, Fail
<1>10. ASSUME UNCHANGED vars
       PROVE  UNCHANGED history
  BY <1>10 DEF vars
<1>11. Fine(history')
  BY <1>3, <1>4, <1>5, <1>6, <1>7, <1>8, <1>9, <1>10 DEF Next
<1> QED BY <1>11 DEF Fine, RightRows

LEMMA TruthStep ==
    ASSUME TypeOK, TruthInv, [Next]_vars, CallersCurrent, AgentsCurrent
    PROVE  TruthInv'
BY RightNotices, RightCouriers, RightHistory DEF TruthInv

LEMMA InitialTruth == Init => TruthInv
<1> SUFFICES ASSUME Init PROVE TruthInv
  OBVIOUS
<1>1. NoNotice.tells = NoVerdict
  BY DEF NoNotice
<1>2. \A c \in Couriers : RightCourier(courier[c])
  BY DEF Init, RightCourier, Telling, Holding
<1> QED BY <1>1, <1>2 DEF Init, TruthInv, RightNotice, RightRows

\* The chat never shows another verdict than the job list, whatever retries,
\* leases, crashes and deletions do, as long as nobody acts on one of the three
\* outdated copies: they are the only causes of a wrong notice
\* (request_agent_job_cancel, sweep_stale_agent_jobs, run_native_job).
THEOREM CurrentCopiesTellVerdict ==
    Spec /\ [][CallersCurrent /\ AgentsCurrent]_vars => []NoticeTellsVerdict
<1>1. IInv /\ TruthInv /\ [Next]_vars /\ [CallersCurrent /\ AgentsCurrent]_vars => TruthInv'
  <2>1. ASSUME IInv, TruthInv, UNCHANGED vars
        PROVE  TruthInv'
    BY <2>1 DEF vars, TruthInv, RightCourier, RightRows
  <2>2. IInv => TypeOK
    BY DEF IInv
  <2> QED BY <2>1, <2>2, TruthStep
<1>2. TruthInv => NoticeTellsVerdict
  BY DEF TruthInv, RightRows, Right, NoticeTellsVerdict
<1> QED BY <1>1, <1>2, InitialTruth, NoticeInvariance, PTL DEF Spec

\* If no step of an agent outlasts the stale cutoff, a running agent's job is
\* being worked on, and only a job without agent ever looks stale.
PromptInv ==
    /\ \A j \in agent : life[j].phase = "working"
    /\ \A j \in stale : life[j].phase = "working" /\ j \notin agent

LEMMA PromptStep ==
    ASSUME ~SlowSteps, TypeOK, PromptInv, [Next]_vars
    PROVE  PromptInv'
<1>0. /\ life \in [Jobs -> Open \cup Over] /\ courier \in [Couriers -> Courier]
      /\ agent \subseteq Jobs /\ stale \subseteq Jobs
  BY DEF TypeOK, LifeOK
<1>1. ASSUME NEW k \in Jobs, JobStep(k) \/ LeaseExpires(k)
      PROVE  PromptInv'
  BY <1>0, <1>1 DEF PromptInv, JobStep, LeaseExpires, StartJob, Park, Continue, AgentVanishes,
                    AgentWrites, LooksStale, Delete, SetPhase, Open, Over
<1>2. ASSUME NEW k \in Jobs, NEW verdict, Conclude(k, verdict), k \notin agent', k \notin stale',
             agent' \subseteq agent, stale' \subseteq stale
      PROVE  PromptInv'
  <2>1. \A j \in Jobs \ {k} : life'[j] = life[j]
    BY <1>0, <1>2 DEF Conclude
  <2> QED BY <1>0, <1>2, <2>1 DEF PromptInv
<1>3. ASSUME UNCHANGED life, agent' \subseteq agent, stale' \subseteq stale
      PROVE  PromptInv'
  BY <1>3 DEF PromptInv
<1>4. ASSUME NEW c \in Couriers, NEW k \in Jobs, CallStep(c, k)
      PROVE  PromptInv'
  <2>1. ASSUME NEW verdict, AgentEnds(c, k, verdict)
        PROVE  PromptInv'
    BY <1>2, <1>3, <2>1 DEF AgentEnds
  <2>2. CASE ParkedTimesOut(c, k)
    <3>1. k \notin agent /\ k \notin stale
      BY <2>2 DEF ParkedTimesOut, PromptInv
    <3> QED BY <1>2, <2>2, <3>1 DEF ParkedTimesOut
  <2>3. CASE CancelReads(c, k) \/ SweepReads(c, k) \/ Reconcile(c, k)
    BY <1>3, <2>3 DEF CancelReads, SweepReads, Reconcile
  <2> QED BY <1>4, <2>1, <2>2, <2>3 DEF CallStep
<1>5. ASSUME NEW c \in Couriers, CancelWrites(c)
      PROVE  PromptInv'
  <2>1. courier[c].job \in Jobs
    BY <1>0 DEF Courier
  <2>2. life[courier[c].job].phase = "waiting" => courier[c].job \notin agent
    BY DEF PromptInv
  <2> QED BY <1>2, <1>3, <1>5, <2>1, <2>2 DEF CancelWrites
<1>6. ASSUME NEW c \in Couriers, SweepWrites(c)
      PROVE  PromptInv'
  <2>1. courier[c].job \in Jobs
    BY <1>0 DEF Courier
  <2>2. StillStale(courier[c].job) => courier[c].job \notin agent
    BY DEF PromptInv, StillStale
  <2> QED BY <1>2, <1>3, <1>6, <2>1, <2>2 DEF SweepWrites
<1>7. ASSUME NEW c \in Couriers, CourierStep(c) \/ Interrupt(c) \/ Crash(c),
             ~CancelWrites(c), ~SweepWrites(c)
      PROVE  PromptInv'
  <2>1. UNCHANGED <<life, agent, stale>>
    BY <1>7 DEF CourierStep, Interrupt, Crash, ReadRecord, Prepare, Reserve, AppendNotice,
                ReadBack, MarkDelivered, Fail
  <2> QED BY <1>3, <2>1
<1>8. ASSUME Chat \/ ClearHistory \/ UNCHANGED vars
      PROVE  PromptInv'
  <2>1. UNCHANGED <<life, agent, stale>>
    BY <1>8 DEF Chat, ClearHistory, vars
  <2> QED BY <1>3, <2>1
<1> QED BY <1>1, <1>4, <1>5, <1>6, <1>7, <1>8 DEF Next

\* If no step of an agent outlasts the stale cutoff, no agent ever ends a job that
\* the sweep has ended.
THEOREM PromptAgentsAreCurrent ==
    ASSUME ~SlowSteps
    PROVE  Spec => [][AgentsCurrent]_vars
<1>1. Init => PromptInv
  BY DEF Init, PromptInv
<1>2. IInv /\ PromptInv /\ [Next]_vars => PromptInv'
  BY PromptStep DEF IInv
<1>3. PromptInv => AgentsCurrent
  BY DEF PromptInv, AgentsCurrent, AgentEnds
<1> QED BY <1>1, <1>2, <1>3, NoticeInvariance, PTL DEF Spec

\* ... and then two of the three outdated copies are left to blame for a notice
\* with a wrong verdict: the user's cancellation of a job that goes on meanwhile,
\* and the sweep's list.
THEOREM PromptAgentsTellVerdict ==
    ASSUME ~SlowSteps
    PROVE  Spec /\ [][CallersCurrent]_vars => []NoticeTellsVerdict
<1>1. Spec => [][AgentsCurrent]_vars
  BY PromptAgentsAreCurrent
<1> QED BY <1>1, CurrentCopiesTellVerdict, PTL
=============================================================================
