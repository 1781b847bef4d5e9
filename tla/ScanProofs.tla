----------------------------- MODULE ScanProofs -----------------------------
(***************************************************************************)
(* For every number of turns, bound on a submission and length of ledger:  *)
(* instruments come after a measurement, the scan is given one that is in  *)
(* its ledger, and a payoff rests on an ablation that outlives its process. *)
(*                                                                         *)
(* Why it holds: a node that drives instruments either started from a      *)
(* checkpointed measurement or saw one in its own transcript, and a crash  *)
(* cuts the ledger no shorter than the checkpoint.                         *)
(***************************************************************************)
EXTENDS ScanLoop, TLAPS, SequenceTheorems

\* What the node's transcript knows is in the ledger.
Seen == verified # 0 => verified \in DOMAIN ledger /\ ledger[verified] = "measure"

Shape ==
  /\ node \in {"ground", "scan", "done"} /\ at \in {"idle", "top", "asked"}
  /\ ledger \in Seq(Instruments) /\ saved \in 0..Len(ledger)
  /\ DOMAIN findings \subseteq Nat \ {0}

IInv ==
  /\ Shape /\ (at # "idle" => Seen)
  /\ InstrumentsAfterMeasure /\ RunnableWasMeasured /\ FindingsAreProven

-----------------------------------------------------------------------------

\* A step that keeps the checkpoint, and what the checkpoint carries of the
\* ledger, keeps what was promised about either.
LEMMA CheckpointHolds ==
  ASSUME IInv, UNCHANGED checkpoint, at' \in {"idle", "top", "asked"},
         ledger' \in Seq(Instruments), saved <= Len(ledger'),
         \A i \in 1..saved : ledger'[i] = ledger[i]
  PROVE  Shape' /\ RunnableWasMeasured' /\ FindingsAreProven'
<1>1. saved \in Nat /\ Len(ledger) \in Nat /\ Len(ledger') \in Nat
  BY LenProperties DEF IInv, Shape
<1>2. DOMAIN ledger = 1..Len(ledger) /\ DOMAIN ledger' = 1..Len(ledger')
  BY LenProperties DEF IInv, Shape
<1>3. Shape'
  BY <1>1 DEF IInv, Shape, checkpoint
<1>4. RunnableWasMeasured'
  BY <1>1, <1>2 DEF IInv, Shape, RunnableWasMeasured, checkpoint
<1>5. FindingsAreProven'
  BY <1>1, <1>2 DEF IInv, Shape, FindingsAreProven, checkpoint
<1>6. QED
  BY <1>3, <1>4, <1>5

\* A step that touches neither the checkpoint nor the ledger.
LEMMA NothingRecorded ==
  ASSUME IInv, UNCHANGED <<checkpoint, ledger>>, at' \in {"idle", "top", "asked"},
         at' # "idle" => Seen'
  PROVE  IInv'
<1>1. ledger' \in Seq(Instruments) /\ saved <= Len(ledger')
  BY LenProperties DEF IInv, Shape
<1>2. Shape' /\ RunnableWasMeasured' /\ FindingsAreProven'
  BY <1>1, CheckpointHolds
<1>3. InstrumentsAfterMeasure'
  BY DEF IInv, InstrumentsAfterMeasure
<1>4. QED
  BY <1>2, <1>3 DEF IInv

\* What Kept keeps of a submission is in it.
LEMMA KeptIsSubmitted ==
  ASSUME NEW minted \in BoundedSeq(Claims, MaxClaims)
  PROVE  /\ Kept(minted) \in Seq(Claims)
         /\ \A i \in DOMAIN Kept(minted) :
              i \in Nat \ {0} /\ i \in DOMAIN minted /\ Kept(minted)[i] = minted[i]
<1>1. minted \in Seq(Claims)
  BY ScanAssumption DEF BoundedSeq, SeqOf
<1> DEFINE n == IF Len(minted) < FindingsPerScan THEN Len(minted) ELSE FindingsPerScan
<1>2. Len(minted) \in Nat /\ DOMAIN minted = 1..Len(minted) /\ n \in 0..Len(minted)
  BY <1>1, LenProperties, ScanAssumption
<1>3. Kept(minted) = SubSeq(minted, 1, n)
  BY DEF Kept
<1>4. \A i \in 1..n : minted[i] \in Claims
  BY <1>1, <1>2, ElementOfSeq
<1>5. /\ SubSeq(minted, 1, n) \in Seq(Claims) /\ Len(SubSeq(minted, 1, n)) = n
      /\ \A i \in 1..n : SubSeq(minted, 1, n)[i] = minted[i]
  BY <1>1, <1>2
<1>6. QED
  BY <1>2, <1>3, <1>5, LenProperties

\* A loop that returned: what it proved is written with the whole ledger.
LEMMA WriteKeepsIInv ==
  ASSUME IInv, at # "idle", NEW reason, NEW minted \in BoundedSeq(Claims, MaxClaims),
         Write(reason, minted), \A i \in DOMAIN minted : Attested(minted[i]),
         reason = "grounded" => node = "ground" /\ Phase = "measuring"
  PROVE  IInv'
<1>1. /\ at' = "idle" /\ saved' = Len(ledger) /\ ledger' = ledger
      /\ findings' = IF node = "scan" THEN Kept(minted) ELSE <<>>
      /\ reason = "grounded" => node' = "scan" /\ runnable' = verified
      /\ reason # "grounded" => node' = "done"
  BY DEF Write, Runnable
<1>2. /\ Len(ledger) \in Nat /\ DOMAIN ledger = 1..Len(ledger) /\ ledger \in Seq(Instruments)
      /\ InstrumentsAfterMeasure /\ Seen
  BY LenProperties DEF IInv, Shape
<1>3. \A i \in DOMAIN findings' :
        i \in Nat \ {0} /\ i \in DOMAIN minted /\ findings'[i] = minted[i]
  BY <1>1, KeptIsSubmitted
<1>4. Shape'
  BY <1>1, <1>2, <1>3 DEF Shape
<1>5. RunnableWasMeasured'
  BY <1>1, <1>2 DEF RunnableWasMeasured, Seen, Phase
<1>6. InstrumentsAfterMeasure'
  BY <1>1, <1>2 DEF InstrumentsAfterMeasure
<1>7. FindingsAreProven'
  <2> SUFFICES ASSUME NEW i \in DOMAIN findings'
               PROVE  /\ findings'[i].cites \in 1..saved'
                      /\ findings'[i].priced =>
                           /\ findings'[i].proof \in 1..saved'
                           /\ ledger'[findings'[i].proof] = "ablate"
                           /\ \E j \in 1..findings'[i].proof : ledger'[j] = "measure"
    BY DEF FindingsAreProven
  <2>1. findings'[i].cites \in 1..saved'
    BY <1>1, <1>2, <1>3 DEF Attested
  <2>2. ASSUME findings'[i].priced
        PROVE  /\ findings'[i].proof \in 1..saved'
               /\ ledger'[findings'[i].proof] = "ablate"
    BY <1>1, <1>2, <1>3, <2>2 DEF Attested
  <2>3. ASSUME findings'[i].priced
        PROVE  \E j \in 1..findings'[i].proof : ledger'[j] = "measure"
    BY <1>1, <1>2, <2>2, <2>3 DEF InstrumentsAfterMeasure
  <2>4. QED
    BY <2>1, <2>2, <2>3
<1>8. QED
  BY <1>1, <1>4, <1>5, <1>6, <1>7 DEF IInv

LEMMA NothingMinted == <<>> \in BoundedSeq(Claims, MaxClaims)
<1>1. <<>> \in [1..0 -> Claims]
  OBVIOUS
<1>2. QED
  BY <1>1, ScanAssumption DEF BoundedSeq, SeqOf

\* A measurement is there before anything an instrument adds after it.
LEMMA RecordedKeepsIInv ==
  ASSUME IInv, NEW tool \in Instruments, Recorded(tool)
  PROVE  IInv'
<1>1. /\ ledger \in Seq(Instruments) /\ Len(ledger) \in Nat
      /\ DOMAIN ledger = 1..Len(ledger) /\ saved \in 0..Len(ledger)
  BY LenProperties DEF IInv, Shape
<1>2. /\ ledger' \in Seq(Instruments) /\ Len(ledger') = Len(ledger) + 1
      /\ DOMAIN ledger' = 1..Len(ledger) + 1 /\ ledger'[Len(ledger) + 1] = tool
      /\ \A i \in 1..Len(ledger) : ledger'[i] = ledger[i]
  BY <1>1, AppendProperties DEF Recorded
<1>3. Shape' /\ RunnableWasMeasured' /\ FindingsAreProven'
  BY <1>1, <1>2, CheckpointHolds DEF Recorded
<1>4. Seen /\ at = "asked"
  BY DEF IInv, Recorded
<1>5. Seen'
  BY <1>1, <1>2, <1>4 DEF Recorded, Seen
<1>6. tool # "measure" => \E j \in 1..Len(ledger) : ledger[j] = "measure"
  <2>1. CASE node = "scan"
    BY <1>1, <2>1 DEF IInv, RunnableWasMeasured
  <2>2. CASE verified # 0
    BY <1>1, <1>4, <2>2 DEF Seen
  <2>3. QED
    BY <2>1, <2>2 DEF Recorded, Offered, Phase
<1>7. InstrumentsAfterMeasure'
  <2> SUFFICES ASSUME NEW i \in 1..Len(ledger) + 1, ledger'[i] # "measure"
               PROVE  \E j \in 1..i - 1 : ledger'[j] = "measure"
    BY <1>2 DEF InstrumentsAfterMeasure
  <2>1. CASE i = Len(ledger) + 1
    BY <1>1, <1>2, <1>6, <2>1
  <2>2. CASE i \in 1..Len(ledger)
    <3>1. ledger[i] # "measure" /\ i \in DOMAIN ledger
      BY <1>1, <1>2, <2>2
    <3>2. PICK j \in 1..i - 1 : ledger[j] = "measure"
      BY <3>1 DEF IInv, InstrumentsAfterMeasure
    <3>3. j \in 1..Len(ledger)
      BY <1>1, <2>2
    <3>4. QED
      BY <1>2, <3>2, <3>3
  <2>3. QED
    BY <1>1, <2>1, <2>2
<1>8. QED
  BY <1>3, <1>5, <1>7 DEF IInv

\* A crash cuts the ledger no shorter than the checkpoint.
LEMMA CrashKeepsIInv ==
  ASSUME IInv, Crash
  PROVE  IInv'
<1>1. /\ ledger \in Seq(Instruments) /\ Len(ledger) \in Nat
      /\ DOMAIN ledger = 1..Len(ledger) /\ saved \in 0..Len(ledger)
      /\ \A i \in 1..saved : ledger[i] \in Instruments
  BY LenProperties, ElementOfSeq DEF IInv, Shape
<1>2. /\ ledger' \in Seq(Instruments) /\ Len(ledger') = saved
      /\ \A i \in 1..saved : ledger'[i] = ledger[i]
  BY <1>1 DEF Crash, Restored
<1>3. Shape' /\ RunnableWasMeasured' /\ FindingsAreProven'
  BY <1>1, <1>2, CheckpointHolds DEF Crash
<1>4. InstrumentsAfterMeasure'
  <2> SUFFICES ASSUME NEW i \in 1..saved, ledger'[i] # "measure"
               PROVE  \E j \in 1..i - 1 : ledger'[j] = "measure"
    BY <1>2, LenProperties DEF InstrumentsAfterMeasure
  <2>1. PICK j \in 1..i - 1 : ledger[j] = "measure"
    BY <1>1, <1>2 DEF IInv, InstrumentsAfterMeasure
  <2>2. j \in 1..saved
    BY <1>1
  <2>3. QED
    BY <1>2, <2>1, <2>2
<1>5. QED
  BY <1>3, <1>4 DEF IInv, Crash

-----------------------------------------------------------------------------

LEMMA InitIsSound == Init => IInv
BY DEF Init, IInv, Shape, InstrumentsAfterMeasure, RunnableWasMeasured, FindingsAreProven

LEMMA NextKeepsIInv == IInv /\ [Next]_vars => IInv'
<1> SUFFICES ASSUME IInv, [Next]_vars PROVE IInv'
  OBVIOUS
<1>1. CASE Begin
  BY <1>1, NothingRecorded DEF Begin, Seen
<1>2. CASE Stopped
  <2>1. Write(Bound, <<>>) /\ at = "top" /\ (Bound = "grounded" => Grounded)
    BY <1>2 DEF Stopped, Bound
  <2>2. QED
    BY <2>1, WriteKeepsIInv, NothingMinted DEF Grounded
<1>3. CASE Ask
  BY <1>3, NothingRecorded DEF Ask, transcript, IInv, Seen
<1>4. CASE Unanswered
  <2>1. PICK reason \in {"budget", "refused", "truncated"} : Write(reason, <<>>)
    BY <1>4 DEF Unanswered
  <2>2. at = "asked" /\ reason # "grounded"
    BY <1>4, <2>1 DEF Unanswered
  <2>3. QED
    BY <2>1, <2>2, WriteKeepsIInv, NothingMinted
<1>5. CASE Unreadable
  BY <1>5, NothingRecorded DEF Unreadable, IInv, Seen
<1>6. CASE Observed
  BY <1>6, NothingRecorded DEF Observed, IInv, Seen
<1>7. CASE HarnessFault
  BY <1>7, NothingRecorded DEF HarnessFault, Raises
<1>8. CASE Submit
  <2>1. PICK claims \in BoundedSeq(Claims, MaxClaims) :
          IF \A i \in DOMAIN claims : Attested(claims[i])
          THEN Write("submitted", claims) ELSE Raises
    BY <1>8 DEF Submit
  <2>2. CASE \A i \in DOMAIN claims : Attested(claims[i])
    BY <1>8, <2>1, <2>2, WriteKeepsIInv DEF Submit
  <2>3. CASE ~\A i \in DOMAIN claims : Attested(claims[i])
    BY <2>1, <2>3, NothingRecorded DEF Raises
  <2>4. QED
    BY <2>2, <2>3
<1>9. CASE \E tool \in Instruments : Recorded(tool)
  BY <1>9, RecordedKeepsIInv
<1>10. CASE Timer
  BY <1>10, NothingRecorded DEF Timer, IInv, Shape, Seen
<1>11. CASE Crash
  BY <1>11, CrashKeepsIInv
<1>12. CASE UNCHANGED vars
  BY <1>12, NothingRecorded DEF vars, transcript, IInv, Shape, Seen
<1>13. QED
  BY <1>1, <1>2, <1>3, <1>4, <1>5, <1>6, <1>7, <1>8, <1>9, <1>10, <1>11, <1>12
     DEF Next, Turn

\* A profile or an ablation is never recorded before a measurement, whatever raised
\* or died in between.
LEMMA InstrumentSafety == Spec => []InstrumentsAfterMeasure
BY InitIsSound, NextKeepsIInv, PTL DEF Spec, IInv

\* The scan is always told to drive a measurement its ledger holds.
LEMMA RunnableSafety == Spec => []RunnableWasMeasured
BY InitIsSound, NextKeepsIInv, PTL DEF Spec, IInv

\* Nothing is driven, priced or profiled that was not measured first (Phase, _runnable).
THEOREM MeasuredSafety == Spec => []MeasuredFirst
<1>1. InstrumentsAfterMeasure /\ RunnableWasMeasured => MeasuredFirst
  BY DEF MeasuredFirst
<1>2. QED
  BY <1>1, InstrumentSafety, RunnableSafety, PTL

\* A payoff rests on an ablation taken after a measurement, and what a finding
\* cites outlives its process.
THEOREM FindingSafety == Spec => []FindingsAreProven
BY InitIsSound, NextKeepsIInv, PTL DEF Spec, IInv
=============================================================================
