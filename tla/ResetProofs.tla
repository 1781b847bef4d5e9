----------------------------- MODULE ResetProofs -----------------------------
(***************************************************************************)
(* What Reset promises, for any number of cycles and any ids. A trial that  *)
(* has not drifted starts each cycle from its baseline; that is what makes  *)
(* one cycle say something of all the cycles after it.                      *)
(***************************************************************************)
EXTENDS Reset, SequenceTheorems, TLAPS

InCycle == pc \in {"begin", "workload", "reset", "restore", "compare"}

Reaches == workload.through = "mechanism" \/ workload.writes = "nothing"

\* The arguments of choose_reset, and the candidate among them.
Given ==
  /\ offered \in Seq(Mechanisms) /\ IsInjective(offered) /\ workload \in Workloads
  /\ trial \in 1..Len(offered) /\ Using \in Mechanisms

\* What is stored, where there is something.
Stored ==
  /\ db # None => db \in Databases
  /\ snapshot # None => snapshot \in Databases
  /\ baseline # None => baseline \in Databases
  /\ captured # None => captured \in 0..MaxSeq
  /\ open # None => open \subseteq 1..MaxSeq
  /\ cycle \in Nat

\* What a reset restores from is what the baseline was taken of.
Anchored ==
  /\ certified => InCycle /\ pc # "compare"
  /\ raised => pc \in {"reset", "restore"}
  /\ pc = "fingerprint" => /\ Using = "rollback" => db # None /\ captured = db.seq
                           /\ Using = "snapshot" => db # None /\ snapshot = db
  /\ InCycle => /\ baseline # None
                /\ Using = "rollback" => db # None /\ captured = baseline.seq
                /\ Using = "snapshot" => snapshot = baseline

\* Only a workload on the mechanism's connection leaves a transaction open.
Transaction ==
  /\ open # None => db # None /\ link = "open" /\ workload.through = "mechanism"
  /\ pc = "restore" => open = None
  /\ pc = "workload" /\ Using = "rollback" => open = None

\* The state comes back, or the drift is seen.
Returns ==
  /\ pc \in {"begin", "workload"} /\ ~certified => drift \/ db = baseline
  /\ pc \in {"begin", "workload"} /\ certified => cut \/ db = baseline
  /\ pc = "compare" /\ Using = "restart" => db = Seed
  /\ certified => ~drift /\ (Using = "restart" => baseline = Seed)
  /\ Using = "rollback" /\ InCycle /\ ~drift =>
       IF Reaches THEN db.rows = baseline.rows
       ELSE pc \in {"reset", "restore", "compare"} /\ ~raised => db.rows # baseline.rows

\* A mechanism that terminates connections leaves the workload none for a second cycle.
Severed ==
  Using # "rollback" /\ workload.through = "mechanism" =>
    /\ certified => link = "broken"
    /\ pc \in {"begin", "workload"} => link = "broken" \/ cycle = 1
    /\ pc = "reset" /\ ~raised => link = "open" /\ cycle = 1
    /\ pc = "restore" /\ ~raised => link = "broken" /\ cycle = 1
    /\ pc = "compare" => link = "broken" /\ cycle = 1

\* Ids are drawn from the sequence, until a rollback puts it back behind rows it
\* could not undo. Only one candidate is a rollback.
Drawn(state) == state # None => \A row \in state.rows : row <= state.seq

AllDrawn ==
  /\ Drawn(db) /\ Drawn(snapshot)
  /\ open # None => \A row \in open : row <= db.seq

Before == \A i \in 1..(trial - 1) : offered[i] # "rollback"

Ordered ==
  Before =>
    /\ Using # "rollback" \/ pc = "prepare" => AllDrawn
    /\ Using = "rollback" /\ pc = "fingerprint" => Drawn(db)
    /\ Using = "rollback" /\ InCycle => Drawn(baseline)

IInv ==
  /\ Given /\ Stored /\ Anchored /\ Transaction /\ Returns /\ Severed /\ Ordered
  /\ CertifiedIsSound

-----------------------------------------------------------------------------

LEMMA InitHolds == Init => IInv
<1> SUFFICES ASSUME Init PROVE IInv
  OBVIOUS
<1>1. Given
  <2>1. PICK n \in 1..3 : offered \in [1..n -> Mechanisms]
    BY DEF Init, TupleOf
  <2>2. offered \in Seq(Mechanisms)
    BY <2>1, SeqDef
  <2>3. 1 \in 1..Len(offered)
    <3>1. DOMAIN offered = 1..Len(offered)
      BY <2>2, LenProperties
    <3> QED
      BY <2>1, <3>1
  <2>4. offered[1] \in Mechanisms
    BY <2>1
  <2> QED
    BY <2>2, <2>3, <2>4 DEF Init, Given, Using
<1>2. Seed \in Databases
  BY ResetAssumption DEF Seed, Databases
<1>3. Stored
  BY <1>2 DEF Init, Stored
<1>4. Anchored /\ Transaction /\ Returns /\ Severed /\ CertifiedIsSound
  BY DEF Init, Anchored, Transaction, Returns, Severed, CertifiedIsSound, InCycle
<1>5. Ordered
  BY DEF Init, Ordered, AllDrawn, Drawn, Seed, InCycle
<1> QED
  BY <1>1, <1>3, <1>4, <1>5 DEF IInv

\* A rejected candidate leaves the next one nothing to keep but the order of the ids.
LEMMA RejectKeeps ==
  ASSUME IInv, Reject, UNCHANGED given, Stored', ~raised', ~certified',
         open' # None => db' # None /\ link' = "open" /\ workload.through = "mechanism",
         Before /\ Using # "rollback" => AllDrawn'
  PROVE  IInv'
<1>1. \/ trial' = trial /\ pc' = "failed"
      \/ trial' = trial + 1 /\ pc' = "prepare" /\ trial < Len(offered)
  BY DEF Reject
<1>2. Given'
  BY <1>1 DEF IInv, Given, given, Using
<1>3. Anchored' /\ Transaction' /\ Returns' /\ Severed' /\ CertifiedIsSound'
  BY <1>1 DEF Anchored, Transaction, Returns, Severed, CertifiedIsSound, InCycle, given
<1>4. Ordered'
  <2> SUFFICES ASSUME Before', Using' # "rollback" \/ pc' = "prepare" PROVE AllDrawn'
    BY <1>1 DEF Ordered, InCycle
  <2>1. Before /\ Using # "rollback"
    <3>1. CASE trial' = trial /\ pc' = "failed"
      BY <3>1 DEF Before, Using, given
    <3>2. CASE trial' = trial + 1
      BY <3>2 DEF IInv, Given, Before, Using, given
    <3> QED
      BY <1>1, <3>1, <3>2
  <2> QED
    BY <2>1
<1> QED
  BY <1>2, <1>3, <1>4 DEF IInv

LEMMA SameCandidate ==
  ASSUME Given, UNCHANGED <<given, trial>>
  PROVE  Given' /\ Using' = Using /\ (Before' <=> Before)
BY DEF Given, given, Using, Before

\* No candidate before a rollback was a rollback.
LEMMA Singular == ASSUME Given, Using = "rollback" PROVE Before
<1> SUFFICES ASSUME NEW i \in 1..(trial - 1), offered[i] = "rollback" PROVE FALSE
  BY DEF Before
<1>1. trial \in Nat /\ Len(offered) \in Nat /\ DOMAIN offered = 1..Len(offered)
  BY LenProperties DEF Given
<1>2. i \in DOMAIN offered /\ trial \in DOMAIN offered /\ i # trial
  BY <1>1 DEF Given
<1> QED
  BY <1>2 DEF Given, IsInjective, Using

\* Whatever could not be done, at whichever step, changed nothing.
LEMMA FailsKeeps == ASSUME IInv, Fails, UNCHANGED cut \/ cut', pc # "workload",
                           pc \in {"reset", "restore"} => cut'
                    PROVE  IInv'
<1> USE DEF Fails, storage, report, given
<1>1. Stored'
  BY DEF IInv, Stored
<1>2. CASE certified
  <2>1. Given' /\ Using' = Using /\ (Before' <=> Before)
    BY <1>2, SameCandidate DEF IInv
  <2>2. Anchored'
    BY <1>2, <2>1 DEF IInv, Anchored, InCycle
  <2>3. Transaction'
    BY <1>2, <2>1 DEF IInv, Transaction
  <2>4. Returns'
    BY <1>2, <2>1 DEF IInv, Returns, InCycle, Reaches, Anchored
  <2>5. Severed' /\ CertifiedIsSound'
    BY <1>2, <2>1 DEF IInv, Severed, CertifiedIsSound
  <2>6. Ordered'
    BY <1>2, <2>1 DEF IInv, Anchored, Ordered, AllDrawn, Drawn, InCycle
  <2> QED
    BY <1>1, <2>1, <2>2, <2>3, <2>4, <2>5, <2>6 DEF IInv
<1>3. CASE ~certified
  <2>1. Before /\ Using # "rollback" => AllDrawn'
    BY DEF IInv, Ordered, AllDrawn, Drawn
  <2> QED
    BY <1>1, <1>3, <2>1, RejectKeeps DEF IInv, Transaction
<1> QED
  BY <1>2, <1>3

LEMMA SeenAreIds == ASSUME Stored, db # None
                    PROVE  /\ Seen \subseteq 1..MaxSeq
                           /\ [db EXCEPT !.rows = Seen] \in Databases
BY DEF Stored, Seen, Databases

LEMMA PrepareKeeps == ASSUME IInv, Prepare PROVE IInv'
<1> USE DEF Prepare, storage, report
<1>1. Given' /\ Using' = Using /\ (Before' <=> Before)
  BY SameCandidate DEF IInv
<1>2. Before => AllDrawn
  BY DEF IInv, Ordered
<1>3. CASE Using = "rollback"
  <2>1. db' \in Databases /\ db' = [db EXCEPT !.rows = Seen] /\ captured' = db.seq
    BY <1>3, SeenAreIds DEF IInv
  <2>2. db \in Databases /\ db'.rows = Seen /\ db'.seq = db.seq /\ db.seq \in 0..MaxSeq
    BY <1>3, <2>1 DEF IInv, Stored, Databases
  <2>3. Stored'
    BY <1>3, <2>1, <2>2 DEF IInv, Stored
  <2>4. Anchored' /\ Transaction' /\ CertifiedIsSound'
    BY <1>1, <1>3, <2>1, <2>2, ResetAssumption
    DEF IInv, Anchored, Transaction, CertifiedIsSound, InCycle, given
  <2>5. Ordered'
    BY <1>1, <1>2, <1>3, <2>2 DEF Ordered, AllDrawn, Drawn, Seen, InCycle
  <2> QED
    BY <1>1, <2>3, <2>4, <2>5 DEF IInv, Anchored, Returns, Severed, InCycle
<1>4. CASE Using = "snapshot"
  <2>1. Stored' /\ Anchored' /\ Transaction' /\ CertifiedIsSound'
    BY <1>1, <1>4
    DEF IInv, Stored, Anchored, Transaction, CertifiedIsSound, Terminated, InCycle, given
  <2>2. Ordered'
    BY <1>1, <1>2, <1>4 DEF Ordered, AllDrawn, Drawn, Terminated, InCycle
  <2> QED
    BY <1>1, <2>1, <2>2 DEF IInv, Anchored, Returns, Severed, InCycle
<1>5. CASE Using = "restart"
  <2>1. Stored' /\ Anchored' /\ Transaction' /\ CertifiedIsSound'
    BY <1>1, <1>5 DEF IInv, Stored, Anchored, Transaction, CertifiedIsSound, InCycle, given
  <2>2. Ordered'
    BY <1>1, <1>2, <1>5 DEF Ordered, AllDrawn, Drawn, InCycle
  <2> QED
    BY <1>1, <2>1, <2>2 DEF IInv, Anchored, Returns, Severed, InCycle
<1> QED
  BY <1>3, <1>4, <1>5

LEMMA BaselineKeeps == ASSUME IInv, Baseline PROVE IInv'
<1> USE DEF Baseline, storage
<1>1. Given' /\ Using' = Using /\ (Before' <=> Before)
  BY SameCandidate DEF IInv
<1>2. Stored' /\ Anchored' /\ Transaction' /\ CertifiedIsSound'
  BY <1>1 DEF IInv, Stored, Anchored, Transaction, CertifiedIsSound, InCycle, given
<1>3. Returns' /\ Severed'
  BY <1>1 DEF IInv, Anchored, InCycle, Returns, Severed
<1>4. Ordered'
  BY <1>1 DEF IInv, Ordered, AllDrawn, Drawn, InCycle
<1> QED
  BY <1>1, <1>2, <1>3, <1>4 DEF IInv

LEMMA BeginKeeps == ASSUME IInv, Begin PROVE IInv'
<1> USE DEF Begin, Discarded, report
<1>1. Given' /\ Using' = Using /\ (Before' <=> Before)
  BY SameCandidate DEF IInv
<1>2. Stored' /\ Anchored' /\ Transaction' /\ CertifiedIsSound'
  BY <1>1 DEF IInv, Stored, Anchored, Transaction, CertifiedIsSound, InCycle, given
<1>3. Returns' /\ Severed'
  BY <1>1 DEF IInv, Anchored, InCycle, Returns, Severed, Reaches, given
<1>4. Ordered'
  BY <1>1 DEF IInv, Ordered, AllDrawn, Drawn, InCycle
<1> QED
  BY <1>1, <1>2, <1>3, <1>4 DEF IInv

\* An id is new to the rows it was drawn behind, and is one of those written.
LEMMA IdIsWritten ==
  ASSUME Stored, db # None, db.seq < MaxSeq, ~Collides, workload \in Workloads,
         workload.writes # "nothing"
  PROVE  /\ Id \in Written /\ Written \subseteq 1..MaxSeq
         /\ [rows |-> Written, seq |-> Id] \in Databases
         /\ [db EXCEPT !.seq = Id] \in Databases
         /\ Written \subseteq Seen \union {Id}
<1>1. db.seq \in Nat /\ Id \in 1..MaxSeq
  BY ResetAssumption DEF Stored, Databases, Id
<1>2. Id \in Written /\ Written \subseteq Seen \union {Id}
  BY DEF Written, Workloads
<1>3. Written \subseteq 1..MaxSeq
  BY <1>1, <1>2, SeenAreIds
<1> QED
  BY <1>1, <1>2, <1>3, ResetAssumption DEF Stored, Databases

LEMMA WorksKeeps == ASSUME IInv, Works PROVE IInv'
<1> USE DEF Works, report
<1>1. Given' /\ Using' = Using /\ (Before' <=> Before)
  BY SameCandidate DEF IInv
<1>2. db \in Databases /\ Seen \subseteq 1..MaxSeq
  BY SeenAreIds DEF IInv, Stored
<1>3. CASE workload.writes = "nothing"
  <2>1. Stored' /\ Anchored' /\ Transaction' /\ CertifiedIsSound'
    BY <1>1, <1>2, <1>3 DEF IInv, Stored, Anchored, Transaction, CertifiedIsSound, InCycle, given
  <2>2. Returns' /\ Severed'
    BY <1>1, <1>3 DEF IInv, Anchored, InCycle, Returns, Severed, Reaches, given
  <2>3. Ordered'
    BY <1>1, <1>3 DEF IInv, Ordered, AllDrawn, Drawn, InCycle, Seen
  <2> QED
    BY <1>1, <2>1, <2>2, <2>3 DEF IInv
<1>4. CASE workload.writes # "nothing"
  <2>1. /\ Id \in Written /\ Written \subseteq 1..MaxSeq
        /\ [rows |-> Written, seq |-> Id] \in Databases
        /\ [db EXCEPT !.seq = Id] \in Databases
        /\ Written \subseteq Seen \union {Id}
    BY <1>4, IdIsWritten DEF IInv, Given
  <2>2. db.seq \in Nat /\ Id = db.seq + 1
    BY <1>2 DEF Databases, Id
  <2>3. CASE workload.through = "mechanism"
    <3>1. db' \in Databases /\ db'.rows = db.rows /\ db'.seq = Id /\ open' = Written
      BY <1>2, <1>4, <2>1, <2>3 DEF Databases
    <3>2. Stored' /\ Anchored' /\ Transaction' /\ CertifiedIsSound'
      BY <1>1, <2>1, <2>3, <3>1, ResetAssumption
      DEF IInv, Stored, Anchored, Transaction, CertifiedIsSound, InCycle, given
    <3>3. Returns' /\ Severed'
      BY <1>1, <2>3, <3>1 DEF IInv, Anchored, InCycle, Returns, Severed, Reaches, given
    <3>4. AllDrawn => AllDrawn'
      <4> SUFFICES ASSUME AllDrawn PROVE AllDrawn'
        OBVIOUS
      <4>1. \A row \in db.rows \union Seen : row \in Nat /\ row <= db.seq
        BY <1>2 DEF AllDrawn, Drawn, Seen, Databases
      <4>2. \A row \in db.rows \union Written : row <= Id
        BY <2>1, <2>2, <4>1
      <4> QED
        BY <3>1, <4>2 DEF AllDrawn, Drawn
    <3>5. Ordered'
      BY <1>1, <3>4 DEF IInv, Ordered, InCycle, Drawn
    <3> QED
      BY <1>1, <3>2, <3>3, <3>5 DEF IInv
  <2>4. CASE workload.through # "mechanism"
    <3>1. db' \in Databases /\ db'.rows = Written /\ db'.seq = Id /\ open' = None /\ Seen = db.rows
      BY <1>4, <2>1, <2>4 DEF IInv, Transaction, Seen
    <3>2. Stored' /\ Anchored' /\ Transaction' /\ CertifiedIsSound'
      BY <1>1, <2>4, <3>1, ResetAssumption
      DEF IInv, Stored, Anchored, Transaction, CertifiedIsSound, InCycle, given
    <3>3. AllDrawn => AllDrawn'
      BY <1>2, <2>1, <2>2, <3>1 DEF AllDrawn, Drawn, Databases
    <3>4. Using = "rollback" /\ ~drift => db.rows = baseline.rows /\ ~certified
      BY <1>4, <2>4 DEF IInv, Returns, CertifiedIsSound
    <3>5. Using = "rollback" /\ ~drift => db'.rows # baseline.rows
      <4> SUFFICES ASSUME Using = "rollback", ~drift, db'.rows = baseline.rows PROVE FALSE
        OBVIOUS
      <4>1. Before /\ db = baseline
        BY <3>4, Singular DEF IInv, Returns
      <4>2. \A row \in db.rows : row <= db.seq
        BY <4>1 DEF IInv, Ordered, InCycle, Drawn
      <4>3. Id \in db.rows
        <5>1. db'.rows = db.rows
          BY <4>1
        <5> HIDE DEF Works
        <5> QED
          BY <2>1, <3>1, <5>1
      <4>4. Id <= db.seq
        BY <4>2, <4>3
      <4> QED
        BY <2>2, <4>4
    <3>6. Returns' /\ Severed'
      BY <1>1, <1>4, <2>4, <3>5
      DEF IInv, Anchored, InCycle, Returns, Severed, Reaches, given, CertifiedIsSound
    <3>7. Ordered'
      BY <1>1, <3>3 DEF IInv, Ordered, InCycle, Drawn
    <3> QED
      BY <1>1, <3>2, <3>6, <3>7 DEF IInv
  <2> QED
    BY <2>3, <2>4
<1> QED
  BY <1>3, <1>4

LEMMA RaisesAtOnceKeeps == ASSUME IInv, RaisesAtOnce PROVE IInv'
<1> USE DEF RaisesAtOnce, storage, report
<1>1. Given' /\ Using' = Using /\ (Before' <=> Before)
  BY SameCandidate DEF IInv
<1>2. Stored' /\ Anchored' /\ Transaction' /\ CertifiedIsSound'
  BY <1>1 DEF IInv, Stored, Anchored, Transaction, CertifiedIsSound, InCycle, given
<1>3. Returns' /\ Severed'
  BY <1>1 DEF IInv, Anchored, InCycle, Returns, Severed, Reaches, given
<1>4. Ordered'
  BY <1>1 DEF IInv, Ordered, AllDrawn, Drawn, InCycle
<1> QED
  BY <1>1, <1>2, <1>3, <1>4 DEF IInv

LEMMA RaisesWritingKeeps == ASSUME IInv, RaisesWriting PROVE IInv'
<1> USE DEF RaisesWriting, report
<1>1. Given' /\ Using' = Using /\ (Before' <=> Before)
  BY SameCandidate DEF IInv
<1>2. db \in Databases /\ Seen \subseteq 1..MaxSeq
  BY SeenAreIds DEF IInv, Stored
<1>3. db.seq \in Nat /\ Id = db.seq + 1
  BY <1>2 DEF Databases, Id
<1>4. db' \in Databases /\ db'.rows = db.rows /\ db'.seq = Id
  BY <1>2, <1>3, ResetAssumption DEF Databases
<1>5. Stored' /\ Anchored' /\ Transaction' /\ CertifiedIsSound'
  BY <1>1, <1>2, <1>4, ResetAssumption
  DEF IInv, Stored, Anchored, Transaction, CertifiedIsSound, InCycle, given
<1>6. Returns' /\ Severed'
  BY <1>1, <1>4 DEF IInv, Anchored, InCycle, Returns, Severed, Reaches, given, Transaction
<1>7. AllDrawn => AllDrawn'
  <2> SUFFICES ASSUME AllDrawn PROVE AllDrawn'
    OBVIOUS
  <2>1. \A row \in db.rows \union Seen : row \in Nat /\ row <= db.seq
    BY <1>2 DEF AllDrawn, Drawn, Seen, Databases
  <2>2. \A row \in db.rows \union Seen : row <= Id
    BY <1>3, <2>1
  <2> QED
    BY <1>4, <2>2 DEF AllDrawn, Drawn, Seen
<1>8. Ordered'
  BY <1>1, <1>7 DEF IInv, Ordered, InCycle, Drawn
<1> QED
  BY <1>1, <1>5, <1>6, <1>8 DEF IInv

-----------------------------------------------------------------------------
(* The reset, and what verification makes of it *)

LEMMA UndoKeeps == ASSUME IInv, Undo PROVE IInv'
<1> USE DEF Undo, report, Terminated
<1>1. Given' /\ Using' = Using /\ (Before' <=> Before)
  BY SameCandidate DEF IInv
<1>2. Stored' /\ Anchored' /\ Transaction' /\ CertifiedIsSound'
  BY <1>1 DEF IInv, Stored, Anchored, Transaction, CertifiedIsSound, InCycle, given
<1>3. Returns' /\ Severed'
  BY <1>1 DEF IInv, Anchored, InCycle, Returns, Severed, Reaches, given
<1>4. Ordered'
  BY <1>1 DEF IInv, Ordered, AllDrawn, Drawn, InCycle
<1> QED
  BY <1>1, <1>2, <1>3, <1>4 DEF IInv

\* What each mechanism puts back.
LEMMA RestoredIs ==
  ASSUME IInv, pc = "restore"
  PROVE  /\ Restored \in Databases /\ Restored # None
         /\ Using = "rollback" => Restored.rows = db.rows /\ Restored.seq = baseline.seq
         /\ Using = "snapshot" => Restored = baseline /\ Restored = snapshot
         /\ Using = "restart" => Restored = Seed
<1>1. Seed \in Databases
  BY ResetAssumption DEF Seed, Databases
<1>2. baseline \in Databases /\ baseline.seq \in 0..MaxSeq
  BY DEF IInv, Anchored, Stored, InCycle, Databases
<1>3. CASE Using = "rollback"
  <2>1. db \in Databases /\ captured = baseline.seq
    BY <1>3 DEF IInv, Anchored, Stored, InCycle
  <2> QED
    BY <1>2, <1>3, <2>1, ResetAssumption DEF Restored, Databases
<1>4. CASE Using = "snapshot"
  BY <1>2, <1>4, ResetAssumption DEF IInv, Anchored, InCycle, Restored
<1>5. CASE Using = "restart"
  BY <1>1, <1>5, ResetAssumption DEF Restored
<1> QED
  BY <1>3, <1>4, <1>5 DEF IInv, Given, Mechanisms

\* Two states of the same rows and the same sequence are the same.
LEMMA SameState ==
  ASSUME NEW a \in Databases, NEW b \in Databases, a.rows = b.rows, a.seq = b.seq
  PROVE  a = b
BY DEF Databases

LEMMA RestoreKeeps == ASSUME IInv, Restore PROVE IInv'
<1> USE DEF Restore, report
<1>1. /\ db' \in Databases /\ db' # None
      /\ Using = "rollback" => db'.rows = db.rows /\ db'.seq = baseline.seq
      /\ Using = "snapshot" => db' = baseline /\ db' = snapshot
      /\ Using = "restart" => db' = Seed
  BY RestoredIs
<1>2. Stored' /\ open' = None
  BY <1>1 DEF IInv, Stored, Transaction
<1>3. Using # "rollback" /\ Before /\ AllDrawn => AllDrawn'
  BY <1>1, <1>2 DEF IInv, Given, Mechanisms, AllDrawn, Drawn, Seed
<1>4. CASE raised /\ ~certified
  BY <1>2, <1>3, <1>4, RejectKeeps DEF IInv, Ordered
<1>5. CASE ~(raised /\ ~certified)
  <2>1. Given' /\ Using' = Using /\ (Before' <=> Before)
    BY <1>5, SameCandidate DEF IInv
  <2>2. Anchored' /\ Transaction' /\ CertifiedIsSound'
    BY <1>1, <1>2, <1>5, <2>1 DEF IInv, Anchored, Transaction, CertifiedIsSound, InCycle, given
  <2>3. Using = "rollback" /\ certified => db' = baseline
    <3> SUFFICES ASSUME Using = "rollback", certified PROVE db' = baseline
      OBVIOUS
    <3>1. db.rows = baseline.rows /\ baseline \in Databases
      BY DEF IInv, Returns, CertifiedIsSound, Reaches, Anchored, Stored, InCycle
    <3> QED
      BY <1>1, <3>1, SameState
  <2>4. Returns'
    BY <1>1, <1>5, <2>1, <2>3
    DEF IInv, Given, Mechanisms, Anchored, InCycle, Returns, Reaches, given, CertifiedIsSound
  <2>5. Severed'
    BY <1>5, <2>1 DEF IInv, Severed, given
  <2>6. Ordered'
    BY <1>3, <1>5, <2>1 DEF IInv, Ordered, InCycle, Drawn
  <2> QED
    BY <1>2, <2>1, <2>2, <2>4, <2>5, <2>6 DEF IInv
<1> QED
  BY <1>4, <1>5

LEMMA CompareKeeps == ASSUME IInv, Compare PROVE IInv'
<1> USE DEF Compare, storage
<1>1. Stored' /\ ~certified /\ ~raised'
  BY DEF IInv, Stored, Anchored, NextCycle
<1>2. ~Drifted => db = baseline /\ ~drift /\ (cycle > 1 => workload.process # "survives")
  BY DEF Drifted, Fingerprint
<1>3. CASE LastCycle /\ Drifted
  <2>1. Reject /\ ~certified' /\ UNCHANGED <<given, storage>>
    BY <1>1, <1>3
  <2>2. Before /\ Using # "rollback" => AllDrawn'
    BY <2>1 DEF IInv, Ordered, AllDrawn, Drawn
  <2> QED
    BY <1>1, <2>1, <2>2, RejectKeeps DEF IInv, Transaction, given
<1>4. CASE ~(LastCycle /\ Drifted)
  <2>1. /\ Given' /\ Using' = Using /\ (Before' <=> Before)
        /\ pc' = "begin" /\ UNCHANGED <<given, storage>>
    BY <1>4, SameCandidate DEF IInv
  <2>2. Anchored' /\ Transaction'
    BY <1>1, <2>1 DEF IInv, Anchored, Transaction, InCycle, given
  <2>3. certified' => ~Drifted /\ ~drift' /\ cycle >= Cycles
    BY <1>1, <1>4 DEF LastCycle
  <2>4. CertifiedIsSound'
    <3> SUFFICES ASSUME certified' PROVE CertifiedIsSound'
      BY DEF CertifiedIsSound
    <3>1. Using = "rollback" => Reaches
      BY <1>2, <2>3 DEF IInv, Returns, Anchored, InCycle
    <3>2. Cycles > 1 => cycle > 1
      BY <2>3, ResetAssumption DEF IInv, Stored
    <3>3. Cycles > 1 /\ workload.through = "mechanism" => Using = "rollback"
      BY <3>2 DEF IInv, Severed
    <3> QED
      BY <1>2, <2>1, <2>3, <3>1, <3>2, <3>3 DEF CertifiedIsSound, Reaches, given
  <2>5. Returns'
    BY <1>1, <1>2, <2>1, <2>3 DEF IInv, Anchored, InCycle, Returns, Reaches, given
  <2>6. Severed' /\ Ordered'
    BY <2>1 DEF IInv, Severed, Ordered, AllDrawn, Drawn, InCycle, given
  <2> QED
    BY <1>1, <2>1, <2>2, <2>4, <2>5, <2>6 DEF IInv
<1> QED
  BY <1>3, <1>4

LEMMA NextHolds == IInv /\ [Next]_vars => IInv'
<1> SUFFICES ASSUME IInv, [Next]_vars PROVE IInv'
  OBVIOUS
<1>1. CASE Prepare
  BY <1>1, PrepareKeeps
<1>2. CASE CannotPrepare \/ CannotRead \/ ResetCut
  BY <1>2, FailsKeeps DEF CannotPrepare, CannotRead, ResetCut
<1>3. CASE Baseline
  BY <1>3, BaselineKeeps
<1>4. CASE Begin
  BY <1>4, BeginKeeps
<1>5. CASE Works
  BY <1>5, WorksKeeps
<1>6. CASE RaisesAtOnce
  BY <1>6, RaisesAtOnceKeeps
<1>7. CASE RaisesWriting
  BY <1>7, RaisesWritingKeeps
<1>8. CASE Undo
  BY <1>8, UndoKeeps
<1>9. CASE Restore
  BY <1>9, RestoreKeeps
<1>10. CASE Compare
  BY <1>10, CompareKeeps
<1>11. CASE Escapes
  <2> USE <1>11 DEF Escapes, storage, report
  <2>1. Given' /\ Using' = Using /\ (Before' <=> Before)
    BY SameCandidate DEF IInv
  <2>2. Stored' /\ Anchored' /\ Transaction' /\ CertifiedIsSound'
    BY <2>1 DEF IInv, Stored, Anchored, Transaction, CertifiedIsSound, InCycle, given
  <2>3. Returns' /\ Severed' /\ Ordered'
    BY <2>1 DEF IInv, Anchored, Returns, Severed, Ordered, AllDrawn, Drawn, InCycle, given
  <2> QED
    BY <2>1, <2>2, <2>3 DEF IInv
<1>12. CASE UNCHANGED vars
  <2> USE <1>12 DEF vars, storage, report
  <2>1. Given' /\ Using' = Using /\ (Before' <=> Before)
    BY SameCandidate DEF IInv
  <2>2. Stored' /\ Anchored' /\ Transaction' /\ CertifiedIsSound'
    BY <2>1 DEF IInv, Stored, Anchored, Transaction, CertifiedIsSound, InCycle, given
  <2>3. Returns' /\ Severed' /\ Ordered'
    BY <2>1 DEF IInv, Returns, Severed, Ordered, AllDrawn, Drawn, InCycle, Reaches, given
  <2> QED
    BY <2>1, <2>2, <2>3 DEF IInv
<1> QED
  BY <1>1, <1>2, <1>3, <1>4, <1>5, <1>6, <1>7, <1>8, <1>9, <1>10, <1>11, <1>12 DEF Next

LEMMA Inductive == Spec => []IInv
BY InitHolds, NextHolds, PTL DEF Spec

\* What is certified can undo the workload it was certified with, whatever the
\* candidates before it did to the database (verification.choose_reset).
THEOREM CertifiedSafety == Spec => []CertifiedIsSound
<1>1. IInv => CertifiedIsSound
  BY DEF IInv
<1> QED
  BY <1>1, Inductive, PTL

\* Every experiment starts from the verified baseline, unless the reset before it was
\* cut short, after any number of experiments (ResetMechanism.cycle).
THEOREM StartSafety == Spec => []ExperimentsStartAlike
<1>1. IInv => ExperimentsStartAlike
  <2> SUFFICES ASSUME IInv, certified, pc = "workload"
               PROVE  /\ open = None /\ (cut \/ db = baseline)
                      /\ Using = "rollback" => db.rows = baseline.rows
    BY DEF ExperimentsStartAlike
  <2>1. cut \/ db = baseline
    BY DEF IInv, Returns
  <2>2. Using = "rollback" => db.rows = baseline.rows
    BY DEF IInv, Returns, CertifiedIsSound, Reaches, InCycle
  <2>3. open = None
    BY DEF IInv, Transaction, Severed
  <2> QED
    BY <2>1, <2>2, <2>3
<1> QED
  BY <1>1, Inductive, PTL
=============================================================================
