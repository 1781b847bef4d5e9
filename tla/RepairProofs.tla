---------------------------- MODULE RepairProofs ----------------------------
(***************************************************************************)
(* For every value of RepairLoop's constants: no edit is measured twice for *)
(* a finding, a dearer tier is asked only when the one below was spent, a   *)
(* patch that ships was compared with the original and agreed with it, and  *)
(* the search over its journal and its checkpoint implements BestSoFar.     *)
(***************************************************************************)
EXTENDS MCRepair, TLAPS, SequenceTheorems, FiniteSetTheorems, WellFoundedInduction

-----------------------------------------------------------------------------
(* The inductive invariant *)

Scored == [id : Nat, approach : Approaches, edit : Edits, seen : Results, round : Nat]

Candidate == [id : Nat, approach : Approaches, edit : Edits]

\* What outlives the process: the journal where there is one, and then it has all the
\* checkpoint has.
Memory == IF HasJournal THEN journal ELSE saved

InSearch == stage \in {"writing", "proposing", "applying", "recording"}

ById(scored) == \A i \in DOMAIN scored : scored[i].id = i

\* No two of these candidates make the same edit.
Distinct(scored) == \A i, j \in DOMAIN scored : scored[i].edit = scored[j].edit => i = j

Shape ==
  /\ journal \in Seq(Scored) /\ saved \in Seq(Scored) /\ archive \in Seq(Scored)
  /\ rounds \in Seq([rung : Nat, ids : SUBSET Nat]) /\ batch \in Seq(Candidate)
  /\ known \in Nat
  /\ ~HasJournal => journal = <<>>
  /\ ~InSearch => stage \in {"idle", "attacking"} /\ archive = <<>> /\ rounds = <<>> /\ batch = <<>>

\* The memory is numbered as it was measured, holds every candidate of the checkpoint, no
\* edit twice, and no more candidates than there may be.
Recalled ==
  /\ ById(Memory) /\ Distinct(Memory) /\ Len(Memory) <= MaxCandidates
  /\ \A i \in DOMAIN saved : saved[i].id \in DOMAIN Memory /\ saved[i] = Memory[saved[i].id]

\* A search continues what it remembers.
Continued ==
  InSearch =>
    /\ ById(archive) /\ Distinct(archive)
    /\ Len(Memory) <= Len(archive) /\ \A i \in DOMAIN Memory : archive[i] = Memory[i]
    /\ known <= Len(Memory) /\ (~HasJournal => known = Len(Memory))

\* What is still to be measured is new, there is room for it, and its round is on record.
Pending ==
  /\ stage = "applying" <=> batch # <<>>
  /\ Len(archive) + Len(batch) <= MaxCandidates
  /\ Distinct(batch)
  /\ \A i \in DOMAIN batch :
       /\ batch[i].edit \notin Measured(archive)
       /\ batch[i].id = Len(archive) + i
       /\ rounds # <<>> /\ batch[i].id \in rounds[Len(rounds)].ids

\* A candidate of this search is on the record of the round that proposed it.
OnRecord ==
  \A k \in known + 1..Len(archive) :
    archive[k].round \in DOMAIN rounds /\ archive[k].id \in rounds[archive[k].round].ids

IInv == Shape /\ Recalled /\ Continued /\ Pending /\ OnRecord

-----------------------------------------------------------------------------
(* Lemmas: sequences *)

LEMMA AppendIs ==
  ASSUME NEW S, NEW s \in Seq(S), NEW e \in S
  PROVE  /\ Append(s, e) \in Seq(S) /\ Len(Append(s, e)) = Len(s) + 1
         /\ DOMAIN Append(s, e) = 1..Len(s) + 1 /\ DOMAIN s = 1..Len(s) /\ Len(s) \in Nat
         /\ \A i \in 1..Len(s) : Append(s, e)[i] = s[i]
         /\ Append(s, e)[Len(s) + 1] = e
  BY AppendProperties, LenProperties

LEMMA ElementsAre ==
  ASSUME NEW S, NEW s \in Seq(S)
  PROVE  /\ Len(s) \in Nat /\ DOMAIN s = 1..Len(s) /\ \A i \in DOMAIN s : s[i] \in S
         /\ s = <<>> <=> Len(s) = 0
  BY LenProperties, ElementOfSeq, EmptySeq

LEMMA LastIs ==
  ASSUME NEW S, NEW s \in Seq(S), s # <<>>
  PROVE  Len(s) \in DOMAIN s /\ s[Len(s)] \in S
<1>1. Len(s) \in Nat \ {0} /\ DOMAIN s = 1..Len(s)
  BY EmptySeq, LenProperties
<1>. QED
  BY <1>1, ElementOfSeq

LEMMA ConcatIs ==
  ASSUME NEW S, NEW s \in Seq(S), NEW t \in Seq(S)
  PROVE  /\ s \o t \in Seq(S) /\ Len(s \o t) = Len(s) + Len(t)
         /\ DOMAIN (s \o t) = 1..Len(s) + Len(t)
         /\ \A i \in 1..Len(s) : (s \o t)[i] = s[i]
         /\ \A i \in 1..Len(t) : (s \o t)[Len(s) + i] = t[i]
<1>1. /\ s \o t \in Seq(S) /\ Len(s \o t) = Len(s) + Len(t)
      /\ \A i \in 1..Len(s) + Len(t) :
           (s \o t)[i] = IF i <= Len(s) THEN s[i] ELSE t[i - Len(s)]
  BY ConcatProperties
<1>2. Len(s) \in Nat /\ Len(t) \in Nat /\ DOMAIN (s \o t) = 1..Len(s \o t)
  BY <1>1, LenProperties
<1>3. ASSUME NEW i \in 1..Len(s) PROVE (s \o t)[i] = s[i]
  <2>1. i \in 1..Len(s) + Len(t) /\ i <= Len(s)
    BY <1>2
  <2>. QED
    BY <1>1, <2>1
<1>4. ASSUME NEW i \in 1..Len(t) PROVE (s \o t)[Len(s) + i] = t[i]
  <2>1. Len(s) + i \in 1..Len(s) + Len(t) /\ ~(Len(s) + i <= Len(s)) /\ Len(s) + i - Len(s) = i
    BY <1>2
  <2>. QED
    BY <1>1, <2>1
<1>. QED
  BY <1>1, <1>2, <1>3, <1>4

\* Two sequences of the same length and the same elements are the same.
LEMMA SameSequence ==
  ASSUME NEW S, NEW s \in Seq(S), NEW t \in Seq(S), Len(s) = Len(t),
         \A i \in 1..Len(s) : s[i] = t[i]
  PROVE  s = t
  BY SeqEqual

LEMMA TailIs ==
  ASSUME NEW S, NEW s \in Seq(S), s # <<>>
  PROVE  /\ Tail(s) \in Seq(S) /\ Len(Tail(s)) = Len(s) - 1 /\ Len(s) \in Nat \ {0}
         /\ DOMAIN Tail(s) = 1..Len(s) - 1
         /\ \A i \in 1..Len(s) - 1 : Tail(s)[i] = s[i + 1]
<1>1. Len(s) \in Nat /\ Len(s) # 0
  BY LenProperties, EmptySeq
<1>2. /\ Tail(s) \in Seq(S) /\ Len(Tail(s)) = Len(s) - 1
      /\ \A i \in 1..Len(s) - 1 : Tail(s)[i] = s[i + 1]
  BY HeadTailProperties
<1>. QED
  BY <1>1, <1>2, LenProperties

-----------------------------------------------------------------------------
(* Lemmas: what is measured and what won *)

LEMMA CountFromOne ==
  ASSUME NEW n \in Nat
  PROVE  IsFiniteSet(1..n) /\ Cardinality(1..n) = n
<1>1. n \in Int /\ 1 \in Int
  OBVIOUS
<1>2. IsFiniteSet(1..n) /\ Cardinality(1..n) = IF 1 > n THEN 0 ELSE n - 1 + 1
  BY ONLY <1>1, FS_Interval
<1>. QED
  BY ONLY <1>2, n \in Nat

LEMMA NumberedFromOne ==
  ASSUME NEW n \in Nat, NEW k \in 1..n
  PROVE  (CHOOSE i \in 1..n : Cardinality({j \in 1..n : j < i}) = k - 1) = k
<1>1. ASSUME NEW i \in 1..n PROVE Cardinality({j \in 1..n : j < i}) = i - 1
  <2>1. {j \in 1..n : j < i} = 1..i - 1
    OBVIOUS
  <2>2. i - 1 \in Nat
    OBVIOUS
  <2>3. Cardinality(1..i - 1) = i - 1
    BY ONLY <2>2, CountFromOne
  <2>. QED
    BY ONLY <2>1, <2>3
<1>2. \A i \in 1..n : Cardinality({j \in 1..n : j < i}) = k - 1 <=> i = k
  BY <1>1
<1>. QED
  BY <1>2

\* What a search is told is the memory: nothing in the checkpoint is missing from it.
LEMMA RememberedIsMemory ==
  Shape /\ Recalled => Remembered = Memory
<1> SUFFICES ASSUME Shape, Recalled PROVE Remembered = Memory
  OBVIOUS
<1> DEFINE only   == {i \in DOMAIN saved : \A j \in DOMAIN journal : journal[j].id # saved[i].id}
           nth(k) == CHOOSE i \in only : Cardinality({j \in only : j < i}) = k - 1
           rest   == [k \in 1..Cardinality(only) |-> saved[nth(k)]]
<1>1. Remembered = journal \o rest
  BY DEF Remembered
<1>2. journal \in Seq(Scored) /\ saved \in Seq(Scored)
  BY DEF Shape
<1>3. CASE HasJournal
  <2>1. ASSUME NEW i \in DOMAIN saved PROVE saved[i].id \in DOMAIN journal /\ journal[saved[i].id].id = saved[i].id
    BY <1>3 DEF Recalled, Memory
  <2>2. only = {}
    BY <2>1
  <2>3. Cardinality(only) = 0
    BY <2>2, FS_EmptySet
  <2> HIDE DEF only, nth
  <2>4. rest = <<>>
    BY <2>3
  <2>. QED
    BY <1>1, <1>2, <1>3, <2>4, ConcatEmptySeq DEF Memory
<1>4. CASE ~HasJournal
  <2>1. journal = <<>> /\ DOMAIN journal = {}
    BY <1>2, <1>4, ElementsAre DEF Shape
  <2>2. only = DOMAIN saved
    BY <2>1
  <2>3. DOMAIN saved = 1..Len(saved) /\ Len(saved) \in Nat
    BY <1>2, LenProperties
  <2>4. Cardinality(1..Len(saved)) = Len(saved)
    BY <2>3, CountFromOne
  <2>5. Cardinality(only) = Len(saved)
    BY ONLY <2>2, <2>3, <2>4
  <2>6. only = 1..Len(saved)
    BY <2>2, <2>3
  <2> HIDE DEF only
  <2>7. ASSUME NEW k \in 1..Len(saved) PROVE nth(k) = k
    BY <2>3, <2>6, NumberedFromOne
  <2> HIDE DEF nth
  <2>8. rest = [k \in 1..Len(saved) |-> saved[k]]
    BY <2>5, <2>7
  <2>9. saved \in [1..Len(saved) -> Scored]
    BY <1>2, LenProperties
  <2>10. rest = saved
    BY <2>8, <2>9
  <2>. QED
    BY <1>1, <1>2, <1>4, <2>1, <2>10, ConcatEmptySeq DEF Memory
<1>. QED
  BY <1>3, <1>4

\* A non-empty set of numbers has a least one.
LEMMA LeastIsIn ==
  ASSUME NEW S \in SUBSET Nat, S # {}
  PROVE  \E f \in S : \A g \in S : f <= g
<1> DEFINE Less == OpToRel(<, Nat)
<1>1. IsWellFoundedOn(Less, Nat)
  BY NatLessThanWellFounded
<1>2. PICK f \in S : \A g \in S : <<g, f>> \notin Less
  BY <1>1, WFMin
<1>3. \A g \in S : <<g, f>> \in Nat \X Nat /\ <<g, f>>[1] = g /\ <<g, f>>[2] = f
  OBVIOUS
<1>4. \A g \in S : ~ (g < f)
  BY <1>2, <1>3 DEF OpToRel
<1>. QED
  BY <1>4

\* The winner is one that won, and none that won is faster.
LEMMA FastestIs ==
  ASSUME SearchAssumption, NEW scored \in Seq(Scored)
  PROVE  /\ Fastest(scored) \in Nat /\ Fastest(scored) <= Baseline.wall
         /\ \A i \in Won(scored) : scored[i].seen.wall \in Nat /\ Fastest(scored) <= scored[i].seen.wall
         /\ Won(scored) # {} => \E i \in Won(scored) : Fastest(scored) = scored[i].seen.wall
         /\ Won(scored) = {} => Fastest(scored) = Baseline.wall
<1>1. /\ Len(scored) \in Nat /\ DOMAIN scored = 1..Len(scored)
      /\ \A i \in DOMAIN scored : scored[i] \in Scored
  BY ElementsAre
<1>2. \A r \in Results \cup {Baseline} : r.wall \in Nat
  BY DEF SearchAssumption
<1>3. \A i \in Won(scored) :
        /\ i \in 1..Len(scored) /\ scored[i].seen.wall \in Nat
        /\ scored[i].seen.wall < Baseline.wall
  BY <1>1, <1>2 DEF Won, Wins, Beats, Scored
<1>4. CASE Won(scored) = {}
  BY <1>2, <1>4 DEF Fastest
<1>5. CASE Won(scored) # {}
  <2> DEFINE walls == {scored[i].seen.wall : i \in Won(scored)}
  <2>1. walls \in SUBSET Nat /\ walls # {}
    BY <1>3, <1>5
  <2>2. PICK w \in walls : \A v \in walls : w <= v
    BY <2>1, LeastIsIn
  <2> DEFINE ties == {i \in Won(scored) : scored[i].seen.wall = w}
  <2>3. ties \in SUBSET Nat /\ ties # {}
    BY <1>3, <2>2
  <2>4. PICK f \in ties : \A g \in ties : f <= g
    BY <2>3, LeastIsIn
  <2> DEFINE best(i) == \A j \in Won(scored) :
                \/ scored[i].seen.wall < scored[j].seen.wall
                \/ scored[i].seen.wall = scored[j].seen.wall /\ i <= j
  <2>5. f \in Won(scored) /\ best(f)
    <3>1. f \in Won(scored) /\ scored[f].seen.wall = w
      BY <2>4
    <3>2. ASSUME NEW j \in Won(scored), ~(scored[f].seen.wall < scored[j].seen.wall)
          PROVE  scored[f].seen.wall = scored[j].seen.wall /\ f <= j
      <4>1. scored[j].seen.wall \in walls /\ scored[j].seen.wall \in Nat /\ w \in Nat
        BY <1>3, <2>1, <2>2
      <4>2. scored[j].seen.wall = w
        <5>1. w <= scored[j].seen.wall
          BY <2>2, <4>1
        <5>. QED
          BY <3>1, <3>2, <4>1, <5>1
      <4>. QED
        BY <2>4, <3>1, <4>2
    <3>. QED
      BY <3>1, <3>2
  <2> DEFINE first == CHOOSE i \in Won(scored) : best(i)
  <2>6. first \in Won(scored) /\ best(first)
    BY <2>5
  <2>7. Winner(scored) = scored[first]
    BY Zenon DEF Winner
  <2> HIDE DEF first, walls, ties
  <2>8. Fastest(scored) = scored[first].seen.wall
    BY <1>5, <2>7 DEF Fastest
  <2>9. \A j \in Won(scored) : scored[first].seen.wall <= scored[j].seen.wall
    BY <1>3, <2>6
  <2>. QED
    BY <1>2, <1>3, <1>5, <2>6, <2>8, <2>9
<1>. QED
  BY <1>4, <1>5

\* Measuring more never makes the best time worse.
LEMMA FastestImproves ==
  ASSUME SearchAssumption, NEW few \in Seq(Scored), NEW all \in Seq(Scored),
         Len(few) <= Len(all), \A i \in DOMAIN few : all[i] = few[i]
  PROVE  Fastest(all) <= Fastest(few)
<1>1. /\ DOMAIN few = 1..Len(few) /\ Len(few) \in Nat
      /\ DOMAIN all = 1..Len(all) /\ Len(all) \in Nat
  BY LenProperties
<1>2. \A i \in Won(few) : i \in Won(all) /\ all[i] = few[i]
  BY <1>1 DEF Won
<1>3. CASE Won(few) = {}
  BY <1>3, FastestIs
<1>4. CASE Won(few) # {}
  <2>1. PICK i \in Won(few) : Fastest(few) = few[i].seen.wall
    BY <1>4, FastestIs
  <2>2. i \in Won(all) /\ all[i] = few[i]
    BY <1>2
  <2>3. Fastest(all) <= all[i].seen.wall
    BY <2>2, FastestIs
  <2>. QED
    BY <2>1, <2>2, <2>3
<1>. QED
  BY <1>3, <1>4

\* No more edits were measured than candidates.
LEMMA MeasuredCount ==
  ASSUME NEW scored \in Seq(Scored)
  PROVE  /\ IsFiniteSet(Measured(scored)) /\ Cardinality(Measured(scored)) \in Nat
         /\ Cardinality(Measured(scored)) <= Len(scored)
<1> DEFINE edit == [i \in DOMAIN scored |-> scored[i].edit]
<1>1. DOMAIN scored = 1..Len(scored) /\ Len(scored) \in Nat
  BY LenProperties
<1>2. edit \in Surjection(1..Len(scored), Measured(scored))
  BY <1>1 DEF Surjection, Measured
<1>3. IsFiniteSet(1..Len(scored)) /\ Cardinality(1..Len(scored)) = Len(scored)
  BY <1>1, CountFromOne
<1> HIDE DEF edit
<1>4. IsFiniteSet(Measured(scored)) /\ Cardinality(Measured(scored)) <= Cardinality(1..Len(scored))
  BY <1>2, <1>3, FS_Surjection
<1>. QED
  BY <1>3, <1>4, FS_CardinalityType

-----------------------------------------------------------------------------
(* The invariant is kept by every step *)

LEMMA InvInit == Init => IInv
<1> SUFFICES ASSUME Init PROVE IInv
  OBVIOUS
<1>1. \A S : <<>> \in Seq(S) /\ Len(<<>>) = 0 /\ DOMAIN <<>> = {}
  BY ElementsAre, EmptySeq
<1>2. MaxCandidates \in Nat
  BY SearchAssumption DEF SearchAssumption
<1>3. Memory = <<>> /\ ~InSearch
  BY DEF Init, Memory, InSearch
<1>4. Shape
  BY <1>1, <1>3 DEF Init, Shape
<1>5. Recalled
  BY <1>1, <1>2, <1>3 DEF Init, Recalled, ById, Distinct
<1>6. Continued /\ Pending /\ OnRecord
  BY <1>1, <1>2, <1>3 DEF Init, Continued, Pending, OnRecord, Distinct
<1>. QED
  BY <1>4, <1>5, <1>6 DEF IInv

\* What was not returned is gone, and what was kept is as it was.
LEMMA LoseKeeps ==
  ASSUME IInv, Lose, UNCHANGED <<saved, journal>>
  PROVE  IInv'
<1>1. \A S : <<>> \in Seq(S) /\ Len(<<>>) = 0 /\ DOMAIN <<>> = {}
  BY ElementsAre, EmptySeq
<1>2. MaxCandidates \in Nat
  BY SearchAssumption DEF SearchAssumption
<1>3. Memory' = Memory /\ ~InSearch'
  BY DEF Lose, Memory, InSearch
<1>4. Shape'
  BY <1>1, <1>3 DEF IInv, Lose, Shape
<1>5. Recalled'
  BY <1>3 DEF IInv, Recalled, ById, Distinct
<1>6. Continued' /\ Pending' /\ OnRecord'
  BY <1>1, <1>2, <1>3 DEF Lose, Continued, Pending, OnRecord, Distinct
<1>. QED
  BY <1>4, <1>5, <1>6 DEF IInv

\* A search that begins holds the memory and nothing else.
LEMMA OptimizeKeeps ==
  ASSUME IInv, Optimize
  PROVE  IInv'
<1>1. \A S : <<>> \in Seq(S) /\ Len(<<>>) = 0 /\ DOMAIN <<>> = {}
  BY ElementsAre, EmptySeq
<1>2. /\ archive' = Memory /\ known' = Len(Memory) /\ rounds' = <<>> /\ batch' = <<>>
      /\ stage' = "writing" /\ UNCHANGED <<saved, journal>>
  BY RememberedIsMemory DEF IInv, Optimize, Begin, loopVars
<1>3. Memory \in Seq(Scored) /\ Memory' = Memory /\ InSearch'
  BY <1>2 DEF IInv, Shape, Memory, InSearch
<1>4. Len(Memory) \in Nat
  BY <1>3, ElementsAre
<1>5. Shape'
  BY <1>1, <1>2, <1>3, <1>4 DEF IInv, Shape
<1>6. Recalled'
  BY <1>2, <1>3 DEF IInv, Recalled, ById, Distinct
<1>7. Continued'
  BY <1>2, <1>3, <1>4 DEF IInv, Recalled, Continued
<1>8. Pending' /\ OnRecord'
  <2>1. \A k : k \notin Len(Memory) + 1..Len(Memory)
    BY <1>4
  <2>2. Len(Memory) + 0 <= MaxCandidates
    BY <1>4 DEF IInv, Recalled
  <2>. QED
    BY <1>1, <1>2, <2>1, <2>2 DEF Pending, OnRecord, Distinct
<1>. QED
  BY <1>5, <1>6, <1>7, <1>8 DEF IInv

\* A stage of the search that measures nothing and proposes nothing.
LEMMA WaitKeeps ==
  ASSUME IInv, InSearch, InSearch', stage # "applying", stage' # "applying",
         UNCHANGED <<archive, known, rounds, batch, saved, journal>>
  PROVE  IInv'
<1>1. Memory' = Memory
  BY DEF Memory
<1>2. Shape' /\ Recalled' /\ Continued'
  BY <1>1 DEF IInv, Shape, Recalled, Continued, ById, Distinct
<1>3. Pending' /\ OnRecord'
  BY DEF IInv, Pending, OnRecord, Distinct, Measured
<1>. QED
  BY <1>2, <1>3 DEF IInv

\* An audit leaves the search and its memory alone.
LEMMA AuditKeeps ==
  ASSUME IInv, ~InSearch, stage' \in {"idle", "attacking"},
         UNCHANGED <<archive, known, rounds, batch, saved, journal>>
  PROVE  IInv'
<1>1. Memory' = Memory /\ ~InSearch' /\ stage # "applying" /\ stage' # "applying"
  BY DEF Memory, InSearch
<1>2. Shape' /\ Recalled' /\ Continued'
  BY <1>1 DEF IInv, Shape, Recalled, Continued, ById, Distinct
<1>3. Pending' /\ OnRecord'
  BY <1>1 DEF IInv, Pending, OnRecord, Distinct, Measured
<1>. QED
  BY <1>2, <1>3 DEF IInv

\* What a reply leaves is new, numbered on from the archive, and fits in it.
LEMMA RoundIs ==
  ASSUME IInv, Len(archive) < MaxCandidates, NEW reply \in Replies, NEW kept,
         kept = Numbered(reply)
  PROVE  /\ kept \in Seq(Candidate) /\ Len(archive) + Len(kept) <= MaxCandidates
         /\ DOMAIN kept = 1..Len(kept) /\ Len(kept) \in Nat /\ (kept = <<>> <=> Len(kept) = 0)
         /\ Distinct(kept)
         /\ \A i \in DOMAIN kept : kept[i].edit \notin Measured(archive) /\ kept[i].id = Len(archive) + i
<1>1. Len(archive) \in Nat /\ MaxCandidates \in Nat /\ PerRound \in Nat
  BY ElementsAre, SearchAssumption DEF IInv, Shape, SearchAssumption
<1>2. Wanted \in Nat /\ Len(archive) + Wanted <= MaxCandidates
  BY <1>1 DEF Wanted
<1>3. PICK n \in 0..Wanted : reply \in [1..n -> [approach : Approaches, edit : Edits]]
  BY DEF Replies
<1>4. \A i \in DOMAIN reply : ~Objection(reply, i)
  BY DEF Replies
<1>5. n \in Nat /\ n <= Wanted /\ DOMAIN reply = 1..n
  BY <1>2, <1>3
<1>6. \A i \in 1..n : kept[i] = [id |-> Len(archive) + i, approach |-> reply[i].approach, edit |-> reply[i].edit]
  BY <1>5 DEF Numbered
<1>7. ASSUME NEW i \in 1..n PROVE kept[i] \in Candidate
  <2>1. reply[i] \in [approach : Approaches, edit : Edits] /\ Len(archive) + i \in Nat
    BY <1>1, <1>3, <1>5
  <2>2. reply[i].approach \in Approaches /\ reply[i].edit \in Edits
    BY <2>1
  <2>3. kept[i] = [id |-> Len(archive) + i, approach |-> reply[i].approach, edit |-> reply[i].edit]
    BY <1>6
  <2>. QED
    BY ONLY <2>1, <2>2, <2>3 DEF Candidate
<1>8. kept \in [1..n -> Candidate]
  <2>1. DOMAIN kept = 1..n /\ kept = [i \in 1..n |-> kept[i]]
    BY <1>5 DEF Numbered
  <2>. QED
    BY <1>7, <2>1
<1>9. kept \in Seq(Candidate) /\ Len(kept) = n
  <2>1. kept \in Seq(Candidate)
    BY <1>5, <1>8, SeqDef
  <2>. QED
    BY <1>5, <1>8, <2>1, LenProperties
<1>10. ASSUME NEW i \in DOMAIN kept, NEW j \in DOMAIN kept, kept[i].edit = kept[j].edit, i < j
       PROVE  FALSE
  <2>1. i \in 1..n /\ j \in 1..n /\ i \in 1..j - 1 /\ reply[i].edit = reply[j].edit
    BY <1>5, <1>6, <1>8, <1>10
  <2>2. Objection(reply, j)
    BY <2>1 DEF Objection
  <2>. QED
    BY <1>4, <1>5, <2>1, <2>2
<1>11. Distinct(kept)
  <2>1. DOMAIN kept = 1..n
    BY <1>8
  <2> SUFFICES ASSUME NEW i \in 1..n, NEW j \in 1..n, kept[i].edit = kept[j].edit, i # j
               PROVE  FALSE
    BY <2>1 DEF Distinct
  <2>2. i < j \/ j < i
    BY <1>5
  <2>. QED
    BY <1>10, <2>1, <2>2
<1>12. \A i \in DOMAIN kept : kept[i].edit \notin Measured(archive) /\ kept[i].id = Len(archive) + i
  BY <1>4, <1>5, <1>6, <1>8 DEF Objection
<1>. QED
  BY <1>1, <1>2, <1>5, <1>9, <1>11, <1>12, ElementsAre

LEMMA AskRoundKeeps ==
  ASSUME IInv, AskRound, UNCHANGED <<saved, journal>>
  PROVE  IInv'
<1>1. PICK reply \in Replies :
        /\ rounds' = Rounds(Numbered(reply)) /\ batch' = Numbered(reply)
        /\ stage' = IF Numbered(reply) = <<>> THEN "proposing" ELSE "applying"
  BY DEF AskRound
<1> DEFINE kept == Numbered(reply)
           round == [rung |-> Escalation, ids |-> {kept[i].id : i \in DOMAIN kept}]
<1>2. /\ Len(archive) < MaxCandidates /\ UNCHANGED <<archive, known>>
      /\ rounds' = Append(rounds, round) /\ batch' = kept
      /\ InSearch /\ InSearch' /\ (stage' = "applying" <=> batch' # <<>>)
  BY <1>1 DEF AskRound, Rounds, InSearch
<1> HIDE DEF kept
<1>3. /\ kept \in Seq(Candidate) /\ Len(archive) + Len(kept) <= MaxCandidates
      /\ DOMAIN kept = 1..Len(kept) /\ Len(kept) \in Nat /\ (kept = <<>> <=> Len(kept) = 0)
      /\ Distinct(kept)
      /\ \A i \in DOMAIN kept : kept[i].edit \notin Measured(archive) /\ kept[i].id = Len(archive) + i
  BY <1>2, RoundIs DEF kept
<1>4. Escalation \in Nat
  <2>1. ASSUME rounds # <<>> PROVE rounds[Len(rounds)] \in [rung : Nat, ids : SUBSET Nat]
    BY <2>1, LastIs DEF IInv, Shape
  <2>2. LastRung \in Nat
    BY <2>1 DEF LastRung
  <2>. QED
    BY <2>2 DEF Escalation
<1>5. round \in [rung : Nat, ids : SUBSET Nat]
  <2>1. \A i \in DOMAIN kept : kept[i].id \in Nat
    BY <1>3, ElementsAre DEF Candidate
  <2>. QED
    BY <1>4, <2>1
<1>6. \A i \in DOMAIN kept : kept[i].id \in round.ids
  OBVIOUS
<1> HIDE DEF round
<1>7. /\ rounds' \in Seq([rung : Nat, ids : SUBSET Nat]) /\ Len(rounds') = Len(rounds) + 1
      /\ DOMAIN rounds' = 1..Len(rounds) + 1 /\ DOMAIN rounds = 1..Len(rounds) /\ Len(rounds) \in Nat
      /\ \A i \in DOMAIN rounds : i \in DOMAIN rounds' /\ rounds'[i] = rounds[i]
      /\ rounds'[Len(rounds')] = round
  BY <1>2, <1>5, AppendIs DEF IInv, Shape
<1>8. rounds' # <<>>
  BY <1>7, ElementsAre
<1>9. Shape'
  BY <1>2, <1>3, <1>7 DEF IInv, Shape
<1>10. Recalled' /\ Continued'
  BY <1>2 DEF IInv, Recalled, Continued, Memory, ById, Distinct
<1>11. Pending'
  BY <1>2, <1>3, <1>6, <1>7, <1>8 DEF Pending, Distinct, Measured
<1>12. OnRecord'
  BY <1>2, <1>7 DEF IInv, OnRecord
<1>. QED
  BY <1>9, <1>10, <1>11, <1>12 DEF IInv

\* The candidate measured next is the first that waits.
LEMMA ApplyIs ==
  ASSUME IInv, Apply
  PROVE  \E seen \in Results :
           LET one == [id |-> Len(archive) + 1, approach |-> batch[1].approach,
                       edit |-> batch[1].edit, seen |-> seen, round |-> Len(rounds)] IN
           /\ one \in Scored /\ archive' = Append(archive, one)
           /\ one.edit \notin Measured(archive)
           /\ rounds # <<>> /\ one.id \in rounds[Len(rounds)].ids
           /\ batch # <<>> /\ Len(batch) \in Nat /\ Len(archive) + Len(batch) <= MaxCandidates
<1>1. stage = "applying" /\ batch # <<>>
  BY DEF Apply, IInv, Pending
<1>2. 1 \in DOMAIN batch /\ batch[1] \in Candidate /\ Len(batch) \in Nat
  BY <1>1, ElementsAre DEF IInv, Shape
<1>3. /\ batch[1].id = Len(archive) + 1 /\ batch[1].edit \notin Measured(archive)
      /\ rounds # <<>> /\ batch[1].id \in rounds[Len(rounds)].ids
      /\ Len(archive) + Len(batch) <= MaxCandidates
  BY <1>2 DEF IInv, Pending
<1>4. Len(rounds) \in Nat /\ Len(archive) \in Nat
  BY ElementsAre DEF IInv, Shape
<1>5. PICK seen \in Results :
        archive' = Append(archive, [id |-> batch[1].id, approach |-> batch[1].approach,
                                    edit |-> batch[1].edit, seen |-> seen, round |-> Len(rounds)])
  BY DEF Apply
<1> DEFINE one == [id |-> Len(archive) + 1, approach |-> batch[1].approach,
                   edit |-> batch[1].edit, seen |-> seen, round |-> Len(rounds)]
<1>6. one \in Scored
  BY <1>2, <1>4 DEF Candidate, Scored
<1>7. archive' = Append(archive, one)
  BY <1>3, <1>5
<1>. QED
  BY <1>1, <1>2, <1>3, <1>6, <1>7

LEMMA ApplyKeeps ==
  ASSUME IInv, Apply, UNCHANGED <<saved, journal>>
  PROVE  IInv'
<1>1. PICK seen \in Results :
         LET one == [id |-> Len(archive) + 1, approach |-> batch[1].approach,
                     edit |-> batch[1].edit, seen |-> seen, round |-> Len(rounds)] IN
         /\ one \in Scored /\ archive' = Append(archive, one)
         /\ one.edit \notin Measured(archive)
         /\ rounds # <<>> /\ one.id \in rounds[Len(rounds)].ids
         /\ batch # <<>> /\ Len(batch) \in Nat /\ Len(archive) + Len(batch) <= MaxCandidates
  BY ApplyIs
<1> DEFINE one == [id |-> Len(archive) + 1, approach |-> batch[1].approach,
                   edit |-> batch[1].edit, seen |-> seen, round |-> Len(rounds)]
<1>2. one.id = Len(archive) + 1 /\ one.edit = batch[1].edit /\ one.round = Len(rounds)
  OBVIOUS
<1>3. /\ one \in Scored /\ archive' = Append(archive, one)
      /\ one.edit \notin Measured(archive)
      /\ rounds # <<>> /\ one.id \in rounds[Len(rounds)].ids
      /\ batch # <<>> /\ Len(batch) \in Nat /\ Len(archive) + Len(batch) <= MaxCandidates
  BY <1>1
<1> HIDE DEF one
<1>4. /\ archive' \in Seq(Scored) /\ Len(archive') = Len(archive) + 1 /\ Len(archive) \in Nat
      /\ DOMAIN archive' = 1..Len(archive) + 1 /\ DOMAIN archive = 1..Len(archive)
      /\ \A i \in 1..Len(archive) : archive'[i] = archive[i]
      /\ archive'[Len(archive) + 1] = one
  BY <1>3, AppendIs DEF IInv, Shape
<1>5. /\ batch' \in Seq(Candidate) /\ Len(batch') = Len(batch) - 1 /\ Len(batch) \in Nat \ {0}
      /\ DOMAIN batch' = 1..Len(batch) - 1 /\ DOMAIN batch = 1..Len(batch)
      /\ \A i \in 1..Len(batch) - 1 : batch'[i] = batch[i + 1]
  BY <1>3, TailIs, ElementsAre DEF IInv, Shape, Apply
<1>6. UNCHANGED <<known, rounds>> /\ InSearch /\ InSearch'
  BY DEF Apply, InSearch
<1>7. Memory' = Memory
  BY DEF Memory
<1>8. Shape'
  BY <1>4, <1>5, <1>6 DEF IInv, Shape
<1>9. Recalled'
  BY <1>7 DEF IInv, Recalled, ById, Distinct
<1>10. Continued'
  <2>1. ById(archive)'
    BY <1>2, <1>4, <1>6 DEF IInv, Continued, ById
  <2>2. \A i \in 1..Len(archive) : archive[i].edit # one.edit
    BY <1>3, <1>4 DEF Measured
  <2>3. Distinct(archive)'
    BY <1>4, <1>6, <2>2 DEF IInv, Continued, Distinct
  <2>4. Len(Memory) \in Nat /\ DOMAIN Memory = 1..Len(Memory)
    BY ElementsAre DEF IInv, Shape, Memory
  <2>5. Len(Memory) <= Len(archive') /\ \A i \in DOMAIN Memory : archive'[i] = Memory[i]
    BY <1>4, <1>6, <2>4 DEF IInv, Continued
  <2>. QED
    BY <1>6, <1>7, <2>1, <2>3, <2>5 DEF IInv, Continued
<1>11. Pending'
  <2>1. stage' = "applying" <=> batch' # <<>>
    BY <1>5, ElementsAre DEF Apply
  <2>2. Len(archive') + Len(batch') <= MaxCandidates
    <3>1. Len(archive') + Len(batch') = Len(archive) + Len(batch)
      BY <1>4, <1>5
    <3>. QED
      BY <1>3, <3>1
  <2>3. ASSUME NEW i \in DOMAIN batch'
        PROVE  /\ i + 1 \in DOMAIN batch /\ 1 \in DOMAIN batch /\ i + 1 # 1
               /\ batch'[i] = batch[i + 1]
    BY <1>5
  <2>4. Distinct(batch)'
    <3> SUFFICES ASSUME NEW i \in DOMAIN batch', NEW j \in DOMAIN batch',
                        batch'[i].edit = batch'[j].edit
                 PROVE  i = j
      BY DEF Distinct
    <3>1. i + 1 = j + 1
      BY <2>3 DEF IInv, Pending, Distinct
    <3>. QED
      BY <1>5, <3>1
  <2>5. ASSUME NEW i \in DOMAIN batch' PROVE batch'[i].edit \notin Measured(archive')
    <3>1. batch'[i].edit # one.edit /\ batch'[i].edit \notin Measured(archive)
      BY <1>2, <2>3 DEF IInv, Pending, Distinct
    <3>. QED
      BY <1>4, <3>1 DEF Measured
  <2>6. ASSUME NEW i \in DOMAIN batch'
        PROVE  batch'[i].id = Len(archive') + i /\ batch'[i].id \in rounds[Len(rounds)].ids
    <3>1. batch'[i].id = Len(archive) + (i + 1) /\ batch'[i].id \in rounds[Len(rounds)].ids
      BY <2>3 DEF IInv, Pending
    <3>. QED
      BY <1>4, <1>5, <3>1
  <2>. QED
    BY <1>3, <1>6, <2>1, <2>2, <2>4, <2>5, <2>6 DEF Pending
<1>12. OnRecord'
  <2>1. Len(rounds) \in DOMAIN rounds
    BY <1>3, ElementsAre DEF IInv, Shape
  <2>2. known \in Nat
    BY DEF IInv, Shape
  <2> SUFFICES ASSUME NEW k \in known + 1..Len(archive) + 1
               PROVE  archive'[k].round \in DOMAIN rounds /\ archive'[k].id \in rounds[archive'[k].round].ids
    BY <1>4, <1>6 DEF OnRecord
  <2>3. CASE k = Len(archive) + 1
    BY <1>2, <1>3, <1>4, <2>1, <2>3
  <2>4. CASE k # Len(archive) + 1
    <3>1. k \in known + 1..Len(archive) /\ k \in 1..Len(archive)
      BY <1>4, <2>2, <2>4
    <3>. QED
      BY <1>4, <3>1 DEF IInv, OnRecord
  <2>. QED
    BY <2>3, <2>4
<1>. QED
  BY <1>8, <1>9, <1>10, <1>11, <1>12 DEF IInv

\* Filing the next of the archive's candidates keeps the memory a part of it.
LEMMA JournalOneKeeps ==
  ASSUME IInv, JournalOne
  PROVE  IInv'
<1>1. /\ HasJournal /\ Len(journal) < Len(archive) /\ stage = "recording" /\ InSearch /\ InSearch'
      /\ journal' = Append(journal, archive[Len(journal) + 1])
      /\ UNCHANGED <<stage, archive, known, rounds, batch, saved>>
  BY DEF JournalOne, Unfiled, InSearch, searchVars
<1>2. Memory = journal /\ Memory' = journal'
  BY <1>1 DEF Memory
<1>3. /\ DOMAIN archive = 1..Len(archive) /\ Len(archive) \in Nat /\ Len(journal) \in Nat
      /\ \A i \in DOMAIN archive : archive[i] \in Scored
      /\ DOMAIN journal = 1..Len(journal)
  BY ElementsAre DEF IInv, Shape
<1>4. Len(journal) + 1 \in DOMAIN archive
  BY <1>1, <1>3
<1>5. /\ journal' \in Seq(Scored) /\ Len(journal') = Len(journal) + 1
      /\ DOMAIN journal' = 1..Len(journal) + 1
      /\ \A i \in 1..Len(journal) : journal'[i] = journal[i]
      /\ journal'[Len(journal) + 1] = archive[Len(journal) + 1]
  BY <1>1, <1>3, <1>4, AppendIs DEF IInv, Shape
<1>6. \A i \in DOMAIN journal' : i \in DOMAIN archive /\ journal'[i] = archive[i]
  <2>1. \A i \in DOMAIN journal : journal[i] = archive[i]
    BY <1>1, <1>2 DEF IInv, Continued
  <2>. QED
    BY <1>1, <1>3, <1>5, <2>1
<1>7. Shape'
  BY <1>1, <1>5 DEF IInv, Shape
<1>8. Recalled'
  <2>1. ById(archive) /\ Distinct(archive)
    BY <1>1 DEF IInv, Continued
  <2>2. ById(journal') /\ Distinct(journal')
    BY <1>6, <2>1 DEF ById, Distinct
  <2>3. Len(journal') <= MaxCandidates
    <3>1. Len(archive) + Len(batch) <= MaxCandidates /\ Len(batch) \in Nat
      BY ElementsAre DEF IInv, Pending, Shape
    <3>2. MaxCandidates \in Nat
      BY SearchAssumption DEF SearchAssumption
    <3>. QED
      BY <1>1, <1>3, <1>5, <3>1, <3>2
  <2>4. \A i \in DOMAIN saved' : saved'[i].id \in DOMAIN journal' /\ saved'[i] = journal'[saved'[i].id]
    BY <1>1, <1>2, <1>3, <1>5 DEF IInv, Recalled
  <2>. QED
    BY <1>2, <2>2, <2>3, <2>4 DEF Recalled, ById, Distinct
<1>9. Continued'
  <2>1. Len(journal') <= Len(archive)
    BY <1>1, <1>3, <1>5
  <2>2. known <= Len(journal')
    BY <1>1, <1>2, <1>3, <1>5 DEF IInv, Shape, Continued
  <2>. QED
    BY <1>1, <1>2, <1>6, <2>1, <2>2 DEF IInv, Continued, ById, Distinct
<1>10. Pending' /\ OnRecord'
  BY <1>1 DEF IInv, Pending, OnRecord, Distinct, Measured
<1>. QED
  BY <1>7, <1>8, <1>9, <1>10 DEF IInv

\* What is returned with what was journalled is all that was measured.
LEMMA ReturnIs ==
  ASSUME IInv, Return
  PROVE  /\ Memory' = archive /\ saved' \in Seq(Scored)
         /\ \A i \in DOMAIN saved' : saved'[i].id \in DOMAIN archive /\ saved'[i] = archive[saved'[i].id]
<1> DEFINE fresh == SubSeq(archive, known + 1, Len(archive))
<1>1. /\ saved' = saved \o fresh /\ journal' = journal /\ stage = "recording"
      /\ HasJournal => ~(Len(journal) < Len(archive))
  BY DEF Return, Unfiled
<1>2. /\ saved \in Seq(Scored) /\ journal \in Seq(Scored) /\ archive \in Seq(Scored) /\ known \in Nat
      /\ Memory \in Seq(Scored)
  BY DEF IInv, Shape, Memory
<1>3. /\ Len(archive) \in Nat /\ DOMAIN archive = 1..Len(archive) /\ \A i \in 1..Len(archive) : archive[i] \in Scored
      /\ Len(saved) \in Nat /\ DOMAIN saved = 1..Len(saved)
      /\ Len(journal) \in Nat /\ Len(Memory) \in Nat /\ DOMAIN Memory = 1..Len(Memory)
  BY <1>2, ElementsAre
<1>4. /\ ById(archive) /\ Len(Memory) <= Len(archive) /\ \A i \in DOMAIN Memory : archive[i] = Memory[i]
      /\ known <= Len(Memory) /\ (~HasJournal => known = Len(Memory))
  BY <1>1 DEF IInv, Continued, InSearch
<1>5. /\ fresh \in Seq(Scored) /\ Len(fresh) = Len(archive) - known /\ Len(fresh) \in Nat
      /\ \A j \in 1..Len(fresh) : fresh[j] = archive[known + j] /\ known + j \in DOMAIN archive
  <2>1. \A i \in known + 1..Len(archive) : archive[i] \in Scored
    BY <1>2, <1>3
  <2>2. /\ fresh \in Seq(Scored)
        /\ Len(fresh) = IF known + 1 <= Len(archive) THEN Len(archive) - (known + 1) + 1 ELSE 0
        /\ \A j \in 1..Len(archive) - (known + 1) + 1 : fresh[j] = archive[known + 1 + j - 1]
    BY <1>2, <1>3, <2>1, SubSeqProperties
  <2> HIDE DEF fresh
  <2>3. Len(fresh) = Len(archive) - known /\ Len(fresh) \in Nat
    <3>1. known <= Len(archive) /\ known \in Nat /\ Len(archive) \in Nat
      <4>1. known <= Len(Memory) /\ Len(Memory) <= Len(archive)
        BY <1>4
      <4>2. known \in Nat /\ Len(Memory) \in Nat /\ Len(archive) \in Nat
        BY <1>2, <1>3
      <4>. QED
        BY ONLY <4>1, <4>2
    <3>. QED
      BY ONLY <2>2, <3>1
  <2>4. ASSUME NEW j \in 1..Len(fresh) PROVE fresh[j] = archive[known + j] /\ known + j \in DOMAIN archive
    <3>1. j \in 1..Len(archive) - (known + 1) + 1 /\ known + 1 + j - 1 = known + j /\ known + j \in 1..Len(archive)
      BY <1>2, <1>3, <2>3
    <3>. QED
      BY <1>3, <2>2, <3>1
  <2>. QED
    BY <2>2, <2>3, <2>4
<1> HIDE DEF fresh
<1>6. /\ saved' \in Seq(Scored) /\ Len(saved') = Len(saved) + Len(fresh)
      /\ DOMAIN saved' = 1..Len(saved) + Len(fresh)
      /\ \A i \in 1..Len(saved) : saved'[i] = saved[i]
      /\ \A j \in 1..Len(fresh) : saved'[Len(saved) + j] = fresh[j]
  <2> DEFINE both == saved \o fresh
  <2>. saved \in Seq(Scored) /\ fresh \in Seq(Scored)
    BY <1>2, <1>5
  <2>1. /\ both \in Seq(Scored) /\ Len(both) = Len(saved) + Len(fresh)
        /\ DOMAIN both = 1..Len(saved) + Len(fresh)
        /\ \A i \in 1..Len(saved) : both[i] = saved[i]
        /\ \A j \in 1..Len(fresh) : both[Len(saved) + j] = fresh[j]
    BY ONLY saved \in Seq(Scored), fresh \in Seq(Scored), ConcatIs
  <2>2. saved' = both
    BY <1>1
  <2> HIDE DEF both
  <2>. QED
    BY <2>1, <2>2
<1>7. ASSUME NEW i \in DOMAIN saved'
      PROVE  saved'[i].id \in DOMAIN archive /\ saved'[i] = archive[saved'[i].id]
  <2>1. CASE i \in 1..Len(saved)
    <3>1. saved[i].id \in DOMAIN Memory /\ saved[i] = Memory[saved[i].id]
      BY <1>3, <2>1 DEF IInv, Recalled
    <3>. QED
      BY <1>3, <1>4, <1>6, <2>1, <3>1
  <2>2. CASE i \notin 1..Len(saved)
    <3>1. PICK j \in 1..Len(fresh) : i = Len(saved) + j
      <4>1. i - Len(saved) \in 1..Len(fresh) /\ i = Len(saved) + (i - Len(saved))
        BY <1>3, <1>5, <1>6, <2>2
      <4>. QED
        BY <4>1
    <3>2. saved'[i] = archive[known + j] /\ known + j \in DOMAIN archive
      BY <1>5, <1>6, <3>1
    <3>3. archive[known + j].id = known + j
      BY <1>4, <3>2 DEF ById
    <3>. QED
      BY <3>2, <3>3
  <2>. QED
    BY <2>1, <2>2
<1>8. Memory' = archive
  <2>1. CASE HasJournal
    <3>1. Memory = journal /\ Memory' = journal
      BY <1>1, <2>1 DEF Memory
    <3>2. ~(Len(journal) < Len(archive))
      BY <1>1, <2>1
    <3>3. Len(journal) = Len(archive)
      <4>1. Len(journal) <= Len(archive)
        BY <1>4, <3>1
      <4>2. Len(journal) \in Nat /\ Len(archive) \in Nat
        BY <1>3
      <4>. QED
        BY ONLY <3>2, <4>1, <4>2
    <3>4. \A i \in 1..Len(journal) : journal[i] = archive[i]
      BY <1>3, <1>4, <3>1
    <3>. QED
      BY <1>2, <3>1, <3>3, <3>4, SameSequence
  <2>2. CASE ~HasJournal
    <3>1. Memory = saved /\ Memory' = saved' /\ known = Len(saved)
      BY <1>4, <2>2 DEF Memory
    <3>2. Len(saved') = Len(archive)
      BY <1>3, <1>5, <1>6, <3>1
    <3>3. ASSUME NEW i \in 1..Len(saved') PROVE saved'[i] = archive[i]
      <4>1. CASE i \in 1..Len(saved)
        BY <1>3, <1>4, <1>6, <3>1, <4>1
      <4>2. CASE i \notin 1..Len(saved)
        <5>1. i - Len(saved) \in 1..Len(fresh) /\ i = Len(saved) + (i - Len(saved))
          BY <1>3, <1>5, <1>6, <4>2
        <5>. QED
          BY <1>5, <1>6, <3>1, <5>1
      <4>. QED
        BY <4>1, <4>2
    <3>. QED
      BY <1>2, <1>6, <3>1, <3>2, <3>3, SameSequence
  <2>. QED
    BY <2>1, <2>2
<1>. QED
  BY <1>6, <1>7, <1>8

LEMMA ReturnKeeps ==
  ASSUME IInv, Return
  PROVE  IInv'
<1>1. \A S : <<>> \in Seq(S) /\ Len(<<>>) = 0 /\ DOMAIN <<>> = {}
  BY ElementsAre, EmptySeq
<1>2. MaxCandidates \in Nat
  BY SearchAssumption DEF SearchAssumption
<1>3. /\ Memory' = archive /\ saved' \in Seq(Scored)
      /\ \A i \in DOMAIN saved' : saved'[i].id \in DOMAIN archive /\ saved'[i] = archive[saved'[i].id]
  BY ReturnIs
<1>4. /\ stage' = "idle" /\ archive' = <<>> /\ known' = 0 /\ rounds' = <<>> /\ batch' = <<>>
      /\ UNCHANGED journal /\ ~InSearch' /\ InSearch
  BY DEF Return, Lose, InSearch
<1>5. Shape'
  BY <1>1, <1>3, <1>4 DEF IInv, Shape
<1>6. Recalled'
  <2>1. Len(archive) <= MaxCandidates
    <3>1. Len(archive) \in Nat /\ Len(batch) \in Nat /\ Len(archive) + Len(batch) <= MaxCandidates
      BY ElementsAre DEF IInv, Shape, Pending
    <3>. QED
      BY <1>2, <3>1
  <2>2. ById(archive) /\ Distinct(archive)
    BY <1>4 DEF IInv, Continued
  <2>. QED
    BY <1>3, <2>1, <2>2 DEF Recalled, ById, Distinct
<1>7. Continued' /\ Pending' /\ OnRecord'
  BY <1>1, <1>2, <1>4 DEF Continued, Pending, OnRecord, Distinct
<1>. QED
  BY <1>5, <1>6, <1>7 DEF IInv

\* What a step does to the search and to its memory.
LEMMA Steps ==
  ASSUME [Next]_vars
  PROVE  \/ Optimize \/ JournalOne \/ Return
         \/ (AskRound \/ Apply \/ Lose) /\ UNCHANGED <<saved, journal>>
         \/ /\ InSearch /\ InSearch' /\ stage # "applying" /\ stage' # "applying"
            /\ UNCHANGED <<archive, known, rounds, batch, saved, journal>>
         \/ /\ ~InSearch /\ stage' \in {"idle", "attacking"}
            /\ UNCHANGED <<archive, known, rounds, batch, saved, journal>>
         \/ UNCHANGED vars
<1>1. CASE SearchStep /\ UNCHANGED <<reviewVars, loopVars>>
  BY <1>1 DEF SearchStep, Minted, TestRefused, NoTest, Stop, loopVars, InSearch
<1>2. CASE stage = "attacking" /\ ReviewStep /\ UNCHANGED <<searchVars, loopVars>>
  BY <1>2 DEF searchVars, loopVars, InSearch
<1>3. CASE AuditPatch
  BY <1>3 DEF AuditPatch, loopVars, InSearch
<1>4. CASE Decide
  BY <1>4 DEF Decide, InSearch
<1>5. CASE Halt \/ Fail
  BY <1>5 DEF Halt, Fail, loopVars
<1>. QED
  BY <1>1, <1>2, <1>3, <1>4, <1>5 DEF Next, Advance

LEMMA InvNext ==
  ASSUME IInv, [Next]_vars
  PROVE  IInv'
<1>1. CASE Optimize
  BY <1>1, OptimizeKeeps
<1>2. CASE JournalOne
  BY <1>2, JournalOneKeeps
<1>3. CASE Return
  BY <1>3, ReturnKeeps
<1>4. CASE AskRound /\ UNCHANGED <<saved, journal>>
  BY <1>4, AskRoundKeeps
<1>5. CASE Apply /\ UNCHANGED <<saved, journal>>
  BY <1>5, ApplyKeeps
<1>6. CASE Lose /\ UNCHANGED <<saved, journal>>
  BY <1>6, LoseKeeps
<1>7. CASE /\ InSearch /\ InSearch' /\ stage # "applying" /\ stage' # "applying"
           /\ UNCHANGED <<archive, known, rounds, batch, saved, journal>>
  BY <1>7, WaitKeeps
<1>8. CASE /\ ~InSearch /\ stage' \in {"idle", "attacking"}
           /\ UNCHANGED <<archive, known, rounds, batch, saved, journal>>
  BY <1>8, AuditKeeps
<1>9. CASE UNCHANGED vars
  BY <1>9 DEF vars, searchVars, loopVars, IInv, Shape, Recalled, Continued, Pending, OnRecord,
              Memory, InSearch, ById, Distinct, Measured
<1>. QED
  BY <1>1, <1>2, <1>3, <1>4, <1>5, <1>6, <1>7, <1>8, <1>9, Steps

\* What a search holds, what it still has to measure and what outlives it agree at every
\* step: repair.search, Optimizer._round, record_all and _remembered between them.
THEOREM Invariance == Spec => []IInv
<1>1. IInv /\ [Next]_vars => IInv'
  BY InvNext
<1>. QED
  BY <1>1, InvInit, PTL DEF Spec

-----------------------------------------------------------------------------
(* No edit twice *)

\* Optimizer._objection is enough: no edit is measured twice for a finding, however often
\* its search is resumed, sent back or renamed.
THEOREM OnceSafety == Spec => []NoEditMeasuredTwice
<1>1. IInv => NoEditMeasuredTwice
  <2> SUFFICES ASSUME IInv PROVE NoEditMeasuredTwice
    OBVIOUS
  <2>1. CASE InSearch
    BY <2>1 DEF IInv, Continued, Distinct, NoEditMeasuredTwice
  <2>2. CASE ~InSearch
    <3>1. archive = <<>> /\ archive \in Seq(Scored)
      BY <2>2 DEF IInv, Shape
    <3>2. DOMAIN archive = {}
      BY <3>1, ElementsAre
    <3>. QED
      BY <3>2 DEF NoEditMeasuredTwice
  <2>. QED
    BY <2>1, <2>2
<1>. QED
  BY <1>1, Invariance, PTL

-----------------------------------------------------------------------------
(* A dearer tier is earned *)

LEMMA EarnedByAskRound ==
  ASSUME IInv, EscalationIsEarned, AskRound
  PROVE  EscalationIsEarned'
<1>1. PICK reply \in Replies : rounds' = Rounds(Numbered(reply))
  BY DEF AskRound
<1> DEFINE round == [rung |-> Escalation, ids |-> {Numbered(reply)[i].id : i \in DOMAIN Numbered(reply)}]
           n     == Len(rounds)
<1>2. rounds' = Append(rounds, round) /\ round.rung = Escalation
  BY <1>1 DEF Rounds
<1> HIDE DEF round
<1>3. /\ n \in Nat /\ DOMAIN rounds = 1..n /\ DOMAIN rounds' = 1..n + 1
      /\ \A i \in 1..n : rounds'[i] = rounds[i] /\ rounds[i].rung \in Nat
      /\ rounds'[n + 1] = round
  <2> DEFINE T == [rung : Nat, ids : SUBSET Nat] \cup {round}
  <2>1. rounds \in Seq([rung : Nat, ids : SUBSET Nat])
    BY DEF IInv, Shape
  <2>2. ASSUME NEW i \in 1..n PROVE rounds[i].rung \in Nat
    <3>1. rounds[i] \in [rung : Nat, ids : SUBSET Nat]
      BY <2>1, ElementOfSeq
    <3>. QED
      BY <3>1
  <2>3. rounds \in Seq(T) /\ round \in T
    BY <2>1, SeqMonotonic
  <2> HIDE DEF T
  <2>. QED
    BY <1>2, <2>2, <2>3, AppendIs
<1>4. UNCHANGED <<archive, known>>
  BY DEF AskRound
<1> SUFFICES ASSUME NEW i \in 1..n + 1, rounds'[i].rung > 0
             PROVE  LET below == {j \in 1..i - 1 : rounds'[j].rung = rounds'[i].rung - 1} IN
                    /\ Cardinality(below) >= CheapAttempts
                    /\ \A k \in known + 1..Len(archive) :
                         archive[k].round \in below => ~archive[k].seen.tests
  BY <1>3, <1>4 DEF EscalationIsEarned
<1> DEFINE below == {j \in 1..i - 1 : rounds'[j].rung = rounds'[i].rung - 1}
<1>5. CASE i \in 1..n
  <2>1. below = {j \in 1..i - 1 : rounds[j].rung = rounds[i].rung - 1}
    BY <1>3, <1>5
  <2>. QED
    BY <1>3, <1>5, <2>1 DEF EscalationIsEarned
<1>6. CASE i = n + 1 /\ Spent(LastRung) /\ LastRung + 1 < Rungs
  <2>1. rounds'[i].rung = LastRung + 1 /\ LastRung \in Nat
    <3>1. rounds'[i].rung = LastRung + 1
      BY <1>2, <1>3, <1>6 DEF Escalation
    <3>2. rounds # <<>> => n \in 1..n
      BY <1>3, LastIs DEF IInv, Shape
    <3>3. LastRung \in Nat
      BY <1>3, <3>2 DEF LastRung
    <3>. QED
      BY <3>1, <3>3
  <2>2. below = OnRung(LastRung)
    BY <1>3, <1>6, <2>1 DEF OnRung
  <2>3. ASSUME NEW k \in known + 1..Len(archive), archive[k].round \in below
        PROVE  ~archive[k].seen.tests
    <3>1. archive[k].id \in rounds[archive[k].round].ids
      BY DEF IInv, OnRecord
    <3>2. archive[k].id \notin Passed
      BY <1>6, <2>2, <2>3, <3>1 DEF Spent
    <3>3. k \in DOMAIN archive
      <4>1. archive \in Seq(Scored) /\ known \in Nat
        BY DEF IInv, Shape
      <4>2. DOMAIN archive = 1..Len(archive) /\ Len(archive) \in Nat
        BY <4>1, LenProperties
      <4>. QED
        BY <4>1, <4>2
    <3>. QED
      BY <3>2, <3>3 DEF Passed
  <2>4. Cardinality(below) >= CheapAttempts
    BY <1>6, <2>2 DEF Spent
  <2>. QED
    BY <2>3, <2>4
<1>7. CASE i = n + 1 /\ ~(Spent(LastRung) /\ LastRung + 1 < Rungs)
  <2>1. rounds'[i].rung = LastRung
    BY <1>2, <1>3, <1>7 DEF Escalation
  <2>2. n \in 1..n /\ LastRung = rounds[n].rung
    <3>1. rounds # <<>>
      BY <2>1 DEF LastRung
    <3>. QED
      BY <1>3, <3>1, ElementsAre DEF LastRung, IInv, Shape
  <2>3. below = {j \in 1..n - 1 : rounds[j].rung = rounds[n].rung - 1}
    BY <1>3, <1>7, <2>1, <2>2
  <2>. QED
    BY <1>3, <2>1, <2>2, <2>3 DEF EscalationIsEarned
<1>8. i \in 1..n \/ i = n + 1
  BY <1>3
<1> HIDE DEF n
<1>. QED
  BY <1>5, <1>6, <1>7, <1>8

LEMMA EarnedByApply ==
  ASSUME IInv, EscalationIsEarned, Apply
  PROVE  EscalationIsEarned'
<1>1. /\ UNCHANGED <<known, rounds>> /\ Len(archive) \in Nat /\ Len(archive') = Len(archive) + 1
      /\ DOMAIN archive = 1..Len(archive)
      /\ \A k \in 1..Len(archive) : archive'[k] = archive[k]
      /\ archive'[Len(archive) + 1].round = Len(rounds)
  <2>1. PICK seen \in Results :
           LET one == [id |-> Len(archive) + 1, approach |-> batch[1].approach,
                       edit |-> batch[1].edit, seen |-> seen, round |-> Len(rounds)] IN
           one \in Scored /\ archive' = Append(archive, one)
    BY ApplyIs
  <2> DEFINE one == [id |-> Len(archive) + 1, approach |-> batch[1].approach,
                     edit |-> batch[1].edit, seen |-> seen, round |-> Len(rounds)]
  <2>2. one \in Scored /\ archive' = Append(archive, one) /\ one.round = Len(rounds)
    BY <2>1
  <2> HIDE DEF one
  <2>. QED
    BY <2>2, AppendIs DEF IInv, Shape, Apply
<1>2. DOMAIN rounds = 1..Len(rounds) /\ Len(rounds) \in Nat /\ known \in Nat
  BY ElementsAre DEF IInv, Shape
<1> SUFFICES ASSUME NEW i \in DOMAIN rounds, rounds[i].rung > 0
             PROVE  LET below == {j \in 1..i - 1 : rounds[j].rung = rounds[i].rung - 1} IN
                    /\ Cardinality(below) >= CheapAttempts
                    /\ \A k \in known + 1..Len(archive) + 1 :
                         archive'[k].round \in below => ~archive'[k].seen.tests
  BY <1>1 DEF EscalationIsEarned
<1> DEFINE below == {j \in 1..i - 1 : rounds[j].rung = rounds[i].rung - 1}
<1>3. /\ Cardinality(below) >= CheapAttempts
      /\ \A k \in known + 1..Len(archive) : archive[k].round \in below => ~archive[k].seen.tests
  BY DEF EscalationIsEarned
<1>4. Len(rounds) \notin below
  BY <1>2
<1> HIDE DEF below
<1>5. ASSUME NEW k \in known + 1..Len(archive) + 1, archive'[k].round \in below
      PROVE  ~archive'[k].seen.tests
  <2>1. k # Len(archive) + 1
    BY <1>1, <1>4, <1>5
  <2>2. k \in known + 1..Len(archive) /\ k \in 1..Len(archive)
    BY <1>1, <1>2, <2>1
  <2>. QED
    BY <1>1, <1>3, <1>5, <2>2
<1>. QED
  BY <1>3, <1>5 DEF below

\* Optimizer._escalation: the rounds on the tier below were CHEAP_ATTEMPTS and passed nothing,
\* and they are rounds of this search.
THEOREM EscalationSafety == Spec => []EscalationIsEarned
<1>1. Init => EscalationIsEarned
  <2>1. DOMAIN <<>> = {}
    BY ElementsAre, EmptySeq
  <2>. QED
    BY <2>1 DEF Init, EscalationIsEarned
<1>2. ASSUME IInv, EscalationIsEarned, [Next]_vars PROVE EscalationIsEarned'
  <2>1. DOMAIN <<>> = {}
    BY ElementsAre, EmptySeq
  <2>2. CASE rounds' = <<>>
    BY <2>1, <2>2 DEF EscalationIsEarned
  <2>3. CASE UNCHANGED <<archive, known, rounds>>
    BY <1>2, <2>3 DEF EscalationIsEarned
  <2>4. CASE AskRound
    BY <1>2, <2>4, EarnedByAskRound
  <2>5. CASE Apply
    BY <1>2, <2>5, EarnedByApply
  <2>. QED
    BY <1>2, <2>2, <2>3, <2>4, <2>5, Steps
       DEF Optimize, Begin, JournalOne, Return, Lose, vars, searchVars
<1>. QED
  BY <1>1, <1>2, Invariance, PTL DEF Spec

-----------------------------------------------------------------------------
(* What ships was compared *)

\* Only the verdict "clean" routes to ship, and PatchReview.verdict gives it only where some
\* input ran on both revisions, none broke and none of those varied.
THEOREM ComparedSafety == Spec => ClearedWasCompared
<1> DEFINE Compared ==
      due' = "ship" /\ due # "ship" =>
        /\ \E c \in Seen(compared) : c.both
        /\ \A c \in Seen(compared) : ~c.broke /\ (c.both => ~c.unstable)
<1>1. ASSUME [Next]_vars PROVE [Compared]_vars
  <2> SUFFICES ASSUME due' = "ship", due # "ship"
               PROVE  /\ \E c \in Seen(compared) : c.both
                      /\ \A c \in Seen(compared) : ~c.broke /\ (c.both => ~c.unstable)
    OBVIOUS
  <2>1. Decide
    BY <1>1 DEF Next, Advance, Optimize, AuditPatch, JournalOne, Return, Halt, Fail, loopVars, vars
  <2>2. Judge(Seen(compared)) = "clean"
    BY <2>1 DEF Decide, Routed, RouteOf, Judge
  <2>. QED
    BY <2>2 DEF Judge
<1>. QED
  BY <1>1, PTL DEF Spec, ClearedWasCompared

-----------------------------------------------------------------------------
(* The search is a BestSoFar *)

\* What is in hand is the archive in a search and the memory outside one, and it always begins
\* with the memory; a crash leaves the memory.
InHandIs ==
  /\ InHand = IF InSearch THEN archive ELSE Memory
  /\ Measured(journal) \cup Measured(saved) = Measured(Memory)
  /\ InHand \in Seq(Scored) /\ Memory \in Seq(Scored)
  /\ Len(Memory) <= Len(InHand) /\ \A i \in DOMAIN Memory : InHand[i] = Memory[i]

LEMMA InHandAlways == IInv => InHandIs
<1> SUFFICES ASSUME IInv PROVE InHandIs
  OBVIOUS
<1>1. Remembered = Memory
  BY RememberedIsMemory DEF IInv
<1>2. stage \in {"idle", "attacking"} <=> ~InSearch
  BY DEF IInv, Shape, InSearch
<1>3. InHand = IF InSearch THEN archive ELSE Memory
  BY <1>1, <1>2 DEF InHand
<1>4. InHand \in Seq(Scored) /\ Memory \in Seq(Scored)
  BY <1>3 DEF IInv, Shape, Memory
<1>5. Measured(journal) \cup Measured(saved) = Measured(Memory)
  <2>1. Measured(saved) \subseteq Measured(Memory)
    BY DEF IInv, Recalled, Measured
  <2>2. Measured(journal) \subseteq Measured(Memory)
    <3>1. CASE HasJournal
      BY <3>1 DEF Memory
    <3>2. CASE ~HasJournal
      <4>1. journal = <<>> /\ journal \in Seq(Scored)
        BY <3>2 DEF IInv, Shape
      <4>. QED
        BY <4>1, ElementsAre DEF Measured
    <3>. QED
      BY <3>1, <3>2
  <2>3. Memory = journal \/ Memory = saved
    BY DEF Memory
  <2>. QED
    BY <2>1, <2>2, <2>3
<1>6. Len(Memory) \in Nat
  BY <1>4, ElementsAre
<1>7. Len(Memory) <= Len(InHand) /\ \A i \in DOMAIN Memory : InHand[i] = Memory[i]
  BY <1>3, <1>6 DEF IInv, Continued
<1>. QED
  BY <1>3, <1>4, <1>5, <1>7 DEF InHandIs

\* Measuring a candidate tries one edit more, and is no worse for the best time.
LEMMA ApplyTries ==
  ASSUME SearchAssumption, IInv, InHandIs, InHandIs', Apply, UNCHANGED <<saved, journal>>
  PROVE  Best!Try
<1>1. PICK seen \in Results :
         LET one == [id |-> Len(archive) + 1, approach |-> batch[1].approach,
                     edit |-> batch[1].edit, seen |-> seen, round |-> Len(rounds)] IN
         /\ one \in Scored /\ archive' = Append(archive, one)
         /\ one.edit \notin Measured(archive)
         /\ batch # <<>> /\ Len(archive) + Len(batch) <= MaxCandidates
  BY ApplyIs
<1> DEFINE one == [id |-> Len(archive) + 1, approach |-> batch[1].approach,
                   edit |-> batch[1].edit, seen |-> seen, round |-> Len(rounds)]
<1>2. /\ one \in Scored /\ archive' = Append(archive, one)
      /\ one.edit \notin Measured(archive)
      /\ batch # <<>> /\ Len(archive) + Len(batch) <= MaxCandidates
  BY <1>1
<1>3. one.edit \in Edits
  BY <1>2 DEF Scored
<1> HIDE DEF one
<1>4. /\ archive \in Seq(Scored) /\ archive' \in Seq(Scored) /\ Len(archive') = Len(archive) + 1
      /\ Len(archive) \in Nat
      /\ DOMAIN archive' = 1..Len(archive) + 1 /\ DOMAIN archive = 1..Len(archive)
      /\ \A i \in 1..Len(archive) : archive'[i] = archive[i]
      /\ archive'[Len(archive) + 1] = one
  BY <1>2, AppendIs DEF IInv, Shape
<1>5. InHand = archive /\ InHand' = archive'
  BY DEF InHandIs, Apply, InSearch
<1>6. Measured(archive') = Measured(archive) \cup {one.edit}
  <2>1. \A e : e \in Measured(archive') <=> e \in Measured(archive) \/ e = one.edit
    BY <1>4 DEF Measured
  <2>. QED
    BY <2>1
<1>7. Cardinality(Measured(archive)) < MaxCandidates
  <2>1. Len(batch) \in Nat \ {0}
    BY <1>2, EmptySeq DEF IInv, Shape
  <2>2. Cardinality(Measured(archive)) \in Nat /\ Cardinality(Measured(archive)) <= Len(archive)
    BY <1>4, MeasuredCount
  <2>3. MaxCandidates \in Nat
    BY DEF SearchAssumption
  <2>. QED
    BY <1>2, <1>4, <2>1, <2>2, <2>3
<1>8. Fastest(archive') \in 0..Fastest(archive)
  <2>1. Fastest(archive') \in Nat /\ Fastest(archive) \in Nat
    BY <1>4, FastestIs
  <2>2. Len(archive) <= Len(archive') /\ \A i \in DOMAIN archive : archive'[i] = archive[i]
    BY <1>4
  <2>3. Fastest(archive') <= Fastest(archive)
    BY <1>4, <2>2, FastestImproves
  <2>. QED
    BY <2>1, <2>3
<1>9. Fastest(InHand)' = Fastest(archive') /\ Measured(InHand)' = Measured(archive')
  BY <1>5 DEF Fastest, Measured, Won, Wins, Beats, PaidElsewhere, Winner
<1>10. (Measured(journal) \cup Measured(saved))' = Measured(journal) \cup Measured(saved)
  BY DEF Measured
<1>11. Best!Cardinality(Measured(archive)) = Cardinality(Measured(archive))
  BY DEF Best!Cardinality, Cardinality, Best!IsFiniteSet, IsFiniteSet
<1>. QED
  BY <1>2, <1>3, <1>5, <1>6, <1>7, <1>8, <1>9, <1>10, <1>11 DEF Best!Try

\* What is filed, or returned, was measured.
LEMMA KeepKeeps ==
  ASSUME InHandIs, InHandIs', InHand' = InHand,
         Measured(Memory)' \subseteq Measured(InHand), Measured(Memory) \subseteq Measured(Memory)'
  PROVE  Best!Keep
<1> DEFINE more == Measured(Memory)' \ Measured(Memory)
           kept == Measured(journal) \cup Measured(saved)
<1>1. kept = Measured(Memory) /\ kept' = Measured(Memory)'
  BY DEF InHandIs
<1>2. more \in SUBSET (Measured(InHand) \ kept) /\ kept' = kept \cup more
  BY <1>1
<1>3. Fastest(InHand)' = Fastest(InHand) /\ Measured(InHand)' = Measured(InHand)
  BY DEF Fastest, Measured, Won, Wins, Beats, PaidElsewhere, Winner
<1>. QED
  BY <1>2, <1>3 DEF Best!Keep

LEMMA LoseLoses ==
  ASSUME SearchAssumption, IInv, InHandIs, InHandIs', Lose, UNCHANGED <<saved, journal>>
  PROVE  Best!Lose
<1>1. Memory' = Memory /\ ~InSearch' /\ InHand' = Memory
  BY DEF Lose, Memory, InSearch, InHandIs
<1>2. Fastest(InHand)' = Fastest(Memory) /\ Measured(InHand)' = Measured(Memory)
  BY <1>1 DEF Fastest, Measured, Won, Wins, Beats, PaidElsewhere, Winner
<1>3. Fastest(Memory) \in Fastest(InHand)..Baseline.wall
  <2>1. Fastest(InHand) \in Nat /\ Fastest(Memory) \in Nat /\ Fastest(Memory) <= Baseline.wall
    BY FastestIs DEF InHandIs
  <2>2. Fastest(InHand) <= Fastest(Memory)
    BY FastestImproves DEF InHandIs
  <2>3. Baseline.wall \in Nat
    BY DEF SearchAssumption
  <2>. QED
    BY <2>1, <2>2, <2>3
<1>4. Measured(journal) \cup Measured(saved) = Measured(Memory)
  BY DEF InHandIs
<1>5. (Measured(journal) \cup Measured(saved))' = Measured(journal) \cup Measured(saved)
  BY DEF Measured
<1>. QED
  BY <1>2, <1>3, <1>4, <1>5 DEF Best!Lose

LEMMA StutterIs ==
  ASSUME InHand' = InHand, UNCHANGED <<saved, journal>>
  PROVE  UNCHANGED Best!vars
  BY DEF Best!vars, Fastest, Measured, Won, Wins, Beats, PaidElsewhere, Winner

\* Rounds, journal, checkpoint, crash and resumption between them never try an edit twice,
\* never go past MAX_CANDIDATES, never worsen the best time but by a crash, and lose to it
\* nothing that was journalled or returned.
THEOREM BestKept == Spec => KeepsTheBest
<1>1. Init => Best!Init
  <2> SUFFICES ASSUME Init PROVE Best!Init
    OBVIOUS
  <2>1. IInv /\ Memory = <<>> /\ ~InSearch
    BY InvInit DEF Init, Memory, InSearch
  <2>2. InHandIs
    BY <2>1, InHandAlways
  <2>3. InHand = <<>> /\ InHand \in Seq(Scored) /\ Memory = <<>>
    BY <2>1, <2>2 DEF InHandIs
  <2>4. DOMAIN InHand = {}
    BY <2>3, ElementsAre
  <2>5. Measured(InHand) = {} /\ Won(InHand) = {} /\ Measured(Memory) = {}
    BY <2>3, <2>4 DEF Measured, Won
  <2>. QED
    BY <2>2, <2>5 DEF Best!Init, InHandIs, Fastest
<1>2. ASSUME IInv, IInv', InHandIs, InHandIs', [Next]_vars PROVE [Best!Next]_(Best!vars)
  <2>1. CASE Optimize
    <3>1. archive' = Memory /\ stage' = "writing" /\ stage = "idle" /\ UNCHANGED <<saved, journal>>
      BY <1>2, <2>1, RememberedIsMemory DEF IInv, Optimize, Begin, loopVars
    <3>2. InHand' = InHand
      BY <1>2, <3>1 DEF InHandIs, InSearch
    <3>. QED
      BY <3>1, <3>2, StutterIs
  <2>2. CASE AskRound /\ UNCHANGED <<saved, journal>>
    <3>1. InHand' = InHand
      BY <1>2, <2>2 DEF AskRound, InHandIs, InSearch
    <3>. QED
      BY <2>2, <3>1, StutterIs
  <2>3. CASE /\ InSearch /\ InSearch' /\ stage # "applying" /\ stage' # "applying"
             /\ UNCHANGED <<archive, known, rounds, batch, saved, journal>>
    <3>1. InHand' = InHand
      BY <1>2, <2>3 DEF InHandIs
    <3>. QED
      BY <2>3, <3>1, StutterIs
  <2>4. CASE /\ ~InSearch /\ stage' \in {"idle", "attacking"}
             /\ UNCHANGED <<archive, known, rounds, batch, saved, journal>>
    <3>1. InHand' = InHand
      BY <1>2, <2>4 DEF InHandIs, InSearch, Memory
    <3>. QED
      BY <2>4, <3>1, StutterIs
  <2>5. CASE UNCHANGED vars
    <3>1. InHand' = InHand
      BY <1>2, <2>5 DEF InHandIs, InSearch, Memory, vars, searchVars, loopVars
    <3>. QED
      BY <2>5, <3>1, StutterIs DEF vars, loopVars
  <2>6. CASE Apply /\ UNCHANGED <<saved, journal>>
    BY <1>2, <2>6, ApplyTries, SearchAssumption DEF Best!Next
  <2>7. CASE Lose /\ UNCHANGED <<saved, journal>>
    BY <1>2, <2>7, LoseLoses, SearchAssumption DEF Best!Next
  <2>8. CASE JournalOne
    <3>1. /\ InSearch /\ InSearch' /\ UNCHANGED archive
          /\ HasJournal /\ journal' = Append(journal, archive[Len(journal) + 1])
      BY <2>8 DEF JournalOne, Unfiled, InSearch, searchVars
    <3>2. InHand = archive /\ InHand' = archive
      BY <1>2, <3>1 DEF InHandIs
    <3>3. Memory \in Seq(Scored) /\ Memory' \in Seq(Scored) /\ archive \in Seq(Scored)
      BY <1>2, <3>1, <3>2 DEF InHandIs
    <3>4. \A i \in DOMAIN Memory' : i \in DOMAIN archive /\ Memory'[i] = archive[i]
      <4>1. Len(Memory') <= Len(archive) /\ \A i \in DOMAIN Memory' : archive[i] = Memory'[i]
        BY <1>2, <3>2 DEF InHandIs
      <4>. QED
        BY <3>3, <4>1, ElementsAre
    <3>5. \A i \in DOMAIN Memory : i \in DOMAIN Memory' /\ Memory'[i] = Memory[i]
      <4>1. Memory = journal /\ Memory' = journal'
        BY <3>1 DEF Memory
      <4>2. Len(journal) + 1 \in DOMAIN archive
        <5>1. Len(journal) < Len(archive) /\ journal \in Seq(Scored)
          BY <2>8, <3>3, <4>1 DEF JournalOne, Unfiled
        <5>. QED
          BY <3>3, <5>1, ElementsAre
      <4>3. archive[Len(journal) + 1] \in Scored
        BY <3>3, <4>2, ElementsAre
      <4>. QED
        BY <3>1, <3>3, <4>1, <4>3, AppendIs
    <3>6. Measured(Memory)' \subseteq Measured(InHand) /\ Measured(Memory) \subseteq Measured(Memory)'
      BY <3>2, <3>4, <3>5 DEF Measured
    <3>. QED
      BY <1>2, <3>2, <3>6, KeepKeeps DEF Best!Next
  <2>9. CASE Return
    <3>1. Memory' = archive /\ ~InSearch' /\ InSearch
      BY <1>2, <2>9, ReturnIs DEF Return, Lose, InSearch
    <3>2. InHand = archive /\ InHand' = archive
      BY <1>2, <3>1 DEF InHandIs
    <3>3. \A i \in DOMAIN Memory : i \in DOMAIN archive /\ archive[i] = Memory[i]
      <4>1. /\ Len(Memory) <= Len(archive) /\ \A i \in DOMAIN Memory : archive[i] = Memory[i]
            /\ Memory \in Seq(Scored) /\ archive \in Seq(Scored)
        BY <1>2, <3>2 DEF InHandIs
      <4>. QED
        BY <4>1, ElementsAre
    <3>4. Measured(Memory)' \subseteq Measured(InHand) /\ Measured(Memory) \subseteq Measured(Memory)'
      BY <3>1, <3>2, <3>3 DEF Measured
    <3>. QED
      BY <1>2, <3>2, <3>4, KeepKeeps DEF Best!Next
  <2>. QED
    BY <1>2, <2>1, <2>2, <2>3, <2>4, <2>5, <2>6, <2>7, <2>8, <2>9, Steps
<1>. QED
  BY <1>1, <1>2, Invariance, InHandAlways, PTL DEF Spec, KeepsTheBest, Best!Spec
=============================================================================
