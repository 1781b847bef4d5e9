--------------------------- MODULE PipelineProofs ---------------------------
(***************************************************************************)
(* For every value of Pipeline's constants: no node is reached without     *)
(* what it reads (no NodeError), the checkpoint carries every measurement  *)
(* its findings rest on, an audit always has the cited measurement at      *)
(* hand, and the patch that ships is the one last audited clean.  The four *)
(* are one inductive invariant.  On top of it: what is reported is of the  *)
(* patch that was audited, no update is refused for rewriting the history, *)
(* and the journal has what the checkpoint has.  Where a scan keeps        *)
(* one finding, the backlog is empty (at most one is open, and none when a *)
(* scan begins), and a run is one of FindingLife.                          *)
(***************************************************************************)
EXTENDS MCPipeline, TLAPS, SequenceTheorems, FiniteSetTheorems, WellFoundedInduction

-----------------------------------------------------------------------------
(* The inductive invariant *)

IsState(s) ==
  s = [next |-> s.next, runnable |-> s.runnable, measurements |-> s.measurements,
       findings |-> s.findings, resolved |-> s.resolved, candidates |-> s.candidates,
       repaired |-> s.repaired, audited |-> s.audited, shippedAt |-> s.shippedAt]

FindingType == [cites : Nat]

\* What the channels hold.
Shape ==
  /\ IsState(saved)
  /\ saved.findings \in Seq(FindingType)
  /\ saved.measurements \subseteq Nat
  /\ DOMAIN saved.resolved \subseteq DOMAIN saved.findings

AfterGround == {"scan", "audit_finding", "optimize", "audit_patch", "ship"}

\* The node due next finds what it reads.
Due ==
  /\ saved.next \in Nodes \cup {"none", "end"}
  /\ saved.next \in AfterGround => saved.runnable # None
  /\ saved.next = "audit_finding" => Unaudited # {}
  /\ saved.next \in {"optimize", "audit_patch", "ship"} => NextSound # {}
  /\ saved.next \in {"audit_patch", "ship"} => saved.repaired.finding \in NextSound

\* Inside a node the process stands where the checkpoint says, its ledger restored.
Place ==
  /\ at \in Nodes \cup {"idle", "between", "search", "record"}
  /\ at \in Nodes => saved.next = at
  /\ at \in {"search", "record"} => saved.next = "optimize"
  /\ at \in (Nodes \ {"refuse", "ship"}) \cup {"search", "record"} =>
       saved.measurements \subseteq ledger
  /\ at \notin {"ground", "scan"} => took = {}
  /\ took \subseteq ledger /\ ledger \subseteq Nat /\ minted \in Nat

IInv ==
  /\ Shape /\ Due /\ Place
  /\ CheckpointCarriesEvidence /\ ShipsWhatWasAudited /\ StateAndRouteAgree

-----------------------------------------------------------------------------
(* Lemmas *)

\* A non-empty set of positions has a first one.
LEMMA FirstIsIn ==
  ASSUME NEW S \in SUBSET Nat, S # {}
  PROVE  First(S) \in S
<1> DEFINE Less == OpToRel(<, Nat)
<1>1. IsWellFoundedOn(Less, Nat)
  BY NatLessThanWellFounded
<1>2. PICK f \in S : \A g \in S : <<g, f>> \notin Less
  BY <1>1, WFMin
<1>3. \A g \in S : f <= g
  <2>1. \A g \in S : <<g, f>> \in Nat \X Nat /\ <<g, f>>[1] = g /\ <<g, f>>[2] = f
    OBVIOUS
  <2>2. \A g \in S : ~ (g < f)
    BY <1>2, <2>1 DEF OpToRel
  <2>. QED
    BY <2>2
<1>. QED
  BY <1>3 DEF First

LEMMA NextSoundFirst ==
  ASSUME Shape, NextSound # {}
  PROVE  First(NextSound) \in NextSound
<1>1. NextSound \in SUBSET Nat
  BY LenProperties DEF Shape, NextSound
<1>. QED
  BY <1>1, FirstIsIn

LEMMA UnauditedFirst ==
  ASSUME Shape, Unaudited # {}
  PROVE  First(Unaudited) \in Unaudited
<1>1. Unaudited \in SUBSET Nat
  BY LenProperties DEF Shape, Unaudited
<1>. QED
  BY <1>1, FirstIsIn

\* What a node's return writes, when the append-only channels accept it.
Wrote(node, route, channels, measured, scored) ==
  /\ saved' = [next |-> Routes[node][route], runnable |-> channels.runnable,
               measurements |-> channels.measurements \cup measured,
               findings |-> channels.findings, resolved |-> channels.resolved,
               candidates |-> channels.candidates \o scored,
               repaired |-> channels.repaired, audited |-> channels.audited,
               shippedAt |-> channels.shippedAt]
  /\ at' = "between" /\ took' = {} /\ ledger' = ledger /\ minted' = minted /\ raised' = raised

LEMMA ReturnCases ==
  ASSUME NEW node, NEW route, NEW channels, NEW measured, NEW scored,
         IsState(channels), Return(node, route, channels, measured, scored)
  PROVE  Abort("history") \/ Wrote(node, route, channels, measured, scored)
  BY DEF Return, IsState, Wrote

\* Raising for a reason of its own leaves the checkpoint as it was.
LEMMA AbortKeeps ==
  ASSUME IInv, NEW why, why # "node", Abort(why)
  PROVE  IInv'
  BY DEF IInv, Abort, Shape, IsState, Due, Place, NextSound, Unaudited, Nodes,
         CheckpointCarriesEvidence, ShipsWhatWasAudited, StateAndRouteAgree

\* A step that keeps the checkpoint keeps all that is said of it.
LEMMA SavedKept ==
  ASSUME IInv, saved' = saved
  PROVE  /\ Shape' /\ Due' /\ CheckpointCarriesEvidence' /\ ShipsWhatWasAudited'
         /\ Unaudited' = Unaudited /\ NextSound' = NextSound
  BY DEF IInv, Shape, IsState, Due, NextSound, Unaudited,
         CheckpointCarriesEvidence, ShipsWhatWasAudited

-----------------------------------------------------------------------------
(* One lemma per group of actions *)

LEMMA InitInv == Init => IInv
<1> SUFFICES ASSUME Init PROVE IInv
  OBVIOUS
<1>1. Shape /\ CheckpointCarriesEvidence
  <2>1. saved.findings \in Seq(FindingType)
    BY EmptySeq DEF Init, NewState
  <2>2. DOMAIN saved.resolved = {} /\ DOMAIN saved.findings = {}
    BY DEF Init, NewState
  <2>. QED
    BY <2>1, <2>2 DEF Init, NewState, Shape, IsState, CheckpointCarriesEvidence
<1>2. Due /\ Place /\ ShipsWhatWasAudited /\ StateAndRouteAgree
  BY DEF Init, NewState, Due, Place, Nodes, AfterGround, ShipsWhatWasAudited, StateAndRouteAgree
<1>. QED
  BY <1>1, <1>2 DEF IInv

\* Starting, resuming, entering, parking, ending and dying move the process about.
LEMMA InvocationKeeps ==
  ASSUME IInv,
         Resume \/ (\E node \in Nodes : Enter(node)) \/ Park \/ RunOut \/ Finish \/ Crash \/ Raise
  PROVE  IInv'
<1>1. CASE RunOut \/ Raise
  BY <1>1, AbortKeeps DEF RunOut, Raise
<1>2. CASE Resume \/ Park \/ Finish \/ Crash
  <2>1. Place' /\ StateAndRouteAgree' /\ saved' = saved
    BY <1>2 DEF IInv, Resume, Park, Finish, Crash, process, Place, StateAndRouteAgree, Nodes
  <2>. QED
    BY <2>1, SavedKept DEF IInv
<1>3. ASSUME NEW node \in Nodes, Enter(node) PROVE IInv'
  <2>1. saved' = saved /\ StateAndRouteAgree'
    BY <1>3 DEF IInv, Enter, StateAndRouteAgree
  <2>2. Place'
    BY <1>3 DEF IInv, Enter, Place, Shape, Restored, Nodes
  <2>. QED
    BY <2>1, <2>2, SavedKept DEF IInv
<1>. QED
  BY <1>1, <1>2, <1>3

LEMMA StartKeeps == ASSUME IInv, Start \/ NewRun PROVE IInv'
<1>1. CASE Start
  BY <1>1 DEF IInv, Start, process, Shape, IsState, Due, Place, NextSound, Unaudited, Nodes,
              AfterGround, CheckpointCarriesEvidence, ShipsWhatWasAudited, StateAndRouteAgree
<1>2. CASE NewRun
  <2>1. Shape' /\ CheckpointCarriesEvidence'
    <3>1. saved'.findings \in Seq(FindingType)
      BY <1>2, EmptySeq DEF NewRun, NewState
    <3>2. DOMAIN saved'.resolved = {} /\ DOMAIN saved'.findings = {}
      BY <1>2 DEF NewRun, NewState
    <3>. QED
      BY <1>2, <3>1, <3>2 DEF NewRun, NewState, Shape, IsState, CheckpointCarriesEvidence
  <2>2. Due' /\ ShipsWhatWasAudited'
    BY <1>2 DEF NewRun, NewState, Due, Nodes, AfterGround, ShipsWhatWasAudited
  <2>3. Place' /\ StateAndRouteAgree'
    BY <1>2 DEF IInv, NewRun, NewState, process, Place, Nodes, StateAndRouteAgree
  <2>. QED
    BY <2>1, <2>2, <2>3 DEF IInv
<1>. QED
  BY <1>1, <1>2

\* Measuring, searching and journalling leave the checkpoint alone.
LEMMA WorkKeeps ==
  ASSUME IInv, Measure \/ OptimizeBegin \/ SearchMeasure \/ SearchDone \/ JournalOne
  PROVE  IInv'
<1>1. CASE Measure \/ SearchMeasure \/ SearchDone \/ JournalOne
  <2>1. Place' /\ StateAndRouteAgree' /\ saved' = saved
    BY <1>1 DEF IInv, Measure, SearchMeasure, SearchDone, JournalOne, Place,
                StateAndRouteAgree, Nodes
  <2>. QED
    BY <2>1, SavedKept DEF IInv
<1>2. CASE OptimizeBegin /\ Abort("repairs")
  BY <1>2, AbortKeeps
<1>3. CASE OptimizeBegin /\ ~Abort("repairs")
  <2>1. NextSound # {} /\ saved.runnable \in ledger
    BY <1>3 DEF IInv, OptimizeBegin, HasBaseline, Due, Place, CheckpointCarriesEvidence, AfterGround, Nodes
  <2>2. Place' /\ StateAndRouteAgree' /\ saved' = saved
    BY <1>3, <2>1 DEF IInv, OptimizeBegin, HasBaseline, Place, StateAndRouteAgree, Nodes
  <2>. QED
    BY <2>2, SavedKept DEF IInv
<1>. QED
  BY <1>1, <1>2, <1>3

\* refuse, audit_patch and ship return without touching a finding's evidence.
LEMMA RefuseKeeps == ASSUME IInv, RefuseDone PROVE IInv'
<1>1. PICK route \in {"proceed", "refused"} : Return("refuse", route, saved, {}, <<>>)
  BY DEF RefuseDone
<1>2. CASE Abort("history")
  BY <1>2, AbortKeeps
<1>3. CASE Wrote("refuse", route, saved, {}, <<>>)
  <2>1. Routes["refuse"][route] \in {"ground", "end"}
    BY DEF Routes, Edges
  <2>. QED
    BY <1>3, <2>1 DEF IInv, Wrote, Shape, IsState, Due, Place, NextSound, Unaudited, Nodes,
           AfterGround, CheckpointCarriesEvidence, ShipsWhatWasAudited, StateAndRouteAgree
<1>. QED
  BY <1>1, <1>2, <1>3, ReturnCases DEF IInv, Shape

\* Grounding's baseline is one of the measurements its own return checkpoints.
LEMMA GroundKeeps == ASSUME IInv, GroundDone PROVE IInv'
<1>0. saved.next = "ground" /\ saved.measurements \subseteq ledger /\ took \subseteq ledger
      /\ ledger \subseteq Nat
  BY DEF IInv, GroundDone, Place, Nodes
<1>1. CASE Abort("history")
  BY <1>1, AbortKeeps
<1>2. CASE Wrote("ground", "unmeasurable", saved, Written, <<>>)
  <2>1. Routes["ground"]["unmeasurable"] = "end"
    BY DEF Routes, Edges
  <2>. QED
    BY <1>0, <1>2, <2>1
    DEF IInv, Wrote, Written, Shape, IsState, Due, Place, NextSound, Unaudited, Nodes,
        AfterGround, CheckpointCarriesEvidence, ShipsWhatWasAudited, StateAndRouteAgree
<1>3. ASSUME NEW m \in took, Wrote("ground", "runnable", [saved EXCEPT !.runnable = m], Written, <<>>)
      PROVE  IInv'
  <2>1. Routes["ground"]["runnable"] = "scan"
    BY DEF Routes, Edges
  <2>2. /\ saved'.next = "scan" /\ saved'.runnable = m /\ saved'.findings = saved.findings
        /\ saved'.resolved = saved.resolved
        /\ saved'.measurements = saved.measurements \cup Written /\ IsState(saved')
    BY <1>3, <2>1 DEF Wrote, IInv, Shape, IsState
  <2>3. m # None /\ m \in saved'.measurements
    BY <1>0, <2>2, NoneAssumption DEF Written
  <2>. QED
    BY <1>0, <1>3, <2>2, <2>3
    DEF IInv, Wrote, Written, Shape, Due, Place, NextSound, Unaudited, Nodes,
        AfterGround, CheckpointCarriesEvidence, ShipsWhatWasAudited, StateAndRouteAgree
<1>. QED
  <2>1. ASSUME NEW m \in took PROVE IsState([saved EXCEPT !.runnable = m])
    BY DEF IInv, Shape, IsState
  <2>. QED
    BY <1>1, <1>2, <1>3, <2>1, ReturnCases DEF IInv, Shape, GroundDone

\* What a scan keeps of an offer is a finding or more, each citing the ledger.
LEMMA KeptOffer ==
  ASSUME Shape, ledger \subseteq Nat, NEW offer \in Offers
  PROVE  /\ Kept(offer) \in Seq(ledger) /\ Len(Kept(offer)) \in Nat \ {0}
         /\ Minted(Kept(offer)) \in Seq(FindingType)
         /\ Len(Minted(Kept(offer))) = Len(saved.findings) + Len(Kept(offer))
         /\ \A f \in DOMAIN Minted(Kept(offer)) :
              \/ f \in DOMAIN saved.findings /\ Minted(Kept(offer))[f] = saved.findings[f]
              \/ Minted(Kept(offer))[f].cites \in ledger
<1>1. PICK n \in 1..MaxOffer : offer \in [1..n -> ledger]
  BY DEF Offers
<1>2. offer \in Seq(ledger) /\ Len(offer) = n /\ n \in Nat \ {0}
  BY <1>1, BoundsAssumption
<1> DEFINE last == IF Len(offer) < FindingsPerScan THEN Len(offer) ELSE FindingsPerScan
<1>3. last \in 1..n
  BY <1>2, BoundsAssumption
<1>4. Kept(offer) \in Seq(ledger) /\ Len(Kept(offer)) = last
  <2>1. \A i \in 1..last : offer[i] \in ledger
    BY <1>1, <1>3
  <2>. QED
    BY <1>3, <2>1, SubSeqProperties DEF Kept
<1> DEFINE kept == Kept(offer)
           news == [i \in DOMAIN kept |-> [cites |-> kept[i]]]
<1>5. kept \in [1..last -> ledger] /\ DOMAIN kept = 1..last
  BY <1>4, LenProperties
<1>6. news \in Seq(FindingType) /\ Len(news) = last /\ \A i \in 1..last : news[i].cites \in ledger
  <2>1. DOMAIN news = 1..last /\ \A i \in 1..last :
          kept[i] \in ledger /\ news[i] = [cites |-> kept[i]]
    BY <1>5
  <2> HIDE DEF kept, last, news
  <2>2. \A i \in 1..last : news[i] \in FindingType /\ news[i].cites \in ledger
    <3>2. ASSUME NEW i \in 1..last PROVE news[i] \in FindingType /\ news[i].cites \in ledger
      <4>1. news[i] = [cites |-> kept[i]] /\ kept[i] \in ledger
        BY <2>1
      <4>2. kept[i] \in Nat
        BY <4>1
      <4>3. [cites |-> kept[i]] \in FindingType
        BY <4>2 DEF FindingType
      <4>. QED
        BY <4>1, <4>3
    <3>. QED
      BY <3>2
  <2>3. news \in [1..last -> FindingType] /\ last \in Nat
    BY <1>3, <2>1, <2>2, BoundsAssumption DEF news
  <2>. QED
    BY <2>2, <2>3
<1>7. Minted(kept) = saved.findings \o news
  BY DEF Minted
<1>. QED
  BY <1>3, <1>4, <1>6, <1>7, ConcatProperties, LenProperties DEF Shape

LEMMA ScanKeeps == ASSUME IInv, ScanDone PROVE IInv'
<1>0. /\ saved.next = "scan" /\ saved.runnable # None
      /\ saved.measurements \subseteq ledger /\ ledger \subseteq Nat
      /\ Routes["scan"]["findings"] = "audit_finding" /\ Routes["scan"]["nothing_found"] = "end"
  BY DEF IInv, ScanDone, HasBrief, Place, Due, Nodes, AfterGround, Routes, Edges
<1>1. CASE Abort("history")
  BY <1>1, AbortKeeps
<1>2. CASE Wrote("scan", "nothing_found", saved, Written, <<>>)
  BY <1>0, <1>2
  DEF IInv, Wrote, Written, Shape, IsState, Due, Place, NextSound, Unaudited, Nodes,
      AfterGround, CheckpointCarriesEvidence, ShipsWhatWasAudited, StateAndRouteAgree
<1>3. ASSUME NEW offer \in Offers,
             Wrote("scan", "findings", [saved EXCEPT !.findings = Minted(Kept(offer))], Written, <<>>)
      PROVE  IInv'
  <2> DEFINE findings == Minted(Kept(offer))
  <2>1. /\ saved'.next = "audit_finding" /\ saved'.findings = findings /\ IsState(saved')
        /\ saved'.resolved = saved.resolved /\ saved'.runnable = saved.runnable
        /\ saved'.measurements = ledger
    BY <1>0, <1>3 DEF Wrote, Written, IInv, Shape, IsState
  <2>2. /\ findings \in Seq(FindingType)
        /\ Len(findings) \in Nat /\ Len(saved.findings) \in Nat
        /\ Len(findings) > Len(saved.findings)
        /\ DOMAIN findings = 1..Len(findings) /\ DOMAIN saved.findings = 1..Len(saved.findings)
    BY <1>0, KeptOffer, LenProperties DEF IInv, Shape
  <2>3. \A f \in DOMAIN findings : findings[f].cites \in ledger
    BY <1>0, KeptOffer DEF IInv, Shape, CheckpointCarriesEvidence
  <2> HIDE DEF findings
  <2>4. Shape' /\ CheckpointCarriesEvidence'
    BY <1>0, <2>1, <2>2, <2>3 DEF IInv, Shape, CheckpointCarriesEvidence
  <2>5. Len(findings) \in Unaudited'
    BY <2>1, <2>2 DEF IInv, Shape, Unaudited
  <2>. QED
    BY <1>0, <1>3, <2>1, <2>4, <2>5
    DEF IInv, Wrote, Due, Place, Nodes, ShipsWhatWasAudited, StateAndRouteAgree
<1>. QED
  <2>1. \A findings : IsState([saved EXCEPT !.findings = findings])
    BY DEF IInv, Shape, IsState
  <2>. QED
    BY <1>0, <1>1, <1>2, <1>3, <2>1, ReturnCases DEF IInv, Shape, ScanDone, HasBrief

\* A verdict is written for a finding that had none.
LEMMA AuditFindingKeeps == ASSUME IInv, AuditFinding PROVE IInv'
<1> DEFINE f == First(Unaudited)
<1>0. /\ saved.next = "audit_finding" /\ saved.runnable # None
      /\ f \in DOMAIN saved.findings /\ f \notin DOMAIN saved.resolved
  BY UnauditedFirst DEF IInv, AuditFinding, Place, Due, Nodes, AfterGround, Unaudited
<1>1. CASE Abort("history")
  BY <1>1, AbortKeeps
<1>2. ASSUME NEW verdict \in {"sound", "needs_evidence", "unsound"},
             Wrote("audit_finding", verdict, [saved EXCEPT !.resolved = Resolve(f, verdict)], {}, <<>>)
      PROVE  IInv'
  <2> HIDE DEF f
  <2>1. /\ saved'.next = Routes["audit_finding"][verdict] /\ saved'.findings = saved.findings
        /\ saved'.resolved = Resolve(f, verdict) /\ saved'.runnable = saved.runnable
        /\ saved'.measurements = saved.measurements /\ IsState(saved')
    BY <1>2 DEF Wrote, IInv, Shape, IsState
  <2>2. DOMAIN Resolve(f, verdict) = DOMAIN saved.resolved \cup {f} /\ Resolve(f, verdict)[f] = verdict
    BY DEF Resolve
  <2>3. Shape' /\ CheckpointCarriesEvidence'
    BY <1>0, <2>1, <2>2 DEF IInv, Shape, CheckpointCarriesEvidence
  <2>4. /\ saved'.next \in {"optimize", "scan", "end"}
        /\ saved'.next = "optimize" => f \in NextSound'
    BY <1>0, <2>1, <2>2 DEF Routes, Edges, NextSound
  <2>. QED
    BY <1>0, <1>2, <2>1, <2>3, <2>4
    DEF IInv, Wrote, Due, Place, Nodes, AfterGround, ShipsWhatWasAudited, StateAndRouteAgree
<1>. QED
  <2>1. \A resolved : IsState([saved EXCEPT !.resolved = resolved])
    BY DEF IInv, Shape, IsState
  <2>2. Unaudited # {}
    BY <1>0 DEF IInv, Due
  <2>3. PICK verdict \in Verdicts(f) :
          Return("audit_finding", verdict, [saved EXCEPT !.resolved = Resolve(f, verdict)], {}, <<>>)
    BY <2>2 DEF AuditFinding
  <2>4. verdict \in {"sound", "needs_evidence", "unsound"}
    BY DEF Verdicts
  <2>. QED
    BY <1>1, <1>2, <2>1, <2>3, <2>4, ReturnCases

\* The search hands over a patch for the finding it was run for.
LEMMA OptimizeKeeps == ASSUME IInv, OptimizeDone PROVE IInv'
<1> DEFINE f == First(NextSound)
<1>0. /\ saved.next = "optimize" /\ saved.runnable # None /\ f \in NextSound
      /\ Routes["optimize"]["candidate"] = "audit_patch"
      /\ Routes["optimize"]["nothing_beat_baseline"] = "end"
  BY NextSoundFirst DEF IInv, OptimizeDone, Place, Due, Nodes, AfterGround, Routes, Edges
<1>1. CASE Abort("history")
  BY <1>1, AbortKeeps
<1>2. CASE Wrote("optimize", "nothing_beat_baseline",
                 [saved EXCEPT !.resolved = Resolve(f, "sound")], {}, Fresh)
  <2> HIDE DEF f
  <2>1. /\ saved'.next = "end" /\ saved'.findings = saved.findings
        /\ saved'.resolved = Resolve(f, "sound") /\ saved'.runnable = saved.runnable
        /\ saved'.measurements = saved.measurements /\ IsState(saved')
    BY <1>0, <1>2 DEF Wrote, IInv, Shape, IsState
  <2>2. DOMAIN Resolve(f, "sound") = DOMAIN saved.resolved \cup {f}
    BY DEF Resolve
  <2>3. Shape' /\ CheckpointCarriesEvidence'
    BY <1>0, <2>1, <2>2 DEF IInv, Shape, CheckpointCarriesEvidence, NextSound
  <2>. QED
    BY <1>2, <2>1, <2>3
    DEF IInv, Wrote, Due, Place, Nodes, AfterGround, ShipsWhatWasAudited, StateAndRouteAgree
<1>3. CASE Wrote("optimize", "candidate",
                 [saved EXCEPT !.repaired = [finding |-> f, patch |-> Winner]], {}, Fresh)
  <2> HIDE DEF f
  <2>1. /\ saved'.next = "audit_patch" /\ saved'.findings = saved.findings
        /\ saved'.resolved = saved.resolved /\ saved'.runnable = saved.runnable
        /\ saved'.measurements = saved.measurements /\ IsState(saved')
        /\ saved'.repaired.finding = f
    BY <1>0, <1>3 DEF Wrote, IInv, Shape, IsState
  <2>2. Shape' /\ CheckpointCarriesEvidence' /\ NextSound' = NextSound
    BY <2>1 DEF IInv, Shape, CheckpointCarriesEvidence, NextSound
  <2>. QED
    BY <1>0, <1>3, <2>1, <2>2
    DEF IInv, Wrote, Due, Place, Nodes, AfterGround, ShipsWhatWasAudited, StateAndRouteAgree
<1>. QED
  <2>1. \A new : IsState([saved EXCEPT !.resolved = new]) /\ IsState([saved EXCEPT !.repaired = new])
    BY DEF IInv, Shape, IsState
  <2>. QED
    BY <1>1, <1>2, <1>3, <2>1, ReturnCases DEF OptimizeDone

\* A node that reads the patch finds one: its finding is a position, never 0.
LEMMA PatchIsThere ==
  ASSUME IInv, at \in {"audit_patch", "ship"}
  PROVE  /\ saved.next = at /\ saved.runnable # None /\ saved.repaired # NoPatch
         /\ saved.repaired.finding \in NextSound
<1>1. saved.next = at /\ saved.runnable # None /\ saved.repaired.finding \in NextSound
  BY DEF IInv, Place, Due, Nodes, AfterGround
<1>2. saved.repaired.finding \in 1..Len(saved.findings)
  BY <1>1, LenProperties DEF IInv, Shape, NextSound
<1>3. NoPatch.finding = 0 /\ 0 \notin 1..Len(saved.findings)
  BY DEF NoPatch
<1>. QED
  BY <1>1, <1>2, <1>3

LEMMA AuditPatchKeeps == ASSUME IInv, AuditPatch PROVE IInv'
<1>0. /\ saved.next = "audit_patch" /\ saved.runnable # None /\ saved.repaired # NoPatch
      /\ saved.repaired.finding \in NextSound
  BY PatchIsThere DEF AuditPatch
<1>1. CASE Abort("history")
  BY <1>1, AbortKeeps
<1>2. ASSUME NEW route \in {"clean", "another_round", "escalate"},
             Wrote("audit_patch", route,
                   [saved EXCEPT !.audited = [verdict |-> route, patch |-> saved.repaired.patch]],
                   {}, <<>>)
      PROVE  IInv'
  <2>1. /\ saved'.next = Routes["audit_patch"][route] /\ saved'.findings = saved.findings
        /\ saved'.resolved = saved.resolved /\ saved'.runnable = saved.runnable
        /\ saved'.measurements = saved.measurements /\ IsState(saved')
        /\ saved'.repaired = saved.repaired
        /\ saved'.audited = [verdict |-> route, patch |-> saved.repaired.patch]
    BY <1>2 DEF Wrote, IInv, Shape, IsState
  <2>2. Shape' /\ CheckpointCarriesEvidence' /\ NextSound' = NextSound
    BY <2>1 DEF IInv, Shape, CheckpointCarriesEvidence, NextSound
  <2>3. /\ saved'.next \in {"ship", "optimize", "end"}
        /\ saved'.next = "ship" => route = "clean"
    BY <2>1 DEF Routes, Edges
  <2>. QED
    BY <1>0, <1>2, <2>1, <2>2, <2>3
    DEF IInv, Wrote, Due, Place, Nodes, AfterGround, ShipsWhatWasAudited, StateAndRouteAgree
<1>3. CASE Abort("repairs")
  BY <1>3, AbortKeeps
<1>. QED
  <2>1. \A new : IsState([saved EXCEPT !.audited = new])
    BY DEF IInv, Shape, IsState
  <2>. QED
    BY <1>0, <1>1, <1>2, <1>3, <2>1, ReturnCases DEF AuditPatch

\* Writing ship's channels leaves a state a state.
LEMMA FourChannels ==
  ASSUME NEW s, NEW r, NEW p, NEW a, NEW d, IsState(s)
  PROVE  IsState([s EXCEPT !.resolved = r, !.repaired = p, !.audited = a, !.shippedAt = d])
<1> DEFINE t == [s EXCEPT !.resolved = r, !.repaired = p, !.audited = a, !.shippedAt = d]
<1>1. DOMAIN t = {"next", "runnable", "measurements", "findings", "resolved", "candidates",
                  "repaired", "audited", "shippedAt"}
  BY DEF IsState
<1>2. /\ t.resolved = r /\ t.repaired = p /\ t.audited = a /\ t.next = s.next
      /\ t.runnable = s.runnable /\ t.measurements = s.measurements
      /\ t.findings = s.findings /\ t.candidates = s.candidates /\ t.shippedAt = d
  BY DEF IsState
<1>3. t = [x \in DOMAIN s |-> t[x]]
  OBVIOUS
<1> HIDE DEF t
<1>. QED
  BY <1>1, <1>2, <1>3 DEF IsState

LEMMA ShipKeeps == ASSUME IInv, ShipDone PROVE IInv'
<1> DEFINE f == saved.repaired.finding
           resolved == Resolve(f, "shipped")
           route == IF Remaining(resolved) THEN "more_findings" ELSE "done"
           shipped == [saved EXCEPT !.resolved = resolved, !.repaired = NoPatch, !.audited = NoAudit,
                                    !.shippedAt = minted]
<1>0. saved.next = "ship" /\ saved.runnable # None /\ saved.repaired # NoPatch /\ f \in NextSound
  BY PatchIsThere DEF ShipDone
<1>1. IsState(shipped) /\ Return("ship", route, shipped, {}, <<>>)
  <2>1. IsState(shipped)
    BY FourChannels DEF IInv, Shape
  <2>2. Return("ship", route, shipped, {}, <<>>)
    BY <1>0 DEF ShipDone
  <2>. QED
    BY <2>1, <2>2
<1>2. CASE Abort("history")
  BY <1>2, AbortKeeps
<1>3. CASE Wrote("ship", route, shipped, {}, <<>>)
  <2>1. Routes["ship"][route] \in {"scan", "end"}
    BY DEF Routes, Edges
  <2> HIDE DEF route
  <2>2. /\ saved'.next \in {"scan", "end"} /\ saved'.findings = saved.findings
        /\ saved'.resolved = resolved /\ saved'.runnable = saved.runnable
        /\ saved'.measurements = saved.measurements /\ IsState(saved')
    BY <1>3, <2>1 DEF Wrote, IInv, Shape, IsState
  <2>3. DOMAIN resolved = DOMAIN saved.resolved \cup {f}
    BY DEF Resolve
  <2> HIDE DEF f, resolved
  <2>4. Shape' /\ CheckpointCarriesEvidence'
    BY <1>0, <2>2, <2>3 DEF IInv, Shape, CheckpointCarriesEvidence, NextSound
  <2>. QED
    BY <1>0, <1>3, <2>2, <2>4
    DEF IInv, Wrote, Due, Place, Nodes, AfterGround, ShipsWhatWasAudited, StateAndRouteAgree
<1>. QED
  BY <1>1, <1>2, <1>3, ReturnCases

-----------------------------------------------------------------------------
(* The theorems *)

LEMMA StepKeeps == IInv /\ [Next]_vars => IInv'
<1> SUFFICES ASSUME IInv, [Next]_vars PROVE IInv'
  OBVIOUS
<1>1. CASE UNCHANGED vars
  <2>1. Place' /\ StateAndRouteAgree' /\ saved' = saved
    BY <1>1 DEF IInv, vars, Place, StateAndRouteAgree
  <2>. QED
    BY <2>1, SavedKept DEF IInv
<1>2. CASE Start \/ NewRun
  BY <1>2, StartKeeps
<1>3. CASE Resume \/ (\E node \in Nodes : Enter(node)) \/ Park \/ RunOut \/ Finish \/ Crash \/ Raise
  BY <1>3, InvocationKeeps
<1>4. CASE Measure \/ OptimizeBegin \/ SearchMeasure \/ SearchDone \/ JournalOne
  BY <1>4, WorkKeeps
<1>5. CASE RefuseDone \/ GroundDone \/ ScanDone \/ AuditFinding \/ OptimizeDone \/ AuditPatch \/ ShipDone
  BY <1>5, RefuseKeeps, GroundKeeps, ScanKeeps, AuditFindingKeeps, OptimizeKeeps,
     AuditPatchKeeps, ShipKeeps
<1>. QED
  BY <1>1, <1>2, <1>3, <1>4, <1>5 DEF Next, Advance

THEOREM Inductive == Spec => []IInv
  BY InitInv, StepKeeps, PTL DEF Spec

\* No node is ever reached without what it reads: no crash, resumption or loop
\* back ends in a NodeError of pipeline/nodes.py.
THEOREM RouteSafety == Spec => []StateAndRouteAgree
<1>1. IInv => StateAndRouteAgree
  BY DEF IInv
<1>. QED
  BY <1>1, Inductive, PTL

\* Whatever process resumes it, the checkpoint holds every measurement its
\* findings and its baseline rest on.
THEOREM EvidenceSafety == Spec => []CheckpointCarriesEvidence
<1>1. IInv => CheckpointCarriesEvidence
  BY DEF IInv
<1>. QED
  BY <1>1, Inductive, PTL

\* What ships is the patch the adversary last called clean, for a finding still sound.
THEOREM ShipSafety == Spec => []ShipsWhatWasAudited
<1>1. IInv => ShipsWhatWasAudited
  BY DEF IInv
<1>. QED
  BY <1>1, Inductive, PTL

\* Every audit that returns a verdict had the cited measurement in its ledger.
THEOREM AuditSafety == Spec => EvidenceAtHand
<1>1. IInv => (at = "audit_finding" /\ at' = "between" =>
                 saved.findings[First(Unaudited)].cites \in ledger)
  <2> SUFFICES ASSUME IInv, at = "audit_finding"
               PROVE  saved.findings[First(Unaudited)].cites \in ledger
    OBVIOUS
  <2>1. First(Unaudited) \in DOMAIN saved.findings
    BY UnauditedFirst DEF IInv, Place, Due, Nodes, Unaudited
  <2>. QED
    BY <2>1 DEF IInv, Place, Nodes, CheckpointCarriesEvidence
<1>2. IInv /\ [Next]_vars =>
        [at = "audit_finding" /\ at' = "between" =>
           saved.findings[First(Unaudited)].cites \in ledger]_vars
  BY <1>1
<1>. QED
  BY <1>2, Inductive, PTL DEF Spec, EvidenceAtHand

-----------------------------------------------------------------------------
(* What a step can do to the findings, the verdicts and the patch *)

Early == {"none", "refuse", "ground", "scan"}

FindingsStay == saved'.findings = saved.findings /\ saved'.resolved = saved.resolved
PatchStays == saved'.repaired = saved.repaired /\ saved'.audited = saved.audited

\* Each move is a node's return, by what it leaves in the checkpoint.
Stays == saved' = saved
Anew == saved' = NewState
Passed == saved.next \in Early /\ saved'.next \in Early \cup {"end"} /\ FindingsStay /\ PatchStays
Found == /\ saved.next = "scan" /\ saved'.next = "audit_finding"
         /\ saved'.resolved = saved.resolved /\ PatchStays
         /\ \E offer \in Offers : saved'.findings = Minted(Kept(offer))
Judged == /\ saved.next = "audit_finding" /\ saved'.findings = saved.findings /\ PatchStays
          /\ \E f \in Unaudited, verdict \in {"sound", "needs_evidence", "unsound"} :
               /\ saved'.resolved = Resolve(f, verdict)
               /\ saved'.next = Routes["audit_finding"][verdict]
Handed == /\ saved.next = "optimize" /\ saved'.next = "audit_patch"
          /\ FindingsStay /\ saved'.audited = saved.audited
          /\ saved'.repaired.finding \in NextSound
GaveUp == /\ saved.next = "optimize" /\ saved'.next = "end"
          /\ saved'.findings = saved.findings /\ PatchStays
          /\ \E f \in NextSound : saved'.resolved = Resolve(f, "sound")
Attacked == /\ saved.next = "audit_patch" /\ FindingsStay /\ saved'.repaired = saved.repaired
            /\ \E route \in {"clean", "another_round", "escalate"} :
                 /\ saved'.audited = [verdict |-> route, patch |-> saved.repaired.patch]
                 /\ saved'.next = Routes["audit_patch"][route]
Landed == /\ saved.next = "ship" /\ saved'.next \in {"scan", "end"}
          /\ saved.repaired.finding \in NextSound
          /\ saved'.findings = saved.findings
          /\ saved'.resolved = Resolve(saved.repaired.finding, "shipped")
          /\ saved'.repaired = NoPatch /\ saved'.audited = NoAudit

\* What a return does to what its channels carry.
LEMMA ReturnMoves ==
  ASSUME NEW node, NEW route, NEW channels, NEW measured, NEW scored,
         IsState(channels), Return(node, route, channels, measured, scored)
  PROVE  \/ Stays
         \/ /\ saved'.next = Routes[node][route]
            /\ saved'.findings = channels.findings /\ saved'.resolved = channels.resolved
            /\ saved'.repaired = channels.repaired /\ saved'.audited = channels.audited
<1>1. Abort("history") => Stays
  BY DEF Abort, Stays
<1>2. Wrote(node, route, channels, measured, scored) =>
        /\ saved'.next = Routes[node][route]
        /\ saved'.findings = channels.findings /\ saved'.resolved = channels.resolved
        /\ saved'.repaired = channels.repaired /\ saved'.audited = channels.audited
  BY DEF Wrote
<1>. QED
  BY <1>1, <1>2, ReturnCases

\* The nodes before a finding is audited: they pass, or a scan finds something.
LEMMA EarlyMoves ==
  ASSUME IInv, RefuseDone \/ GroundDone \/ ScanDone
  PROVE  Stays \/ Passed \/ Found
<1>s. IsState(saved)
  BY DEF IInv, Shape
<1>1. CASE RefuseDone
  <2>1. PICK route \in {"proceed", "refused"} : Return("refuse", route, saved, {}, <<>>)
    BY <1>1 DEF RefuseDone
  <2>2. saved.next = "refuse"
    BY <1>1 DEF IInv, Place, RefuseDone, Nodes
  <2>3. Routes["refuse"][route] \in {"ground", "end"}
    BY DEF Routes, Edges
  <2>. QED
    BY <1>s, <2>1, <2>2, <2>3, ReturnMoves DEF Passed, FindingsStay, PatchStays, Early
<1>2. CASE GroundDone
  <2>1. saved.next = "ground"
    BY <1>2 DEF IInv, Place, GroundDone, Nodes
  <2>2. Routes["ground"]["unmeasurable"] = "end" /\ Routes["ground"]["runnable"] = "scan"
    BY DEF Routes, Edges
  <2>3. CASE Return("ground", "unmeasurable", saved, Written, <<>>)
    BY <1>s, <2>1, <2>2, <2>3, ReturnMoves DEF Passed, FindingsStay, PatchStays, Early
  <2>4. ASSUME NEW m, Return("ground", "runnable", [saved EXCEPT !.runnable = m], Written, <<>>)
        PROVE  Stays \/ Passed
    <3> DEFINE channels == [saved EXCEPT !.runnable = m]
    <3>1. /\ IsState(channels) /\ channels.findings = saved.findings /\ channels.resolved = saved.resolved
          /\ channels.repaired = saved.repaired /\ channels.audited = saved.audited
      BY <1>s DEF IsState
    <3>2. Return("ground", "runnable", channels, Written, <<>>)
      BY <2>4
    <3> HIDE DEF channels
    <3>. QED
      BY <2>1, <2>2, <3>1, <3>2, ReturnMoves DEF Passed, FindingsStay, PatchStays, Early
  <2>. QED
    BY <1>2, <2>3, <2>4 DEF GroundDone
<1>3. CASE ScanDone
  <2>1. saved.next = "scan" /\ HasBrief
    BY <1>3 DEF IInv, Place, Due, ScanDone, HasBrief, Nodes, AfterGround
  <2>2. Routes["scan"]["findings"] = "audit_finding" /\ Routes["scan"]["nothing_found"] = "end"
    BY DEF Routes, Edges
  <2>3. CASE Return("scan", "nothing_found", saved, Written, <<>>)
    BY <1>s, <2>1, <2>2, <2>3, ReturnMoves DEF Passed, FindingsStay, PatchStays, Early
  <2>4. ASSUME NEW offer \in Offers,
               Return("scan", "findings", [saved EXCEPT !.findings = Minted(Kept(offer))], Written, <<>>)
        PROVE  Stays \/ Found
    <3> DEFINE findings == Minted(Kept(offer))
               channels == [saved EXCEPT !.findings = findings]
    <3>1. /\ IsState(channels) /\ channels.findings = findings /\ channels.resolved = saved.resolved
          /\ channels.repaired = saved.repaired /\ channels.audited = saved.audited
      BY <1>s DEF IsState
    <3>2. Return("scan", "findings", channels, Written, <<>>)
      BY <2>4
    <3>3. \E o \in Offers : findings = Minted(Kept(o))
      OBVIOUS
    <3> HIDE DEF channels, findings
    <3>. QED
      BY <2>1, <2>2, <3>1, <3>2, <3>3, ReturnMoves DEF Found, PatchStays
  <2>. QED
    BY <1>3, <2>1, <2>3, <2>4 DEF ScanDone
<1>. QED
  BY <1>1, <1>2, <1>3

LEMMA JudgeMoves ==
  ASSUME IInv, AuditFinding
  PROVE  Stays \/ Judged
<1>1. saved.next = "audit_finding" /\ Unaudited # {} /\ IsState(saved)
  BY DEF IInv, Shape, Place, Due, AuditFinding, Nodes
<1>2. First(Unaudited) \in Unaudited
  BY <1>1, UnauditedFirst DEF IInv
<1>3. PICK verdict \in Verdicts(First(Unaudited)) :
        Return("audit_finding", verdict,
               [saved EXCEPT !.resolved = Resolve(First(Unaudited), verdict)], {}, <<>>)
  BY <1>1 DEF AuditFinding
<1>4. verdict \in {"sound", "needs_evidence", "unsound"}
  BY DEF Verdicts
<1> DEFINE resolved == Resolve(First(Unaudited), verdict)
           channels == [saved EXCEPT !.resolved = resolved]
<1>5. /\ IsState(channels) /\ channels.findings = saved.findings /\ channels.resolved = resolved
      /\ channels.repaired = saved.repaired /\ channels.audited = saved.audited
  BY <1>1 DEF IsState
<1>6. Return("audit_finding", verdict, channels, {}, <<>>)
  BY <1>3
<1> HIDE DEF channels
<1>7. Stays \/ /\ saved'.next = Routes["audit_finding"][verdict]
               /\ saved'.findings = saved.findings /\ saved'.resolved = resolved /\ PatchStays
  BY <1>5, <1>6, ReturnMoves DEF PatchStays
<1>. QED
  BY <1>1, <1>2, <1>4, <1>7 DEF Judged

LEMMA SearchMoves ==
  ASSUME IInv, OptimizeDone
  PROVE  Stays \/ Handed \/ GaveUp
<1> DEFINE f == First(NextSound)
<1>1. saved.next = "optimize" /\ f \in NextSound /\ IsState(saved)
  BY NextSoundFirst DEF IInv, Shape, Place, Due, OptimizeDone, Nodes
<1>2. Routes["optimize"]["candidate"] = "audit_patch" /\ Routes["optimize"]["nothing_beat_baseline"] = "end"
  BY DEF Routes, Edges
<1>3. ASSUME Return("optimize", "nothing_beat_baseline", [saved EXCEPT !.resolved = Resolve(f, "sound")], {}, Fresh)
      PROVE  Stays \/ GaveUp
  <2> DEFINE resolved == Resolve(f, "sound")
             channels == [saved EXCEPT !.resolved = resolved]
  <2>1. /\ IsState(channels) /\ channels.findings = saved.findings /\ channels.resolved = resolved
        /\ channels.repaired = saved.repaired /\ channels.audited = saved.audited
    BY <1>1 DEF IsState
  <2>2. Return("optimize", "nothing_beat_baseline", channels, {}, Fresh)
    BY <1>3
  <2> HIDE DEF channels
  <2>3. Stays \/ /\ saved'.next = "end" /\ saved'.findings = saved.findings
                 /\ saved'.resolved = resolved /\ PatchStays
    BY <1>2, <2>1, <2>2, ReturnMoves DEF PatchStays
  <2> HIDE DEF f
  <2>. QED
    BY <1>1, <2>3 DEF GaveUp
<1>4. ASSUME Return("optimize", "candidate",
                    [saved EXCEPT !.repaired = [finding |-> f, patch |-> Winner]], {}, Fresh)
      PROVE  Stays \/ Handed
  <2> DEFINE repaired == [finding |-> f, patch |-> Winner]
             channels == [saved EXCEPT !.repaired = repaired]
  <2>1. repaired.finding \in NextSound
    BY <1>1
  <2>2. Return("optimize", "candidate", channels, {}, Fresh)
    BY <1>4
  <2> HIDE DEF repaired
  <2>3. /\ IsState(channels) /\ channels.findings = saved.findings /\ channels.resolved = saved.resolved
        /\ channels.repaired = repaired /\ channels.audited = saved.audited
    BY <1>1 DEF IsState
  <2> HIDE DEF channels
  <2>. QED
    BY <1>1, <1>2, <2>1, <2>2, <2>3, ReturnMoves DEF Handed, FindingsStay
<1>. QED
  BY <1>3, <1>4 DEF OptimizeDone

LEMMA AttackMoves ==
  ASSUME IInv, AuditPatch
  PROVE  Stays \/ Attacked
<1>1. saved.next = "audit_patch" /\ saved.repaired # NoPatch /\ IsState(saved)
  BY PatchIsThere DEF AuditPatch, IInv, Shape
<1>a. CASE Abort("repairs")
  BY <1>a DEF Abort, Stays
<1> SUFFICES ASSUME ~Abort("repairs") PROVE Stays \/ Attacked
  BY <1>a
<1>2. PICK route \in {"clean", "another_round", "escalate"} :
        Return("audit_patch", route,
               [saved EXCEPT !.audited = [verdict |-> route, patch |-> saved.repaired.patch]], {}, <<>>)
  BY <1>1 DEF AuditPatch
<1> DEFINE audited == [verdict |-> route, patch |-> saved.repaired.patch]
           channels == [saved EXCEPT !.audited = audited]
<1>3. /\ IsState(channels) /\ channels.findings = saved.findings /\ channels.resolved = saved.resolved
      /\ channels.repaired = saved.repaired /\ channels.audited = audited
  <2> HIDE DEF audited
  <2>. QED
    BY <1>1 DEF IsState
<1>4. Return("audit_patch", route, channels, {}, <<>>)
  BY <1>2
<1> HIDE DEF channels
<1>. QED
  BY <1>1, <1>3, <1>4, ReturnMoves DEF Attacked, FindingsStay

LEMMA ShipMoves ==
  ASSUME IInv, ShipDone
  PROVE  Stays \/ Landed
<1> DEFINE f == saved.repaired.finding
           resolved == Resolve(f, "shipped")
           route == IF Remaining(resolved) THEN "more_findings" ELSE "done"
           shipped == [saved EXCEPT !.resolved = resolved, !.repaired = NoPatch, !.audited = NoAudit,
                                    !.shippedAt = minted]
<1>1. saved.next = "ship" /\ saved.repaired # NoPatch /\ f \in NextSound /\ IsState(saved)
  BY PatchIsThere DEF ShipDone, IInv, Shape
<1>2. Routes["ship"][route] \in {"scan", "end"}
  BY DEF Routes, Edges
<1>3. IsState(shipped)
  BY <1>1, FourChannels
<1>4. /\ shipped.findings = saved.findings /\ shipped.resolved = resolved
      /\ shipped.repaired = NoPatch /\ shipped.audited = NoAudit
  BY <1>1 DEF IsState
<1>5. Return("ship", route, shipped, {}, <<>>)
  BY <1>1 DEF ShipDone
<1> HIDE DEF route, shipped
<1>. QED
  BY <1>1, <1>2, <1>3, <1>4, <1>5, ReturnMoves DEF Landed

\* Every step is one of the moves.
LEMMA StepMoves ==
  ASSUME IInv, [Next]_vars
  PROVE  Stays \/ Anew \/ Passed \/ Found \/ Judged \/ Handed \/ GaveUp \/ Attacked \/ Landed
<1>1. CASE Start
  BY <1>1 DEF IInv, Shape, IsState, Start, Passed, FindingsStay, PatchStays, Early
<1>2. CASE NewRun
  BY <1>2 DEF NewRun, Anew
<1>3. Resume \/ (\E node \in Nodes : Enter(node)) \/ Park \/ RunOut \/ Finish \/ Crash \/ Raise
        \/ Measure \/ OptimizeBegin \/ SearchMeasure \/ SearchDone \/ JournalOne \/ UNCHANGED vars
        => Stays
  <2>1. ASSUME NEW why, Abort(why) PROVE saved' = saved
    BY <2>1 DEF Abort
  <2>. QED
    BY <2>1 DEF Stays, Resume, Enter, Park, RunOut, Finish, Crash, Raise, Measure, OptimizeBegin,
                SearchMeasure, SearchDone, JournalOne, vars
<1>. QED
  BY <1>1, <1>2, <1>3, EarlyMoves, JudgeMoves, SearchMoves, AttackMoves, ShipMoves DEF Next, Advance

\* What a verdict does to the verdicts: it is the finding's own, and no other's.
LEMMA Resolved ==
  ASSUME NEW f, NEW verdict,
         saved'.findings = saved.findings, saved'.resolved = Resolve(f, verdict)
  PROVE  /\ DOMAIN saved'.resolved = DOMAIN saved.resolved \cup {f}
         /\ saved'.resolved[f] = verdict
         /\ \A g \in DOMAIN saved.resolved : g # f => saved'.resolved[g] = saved.resolved[g]
         /\ Unaudited' = Unaudited \ {f}
         /\ \A g : g \in NextSound' <=>
              g \in NextSound \ {f} \/ (g = f /\ f \in DOMAIN saved.findings /\ verdict = "sound")
<1>1. /\ DOMAIN saved'.resolved = DOMAIN saved.resolved \cup {f}
      /\ saved'.resolved[f] = verdict
      /\ \A g \in DOMAIN saved.resolved : g # f => saved'.resolved[g] = saved.resolved[g]
  BY DEF Resolve
<1> DEFINE resolved == saved.resolved
           new == saved'.resolved
           findings == saved.findings
<1>2. DOMAIN new = DOMAIN resolved \cup {f} /\ new[f] = verdict
      /\ \A g \in DOMAIN resolved : g # f => new[g] = resolved[g]
  BY <1>1
<1>3. /\ Unaudited = {g \in DOMAIN findings : g \notin DOMAIN resolved}
      /\ Unaudited' = {g \in DOMAIN findings : g \notin DOMAIN new}
      /\ NextSound = {g \in DOMAIN findings : g \in DOMAIN resolved /\ resolved[g] = "sound"}
      /\ NextSound' = {g \in DOMAIN findings : g \in DOMAIN new /\ new[g] = "sound"}
  BY DEF Unaudited, NextSound
<1> HIDE DEF resolved, new
<1>4. Unaudited' = Unaudited \ {f}
  BY <1>2, <1>3
<1>5. \A g : g \in NextSound' <=>
        g \in NextSound \ {f} \/ (g = f /\ f \in DOMAIN findings /\ verdict = "sound")
  BY <1>2, <1>3
<1>. QED
  BY <1>1, <1>4, <1>5 DEF resolved

\* Giving a sound finding up as sound changes nothing said of any finding.
LEMMA SoundAgain ==
  ASSUME NEW f, f \in NextSound,
         saved'.findings = saved.findings, saved'.resolved = Resolve(f, "sound")
  PROVE  /\ Unaudited' = Unaudited /\ NextSound' = NextSound
         /\ DOMAIN saved'.resolved = DOMAIN saved.resolved
         /\ \A g \in DOMAIN saved.resolved : saved'.resolved[g] = saved.resolved[g]
<1>1. f \in DOMAIN saved.findings /\ f \in DOMAIN saved.resolved /\ saved.resolved[f] = "sound"
      /\ f \notin Unaudited
  BY DEF NextSound, Unaudited
<1>2. PICK verdict : verdict = "sound" /\ saved'.resolved = Resolve(f, verdict)
  OBVIOUS
<1>3. /\ DOMAIN saved'.resolved = DOMAIN saved.resolved \cup {f}
      /\ saved'.resolved[f] = verdict
      /\ \A g \in DOMAIN saved.resolved : g # f => saved'.resolved[g] = saved.resolved[g]
      /\ Unaudited' = Unaudited \ {f}
      /\ \A g : g \in NextSound' <=>
           g \in NextSound \ {f} \/ (g = f /\ f \in DOMAIN saved.findings /\ verdict = "sound")
  BY ONLY <1>2, saved'.findings = saved.findings, Resolved
<1>4. Unaudited' = Unaudited /\ NextSound' = NextSound
  BY <1>1, <1>2, <1>3
<1>. QED
  BY <1>1, <1>2, <1>3, <1>4

-----------------------------------------------------------------------------
(* The patch and the audit shown beside it *)

\* A patch in hand is for a finding still sound, and unless it is just about to be
\* audited, the audit on record is its own; before a finding is judged there is none.
PatchIsOne ==
  /\ saved.next \in Early \cup {"audit_finding"} => saved.repaired = NoPatch
  /\ saved.repaired # NoPatch =>
       /\ saved.repaired.finding \in NextSound
       /\ saved.next # "audit_patch" =>
            saved.audited.verdict # "none" /\ saved.audited.patch = saved.repaired.patch

LEMMA PatchIsOneStep ==
  ASSUME IInv, PatchIsOne, [Next]_vars
  PROVE  PatchIsOne'
<1>1. CASE Stays
  BY <1>1 DEF Stays, PatchIsOne, NextSound
<1>2. CASE Anew
  BY <1>2 DEF Anew, NewState, PatchIsOne
<1>3. CASE Passed
  BY <1>3 DEF Passed, FindingsStay, PatchStays, PatchIsOne
<1>4. CASE Found
  BY <1>4 DEF Found, PatchStays, PatchIsOne, Early
<1>5. CASE Judged
  BY <1>5 DEF Judged, PatchStays, PatchIsOne
<1>6. CASE Handed
  <2>1. NextSound' = NextSound
    BY <1>6 DEF Handed, FindingsStay, NextSound
  <2>. QED
    BY <1>6, <2>1 DEF Handed, PatchIsOne, Early
<1>7. CASE GaveUp
  <2>1. NextSound' = NextSound
    BY <1>7, SoundAgain DEF GaveUp
  <2>. QED
    BY <1>7, <2>1 DEF GaveUp, PatchStays, PatchIsOne, Early
<1>8. CASE Attacked
  <2>1. NextSound' = NextSound
    BY <1>8 DEF Attacked, FindingsStay, NextSound
  <2>2. saved'.next \in {"ship", "optimize", "end"}
    BY <1>8 DEF Attacked, Routes, Edges
  <2>3. saved'.audited.verdict # "none" /\ saved'.audited.patch = saved'.repaired.patch
    BY <1>8 DEF Attacked
  <2>. QED
    BY <1>8, <2>1, <2>2, <2>3 DEF Attacked, PatchIsOne, Early
<1>9. CASE Landed
  BY <1>9 DEF Landed, PatchIsOne
<1>. QED
  BY <1>1, <1>2, <1>3, <1>4, <1>5, <1>6, <1>7, <1>8, <1>9, StepMoves

LEMMA PatchIsOneAlways == Spec => []PatchIsOne
<1>1. Init => PatchIsOne
  BY DEF Init, NewState, PatchIsOne
<1>2. IInv /\ PatchIsOne /\ [Next]_vars => PatchIsOne'
  BY PatchIsOneStep
<1>. QED
  BY <1>1, <1>2, Inductive, PTL DEF Spec

\* Whenever an invocation returns with a patch, the report can be made, and the audit it
\* shows is the audit of the diff it shows, for any gates and any limits.
THEOREM ReportSafety == Spec => ReportIsOfOnePatch
<1>1. PatchIsOne /\ (Park \/ Finish) /\ AwaitingReview =>
        ReportReadable /\ saved.audited.patch = saved.repaired.patch
  <2> SUFFICES ASSUME PatchIsOne, Park \/ Finish, AwaitingReview
               PROVE  ReportReadable /\ saved.audited.patch = saved.repaired.patch
    OBVIOUS
  <2>1. saved.next \in {"optimize", "ship", "end"}
    BY GatesAssumption DEF Park, Finish
  <2>. QED
    BY <2>1 DEF PatchIsOne, AwaitingReview, ReportReadable, NoAudit, NextSound
<1>2. PatchIsOne /\ [Next]_vars =>
        [(Park \/ Finish) /\ AwaitingReview =>
           ReportReadable /\ saved.audited.patch = saved.repaired.patch]_vars
  BY <1>1
<1>. QED
  BY <1>2, PatchIsOneAlways, PTL DEF Spec, ReportIsOfOnePatch

-----------------------------------------------------------------------------
(* An empty backlog, where a scan keeps one finding *)

\* One at a time, and none when a scan begins.
Alone ==
  /\ \A f, g \in Open : f = g
  /\ saved.next \in Early => Open = {}

\* A scan that may keep one finding mints one.
LEMMA OneMinted ==
  ASSUME Shape, ledger \subseteq Nat, NEW offer \in Offers, FindingsPerScan = 1
  PROVE  DOMAIN Minted(Kept(offer)) = 1..Len(saved.findings) + 1
<1>1. PICK n \in 1..MaxOffer : offer \in [1..n -> ledger]
  BY DEF Offers
<1>2. Len(offer) = n /\ n \in Nat \ {0}
  BY <1>1, BoundsAssumption
<1>3. Len(Kept(offer)) = 1
  <2>1. Kept(offer) = SubSeq(offer, 1, 1) /\ offer \in Seq(ledger)
    BY <1>1, <1>2 DEF Kept
  <2>2. \A i \in 1..1 : offer[i] \in ledger
    BY <1>1, <1>2
  <2>. QED
    BY <1>2, <2>1, <2>2, SubSeqProperties
<1>4. /\ Minted(Kept(offer)) \in Seq(FindingType)
      /\ Len(Minted(Kept(offer))) = Len(saved.findings) + 1
  BY <1>3, KeptOffer
<1>. QED
  BY <1>4, LenProperties

LEMMA AloneStep ==
  ASSUME FindingsPerScan = 1, IInv, Alone, [Next]_vars
  PROVE  Alone'
<1>0. DOMAIN saved.resolved \subseteq DOMAIN saved.findings
  BY DEF IInv, Shape
<1>1. ASSUME FindingsStay, saved'.next \in Early => saved.next \in Early
      PROVE  Alone'
  <2>1. Unaudited' = Unaudited /\ NextSound' = NextSound
    BY <1>1 DEF FindingsStay, Unaudited, NextSound
  <2>. QED
    BY <1>1, <2>1 DEF FindingsStay, Alone, Open
<1>2. CASE Stays \/ Passed \/ Handed
  BY <1>1, <1>2 DEF Stays, Passed, Handed, FindingsStay, Early
<1>3. CASE Attacked
  <2>1. saved'.next \in {"ship", "optimize", "end"}
    BY <1>3 DEF Attacked, Routes, Edges
  <2>. QED
    BY <1>1, <1>3, <2>1 DEF Attacked, Early
<1>4. CASE Anew
  <2>1. DOMAIN saved'.findings = {}
    BY <1>4 DEF Anew, NewState
  <2>. QED
    BY <2>1 DEF Alone, Open, Unaudited, NextSound
<1>5. CASE Found
  <2>1. PICK offer \in Offers : saved'.findings = Minted(Kept(offer))
    BY <1>5 DEF Found
  <2> DEFINE n == Len(saved.findings)
  <2>2. DOMAIN saved.findings = 1..n /\ n \in Nat
    BY LenProperties DEF IInv, Shape
  <2>3. DOMAIN saved'.findings = 1..n + 1
    BY <2>1, OneMinted DEF IInv, Shape, Place
  <2>4. Unaudited = {} /\ NextSound = {} /\ saved'.resolved = saved.resolved /\ saved'.next = "audit_finding"
    BY <1>5 DEF Found, Alone, Open, Early
  <2> HIDE DEF n
  <2>5. Unaudited' = {n + 1} /\ NextSound' = {}
    <3>1. DOMAIN saved.resolved = 1..n
      BY <1>0, <2>2, <2>4 DEF Unaudited
    <3>2. Unaudited' = {n + 1}
      BY <2>2, <2>3, <2>4, <3>1 DEF Unaudited
    <3>3. NextSound' = {}
      BY <2>2, <2>3, <2>4, <3>1 DEF NextSound
    <3>. QED
      BY <3>2, <3>3
  <2>. QED
    BY <2>3, <2>4, <2>5 DEF Alone, Open, Early
<1>6. CASE Judged
  <2>1. PICK f \in Unaudited, verdict \in {"sound", "needs_evidence", "unsound"} :
          /\ saved'.findings = saved.findings /\ saved'.resolved = Resolve(f, verdict)
          /\ saved'.next = Routes["audit_finding"][verdict]
    BY <1>6 DEF Judged
  <2>2. f \in DOMAIN saved.findings /\ f \notin DOMAIN saved.resolved /\ f \in Open
    BY DEF Unaudited, Open
  <2>3. Open' \subseteq Open /\ (verdict # "sound" => f \notin Open')
    <3>1. /\ Unaudited' = Unaudited \ {f}
          /\ \A g : g \in NextSound' <=>
               g \in NextSound \ {f} \/ (g = f /\ f \in DOMAIN saved.findings /\ verdict = "sound")
      BY <2>1, Resolved
    <3>. QED
      BY <2>2, <3>1 DEF Open
  <2>4. saved'.next \in Early => verdict # "sound"
    BY <2>1 DEF Routes, Edges, Early
  <2>. QED
    BY <2>1, <2>2, <2>3, <2>4 DEF Alone, Open
<1>7. CASE GaveUp
  <2>1. Unaudited' = Unaudited /\ NextSound' = NextSound
    BY <1>7, SoundAgain DEF GaveUp
  <2>. QED
    BY <1>7, <2>1 DEF GaveUp, Alone, Open, Early
<1>8. CASE Landed
  <2> DEFINE f == saved.repaired.finding
  <2>1. /\ f \in DOMAIN saved.findings /\ f \in DOMAIN saved.resolved /\ saved.resolved[f] = "sound"
        /\ f \in Open /\ saved'.findings = saved.findings /\ saved'.resolved = Resolve(f, "shipped")
    BY <1>8 DEF Landed, NextSound, Open
  <2> HIDE DEF f
  <2>2. Open' \subseteq Open /\ f \notin Open'
    BY <2>1, Resolved DEF Open
  <2>3. Open' = {}
    BY <2>1, <2>2 DEF Alone
  <2>. QED
    BY <2>3 DEF Alone, Open
<1>. QED
  BY <1>2, <1>3, <1>4, <1>5, <1>6, <1>7, <1>8, StepMoves

LEMMA AloneAlways ==
  ASSUME FindingsPerScan = 1
  PROVE  Spec => []Alone
<1>1. Init => Alone
  <2>1. Init => DOMAIN saved.findings = {}
    BY DEF Init, NewState
  <2>. QED
    BY <2>1 DEF Alone, Open, Unaudited, NextSound
<1>2. IInv /\ Alone /\ [Next]_vars => Alone'
  BY AloneStep
<1>. QED
  BY <1>1, <1>2, Inductive, PTL DEF Spec

\* Where a scan keeps one finding, at most one is open and none when a scan begins, through
\* any crash, resumption or loop back (Resources.findings_per_scan).
THEOREM BacklogSafety ==
  ASSUME FindingsPerScan = 1
  PROVE  Spec => []BacklogIsEmpty
<1>1. Alone => BacklogIsEmpty
  BY DEF Alone, BacklogIsEmpty, Early
<1>. QED
  BY <1>1, AloneAlways, PTL

-----------------------------------------------------------------------------
(* A run keeps FindingLife's promise, where a scan keeps one finding *)

\* What FindingLife is told of.
Told == [f \in DOMAIN saved.findings |-> LifeOf(f)]

VerdictsGiven ==
  \A f \in DOMAIN saved.resolved :
    saved.resolved[f] \in {"sound", "needs_evidence", "unsound", "shipped"}

LEMMA VerdictsStep ==
  ASSUME IInv, VerdictsGiven, [Next]_vars
  PROVE  VerdictsGiven'
<1>1. CASE Stays \/ Passed \/ Handed \/ Attacked
  BY <1>1 DEF Stays, Passed, Handed, Attacked, FindingsStay, VerdictsGiven
<1>2. CASE Anew
  <2>1. DOMAIN saved'.resolved = {}
    BY <1>2 DEF Anew, NewState
  <2>. QED
    BY <2>1 DEF VerdictsGiven
<1>3. CASE Found
  BY <1>3 DEF Found, VerdictsGiven
<1>4. ASSUME NEW f, NEW verdict \in {"sound", "needs_evidence", "unsound", "shipped"},
             saved'.findings = saved.findings, saved'.resolved = Resolve(f, verdict)
      PROVE  VerdictsGiven'
  <2>1. /\ DOMAIN saved'.resolved = DOMAIN saved.resolved \cup {f}
        /\ saved'.resolved[f] = verdict
        /\ \A g \in DOMAIN saved.resolved : g # f => saved'.resolved[g] = saved.resolved[g]
    BY ONLY <1>4, Resolved
  <2>. QED
    BY <2>1 DEF VerdictsGiven
<1>5. CASE Judged
  BY <1>4, <1>5 DEF Judged
<1>6. CASE GaveUp
  <2>1. PICK f \in NextSound : saved'.resolved = Resolve(f, "sound")
    BY <1>6 DEF GaveUp
  <2>. QED
    BY <1>4, <1>6, <2>1 DEF GaveUp
<1>7. CASE Landed
  BY <1>4, <1>7 DEF Landed
<1>. QED
  BY <1>1, <1>2, <1>3, <1>5, <1>6, <1>7, StepMoves

\* What is told of a finding, by how it stands.
LEMMA Standing ==
  /\ DOMAIN Told = DOMAIN saved.findings
  /\ \A f \in DOMAIN saved.findings :
       /\ f \in Unaudited => Told[f] = "open"
       /\ f \in NextSound => Told[f] = IF saved.repaired.finding # f THEN "sound"
                                       ELSE IF saved.next = "ship" THEN "cleared" ELSE "patched"
       /\ f \notin Open => Told[f] = saved.resolved[f]
  BY DEF Told, LifeOf, Unaudited, NextSound, Open

LEMMA StandingNext ==
  /\ DOMAIN Told' = DOMAIN saved'.findings
  /\ \A f \in DOMAIN saved'.findings :
       /\ f \in Unaudited' => Told'[f] = "open"
       /\ f \in NextSound' => Told'[f] = IF saved'.repaired.finding # f THEN "sound"
                                         ELSE IF saved'.next = "ship" THEN "cleared" ELSE "patched"
       /\ f \notin Open' => Told'[f] = saved'.resolved[f]
  BY DEF Told, LifeOf, Unaudited, NextSound, Open

LEMMA ToldIsFunction ==
  /\ Told = [f \in DOMAIN Told |-> Told[f]]
  /\ Told' = [f \in DOMAIN Told' |-> Told'[f]]
  BY DEF Told

\* Two tellings of the same findings in the same words are one.
LEMMA SameTold ==
  ASSUME DOMAIN Told' = DOMAIN Told, \A f \in DOMAIN Told : Told'[f] = Told[f]
  PROVE  Told' = Told
  BY ToldIsFunction

\* One finding's story moves on.
LEMMA OneTold ==
  ASSUME NEW f \in DOMAIN Told, NEW word, DOMAIN Told' = DOMAIN Told, Told'[f] = word,
         \A g \in DOMAIN Told : g # f => Told'[g] = Told[g]
  PROVE  Told' = [Told EXCEPT ![f] = word]
  BY ToldIsFunction

Steadfast == IInv /\ PatchIsOne /\ VerdictsGiven /\ Alone

\* No patch in hand is a patch of finding 0, which there is not.
LEMMA NoneIsNobody ==
  ASSUME Shape
  PROVE  NoPatch.finding \notin DOMAIN saved.findings
  BY LenProperties DEF Shape, NoPatch

LEMMA QuietPromise ==
  ASSUME Steadfast, Stays \/ Passed \/ GaveUp
  PROVE  Told' = Told
<1>1. CASE Stays
  BY <1>1 DEF Stays, Told, LifeOf, NextSound
<1>2. CASE Passed
  <2>1. saved.next # "ship" /\ saved'.next # "ship" /\ saved'.repaired = saved.repaired
    BY <1>2 DEF Passed, PatchStays, Early
  <2>. QED
    BY <1>2, <2>1 DEF Passed, FindingsStay, Told, LifeOf, NextSound
<1>3. CASE GaveUp
  <2>1. saved.next # "ship" /\ saved'.next # "ship" /\ saved'.repaired = saved.repaired
        /\ saved'.findings = saved.findings
    BY <1>3 DEF GaveUp, PatchStays
  <2>2. PICK g \in NextSound : saved'.resolved = Resolve(g, "sound")
    BY <1>3 DEF GaveUp
  <2>3. /\ NextSound' = NextSound /\ Unaudited' = Unaudited
        /\ \A f \in DOMAIN saved.resolved : saved'.resolved[f] = saved.resolved[f]
    BY <2>1, <2>2, SoundAgain
  <2>4. \A f \in DOMAIN saved.findings : f \in Unaudited \/ f \in DOMAIN saved.resolved
    BY DEF Unaudited
  <2>5. Open' = Open
    BY <2>3 DEF Open
  <2>6. \A f \in DOMAIN saved.findings : Told'[f] = Told[f]
    <3> SUFFICES ASSUME NEW f \in DOMAIN saved.findings PROVE Told'[f] = Told[f]
      OBVIOUS
    <3>1. CASE f \in Unaudited
      BY <2>1, <2>3, <3>1, Standing, StandingNext
    <3>2. CASE f \in NextSound
      BY <2>1, <2>3, <3>2, Standing, StandingNext
    <3>3. CASE f \notin Open
      BY <2>1, <2>3, <2>4, <2>5, <3>3, Standing, StandingNext DEF Open
    <3>. QED
      BY <3>1, <3>2, <3>3 DEF Open
  <2>. QED
    BY <2>1, <2>6, SameTold, Standing, StandingNext
<1>. QED
  BY <1>1, <1>2, <1>3

\* A scan that finds something mints one finding, with nothing else in flight.
LEMMA FoundPromise ==
  ASSUME FindingsPerScan = 1, Steadfast, Found
  PROVE  Life!Mint
<1> DEFINE n == Len(saved.findings)
<1>1. DOMAIN saved.findings = 1..n /\ n \in Nat
  BY LenProperties DEF Steadfast, IInv, Shape
<1>2. PICK offer \in Offers : saved'.findings = Minted(Kept(offer))
  BY DEF Found
<1>3. DOMAIN saved'.findings = 1..n + 1
  BY <1>2, OneMinted DEF Steadfast, IInv, Shape, Place
<1>4. /\ Open = {} /\ saved.repaired = NoPatch /\ saved'.repaired = NoPatch
      /\ saved'.resolved = saved.resolved
  BY DEF Found, Steadfast, Alone, PatchIsOne, PatchStays, Early
<1> HIDE DEF n
<1>5. DOMAIN saved.resolved = 1..n
  BY <1>1, <1>4 DEF Steadfast, IInv, Shape, Open, Unaudited
<1>6. \A f \in 1..n : Told[f] = saved.resolved[f] /\ Told[f] \notin Life!InFlight
  <2>1. \A f \in 1..n : Told[f] = saved.resolved[f] /\ saved.resolved[f] # "sound"
    BY <1>1, <1>4, <1>5, Standing DEF Open, NextSound
  <2>. QED
    BY <1>5, <2>1 DEF Steadfast, VerdictsGiven, Life!InFlight
<1>7. \A f \in 1..n : Told'[f] = saved.resolved[f]
  <2>1. \A f \in 1..n : f \notin Unaudited' /\ f \notin NextSound'
    BY <1>1, <1>4, <1>5 DEF Open, NextSound, Unaudited
  <2>2. \A f \in 1..n : f \in DOMAIN saved'.findings
    BY <1>1, <1>3
  <2>. QED
    BY <1>4, <2>1, <2>2, StandingNext DEF Open
<1>8. Told'[n + 1] = "open"
  <2>1. n + 1 \in Unaudited' /\ n + 1 \in DOMAIN saved'.findings
    BY <1>1, <1>3, <1>4, <1>5 DEF Unaudited
  <2>. QED
    BY <2>1, StandingNext
<1> DEFINE words == {"sound", "needs_evidence", "unsound", "shipped", "open"}
           longer == Append(Told, "open")
<1>9. Told \in Seq(words) /\ Len(Told) = n
  <2>1. \A f \in 1..n : Told[f] \in words
    BY <1>5, <1>6 DEF Steadfast, VerdictsGiven
  <2>2. Told \in [1..n -> words]
    BY <1>1, <2>1, Standing, ToldIsFunction
  <2> HIDE DEF words
  <2>. QED
    BY <1>1, <2>2
<1>10. Told' \in Seq(words) /\ Len(Told') = n + 1
  <2>1. \A f \in 1..n + 1 : Told'[f] \in words
    <3>1. \A f \in 1..n : Told'[f] \in words
      BY <1>5, <1>7 DEF Steadfast, VerdictsGiven
    <3>. QED
      BY <1>1, <1>8, <3>1
  <2>2. Told' \in [1..n + 1 -> words]
    BY <1>3, <2>1, StandingNext, ToldIsFunction
  <2> HIDE DEF words
  <2>3. n + 1 \in Nat
    BY <1>1
  <2>. QED
    BY <2>2, <2>3
<1>11. Told' = longer
  <2>1. longer \in Seq(words) /\ Len(longer) = n + 1
    BY <1>9, AppendProperties
  <2>2. \A f \in 1..n : longer[f] = Told[f]
    BY <1>1, <1>9, AppendProperties
  <2>3. longer[n + 1] = "open"
    BY <1>1, <1>9, AppendProperties
  <2> HIDE DEF words, longer
  <2>4. \A f \in 1..n + 1 : Told'[f] = longer[f]
    BY <1>1, <1>6, <1>7, <1>8, <2>2, <2>3
  <2>. QED
    BY <1>10, <2>1, <2>4, SeqEqual
<1>12. \A f \in DOMAIN Told : Told[f] \notin Life!InFlight
  BY <1>1, <1>6, Standing
<1>. QED
  BY <1>11, <1>12 DEF Life!Mint, Told

\* A verdict judges a finding no one has judged.
LEMMA JudgedPromise ==
  ASSUME Steadfast, Judged
  PROVE  \E f \in DOMAIN Told : Life!Judge(f)
<1>1. PICK f \in Unaudited, verdict \in {"sound", "needs_evidence", "unsound"} :
        saved'.findings = saved.findings /\ saved'.resolved = Resolve(f, verdict)
  BY DEF Judged
<1>2. /\ DOMAIN saved'.resolved = DOMAIN saved.resolved \cup {f}
      /\ saved'.resolved[f] = verdict
      /\ \A g \in DOMAIN saved.resolved : g # f => saved'.resolved[g] = saved.resolved[g]
      /\ Unaudited' = Unaudited \ {f}
      /\ \A g : g \in NextSound' <=>
           g \in NextSound \ {f} \/ (g = f /\ f \in DOMAIN saved.findings /\ verdict = "sound")
  BY <1>1, Resolved
<1>3. f \in DOMAIN saved.findings /\ DOMAIN Told = DOMAIN saved.findings /\ DOMAIN Told' = DOMAIN Told
      /\ f \notin NextSound
  BY <1>1, Standing, StandingNext DEF Unaudited, NextSound
<1>4. \A g \in DOMAIN saved.findings : saved.repaired.finding # g /\ saved'.repaired.finding # g
  <2>1. saved.repaired = NoPatch /\ saved'.repaired = NoPatch
    BY DEF Judged, Steadfast, PatchIsOne, PatchStays
  <2>. QED
    BY <2>1, NoneIsNobody DEF Steadfast, IInv
<1>5. Told[f] = "open"
  BY <1>3, Standing
<1>6. Told'[f] = verdict
  <2>1. CASE verdict = "sound"
    BY <1>1, <1>2, <1>3, <1>4, <2>1, StandingNext
  <2>2. CASE verdict # "sound"
    BY <1>1, <1>2, <1>3, <2>2, StandingNext DEF Open
  <2>. QED
    BY <2>1, <2>2
<1>7. ASSUME NEW g \in DOMAIN Told, g # f PROVE Told'[g] = Told[g]
  <2>0. g \in DOMAIN saved.findings /\ g \in DOMAIN saved'.findings
    BY <1>1, <1>3
  <2>1. CASE g \in Unaudited
    BY <1>2, <1>7, <2>0, <2>1, Standing, StandingNext
  <2>2. CASE g \in NextSound
    BY <1>2, <1>4, <1>7, <2>0, <2>2, Standing, StandingNext
  <2>3. CASE g \notin Open
    <3>1. g \notin Open' /\ g \in DOMAIN saved.resolved
      BY <1>2, <1>7, <2>0, <2>3 DEF Open, Unaudited
    <3>. QED
      BY <1>2, <1>7, <2>0, <2>3, <3>1, Standing, StandingNext
  <2>. QED
    BY <2>1, <2>2, <2>3 DEF Open
<1>8. Told' = [Told EXCEPT ![f] = verdict]
  BY <1>3, <1>6, <1>7, OneTold
<1>. QED
  BY <1>3, <1>5, <1>8 DEF Life!Judge, Told
\* Where the findings and the verdicts stay, all that is told of a finding that is not
\* the sound one stays.
LEMMA OthersTold ==
  ASSUME Steadfast, FindingsStay, NEW f \in NextSound
  PROVE  /\ f \in NextSound' /\ f \in DOMAIN Told /\ DOMAIN Told' = DOMAIN Told
         /\ DOMAIN saved'.findings = DOMAIN saved.findings /\ f \in DOMAIN saved.findings
         /\ \A g \in DOMAIN Told : g # f => Told'[g] = Told[g]
<1>1. NextSound' = NextSound /\ Unaudited' = Unaudited /\ Open' = Open /\ saved'.findings = saved.findings
      /\ saved'.resolved = saved.resolved
  BY DEF FindingsStay, NextSound, Unaudited, Open
<1>2. f \in DOMAIN saved.findings /\ DOMAIN Told = DOMAIN saved.findings /\ DOMAIN Told' = DOMAIN Told
  BY <1>1, Standing, StandingNext DEF NextSound
<1>3. ASSUME NEW g \in DOMAIN saved.findings, g # f PROVE Told'[g] = Told[g]
  <2>1. g \notin Open
    BY <1>3 DEF Steadfast, Alone, Open
  <2>2. g \in DOMAIN saved'.findings /\ g \notin Open'
    BY <1>1, <2>1
  <2>3. Told[g] = saved.resolved[g] /\ Told'[g] = saved'.resolved[g]
    BY <2>1, <2>2, Standing, StandingNext
  <2>. QED
    BY <1>1, <2>3
<1>. QED
  BY <1>1, <1>2, <1>3

\* A search's winner patches a sound finding; a second round patches the same one.
LEMMA HandedPromise ==
  ASSUME Steadfast, Handed
  PROVE  Told' = Told \/ \E f \in DOMAIN Told : Life!Patch(f)
<1> DEFINE f == saved'.repaired.finding
<1>1. f \in NextSound /\ FindingsStay /\ saved.next = "optimize" /\ saved'.next = "audit_patch"
  BY DEF Handed
<1>2. /\ f \in NextSound' /\ f \in DOMAIN Told /\ DOMAIN Told' = DOMAIN Told
      /\ f \in DOMAIN saved.findings /\ f \in DOMAIN saved'.findings
      /\ \A g \in DOMAIN Told : g # f => Told'[g] = Told[g]
  <2> HIDE DEF f
  <2>. QED
    BY <1>1, OthersTold
<1>3. Told'[f] = "patched"
  BY <1>1, <1>2, StandingNext
<1>4. CASE saved.repaired = NoPatch
  <2>1. saved.repaired.finding # f
    BY <1>2, <1>4, NoneIsNobody DEF Steadfast, IInv
  <2>2. Told[f] = "sound"
    BY <1>1, <1>2, <2>1, Standing
  <2> HIDE DEF f
  <2>3. Told' = [Told EXCEPT ![f] = "patched"]
    BY <1>2, <1>3, OneTold
  <2>. QED
    BY <1>2, <2>2, <2>3 DEF Life!Patch, Told
<1>5. CASE saved.repaired # NoPatch
  <2>1. saved.repaired.finding = f
    BY <1>1, <1>5 DEF Steadfast, PatchIsOne, Alone, Open
  <2>2. Told[f] = "patched"
    BY <1>1, <1>2, <2>1, Standing
  <2> HIDE DEF f
  <2>. QED
    BY <1>2, <1>3, <2>2, SameTold
<1>. QED
  BY <1>4, <1>5

\* An attack that comes back clean clears the patched finding, and no other attack does.
LEMMA AttackedPromise ==
  ASSUME Steadfast, Attacked
  PROVE  Told' = Told \/ \E f \in DOMAIN Told : Life!Clear(f)
<1> DEFINE f == saved.repaired.finding
<1>1. /\ f \in NextSound /\ FindingsStay /\ saved.next = "audit_patch"
      /\ saved'.repaired = saved.repaired
  BY DEF Attacked, Steadfast, IInv, Due
<1>2. /\ f \in NextSound' /\ f \in DOMAIN Told /\ DOMAIN Told' = DOMAIN Told
      /\ f \in DOMAIN saved.findings /\ f \in DOMAIN saved'.findings
      /\ \A g \in DOMAIN Told : g # f => Told'[g] = Told[g]
  <2>1. FindingsStay
    BY <1>1
  <2> HIDE DEF f
  <2>. QED
    BY <1>1, <2>1, OthersTold
<1>3. Told[f] = "patched"
  BY <1>1, <1>2, Standing
<1>4. CASE saved'.next = "ship"
  <2>1. Told'[f] = "cleared"
    BY <1>1, <1>2, <1>4, StandingNext
  <2> HIDE DEF f
  <2>2. Told' = [Told EXCEPT ![f] = "cleared"]
    BY <1>2, <2>1, OneTold
  <2>. QED
    BY <1>2, <1>3, <2>2 DEF Life!Clear, Told
<1>5. CASE saved'.next # "ship"
  <2>1. Told'[f] = "patched"
    BY <1>1, <1>2, <1>5, StandingNext
  <2> HIDE DEF f
  <2>. QED
    BY <1>2, <1>3, <2>1, SameTold
<1>. QED
  BY <1>4, <1>5

\* What ships is the cleared finding.
LEMMA LandedPromise ==
  ASSUME Steadfast, Landed
  PROVE  \E f \in DOMAIN Told : Life!Ship(f)
<1> DEFINE f == saved.repaired.finding
<1>1. /\ f \in NextSound /\ saved.next = "ship" /\ saved'.findings = saved.findings
      /\ saved'.resolved = Resolve(f, "shipped")
  BY DEF Landed
<1>2. f \in DOMAIN saved.findings /\ f \in DOMAIN saved'.findings
      /\ DOMAIN Told = DOMAIN saved.findings /\ DOMAIN Told' = DOMAIN Told
  BY <1>1, Standing, StandingNext DEF NextSound
<1>3. Told[f] = "cleared"
  BY <1>1, <1>2, Standing
<1> HIDE DEF f
<1>4. /\ DOMAIN saved'.resolved = DOMAIN saved.resolved \cup {f}
      /\ saved'.resolved[f] = "shipped"
      /\ \A g \in DOMAIN saved.resolved : g # f => saved'.resolved[g] = saved.resolved[g]
      /\ Unaudited' = Unaudited \ {f}
      /\ \A g : g \in NextSound' <=>
           g \in NextSound \ {f} \/ (g = f /\ f \in DOMAIN saved.findings /\ "shipped" = "sound")
  BY <1>1, Resolved
<1>5. Told'[f] = "shipped"
  <2>1. f \notin Open'
    BY <1>4 DEF Open
  <2>. QED
    BY <1>2, <1>4, <2>1, StandingNext
<1>6. ASSUME NEW g \in DOMAIN saved.findings, g # f PROVE Told'[g] = Told[g]
  <2>1. g \notin Open
    BY <1>1, <1>6 DEF Steadfast, Alone, Open
  <2>2. g \notin Open' /\ g \in DOMAIN saved'.findings /\ g \in DOMAIN saved.resolved
    BY <1>1, <1>4, <2>1 DEF Open, Unaudited
  <2>3. Told[g] = saved.resolved[g] /\ Told'[g] = saved'.resolved[g]
    BY <2>1, <2>2, Standing, StandingNext
  <2>. QED
    BY <1>4, <1>6, <2>2, <2>3
<1>7. Told' = [Told EXCEPT ![f] = "shipped"]
  BY <1>2, <1>5, <1>6, OneTold
<1>. QED
  BY <1>2, <1>3, <1>7 DEF Life!Ship, Told

LEMMA PromiseStep ==
  ASSUME FindingsPerScan = 1, Steadfast, [Next]_vars
  PROVE  [Life!Next]_Told
<1>1. CASE Stays \/ Passed \/ GaveUp
  BY <1>1, QuietPromise
<1>2. CASE Anew
  <2>1. DOMAIN saved'.findings = {}
    BY <1>2 DEF Anew, NewState
  <2>2. Told' = <<>>
    BY <2>1, StandingNext, ToldIsFunction
  <2>. QED
    BY <2>2 DEF Life!Next, Life!NewRun, Told
<1>3. CASE Found
  BY <1>3, FoundPromise DEF Life!Next
<1>4. CASE Judged
  BY <1>4, JudgedPromise DEF Life!Next, Told
<1>5. CASE Handed
  BY <1>5, HandedPromise DEF Life!Next, Told
<1>6. CASE Attacked
  BY <1>6, AttackedPromise DEF Life!Next, Told
<1>7. CASE Landed
  BY <1>7, LandedPromise DEF Life!Next, Told
<1>. QED
  BY <1>1, <1>2, <1>3, <1>4, <1>5, <1>6, <1>7, StepMoves DEF Steadfast

\* Where a scan keeps one finding, a run keeps FindingLife's promise through any crash,
\* resumption or loop back: a finding is judged once, ships only after its own patch has
\* been audited clean, ships once, and none is taken on while another is in flight.
THEOREM PromiseKept ==
  ASSUME FindingsPerScan = 1
  PROVE  Spec => KeepsPromise
<1>1. Init => VerdictsGiven /\ Told = <<>>
  <2>1. Init => DOMAIN saved.findings = {} /\ DOMAIN saved.resolved = {}
    BY DEF Init, NewState
  <2>2. Init => Told = <<>>
    BY <2>1, Standing, ToldIsFunction
  <2>3. Init => VerdictsGiven
    BY <2>1 DEF VerdictsGiven
  <2>. QED
    BY <2>2, <2>3
<1>2. IInv /\ VerdictsGiven /\ [Next]_vars => VerdictsGiven'
  BY VerdictsStep
<1>3. Spec => []VerdictsGiven
  BY <1>1, <1>2, Inductive, PTL DEF Spec
<1>4. Spec => []Steadfast
  BY <1>3, Inductive, PatchIsOneAlways, AloneAlways, PTL DEF Steadfast
<1>5. Init => Life!Init
  BY <1>1 DEF Life!Init, Told
<1>6. Steadfast /\ [Next]_vars => [Life!Next]_Told
  BY PromiseStep
<1>. QED
  BY <1>4, <1>5, <1>6, PTL DEF Spec, KeepsPromise, Life!Spec, Told
-----------------------------------------------------------------------------
(* What was tried: the search, its journal and the checkpoint's candidates *)

IsSeq(s) == \E S : s \in Seq(S)

LEMMA SeqLen ==
  ASSUME NEW s, IsSeq(s)
  PROVE  Len(s) \in Nat /\ DOMAIN s = 1..Len(s)
  BY LenProperties DEF IsSeq

LEMMA SeqAppend ==
  ASSUME NEW s, NEW e, IsSeq(s)
  PROVE  /\ IsSeq(Append(s, e)) /\ Len(Append(s, e)) = Len(s) + 1
         /\ \A i \in 1..Len(s) : Append(s, e)[i] = s[i]
         /\ Append(s, e)[Len(s) + 1] = e
<1>1. PICK S : s \in Seq(S)
  BY DEF IsSeq
<1> DEFINE T == S \cup {e}
<1>2. s \in Seq(T) /\ e \in T
  BY <1>1, SeqMonotonic
<1> HIDE DEF T
<1>. QED
  BY <1>2, AppendProperties DEF IsSeq

LEMMA SeqConcat ==
  ASSUME NEW s, NEW t, IsSeq(s), IsSeq(t)
  PROVE  /\ IsSeq(s \o t) /\ Len(s \o t) = Len(s) + Len(t)
         /\ \A i \in 1..Len(s) + Len(t) :
              (s \o t)[i] = IF i <= Len(s) THEN s[i] ELSE t[i - Len(s)]
         /\ t = <<>> => s \o t = s
<1>1. PICK S : s \in Seq(S)
  BY DEF IsSeq
<1>2. PICK T : t \in Seq(T)
  BY DEF IsSeq
<1> DEFINE U == S \cup T
<1>3. s \in Seq(U) /\ t \in Seq(U)
  BY <1>1, <1>2, SeqMonotonic
<1> HIDE DEF U
<1>. QED
  BY <1>3, ConcatProperties, ConcatEmptySeq DEF IsSeq

\* The part of a sequence that comes after its first n.
LEMMA SeqRest ==
  ASSUME NEW s, NEW n \in Nat, IsSeq(s)
  PROVE  LET rest == SubSeq(s, n + 1, Len(s)) IN
         /\ IsSeq(rest) /\ Len(rest) = IF n < Len(s) THEN Len(s) - n ELSE 0
         /\ \A i \in 1..Len(rest) : rest[i] = s[n + i] /\ n + i \in DOMAIN s
<1>1. PICK S : s \in Seq(S)
  BY DEF IsSeq
<1>2. Len(s) \in Nat /\ DOMAIN s = 1..Len(s) /\ \A i \in n + 1..Len(s) : s[i] \in S
  BY <1>1, LenProperties, ElementOfSeq
<1> DEFINE rest == SubSeq(s, n + 1, Len(s))
<1>3. /\ rest \in Seq(S)
      /\ Len(rest) = IF n + 1 <= Len(s) THEN Len(s) - (n + 1) + 1 ELSE 0
      /\ \A i \in 1..Len(s) - (n + 1) + 1 : rest[i] = s[n + 1 + i - 1]
  BY <1>2, SubSeqProperties
<1> HIDE DEF rest
<1>4. Len(rest) = IF n < Len(s) THEN Len(s) - n ELSE 0
  <2>1. (n + 1 <= Len(s)) = (n < Len(s)) /\ Len(s) - (n + 1) + 1 = Len(s) - n
    BY <1>2
  <2>. QED
    BY <1>3, <2>1
<1>5. ASSUME NEW i \in 1..Len(rest) PROVE rest[i] = s[n + i] /\ n + i \in DOMAIN s
  <2>1. Len(s) \in Nat /\ n < Len(s) /\ i \in 1..Len(s) - n
    <3>1. ASSUME ~(n < Len(s)) PROVE FALSE
      <4>1. Len(rest) = 0
        BY <1>4, <3>1
      <4>. QED
        BY <4>1
    <3>. QED
      BY <1>2, <1>4, <3>1
  <2>2. i \in 1..Len(s) - (n + 1) + 1 /\ n + 1 + i - 1 = n + i /\ n + i \in 1..Len(s)
    BY <2>1
  <2>. QED
    BY <1>2, <1>3, <2>2
<1>. QED
  BY <1>3, <1>4, <1>5 DEF IsSeq, rest

\* Two sequences that open differently: the one is not the other's beginning.
LEMMA OpensOtherwise ==
  ASSUME NEW channel, NEW update, IsSeq(channel), IsSeq(update),
         channel # <<>> /\ update # <<>> => channel[1] # update[1]
  PROVE  ~RepeatsList(channel, update)
<1> SUFFICES ASSUME channel # <<>>, IsPrefix(channel, update) PROVE FALSE
  BY DEF RepeatsList
<1>1. PICK S : channel \in Seq(S)
  BY DEF IsSeq
<1>2. PICK T : update \in Seq(T)
  BY DEF IsSeq
<1>3. Len(channel) \in Nat \ {0} /\ Len(update) \in Nat /\ Len(channel) <= Len(update)
  BY <1>1, <1>2, EmptySeq, LenProperties DEF IsPrefix
<1>4. \A i \in 1..Len(channel) : channel[i] \in S /\ update[i] \in T
  BY <1>1, <1>2, <1>3, ElementOfSeq
<1>5. /\ SubSeq(channel, 1, Len(channel))[1] = channel[1]
      /\ SubSeq(update, 1, Len(channel))[1] = update[1]
  BY <1>3, <1>4, SubSeqProperties
<1>6. update # <<>>
  BY <1>3, EmptySeq
<1>. QED
  BY <1>5, <1>6 DEF IsPrefix

\* What a search remembers is a sequence, however many ids the two sources share.
LEMMA RememberedIsSeq ==
  ASSUME NEW f, IsSeq(IF HasJournal THEN journal[f] ELSE <<>>), IsSeq(saved.candidates)
  PROVE  IsSeq(Remembered(f))
<1> DEFINE told     == IF HasJournal THEN journal[f] ELSE <<>>
           all      == told \o saved.candidates
           firsts   == {i \in DOMAIN all : \A j \in 1..i - 1 : all[j].id # all[i].id}
           nth(k)   == CHOOSE i \in firsts : Cardinality({j \in firsts : j < i}) = k - 1
           stands(i) == LET again == {j \in DOMAIN told : told[j].id = all[i].id} IN
                        all[IF again = {} THEN i ELSE Max(again)]
           entry(k) == stands(nth(k))
           n        == Cardinality(firsts)
<1>1. Remembered(f) = [k \in 1..n |-> entry(k)]
  BY Zenon DEF Remembered
<1>2. n \in Nat
  <2>1. DOMAIN all = 1..Len(all) /\ Len(all) \in Nat
    <3>1. IsSeq(told)
      OBVIOUS
    <3> HIDE DEF told
    <3>2. IsSeq(all)
      BY <3>1, SeqConcat
    <3> HIDE DEF all
    <3>. QED
      BY <3>2, SeqLen
  <2>2. firsts \subseteq 1..Len(all)
    BY <2>1
  <2> HIDE DEF firsts, all
  <2>3. IsFiniteSet(1..Len(all))
    BY <2>1, FS_Interval
  <2>4. IsFiniteSet(firsts)
    BY <2>2, <2>3, FS_Subset
  <2>. QED
    BY <2>4, FS_CardinalityType
<1> HIDE DEF entry, n
<1> DEFINE S == {entry(k) : k \in 1..n}
<1>3. [k \in 1..n |-> entry(k)] \in [1..n -> S]
  OBVIOUS
<1> HIDE DEF S
<1>4. Remembered(f) \in Seq(S)
  BY <1>1, <1>2, <1>3
<1>. QED
  BY <1>4 DEF IsSeq
\* A node is searching for a patch, or recording what it searched.
Searching == at \in {"search", "record"}

\* A measurement is of one candidate: what a search adds is newer than the checkpoint.
Measured ==
  /\ IsSeq(saved.candidates)
  /\ \A i \in DOMAIN saved.candidates : saved.candidates[i].m \in Nat /\ saved.candidates[i].m <= minted
  /\ Searching =>
       /\ search = [found |-> search.found, known |-> search.known, filed |-> search.filed]
       /\ IsSeq(search.found) /\ search.known \in Nat
       /\ \A i \in DOMAIN search.found : i > search.known =>
            /\ search.found[i].m \in Nat /\ search.found[i].m <= minted
            /\ \A j \in DOMAIN saved.candidates : saved.candidates[j].m # search.found[i].m

\* What a search has filed is in the journal of its finding, and the journal of every
\* finding a scan may mint is kept.
Journalled ==
  /\ DOMAIN journal = 1..MaxFindings /\ Len(saved.findings) <= MaxFindings
  /\ \A f \in 1..MaxFindings : IsSeq(journal[f])
  /\ \A i \in DOMAIN saved.candidates : saved.candidates[i].finding \in 1..MaxFindings
  /\ Searching =>
       /\ search.filed \in search.known..Len(search.found)
       /\ \A i \in DOMAIN search.found : i > search.known =>
            /\ search.found[i].finding = First(NextSound)
            /\ i <= search.filed => Contains(journal[First(NextSound)], search.found[i])

Tracked == Measured /\ Journalled /\ JournalAheadOfCheckpoint /\ HistoryNotRepeated

\* A step outside a search that adds no candidate changes nothing of what was tried.
LEMMA NothingTried ==
  ASSUME IInv, Tracked, saved'.candidates = saved.candidates, Len(saved'.findings) <= MaxFindings,
         journal' = journal, minted' \in Nat, minted' >= minted, ~Searching', raised' # "history"
  PROVE  Tracked'
<1>1. minted \in Nat
  BY DEF IInv, Place
<1>2. Measured'
  BY <1>1 DEF Tracked, Measured
<1>3. Journalled' /\ JournalAheadOfCheckpoint' /\ HistoryNotRepeated'
  BY DEF Tracked, Journalled, JournalAheadOfCheckpoint, HistoryNotRepeated
<1>. QED
  BY <1>2, <1>3 DEF Tracked

\* A return whose update opens as no channel does is accepted.
LEMMA ReturnAccepts ==
  ASSUME IInv, NEW node, NEW route, NEW channels, NEW measured, NEW scored, IsState(channels),
         Return(node, route, channels, measured, scored),
         measured \cap saved.measurements = {}, ~RepeatsList(saved.candidates, scored)
  PROVE  /\ saved'.candidates = channels.candidates \o scored /\ saved'.findings = channels.findings
         /\ journal' = journal /\ minted' = minted /\ raised' = raised /\ ~Searching'
<1>1. ~RepeatsHistory(saved.measurements, measured)
  BY DEF RepeatsHistory
<1>2. /\ saved' = [channels EXCEPT !.next = Routes[node][route],
                                   !.measurements = @ \cup measured,
                                   !.candidates = @ \o scored]
      /\ at' = "between" /\ UNCHANGED <<journal, minted, raised>>
  BY <1>1 DEF Return
<1>. QED
  BY <1>2 DEF IsState, Searching

LEMMA ReturnTracked ==
  ASSUME IInv, Tracked, NEW node, NEW route, NEW channels, NEW measured, IsState(channels),
         channels.candidates = saved.candidates, Len(channels.findings) <= MaxFindings,
         measured \cap saved.measurements = {}, Return(node, route, channels, measured, <<>>)
  PROVE  Tracked'
<1>1. IsSeq(saved.candidates) /\ IsSeq(<<>>)
  BY EmptySeq DEF Tracked, Measured, IsSeq
<1>2. ~RepeatsList(saved.candidates, <<>>)
  BY <1>1, OpensOtherwise
<1>3. saved.candidates \o <<>> = saved.candidates
  BY <1>1, SeqConcat
<1>4. raised # "history" /\ minted \in Nat
  BY DEF Tracked, HistoryNotRepeated, IInv, Place
<1> DEFINE none == <<>>
<1>5. Return(node, route, channels, measured, none) /\ ~RepeatsList(saved.candidates, none)
  BY <1>2
<1> HIDE DEF none
<1>6. /\ saved'.candidates = channels.candidates \o none /\ saved'.findings = channels.findings
      /\ journal' = journal /\ minted' = minted /\ raised' = raised /\ ~Searching'
  BY <1>5, ReturnAccepts
<1>7. saved'.candidates = saved.candidates
  BY <1>3, <1>6 DEF none
<1>. QED
  BY <1>4, <1>6, <1>7, NothingTried

\* Moving the process about, and dying.
LEMMA MovesTracked ==
  ASSUME IInv, Tracked,
         Start \/ Resume \/ (\E node \in Nodes : Enter(node)) \/ Park \/ RunOut \/ Finish
           \/ Crash \/ Raise \/ Measure
  PROVE  Tracked'
<1>0. minted \in Nat /\ raised # "history" /\ IsState(saved)
  BY DEF IInv, Shape, Place, Tracked, HistoryNotRepeated
<1>1. /\ saved'.candidates = saved.candidates /\ saved'.findings = saved.findings
      /\ journal' = journal /\ minted' \in Nat /\ minted' >= minted /\ ~Searching'
      /\ raised' # "history"
  <2>1. CASE Start
    BY <1>0, <2>1 DEF Start, IsState, Searching
  <2>2. CASE RunOut \/ Raise
    BY <1>0, <2>2 DEF RunOut, Raise, Abort, Searching
  <2>3. CASE Resume \/ Park \/ Finish \/ Crash
    BY <1>0, <2>3 DEF Resume, Park, Finish, Crash, Searching
  <2>4. CASE \E node \in Nodes : Enter(node)
    BY <1>0, <2>4 DEF Enter, Searching, Nodes
  <2>5. CASE Measure
    BY <1>0, <2>5 DEF Measure, Searching
  <2>. QED
    BY <2>1, <2>2, <2>3, <2>4, <2>5
<1>2. Len(saved'.findings) <= MaxFindings
  BY <1>1 DEF Tracked, Journalled
<1>. QED
  BY <1>1, <1>2, NothingTried

LEMMA NewRunTracked == ASSUME IInv, Tracked, NewRun PROVE Tracked'
<1>1. /\ saved'.candidates = <<>> /\ saved'.findings = <<>> /\ journal' = journal /\ minted' = minted
      /\ at' = "idle" /\ raised' = "none"
  BY DEF NewRun, NewState
<1>2. IsSeq(saved'.candidates) /\ DOMAIN saved'.candidates = {} /\ Len(saved'.findings) = 0
  BY <1>1, EmptySeq DEF IsSeq
<1>3. Measured' /\ JournalAheadOfCheckpoint' /\ HistoryNotRepeated'
  BY <1>1, <1>2 DEF Measured, Searching, JournalAheadOfCheckpoint, HistoryNotRepeated
<1>4. Journalled'
  BY <1>1, <1>2, BoundsAssumption DEF Tracked, Journalled, Searching
<1>. QED
  BY <1>3, <1>4 DEF Tracked
LEMMA AbortTracked ==
  ASSUME IInv, Tracked, NEW why, why # "history", Abort(why)
  PROVE  Tracked'
<1>1. saved' = saved /\ journal' = journal /\ minted' = minted /\ raised' = why /\ ~Searching'
  BY DEF Abort, Searching
<1>2. minted \in Nat /\ Len(saved.findings) <= MaxFindings
  BY DEF IInv, Place, Tracked, Journalled
<1>. QED
  BY <1>1, <1>2, NothingTried

\* The nodes that try nothing return no candidate.
LEMMA NodesTracked ==
  ASSUME IInv, Tracked, RefuseDone \/ GroundDone \/ ScanDone \/ AuditFinding \/ AuditPatch \/ ShipDone
  PROVE  Tracked'
<1>0. /\ IsState(saved) /\ Len(saved.findings) <= MaxFindings
      /\ {} \cap saved.measurements = {} /\ Written \cap saved.measurements = {}
  BY DEF IInv, Shape, Tracked, Journalled, Written
<1>1. ASSUME NEW node, NEW route, NEW channels, NEW measured \in {{}, Written}, IsState(channels),
             channels.candidates = saved.candidates, channels.findings = saved.findings,
             Return(node, route, channels, measured, <<>>)
      PROVE  Tracked'
  <2>1. measured \cap saved.measurements = {} /\ Len(channels.findings) <= MaxFindings
    BY <1>0, <1>1
  <2>. QED
    BY <1>1, <2>1, ReturnTracked
<1>2. CASE RefuseDone
  BY <1>0, <1>1, <1>2 DEF RefuseDone
<1>3. CASE GroundDone
  <2>1. CASE Return("ground", "unmeasurable", saved, Written, <<>>)
    BY <1>0, <1>1, <2>1
  <2>2. ASSUME NEW m, Return("ground", "runnable", [saved EXCEPT !.runnable = m], Written, <<>>)
        PROVE  Tracked'
    <3> DEFINE channels == [saved EXCEPT !.runnable = m]
    <3>1. /\ IsState(channels) /\ channels.candidates = saved.candidates
          /\ channels.findings = saved.findings
      BY <1>0 DEF IsState
    <3>2. Return("ground", "runnable", channels, Written, <<>>)
      BY <2>2
    <3> HIDE DEF channels
    <3>. QED
      BY <1>1, <3>1, <3>2
  <2>. QED
    BY <1>3, <2>1, <2>2 DEF GroundDone
<1>4. CASE ScanDone
  <2>1. CASE Abort("node")
    BY <2>1, AbortTracked
  <2>2. CASE Return("scan", "nothing_found", saved, Written, <<>>)
    BY <1>0, <1>1, <2>2
  <2>3. ASSUME NEW offer \in Offers, Len(saved.findings) + Len(Kept(offer)) <= MaxFindings,
               Return("scan", "findings", [saved EXCEPT !.findings = Minted(Kept(offer))], Written, <<>>)
        PROVE  Tracked'
    <3> DEFINE findings == Minted(Kept(offer))
               channels == [saved EXCEPT !.findings = findings]
    <3>1. Len(findings) <= MaxFindings
      BY <2>3, KeptOffer DEF IInv, Shape, Place
    <3>2. Return("scan", "findings", channels, Written, <<>>)
      BY <2>3
    <3> HIDE DEF findings
    <3>3. /\ IsState(channels) /\ channels.candidates = saved.candidates
          /\ channels.findings = findings
      BY <1>0 DEF IsState
    <3> HIDE DEF channels
    <3>. QED
      BY <1>0, <3>1, <3>2, <3>3, ReturnTracked
  <2>. QED
    BY <1>4, <2>1, <2>2, <2>3 DEF ScanDone
<1>5. CASE AuditFinding
  <2>1. CASE Abort("node")
    BY <2>1, AbortTracked
  <2>2. ASSUME NEW verdict, NEW resolved,
               Return("audit_finding", verdict, [saved EXCEPT !.resolved = resolved], {}, <<>>)
        PROVE  Tracked'
    <3> DEFINE channels == [saved EXCEPT !.resolved = resolved]
    <3>1. /\ IsState(channels) /\ channels.candidates = saved.candidates
          /\ channels.findings = saved.findings
      BY <1>0 DEF IsState
    <3>2. Return("audit_finding", verdict, channels, {}, <<>>)
      BY <2>2
    <3> HIDE DEF channels
    <3>. QED
      BY <1>1, <3>1, <3>2
  <2>. QED
    BY <1>5, <2>1, <2>2 DEF AuditFinding
<1>6. CASE AuditPatch
  <2>1. CASE Abort("node") \/ Abort("repairs")
    BY <2>1, AbortTracked
  <2>2. ASSUME NEW route, NEW audited,
               Return("audit_patch", route, [saved EXCEPT !.audited = audited], {}, <<>>)
        PROVE  Tracked'
    <3> DEFINE channels == [saved EXCEPT !.audited = audited]
    <3>1. /\ IsState(channels) /\ channels.candidates = saved.candidates
          /\ channels.findings = saved.findings
      BY <1>0 DEF IsState
    <3>2. Return("audit_patch", route, channels, {}, <<>>)
      BY <2>2
    <3> HIDE DEF channels
    <3>. QED
      BY <1>1, <3>1, <3>2
  <2>. QED
    BY <1>6, <2>1, <2>2 DEF AuditPatch
<1>7. CASE ShipDone
  <2>1. CASE Abort("node")
    BY <2>1, AbortTracked
  <2>2. ASSUME NEW route, NEW resolved,
               Return("ship", route,
                      [saved EXCEPT !.resolved = resolved, !.repaired = NoPatch, !.audited = NoAudit,
                                    !.shippedAt = minted],
                      {}, <<>>)
        PROVE  Tracked'
    <3> DEFINE channels ==
                 [saved EXCEPT !.resolved = resolved, !.repaired = NoPatch, !.audited = NoAudit,
                               !.shippedAt = minted]
    <3>1. IsState(channels)
      BY <1>0, FourChannels
    <3>2. channels.candidates = saved.candidates /\ channels.findings = saved.findings
      BY <1>0 DEF IsState
    <3>3. Return("ship", route, channels, {}, <<>>)
      BY <2>2
    <3> HIDE DEF channels
    <3>. QED
      BY <1>1, <3>1, <3>2, <3>3
  <2>. QED
    BY <1>7, <2>1, <2>2 DEF ShipDone
<1>. QED
  BY <1>2, <1>3, <1>4, <1>5, <1>6, <1>7
\* The finding a search is for has a journal.
LEMMA SearchedHasJournal ==
  ASSUME IInv, Tracked, saved.next = "optimize"
  PROVE  First(NextSound) \in NextSound /\ First(NextSound) \in 1..MaxFindings
<1>1. First(NextSound) \in NextSound
  BY NextSoundFirst DEF IInv, Due
<1>2. First(NextSound) \in 1..Len(saved.findings) /\ Len(saved.findings) <= MaxFindings
  BY <1>1, LenProperties DEF IInv, Shape, NextSound, Tracked, Journalled
<1>3. MaxFindings \in Nat /\ Len(saved.findings) \in Nat
  BY BoundsAssumption, LenProperties DEF IInv, Shape
<1>. QED
  BY <1>1, <1>2, <1>3

LEMMA SearchTracked ==
  ASSUME IInv, Tracked, OptimizeBegin \/ SearchMeasure \/ SearchDone
  PROVE  Tracked'
<1>1. CASE SearchDone
  <2>1. Searching /\ First(NextSound)' = First(NextSound)
    BY <1>1 DEF SearchDone, Searching, First, NextSound
  <2>. QED
    BY <1>1, <2>1 DEF SearchDone, Tracked, Measured, Journalled, JournalAheadOfCheckpoint,
                      HistoryNotRepeated
<1>2. CASE OptimizeBegin
  <2>1. CASE Abort("node") \/ Abort("repairs")
    BY <2>1, AbortTracked
  <2>2. CASE ~Abort("node") /\ ~Abort("repairs")
    <3> DEFINE already == Remembered(First(NextSound))
    <3>1. /\ search' = [found |-> already, known |-> Len(already), filed |-> Len(already)]
          /\ UNCHANGED <<saved, journal, minted, raised>> /\ saved.next = "optimize"
      BY <1>2, <2>2 DEF OptimizeBegin, IInv, Place, Nodes
    <3>2. IsSeq(already)
      <4>1. IsSeq(IF HasJournal THEN journal[First(NextSound)] ELSE <<>>)
        BY <3>1, SearchedHasJournal, EmptySeq DEF Tracked, Journalled, IsSeq
      <4>. QED
        BY <4>1, RememberedIsSeq DEF Tracked, Measured
    <3> HIDE DEF already
    <3>3. Len(already) \in Nat /\ DOMAIN already = 1..Len(already)
      BY <3>2, SeqLen
    <3>4. \A i \in DOMAIN search'.found : ~(i > search'.known)
      BY <3>1, <3>3
    <3>5. Measured'
      BY <3>1, <3>2, <3>3, <3>4 DEF Tracked, Measured
    <3>6. Journalled'
      BY <3>1, <3>3, <3>4 DEF Tracked, Journalled
    <3>. QED
      BY <3>1, <3>5, <3>6 DEF Tracked, JournalAheadOfCheckpoint, HistoryNotRepeated
  <2>. QED
    BY <2>1, <2>2
<1>3. CASE SearchMeasure
  <2>0. Searching /\ Searching' /\ UNCHANGED <<saved, journal, raised>>
    BY <1>3 DEF SearchMeasure, Searching
  <2>1. PICK wall \in 0..Walls :
          search' = [search EXCEPT !.found = Append(@,
            [id |-> Len(search.found) + 1, m |-> minted + 1, wall |-> wall,
             finding |-> First(NextSound), run |-> run])]
    BY <1>3 DEF SearchMeasure
  <2> DEFINE new == [id |-> Len(search.found) + 1, m |-> minted + 1, wall |-> wall,
                     finding |-> First(NextSound), run |-> run]
             n == Len(search.found)
  <2>2. /\ IsSeq(search.found) /\ n \in Nat /\ DOMAIN search.found = 1..n
        /\ minted \in Nat /\ minted' = minted + 1
    BY <1>3, <2>0, SeqLen DEF Tracked, Measured, IInv, Place, SearchMeasure
  <2>3. new.m = minted + 1 /\ new.finding = First(NextSound)
    OBVIOUS
  <2>4. search' = [search EXCEPT !.found = Append(search.found, new)]
    BY <2>1
  <2> HIDE DEF new
  <2>5. /\ IsSeq(Append(search.found, new)) /\ Len(Append(search.found, new)) = n + 1
        /\ \A i \in 1..n : Append(search.found, new)[i] = search.found[i]
        /\ Append(search.found, new)[n + 1] = new
    BY <2>2, SeqAppend
  <2>6. /\ search'.known = search.known /\ search'.filed = search.filed
        /\ search'.found = Append(search.found, new)
        /\ search' = [found |-> search'.found, known |-> search'.known, filed |-> search'.filed]
    BY <2>0, <2>4 DEF Tracked, Measured
  <2>7. DOMAIN search'.found = 1..n + 1 /\ search'.found[n + 1] = new /\ IsSeq(search'.found)
        /\ \A i \in 1..n : search'.found[i] = search.found[i]
    BY <2>5, <2>6, SeqLen
  <2>8. First(NextSound)' = First(NextSound)
    BY <2>0 DEF First, NextSound
  <2>9. Measured'
    <3>1. \A i \in 1..n : i > search.known =>
            /\ search.found[i].m \in Nat /\ search.found[i].m <= minted + 1
            /\ \A j \in DOMAIN saved.candidates : saved.candidates[j].m # search.found[i].m
      BY <2>0, <2>2 DEF Tracked, Measured
    <3>2. \A j \in DOMAIN saved.candidates :
            saved.candidates[j].m \in Nat /\ saved.candidates[j].m <= minted
      BY DEF Tracked, Measured
    <3>3. ASSUME NEW i \in 1..n + 1, i > search.known
          PROVE  /\ search'.found[i].m \in Nat /\ search'.found[i].m <= minted + 1
                 /\ \A j \in DOMAIN saved.candidates :
                      saved.candidates[j].m # search'.found[i].m
      <4>1. CASE i \in 1..n
        BY <2>7, <3>1, <3>3, <4>1
      <4>2. CASE i = n + 1
        <5>1. \A j \in DOMAIN saved.candidates : saved.candidates[j].m # minted + 1
          BY <2>2, <3>2
        <5>. QED
          BY <2>2, <2>3, <2>7, <4>2, <5>1
      <4>. QED
        BY <2>2, <4>1, <4>2
    <3>. QED
      BY <2>0, <2>2, <2>6, <2>7, <3>2, <3>3 DEF Tracked, Measured
  <2>10. Journalled'
    <3>1. \A i \in 1..n : i > search.known =>
            /\ search.found[i].finding = First(NextSound)
            /\ i <= search.filed => Contains(journal[First(NextSound)], search.found[i])
      BY <2>0, <2>2 DEF Tracked, Journalled
    <3>2. search.filed \in search.known..n /\ search.known \in Nat
      BY <2>0 DEF Tracked, Measured, Journalled
    <3>3. ASSUME NEW i \in 1..n + 1, i > search.known
          PROVE  /\ search'.found[i].finding = First(NextSound)
                 /\ i <= search.filed => Contains(journal[First(NextSound)], search'.found[i])
      <4>1. CASE i \in 1..n
        BY <2>7, <3>1, <3>3, <4>1
      <4>2. CASE i = n + 1
        BY <2>2, <2>3, <2>7, <3>2, <4>2
      <4>. QED
        BY <2>2, <4>1, <4>2
    <3>4. search'.filed \in search'.known..Len(search'.found)
      BY <2>2, <2>5, <2>6, <3>2
    <3>5. \A i \in DOMAIN search'.found : i > search'.known =>
            /\ search'.found[i].finding = First(NextSound)'
            /\ i <= search'.filed => Contains(journal'[First(NextSound)'], search'.found[i])
      BY <2>0, <2>6, <2>7, <2>8, <3>3
    <3>. QED
      BY <2>0, <3>4, <3>5 DEF Tracked, Journalled
  <2>. QED
    BY <2>0, <2>9, <2>10 DEF Tracked, JournalAheadOfCheckpoint, HistoryNotRepeated
<1>. QED
  BY <1>1, <1>2, <1>3

\* One more candidate is filed, and none is struck out.
LEMMA JournalTracked == ASSUME IInv, Tracked, JournalOne PROVE Tracked'
<1> DEFINE f == First(NextSound)
           next == search.found[search.filed + 1]
<1>1. /\ Searching /\ Searching' /\ HasJournal /\ saved' = saved /\ minted' = minted
      /\ raised' = raised /\ saved.next = "optimize" /\ search.filed < Len(search.found)
      /\ journal' = [journal EXCEPT ![f] = Append(journal[f], next)]
      /\ search' = [search EXCEPT !.filed = search.filed + 1]
  BY DEF JournalOne, Searching, Unfiled, IInv, Place
<1>2. /\ f \in 1..MaxFindings /\ f' = f /\ IsSeq(journal[f]) /\ DOMAIN journal = 1..MaxFindings
  BY <1>1, SearchedHasJournal DEF First, NextSound, Tracked, Journalled
<1>3. /\ search'.found = search.found /\ search'.known = search.known
      /\ search'.filed = search.filed + 1
      /\ search' = [found |-> search'.found, known |-> search'.known, filed |-> search'.filed]
  BY <1>1 DEF Tracked, Measured
<1>4. /\ search.filed \in search.known..Len(search.found) /\ search.known \in Nat
      /\ Len(search.found) \in Nat /\ DOMAIN search.found = 1..Len(search.found)
  BY <1>1, SeqLen DEF Tracked, Measured, Journalled
<1> HIDE DEF f
<1>5. /\ DOMAIN journal' = 1..MaxFindings /\ IsSeq(journal'[f])
      /\ \A g \in 1..MaxFindings : g # f => journal'[g] = journal[g]
      /\ Len(journal[f]) \in Nat /\ Len(journal'[f]) = Len(journal[f]) + 1
      /\ \A i \in 1..Len(journal[f]) : journal'[f][i] = journal[f][i]
      /\ journal'[f][Len(journal[f]) + 1] = next
  <2>1. journal'[f] = Append(journal[f], next)
    BY <1>1, <1>2
  <2> HIDE DEF next
  <2>. QED
    BY <1>1, <1>2, <2>1, SeqAppend, SeqLen
<1>6. \A g : \A c : Contains(journal[g], c) => g # f \/ Contains(journal'[g], c)
  BY <1>5 DEF Contains
<1>7. Contains(journal'[f], next)
  BY <1>5 DEF Contains
<1>8. Measured'
  BY <1>1, <1>3 DEF Tracked, Measured
<1>9. Journalled'
  <2>1. ASSUME NEW i \in DOMAIN search.found, i > search.known, i <= search.filed + 1
        PROVE  Contains(journal'[f], search.found[i])
    <3>1. CASE i <= search.filed
      <4>1. Contains(journal[f], search.found[i])
        BY <1>1, <2>1, <3>1 DEF Tracked, Journalled, f
      <4>. QED
        BY <1>6, <4>1
    <3>2. CASE i = search.filed + 1
      BY <1>7, <3>2
    <3>. QED
      BY <1>4, <2>1, <3>1, <3>2
  <2>2. \A i \in DOMAIN search.found : i > search.known => search.found[i].finding = f
    BY <1>1 DEF Tracked, Journalled, f
  <2>3. search'.filed \in search'.known..Len(search'.found)
    BY <1>1, <1>3, <1>4
  <2>4. \A g \in 1..MaxFindings : IsSeq(journal'[g])
    BY <1>5 DEF Tracked, Journalled
  <2>5. \A i \in DOMAIN search'.found : i > search'.known =>
          /\ search'.found[i].finding = f'
          /\ i <= search'.filed => Contains(journal'[f'], search'.found[i])
    BY <1>2, <1>3, <2>1, <2>2
  <2>. QED
    BY <1>1, <1>5, <2>3, <2>4, <2>5 DEF Tracked, Journalled, f
<1>10. JournalAheadOfCheckpoint'
  <2>1. \A g \in 1..MaxFindings : \A c : Contains(journal[g], c) => Contains(journal'[g], c)
    BY <1>5, <1>6
  <2>. QED
    BY <1>1, <2>1 DEF Tracked, Journalled, JournalAheadOfCheckpoint
<1>. QED
  BY <1>1, <1>8, <1>9, <1>10 DEF Tracked, HistoryNotRepeated

\* A search hands its checkpoint what it measured, which the journal has by now.
LEMMA OptimizeTracked == ASSUME IInv, Tracked, OptimizeDone PROVE Tracked'
<1> DEFINE f == First(NextSound)
           old == saved.candidates
<1>1. /\ Searching /\ saved.next = "optimize" /\ IsState(saved) /\ minted \in Nat
      /\ HasJournal => search.filed >= Len(search.found)
  <2>1. search.filed \in Int /\ Len(search.found) \in Int
    BY SeqLen DEF OptimizeDone, Searching, Tracked, Measured, Journalled
  <2>. QED
    BY <2>1, GatesAssumption DEF OptimizeDone, Unfiled, Searching, IInv, Shape, Place
<1>2. /\ f \in 1..MaxFindings /\ IsSeq(search.found) /\ search.known \in Nat /\ IsSeq(old)
      /\ Len(search.found) \in Nat /\ DOMAIN search.found = 1..Len(search.found)
      /\ Len(old) \in Nat /\ DOMAIN old = 1..Len(old)
  BY <1>1, SearchedHasJournal, SeqLen DEF Tracked, Measured
<1>3. /\ IsSeq(Fresh) /\ Len(Fresh) \in Nat
      /\ \A i \in 1..Len(Fresh) : /\ Fresh[i] = search.found[search.known + i]
                                  /\ search.known + i \in DOMAIN search.found
  BY <1>2, SeqRest, SeqLen DEF Fresh
<1>4. ASSUME NEW i \in 1..Len(Fresh)
      PROVE  /\ Fresh[i].m \in Nat /\ Fresh[i].m <= minted /\ Fresh[i].finding = f
             /\ \A j \in DOMAIN old : old[j].m # Fresh[i].m
             /\ HasJournal => Contains(journal[f], Fresh[i])
  <2>1. /\ Fresh[i] = search.found[search.known + i] /\ search.known + i \in DOMAIN search.found
        /\ search.known + i > search.known
    BY <1>2, <1>3
  <2>2. HasJournal => search.known + i <= search.filed
    BY <1>1, <1>2, <2>1 DEF Tracked, Journalled
  <2>. QED
    BY <1>1, <2>1, <2>2 DEF Tracked, Measured, Journalled
<1>5. ~RepeatsList(old, Fresh)
  <2>1. old # <<>> /\ Fresh # <<>> => 1 \in DOMAIN old /\ 1 \in 1..Len(Fresh)
    BY <1>2, <1>3, EmptySeq DEF IsSeq
  <2>. QED
    BY <1>2, <1>3, <1>4, <2>1, OpensOtherwise
<1> HIDE DEF f, old
<1>6. ASSUME NEW route, NEW channels, IsState(channels), channels.candidates = old,
             channels.findings = saved.findings, Return("optimize", route, channels, {}, Fresh)
      PROVE  Tracked'
  <2>1. /\ saved'.candidates = old \o Fresh /\ saved'.findings = saved.findings
        /\ journal' = journal /\ minted' = minted /\ raised' = raised /\ ~Searching'
    BY <1>5, <1>6, ReturnAccepts DEF old
  <2>2. /\ IsSeq(saved'.candidates) /\ Len(saved'.candidates) = Len(old) + Len(Fresh)
        /\ \A i \in 1..Len(old) + Len(Fresh) :
             saved'.candidates[i] = IF i <= Len(old) THEN old[i] ELSE Fresh[i - Len(old)]
    BY <1>2, <1>3, <2>1, SeqConcat
  <2>3. ASSUME NEW i \in DOMAIN saved'.candidates
        PROVE  \/ i \in DOMAIN old /\ saved'.candidates[i] = old[i]
               \/ \E k \in 1..Len(Fresh) : saved'.candidates[i] = Fresh[k]
    <3>1. i \in 1..Len(old) + Len(Fresh)
      BY <2>2, <2>3, SeqLen
    <3>2. CASE i <= Len(old)
      BY <1>2, <2>2, <3>1, <3>2
    <3>3. CASE ~(i <= Len(old))
      <4>1. i - Len(old) \in 1..Len(Fresh)
        BY <1>2, <1>3, <3>1, <3>3
      <4>. QED
        BY <2>2, <3>1, <3>3, <4>1
    <3>. QED
      BY <3>2, <3>3
  <2>4. Measured'
    <3>1. \A i \in DOMAIN old : old[i].m \in Nat /\ old[i].m <= minted
      BY DEF Tracked, Measured, old
    <3>. QED
      BY <1>4, <2>1, <2>2, <2>3, <3>1 DEF Measured
  <2>5. Journalled'
    <3>1. \A i \in DOMAIN old : old[i].finding \in 1..MaxFindings
      BY DEF Tracked, Journalled, old
    <3>2. \A i \in DOMAIN saved'.candidates : saved'.candidates[i].finding \in 1..MaxFindings
      BY <1>2, <1>4, <2>3, <3>1
    <3>. QED
      BY <2>1, <3>2 DEF Tracked, Journalled
  <2>6. JournalAheadOfCheckpoint'
    <3>1. HasJournal => \A i \in DOMAIN old : Contains(journal[old[i].finding], old[i])
      BY DEF Tracked, JournalAheadOfCheckpoint, old
    <3>. QED
      BY <1>4, <2>1, <2>3, <3>1 DEF JournalAheadOfCheckpoint
  <2>. QED
    BY <2>1, <2>4, <2>5, <2>6 DEF Tracked, HistoryNotRepeated
<1>7. \A new : /\ IsState([saved EXCEPT !.resolved = new]) /\ IsState([saved EXCEPT !.repaired = new])
               /\ [saved EXCEPT !.resolved = new].candidates = old
               /\ [saved EXCEPT !.repaired = new].candidates = old
               /\ [saved EXCEPT !.resolved = new].findings = saved.findings
               /\ [saved EXCEPT !.repaired = new].findings = saved.findings
  BY <1>1 DEF IsState, old
<1>8. \/ \E route, new : Return("optimize", route, [saved EXCEPT !.resolved = new], {}, Fresh)
      \/ \E route, new : Return("optimize", route, [saved EXCEPT !.repaired = new], {}, Fresh)
  BY DEF OptimizeDone
<1>. QED
  BY <1>6, <1>7, <1>8

LEMMA TrackedAlways == Spec => []Tracked
<1>1. Init => Tracked
  <2>1. Init => IsSeq(saved.candidates) /\ DOMAIN saved.candidates = {} /\ Len(saved.findings) = 0
    BY EmptySeq DEF Init, NewState, IsSeq
  <2>2. Init => \A f \in 1..MaxFindings : IsSeq(journal[f])
    BY EmptySeq DEF Init, IsSeq
  <2>3. Init => Measured
    BY <2>1 DEF Init, Measured, Searching
  <2>4. Init => Journalled
    BY <2>1, <2>2, BoundsAssumption DEF Init, Journalled, Searching
  <2>. QED
    BY <2>1, <2>3, <2>4 DEF Init, Tracked, JournalAheadOfCheckpoint, HistoryNotRepeated
<1>2. ASSUME UNCHANGED vars, Tracked PROVE Tracked'
  BY <1>2 DEF vars, Tracked, Measured, Journalled, JournalAheadOfCheckpoint, HistoryNotRepeated,
              Searching, First, NextSound
<1>3. IInv /\ Tracked /\ [Next]_vars => Tracked'
  BY <1>2, MovesTracked, NewRunTracked, NodesTracked, SearchTracked, JournalTracked,
     OptimizeTracked DEF Next, Advance
<1>. QED
  BY <1>1, <1>3, Inductive, PTL DEF Spec

\* No node hands an append-only channel its own history, whatever loops back and whatever
\* is resumed: the reducer never refuses an update.
THEOREM HistorySafety == Spec => []HistoryNotRepeated
<1>1. Tracked => HistoryNotRepeated
  BY DEF Tracked
<1>. QED
  BY <1>1, TrackedAlways, PTL

\* With a journal, no candidate is in a checkpoint that is not in the journal, wherever the
\* process dies.
THEOREM JournalSafety == Spec => []JournalAheadOfCheckpoint
<1>1. Tracked => JournalAheadOfCheckpoint
  BY DEF Tracked
<1>. QED
  BY <1>1, TrackedAlways, PTL
=============================================================================
