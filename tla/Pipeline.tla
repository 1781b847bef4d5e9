------------------------------ MODULE Pipeline ------------------------------
(***************************************************************************)
(* One run of the ColdFix pipeline: the seven-node graph of                *)
(* pipeline/graph.py, the nodes of pipeline/nodes.py, the checkpoint that  *)
(* orchestrator/resume.py resumes from, and the journal of tried           *)
(* candidates that outlives a checkpoint (evidence/memory.py).             *)
(*                                                                         *)
(*   saved    the checkpointed channels and the node that is due next; a   *)
(*            node's update and its checkpoint are one step, as they are    *)
(*            under the DURABILITY of resume.py ("sync"); cli/scan.py:324   *)
(*            starts a run without it, and a crash of that invocation may   *)
(*            lose a super-step more                                        *)
(*   journal  the failure memory: durable, shared by every run, and keyed  *)
(*            by the finding's name alone                                  *)
(*   the rest belongs to the process and dies with it                      *)
(*                                                                         *)
(* Findings are named by position (f-1 is 1), measurements by a counter,   *)
(* and a candidate keeps only its id, its measurement, whose finding it    *)
(* patches and how it ranks: `wall` is 0 for one that did not win and its  *)
(* rank by measured time, lowest fastest, for one that did.                *)
(*                                                                         *)
(* MaxFindings, MaxMeasurements, MaxOffer and MaxRuns bound the model; the *)
(* code has turn and wall-clock bounds where the first two stand.          *)
(***************************************************************************)
EXTENDS Naturals, SequencesExt

CONSTANTS
  FindingsPerScan,   \* Resources.findings_per_scan
  MaxCandidates,     \* repair.MAX_CANDIDATES
  RecursionLimit,    \* checkpointing.RECURSION_LIMIT, super-steps of one invocation
  Gates,             \* graph.interrupts: the nodes a run parks before
  HasJournal,        \* Resources.store is not None
  HasRepairs,        \* Resources.repairs is not None
  Walls,             \* how many distinct measured times a winner can have
  MaxFindings, MaxMeasurements, MaxOffer, MaxRuns,
  None

Nodes == {"refuse", "ground", "scan", "audit_finding", "optimize", "audit_patch", "ship"}

ASSUME BoundsAssumption ==
  /\ {MaxCandidates, RecursionLimit, MaxFindings, MaxMeasurements, MaxRuns, Walls} \subseteq Nat
  /\ FindingsPerScan \in Nat \ {0} /\ MaxOffer \in Nat \ {0}
ASSUME GatesAssumption == Gates \subseteq {"optimize", "ship"} /\ {HasJournal, HasRepairs} \subseteq BOOLEAN
ASSUME NoneAssumption == None \notin Nat

VARIABLES
  run,       \* which run this is: a run id is a thread of the checkpointer
  saved,     \* the checkpoint: channels, and the node due next
  journal,   \* finding -> the candidates journalled for it
  minted,    \* how many measurement ids exist (uuid4 in the code: never reused)
  at,        \* "idle", "between" two super-steps, or inside a node
  ledger,    \* the measurements this process can look up
  took,      \* the measurements the scan in progress has taken
  search,    \* the optimize node's archive, how much of it was remembered, how much is journalled
  steps,     \* super-steps of this invocation
  waved,     \* TRUE: resumed, and the first super-step passes the gate
  raised,    \* what the last invocation died of
  shown      \* history: a person has been handed the parked run

vars == <<run, saved, journal, minted, at, ledger, took, search, steps, waved, raised, shown>>

process == <<took, search, waved>>

-----------------------------------------------------------------------------
(* The graph *)

(* The definitions named Wrong... are bugs this code could have had. Put in the  *)
(* place of the definition after it, each makes one of the properties fail.      *)

Edges ==
  [refuse        |-> [proceed |-> "ground", refused |-> "end"],
   ground        |-> [runnable |-> "scan", unmeasurable |-> "end"],
   scan          |-> [findings |-> "audit_finding", nothing_found |-> "end"],
   audit_finding |-> [sound |-> "optimize", needs_evidence |-> "scan", unsound |-> "end"],
   optimize      |-> [candidate |-> "audit_patch", nothing_beat_baseline |-> "end"],
   audit_patch   |-> [clean |-> "ship", another_round |-> "optimize", escalate |-> "end"],
   ship          |-> [more_findings |-> "scan", done |-> "end"]]

\* A patch that ships sends the run to what is queued.
WrongRoutesQueue == [Edges EXCEPT !.ship.more_findings = "audit_finding"]

\* A winner is handed to the gate, its own test being the check.
WrongRoutesAudit == [Edges EXCEPT !.optimize.candidate = "ship"]

\* An attack that settled nothing ships the patch.
WrongRoutesEscalate == [Edges EXCEPT !.audit_patch.escalate = "ship"]

Routes == Edges

NoPatch == [finding |-> 0, patch |-> None]

NoAudit == [verdict |-> "none", patch |-> None]

\* `shippedAt` is history: the last measurement taken when the last patch shipped.
NewState ==
  [next |-> "none", runnable |-> None, measurements |-> {}, findings |-> <<>>,
   resolved |-> <<>>, candidates |-> <<>>, repaired |-> NoPatch, audited |-> NoAudit,
   shippedAt |-> 0]

NoSearch == [found |-> <<>>, known |-> 0, filed |-> 0]

Init ==
  /\ run = 1 /\ saved = NewState
  /\ journal = [f \in 1..MaxFindings |-> <<>>]
  /\ minted = 0
  /\ at = "idle" /\ ledger = {} /\ took = {} /\ search = NoSearch
  /\ steps = 0 /\ waved = FALSE /\ raised = "none"
  /\ shown = FALSE

\* The invocation ends by raising: nothing of the node in progress is saved,
\* and the process and its ledger live on.
Abort(why) ==
  /\ at' = "idle" /\ raised' = why
  /\ took' = {} /\ search' = NoSearch /\ waved' = FALSE
  /\ UNCHANGED <<run, saved, journal, minted, ledger, steps, shown>>

\* The append-only reducer: an update that opens with the channel's whole
\* history is refused.
RepeatsHistory(channel, update) == channel # {} /\ channel \subseteq update
RepeatsList(channel, update) == channel # <<>> /\ IsPrefix(channel, update)

\* A node returns its route and its update, and the super-step is checkpointed.
Return(node, route, channels, measured, scored) ==
  IF RepeatsHistory(saved.measurements, measured) \/ RepeatsList(saved.candidates, scored)
  THEN Abort("history")
  ELSE /\ saved' = [channels EXCEPT !.next = Routes[node][route],
                                    !.measurements = @ \cup measured,
                                    !.candidates = @ \o scored]
       /\ at' = "between" /\ took' = {} /\ search' = NoSearch
       /\ UNCHANGED <<run, journal, minted, ledger, steps, waved, raised>>
       /\ shown' = (shown /\ node # "ship")

-----------------------------------------------------------------------------
(* What a node reads out of the state *)

First(S) == CHOOSE f \in S : \A g \in S : f <= g

Resolve(f, verdict) ==
  [g \in DOMAIN saved.resolved \cup {f} |-> IF g = f THEN verdict ELSE saved.resolved[g]]

\* A finding sent back for evidence is audited again.
WrongUnaudited ==
  {f \in DOMAIN saved.findings :
     f \in DOMAIN saved.resolved => saved.resolved[f] = "needs_evidence"}

Unaudited == {f \in DOMAIN saved.findings : f \notin DOMAIN saved.resolved}

NextSound == {f \in DOMAIN saved.findings :
                f \in DOMAIN saved.resolved /\ saved.resolved[f] = "sound"}

\* The findings that a node may still work on.
Open == Unaudited \cup NextSound

\* A resumed process starts from its own ledger.
WrongRestored == ledger

\* _restore: the checkpoint's measurements, into this process's ledger.
Restored == ledger \cup saved.measurements

\* Only what this very scan took is checkpointed.
WrongWritten == took

\* _measurements: what the ledger holds and the checkpoint does not.
Written == ledger \ saved.measurements

\* _remembered: the journal's candidates for this finding, then every candidate of the
\* checkpoint, each id once, where it first stands; the journal's last word on it holds.
Remembered(f) ==
  LET told     == IF HasJournal THEN journal[f] ELSE <<>>
      all      == told \o saved.candidates
      firsts   == {i \in DOMAIN all : \A j \in 1..i - 1 : all[j].id # all[i].id}
      nth(k)   == CHOOSE i \in firsts : Cardinality({j \in firsts : j < i}) = k - 1
      stands(i) == LET again == {j \in DOMAIN told : told[j].id = all[i].id} IN
                   all[IF again = {} THEN i ELSE Max(again)]
  IN  [k \in 1..Cardinality(firsts) |-> stands(nth(k))]

\* Archive.winner: the fastest of those that won, the earliest on a tie.
Won == {i \in DOMAIN search.found : search.found[i].wall > 0}
Winner ==
  search.found[CHOOSE i \in Won : \A j \in Won :
    \/ search.found[i].wall < search.found[j].wall
    \/ search.found[i].wall = search.found[j].wall /\ i <= j]

\* The whole archive is returned as new.
WrongFresh == search.found

\* What this search measured, and only that.
Fresh == SubSeq(search.found, search.known + 1, Len(search.found))

-----------------------------------------------------------------------------
(* Invocations: orchestrator/resume.py over the compiled graph *)

Start ==
  /\ at = "idle" /\ saved.next = "none"
  /\ saved' = [saved EXCEPT !.next = "refuse"]
  /\ at' = "between" /\ steps' = 0 /\ raised' = "none"
  /\ UNCHANGED <<run, journal, minted, ledger, process, shown>>

\* Both how a dead run is picked up and how a parked one is approved.
Resume ==
  /\ at = "idle" /\ saved.next \in Nodes
  /\ at' = "between" /\ steps' = 0 /\ waved' = TRUE /\ raised' = "none"
  /\ UNCHANGED <<run, saved, journal, minted, ledger, took, search, shown>>

OutOfSteps == steps >= RecursionLimit
Gated(node) == node \in Gates /\ ~waved
\* Nothing counts the super-steps.
WrongNextStep == steps

NextStep == steps + 1

Enter(node) ==
  /\ at = "between" /\ saved.next = node
  /\ ~OutOfSteps /\ ~Gated(node)
  /\ at' = node /\ steps' = NextStep /\ waved' = FALSE
  /\ ledger' = IF node \in {"refuse", "ship"} THEN ledger ELSE Restored
  /\ UNCHANGED <<run, saved, journal, minted, took, search, raised, shown>>

Park ==
  /\ at = "between" /\ saved.next \in Gates
  /\ ~OutOfSteps /\ Gated(saved.next)
  /\ at' = "idle" /\ shown' = (shown \/ saved.next = "ship")
  /\ UNCHANGED <<run, saved, journal, minted, ledger, process, steps, raised>>

RunOut ==
  /\ at = "between" /\ saved.next \in Nodes /\ OutOfSteps
  /\ Abort("recursion")

Finish ==
  /\ at = "between" /\ saved.next = "end"
  /\ at' = "idle" /\ waved' = FALSE
  /\ UNCHANGED <<run, saved, journal, minted, ledger, took, search, steps, raised, shown>>

\* pipeline/report.py: what run_scan prints a report of once the graph has returned.
AwaitingReview == saved.repaired # NoPatch

\* report_for raises when the handover's finding is not on record, or no audit is.
ReportReadable ==
  saved.repaired.finding \in DOMAIN saved.findings /\ saved.audited # NoAudit

\* The process dies wherever it is, and another is assembled with an empty ledger.
Crash ==
  /\ at' = "idle" /\ ledger' = {}
  /\ took' = {} /\ search' = NoSearch /\ waved' = FALSE
  /\ UNCHANGED <<run, saved, journal, minted, steps, raised, shown>>

\* Another run, under another thread, by another process: only the journal is common.
NewRun ==
  /\ at = "idle" /\ saved.next # "none" /\ run < MaxRuns
  /\ run' = run + 1 /\ saved' = NewState /\ ledger' = {}
  /\ shown' = FALSE /\ raised' = "none" /\ steps' = 0
  /\ UNCHANGED <<journal, minted, at, process>>

\* A budget, a container, a model or a database call raises out of a node.
Raise ==
  /\ at \in (Nodes \ {"ship"}) \cup {"search", "record"}
  /\ Abort("other")

-----------------------------------------------------------------------------
(* The nodes *)

RefuseDone ==
  /\ at = "refuse"
  /\ \E route \in {"proceed", "refused"} : Return("refuse", route, saved, {}, <<>>)

\* One tool call of a grounding or scanning turn that takes a measurement.
Measure ==
  /\ at \in {"ground", "scan"} /\ minted < MaxMeasurements
  /\ minted' = minted + 1
  /\ ledger' = ledger \cup {minted + 1} /\ took' = took \cup {minted + 1}
  /\ UNCHANGED <<run, saved, journal, at, search, steps, waved, raised, shown>>

GroundDone ==
  /\ at = "ground"
  /\ \/ Return("ground", "unmeasurable", saved, Written, <<>>)
     \/ \E m \in took :
          Return("ground", "runnable", [saved EXCEPT !.runnable = m], Written, <<>>)

\* What a scan submits: claims, each standing on a measurement the ledger attests, however
\* long ago it was taken.
Offers == UNION {[1..n -> ledger] : n \in 1..MaxOffer}

\* Every submitted finding is minted.
WrongKept(offer) == offer

Kept(offer) ==
  SubSeq(offer, 1, IF Len(offer) < FindingsPerScan THEN Len(offer) ELSE FindingsPerScan)

Minted(kept) == saved.findings \o [i \in DOMAIN kept |-> [cites |-> kept[i]]]

\* _brief: the scan is told what to drive, which only grounding produces.
HasBrief == saved.runnable # None

ScanDone ==
  /\ at = "scan"
  /\ IF ~HasBrief
     THEN Abort("node")
     ELSE \/ Return("scan", "nothing_found", saved, Written, <<>>)
          \/ \E offer \in Offers :
               /\ Len(saved.findings) + Len(Kept(offer)) <= MaxFindings
               /\ Return("scan", "findings", [saved EXCEPT !.findings = Minted(Kept(offer))],
                         Written, <<>>)

\* audit.attack is fatal on a citation the ledger no longer knows; otherwise the
\* other attacks and the reviewing model decide.
Verdicts(f) ==
  IF saved.findings[f].cites \in ledger THEN {"sound", "needs_evidence", "unsound"}
                                        ELSE {"unsound"}

AuditFinding ==
  /\ at = "audit_finding"
  /\ IF Unaudited = {}
     THEN Abort("node")
     ELSE LET f == First(Unaudited) IN
          \E verdict \in Verdicts(f) :
            Return("audit_finding", verdict, [saved EXCEPT !.resolved = Resolve(f, verdict)],
                   {}, <<>>)

\* _baseline: candidates are held to the numbers the ledger has of the runnable.
HasBaseline == saved.runnable \in ledger

\* _repairs comes first: a process assembled without the repair seams raises here.
OptimizeBegin ==
  /\ at = "optimize"
  /\ IF ~HasRepairs THEN Abort("repairs")
     ELSE IF NextSound = {} \/ ~HasBaseline
     THEN Abort("node")
     ELSE LET already == Remembered(First(NextSound)) IN
          /\ search' = [found |-> already, known |-> Len(already), filed |-> Len(already)]
          /\ at' = "search"
          /\ UNCHANGED <<run, saved, journal, minted, ledger, took, steps, waved, raised, shown>>

Room == Len(search.found) < MaxCandidates

\* One candidate applied, measured and recorded. Its id counts the archive.
SearchMeasure ==
  /\ at = "search" /\ Room /\ minted < MaxMeasurements
  /\ \E wall \in 0..Walls :
       search' = [search EXCEPT !.found = Append(@,
         [id |-> Len(search.found) + 1, m |-> minted + 1, wall |-> wall,
          finding |-> First(NextSound), run |-> run])]
  /\ minted' = minted + 1 /\ ledger' = ledger \cup {minted + 1}
  /\ UNCHANGED <<run, saved, journal, at, took, steps, waved, raised, shown>>

\* The model proposes nothing new, or the archive is full.
SearchDone ==
  /\ at = "search" /\ at' = "record"
  /\ UNCHANGED <<run, saved, journal, minted, ledger, took, search, steps, waved, raised, shown>>

\* The journal misses the last candidate.
WrongUnfiled == HasJournal /\ search.filed + 1 < Len(search.found)

Unfiled == HasJournal /\ search.filed < Len(search.found)

\* record_all: one append to the journal, each its own transaction.
JournalOne ==
  /\ at = "record" /\ Unfiled
  /\ LET f == First(NextSound) IN
     journal' = [journal EXCEPT ![f] = Append(@, search.found[search.filed + 1])]
  /\ search' = [search EXCEPT !.filed = @ + 1]
  /\ UNCHANGED <<run, saved, minted, at, ledger, took, steps, waved, raised, shown>>

OptimizeDone ==
  /\ at = "record" /\ ~Unfiled
  /\ LET f == First(NextSound) IN
     IF Won = {}
     THEN Return("optimize", "nothing_beat_baseline",
                 [saved EXCEPT !.resolved = Resolve(f, "sound")], {}, Fresh)
     ELSE Return("optimize", "candidate",
                 [saved EXCEPT !.repaired = [finding |-> f, patch |-> Winner]], {}, Fresh)

AuditPatch ==
  /\ at = "audit_patch"
  /\ IF ~HasRepairs THEN Abort("repairs")
     ELSE IF saved.repaired = NoPatch
     THEN Abort("node")
     ELSE \E route \in {"clean", "another_round", "escalate"} :
            Return("audit_patch", route,
                   [saved EXCEPT !.audited = [verdict |-> route, patch |-> saved.repaired.patch]],
                   {}, <<>>)

\* ship: anything neither shipped nor unsound keeps the run going.
Remaining(resolved) ==
  \E f \in DOMAIN saved.findings :
    f \notin DOMAIN resolved \/ resolved[f] \notin {"shipped", "unsound"}

ShipDone ==
  /\ at = "ship"
  /\ IF saved.repaired = NoPatch
     THEN Abort("node")
     ELSE LET resolved == Resolve(saved.repaired.finding, "shipped") IN
          Return("ship", IF Remaining(resolved) THEN "more_findings" ELSE "done",
                 [saved EXCEPT !.resolved = resolved, !.repaired = NoPatch, !.audited = NoAudit,
                               !.shippedAt = minted],
                 {}, <<>>)

-----------------------------------------------------------------------------

\* What an invocation does by itself once it is running.
Advance ==
  \/ \E node \in Nodes : Enter(node)
  \/ Park \/ RunOut \/ Finish
  \/ RefuseDone \/ Measure \/ GroundDone \/ ScanDone \/ AuditFinding
  \/ OptimizeBegin \/ SearchMeasure \/ SearchDone \/ JournalOne \/ OptimizeDone
  \/ AuditPatch \/ ShipDone

Next == Start \/ Resume \/ Advance \/ NewRun \/ Crash \/ Raise

Spec == Init /\ [][Next]_vars

\* A synchronous invocation runs on until it returns, parks, raises or dies.
FairSpec == Spec /\ WF_vars(Advance)

-----------------------------------------------------------------------------
(* Safety *)

\* The state and the route never disagree: no node is reached without what it
\* reads -- an unaudited finding, a sound one, a runnable program, a baseline in
\* the ledger, a patch -- through any crash, loop back or resumption (nodes.NodeError; the
\* one that _repairs raises is of the assembly and not of the state).
StateAndRouteAgree == raised # "node"

\* No node hands an append-only channel its own history, so nothing is recorded
\* twice after a loop back or a resumption (state/checkpoint.py, HistoryRewrittenError).
HistoryNotRepeated == raised # "history"

\* A finding is never judged by a ledger that has lost the measurement it
\* cites: a resumed audit does not turn a sound finding unsound (audit._still_attested).
EvidenceAtHand ==
  [][at = "audit_finding" /\ at' = "between" =>
       saved.findings[First(Unaudited)].cites \in ledger]_vars

\* At most one finding is open at a time and none when a scan begins: where a scan keeps
\* one, none waits behind a patch, whatever loops back, crashes and resumes
\* (Resources.findings_per_scan, "Minting one is what keeps the backlog empty").
BacklogIsEmpty ==
  /\ \A f, g \in Open : f = g
  /\ saved.next = "scan" => Open = {}

\* "so no finding can outlive its own evidence": the finding a run audits or repairs cites
\* a measurement taken since the last patch shipped (Resources.findings_per_scan).
EvidenceIsFresh == \A f \in Open : saved.findings[f].cites > saved.shippedAt

\* The patch that ships is the one the adversary last called clean, and its
\* finding is still held sound (audit_patch, ship).
ShipsWhatWasAudited ==
  saved.next = "ship" =>
    /\ saved.audited.verdict = "clean"
    /\ saved.audited.patch = saved.repaired.patch
    /\ saved.repaired.finding \in NextSound

\* Every measurement a checkpointed finding or the baseline rests on is in the
\* same checkpoint, so another process can look it up (state.measurements).
CheckpointCarriesEvidence ==
  /\ \A f \in DOMAIN saved.findings : saved.findings[f].cites \in saved.measurements
  /\ saved.runnable # None => saved.runnable \in saved.measurements

\* What a checkpoint says was tried, the journal says too: candidates are
\* journalled before the node returns, so a rewind cannot forget one (optimize,
\* record_all, and the merge in _remembered).
JournalAheadOfCheckpoint ==
  HasJournal =>
    \A i \in DOMAIN saved.candidates :
      Contains(journal[saved.candidates[i].finding], saved.candidates[i])

\* When an invocation returns with a patch to report, the report can be made and is
\* of one patch: its finding is on record, and the audit shown beside the diff is the
\* audit of that diff, not of the patch before it (pipeline/report.py, report_for).
ReportIsOfOnePatch ==
  [][(Park \/ Finish) /\ AwaitingReview =>
       ReportReadable /\ saved.audited.patch = saved.repaired.patch]_vars

-----------------------------------------------------------------------------
(* Liveness *)

\* Every invocation ends: it returns, parks, raises, or runs out of super-steps.
InvocationEnds == at # "idle" ~> at = "idle"
=============================================================================
