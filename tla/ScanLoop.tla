------------------------------ MODULE ScanLoop ------------------------------
(***************************************************************************)
(* agent/scan.py, the loop the ground and the scan node run: one model call *)
(* and at most one tool call a turn (agent/toolbox.py), until something is  *)
(* submitted or a bound is met. Grounding makes the program measurable and  *)
(* stops there; the scan starts from what it left (pipeline/nodes.py).      *)
(*                                                                          *)
(* A measurement is its place in the ledger and its kind. What is written   *)
(* to the checkpoint is a prefix of the ledger. A claim cites a measurement *)
(* by its place, or 0 for a number nobody measured.                         *)
(*                                                                          *)
(* MaxMeasurements bounds the ledger, MaxClaims a submission.               *)
(***************************************************************************)
EXTENDS Naturals, SequencesExt

CONSTANTS
  Turns,            \* Bounds.turns
  StallTurns,       \* Bounds.stall_turns
  FindingsPerScan,  \* Resources.findings_per_scan
  MaxMeasurements, MaxClaims

ASSUME ScanAssumption ==
  {Turns, StallTurns, FindingsPerScan, MaxMeasurements, MaxClaims} \subseteq Nat \ {0}

VARIABLES
  node,       \* the node the checkpoint says is next: "ground", "scan" or "done"
  saved,      \* how much of the ledger the checkpoint carries
  runnable,   \* state.runnable: the measurement grounding ended on, or 0
  findings,   \* state.findings
  ledger,     \* the kinds of what was recorded, in order
  at,         \* "idle", at the "top" of a turn, or a model was "asked"
  turn, quiet,    \* turns taken, and Transcript.since_last_measurement
  verified,       \* the last measurement of this transcript that verified, or 0
  late,           \* more than Bounds.wall_seconds have passed
  stoppedBy       \* history: how the last loop that returned was stopped

checkpoint == <<node, saved, runnable, findings>>
transcript == <<turn, quiet, verified, late>>

vars == <<checkpoint, ledger, at, transcript, stoppedBy>>

Init ==
  /\ node = "ground" /\ saved = 0 /\ runnable = 0 /\ findings = <<>> /\ ledger = <<>>
  /\ at = "idle" /\ turn = 0 /\ quiet = 0 /\ verified = 0 /\ late = FALSE
  /\ stoppedBy = "none"

-----------------------------------------------------------------------------
(* A loop begins, and ends *)

Begin ==
  /\ at = "idle" /\ node # "done"
  /\ at' = "top" /\ turn' = 0 /\ quiet' = 0 /\ verified' = 0 /\ late' = FALSE
  /\ UNCHANGED <<checkpoint, ledger, stoppedBy>>

\* Transcript.phase. The scan node begins where grounding stopped.
Phase == IF node = "scan" \/ verified # 0 THEN "measuring" ELSE "exploring"

Kept(minted) ==
  SubSeq(minted, 1, IF Len(minted) < FindingsPerScan THEN Len(minted) ELSE FindingsPerScan)

\* _runnable: the last turn that verified.
Runnable == verified

\* What a node writes once its loop has returned.
Write(reason, minted) ==
  /\ at' = "idle" /\ stoppedBy' = reason /\ saved' = Len(ledger)
  /\ IF reason = "grounded" THEN node' = "scan" /\ runnable' = Runnable
                            ELSE node' = "done" /\ UNCHANGED runnable
  /\ findings' = IF node = "scan" THEN Kept(minted) ELSE <<>>
  /\ UNCHANGED <<ledger, transcript>>

OutOfTurns == turn >= Turns

Grounded == node = "ground" /\ Phase = "measuring"

\* scan() asks these in order at the top of a turn; "none" means the turn is taken.
Bound ==
  CASE OutOfTurns -> "turns"
    [] ~OutOfTurns /\ Grounded -> "grounded"
    [] ~OutOfTurns /\ ~Grounded /\ late -> "wall_clock"
    [] ~OutOfTurns /\ ~Grounded /\ ~late /\ quiet >= StallTurns -> "stalled"
    [] OTHER -> "none"

Stopped == at = "top" /\ Bound # "none" /\ Write(Bound, <<>>)

Ask ==
  /\ at = "top" /\ Bound = "none" /\ at' = "asked"
  /\ UNCHANGED <<checkpoint, ledger, transcript, stoppedBy>>

\* The meter refuses the call, the model refuses to answer, or its answer is cut off.
Unanswered ==
  /\ at = "asked" /\ \E reason \in {"budget", "refused", "truncated"} : Write(reason, <<>>)

\* A node that raises writes nothing, and the ledger keeps what was recorded.
Raises ==
  /\ at' = "idle"
  /\ UNCHANGED <<checkpoint, ledger, transcript, stoppedBy>>

-----------------------------------------------------------------------------
(* One turn *)

\* A reply that is no action does not count.
WrongNextTurn == turn

NextTurn == turn + 1

\* A reply that is no action is handed back, and is not a turn of the transcript.
Unreadable ==
  /\ at = "asked" /\ at' = "top" /\ turn' = NextTurn
  /\ UNCHANGED <<checkpoint, ledger, quiet, verified, late, stoppedBy>>

Instruments == {"measure", "profile", "ablate"}

\* Every instrument is there from the first turn.
WrongOffered == Instruments

\* Transcript.tools, for those that measure.
Offered == IF Phase = "measuring" THEN Instruments ELSE {"measure"}

\* bash and the files, a tool not offered, a run that was stopped or refused.
Observed ==
  /\ at = "asked" /\ at' = "top" /\ turn' = turn + 1 /\ quiet' = quiet + 1
  /\ UNCHANGED <<checkpoint, ledger, verified, late, stoppedBy>>

\* An instrument's envelope validates and is recorded. Only `measure` verifies.
Recorded(tool) ==
  /\ at = "asked" /\ tool \in Offered /\ Len(ledger) < MaxMeasurements
  /\ ledger' = Append(ledger, tool)
  /\ at' = "top" /\ turn' = turn + 1 /\ quiet' = 0
  /\ verified' = IF tool = "measure" THEN Len(ledger) + 1 ELSE verified
  /\ UNCHANGED <<checkpoint, late, stoppedBy>>

\* No envelope, one for another tool, or a success its own model rejects.
HarnessFault == at = "asked" /\ Raises

Claims == [cites : 0..MaxMeasurements, priced : BOOLEAN, proof : 0..MaxMeasurements]

\* A proof is any measurement of this run.
WrongAttested(claim) ==
  /\ claim.cites \in DOMAIN ledger
  /\ claim.priced => claim.proof # 0
  /\ claim.proof # 0 => claim.proof \in DOMAIN ledger

\* Ledger.attest and the validators of Claim: a cited number was recorded, and a
\* payoff has an ablation behind it.
Attested(claim) ==
  /\ claim.cites \in DOMAIN ledger
  /\ claim.priced => claim.proof # 0
  /\ claim.proof # 0 => claim.proof \in DOMAIN ledger /\ ledger[claim.proof] = "ablate"

\* One claim that does not hold fails the whole submission.
Submit ==
  /\ at = "asked"
  /\ \E claims \in BoundedSeq(Claims, MaxClaims) :
       IF \A i \in DOMAIN claims : Attested(claims[i])
       THEN Write("submitted", claims)
       ELSE Raises

Turn ==
  \/ Stopped \/ Ask \/ Unanswered \/ Unreadable \/ Observed \/ HarnessFault \/ Submit
  \/ \E tool \in Instruments : Recorded(tool)

-----------------------------------------------------------------------------

Timer ==
  /\ at # "idle" /\ ~late /\ late' = TRUE
  /\ UNCHANGED <<checkpoint, ledger, at, turn, quiet, verified, stoppedBy>>

\* A new process starts from nothing.
WrongRestored == <<>>

\* _restore: a new process takes its ledger from the checkpoint.
Restored == SubSeq(ledger, 1, saved)

Crash ==
  /\ at' = "idle" /\ ledger' = Restored
  /\ UNCHANGED <<checkpoint, transcript, stoppedBy>>

Next == Begin \/ Turn \/ Timer \/ Crash

Spec == Init /\ [][Next]_vars

\* Every model call and every tool call has a timeout, so a turn is always taken.
FairSpec == Spec /\ WF_vars(Turn)

-----------------------------------------------------------------------------

\* The instruments mean something only once the workload measured the same way
\* twice: a profile or an ablation is never in the ledger before a measurement,
\* across attempts that raised, processes that died and the change of node
\* (Transcript.tools, scan_for_waste).
InstrumentsAfterMeasure ==
  \A i \in DOMAIN ledger : ledger[i] # "measure" => \E j \in 1..i - 1 : ledger[j] = "measure"

\* What the scan is told to drive is a measurement that verified, and it is still
\* in the ledger of whatever process runs the scan (_runnable, _brief).
RunnableWasMeasured ==
  node = "scan" =>
    runnable \in DOMAIN ledger /\ runnable <= saved /\ ledger[runnable] = "measure"

\* Whatever is driven, priced or profiled was measured first, and verified to be the
\* same way twice: on both sides of the hand-over from grounding to the scan (Phase).
MeasuredFirst == InstrumentsAfterMeasure /\ RunnableWasMeasured

\* A finding that claims a payoff rests on an ablation of this run, taken after a
\* measurement, and every number it cites outlives the process (Ledger.attest,
\* scan_for_waste).
FindingsAreProven ==
  \A i \in DOMAIN findings :
    /\ findings[i].cites \in 1..saved
    /\ findings[i].priced =>
         /\ findings[i].proof \in 1..saved /\ ledger[findings[i].proof] = "ablate"
         /\ \E j \in 1..findings[i].proof : ledger[j] = "measure"

\* Every loop ends, whatever the model replies (Bounds: "Where the loop stops").
LoopEnds == at # "idle" ~> at = "idle"
=============================================================================
