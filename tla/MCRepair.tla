------------------------------ MODULE MCRepair ------------------------------
(* RepairLoop on small instances: its refinement of BestSoFar.              *)
EXTENDS RepairLoop

Measure(wall, peak, out, tests) == [wall |-> wall, peak |-> peak, out |-> out, tests |-> tests]

MCBaseline == Measure(3, 100, TRUE, TRUE)

\* Broken tests, broken output, faster at too much memory, and two winners.
MCResults ==
  {Measure(1, 100, TRUE, FALSE), Measure(1, 100, FALSE, TRUE), Measure(1, 106, TRUE, TRUE),
   Measure(2, 105, TRUE, TRUE), Measure(1, 100, TRUE, TRUE)}

-----------------------------------------------------------------------------

\* What has been measured for the finding: by the search under way, or by those before.
InHand == IF stage \in {"idle", "attacking"} THEN Remembered ELSE archive

Fastest(scored) == IF Won(scored) = {} THEN Baseline.wall ELSE Winner(scored).seen.wall

Best == INSTANCE BestSoFar WITH
  tried <- Measured(InHand), kept <- Measured(journal) \cup Measured(saved),
  best <- Fastest(InHand), Slowest <- Baseline.wall, Most <- MaxCandidates

\* The search with its journal and its checkpoint is a BestSoFar.
KeepsTheBest == Best!Spec
=============================================================================
