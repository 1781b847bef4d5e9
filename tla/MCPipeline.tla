----------------------------- MODULE MCPipeline -----------------------------
(* Pipeline on small instances: its properties, and its refinement of FindingLife. *)
EXTENDS Pipeline

-----------------------------------------------------------------------------
(* Refinement *)

LifeOf(f) ==
  CASE f \notin DOMAIN saved.resolved -> "open"
    [] f \in NextSound ->
         IF saved.repaired.finding # f THEN "sound"
         ELSE IF saved.next = "ship" THEN "cleared" ELSE "patched"
    [] OTHER -> saved.resolved[f]

Life == INSTANCE FindingLife WITH life <- [f \in DOMAIN saved.findings |-> LifeOf(f)]

\* A run keeps FindingLife's promise (graph.ROUTES with the nodes behind them).
KeepsPromise == Life!Spec

=============================================================================
