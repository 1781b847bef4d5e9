------------------------------ MODULE BestSoFar ------------------------------
(***************************************************************************)
(* What a search owes whoever pays for it: an edit is tried at most once,   *)
(* no more than Most are, the best time seen only improves, and a crash     *)
(* takes away only what was not kept.                                       *)
(***************************************************************************)
EXTENDS Naturals, FiniteSets

CONSTANTS Edits, Slowest, Most

VARIABLES
  tried,  \* edits tried
  kept,   \* those a crash cannot take away
  best    \* the time of the best one, Slowest when none improves on it

vars == <<tried, kept, best>>

Init == tried = {} /\ kept = {} /\ best = Slowest

Try ==
  /\ Cardinality(tried) < Most
  /\ \E edit \in Edits \ tried : tried' = tried \cup {edit}
  /\ best' \in 0..best
  /\ UNCHANGED kept

Keep ==
  /\ \E more \in SUBSET (tried \ kept) : kept' = kept \cup more
  /\ UNCHANGED <<tried, best>>

\* What is kept is all that is left, and it was no better than the whole.
Lose ==
  /\ tried' = kept /\ best' \in best..Slowest
  /\ UNCHANGED kept

Next == Try \/ Keep \/ Lose

Spec == Init /\ [][Next]_vars
=============================================================================
