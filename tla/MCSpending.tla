----------------------------- MODULE MCSpending -----------------------------
(* Spending with the price book's proportions and caps low enough to be reached. *)
EXTENDS Spending, TLC

\* claude-haiku-4-5, claude-sonnet-5 and claude-opus-5.
MCPrice == [cheap |-> [in |-> 1, out |-> 5], mid |-> [in |-> 3, out |-> 15],
            frontier |-> [in |-> 5, out |-> 25]]

\* Grounding may take fewer steps than a stall needs repeats, a repair as many and one more.
MCCaps == [ground |-> 1, repair |-> 3]

\* Nothing tells one finding, or one conclusion, from another.
Symmetry == Permutations(Findings) \cup Permutations(Conclusions)
=============================================================================
