------------------------------- MODULE Review -------------------------------
(***************************************************************************)
(* The patch audit: evidence/adversary.py asks a model for inputs, turn by  *)
(* turn, and evidence/revisions.py runs each one on both revisions. The     *)
(* verdict is computed from the comparisons. RepairLoop composes these      *)
(* actions with the search whose patch is under audit.                      *)
(*                                                                          *)
(* One revision on one input, run twice, is "dead" (it did not complete),   *)
(* "varies" (its output differed across the repeats) or the output itself,  *)
(* "a" or "b". A comparison keeps its input and what the two sides show.    *)
(***************************************************************************)
EXTENDS Naturals, SequencesExt

CONSTANTS
  Inputs,    \* the argument lists a model can think of
  MaxTurns,  \* adversary.MAX_TURNS
  PerTurn    \* adversary.PER_TURN

ASSUME ReviewAssumption == {MaxTurns, PerTurn} \subseteq Nat \ {0}

VARIABLES
  turn,      \* the turn being taken, 0 when no patch is under audit
  compared   \* the comparisons made so far

reviewVars == <<turn, compared>>

-----------------------------------------------------------------------------
(* revisions.py: what one input shows *)

Sides == {"dead", "varies", "a", "b"}

Ran(side) == side # "dead"
Stable(side) == side \in {"a", "b"}

\* Comparison.broke
Broke(was, now) ==
  Ran(was) /\ (~Ran(now) \/ (Stable(was) /\ (~Stable(now) \/ was # now)))

\* What a Comparison can show, by the three questions judge asks of it.
Showings ==
  {[broke |-> Broke(was, now), both |-> Ran(was) /\ Ran(now),
    unstable |-> Ran(was) /\ ~Stable(was)] : was, now \in Sides}

-----------------------------------------------------------------------------
(* adversary.py *)

\* An input the original rejects too counts as one survived.
WrongJudge(seen) ==
  IF \E c \in seen : c.broke THEN "broken"
  ELSE IF \E c \in seen : c.unstable THEN "unstable"
  ELSE IF seen # {} THEN "clean" ELSE "unattacked"

Judge(seen) ==
  LET fair == {c \in seen : c.both} IN
  IF \E c \in seen : c.broke THEN "broken"
  ELSE IF \E c \in fair : c.unstable THEN "unstable"
  ELSE IF fair # {} THEN "clean" ELSE "unattacked"

\* adversary.ROUTES
RouteOf(verdict) ==
  CASE verdict = "broken" -> "another_round"
    [] verdict = "clean" -> "clean"
    [] verdict \in {"unstable", "unattacked"} -> "escalate"

Seen(comparisons) == {comparisons[k].saw : k \in DOMAIN comparisons}

BeginReview == turn' = 1 /\ compared' = <<>>

EndReview == turn' = 0 /\ compared' = <<>>

\* The inputs of a reply that were not tried, each once, in order (dict.fromkeys).
FreshInputs(reply) ==
  FoldLeft(LAMBDA kept, i :
             IF Contains(kept, i) \/ \E k \in DOMAIN compared : compared[k].given = i
             THEN kept ELSE Append(kept, i),
           <<>>, reply)

InputReplies == UNION {[1..n -> Inputs] : n \in 1..PerTurn + 1}

\* A turn that settles nothing: declined, cut off, unreadable, nothing new.
WastedTurn ==
  /\ turn \in 1..MaxTurns
  /\ turn' = turn + 1 /\ UNCHANGED compared

\* A turn whose inputs are run on both revisions; a break ends the attack.
Attack ==
  /\ turn \in 1..MaxTurns
  /\ \E reply \in InputReplies :
       LET asked == FreshInputs(reply)
           fresh == SubSeq(asked, 1, IF Len(asked) < PerTurn THEN Len(asked) ELSE PerTurn) IN
       /\ fresh # <<>>
       /\ \E saw \in [DOMAIN fresh -> Showings] :
            compared' = compared \o
              [i \in DOMAIN fresh |-> [given |-> fresh[i], saw |-> saw[i]]]
  /\ turn' = IF \E c \in Seen(compared') : c.broke THEN MaxTurns + 1 ELSE turn + 1

\* The model has nothing more worth trying.
GiveUp ==
  /\ turn \in 1..MaxTurns
  /\ turn' = MaxTurns + 1 /\ UNCHANGED compared

ReviewStep == WastedTurn \/ Attack \/ GiveUp

Reviewed == turn = MaxTurns + 1
=============================================================================
