------------------------------ MODULE Spending ------------------------------
(***************************************************************************)
(* One Budget over the steps of several phases and findings. Every step     *)
(* asks the model through the cascade of cost/cascade.py, whose attempts    *)
(* are calls of Metering; cost/budget.py holds the step to its phase's cap  *)
(* before each of them, and once it is complete counts it and asks whether  *)
(* the phase is still learning.                                             *)
(*                                                                          *)
(* The caller is external: it does in order what the two modules' docs ask. *)
(* The pipeline's own callers make the calls and record no step.            *)
(*                                                                          *)
(* The caps of all phases but grounding count per finding: "repair" stands  *)
(* for the five of them.                                                    *)
(***************************************************************************)
EXTENDS Metering, FiniteSets

CONSTANTS
  Findings,      \* what steps are counted against
  Caps,          \* PHASE_CAPS: phase -> its limit
  StallAfter,    \* Budget.stall_after
  Conclusions,   \* what a step can establish
  None           \* no finding, and no conclusion

CHEAP_ATTEMPTS == 2

Phases == {"ground", "repair"}

ASSUME CapsAssumption == Caps \in [Phases -> Nat \ {0}]
ASSUME StallAssumption == StallAfter \in Nat \ {0, 1}
ASSUME NoneAssumption == None \notin Findings \cup Conclusions

Keys == Phases \X (Findings \cup {None})

VARIABLES
  caps,   \* Budget.caps, as tightened
  used,   \* Budget._used
  seen,   \* Budget._conclusions
  step,   \* the step in progress, or NoStep
  stop,   \* the last BudgetError, and the limit it was held to
  done    \* history: the steps this process completed

budget == <<caps, used, seen, step, stop, done>>

all == <<spent, call, invoice, calls, losses, caps, used, seen, step, stop, done>>

NoStep == [at |-> "none"]
NoStop == [why |-> "none"]

\* Every step lands in one counter of its phase.
WrongKey(phase, finding) == <<phase, None>>

\* Budget._key: grounding is shared, everything else is per finding.
Key(phase, finding) == <<phase, IF phase = "ground" THEN None ELSE finding>>

Unused == [key \in Keys |-> 0]
Unseen == [key \in Keys |-> <<>>]

SpendingInit ==
  /\ Init
  /\ caps = Caps /\ used = Unused /\ seen = Unseen
  /\ step = NoStep /\ stop = NoStop /\ done = <<>>

\* Budget.tighten: a cap may go below the compiled one, and back up to it.
Tighten ==
  /\ step = NoStep
  /\ \E phase \in Phases : \E limit \in 1..Caps[phase] : caps' = [caps EXCEPT ![phase] = limit]
  /\ UNCHANGED <<spent, call, invoice, calls, losses, used, seen, step, stop, done>>

-----------------------------------------------------------------------------
(* cost/cascade.py *)

\* A step with no deterministic validator is asked once; cascade() refuses it.
Begin ==
  /\ step = NoStep
  /\ \E phase \in Phases, finding \in Findings, mechanical \in BOOLEAN :
       step' = [at |-> "asking", phase |-> phase, finding |-> finding,
                mechanical |-> mechanical, attempts |-> 0]
  /\ stop' = NoStop
  /\ UNCHANGED <<spent, call, invoice, calls, losses, caps, used, seen, done>>

Asking == step.at = "asking" /\ call = NoCall

Counter == Key(step.phase, step.finding)

\* Two attempts on the routed tier, and one on the next.
Tier ==
  TierFor([mechanical |-> step.mechanical, grounding |-> step.phase = "ground"],
          IF step.attempts < CHEAP_ATTEMPTS THEN 0 ELSE 1)

CapLeft == used[Counter] < caps[step.phase]

\* Meter.complete authorizes each attempt: the phase's cap first, then the ceiling.
Ask ==
  /\ Asking /\ CapLeft
  /\ Send /\ call'.tier = Tier
  /\ UNCHANGED budget

\* A refusal ends the step, and names what was exhausted.
Refused ==
  /\ Asking /\ step' = NoStep
  /\ \/ /\ ~CapLeft
        /\ stop' = [why |-> "cap", phase |-> step.phase, finding |-> step.finding,
                    limit |-> caps[step.phase]]
     \/ /\ CapLeft /\ \E prompt \in Prompts : ~Authorized(Tier, prompt)
        /\ stop' = [why |-> "ceiling"]
  /\ UNCHANGED <<spent, call, invoice, calls, losses, caps, used, seen, done>>

Answered == Answer /\ UNCHANGED budget

Recorded ==
  /\ Record /\ step' = [step EXCEPT !.at = "checking", !.attempts = @ + 1]
  /\ UNCHANGED <<caps, used, seen, stop, done>>

\* The answer passes its check, or has none; or it fails, and is asked for again, or,
\* on the dearer tier, given up: a failing result is never handed on.
Check ==
  /\ step.at = "checking"
  /\ \/ step' = [step EXCEPT !.at = "complete"]
     \/ step.mechanical /\ step' = IF step.attempts <= CHEAP_ATTEMPTS THEN [step EXCEPT !.at = "asking"] ELSE NoStep
  /\ UNCHANGED <<spent, call, invoice, calls, losses, caps, used, seen, stop, done>>

-----------------------------------------------------------------------------
(* Budget.record_step *)

\* A step that concluded nothing is passed over.
WrongSeenAfter(before, conclusion) ==
  IF conclusion = None THEN before ELSE Append(before, conclusion)

SeenAfter(before, conclusion) == IF conclusion = None THEN <<>> ELSE Append(before, conclusion)

\* The last `stall_after` conclusions are one.
Stalled(conclusions) ==
  LET n == Len(conclusions) IN
  n >= StallAfter /\ \A i \in n - StallAfter + 1..n : conclusions[i] = conclusions[n]

RecordStep ==
  /\ step.at = "complete"
  /\ \E conclusion \in Conclusions \cup {None} :
       LET after == SeenAfter(seen[Counter], conclusion) IN
       /\ used' = [used EXCEPT ![Counter] = @ + 1]
       /\ seen' = [seen EXCEPT ![Counter] = after]
       /\ stop' = IF Stalled(after)
                  THEN [why |-> "stall", phase |-> step.phase, finding |-> step.finding]
                  ELSE NoStop
       /\ done' = Append(done, [phase |-> step.phase, finding |-> step.finding,
                                conclusion |-> conclusion])
  /\ step' = NoStep
  /\ UNCHANGED <<spent, call, invoice, calls, losses, caps>>

-----------------------------------------------------------------------------

\* The client raised, and the step with it.
Raised == Raise /\ step' = NoStep /\ UNCHANGED <<caps, used, seen, stop, done>>

\* Another process has another Budget, and begins its cascades again.
Resumed ==
  /\ Restart
  /\ caps' = Caps /\ used' = Unused /\ seen' = Unseen
  /\ step' = NoStep /\ stop' = NoStop /\ done' = <<>>

SpendingNext ==
  Tighten \/ Begin \/ Ask \/ Refused \/ Answered \/ Recorded \/ Check \/ RecordStep \/ Raised \/ Resumed

SpendingSpec == SpendingInit /\ [][SpendingNext]_all

-----------------------------------------------------------------------------

\* Where the history has the steps that one counter is for.
Completed(phase, finding) ==
  {i \in DOMAIN done : done[i].phase = phase /\ (phase = "ground" \/ done[i].finding = finding)}

\* A finding is stopped by its own steps and by nothing else, and always by them: no
\* order of steps, checks and tightened caps takes a phase past the cap compiled in,
\* spends one finding's cap on another, or calls a finding stalled whose last steps did
\* not draw one conclusion over and over (budget.py, "five findings eight experiments each").
StopsAreEarned ==
  /\ \A phase \in Phases, finding \in Findings :
       Cardinality(Completed(phase, finding)) <= Caps[phase]
  /\ stop.why = "cap" => Cardinality(Completed(stop.phase, stop.finding)) >= stop.limit
  /\ stop.why = "stall" =>
       \E last \in SUBSET Completed(stop.phase, stop.finding), conclusion \in Conclusions :
         /\ Cardinality(last) = StallAfter
         /\ \A i \in last, j \in Completed(stop.phase, stop.finding) \ last : j < i
         /\ \A i \in last : done[i].conclusion = conclusion
=============================================================================
