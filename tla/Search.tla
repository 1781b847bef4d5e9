------------------------------- MODULE Search -------------------------------
(***************************************************************************)
(* What the optimize node does between its checkpoints: evidence/falsify.py *)
(* writes a test that must fail, evidence/optimizer.py asks for candidates  *)
(* in rounds, and evidence/repair.py measures every one and keeps the       *)
(* score. The actions are composed with the journal, the checkpoint and the *)
(* patch audit in RepairLoop.                                               *)
(*                                                                          *)
(* A proposal is the name of its approach and its edit; one that is blank,  *)
(* unparsable, protected by the patch policy or outside the finding's file  *)
(* is refused whatever else was tried, and only shortens its round.         *)
(* What running a candidate showed is a member of Results: its wall time,   *)
(* its peak memory, whether the output held and whether the tests passed.   *)
(***************************************************************************)
EXTENDS Naturals, SequencesExt

CONSTANTS
  Approaches, Edits,  \* the names and the edits a model can write
  Results,            \* what measuring a candidate can show
  Baseline,           \* what measuring the code as it stands showed
  MaxCandidates,      \* repair.MAX_CANDIDATES
  MaxRounds,          \* optimizer.MAX_ROUNDS
  PerRound,           \* optimizer.PER_ROUND
  CheapAttempts,      \* cascade.CHEAP_ATTEMPTS
  Rungs               \* tiers from the routed one to the dearest, both included

ASSUME SearchAssumption ==
  /\ {MaxCandidates, MaxRounds, PerRound, CheapAttempts, Rungs} \subseteq Nat \ {0}
  /\ Results \cup {Baseline} \subseteq [wall : Nat, peak : Nat, out : BOOLEAN, tests : BOOLEAN]

VARIABLES
  stage,    \* where the process is: "idle" between nodes
  attempt,  \* which falsification test is being written, 0 for none
  archive,  \* repair.Archive.scored
  known,    \* how much of it was remembered when this search began
  rounds,   \* Optimizer.rounds: the rung each was asked on, the ids it proposed
  batch     \* candidates of the last round not measured yet

searchVars == <<stage, attempt, archive, known, rounds, batch>>

-----------------------------------------------------------------------------
(* repair.py: what a measured candidate is *)

\* Scored._paid_for_elsewhere, GUARD_MARGIN = 1.05.
PaidElsewhere(r) == 100 * r.peak > 105 * Baseline.peak

Beats(r) == r.tests /\ r.out /\ r.wall < Baseline.wall

\* Scored.outcome is WON.
Wins(r) == Beats(r) /\ ~PaidElsewhere(r)

Won(scored) == {i \in DOMAIN scored : Wins(scored[i].seen)}

\* Archive.winner: the fastest that won, the earliest on a tie.
Winner(scored) ==
  scored[CHOOSE i \in Won(scored) : \A j \in Won(scored) :
    \/ scored[i].seen.wall < scored[j].seen.wall
    \/ scored[i].seen.wall = scored[j].seen.wall /\ i <= j]

-----------------------------------------------------------------------------
(* falsify.py: the test that has to fail first *)

Begin(already) ==
  /\ stage' = "writing" /\ attempt' = 1
  /\ archive' = already /\ known' = Len(already)
  /\ rounds' = <<>> /\ batch' = <<>>

\* The node raises: what it held is gone.
Lose ==
  /\ stage' = "idle" /\ attempt' = 0
  /\ archive' = <<>> /\ known' = 0 /\ rounds' = <<>> /\ batch' = <<>>

\* A test that did fail mints the token. One that passed, one that never ran and
\* a reply nobody could read are refused and another is asked for.
Minted ==
  /\ stage = "writing"
  /\ stage' = "proposing" /\ attempt' = 0
  /\ UNCHANGED <<archive, known, rounds, batch>>

TestRefused ==
  /\ stage = "writing" /\ attempt <= CheapAttempts
  /\ attempt' = attempt + 1
  /\ UNCHANGED <<stage, archive, known, rounds, batch>>

\* The attempts are spent, or the model says nothing can be counted.
NoTest == stage = "writing" /\ Lose

-----------------------------------------------------------------------------
(* optimizer.py: rounds of candidates *)

Passed == {archive[i].id : i \in {j \in DOMAIN archive : archive[j].seen.tests}}

LastRung == IF rounds = <<>> THEN 0 ELSE rounds[Len(rounds)].rung

OnRung(rung) == {i \in DOMAIN rounds : rounds[i].rung = rung}

\* One refused round is enough to move up.
WrongSpent(rung) ==
  /\ Cardinality(OnRung(rung)) + 1 >= CheapAttempts
  /\ \A i \in OnRung(rung) : rounds[i].ids \cap Passed = {}

Spent(rung) ==
  /\ Cardinality(OnRung(rung)) >= CheapAttempts
  /\ \A i \in OnRung(rung) : rounds[i].ids \cap Passed = {}

\* Optimizer._escalation: one rung dearer once this one has passed nothing.
Escalation ==
  IF Spent(LastRung) /\ LastRung + 1 < Rungs THEN LastRung + 1 ELSE LastRung

Tried(approach) == \E i \in DOMAIN archive : archive[i].approach = approach

Measured(scored) == {scored[i].edit : i \in DOMAIN scored}

\* What is left to propose: PER_ROUND, or what the archive still has room for.
Wanted ==
  IF PerRound <= MaxCandidates - Len(archive) THEN PerRound ELSE MaxCandidates - Len(archive)

\* An edit repeated within one reply is not noticed.
WrongObjection(kept, i) == Tried(kept[i].approach) \/ kept[i].edit \in Measured(archive)

\* Optimizer._objection to the i-th of the proposals kept: its name was measured, or its
\* edit was measured or proposed before it.
Objection(kept, i) ==
  \/ Tried(kept[i].approach)
  \/ kept[i].edit \in Measured(archive) \cup {kept[j].edit : j \in 1..i - 1}

\* What may be left of a reply once it is cut to what was wanted and refused what it is.
Replies ==
  {kept \in UNION {[1..n -> [approach : Approaches, edit : Edits]] : n \in 0..Wanted} :
     \A i \in DOMAIN kept : ~Objection(kept, i)}

\* Numbered from what the archive holds.
Numbered(kept) ==
  [i \in DOMAIN kept |-> [id |-> Len(archive) + i, approach |-> kept[i].approach,
                          edit |-> kept[i].edit]]

\* Only a round that yields something counts against the limit.
WrongRounds(kept) ==
  IF kept = <<>> THEN rounds
  ELSE Append(rounds, [rung |-> Escalation, ids |-> {kept[i].id : i \in DOMAIN kept}])

Rounds(kept) ==
  Append(rounds, [rung |-> Escalation, ids |-> {kept[i].id : i \in DOMAIN kept}])

\* One round: one model call. A reply that yields nothing measurable -- <<>> stands
\* for one declined, cut off or unreadable -- is spent and the next is asked at once.
\* repair.search drops what was tried and what there is no room for: nothing, by now.
AskRound ==
  /\ stage = "proposing"
  /\ Len(archive) < MaxCandidates /\ Len(rounds) < MaxRounds
  /\ \E reply \in Replies :
       LET kept == Numbered(reply) IN
       /\ rounds' = Rounds(kept)
       /\ batch' = kept
       /\ stage' = IF kept = <<>> THEN "proposing" ELSE "applying"
  /\ UNCHANGED <<attempt, archive, known>>

\* repair.search: apply one candidate, measure it, record it. `round` is history.
Apply ==
  /\ stage = "applying"
  /\ \E seen \in Results :
       archive' = Append(archive,
         [id |-> batch[1].id, approach |-> batch[1].approach, edit |-> batch[1].edit,
          seen |-> seen, round |-> Len(rounds)])
  /\ batch' = Tail(batch)
  /\ stage' = IF Len(batch) = 1 THEN "proposing" ELSE "applying"
  /\ UNCHANGED <<attempt, known, rounds>>

\* The archive is full or the rounds are spent.
Stop ==
  /\ stage = "proposing"
  /\ Len(archive) >= MaxCandidates \/ Len(rounds) >= MaxRounds
  /\ stage' = "recording"
  /\ UNCHANGED <<attempt, archive, known, rounds, batch>>

SearchStep == Minted \/ TestRefused \/ NoTest \/ AskRound \/ Apply \/ Stop
=============================================================================
