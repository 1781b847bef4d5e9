----------------------------- MODULE RepairLoop -----------------------------
(***************************************************************************)
(* One finding from sound to cleared: the search of Search and the audit of *)
(* Review, alternating as pipeline/nodes.py makes them -- optimize hands the *)
(* archive's winner to audit_patch, and audit_patch sends a broken patch    *)
(* back -- over a checkpoint and a journal that outlive the process.        *)
(*                                                                          *)
(* Pipeline models the whole graph and leaves the inside of a search open;  *)
(* here the inside is the model, and one finding is in hand.                *)
(***************************************************************************)
EXTENDS Search, Review

CONSTANTS
  HasJournal,  \* Resources.store is not None
  NoPatch

VARIABLES
  due,       \* the node the checkpoint says is next
  saved,     \* state.candidates
  journal,   \* the candidates journalled for this finding
  patch,     \* state.repaired: the patch handed over, or NoPatch
  verdict    \* state.audited

loopVars == <<due, saved, journal, patch, verdict>>

vars == <<searchVars, reviewVars, loopVars>>

Init ==
  /\ due = "optimize" /\ saved = <<>> /\ journal = <<>>
  /\ patch = NoPatch /\ verdict = "none"
  /\ stage = "idle" /\ attempt = 0 /\ archive = <<>> /\ known = 0
  /\ rounds = <<>> /\ batch = <<>>
  /\ turn = 0 /\ compared = <<>>

-----------------------------------------------------------------------------
(* optimize *)

\* Each search starts from the checkpoint alone.
WrongRemembered == saved

\* _remembered: the journal, then what only the checkpoint holds; by id.
Remembered ==
  LET only   == {i \in DOMAIN saved : \A j \in DOMAIN journal : journal[j].id # saved[i].id}
      nth(k) == CHOOSE i \in only : Cardinality({j \in only : j < i}) = k - 1
  IN  journal \o [k \in 1..Cardinality(only) |-> saved[nth(k)]]

Optimize ==
  /\ stage = "idle" /\ due = "optimize"
  /\ Begin(Remembered)
  /\ UNCHANGED <<reviewVars, loopVars>>

\* record_all: one candidate appended to the journal, in a transaction of its own.
Unfiled == HasJournal /\ Len(journal) < Len(archive)

JournalOne ==
  /\ stage = "recording" /\ Unfiled
  /\ journal' = Append(journal, archive[Len(journal) + 1])
  /\ UNCHANGED <<searchVars, reviewVars, due, saved, patch, verdict>>

\* optimize returns: what it measured, and the winner if there is one.
Return ==
  /\ stage = "recording" /\ ~Unfiled
  /\ saved' = saved \o SubSeq(archive, known + 1, Len(archive))
  /\ IF Won(archive) = {}
     THEN due' = "end" /\ UNCHANGED patch
     ELSE due' = "audit_patch" /\ patch' = Winner(archive)
  /\ Lose
  /\ UNCHANGED <<reviewVars, journal, verdict>>

-----------------------------------------------------------------------------
(* audit_patch *)

AuditPatch ==
  /\ stage = "idle" /\ due = "audit_patch"
  /\ stage' = "attacking" /\ BeginReview
  /\ UNCHANGED <<attempt, archive, known, rounds, batch, loopVars>>

Routed(route) ==
  CASE route = "clean" -> "ship" [] route = "another_round" -> "optimize" [] OTHER -> "end"

Decide ==
  /\ stage = "attacking" /\ Reviewed
  /\ verdict' = Judge(Seen(compared))
  /\ due' = Routed(RouteOf(verdict'))
  /\ stage' = "idle" /\ EndReview
  /\ UNCHANGED <<attempt, archive, known, rounds, batch, saved, journal, patch>>

-----------------------------------------------------------------------------

\* The meter refuses the next model call and the node raises: what it measured so
\* far was neither journalled nor returned.
Halt ==
  /\ \/ stage = "writing"
     \/ stage = "proposing" /\ Len(archive) < MaxCandidates /\ Len(rounds) < MaxRounds
     \/ stage = "attacking" /\ ~Reviewed
  /\ Lose /\ EndReview /\ UNCHANGED loopVars

\* Anything else raises, or the process dies: what was not returned is lost.
Fail ==
  /\ stage # "idle"
  /\ Lose /\ EndReview /\ UNCHANGED loopVars

Advance ==
  \/ SearchStep /\ UNCHANGED <<reviewVars, loopVars>>
  \/ JournalOne \/ Return
  \/ stage = "attacking" /\ ReviewStep /\ UNCHANGED <<searchVars, loopVars>>
  \/ Decide

Next == Optimize \/ AuditPatch \/ Advance \/ Halt \/ Fail

Spec == Init /\ [][Next]_vars

\* A node that has begun runs on until it returns or raises.
FairSpec == Spec /\ WF_vars(Advance)

-----------------------------------------------------------------------------
(* Safety *)

\* No edit is measured twice for a finding, whatever it is called and however
\* often the patch is sent back or the search resumed (Optimizer._objection).
NoEditMeasuredTwice ==
  \A i, j \in DOMAIN archive : archive[i].edit = archive[j].edit => i = j

\* A search asks a dearer tier only when CHEAP_ATTEMPTS rounds on the one below,
\* asked by this very search, measured nothing whose tests passed.
EscalationIsEarned ==
  \A i \in DOMAIN rounds :
    rounds[i].rung > 0 =>
      LET below == {j \in 1..i - 1 : rounds[j].rung = rounds[i].rung - 1} IN
      /\ Cardinality(below) >= CheapAttempts
      /\ \A k \in known + 1..Len(archive) :
           archive[k].round \in below => ~archive[k].seen.tests

\* A patch routed to ship was run beside the original on some input, both ran,
\* and the outputs agreed on every such input (PatchReview.verdict).
ClearedWasCompared ==
  [][due' = "ship" /\ due # "ship" =>
       /\ \E c \in Seen(compared) : c.both
       /\ \A c \in Seen(compared) : ~c.broke /\ (c.both => ~c.unstable)]_vars

\* Every search and every audit that begins comes to an end.
NodeEnds == stage # "idle" ~> stage = "idle"
=============================================================================
