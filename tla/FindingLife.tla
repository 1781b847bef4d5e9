----------------------------- MODULE FindingLife -----------------------------
(***************************************************************************)
(* What a run promises about the findings it is given, whatever node does  *)
(* the work and however often the process dies: a finding is judged once,  *)
(* ships only after its own patch has been audited clean, ships once, and  *)
(* is never reopened; no finding is taken on while another is in flight.   *)
(***************************************************************************)
EXTENDS Naturals, Sequences

VARIABLE life   \* what has become of each finding, in the order they were minted

InFlight == {"open", "sound", "patched", "cleared"}

Init == life = <<>>

\* A scan mints a finding once nothing else is in flight.
Mint ==
  /\ \A f \in DOMAIN life : life[f] \notin InFlight
  /\ life' = Append(life, "open")

Judge(f) ==
  /\ life[f] = "open"
  /\ \E verdict \in {"sound", "needs_evidence", "unsound"} : life' = [life EXCEPT ![f] = verdict]

Patch(f) == life[f] = "sound" /\ life' = [life EXCEPT ![f] = "patched"]

Clear(f) == life[f] = "patched" /\ life' = [life EXCEPT ![f] = "cleared"]

Ship(f) == life[f] = "cleared" /\ life' = [life EXCEPT ![f] = "shipped"]

NewRun == life' = <<>>

Next ==
  \/ Mint \/ NewRun
  \/ \E f \in DOMAIN life : Judge(f) \/ Patch(f) \/ Clear(f) \/ Ship(f)

Spec == Init /\ [][Next]_life
=============================================================================
