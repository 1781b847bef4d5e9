------------------------------ MODULE Metering ------------------------------
(***************************************************************************)
(* Every model call goes through llm/metered.py: the router picks a tier,   *)
(* cost/budget.py refuses a call whose worst case would pass the ceiling,   *)
(* the provider answers and bills, and the bill of this process records it. *)
(* Calls are made one at a time. The bill is a value of the process         *)
(* (cli/scan.py, resources_for): another process starts from an empty one.  *)
(*                                                                          *)
(* Money is counted in twentieths of a price unit per token, which makes    *)
(* every multiplier of cost/accounting.py a whole number. The caps a phase   *)
(* is held to are Spending's.                                               *)
(*                                                                          *)
(* MaxCalls bounds the calls of a run, MaxLosses how often a bill is lost.  *)
(***************************************************************************)
EXTENDS Naturals, Sequences

CONSTANTS
  Price,     \* tier -> the price of its model per token, `in` and `out`
  Ceiling,   \* Budget.ceiling_eur at the run's exchange rate
  Prompts,   \* how many tokens a prompt can count
  Limit,     \* Call.max_tokens
  MaxCalls, MaxLosses,
  NoCall

Tiers == {"cheap", "mid", "frontier"}

ASSUME PriceAssumption == Price \in [Tiers -> [in : Nat, out : Nat]]
ASSUME AmountAssumption == Ceiling \in Nat /\ Prompts \subseteq Nat /\ Limit \in Nat

CallType == [tier : Tiers, prompt : Prompts, answered : BOOLEAN, billed : Nat]

ASSUME NoCallAssumption == NoCall \notin CallType

VARIABLES
  spent,    \* Budget.spent_eur: the bill of this process
  call,     \* the call authorized and not recorded yet, or NoCall
  invoice,  \* history: what the provider has charged for this run
  calls,    \* history: how many calls were sent
  losses    \* history: how often a bill, or a part of one, was lost

vars == <<spent, call, invoice, calls, losses>>

-----------------------------------------------------------------------------
(* cost/accounting.py and cost/routing.py *)

\* Multipliers of the input price, in twentieths: a plain token, a token written
\* to the cache for five minutes or an hour, a token read from it.
Plain == 20
Write == [fiveMinutes |-> 25, oneHour |-> 40]
Read == 2

Usages(prompt) ==
  {u \in [plain : 0..prompt, written : 0..prompt, read : 0..prompt,
          ttl : DOMAIN Write, out : 0..Limit] : u.plain + u.written + u.read = prompt}

\* ModelCall.cost_usd
Cost(tier, u) ==
    (Plain * u.plain + Write[u.ttl] * u.written + Read * u.read) * Price[tier].in
  + Plain * u.out * Price[tier].out

\* Every prompt token is taken for a plain one.
WrongWorstCase(tier, prompt) == Plain * prompt * Price[tier].in + Plain * Limit * Price[tier].out

\* worst_case_usd: every prompt token written to the dearest cache.
WorstCase(tier, prompt) ==
  Write.oneHour * prompt * Price[tier].in + Plain * Limit * Price[tier].out

\* A step: whether a check can fail it, and whether it grounds the subject.
Steps == [mechanical : BOOLEAN, grounding : BOOLEAN]

\* Router.tier_for
Routed(step) ==
  IF ~step.mechanical THEN "frontier" ELSE IF step.grounding THEN "cheap" ELSE "mid"

Ladder == <<"cheap", "mid", "frontier">>

Rank(tier) == CHOOSE i \in DOMAIN Ladder : Ladder[i] = tier

\* Meter.model_for refuses to escalate a step nothing can check, or past the top.
Routable(step, escalation) ==
  /\ escalation > 0 => step.mechanical
  /\ Rank(Routed(step)) + escalation \in DOMAIN Ladder

TierFor(step, escalation) == Ladder[Rank(Routed(step)) + escalation]

-----------------------------------------------------------------------------
(* llm/metered.py *)

Init == spent = 0 /\ call = NoCall /\ invoice = 0 /\ calls = 0 /\ losses = 0

\* Each call is held against the ceiling alone.
WrongAuthorized(tier, prompt) == WorstCase(tier, prompt) <= Ceiling

\* Budget.authorize
Authorized(tier, prompt) == spent + WorstCase(tier, prompt) <= Ceiling

\* A call that cannot be routed, or that could pass the ceiling, is never sent.
Send ==
  /\ call = NoCall /\ calls < MaxCalls
  /\ \E step \in Steps, escalation \in 0..1, prompt \in Prompts :
       /\ Routable(step, escalation)
       /\ Authorized(TierFor(step, escalation), prompt)
       /\ call' = [tier |-> TierFor(step, escalation), prompt |-> prompt, answered |-> FALSE, billed |-> 0]
  /\ calls' = calls + 1
  /\ UNCHANGED <<spent, invoice, losses>>

\* The provider bills what it did.
Answer ==
  /\ call # NoCall /\ ~call.answered
  /\ \E u \in Usages(call.prompt) :
       /\ call' = [call EXCEPT !.answered = TRUE, !.billed = Cost(call.tier, u)]
       /\ invoice' = invoice + Cost(call.tier, u)
  /\ UNCHANGED <<spent, calls, losses>>

Record ==
  /\ call # NoCall /\ call.answered
  /\ spent' = spent + call.billed /\ call' = NoCall
  /\ UNCHANGED <<invoice, calls, losses>>

\* The client raises: whatever was billed is not recorded.
Raise ==
  /\ call # NoCall /\ call' = NoCall
  /\ losses < MaxLosses /\ losses' = losses + 1
  /\ UNCHANGED <<spent, invoice, calls>>

\* Another process resumes the run.
Restart ==
  /\ spent' = 0 /\ call' = NoCall
  /\ losses < MaxLosses /\ losses' = losses + 1
  /\ UNCHANGED <<invoice, calls>>

Next == Send \/ Answer \/ Record \/ Raise \/ Restart

Spec == Init /\ [][Next]_vars

-----------------------------------------------------------------------------

\* What a process has been billed, and what the call in flight may still add to
\* it, never pass the ceiling, whatever tier a call was escalated to and however
\* its prompt was cached (Budget.authorize, worst_case_usd).
CeilingHolds ==
  spent + (IF call = NoCall THEN 0 ELSE call.billed) <= Ceiling

\* What the provider charges a run passes its ceiling only by whole ceilings, one
\* for every bill that was lost: a bill dies with its process, and a call billed by
\* a client that raised is not in it (cli/scan.py, resources_for; Meter.complete).
InvoiceBounded == invoice <= Ceiling * (losses + 1)
=============================================================================
