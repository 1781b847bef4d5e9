--------------------------- MODULE MeteringProofs ---------------------------
(***************************************************************************)
(* The ceiling of Metering, for every price book, ceiling, prompt size and  *)
(* number of calls. CeilingHolds alone is not inductive: that an answer     *)
(* fits follows from what was reserved when its call was authorized, so the *)
(* invariant keeps the reservation of the call in flight. InvoiceBounded    *)
(* needs to know, besides, what of the invoice this process has billed.     *)
(* Spending, which asks through cascades and holds its steps to caps, takes  *)
(* no step with the bill that Metering does not, and inherits both. Who is  *)
(* stopped, and by which cap, is an invariant of its own: what a cascade    *)
(* and a phase were told of is what they completed.                         *)
(***************************************************************************)
EXTENDS Spending, TLAPS, SequenceTheorems, FiniteSetTheorems

TypeOK ==
  /\ spent \in Nat /\ invoice \in Nat /\ losses \in Nat
  /\ call \in CallType \cup {NoCall}

\* Until it is answered a call holds room for its worst case, and has billed nothing.
Reserved ==
  /\ spent <= Ceiling
  /\ call # NoCall => spent + WorstCase(call.tier, call.prompt) <= Ceiling
  /\ call # NoCall => call.billed <= WorstCase(call.tier, call.prompt)
  /\ call # NoCall /\ ~call.answered => call.billed = 0

IInv == TypeOK /\ Reserved

\* Multiplication is monotone, in the form the price lemmas use it.
LEMMA Times ==
  ASSUME NEW a \in Nat, NEW b \in Nat, NEW p \in Nat, a <= b
  PROVE  a * p <= b * p /\ a * p \in Nat /\ b * p \in Nat
<1>1. PICK d \in Nat : b = a + d
  BY SMT
<1>2. b * p = a * p + d * p /\ a * p \in Nat /\ d * p \in Nat
  BY <1>1, SMT
<1>3. QED
  BY <1>2, SMT

\* No answer costs more than worst_case_usd said it could, however its prompt
\* was split between plain tokens, cache writes and cache reads.
LEMMA WorstCaseCovers ==
  ASSUME NEW tier \in Tiers, NEW prompt \in Nat, NEW u \in Usages(prompt)
  PROVE  Cost(tier, u) \in Nat /\ WorstCase(tier, prompt) \in Nat
         /\ Cost(tier, u) <= WorstCase(tier, prompt)
<1> DEFINE weight == Plain * u.plain + Write[u.ttl] * u.written + Read * u.read
           in == Price[tier].in
           out == Price[tier].out
<1>1. in \in Nat /\ out \in Nat
  BY PriceAssumption
<1>2. /\ u.plain \in Nat /\ u.written \in Nat /\ u.read \in Nat
      /\ u.plain + u.written + u.read = prompt
      /\ u.out \in Nat /\ u.out <= Limit /\ u.ttl \in {"fiveMinutes", "oneHour"}
  BY AmountAssumption DEF Usages, Write
<1>3. Write[u.ttl] \in {25, 40}
  BY <1>2 DEF Write
<1>4. weight \in Nat /\ weight <= 40 * prompt
  <2>1. CASE Write[u.ttl] = 25
    BY <1>2, <2>1 DEF Plain, Read
  <2>2. CASE Write[u.ttl] = 40
    BY <1>2, <2>2 DEF Plain, Read
  <2>3. QED
    BY <1>3, <2>1, <2>2
<1>5. weight * in <= (40 * prompt) * in /\ weight * in \in Nat /\ (40 * prompt) * in \in Nat
  <2>1. 40 * prompt \in Nat
    OBVIOUS
  <2> HIDE DEF weight, in
  <2>2. QED
    BY <1>1, <1>4, <2>1, Times
<1>6. /\ (20 * u.out) * out <= (20 * Limit) * out
      /\ (20 * u.out) * out \in Nat /\ (20 * Limit) * out \in Nat
  <2>1. 20 * u.out \in Nat /\ 20 * Limit \in Nat /\ 20 * u.out <= 20 * Limit
    BY <1>2, AmountAssumption
  <2> HIDE DEF out
  <2>2. QED
    BY <1>1, <2>1, Times
<1>7. /\ Cost(tier, u) = weight * in + (20 * u.out) * out
      /\ WorstCase(tier, prompt) = (40 * prompt) * in + (20 * Limit) * out
  BY DEF Cost, WorstCase, Plain, Write
<1> HIDE DEF weight, in, out
<1>8. QED
  BY <1>5, <1>6, <1>7

LEMMA WorstCaseIsNat ==
  ASSUME NEW tier \in Tiers, NEW prompt \in Nat
  PROVE  WorstCase(tier, prompt) \in Nat
BY PriceAssumption, AmountAssumption DEF WorstCase, Plain, Write

LEMMA TierIsTier ==
  ASSUME NEW asked \in Steps, NEW escalation \in 0..1, Routable(asked, escalation)
  PROVE  TierFor(asked, escalation) \in Tiers
BY DEF Routable, TierFor, Ladder, Tiers

\* A call in flight, taken apart.
LEMMA InFlight ==
  ASSUME TypeOK, call # NoCall
  PROVE  /\ call \in CallType /\ call.tier \in Tiers /\ call.prompt \in Nat
         /\ call.billed \in Nat /\ WorstCase(call.tier, call.prompt) \in Nat
<1>1. call \in CallType /\ call.tier \in Tiers /\ call.prompt \in Nat /\ call.billed \in Nat
  BY AmountAssumption DEF TypeOK, CallType
<1>2. QED
  BY <1>1, WorstCaseIsNat

LEMMA InitReserves == Init => IInv
BY AmountAssumption, NoCallAssumption DEF Init, IInv, TypeOK, Reserved

LEMMA NextReserves == IInv /\ [Next]_vars => IInv'
<1> SUFFICES ASSUME IInv, [Next]_vars PROVE IInv'
  OBVIOUS
<1> USE DEF IInv, TypeOK, Reserved
<1>1. CASE Send
  <2>1. PICK asked \in Steps, escalation \in 0..1, prompt \in Prompts :
          /\ Routable(asked, escalation)
          /\ Authorized(TierFor(asked, escalation), prompt)
          /\ call' = [tier |-> TierFor(asked, escalation), prompt |-> prompt,
                      answered |-> FALSE, billed |-> 0]
    BY <1>1 DEF Send
  <2>2. TierFor(asked, escalation) \in Tiers /\ prompt \in Nat
    BY <2>1, TierIsTier, AmountAssumption
  <2>3. WorstCase(TierFor(asked, escalation), prompt) \in Nat
    BY <2>2, WorstCaseIsNat
  <2>4. call' \in CallType
    BY <2>1, <2>2 DEF CallType
  <2>5. spent + WorstCase(call'.tier, call'.prompt) <= Ceiling /\ call'.billed = 0
    BY <2>1 DEF Authorized
  <2>6. spent' = spent /\ invoice' = invoice /\ losses' = losses
    BY <1>1 DEF Send
  <2>7. QED
    BY <2>1, <2>3, <2>4, <2>5, <2>6 DEF WorstCase
<1>2. CASE Answer
  <2>1. PICK u \in Usages(call.prompt) :
          /\ call' = [call EXCEPT !.answered = TRUE, !.billed = Cost(call.tier, u)]
          /\ invoice' = invoice + Cost(call.tier, u)
    BY <1>2 DEF Answer
  <2>2. call \in CallType /\ call.tier \in Tiers /\ call.prompt \in Nat
    BY <1>2, AmountAssumption DEF Answer, CallType
  <2>3. /\ Cost(call.tier, u) \in Nat
        /\ Cost(call.tier, u) <= WorstCase(call.tier, call.prompt)
    BY <2>2, WorstCaseCovers
  <2>4. /\ call' \in CallType /\ call'.tier = call.tier /\ call'.prompt = call.prompt
        /\ call'.billed = Cost(call.tier, u)
    BY <2>1, <2>2, <2>3 DEF CallType
  <2>5. spent' = spent
    BY <1>2 DEF Answer
  <2>6. QED
    BY <1>2, <2>1, <2>3, <2>4, <2>5 DEF Answer, WorstCase
<1>3. CASE Record
  <2>1. call \in CallType /\ call.tier \in Tiers /\ call.prompt \in Nat /\ call.billed \in Nat
    BY <1>3, AmountAssumption DEF Record, CallType
  <2>2. WorstCase(call.tier, call.prompt) \in Nat
    BY <2>1, WorstCaseIsNat
  <2>3. spent' = spent + call.billed /\ call' = NoCall /\ invoice' = invoice /\ losses' = losses
        /\ call # NoCall
    BY <1>3 DEF Record
  <2> HIDE DEF IInv
  <2>4. spent' <= Ceiling
    BY <2>1, <2>2, <2>3, AmountAssumption DEF IInv
  <2>5. QED
    BY <2>1, <2>3, <2>4 DEF IInv
<1>4. CASE Raise
  BY <1>4 DEF Raise
<1>5. CASE Restart
  BY <1>5, AmountAssumption DEF Restart
<1>6. CASE UNCHANGED vars
  BY <1>6 DEF vars, WorstCase
<1>7. QED
  BY <1>1, <1>2, <1>3, <1>4, <1>5, <1>6 DEF Next

LEMMA ReservedMeansCeiling == IInv => CeilingHolds
<1> SUFFICES ASSUME IInv PROVE CeilingHolds
  OBVIOUS
<1>1. CASE call = NoCall
  BY <1>1 DEF IInv, TypeOK, Reserved, CeilingHolds
<1>2. CASE call # NoCall
  BY <1>2, InFlight, AmountAssumption DEF IInv, TypeOK, Reserved, CeilingHolds
<1>3. QED
  BY <1>1, <1>2

\* No process is ever billed past its ceiling, for every price book, prompt size
\* and ceiling, however its calls were routed, escalated and cached.
THEOREM CeilingSafety == Spec => []CeilingHolds
BY InitReserves, NextReserves, ReservedMeansCeiling, PTL DEF Spec

-----------------------------------------------------------------------------
(* What the provider charges *)

\* What this process was billed, its call in flight included.
Billed == spent + (IF call = NoCall THEN 0 ELSE call.billed)

\* Every lost bill was within one ceiling; what is not lost is this process's.
Charged == invoice <= Ceiling * losses + Billed

LEMMA BilledIsNat == IInv => Billed \in Nat
BY InFlight DEF IInv, TypeOK, Billed

LEMMA AddingZero == ASSUME NEW n \in Nat PROVE n + 0 = n
OBVIOUS

LEMMA NextCharges == IInv /\ Charged /\ [Next]_vars => Charged'
<1> SUFFICES ASSUME IInv, Charged, [Next]_vars PROVE Charged'
  OBVIOUS
<1> USE DEF Charged
<1>0. /\ spent \in Nat /\ invoice \in Nat /\ losses \in Nat /\ Ceiling \in Nat
      /\ Ceiling * losses \in Nat /\ Ceiling * (losses + 1) = Ceiling * losses + Ceiling
  <2>1. spent \in Nat /\ invoice \in Nat /\ losses \in Nat /\ Ceiling \in Nat
    BY AmountAssumption DEF IInv, TypeOK
  <2>2. QED
    BY <2>1, SMT
<1>1. CASE Send
  <2>1. Billed' = Billed
    <3>1. call = NoCall /\ spent' = spent /\ call' # NoCall /\ call'.billed = 0
      <4>1. IInv' /\ call = NoCall /\ spent' = spent
        BY <1>1, NextReserves DEF Send
      <4>2. PICK asked \in Steps, escalation \in 0..1, prompt \in Prompts :
              /\ Routable(asked, escalation)
              /\ call' = [tier |-> TierFor(asked, escalation), prompt |-> prompt,
                          answered |-> FALSE, billed |-> 0]
        BY <1>1 DEF Send
      <4>3. call' \in CallType
        BY <4>2, TierIsTier DEF CallType
      <4>4. QED
        BY <4>1, <4>2, <4>3, NoCallAssumption
    <3>2. QED
      BY <3>1, <1>0 DEF Billed
  <2>2. QED
    BY <1>1, <2>1 DEF Send
<1>2. CASE Answer
  <2>1. PICK u \in Usages(call.prompt) :
          /\ call' = [call EXCEPT !.answered = TRUE, !.billed = Cost(call.tier, u)]
          /\ invoice' = invoice + Cost(call.tier, u)
    BY <1>2 DEF Answer
  <2>2. /\ call # NoCall /\ call \in CallType /\ call.tier \in Tiers
        /\ call.prompt \in Nat /\ call.billed \in Nat
    BY <1>2, InFlight DEF Answer, IInv
  <2>3. Cost(call.tier, u) \in Nat
    BY <2>2, WorstCaseCovers
  <2>4. call' \in CallType /\ call'.billed = Cost(call.tier, u)
    BY <2>1, <2>2, <2>3 DEF CallType
  <2>5. call.billed = 0
    BY <1>2, <2>2 DEF IInv, Reserved, Answer
  <2>6. Billed' = Billed + Cost(call.tier, u)
    BY <1>0, <1>2, <2>2, <2>3, <2>4, <2>5, NoCallAssumption DEF Billed, Answer
  <2>7. Billed \in Nat
    BY BilledIsNat
  <2>8. QED
    BY <1>0, <1>2, <2>1, <2>3, <2>6, <2>7 DEF Answer
<1>3. CASE Record
  <2>1. Billed' = Billed
    BY <1>0, <1>3, InFlight DEF Record, Billed, IInv
  <2>2. QED
    BY <1>3, <2>1 DEF Record
<1>4. ASSUME losses' = losses + 1, invoice' = invoice, spent' \in Nat, call' = NoCall
      PROVE  Charged'
  <2>1. Billed <= Ceiling /\ Billed \in Nat
    BY ReservedMeansCeiling, BilledIsNat DEF CeilingHolds, Billed
  <2>2. Billed' = spent' + 0
    BY <1>4, Zenon DEF Billed
  <2>3. spent' + 0 = spent' /\ spent' \in Nat
    <3>1. spent' \in Nat
      BY <1>4, Zenon
    <3>2. QED
      BY <3>1, AddingZero, Zenon
  <2>4. invoice <= Ceiling * losses + Ceiling
    BY <1>0, <2>1
  <2>5. Ceiling * losses' = Ceiling * losses + Ceiling
    BY <1>0, <1>4
  <2>6. Ceiling * losses + Ceiling <= Ceiling * losses' + spent'
    <3>1. Ceiling * losses + Ceiling \in Nat /\ spent' \in Nat
      BY <1>0, <2>3
    <3>2. QED
      BY <2>5, <3>1
  <2>7. invoice' <= Ceiling * losses' + spent'
    <3>1. /\ invoice \in Nat /\ Ceiling * losses + Ceiling \in Nat
          /\ Ceiling * losses' + spent' \in Nat
      BY <1>0, <2>3, <2>5
    <3>2. invoice' = invoice
      BY <1>4
    <3>3. QED
      BY <2>4, <2>6, <3>1, <3>2
  <2>8. QED
    BY <2>2, <2>3, <2>7
<1>5. CASE Raise
  BY <1>0, <1>4, <1>5 DEF Raise
<1>6. CASE Restart
  BY <1>4, <1>6 DEF Restart
<1>7. CASE UNCHANGED vars
  BY <1>7 DEF vars, Billed
<1>8. QED
  BY <1>1, <1>2, <1>3, <1>5, <1>6, <1>7 DEF Next

LEMMA ChargedMeansBounded == IInv /\ Charged => InvoiceBounded
<1> SUFFICES ASSUME IInv, Charged PROVE InvoiceBounded
  OBVIOUS
<1>1. /\ losses \in Nat /\ Ceiling \in Nat /\ invoice \in Nat
      /\ Billed \in Nat /\ Billed <= Ceiling
  BY AmountAssumption, BilledIsNat, ReservedMeansCeiling
     DEF IInv, TypeOK, CeilingHolds, Billed
<1>2. Ceiling * (losses + 1) = Ceiling * losses + Ceiling /\ Ceiling * losses \in Nat
  BY <1>1, SMT
<1>3. QED
  BY <1>1, <1>2 DEF Charged, InvoiceBounded

\* A run is never charged more than one ceiling for itself and one for every bill
\* that was lost on the way.
THEOREM InvoiceSafety == Spec => []InvoiceBounded
<1>1. Init => Charged
  BY AmountAssumption DEF Init, Charged, Billed
<1>2. QED
  BY <1>1, InitReserves, NextReserves, NextCharges, ChargedMeansBounded, PTL DEF Spec
-----------------------------------------------------------------------------
(* Caps and cascades *)

\* However steps are capped, retried, escalated and counted, what that does to the bill is
\* what Metering allows: no call of a cascade goes round Budget.authorize or is not recorded.
THEOREM SpendingIsMetered == SpendingSpec => Spec
<1>1. SpendingInit => Init
  BY DEF SpendingInit
<1>2. [SpendingNext]_all => [Next]_vars
  <2> SUFFICES ASSUME [SpendingNext]_all PROVE [Next]_vars
    OBVIOUS
  <2>1. CASE UNCHANGED all
    BY <2>1 DEF all, vars
  <2>2. Tighten \/ Begin \/ Refused \/ Check \/ RecordStep => UNCHANGED vars
    BY DEF Tighten, Begin, Refused, Check, RecordStep, vars
  <2>3. Ask \/ Answered \/ Recorded \/ Raised \/ Resumed => Next
    BY DEF Ask, Answered, Recorded, Raised, Resumed, Next
  <2> QED
    BY <2>1, <2>2, <2>3 DEF SpendingNext
<1> QED
  BY <1>1, <1>2, PTL DEF SpendingSpec, Spec

\* The ceiling of a process and the invoice of a run are bounded for steps that are capped
\* and cascades that retry and escalate (Budget.authorize under cost/cascade.py).
THEOREM SpendingSafety == SpendingSpec => [](CeilingHolds /\ InvoiceBounded)
BY SpendingIsMetered, CeilingSafety, InvoiceSafety, PTL

-----------------------------------------------------------------------------
(* A stop is earned *)

StepType == [at : {"asking", "checking", "complete"}, phase : Phases, finding : Findings,
             mechanical : BOOLEAN, attempts : Nat]

DoneType == [phase : Phases, finding : Findings, conclusion : Conclusions \cup {None}]

BooksOK ==
  /\ caps \in [Phases -> Nat] /\ \A phase \in Phases : caps[phase] <= Caps[phase]
  /\ used \in [Keys -> Nat] /\ seen \in [Keys -> Seq(Conclusions)]
  /\ step \in {NoStep} \cup StepType /\ done \in Seq(DoneType)

\* Where the history has the steps of a counter.
Of(key) == {i \in DOMAIN done : Key(done[i].phase, done[i].finding) = key}

\* A counter counts its steps, and no more than its cap.
Counted == \A key \in Keys : used[key] = Cardinality(Of(key)) /\ used[key] <= Caps[key[1]]

\* A step that was let ask has room in its counter until it is recorded.
Within ==
  /\ call # NoCall => step.at = "asking"
  /\ step.at \in {"checking", "complete"} \/ call # NoCall => CapLeft

\* e lists the last m of the positions, in order.
Lists(e, positions, m) ==
  /\ e \in [1..m -> positions]
  /\ \A i, j \in 1..m : i < j => e[i] < e[j]
  /\ \A p \in positions : (\E j \in 1..m : e[j] = p) \/ \A j \in 1..m : p < e[j]

\* The conclusions a counter has seen are those of its last steps, none left out between.
Echoed ==
  \A key \in Keys : \E e :
    /\ Lists(e, Of(key), Len(seen[key]))
    /\ \A j \in 1..Len(seen[key]) : done[e[j]].conclusion = seen[key][j]

SpendingInv == BooksOK /\ Counted /\ Within /\ Echoed /\ StopsAreEarned

LEMMA ListsOnward ==
  ASSUME NEW n \in Nat, NEW P \in SUBSET (1..n), NEW m \in Nat, NEW e, Lists(e, P, m)
  PROVE  LET more == [j \in 1..m + 1 |-> IF j = m + 1 THEN n + 1 ELSE e[j]] IN
         Lists(more, P \cup {n + 1}, m + 1)
<1> DEFINE more == [j \in 1..m + 1 |-> IF j = m + 1 THEN n + 1 ELSE e[j]]
<1>1. ASSUME NEW j \in 1..m PROVE e[j] \in P /\ e[j] \in Nat /\ e[j] < n + 1
  <2>1. e[j] \in P
    BY DEF Lists
  <2>2. e[j] \in 1..n
    BY <2>1
  <2>. QED
    BY <2>1, <2>2
<1>2. more[m + 1] = n + 1 /\ \A j \in 1..m : more[j] = e[j]
  OBVIOUS
<1>3. more \in [1..m + 1 -> P \cup {n + 1}]
  <2>1. ASSUME NEW j \in 1..m + 1, j # m + 1 PROVE j \in 1..m
    BY <2>1
  <2>2. \A j \in 1..m + 1 : (IF j = m + 1 THEN n + 1 ELSE e[j]) \in P \cup {n + 1}
    BY <1>1, <2>1
  <2>. QED
    BY <2>2
<1> HIDE DEF more
<1>4. ASSUME NEW i \in 1..m + 1, NEW j \in 1..m + 1, i < j PROVE more[i] < more[j]
  <2>1. i \in 1..m
    BY <1>4
  <2>2. CASE j = m + 1
    BY <1>1, <1>2, <2>1, <2>2
  <2>3. CASE j \in 1..m
    BY <1>2, <1>4, <2>1, <2>3 DEF Lists
  <2>. QED
    BY <2>2, <2>3
<1>5. ASSUME NEW p \in P \cup {n + 1}
      PROVE  (\E j \in 1..m + 1 : more[j] = p) \/ \A j \in 1..m + 1 : p < more[j]
  <2>1. CASE p = n + 1
    BY <1>2, <2>1
  <2>2. CASE p \in P /\ \E j \in 1..m : e[j] = p
    BY <1>2, <2>2
  <2>3. CASE p \in P /\ \A j \in 1..m : p < e[j]
    <3>1. p < n + 1
      BY <2>3
    <3>2. ASSUME NEW j \in 1..m + 1 PROVE p < more[j]
      <4>1. j = m + 1 \/ j \in 1..m
        OBVIOUS
      <4>. QED
        BY <1>2, <2>3, <3>1, <4>1
    <3>. QED
      BY <3>2
  <2>. QED
    BY <2>1, <2>2, <2>3 DEF Lists
<1>. QED
  BY <1>3, <1>4, <1>5 DEF Lists, more

\* The last k of them.
LEMMA ListsEnd ==
  ASSUME NEW P \in SUBSET Nat, NEW m \in Nat, NEW e, Lists(e, P, m), NEW k \in Nat, k <= m
  PROVE  \E last \in SUBSET P :
           /\ Cardinality(last) = k
           /\ \A i \in last, p \in P \ last : p < i
           /\ \A i \in last : \E j \in m - k + 1..m : i = e[j]
<1> DEFINE last == {e[j] : j \in m - k + 1..m}
           g    == [j \in m - k + 1..m |-> e[j]]
<1>1. ASSUME NEW j \in m - k + 1..m PROVE j \in 1..m /\ e[j] \in P /\ e[j] \in Nat
  <2>1. j \in 1..m
    OBVIOUS
  <2>2. e[j] \in P
    BY <2>1 DEF Lists
  <2>. QED
    BY <2>1, <2>2
<1>2. last \in SUBSET P
  BY <1>1
<1>3. \A i, j \in m - k + 1..m : e[i] = e[j] => i = j
  <2>1. \A i, j \in m - k + 1..m : i < j => e[i] < e[j]
    BY <1>1 DEF Lists
  <2>. QED
    BY <1>1, <2>1
<1>4. g \in Bijection(m - k + 1..m, last)
  <2>1. g \in Surjection(m - k + 1..m, last)
    BY DEF Surjection
  <2>2. g \in Injection(m - k + 1..m, last)
    BY <1>3 DEF Injection, IsInjective
  <2>. QED
    BY <2>1, <2>2 DEF Bijection
<1>5. IsFiniteSet(m - k + 1..m) /\ Cardinality(m - k + 1..m) = k
  <2> DEFINE a == m - k + 1
  <2>1. a \in Int /\ m \in Int
    OBVIOUS
  <2>2. k = IF a > m THEN 0 ELSE m - a + 1
    OBVIOUS
  <2> HIDE DEF a
  <2>3. IsFiniteSet(a..m) /\ Cardinality(a..m) = IF a > m THEN 0 ELSE m - a + 1
    BY <2>1, FS_Interval
  <2>. QED
    BY <2>2, <2>3 DEF a
<1>6. Cardinality(last) = k
  BY <1>4, <1>5, FS_Bijection DEF ExistsBijection
<1>7. ASSUME NEW i \in last, NEW p \in P \ last PROVE p < i
  <2>1. PICK j \in m - k + 1..m : i = e[j]
    OBVIOUS
  <2>2. CASE \E h \in 1..m : e[h] = p
    <3>1. PICK h \in 1..m : e[h] = p
      BY <2>2
    <3>2. h \notin m - k + 1..m
      BY <1>7, <3>1
    <3>3. h < j /\ j \in 1..m
      BY <3>2
    <3>. QED
      BY <2>1, <3>1, <3>3 DEF Lists
  <2>3. CASE \A h \in 1..m : p < e[h]
    BY <1>1, <2>1, <2>3
  <2>. QED
    BY <2>2, <2>3 DEF Lists
<1>. QED
  BY <1>2, <1>6, <1>7

\* A counter is told apart by the phase and, but for grounding, the finding.
LEMMA KeyTells ==
  ASSUME NEW p \in Phases, NEW f, NEW q \in Phases, NEW g
  PROVE  /\ Key(p, f) = Key(q, g) <=> p = q /\ (q = "ground" \/ f = g)
         /\ Key(p, f)[1] = p
<1>1. CASE p = "ground" /\ q = "ground"
  BY <1>1 DEF Key
<1>2. CASE p = "ground" /\ q = "repair"
  BY <1>2 DEF Key
<1>3. CASE p = "repair" /\ q = "ground"
  BY <1>3 DEF Key
<1>4. CASE p = "repair" /\ q = "repair"
  BY <1>4 DEF Key
<1>. QED
  BY <1>1, <1>2, <1>3, <1>4 DEF Phases

LEMMA KeyIsKey ==
  ASSUME NEW p \in Phases, NEW f \in Findings
  PROVE  Key(p, f) \in Keys
  BY DEF Key, Keys

LEMMA CompletedIs ==
  ASSUME BooksOK, NEW p \in Phases, NEW f
  PROVE  Completed(p, f) = Of(Key(p, f))
<1>1. \A i \in DOMAIN done : done[i].phase \in Phases
  <2>1. ASSUME NEW i \in DOMAIN done PROVE done[i] \in DoneType
    BY LenProperties, ElementOfSeq DEF BooksOK
  <2>. QED
    BY <2>1 DEF DoneType
<1>2. \A i \in DOMAIN done :
        Key(done[i].phase, done[i].finding) = Key(p, f)
          <=> done[i].phase = p /\ (p = "ground" \/ done[i].finding = f)
  BY <1>1, KeyTells
<1>3. \A i : i \in Completed(p, f) <=> i \in Of(Key(p, f))
  BY <1>2 DEF Completed, Of
<1>. QED
  BY <1>3

LEMMA OfIsFinite ==
  ASSUME BooksOK, NEW key
  PROVE  /\ Len(done) \in Nat /\ DOMAIN done = 1..Len(done)
         /\ Of(key) \in SUBSET (1..Len(done)) /\ IsFiniteSet(Of(key)) /\ Cardinality(Of(key)) \in Nat
<1>1. Len(done) \in Nat /\ DOMAIN done = 1..Len(done)
  BY LenProperties DEF BooksOK
<1>2. IsFiniteSet(1..Len(done))
  BY <1>1, FS_Interval
<1>3. Of(key) \in SUBSET (1..Len(done))
  BY <1>1 DEF Of
<1>4. IsFiniteSet(Of(key))
  BY <1>2, <1>3, FS_Subset
<1>. QED
  BY <1>1, <1>3, <1>4, FS_CardinalityType

\* A stop stands as long as it and the history do.
LEMMA StopStands ==
  ASSUME StopsAreEarned, UNCHANGED <<stop, done>>
  PROVE  StopsAreEarned'
  BY DEF StopsAreEarned, Completed

\* Without a stop there is only the cap to hold.
CapsHold ==
  \A phase \in Phases, finding \in Findings : Cardinality(Completed(phase, finding)) <= Caps[phase]

LEMMA CountedMeansCaps == BooksOK /\ Counted => CapsHold
<1> SUFFICES ASSUME BooksOK, Counted, NEW phase \in Phases, NEW finding \in Findings
             PROVE  Cardinality(Completed(phase, finding)) <= Caps[phase]
  BY DEF CapsHold
<1>1. Key(phase, finding) \in Keys /\ Key(phase, finding)[1] = phase
  BY KeyIsKey, KeyTells
<1>2. Completed(phase, finding) = Of(Key(phase, finding))
  BY CompletedIs
<1>. QED
  BY <1>1, <1>2 DEF Counted

LEMMA NoStopIsEarned == CapsHold /\ stop.why \notin {"cap", "stall"} => StopsAreEarned
  BY DEF CapsHold, StopsAreEarned

\* The last steps of a counter that is stalled drew one conclusion.
StallsAreSo ==
  \A key \in Keys : Stalled(seen[key]) =>
    \E last \in SUBSET Of(key), conclusion \in Conclusions :
      /\ Cardinality(last) = StallAfter
      /\ \A i \in last, j \in Of(key) \ last : j < i
      /\ \A i \in last : done[i].conclusion = conclusion

LEMMA EchoedMeansStalls == BooksOK /\ Echoed => StallsAreSo
<1> SUFFICES ASSUME BooksOK, Echoed, NEW key \in Keys, Stalled(seen[key])
             PROVE  \E last \in SUBSET Of(key), conclusion \in Conclusions :
                      /\ Cardinality(last) = StallAfter
                      /\ \A i \in last, j \in Of(key) \ last : j < i
                      /\ \A i \in last : done[i].conclusion = conclusion
  BY DEF StallsAreSo
<1> DEFINE m == Len(seen[key])
<1>1. seen[key] \in Seq(Conclusions) /\ m \in Nat
  BY LenProperties DEF BooksOK
<1>2. PICK e : /\ Lists(e, Of(key), m)
               /\ \A j \in 1..m : done[e[j]].conclusion = seen[key][j]
  BY DEF Echoed
<1>3. /\ StallAfter \in Nat /\ StallAfter >= 2 /\ StallAfter <= m
      /\ \A i \in m - StallAfter + 1..m : seen[key][i] = seen[key][m]
  BY <1>1, StallAssumption DEF Stalled
<1>4. m \in 1..m /\ seen[key][m] \in Conclusions
  <2>1. m \in 1..m
    BY <1>1, <1>3
  <2>. QED
    BY <1>1, <2>1, ElementOfSeq
<1>5. Of(key) \in SUBSET Nat
  BY OfIsFinite
<1> HIDE DEF m
<1>6. PICK last \in SUBSET Of(key) :
        /\ Cardinality(last) = StallAfter
        /\ \A i \in last, p \in Of(key) \ last : p < i
        /\ \A i \in last : \E j \in m - StallAfter + 1..m : i = e[j]
  <2> DEFINE P == Of(key)
             k == StallAfter
  <2>1. P \in SUBSET Nat /\ Lists(e, P, m) /\ m \in Nat /\ k \in Nat /\ k <= m
    BY <1>1, <1>2, <1>3, <1>5
  <2> HIDE DEF P, k
  <2>2. \E last \in SUBSET P :
          /\ Cardinality(last) = k
          /\ \A i \in last, p \in P \ last : p < i
          /\ \A i \in last : \E j \in m - k + 1..m : i = e[j]
    BY ONLY <2>1, ListsEnd
  <2>. QED
    BY <2>2 DEF P, k
<1>7. ASSUME NEW i \in last PROVE done[i].conclusion = seen[key][m]
  <2>1. PICK j \in m - StallAfter + 1..m : i = e[j]
    BY <1>6
  <2>2. j \in 1..m
    BY <1>1, <1>3 DEF m
  <2>. QED
    BY <1>2, <1>3, <2>1, <2>2
<1>. QED
  BY <1>4, <1>6, <1>7

CompletedAre == \A p \in Phases, f \in Findings : Completed(p, f) = Of(Key(p, f))

LEMMA CompletedAlways == BooksOK => CompletedAre
  BY CompletedIs DEF CompletedAre

\* What a step leaves of the books when it is not one that counts.
LEMMA BooksStand ==
  ASSUME Counted, Echoed, UNCHANGED <<used, seen, done>>
  PROVE  Counted' /\ Echoed'
  BY DEF Counted, Echoed, Of, Lists

LEMMA StepIs ==
  ASSUME BooksOK, step.at \in {"asking", "checking", "complete"}
  PROVE  /\ step \in StepType /\ step.phase \in Phases /\ step.finding \in Findings
         /\ Counter \in Keys /\ Counter[1] = step.phase
<1>1. step \in StepType
  BY DEF BooksOK, NoStep
<1>2. step.phase \in Phases /\ step.finding \in Findings
  BY <1>1 DEF StepType
<1>. QED
  BY <1>1, <1>2, KeyIsKey, KeyTells DEF Counter

\* The books of a process that begins.
Opened ==
  /\ caps = Caps /\ used = Unused /\ seen = Unseen /\ step = NoStep /\ stop = NoStop
  /\ done = <<>> /\ call = NoCall

LEMMA SpendingBegins == Opened => SpendingInv
<1> SUFFICES ASSUME Opened PROVE SpendingInv
  OBVIOUS
<1>1. /\ caps = Caps /\ used = Unused /\ seen = Unseen /\ step = NoStep /\ stop = NoStop
      /\ done = <<>> /\ call = NoCall
  BY DEF Opened
<1>2. \A S : <<>> \in Seq(S) /\ Len(<<>>) = 0
  BY EmptySeq
<1>3. Caps \in [Phases -> Nat] /\ \A phase \in Phases : Caps[phase] \in Nat
  BY CapsAssumption
<1>4. BooksOK
  BY <1>1, <1>2, <1>3 DEF BooksOK, Unused, Unseen
<1>5. \A key \in Keys : key[1] \in Phases
  BY DEF Keys
<1>6. \A key \in Keys : Of(key) = {}
  <2>1. DOMAIN done = {}
    BY <1>1, <1>2, LenProperties
  <2>. QED
    BY <2>1 DEF Of
<1>7. Counted
  <2>1. Cardinality({}) = 0
    BY FS_EmptySet
  <2>2. ASSUME NEW key \in Keys PROVE used[key] = Cardinality(Of(key)) /\ used[key] <= Caps[key[1]]
    <3>1. used[key] = 0 /\ Of(key) = {} /\ Caps[key[1]] \in Nat
      BY <1>1, <1>3, <1>5, <1>6 DEF Unused
    <3>. QED
      BY <2>1, <3>1
  <2>. QED
    BY <2>2 DEF Counted
<1>8. Within
  BY <1>1 DEF Within, NoStep
<1>9. Echoed
  <2>1. ASSUME NEW key \in Keys
        PROVE  /\ Lists(<<>>, Of(key), Len(seen[key]))
               /\ \A j \in 1..Len(seen[key]) : done[<<>>[j]].conclusion = seen[key][j]
    <3>1. Len(seen[key]) = 0
      BY <1>1, <1>2 DEF Unseen
    <3>2. <<>> \in [1..0 -> Of(key)]
      OBVIOUS
    <3>. QED
      BY <1>6, <3>1, <3>2 DEF Lists
  <2>. QED
    BY <2>1 DEF Echoed
<1>10. StopsAreEarned
  <2>1. stop.why = "none"
    BY <1>1 DEF NoStop
  <2>. QED
    BY <1>4, <1>7, <2>1, CountedMeansCaps, NoStopIsEarned
<1>. QED
  BY <1>4, <1>7, <1>8, <1>9, <1>10 DEF SpendingInv

\* A step that is recorded had room, is counted once, and echoes what it concluded.
LEMMA RecordStepKeeps ==
  ASSUME SpendingInv, RecordStep
  PROVE  SpendingInv'
<1> DEFINE n == Len(done)
<1>. PICK c : c = Counter
  OBVIOUS
<1>1. /\ BooksOK /\ Counted /\ Within /\ Echoed /\ step.at = "complete" /\ call = NoCall
      /\ used[c] < caps[step.phase] /\ step' = NoStep /\ UNCHANGED <<call, caps>>
  BY DEF SpendingInv, RecordStep, Within, CapLeft
<1>2. /\ step.phase \in Phases /\ step.finding \in Findings /\ c \in Keys /\ c[1] = step.phase
      /\ c = Key(step.phase, step.finding)
  BY <1>1, StepIs DEF Counter
<1>. PICK p \in Phases, f \in Findings : p = step.phase /\ f = step.finding
  BY <1>2
<1>3. PICK conclusion \in Conclusions \cup {None} :
        LET after == SeenAfter(seen[c], conclusion) IN
        /\ used' = [used EXCEPT ![c] = @ + 1]
        /\ seen' = [seen EXCEPT ![c] = after]
        /\ stop' = IF Stalled(after)
                   THEN [why |-> "stall", phase |-> step.phase, finding |-> step.finding]
                   ELSE NoStop
        /\ done' = Append(done, [phase |-> step.phase, finding |-> step.finding,
                                 conclusion |-> conclusion])
  BY DEF RecordStep
<1> DEFINE after == SeenAfter(seen[c], conclusion)
           entry == [phase |-> step.phase, finding |-> step.finding, conclusion |-> conclusion]
<1>4. /\ entry \in DoneType /\ entry.phase = step.phase /\ entry.finding = step.finding
      /\ entry.conclusion = conclusion
  BY <1>2 DEF DoneType
<1>5. /\ used \in [Keys -> Nat] /\ seen \in [Keys -> Seq(Conclusions)] /\ done \in Seq(DoneType)
      /\ n \in Nat /\ DOMAIN done = 1..n
  BY <1>1, LenProperties DEF BooksOK
<1>6. done' = Append(done, entry)
  BY <1>3
<1> HIDE DEF entry
<1>7. /\ done' \in Seq(DoneType) /\ DOMAIN done' = 1..n + 1
      /\ \A i \in 1..n : done'[i] = done[i]
      /\ done'[n + 1] = entry
  BY <1>4, <1>5, <1>6, AppendProperties, LenProperties
<1>8. /\ seen[c] \in Seq(Conclusions) /\ after \in Seq(Conclusions)
      /\ conclusion = None => after = <<>>
      /\ conclusion # None => /\ Len(after) = Len(seen[c]) + 1 /\ Len(seen[c]) \in Nat
                              /\ \A j \in 1..Len(seen[c]) : after[j] = seen[c][j]
                              /\ after[Len(seen[c]) + 1] = conclusion
  <2>1. seen[c] \in Seq(Conclusions)
    BY <1>2, <1>5
  <2>2. CASE conclusion = None
    BY <2>1, <2>2, EmptySeq DEF SeenAfter
  <2>3. CASE conclusion # None
    <3>1. conclusion \in Conclusions /\ after = Append(seen[c], conclusion)
      BY <1>3, <2>3 DEF SeenAfter
    <3>. QED
      BY <2>1, <2>3, <3>1, AppendProperties, LenProperties
  <2>. QED
    BY <2>1, <2>2, <2>3
<1>9. /\ used' = [used EXCEPT ![c] = @ + 1] /\ seen' = [seen EXCEPT ![c] = after]
      /\ stop' = IF Stalled(after)
                 THEN [why |-> "stall", phase |-> step.phase, finding |-> step.finding]
                 ELSE NoStop
  BY <1>3
<1> HIDE DEF after
<1>10. ASSUME NEW key PROVE Of(key)' = IF key = c THEN Of(key) \cup {n + 1} ELSE Of(key)
  <2>1. n + 1 \in Of(key)' <=> key = c
    BY <1>2, <1>4, <1>5, <1>7 DEF Of
  <2>2. \A i \in 1..n : i \in Of(key)' <=> i \in Of(key)
    BY <1>5, <1>7 DEF Of
  <2>3. \A i : i \in Of(key)' \/ i \in Of(key) => i \in 1..n \/ i = n + 1
    BY <1>5, <1>7 DEF Of
  <2>4. n + 1 \notin Of(key)
    BY <1>5 DEF Of
  <2>5. CASE key = c
    <3>1. \A i : i \in Of(key)' <=> i \in Of(key) \/ i = n + 1
      BY <2>1, <2>2, <2>3, <2>5
    <3>. QED
      BY <2>5, <3>1
  <2>6. CASE key # c
    <3>1. \A i : i \in Of(key)' <=> i \in Of(key)
      BY <2>1, <2>2, <2>3, <2>4, <2>6
    <3>. QED
      BY <2>6, <3>1
  <2>. QED
    BY <2>5, <2>6
<1>11. BooksOK'
  <2>1. used' \in [Keys -> Nat] /\ seen' \in [Keys -> Seq(Conclusions)]
    BY <1>2, <1>5, <1>8, <1>9
  <2>. QED
    BY <1>1, <1>7, <2>1 DEF BooksOK
<1>12. Counted'
  <2>1. used[c] + 1 <= Caps[c[1]]
    BY <1>1, <1>2, <1>5, CapsAssumption DEF BooksOK
  <2>2. Cardinality(Of(c) \cup {n + 1}) = Cardinality(Of(c)) + 1
    <3>1. IsFiniteSet(Of(c))
      BY <1>1, OfIsFinite
    <3>2. n + 1 \notin Of(c)
      BY <1>5 DEF Of
    <3>. QED
      BY <3>1, <3>2, FS_AddElement
  <2>3. ASSUME NEW key \in Keys PROVE (used[key] = Cardinality(Of(key)) /\ used[key] <= Caps[key[1]])'
    <3>1. CASE key = c
      BY <1>1, <1>2, <1>5, <1>9, <1>10, <2>1, <2>2, <3>1 DEF Counted
    <3>2. CASE key # c
      BY <1>1, <1>5, <1>9, <1>10, <3>2 DEF Counted
    <3>. QED
      BY <3>1, <3>2
  <2>. QED
    BY <2>3 DEF Counted
<1>13. Within'
  BY <1>1 DEF Within, NoStep
<1>14. Echoed'
  <2> SUFFICES ASSUME NEW key \in Keys
               PROVE  \E e : /\ Lists(e, Of(key)', Len(seen'[key]))
                             /\ \A j \in 1..Len(seen'[key]) : done'[e[j]].conclusion = seen'[key][j]
    BY DEF Echoed, Lists
  <2>1. PICK e : /\ Lists(e, Of(key), Len(seen[key]))
                 /\ \A j \in 1..Len(seen[key]) : done[e[j]].conclusion = seen[key][j]
    BY <1>1 DEF Echoed
  <2>2. Of(key) \in SUBSET (1..n)
    BY <1>1, OfIsFinite
  <2>3. ASSUME NEW j \in 1..Len(seen[key]) PROVE e[j] \in 1..n /\ done'[e[j]] = done[e[j]]
    <3>1. e[j] \in Of(key)
      BY <2>1 DEF Lists
    <3>. QED
      BY <1>7, <2>2, <3>1
  <2>4. CASE key # c
    <3>1. seen'[key] = seen[key] /\ Of(key)' = Of(key)
      BY <1>5, <1>9, <1>10, <2>4
    <3>. QED
      BY <2>1, <2>3, <3>1
  <2>5. CASE key = c /\ conclusion = None
    <3>1. Len(seen'[key]) = 0
      BY <1>5, <1>8, <1>9, <2>5, EmptySeq
    <3>2. Lists(<<>>, Of(key)', 0)
      <4>1. <<>> \in [1..0 -> Of(key)']
        OBVIOUS
      <4>. QED
        BY <4>1 DEF Lists
    <3>. QED
      BY <3>1, <3>2
  <2>6. CASE key = c /\ conclusion # None
    <3> DEFINE m == Len(seen[key])
               more == [j \in 1..m + 1 |-> IF j = m + 1 THEN n + 1 ELSE e[j]]
    <3>1. m \in Nat /\ seen'[key] = after /\ Len(seen'[key]) = m + 1
      BY <1>5, <1>8, <1>9, <2>6
    <3>2. Of(key)' = Of(key) \cup {n + 1}
      BY <1>10, <2>6
    <3> HIDE DEF m
    <3>3. Lists(more, Of(key) \cup {n + 1}, m + 1)
      BY <1>5, <2>1, <2>2, <3>1, ListsOnward DEF m
    <3>4. ASSUME NEW j \in 1..m + 1 PROVE done'[more[j]].conclusion = seen'[key][j]
      <4>1. CASE j = m + 1
        BY <1>4, <1>7, <1>8, <2>6, <3>1, <4>1 DEF m
      <4>2. CASE j # m + 1
        <5>1. j \in 1..m /\ more[j] = e[j]
          BY <3>1, <4>2
        <5>. QED
          BY <1>8, <2>1, <2>3, <2>6, <3>1, <5>1 DEF m
      <4>. QED
        BY <4>1, <4>2
    <3>. QED
      BY <3>1, <3>2, <3>3, <3>4
  <2>. QED
    BY <2>4, <2>5, <2>6
<1>15. StopsAreEarned'
  <2>1. CapsHold' /\ StallsAreSo' /\ CompletedAre'
    BY <1>11, <1>12, <1>14, CountedMeansCaps, EchoedMeansStalls, CompletedAlways, PTL
  <2>2. CASE Stalled(after)
    <3>1. stop' = [why |-> "stall", phase |-> step.phase, finding |-> step.finding]
      BY <1>9, <2>2
    <3>2. stop'.why = "stall" /\ stop'.phase = step.phase /\ stop'.finding = step.finding
      BY <3>1
    <3>3. Completed(stop.phase, stop.finding)' = Of(c)'
      <4>1. c = Key(p, f) /\ stop'.phase = p /\ stop'.finding = f
        BY <1>2, <3>2
      <4>2. Completed(p, f)' = Of(Key(p, f))'
        BY <2>1 DEF CompletedAre
      <4>. QED
        BY <4>1, <4>2 DEF Completed, Of
    <3>4. seen'[c] = after
      BY <1>2, <1>5, <1>9
    <3>5. \E last \in SUBSET Of(c)', x \in Conclusions :
            /\ Cardinality(last) = StallAfter
            /\ \A i \in last, j \in Of(c)' \ last : j < i
            /\ \A i \in last : done'[i].conclusion = x
      BY <1>2, <2>1, <2>2, <3>4 DEF StallsAreSo
    <3>. QED
      BY <2>1, <3>2, <3>3, <3>5 DEF StopsAreEarned, CapsHold
  <2>3. CASE ~Stalled(after)
    <3>1. stop'.why = "none"
      BY <1>9, <2>3 DEF NoStop
    <3>2. (CapsHold /\ stop.why \notin {"cap", "stall"} => StopsAreEarned)'
      BY NoStopIsEarned, PTL
    <3>. QED
      BY <2>1, <3>1, <3>2
  <2>. QED
    BY <2>2, <2>3
<1>. QED
  BY <1>11, <1>12, <1>13, <1>14, <1>15 DEF SpendingInv

\* A step held to its cap is refused only when its counter is at the cap.
LEMMA RefusedKeeps ==
  ASSUME SpendingInv, Refused
  PROVE  SpendingInv'
<1>1. /\ BooksOK /\ Counted /\ Within /\ Echoed /\ StopsAreEarned
      /\ step.at = "asking" /\ call = NoCall /\ step' = NoStep
      /\ UNCHANGED <<call, caps, used, seen, done>>
  BY DEF SpendingInv, Refused, Asking
<1>2. BooksOK' /\ Within'
  BY <1>1 DEF BooksOK, Within, NoStep
<1>3. Counted' /\ Echoed'
  BY <1>1, BooksStand
<1>. PICK c \in Keys, p \in Phases, f \in Findings :
       c = Counter /\ p = step.phase /\ f = step.finding /\ c = Key(p, f)
  BY <1>1, StepIs DEF Counter
<1>4. CapsHold' /\ CompletedAre'
  BY <1>2, <1>3, CountedMeansCaps, CompletedAlways, PTL
<1>5. StopsAreEarned'
  <2>1. CASE ~CapLeft /\ stop' = [why |-> "cap", phase |-> step.phase, finding |-> step.finding,
                                  limit |-> caps[step.phase]]
    <3>1. stop'.why = "cap" /\ stop'.phase = p /\ stop'.finding = f /\ stop'.limit = caps[p]
      BY <2>1
    <3>2. Completed(p, f)' = Of(Key(p, f))'
      BY <1>4 DEF CompletedAre
    <3>3. Of(Key(p, f))' = Of(c)
      BY <1>1 DEF Of
    <3>4. used[c] = Cardinality(Of(c))
      BY <1>1 DEF Counted
    <3>5. used[c] >= caps[p]
      BY <1>1, <2>1 DEF CapLeft, BooksOK
    <3>6. Cardinality(Completed(p, f)') >= caps[p]
      BY <3>2, <3>3, <3>4, <3>5
    <3>7. Completed(stop.phase, stop.finding)' = Completed(p, f)'
      BY <3>1 DEF Completed
    <3>. QED
      BY <1>4, <3>1, <3>6, <3>7 DEF StopsAreEarned, CapsHold
  <2>2. CASE stop' = [why |-> "ceiling"]
    <3>1. stop'.why = "ceiling"
      BY <2>2
    <3>2. (CapsHold /\ stop.why \notin {"cap", "stall"} => StopsAreEarned)'
      BY NoStopIsEarned, PTL
    <3>. QED
      BY <1>4, <3>1, <3>2
  <2>. QED
    BY <2>1, <2>2 DEF Refused
<1>. QED
  BY <1>2, <1>3, <1>5 DEF SpendingInv

\* Steps that complete nothing leave the history and the counters alone.
LEMMA SpendingStep ==
  ASSUME SpendingInv, [SpendingNext]_all
  PROVE  SpendingInv'
<1>1. BooksOK /\ Counted /\ Within /\ Echoed /\ StopsAreEarned
  BY DEF SpendingInv
<1>2. CASE Tighten
  <2>1. /\ step = NoStep /\ call = NoCall
        /\ UNCHANGED <<call, used, seen, step, stop, done>>
    BY <1>1, <1>2 DEF Tighten, Within, NoStep
  <2>2. BooksOK'
    <3>. PICK phase \in Phases : \E limit \in 1..Caps[phase] : caps' = [caps EXCEPT ![phase] = limit]
      BY <1>2 DEF Tighten
    <3>1. PICK limit \in 1..Caps[phase] : caps' = [caps EXCEPT ![phase] = limit]
      OBVIOUS
    <3>2. Caps[phase] \in Nat
      BY CapsAssumption
    <3>3. caps \in [Phases -> Nat] /\ \A q \in Phases : caps[q] <= Caps[q]
      BY <1>1 DEF BooksOK
    <3>4. caps' \in [Phases -> Nat] /\ \A q \in Phases : caps'[q] <= Caps[q]
      BY <3>1, <3>2, <3>3
    <3>. QED
      BY <1>1, <2>1, <3>4 DEF BooksOK
  <2>3. Within'
    BY <2>1 DEF Within, NoStep
  <2>. QED
    BY <1>1, <2>1, <2>2, <2>3, BooksStand, StopStands DEF SpendingInv
<1>3. CASE Begin
  <2>1. /\ step = NoStep /\ call = NoCall /\ stop' = NoStop
        /\ UNCHANGED <<call, caps, used, seen, done>>
    BY <1>1, <1>3 DEF Begin, Within, NoStep
  <2>2. step' \in StepType /\ step'.at = "asking"
    BY <1>3 DEF Begin, StepType
  <2>3. BooksOK' /\ Within'
    BY <1>1, <2>1, <2>2 DEF BooksOK, Within
  <2>4. Counted' /\ Echoed'
    BY <1>1, <2>1, BooksStand
  <2>5. CapsHold'
    BY <2>3, <2>4, CountedMeansCaps, PTL
  <2>6. (CapsHold /\ stop.why \notin {"cap", "stall"} => StopsAreEarned)'
    BY NoStopIsEarned, PTL
  <2>7. StopsAreEarned'
    BY <2>1, <2>5, <2>6 DEF NoStop
  <2>. QED
    BY <2>3, <2>4, <2>7 DEF SpendingInv
<1>4. CASE Ask \/ Answered
  <2>1. UNCHANGED budget /\ step.at = "asking" /\ CapLeft
    BY <1>1, <1>4 DEF Ask, Answered, Asking, Answer, Within
  <2>2. BooksOK' /\ Within'
    BY <1>1, <2>1 DEF BooksOK, Within, CapLeft, Counter, budget
  <2>. QED
    BY <1>1, <2>1, <2>2, BooksStand, StopStands DEF SpendingInv, budget
<1>5. CASE Refused
  BY <1>5, RefusedKeeps
<1>6. CASE Recorded
  <2>1. /\ call' = NoCall /\ step.at = "asking" /\ CapLeft
        /\ step' = [step EXCEPT !.at = "checking", !.attempts = @ + 1]
        /\ UNCHANGED <<caps, used, seen, stop, done>>
    BY <1>1, <1>6 DEF Recorded, Record, Within
  <2>2. step \in StepType
    BY <1>1, <2>1, StepIs
  <2>3. /\ step' \in StepType /\ step'.phase = step.phase /\ step'.finding = step.finding
    <3>1. step.attempts \in Nat
      BY <2>2 DEF StepType
    <3>2. step' = [at |-> "checking", phase |-> step.phase, finding |-> step.finding,
                   mechanical |-> step.mechanical, attempts |-> step.attempts + 1]
      BY <2>1, <2>2 DEF StepType
    <3>. QED
      BY <2>2, <3>1, <3>2 DEF StepType
  <2>4. BooksOK' /\ Within'
    BY <1>1, <2>1, <2>3 DEF BooksOK, Within, CapLeft, Counter
  <2>. QED
    BY <1>1, <2>1, <2>4, BooksStand, StopStands DEF SpendingInv
<1>7. CASE Check
  <2>1. /\ step.at = "checking" /\ call = NoCall /\ CapLeft
        /\ UNCHANGED <<call, caps, used, seen, stop, done>>
    BY <1>1, <1>7 DEF Check, Within
  <2>2. step \in StepType
    BY <1>1, <2>1, StepIs
  <2>3. \/ step' = NoStep
        \/ step' \in StepType /\ step'.phase = step.phase /\ step'.finding = step.finding
    <3>1. step' = NoStep \/ \E at \in {"complete", "asking"} : step' = [step EXCEPT !.at = at]
      BY <1>7 DEF Check
    <3>. QED
      BY <2>2, <3>1 DEF StepType
  <2>4. BooksOK'
    BY <1>1, <2>1, <2>3 DEF BooksOK
  <2>5. Within'
    BY <2>1, <2>3 DEF Within, CapLeft, Counter, NoStep
  <2>. QED
    BY <1>1, <2>1, <2>4, <2>5, BooksStand, StopStands DEF SpendingInv
<1>8. CASE RecordStep
  BY <1>8, RecordStepKeeps
<1>9. CASE Raised
  <2>1. call' = NoCall /\ step' = NoStep /\ UNCHANGED <<caps, used, seen, stop, done>>
    BY <1>9 DEF Raised, Raise
  <2>2. BooksOK' /\ Within'
    BY <1>1, <2>1 DEF BooksOK, Within, NoStep
  <2>. QED
    BY <1>1, <2>1, <2>2, BooksStand, StopStands DEF SpendingInv
<1>10. CASE Resumed
  <2>1. Opened'
    BY <1>10 DEF Resumed, Restart, Opened, Unused, Unseen, NoStep, NoStop
  <2>2. (Opened => SpendingInv)'
    BY SpendingBegins, PTL
  <2>. QED
    BY <2>1, <2>2
<1>11. CASE UNCHANGED all
  <2>1. UNCHANGED <<call, caps, used, seen, step, stop, done>>
    BY <1>11 DEF all
  <2>2. BooksOK' /\ Within'
    BY <1>1, <2>1 DEF BooksOK, Within, CapLeft, Counter
  <2>. QED
    BY <1>1, <2>1, <2>2, BooksStand, StopStands DEF SpendingInv
<1>. QED
  BY <1>2, <1>3, <1>4, <1>5, <1>6, <1>7, <1>8, <1>9, <1>10, <1>11 DEF SpendingNext

\* Budget.authorize and Budget.record_step between them: a finding is stopped by its own
\* steps, at its cap or once they repeat themselves, and no order of them passes the cap.
THEOREM StopSafety == SpendingSpec => []StopsAreEarned
<1>1. SpendingInit => SpendingInv
  BY SpendingBegins DEF SpendingInit, Init, Opened
<1>2. SpendingInv /\ [SpendingNext]_all => SpendingInv'
  BY SpendingStep
<1>3. SpendingInv => StopsAreEarned
  BY DEF SpendingInv
<1>. QED
  BY <1>1, <1>2, <1>3, PTL DEF SpendingSpec
=============================================================================
