------------------------- MODULE InstrumentsProofs -------------------------
(* The safety of Instruments, for any program, any drivers and any number of repeats. *)
EXTENDS Instruments, TLAPS

-----------------------------------------------------------------------------
(* The invariant *)

Spying == [last : Endings \cup {"none"}, all : SUBSET Endings]

Tree == [source : Source, scratch : {"none", "directory", "file"}, drivers : [Drivers -> Nat],
         report : Nat \X Nat]

InCall == [tool : {"none", "measure", "ablate", "profile"},
           at : {"idle", "running", "probing", "copying", "stubbing", "unlinking", "spying"},
           symbol : Symbols \cup {None}, naming : Namings \cup {"relative"},
           phase : {"before", "after"}, ran : Nat, of : SUBSET Source, before : SUBSET Source,
           attempt : Nat \ {0}, spied : Spying]

Entry == [tool : {"none", "measure", "ablate", "profile"}, call : Nat, symbol : Symbols \cup {None},
          before : SUBSET Source, after : SUBSET Source, report : Nat \X Nat]

TypeInv ==
  /\ tree \in Tree /\ copy \in Source
  /\ call \in InCall
  /\ ledger \in Seq(Entry)
  /\ calls \in Nat

\* Where a call is says which tool it is of, and which half of it.
Placed ==
  /\ call.at \in {"running", "probing"} => call.tool \in {"measure", "ablate"}
  /\ call.at \in {"copying", "stubbing"} => call.tool = "ablate"
  /\ call.at \in {"unlinking", "spying"} => call.tool = "profile"
  /\ call.at = "idle" => call.tool = "none"
  /\ call.tool = "ablate" => call.symbol \in Symbols
  /\ call.phase = "after" => call.tool = "ablate"
  /\ call.at = "stubbing" => call.phase = "after"
  /\ call.at = "running" /\ call.phase = "before" => call.before = {}

\* Before anything can have been profiled the report is gone, and every attempt but the
\* present one left no profile.
Unreported ==
  call.tool = "profile" =>
    /\ call.at = "spying" => tree.report = NoReport
    /\ call.spied.all \subseteq Unprofiled

\* What a run of the call ran, if it ran: the worktree's program, or the one stubbed copy of it.
Subject == IF call.phase = "after" THEN tree.source \cup {call.symbol} ELSE tree.source

OneSubject ==
  /\ call.at = "running" => /\ call.of \subseteq {Subject}
                            /\ call.ran > 0 => call.of = {Subject}
  /\ call.at = "copying" \/ call.phase = "after" => call.before = {tree.source}
  /\ call.at = "stubbing" => copy = tree.source /\ call.of = {} /\ call.ran = 0
  /\ call.at = "running" /\ call.phase = "after" => copy = Subject
  /\ call.at = "copying" => call.of = {} /\ call.ran = 0

Relative == "absolute" \notin Namings

\* What the host recorded of one call.
Sound(taken) ==
  /\ taken.tool = "profile" /\ taken.report # NoReport => taken.report[1] = taken.call
  /\ Relative =>
       \E source \in Source :
         /\ taken.before = {source}
         /\ taken.tool = "ablate" => taken.after = {source \cup {taken.symbol}}

Blamed ==
  answer.tool = "profile" /\ answer.why \notin {"stopped", "raised"} =>
    /\ answer.why = "WorkloadFailed" <=> answer.spied.last = "failed"
    /\ answer.why = "InstrumentFailed" => answer.spied.all \subseteq Unprofiled

Accounted == Blamed /\ \A i \in DOMAIN ledger : Sound(ledger[i])

IInv == TypeInv /\ Placed /\ Unreported /\ (Relative => OneSubject) /\ Accounted

-----------------------------------------------------------------------------
(* Every step keeps it *)

LEMMA InitHolds == Init => IInv
BY NamingsAssumption DEF Init, IInv, TypeInv, Placed, Unreported, OneSubject, Accounted, Blamed, Tree, InCall,
   Entry, Spying, Endings, NoCall, Unspied, NoReport, Source, Subject

\* A recording adds one entry behind the others.
LEMMA Recorded ==
  ASSUME ledger \in Seq(Entry), NEW taken \in Entry, ledger' = Append(ledger, taken)
  PROVE  /\ ledger' \in Seq(Entry)
         /\ \A i \in DOMAIN ledger' : ledger'[i] = taken \/ (i \in DOMAIN ledger /\ ledger'[i] = ledger[i])
OBVIOUS

\* What the two kinds of recording append.
LEMMA MeasuredEntry ==
  ASSUME TypeInv, NEW before \in SUBSET Source, NEW after \in SUBSET Source, NEW report \in Nat \X Nat
  PROVE  [tool |-> call.tool, call |-> calls, symbol |-> call.symbol,
          before |-> before, after |-> after, report |-> report] \in Entry
BY DEF TypeInv, Entry, InCall

LEMMA TypeStep == TypeInv /\ Placed /\ [Next]_vars => TypeInv'
<1> SUFFICES ASSUME TypeInv, Placed, [Next]_vars PROVE TypeInv'
  OBVIOUS
<1> USE NamingsAssumption DEF TypeInv, Spying, Endings
<1>n. NoCall \in InCall /\ NoReport \in Nat \X Nat /\ {} \in Source
  BY DEF NoCall, InCall, NoReport, Source, Unspied
<1>0. CASE UNCHANGED vars
  BY <1>0 DEF vars
<1>1. CASE Measure
  <2>1. call' \in InCall
    BY <1>1, <1>n DEF Measure, Call, InCall
  <2> QED
    BY <2>1, <1>1 DEF Measure, Call
<1>2. CASE Ablate
  <2>1. PICK symbol \in Symbols, naming \in Namings :
          Call([NoCall EXCEPT !.tool = "ablate", !.at = "running", !.symbol = symbol, !.naming = naming])
    BY <1>2 DEF Ablate
  <2>2. call' \in InCall
    BY <2>1, <1>n DEF Call, InCall
  <2> QED
    BY <2>1, <2>2 DEF Call
<1>3. CASE Profile
  <2>1. call' \in InCall
    BY <1>3, <1>n DEF Profile, Call, InCall
  <2> QED
    BY <2>1, <1>3 DEF Profile, Call
<1>4. CASE WriteFile
  <2>1. [tree EXCEPT !.scratch = "file"] \in Tree
    BY DEF Tree
  <2>2. ASSUME NEW d \in Drivers
        PROVE  [tree EXCEPT !.scratch = "directory", !.drivers[d] = calls + 1] \in Tree
    <3>1. tree.drivers \in [Drivers -> Nat] /\ calls + 1 \in Nat
      BY DEF Tree
    <3>2. [tree.drivers EXCEPT ![d] = calls + 1] \in [Drivers -> Nat]
      BY <3>1
    <3> QED
      BY <3>2 DEF Tree
  <2>3. ASSUME NEW tool, NEW why, NEW tree2 \in Tree, AtOnce(tool, why, tree2) PROVE TypeInv'
    BY <2>3 DEF AtOnce
  <2>4. AtOnce("write_file", "OSError", tree) => TypeInv'
    BY <2>3
  <2>5. AtOnce("write_file", "FileExistsHere", tree) => TypeInv'
    BY <2>3
  <2>6. AtOnce("write_file", "answered", [tree EXCEPT !.scratch = "file"]) => TypeInv'
    BY <2>1, <2>3
  <2>7. ASSUME NEW d \in Drivers
        PROVE  AtOnce("write_file", "answered", [tree EXCEPT !.scratch = "directory", !.drivers[d] = calls + 1])
                 => TypeInv'
    BY <2>2, <2>3
  <2> HIDE DEF TypeInv
  <2> QED
    BY <1>4, <2>4, <2>5, <2>6, <2>7 DEF WriteFile
<1>5. CASE Bash
  <2>1. PICK tree2 \in Tree : AtOnce("bash", "answered", tree2)
    <3>1. PICK source \in Source, scratch \in {"none", "directory", "file"}, report \in {NoReport, tree.report} :
            AtOnce("bash", "answered",
              [source |-> source, scratch |-> scratch, report |-> report,
               drivers |-> IF scratch = "directory" THEN tree.drivers ELSE [d \in Drivers |-> 0]])
      BY <1>5 DEF Bash
    <3>2. report \in Nat \X Nat /\ tree.drivers \in [Drivers -> Nat] /\ [d \in Drivers |-> 0] \in [Drivers -> Nat]
      BY <1>n DEF Tree
    <3> QED
      BY <3>1, <3>2 DEF Tree
  <2> QED
    BY <2>1 DEF AtOnce
<1>6. CASE RunChild
  <2>1. Cwd \in Source
    BY DEF Cwd, Tree
  <2>2. call.of \cup {Cwd} \in SUBSET Source /\ call.ran + 1 \in Nat
    BY <2>1 DEF InCall
  <2>3. call' \in InCall
    BY <2>2, <1>6 DEF RunChild, InCall
  <2> QED
    BY <2>3, <1>6 DEF RunChild
<1>7. CASE WorkloadFailed
  BY <1>7, <1>n DEF WorkloadFailed, Refuse, Answer
<1>8. CASE Measured
  <2>1. CASE call.tool = "ablate" /\ call.phase = "before"
    <3>1. call' = [call EXCEPT !.at = "copying", !.before = call.of, !.of = {}, !.ran = 0]
      BY <1>8, <2>1 DEF Measured
    <3>2. call.of \in SUBSET Source /\ {} \in SUBSET Source
      BY DEF InCall
    <3>3. call' \in InCall
      BY <3>1, <3>2 DEF InCall
    <3> QED
      BY <1>8, <2>1, <3>3 DEF Measured
  <2>2. CASE ~(call.tool = "ablate" /\ call.phase = "before")
    <3>1. PICK before \in SUBSET Source, after \in SUBSET Source : Record(before, after, NoReport)
      <4>1. call.before \in SUBSET Source /\ call.of \in SUBSET Source /\ {} \in SUBSET Source
        BY DEF InCall
      <4> QED
        BY <4>1, <1>8, <2>2 DEF Measured
    <3>2. ledger' \in Seq(Entry)
      BY <3>1, <1>n, MeasuredEntry, Recorded DEF Record
    <3> QED
      BY <1>8, <2>2, <3>2, <1>n DEF Measured, Answer
  <2> QED
    BY <2>1, <2>2
<1>9. CASE Unrepeatable
  <2>1. call' \in InCall
    BY <1>9 DEF Unrepeatable, InCall
  <2> QED
    BY <1>9, <2>1 DEF Unrepeatable
<1>10. CASE Probed
  BY <1>10, <1>n DEF Probed, Refuse, Answer
<1>11. CASE Copy
  <2>1. tree.source \in Source
    BY DEF Tree
  <2>2. CASE Refuse("OSError")
    BY <1>n, <2>2 DEF Refuse, Answer
  <2>3. CASE /\ copy' = tree.source
             /\ call' = [call EXCEPT !.at = "stubbing", !.phase = "after"]
             /\ UNCHANGED <<tree, ledger, answer, calls>>
    <3>1. call' \in InCall
      BY <2>3 DEF InCall
    <3> QED
      BY <2>1, <2>3, <3>1
  <2> QED
    BY <1>11, <2>2, <2>3 DEF Copy
<1>12. CASE NoStub
  BY <1>12, <1>n DEF NoStub, Refuse, Answer
<1>13. CASE Stub
  <2>1. call.symbol \in Symbols
    BY <1>13 DEF Placed, Stub
  <2>2. copy' \in Source
    BY <1>13, <2>1 DEF Stub, Source
  <2>3. tree' \in Tree
    <3>1. tree.source \cup {call.symbol} \in Source
      BY <2>1 DEF Source, Tree
    <3> QED
      BY <1>13, <3>1 DEF Stub, Tree
  <2> QED
    <3>1. call' \in InCall
      BY <1>13 DEF Stub, InCall
    <3> QED
      BY <1>13, <2>2, <2>3, <3>1 DEF Stub
<1>14. CASE Unlink
  <2>1. call' \in InCall
    BY <1>14 DEF Unlink, InCall
  <2>2. tree' \in Tree
    BY <1>14, <1>n DEF Unlink, Unlinked, Tree
  <2> QED
    BY <1>14, <2>1, <2>2 DEF Unlink
<1>15. ASSUME NEW ending \in Endings, Spied(ending) PROVE TypeInv'
  <2> DEFINE report == IF Wrote(ending) THEN <<calls, call.attempt>> ELSE tree.report
  <2>1. report \in Nat \X Nat /\ tree.source \in Source
    BY DEF Tree, InCall
  <2>2. tree' \in Tree
    BY <1>15, <2>1 DEF Spied, Tree
  <2>3. CASE Retry(ending)
    <3>1. Add(call.spied, ending) \in Spying
      BY <1>15 DEF Add, InCall
    <3>2. call.attempt + 1 \in Nat \ {0}
      BY DEF InCall
    <3>3. call' \in InCall
      BY <2>3, <3>1, <3>2 DEF Retry, NextAttempt, InCall
    <3> QED
      BY <2>2, <2>3, <3>3 DEF Retry
  <2>4. CASE UNCHANGED ledger /\ call' = NoCall /\ copy' = {} /\ UNCHANGED calls
    BY <2>2, <2>4, <1>n
  <2>5. CASE Record({tree.source}, {}, report) /\ call' = NoCall /\ copy' = {} /\ UNCHANGED calls
    <3>1. {tree.source} \in SUBSET Source /\ {} \in SUBSET Source
      BY <2>1
    <3>2. ledger' \in Seq(Entry)
      BY <2>5, <3>1, <2>1, MeasuredEntry, Recorded DEF Record
    <3> QED
      BY <2>2, <2>5, <3>2, <1>n
  <2> QED
    BY <1>15, <2>3, <2>4, <2>5 DEF Spied, Answer
<1>16. CASE Stop
  <2>1. <<calls, call.attempt>> \in Nat \X Nat
    BY DEF InCall
  <2>2. tree' \in Tree
    BY <1>16, <2>1 DEF Stop, Tree
  <2> QED
    BY <1>16, <2>2, <1>n DEF Stop, Answer
<1> QED
  BY <1>0, <1>1, <1>2, <1>3, <1>4, <1>5, <1>6, <1>7, <1>8, <1>9, <1>10, <1>11, <1>12, <1>13, <1>14,
     <1>15, <1>16 DEF Next, Step

\* A call that has ended is at no place.
LEMMA IdleHolds == call' = NoCall => Placed' /\ Unreported' /\ OneSubject'
BY DEF NoCall, Placed, Unreported, OneSubject, Subject


LEMMA PlacedStep == TypeInv /\ Placed /\ [Next]_vars => Placed'
<1> SUFFICES ASSUME TypeInv, Placed, [Next]_vars PROVE Placed'
  OBVIOUS
<1>0. call' = NoCall => Placed'
  BY IdleHolds
<1>1. CASE call' = call
  BY <1>1 DEF Placed
<1>2. CASE Measure \/ Profile
  BY <1>2 DEF Measure, Profile, Call, NoCall, Placed
<1>3. CASE Ablate
  BY <1>3 DEF Ablate, Call, NoCall, Placed
<1>4. CASE RunChild
  BY <1>4 DEF RunChild, TypeInv, InCall, Placed
<1>5. CASE Measured
  BY <1>0, <1>5 DEF Measured, Answer, TypeInv, InCall, Placed
<1>6. CASE Unrepeatable
  BY <1>6 DEF Unrepeatable, TypeInv, InCall, Placed
<1>7. CASE Copy
  BY <1>0, <1>7 DEF Copy, Refuse, Answer, TypeInv, InCall, Placed
<1>8. CASE Stub
  BY <1>8 DEF Stub, TypeInv, InCall, Placed
<1>9. CASE Unlink
  BY <1>9 DEF Unlink, TypeInv, InCall, Placed
<1>10. ASSUME NEW ending \in Endings, Spied(ending) PROVE Placed'
  <2>1. CASE Retry(ending)
    BY <1>10, <2>1 DEF Spied, Retry, TypeInv, InCall, Placed
  <2> QED
    BY <1>0, <1>10, <2>1 DEF Spied, Answer
<1>11. WorkloadFailed \/ Probed \/ NoStub \/ Stop => Placed'
  BY <1>0 DEF WorkloadFailed, Probed, NoStub, Stop, Refuse, Answer
<1>12. WriteFile \/ Bash => Placed'
  BY <1>1 DEF WriteFile, Bash, AtOnce
<1> QED
  BY <1>1, <1>2, <1>3, <1>4, <1>5, <1>6, <1>7, <1>8, <1>9, <1>10, <1>11, <1>12 DEF Next, Step, vars

LEMMA UnreportedStep == TypeInv /\ Placed /\ Unreported /\ [Next]_vars => Unreported'
<1> SUFFICES ASSUME TypeInv, Placed, Unreported, [Next]_vars PROVE Unreported'
  OBVIOUS
<1>0. call' = NoCall => Unreported'
  BY IdleHolds
<1>1. CASE call' = call /\ (UNCHANGED tree \/ call = NoCall)
  BY <1>0, <1>1 DEF Unreported
<1>m. CASE Measure
  <2>1. call'.tool = "measure"
    BY <1>m DEF Measure, Call, NoCall
  <2> QED
    BY <2>1 DEF Unreported
<1>2. CASE Profile
  <2>1. call'.at = "unlinking" /\ call'.spied = Unspied
    BY <1>2 DEF Profile, Call, NoCall
  <2> QED
    BY <2>1 DEF Unreported, Unspied
<1>a. CASE Ablate
  <2>1. PICK symbol \in Symbols, naming \in Namings :
          Call([NoCall EXCEPT !.tool = "ablate", !.at = "running", !.symbol = symbol, !.naming = naming])
    BY <1>a DEF Ablate
  <2>2. call'.tool = "ablate"
    BY <2>1 DEF Call, NoCall
  <2> QED
    BY <2>2 DEF Unreported
<1>3. CASE RunChild \/ Unrepeatable \/ Stub
  BY <1>3 DEF RunChild, Unrepeatable, Stub, TypeInv, InCall, Placed, Unreported
<1>4. CASE Measured
  BY <1>0, <1>4 DEF Measured, Answer, TypeInv, InCall, Placed, Unreported
<1>5. CASE Copy
  BY <1>0, <1>5 DEF Copy, Refuse, Answer, TypeInv, InCall, Placed, Unreported
<1>6. CASE Unlink
  BY <1>6 DEF Unlink, Unlinked, TypeInv, InCall, Tree, Placed, Unreported
<1>7. ASSUME NEW ending \in Endings, Spied(ending) PROVE Unreported'
  <2>1. CASE Retry(ending)
    <3>1. ~Wrote(ending) => ending \in {"unsampled"} \cup Unprofiled
      BY <1>7 DEF Wrote, Endings, Unprofiled
    <3>2. Wrote(ending) => <<calls, call.attempt>> # NoReport
      BY DEF TypeInv, InCall, NoReport
    <3>3. call'.at = "unlinking" /\ call'.spied.all = call.spied.all \cup {ending} /\ call.at = "spying"
      BY <1>7, <2>1 DEF Spied, Retry, Add, TypeInv, InCall, Spying
    <3>4. ending \in Unprofiled
      <4>1. CASE ending \in {"ran", "unsampled"}
        BY <1>7, <2>1, <4>1, <1>0 DEF Spied, Answer, Retry, TypeInv, InCall, NoCall
      <4>2. CASE ending = "failed"
        BY <1>7, <2>1, <4>2, <3>2 DEF Spied, Answer, Retry, TypeInv, InCall, NoCall, Wrote
      <4> QED
        BY <1>7, <4>1, <4>2 DEF Endings, Unprofiled
    <3> QED
      BY <3>3, <3>4 DEF Unreported, Placed
  <2> QED
    BY <1>0, <1>7, <2>1 DEF Spied, Answer
<1>8. WorkloadFailed \/ Probed \/ NoStub \/ Stop => Unreported'
  BY <1>0 DEF WorkloadFailed, Probed, NoStub, Stop, Refuse, Answer
<1>9. WriteFile \/ Bash => Unreported'
  BY <1>1 DEF WriteFile, Bash, AtOnce
<1> QED
  BY <1>1, <1>2, <1>a, <1>m, <1>3, <1>4, <1>5, <1>6, <1>7, <1>8, <1>9 DEF Next, Step, vars

\* Only a shell command changes the source, and it is a call of its own.
LEMMA SourceKept ==
  ASSUME TypeInv, Placed, Relative, [Next]_vars
  PROVE  tree'.source = tree.source \/ call' = NoCall
<1>1. CASE WriteFile
  BY <1>1 DEF WriteFile, AtOnce, TypeInv, Tree
<1>2. CASE Bash
  BY <1>2 DEF Bash, AtOnce
<1>3. CASE Stub
  BY <1>3 DEF Relative, Stub, Target, TypeInv, InCall
<1>4. CASE Unlink
  BY <1>4 DEF Unlink, Unlinked, TypeInv, Tree
<1>5. ASSUME NEW ending \in Endings, Spied(ending) PROVE tree'.source = tree.source
  BY <1>5 DEF Spied, TypeInv, Tree
<1>6. CASE Stop
  BY <1>6 DEF Stop, Answer
<1>7. CASE UNCHANGED tree
  BY <1>7
<1>8. Measure \/ Ablate \/ Profile \/ RunChild \/ WorkloadFailed \/ Measured \/ Unrepeatable \/ Probed
        \/ Copy \/ NoStub \/ UNCHANGED vars => UNCHANGED tree
  BY DEF Measure, Ablate, Profile, Call, RunChild, WorkloadFailed, Measured, Unrepeatable, Probed, Copy,
     NoStub, Refuse, vars
<1> QED
  BY <1>1, <1>2, <1>3, <1>4, <1>5, <1>6, <1>7, <1>8 DEF Next, Step

LEMMA OneSubjectStep ==
  ASSUME TypeInv, Placed, Relative, OneSubject, [Next]_vars
  PROVE  OneSubject'
<1>0. call' = NoCall => OneSubject'
  BY IdleHolds
<1>s. SUFFICES ASSUME call' # NoCall PROVE OneSubject'
  BY <1>0
<1>t. tree'.source = tree.source
  BY <1>s, SourceKept
<1>1. CASE call' = call /\ UNCHANGED copy
  BY <1>1, <1>t DEF OneSubject, Subject
<1>2. CASE Measure \/ Profile \/ Ablate
  <2>1. call'.phase = "before" /\ call'.of = {} /\ call'.ran = 0 /\ call'.at \in {"running", "unlinking"}
    <3>1. CASE Measure \/ Profile
      BY <3>1 DEF Measure, Profile, Call, NoCall
    <3>2. CASE Ablate
      BY <3>2 DEF Ablate, Call, NoCall
    <3> QED
      BY <1>2, <3>1, <3>2
  <2> QED
    BY <2>1 DEF OneSubject, Subject
<1>3. CASE RunChild
  <2>1. Cwd = Subject
    BY <1>3 DEF RunChild, Cwd, OneSubject, Subject, TypeInv, InCall
  <2>2. /\ call'.of = call.of \cup {Subject} /\ call'.at = "running" /\ UNCHANGED copy
        /\ call'.phase = call.phase /\ call'.symbol = call.symbol /\ call'.before = call.before
    BY <1>3, <2>1 DEF RunChild, TypeInv, InCall
  <2>3. Subject' = Subject
    BY <2>2, <1>t DEF Subject
  <2> QED
    BY <1>3, <1>t, <2>2, <2>3 DEF OneSubject, RunChild
<1>4. CASE Measured
  <2>1. call.ran > 0
    BY <1>4, RepeatsAssumption DEF Measured
  <2>2. call.tool = "ablate" /\ call.phase = "before"
    BY <1>s, <1>4 DEF Measured, Answer
  <2>3. /\ call'.before = call.of /\ call'.of = {} /\ call'.ran = 0 /\ call'.at = "copying"
        /\ call'.phase = "before"
    BY <1>4, <2>2 DEF Measured, TypeInv, InCall
  <2>4. call.of = {tree.source}
    BY <1>4, <2>1, <2>2 DEF Measured, OneSubject, Subject
  <2> QED
    BY <1>t, <2>3, <2>4 DEF OneSubject
<1>5. CASE Unrepeatable
  <2>1. call'.at = "probing" /\ call'.phase = "before"
    BY <1>5 DEF Unrepeatable, TypeInv, InCall
  <2> QED
    BY <2>1 DEF OneSubject
<1>6. CASE Copy
  <2>1. /\ copy' = tree.source /\ call'.at = "stubbing" /\ call'.before = call.before
        /\ call'.of = call.of /\ call'.ran = call.ran /\ call.at = "copying"
    BY <1>s, <1>6 DEF Copy, Refuse, Answer, TypeInv, InCall
  <2> QED
    BY <1>t, <2>1 DEF OneSubject
<1>7. CASE Stub
  <2>1. /\ copy' = copy \cup {call.symbol} /\ call'.at = "running" /\ call'.phase = "after"
        /\ call'.before = call.before /\ call'.of = call.of /\ call'.ran = call.ran
        /\ call'.symbol = call.symbol /\ call.at = "stubbing"
    BY <1>7 DEF Stub, Target, Relative, Placed, TypeInv, InCall
  <2>2. copy = tree.source /\ call.of = {} /\ call.ran = 0 /\ call.before = {tree.source}
    BY <2>1 DEF OneSubject, Placed
  <2>3. Subject' = tree.source \cup {call.symbol}
    BY <1>t, <2>1 DEF Subject
  <2> QED
    BY <1>t, <2>1, <2>2, <2>3 DEF OneSubject
<1>8. CASE Unlink
  <2>1. call'.at = "spying" /\ call'.phase = call.phase /\ call.at = "unlinking"
    BY <1>8 DEF Unlink, TypeInv, InCall
  <2> QED
    BY <2>1 DEF OneSubject, Placed
<1>9. ASSUME NEW ending \in Endings, Spied(ending) PROVE OneSubject'
  <2>1. Retry(ending) /\ call.at = "spying"
    BY <1>s, <1>9 DEF Spied, Answer
  <2>2. call'.at = "unlinking" /\ call'.phase = call.phase
    BY <2>1 DEF Retry, TypeInv, InCall
  <2> QED
    BY <2>1, <2>2 DEF OneSubject, Placed
<1>10. WorkloadFailed \/ Probed \/ NoStub \/ Stop => call' = NoCall
  BY DEF WorkloadFailed, Probed, NoStub, Stop, Refuse, Answer
<1>11. WriteFile \/ Bash \/ UNCHANGED vars => call' = call /\ UNCHANGED copy
  BY DEF WriteFile, Bash, AtOnce, vars
<1> QED
  BY <1>s, <1>1, <1>2, <1>3, <1>4, <1>5, <1>6, <1>7, <1>8, <1>9, <1>10, <1>11 DEF Next, Step

\* A sound entry is added, or none.
LEMMA LedgerSound ==
  ASSUME TypeInv, \A i \in DOMAIN ledger : Sound(ledger[i]),
         NEW taken \in Entry, Sound(taken), ledger' = Append(ledger, taken)
  PROVE  \A i \in DOMAIN ledger' : Sound(ledger[i])'
<1>1. \A i \in DOMAIN ledger' : ledger'[i] = taken \/ (i \in DOMAIN ledger /\ ledger'[i] = ledger[i])
  BY Recorded DEF TypeInv
<1> QED
  BY <1>1 DEF Sound

LEMMA AccountedStep ==
  ASSUME TypeInv, Placed, Unreported, Relative => OneSubject, Accounted, [Next]_vars
  PROVE  Accounted'
<1>s. UNCHANGED ledger => (\A i \in DOMAIN ledger : Sound(ledger[i]))'
  BY DEF Accounted, Sound
<1>1. ASSUME UNCHANGED <<ledger, answer>> PROVE Accounted'
  BY <1>1, <1>s DEF Accounted, Blamed
<1>2. ASSUME UNCHANGED ledger, answer'.tool # "profile" PROVE Accounted'
  BY <1>2, <1>s DEF Accounted, Blamed
<1>3. ASSUME NEW why, Refuse(why), call.tool # "profile" PROVE Accounted'
  BY <1>2, <1>3 DEF Refuse, Answer
<1>4. CASE WorkloadFailed
  BY <1>3, <1>4 DEF WorkloadFailed, Placed
<1>5. CASE Measured
  <2>0. call.tool \in {"measure", "ablate"} /\ call.ran > 0 /\ call.at = "running"
    BY <1>5, RepeatsAssumption DEF Measured, Placed
  <2>1. CASE call.tool = "ablate" /\ call.phase = "before"
    BY <1>1, <1>5, <2>1 DEF Measured
  <2>2. CASE ~(call.tool = "ablate" /\ call.phase = "before")
    <3> DEFINE taken(before, after) ==
                 [tool |-> call.tool, call |-> calls, symbol |-> call.symbol,
                  before |-> before, after |-> after, report |-> NoReport]
    <3>n. NoReport \in Nat \X Nat /\ call.before \in SUBSET Source /\ call.of \in SUBSET Source
            /\ {} \in SUBSET Source /\ tree.source \in Source
      BY DEF NoReport, TypeInv, InCall, Tree
    <3>1. answer'.tool # "profile"
      BY <1>5, <2>0, <2>2 DEF Measured, Answer
    <3>2. CASE call.phase = "after"
      <4>1. ledger' = Append(ledger, taken(call.before, call.of))
        BY <1>5, <2>2, <3>2 DEF Measured, Record
      <4>2. taken(call.before, call.of) \in Entry
        BY <3>n, MeasuredEntry
      <4>3. Relative => call.before = {tree.source} /\ call.of = {tree.source \cup {call.symbol}}
        BY <2>0, <3>2 DEF OneSubject, Subject
      <4>4. Sound(taken(call.before, call.of))
        BY <2>0, <3>n, <4>3 DEF Sound
      <4> HIDE DEF taken
      <4> QED
        BY <3>1, <4>1, <4>2, <4>4, LedgerSound DEF Accounted, Blamed
    <3>3. CASE call.phase # "after"
      <4>1. ledger' = Append(ledger, taken(call.of, {}))
        BY <1>5, <2>2, <3>3 DEF Measured, Record
      <4>2. taken(call.of, {}) \in Entry
        BY <3>n, MeasuredEntry
      <4>3. call.tool = "measure"
        BY <2>0, <2>2, <3>3 DEF TypeInv, InCall
      <4>4. Relative => call.of = {tree.source}
        BY <2>0, <3>3 DEF OneSubject, Subject
      <4>5. Sound(taken(call.of, {}))
        BY <3>n, <4>3, <4>4 DEF Sound
      <4> HIDE DEF taken
      <4> QED
        BY <3>1, <4>1, <4>2, <4>5, LedgerSound DEF Accounted, Blamed
    <3> QED
      BY <3>2, <3>3
  <2> QED
    BY <2>1, <2>2
<1>6. CASE Probed
  BY <1>3, <1>6 DEF Probed, Placed
<1>7. CASE Copy
  BY <1>1, <1>3, <1>7 DEF Copy, Placed
<1>8. CASE NoStub
  BY <1>3, <1>8 DEF NoStub, Placed
<1>9. ASSUME NEW ending \in Endings, Spied(ending) PROVE Accounted'
  <2> DEFINE report == IF Wrote(ending) THEN <<calls, call.attempt>> ELSE tree.report
             spied == Add(call.spied, ending)
             taken == [tool |-> call.tool, call |-> calls, symbol |-> call.symbol,
                       before |-> {tree.source}, after |-> {}, report |-> report]
  <2>0. call.at = "spying" /\ call.tool = "profile" /\ tree.report = NoReport
          /\ call.spied.all \subseteq Unprofiled
    BY <1>9 DEF Spied, Placed, Unreported
  <2>1. /\ <<calls, call.attempt>> # NoReport /\ report \in Nat \X Nat
        /\ report # NoReport <=> Wrote(ending)
        /\ report # NoReport => report[1] = calls
    BY <2>0 DEF TypeInv, Tree, InCall, NoReport
  <2>2. spied.last = ending /\ spied.all = call.spied.all \cup {ending}
    BY DEF Add
  <2>3. ASSUME Answer("recorded", spied), Record({tree.source}, {}, report), ending \in {"ran", "unsampled"}
        PROVE  Accounted'
    <3>1. ledger' = Append(ledger, taken)
      BY <2>3 DEF Record
    <3>2. {tree.source} \in SUBSET Source /\ {} \in SUBSET Source /\ tree.source \in Source
      BY DEF TypeInv, Tree
    <3>3. taken \in Entry
      BY <2>1, <3>2, MeasuredEntry
    <3>4. Sound(taken)
      BY <2>0, <2>1, <3>2 DEF Sound
    <3>5. Blamed'
      BY <2>2, <2>3 DEF Blamed, Answer
    <3> HIDE DEF taken
    <3> QED
      BY <3>1, <3>3, <3>4, <3>5, LedgerSound DEF Accounted
  <2>4. ASSUME NEW why, Answer(why, spied), UNCHANGED ledger,
               why = "WorkloadFailed" <=> ending = "failed",
               why = "InstrumentFailed" => ending \in Unprofiled
        PROVE  Accounted'
    <3>1. Blamed'
      BY <2>0, <2>2, <2>4 DEF Blamed, Answer
    <3> QED
      BY <1>s, <2>4, <3>1 DEF Accounted
  <2>5. CASE Answer("JSONDecodeError", spied) /\ UNCHANGED ledger /\ ending \in {"ran", "unsampled"}
    BY <2>4, <2>5
  <2>6. CASE Answer("WorkloadFailed", spied) /\ UNCHANGED ledger /\ ending \in {"failed"} \cup Unprofiled
               /\ report # NoReport
    BY <2>1, <2>4, <2>6 DEF Wrote, Unprofiled
  <2>7. CASE Answer("InstrumentFailed", spied) /\ UNCHANGED ledger /\ ending \in {"failed"} \cup Unprofiled
               /\ report = NoReport
    BY <2>1, <2>4, <2>7 DEF Wrote, Unprofiled
  <2>8. CASE Retry(ending)
    BY <1>1, <2>8 DEF Retry
  <2> QED
    BY <1>9, <2>3, <2>5, <2>6, <2>7, <2>8 DEF Spied
<1>10. CASE Stop
  <2>1. Blamed'
    BY <1>10 DEF Stop, Answer, Blamed
  <2> QED
    BY <1>10, <1>s, <2>1 DEF Stop, Accounted
<1>11. CASE WriteFile \/ Bash
  <2>1. ASSUME NEW tool, NEW why, NEW tree2, AtOnce(tool, why, tree2), tool # "profile" PROVE Accounted'
    BY <1>2, <2>1 DEF AtOnce
  <2>2. CASE WriteFile
    BY <2>1, <2>2 DEF WriteFile
  <2>3. CASE Bash
    BY <2>1, <2>3 DEF Bash
  <2> QED
    BY <1>11, <2>2, <2>3
<1>12. Measure \/ Ablate \/ Profile \/ RunChild \/ Unrepeatable \/ Stub \/ Unlink \/ UNCHANGED vars
         => UNCHANGED <<ledger, answer>>
  BY DEF Measure, Ablate, Profile, Call, RunChild, Unrepeatable, Stub, Unlink, vars
<1> QED
  BY <1>1, <1>4, <1>5, <1>6, <1>7, <1>8, <1>9, <1>10, <1>11, <1>12 DEF Next, Step

\* Every step keeps the whole of it.
LEMMA StepHolds == IInv /\ [Next]_vars => IInv'
<1> SUFFICES ASSUME IInv, [Next]_vars PROVE IInv'
  OBVIOUS
<1>1. Relative' = Relative
  BY DEF Relative
<1> QED
  BY <1>1, TypeStep, PlacedStep, UnreportedStep, OneSubjectStep, AccountedStep DEF IInv

LEMMA Invariance == Spec => []IInv
BY InitHolds, StepHolds, PTL DEF Spec

-----------------------------------------------------------------------------
(* What follows of it *)

\* Every report a profile is recorded with was written by the call that recorded it, and
\* the subject is blamed exactly when it failed with a profile of it written
\* (profiling.profile, whatever an earlier attempt left).
THEOREM ProfileSafety == Spec => []ProfileIsOfItsRun
<1>1. IInv => ProfileIsOfItsRun
  BY DEF IInv, Accounted, Blamed, Sound, ProfileIsOfItsRun
<1> QED
  BY <1>1, Invariance, PTL

\* Where no call names a file by an absolute path, what is recorded of a measurement is of
\* one program, and of an ablation of that program before and after its one stub (ablate).
THEOREM ProgramSafety ==
  ASSUME "absolute" \notin Namings
  PROVE  Spec => []OneProgram
<1>1. IInv => OneProgram
  BY DEF IInv, Accounted, Sound, Relative, OneProgram
<1> QED
  BY <1>1, Invariance, PTL

\* Where no call names a file by an absolute path, the source and the drivers are as they
\* were after every step but a shell command (ablate's copy, write_file's refusal).
THEOREM SubjectSafety ==
  ASSUME "absolute" \notin Namings
  PROVE  Spec => SubjectUntouched
<1>1. ASSUME IInv, [Next]_vars
      PROVE  [\/ answer'.tool = "bash" /\ calls' # calls
              \/ /\ tree'.source = tree.source
                 /\ \A d \in Drivers : tree.drivers[d] # 0 => tree'.drivers[d] = tree.drivers[d]]_vars
  <2> USE <1>1 DEF IInv, TypeInv
  <2>1. CASE Bash
    BY <2>1 DEF Bash, AtOnce
  <2>2. CASE WriteFile
    <3>1. ASSUME NEW why, AtOnce("write_file", why, tree) PROVE UNCHANGED <<tree.source, tree.drivers>>
      BY <3>1 DEF AtOnce
    <3>2. ASSUME NEW d \in Drivers, tree.drivers[d] = 0,
                 AtOnce("write_file", "answered", [tree EXCEPT !.scratch = "directory", !.drivers[d] = calls + 1])
          PROVE  /\ UNCHANGED tree.source
                 /\ \A e \in Drivers : tree.drivers[e] # 0 => tree'.drivers[e] = tree.drivers[e]
      <4>1. tree'.source = tree.source /\ tree'.drivers = [tree.drivers EXCEPT ![d] = calls + 1]
        BY <3>2 DEF AtOnce, Tree
      <4> QED
        BY <3>2, <4>1 DEF Tree
    <3>3. ASSUME AtOnce("write_file", "answered", [tree EXCEPT !.scratch = "file"])
          PROVE  UNCHANGED <<tree.source, tree.drivers>>
      BY <3>3 DEF AtOnce, Tree
    <3> QED
      BY <2>2, <3>1, <3>2, <3>3 DEF WriteFile
  <2>3. CASE Stub
    BY <2>3 DEF Stub, Target, InCall
  <2>4. CASE Unlink
    BY <2>4 DEF Unlink, Unlinked, Tree
  <2>5. ASSUME NEW ending \in Endings, Spied(ending) PROVE UNCHANGED <<tree.source, tree.drivers>>
    BY <2>5 DEF Spied, Tree
  <2>6. CASE Stop
    BY <2>6 DEF Stop, Tree
  <2>7. Measure \/ Ablate \/ Profile \/ RunChild \/ WorkloadFailed \/ Measured \/ Unrepeatable \/ Probed
          \/ Copy \/ NoStub => UNCHANGED tree
    BY DEF Measure, Ablate, Profile, Call, RunChild, WorkloadFailed, Measured, Unrepeatable, Probed, Copy,
       NoStub, Refuse
  <2> QED
    BY <2>1, <2>2, <2>3, <2>4, <2>5, <2>6, <2>7 DEF Next, Step
<1> QED
  BY <1>1, Invariance, PTL DEF Spec, SubjectUntouched

=============================================================================
