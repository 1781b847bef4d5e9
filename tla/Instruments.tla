---------------------------- MODULE Instruments ----------------------------
(***************************************************************************)
(* The scan agent's six tools at work in one worktree.                      *)
(*                                                                          *)
(*   agent/toolbox.py            one call at a time, each in a container of *)
(*                               its own that dies with it; the ledger      *)
(*   collect/run.py              the call inside it, and what it refuses    *)
(*   collect/measurement.py      repeats of one command, one child at once  *)
(*   collect/ablation.py         the same again in a copy with a stub       *)
(*   collect/profiling.py        the command under py-spy, which may fail   *)
(*   collect/workspace.py        bash, reading, and writing a driver        *)
(*                                                                          *)
(* The worktree outlives a call, the copy an ablation breaks does not. A    *)
(* source is the set of symbols that return a constant in it: empty as the  *)
(* repository has it. How long a run takes is left out, so whether a spread *)
(* is accepted is a choice; reading changes nothing and is left out. A      *)
(* command that is measured is taken not to edit the program it measures,   *)
(* and to leave nothing running: bash may do either.                        *)
(***************************************************************************)
EXTENDS Naturals, Sequences, FiniteSets

CONSTANTS
  Symbols,    \* the definitions an ablation may name
  Namings,    \* how a call names their file: "relative" to the workspace, or "absolute"
  Drivers,    \* the names of files under coldfix/
  Repeats,    \* measurement.DEFAULT_REPEATS
  MaxCalls,   \* bounds the model
  None

ATTEMPTS == 2

ASSUME RepeatsAssumption == Repeats \in Nat \ {0} /\ MaxCalls \in Nat
ASSUME NamingsAssumption == Namings \subseteq {"relative", "absolute"}

Source == SUBSET Symbols

\* The call and the attempt that wrote a report: <<0, 0>> where there is none.
NoReport == <<0, 0>>

VARIABLES
  tree,     \* the worktree: source, coldfix/ with its drivers, coldfix-profile.json
  copy,     \* the source in the ablation's temporary directory, {} where there is none
  call,     \* the tool call in progress
  ledger,   \* what the host recorded
  answer,   \* what the last call came to
  calls     \* how many calls there have been

vars == <<tree, copy, call, ledger, answer, calls>>

\* How the attempts of a call ended: the last, and all of them.
Unspied == [last |-> "none", all |-> {}]

NoCall == [tool |-> "none", at |-> "idle", symbol |-> None, naming |-> "relative", phase |-> "before",
           ran |-> 0, of |-> {}, before |-> {}, attempt |-> 1, spied |-> Unspied]

\* `drivers` which call wrote each, 0 if none has.
Init ==
  /\ tree = [source |-> {}, scratch |-> "none", drivers |-> [d \in Drivers |-> 0],
           report |-> NoReport]
  /\ copy = {}
  /\ call = NoCall
  /\ ledger = <<>> /\ answer = [tool |-> "none", why |-> "none", spied |-> Unspied]
  /\ calls = 0

Call(arguments) ==
  /\ call = NoCall /\ calls < MaxCalls
  /\ calls' = calls + 1
  /\ call' = arguments
  /\ UNCHANGED <<tree, copy, ledger, answer>>

\* A call ends: the container is gone, and with it the copy.
Answer(why, spied) ==
  /\ answer' = [tool |-> call.tool, why |-> why, spied |-> spied]
  /\ call' = NoCall /\ copy' = {}
  /\ UNCHANGED calls

\* run: a refusal is an envelope as well, and nothing is recorded.
Refuse(why) == Answer(why, call.spied) /\ UNCHANGED <<tree, ledger>>

\* The envelope is read back and recorded.
Record(before, after, report) ==
  ledger' = Append(ledger, [tool |-> call.tool, call |-> calls, symbol |-> call.symbol,
                            before |-> before, after |-> after, report |-> report])

-----------------------------------------------------------------------------
(* collect/measurement.py *)

Measure == Call([NoCall EXCEPT !.tool = "measure", !.at = "running"])

\* Both measurements of an ablation are taken in the workspace.
WrongCwd == tree.source

\* The directory the command is run in.
Cwd == IF call.phase = "after" THEN copy ELSE tree.source

\* One child, run to its end.
RunChild ==
  /\ call.at = "running" /\ call.ran < Repeats
  /\ call' = [call EXCEPT !.ran = @ + 1, !.of = @ \cup {Cwd}]
  /\ UNCHANGED <<tree, copy, ledger, answer, calls>>

\* A repeat exits with another code than 0.
WorkloadFailed ==
  /\ call.at = "running" /\ call.ran < Repeats
  /\ Refuse(IF call.phase = "after" THEN "AblationBrokeTheSubject" ELSE "WorkloadFailed")

\* The spread is accepted, or nobody asked: what follows of an ablation need not be repeatable.
Measured ==
  /\ call.at = "running" /\ call.ran = Repeats
  /\ IF call.tool = "ablate" /\ call.phase = "before"
     THEN /\ call' = [call EXCEPT !.at = "copying", !.before = call.of, !.of = {}, !.ran = 0]
          /\ UNCHANGED <<tree, copy, ledger, answer, calls>>
     ELSE /\ IF call.phase = "after" THEN Record(call.before, call.of, NoReport)
                                     ELSE Record(call.of, {}, NoReport)
          /\ Answer("recorded", Unspied)
          /\ UNCHANGED tree

\* It is not: a program that does nothing is run as often, to tell the machine from the workload.
Unrepeatable ==
  /\ call.at = "running" /\ call.ran = Repeats /\ call.phase = "before"
  /\ call' = [call EXCEPT !.at = "probing"]
  /\ UNCHANGED <<tree, copy, ledger, answer, calls>>

Probed ==
  /\ call.at = "probing"
  /\ \E why \in {"WorkloadTooShort", "NotRepeatable"} : Refuse(why)

-----------------------------------------------------------------------------
(* collect/ablation.py *)

Ablate ==
  \E symbol \in Symbols, naming \in Namings :
    Call([NoCall EXCEPT !.tool = "ablate", !.at = "running", !.symbol = symbol, !.naming = naming])

\* mkdtemp and copytree; either may fail.
Copy ==
  /\ call.at = "copying"
  /\ \/ Refuse("OSError")
     \/ /\ copy' = tree.source
        /\ call' = [call EXCEPT !.at = "stubbing", !.phase = "after"]
        /\ UNCHANGED <<tree, ledger, answer, calls>>

\* The file is looked for where the command was given.
WrongTarget == "tree"

\* `copy / path`: an absolute path replaces the copy's, and names the original.
Target == IF call.naming = "absolute" THEN "tree" ELSE "copy"

\* No such file or none that can be read, none that parses, no such definition, or no
\* constant: found out after the first measurement.
NoStub ==
  /\ call.at = "stubbing"
  /\ \E why \in {"OSError", "UnicodeDecodeError", "SyntaxError", "SymbolNotFound", "NotAConstant"} :
       Refuse(why)

Stub ==
  /\ call.at = "stubbing"
  /\ call' = [call EXCEPT !.at = "running"]
  /\ IF Target = "copy"
     THEN copy' = copy \cup {call.symbol} /\ UNCHANGED tree
     ELSE tree' = [tree EXCEPT !.source = @ \cup {call.symbol}] /\ UNCHANGED copy
  /\ UNCHANGED <<ledger, answer, calls>>

-----------------------------------------------------------------------------
(* collect/profiling.py, collect/instrumented.py *)

Profile == Call([NoCall EXCEPT !.tool = "profile", !.at = "unlinking"])

\* What is there is py-spy's to overwrite.
WrongUnlinked == tree

Unlinked == [tree EXCEPT !.report = NoReport]

Unlink ==
  /\ call.at = "unlinking"
  /\ tree' = Unlinked
  /\ call' = [call EXCEPT !.at = "spying"]
  /\ UNCHANGED <<copy, ledger, answer, calls>>

\* How a run under py-spy ends: it profiled a program that ended well or badly, the program
\* was too short to sample, py-spy failed before there was anything to profile, or the
\* program died before there was a profile of it.
Endings == {"ran", "failed", "unsampled", "unstarted", "died"}

Unprofiled == {"unstarted", "died"}

Wrote(ending) == ending \in {"ran", "failed"}

\* A failed instrument is tried again.
WrongNextAttempt == call.attempt

NextAttempt == call.attempt + 1

Add(spied, ending) == [last |-> ending, all |-> spied.all \cup {ending}]

Retry(ending) ==
  /\ call' = [call EXCEPT !.at = "unlinking", !.attempt = NextAttempt, !.spied = Add(@, ending)]
  /\ UNCHANGED <<copy, ledger, answer, calls>>

\* measure_under and the handler around it, which tells the subject from the instrument by
\* the file; harvest reads the one that is there, and one cut short does not parse.
Spied(ending) ==
  LET report == IF Wrote(ending) THEN <<calls, call.attempt>> ELSE tree.report
      Answered(why) == Answer(why, Add(call.spied, ending))
  IN  /\ call.at = "spying"
      /\ tree' = [tree EXCEPT !.report = report]
      /\ \/ ending \in {"ran", "unsampled"} /\ Answered("recorded") /\ Record({tree.source}, {}, report)
         \/ ending \in {"ran", "unsampled"} /\ Answered("JSONDecodeError") /\ UNCHANGED ledger
         \/ /\ ending \in {"failed"} \cup Unprofiled /\ report # NoReport
            /\ Answered("WorkloadFailed") /\ UNCHANGED ledger
         \/ /\ ending \in {"failed"} \cup Unprofiled /\ report = NoReport
            /\ IF call.attempt < ATTEMPTS THEN Retry(ending)
               ELSE Answered("InstrumentFailed") /\ UNCHANGED ledger

-----------------------------------------------------------------------------
(* collect/workspace.py *)

\* An answer at once, to a call that is nothing but its answer.
AtOnce(tool, why, tree2) ==
  /\ call = NoCall /\ calls < MaxCalls
  /\ calls' = calls + 1 /\ tree' = tree2
  /\ answer' = [tool |-> tool, why |-> why, spied |-> Unspied]
  /\ UNCHANGED <<copy, call, ledger>>

\* write_file creates, under coldfix/ and never over anything. coldfix itself passes for
\* a file under it, and no driver can be written once it is one.
WriteFile ==
  \/ \E d \in Drivers :
       IF tree.scratch = "file" THEN AtOnce("write_file", "OSError", tree)
       ELSE IF tree.drivers[d] # 0 THEN AtOnce("write_file", "FileExistsHere", tree)
       ELSE AtOnce("write_file", "answered",
                   [tree EXCEPT !.scratch = "directory", !.drivers[d] = calls + 1])
  \/ IF tree.scratch # "none" THEN AtOnce("write_file", "FileExistsHere", tree)
     ELSE AtOnce("write_file", "answered", [tree EXCEPT !.scratch = "file"])

\* A command may do anything to the worktree; past its timeout its shell is killed.
Bash ==
  \E source \in Source, scratch \in {"none", "directory", "file"}, report \in {NoReport, tree.report} :
    AtOnce("bash", "answered",
      [source |-> source, scratch |-> scratch, report |-> report,
       drivers |-> IF scratch = "directory" THEN tree.drivers ELSE [d \in Drivers |-> 0]])

-----------------------------------------------------------------------------
(* agent/toolbox.py *)

\* The container is stopped at its deadline or its memory limit, or the harness itself
\* crashes and the node raises. py-spy may have written something by then.
Stop ==
  /\ call # NoCall
  /\ \E why \in {"stopped", "raised"} : Answer(why, call.spied)
  /\ \/ UNCHANGED tree
     \/ call.at = "spying" /\ tree' = [tree EXCEPT !.report = <<calls, call.attempt>>]
  /\ UNCHANGED ledger

\* What a call does by itself once it is made.
Step ==
  \/ RunChild \/ WorkloadFailed \/ Measured \/ Unrepeatable \/ Probed
  \/ Copy \/ NoStub \/ Stub
  \/ Unlink \/ \E ending \in Endings : Spied(ending)

Next == Measure \/ Ablate \/ Profile \/ WriteFile \/ Bash \/ Step \/ Stop

Spec == Init /\ [][Next]_vars

\* A call runs on until it answers.
FairSpec == Spec /\ WF_vars(Step)

-----------------------------------------------------------------------------

\* Every run a measurement stands on ran the same program; an ablation's second half ran
\* that program with the one symbol stubbed and nothing else, so that the share it
\* removed is the symbol's (ablate, "Delete the work and see whether the cost goes with it").
OneProgram ==
  \A i \in DOMAIN ledger :
    LET taken == ledger[i] IN
    \E source \in Source :
      /\ taken.before = {source}
      /\ taken.tool = "ablate" => taken.after = {source \cup {taken.symbol}}

\* No tool but bash changes anything that was in the worktree: not the subject's source,
\* not a driver written earlier (ablation: "The subject's source is never touched").
SubjectUntouched ==
  [][\/ answer'.tool = "bash" /\ calls' # calls
     \/ /\ tree'.source = tree.source
        /\ \A d \in Drivers : tree.drivers[d] # 0 => tree'.drivers[d] = tree.drivers[d]]_vars

\* A profile reports the run it was taken of, whatever an earlier attempt or a call that
\* was killed left behind, and the subject is blamed exactly when it failed with a profile
\* of it written. One that dies before there is a profile is not told from a profiler that
\* never started, in every attempt (profiling.profile, InstrumentFailedError).
ProfileIsOfItsRun ==
  /\ \A i \in DOMAIN ledger :
       ledger[i].tool = "profile" /\ ledger[i].report # NoReport => ledger[i].report[1] = ledger[i].call
  /\ answer.tool = "profile" /\ answer.why \notin {"stopped", "raised"} =>
       /\ answer.why = "WorkloadFailed" <=> answer.spied.last = "failed"
       /\ answer.why = "InstrumentFailed" => answer.spied.all \subseteq Unprofiled

\* Every call is answered: nothing is repeated, probed or tried again for ever.
CallAnswered == call # NoCall ~> call = NoCall

=============================================================================
