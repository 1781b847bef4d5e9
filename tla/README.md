# ColdFix, modelled and checked

ColdFix finds a measured waste in a program, writes a test that fails because of it,
searches for a patch, has the patch attacked, and hands the survivor over. What makes
it more than a script is that a run takes hours and money, may die anywhere, may wait
for a person, and must never claim a number nobody measured. This directory is the
formal model of that machinery: TLA+ modules translated from `src/coldfix`, TLC
configurations that check them, and TLAPS proofs.

Paths below are relative to `src/coldfix/` unless they start with `tla/`.

## 1. The system

| Component | State it keeps | Operations | Talks to |
|---|---|---|---|
| pipeline graph and nodes (`pipeline/graph.py`, `nodes.py`, `state.py`) | the checkpointed channels: measurements, findings, resolved, candidates, repaired, audited, runnable, route | seven nodes: refuse, ground, scan, audit_finding, optimize, audit_patch, ship; routers; gates | everything below, through `Resources` |
| checkpoints and resumption (`orchestrator/`, `state/checkpoint.py`) | one checkpoint per super-step and thread; append-only channels | start, resume, rewind, history; the reducer that refuses rewritten history | LangGraph, sqlite |
| evidence ledger (`evidence/ledger.py`) | measurements of this process, by id | record, attest, score | scan, nodes, optimizer |
| finding audit (`evidence/audit.py`, `auditor.py`) | none | attack a finding, ask a reviewing model | ledger |
| failure memory (`evidence/memory.py`, `state/persistent.py`) | a journal of tried candidates, by finding name, shared by all runs | remember, recall | optimize node |
| repair (`evidence/repair.py`, `optimizer.py`, `falsify.py`) | an archive of scored candidates; rounds and refusals of the proposer | must_fail, propose, apply, record, winner | model, worktree, measurement |
| patch audit (`evidence/adversary.py`, `revisions.py`) | comparisons made so far | propose inputs, compare both revisions, judge | model, two worktrees |
| scan loop (`agent/`) | turn count, stall count, what was submitted | one tool call per turn; endings | model, toolbox, ledger |
| cost (`cost/`, `llm/metered.py`) | the bill of this process, steps used per phase and finding | authorize, record, route, escalate | every model call |
| model client (`llm/client.py`) | none | one request with a fallback for refusals | the provider |
| cascade (`cost/cascade.py`) | attempts of one step, a log of escalations | ask, check, ask a dearer tier | every metered call |
| sessions (`sandbox/modes.py`, `worktrees.py`, `runner.py`, `patching.py`) | the open sessions, a worktree each, the containers docker has | open, run with a deadline, inspect and destroy, audit and apply a patch, close | docker, git |
| reset (`sandbox/reset.py`, `verification.py`) | a snapshot, a connection, the baseline | prepare/begin/reset, verify, choose | docker, postgres |
| sandbox guards (`sandbox/production.py`, `realtime.py`, `scope.py`) | none | decline a real-time subject or a database outside the policy, before anything starts | nodes, command line |
| collectors (`collect/`) | one tool call in a worktree; the fixed docker tags of the machine | detect tiers and build images; measure, ablate, profile, shell, read, write a driver | subject program, docker |
| bench (`bench/`) | samples | schedule, execute, compare, certify | collectors |
| command line (`cli/`, `pipeline/report.py`) | configuration | load, open the journal and the worktree, invoke the graph, report | pipeline, one machine shared by several commands |

**What is hard.** A run is a graph of nodes whose updates are checkpointed one
super-step at a time, but a node is minutes of work with durable effects of its own:
the journal is written inside `optimize`, before its checkpoint. The ledger that every
finding is judged against belongs to the process, and a resumed process starts with
an empty one. Two edges loop back and a third one re-enters the scan after a ship, so
channels are read in states that the straight run never produces. `resume` is both
recovery and approval. Findings are named by position, candidates by a count, and the
journal is keyed by the former and deduplicated by the latter. The hazards, each with
its line, are listed under `hazards` in `PROJECT.json` with the properties that would
notice.

### What makes each component correct

- *Graph, nodes, checkpoints*: a node never runs on state it cannot read; a finding is
  judged by a ledger that still has its evidence, and none waits behind another's patch;
  what ships is what was audited; a settled finding stays settled, across crashes.
- *Failure memory*: what the checkpoint says was tried, the journal knows too.
- *Repair*: no edit is paid for twice, a dearer model is asked only when the cheaper one
  failed to say something new, a winner is never slower than the program.
- *Patch audit*: cleared means attacked and survived.
- *Scan loop*: instruments are used after a repeatable measurement, a payoff is proven,
  the loop ends.
- *Cost*: no process is billed past its ceiling, whatever was cached, lost or escalated, and
  a finding is stopped by its own steps.
- *Launch*: nothing of a subject runs before it was screened, every image has the collector
  and, unless another launch has built meanwhile, is the subject's own, no journal is written
  that could be rewritten.
- *Instruments*: a measurement stands on runs of one program, a profile on its own run, and
  only the shell changes the subject.
- *Execution*: a result is whole, a deadline is kept, the command does not survive the call,
  and what does has lost its leader.
- *Sessions*: an open session has its worktree, nothing is left behind or left running unless
  a removal failed, a patch git could list writes no protected path. That a result is the
  workload's does not hold of every client (section 4).
- *Reset*: only a mechanism that can undo this workload is trusted, and experiments then
  start alike.

## 2. The modules

```
FindingLife <= (refined by) -- MCPipeline -- EXTENDS --> Pipeline
BestSoFar   <= (refined by) -- MCRepair   -- EXTENDS --> RepairLoop = Search + Review
Metering    <= (implemented by) -- Spending <-- MCSpending
Launch <-- MCLaunch      Execute      ScanLoop      Instruments      Reset      Workbench

MCPipeline  <-- PipelineProofs         Spending         <-- MeteringProofs
MCRepair    <-- RepairProofs           Launch + Execute <-- CommandProofs
ScanLoop    <-- ScanProofs             Instruments      <-- InstrumentsProofs
Reset       <-- ResetProofs            Workbench        <-- WorkbenchProofs
```

`Pipeline` leaves the inside of a node open: the scan submits any findings the ledger
attests to, a search tries any number of candidates up to the limit, an audit gives any
verdict. `RepairLoop` opens optimize and audit_patch for one finding, `ScanLoop` opens
ground and scan. `Metering` is what every model call in them goes through, `Execute` what
every command does, `Launch` what comes before the first node and everything `refuse`
builds, `Instruments` what a tool call of `ScanLoop` does inside its container, `Workbench`
what a session, its worktree and its containers go through (every git and docker command in
it is one of `Execute`'s calls), `Reset` what is between two experiments on a database.

### Pipeline (`pipeline/graph.py`, `pipeline/nodes.py`, `orchestrator/`, parts of `evidence/`)

The variable `saved` is the checkpoint: the channels of `PipelineState` and the node that
is next. `ledger`, `search`, `took` belong to the process and are lost in a `Crash`;
`journal` is not. A finding is the measurement it cites, and measurements are numbered in
the order they are taken; `shippedAt`, in the checkpoint, is a history the code does not
keep: the last measurement taken when the last patch shipped. `HasRepairs` is whether the
caller gave the run a repair harness: without one `optimize` and `audit_patch` raise, which
is what the shipped command's runs do (`cli/scan.py:228`). Every node is one or more actions
(`GroundDone`, `ScanDone`, `AuditFinding`, `OptimizeBegin` / `SearchMeasure` /
`SearchDone` / `JournalOne` / `OptimizeDone`, `AuditPatch`, `ShipDone`, `RefuseDone`);
`Enter` restores the ledger from the checkpoint, `Raise` is a node that raises and writes
nothing, `RunOut` the recursion limit, `Park` the gate, `Resume` both recovery and
approval. `Return` is the super-step: it applies the update through `AppendOnly`
(`RepeatsHistory`, `RepeatsList`), which refuses an update that rewrites history.

`FindingLife` is the abstract promise about findings: open, judged once, patched, cleared,
shipped, one at a time. `MCPipeline!KeepsPromise` maps a finding's life to its verdict
and the route (`LifeOf`).

### Search, Review, RepairLoop (`evidence/repair.py`, `optimizer.py`, `falsify.py`, `adversary.py`, `revisions.py`)

`Search` has the falsification attempts, the rounds with their rung of the cascade, and
the measurement of one candidate after the other. A model's reply is what is left of it
once it was cut to what was asked for and its proposals were refused for what they are
(`Replies`); what is refused for what was tried before is `Objection`. `Review` has the
adversary's turns and the verdict on the comparisons (what each revision did on each input).
`RepairLoop` alternates them over the checkpoint and the journal, appended one candidate at
a time. `BestSoFar` is the abstract search: an edit tried at most once, the best time only
improves, a crash loses only what was not kept. `MCRepair!KeepsTheBest` maps to it the
archive of the process, or what the next one would recall (`InHand`).

### ScanLoop (`agent/scan.py`, `agent/toolbox.py`, the two nodes that run them)

A turn is `Ask` and then one of what can come back. `Bound` is the order in which the
loop asks its bounds. The transcript (`turn`, `quiet`, `verified`, `late`) is the
loop's; the ledger is the process's; `saved` and `runnable` are the checkpoint's.

### Metering (`cost/`, `llm/metered.py`, parts of `llm/client.py` and `cli/scan.py`)

Prices are integers in twentieths of the smallest price, so that the three cache rates
are whole numbers. `Send` authorises the worst case before the call, `Record` adds what
was billed, `Raise` and `Restart` lose it. `invoice` is the history of what the provider
charges.

### Spending (`cost/budget.py`'s caps, `cost/cascade.py`)

`Spending` EXTENDS `Metering`: its `Ask` / `Answered` / `Recorded` / `Raised` / `Resumed` are
`Metering`'s `Send` / `Answer` / `Record` / `Raise` / `Restart` made by a step of a phase on a
finding. `Tier` is the rung the attempt has reached, `Refused` the cap or the ceiling, `Check`
the deterministic validator, `RecordStep` the counter and the stall, `Tighten` the caps a
caller may lower. `done` is a history the code does not keep: what was completed, by which the
counters are judged. Who records steps and starts cascades is external, because nothing in the
pipeline does (section 4): `Begin` does what the two modules' docs ask of a caller.

### Launch (`cli/`, `state/persistent.py`'s schema, `sandbox/realtime.py`, `production.py`, `collect/tiers.py`, the `refuse` node)

Several commands share one machine. `at` is how far each process is: its configuration
(`Load`, `Plan`, `RunScan`), the journal (`NoJournal` … `CreateTriggers`), the worktree, the
budget (`NotPositive`), the graph (`Invoke`, `Screen`), the images (`BuildWheel` … `Instrumented`),
and then `Work`, any container of any later node. Docker's tags have fixed names and are the
machine's, so another launch may move them between a build and a run (`rebuilt`). A file is
whether its name or its text is a marker's and how far the screening gets in it; `Walked` is the
bounded walk. `Resume` goes on where the checkpoint says, in a process that screens nothing again.

### Instruments (`agent/toolbox.py`, `collect/`)

One worktree that outlives the calls, and one call at a time in a container that does not:
`tree` is the subject's source (the set of symbols stubbed in it), `coldfix/` and its drivers,
and the profile's report file; `copy` the directory an ablation breaks. `RunChild` is one repeat
and remembers which program it ran; `Measured` / `Unrepeatable` / `Probed` are what follows of
the spread, `Copy` / `NoStub` / `Stub` the ablation, `Unlink` / `Spied` / `Retry` the profile
and its second attempt, `WriteFile` and `Bash` a call that is its answer. `Stop` is the
deadline, the memory limit or a harness that crashes, anywhere. How long a run takes is left
out, so whether a spread is accepted is a choice, and so is how a profiled run ends (`Endings`:
the program ended well or badly under the profiler, was too short to sample, died before there
was a profile of it, or the profiler never started). A measured command is taken not to edit the
program it measures and to leave nothing running.

### Execute (`bench/execute.py`)

The command and its descendants fork, leave the group, write, close and exit as they
like (`Subject`); the harness is `execute()` line by line of its waiting and signalling, the
wait after each signal included (`GraceReturns` / `GraceExpires`, `KillReturns` /
`KillExpires`); `Read` and `Eof` are the reader threads; `Timer` is the deadline of the place
it is in.

### Reset (`sandbox/reset.py`, `sandbox/verification.py`)

The database is its committed rows and its sequence, plus what the rollback's own
connection has open. `prepare`, the fingerprint, `begin`, the workload and the two
halves of `reset` are steps of their own; any of them may fail. `offered` is any order
of any of the three mechanisms, `workload` any combination of what it writes, through
whom, and in which process; after `certified` the same steps are the experiments.

### Workbench (`sandbox/modes.py`, `worktrees.py`, `runner.py`, `patching.py`)

The harness makes one call at a time: `at` is the step it is in and `who` the session it is
made on. `Open` / `Add` / `Bind` are `Workbench.open`, with a `git worktree add` that may be
killed or refuse after it has written (`AddFails`) and a `Sandbox()` that may raise; `Close` /
`Removed` / `NotRemoved` are `Session.close`. `Run` starts a docker client (`Ask`), which may
end at any time and of itself (`ClientEnds`, on which nothing is assumed); its daemon
(`Daemon`) answers when it does, also after the client ended or was killed at the `Deadline`.
`Inspect` and `Destroyed` / `NotDestroyed` / `NothingToDestroy` follow. `Apply` / `Audit` /
`Check` / `Write` are a patch: a diff is what the filter found in it (`declared`), what git
writes and whether git can read it; `AuditUnlisted` is an audit whose `numstat` failed for a
reason of its own. `failed`, `unremoved` and `unlisted` are histories: the worktrees a git
command failed on, the containers whose removal failed or could not start, the sessions with
a patch let through that git had not listed.

## 3. The runs

| Run | Question | Bounds and why they are enough |
|---|---|---|
| `Pipeline` | routes and state agree, evidence is there, no finding waits behind another, the history is not repeated, what ships and what the gate shows was audited, the checkpoint never runs ahead of the journal, a run keeps `FindingLife`, every invocation ends | two runs sharing a journal, so that one recalls the other's candidates; two findings, offered both at once or one after a ship; four measurements, enough for a ship, a second scan and a stale id; two candidates, where the archive fills; the one gate is before ship, so the optimize / audit_patch loop runs inside one invocation up to the recursion limit of nine; crashes and raises anywhere |
| `Repair` | nothing measured twice, escalation earned, no search does worse than the one before, cleared was compared, every node ends, the loop is a `BestSoFar` | two edits under two approaches, three rounds of two candidates: a duplicate and a rename both happen; five results (tests broken, output broken, too much memory, two winners); all 16 pairs of what two revisions show, on two inputs, two turns; a journal, with crashes between its appends |
| `ScanLoop` | instruments after a measurement, payoffs proven, the loop ends | six turns over a stall of three, so each bound can be the first met; two claims where one is kept; four measurements, more than one attempt needs |
| `Spending` | the ceiling of a process, the invoice of a run, who is stopped by what | three tiers at the price book's proportions and a ceiling a few worst cases wide, so that either a cap or the ceiling comes first; caps of one and three around a stall of two; two findings and two conclusions, which are symmetric; three calls, one cascade to its end; one lost bill |
| `Execute` | the result is whole, the leader does not outlive the call and what does has no leader, the call ends | two descendants (one may leave the group, the other not), a pipe of one chunk and two writes, so that a full pipe blocks |
| `Reset` | certified is sound, experiments start alike, the choice ends | three cycles: a first observation, one that can differ, one after it; every order of every subset of the mechanisms |
| `Workbench` | an open session has its worktree and nothing is stranded, what runs on is what a removal failed on, protected paths stay out, every call ends | two sessions, one of each mode; one path under a rule and one not; two workloads, so that one may come to life during the other; clients that end whenever they like, a docker CLI and a git that may fail at any call |
| `Launch` | nothing runs unscreened, every image has the collector and is the subject's unless another launch has built meanwhile, the journal is guarded | two commands, the least that can take a tag, a database or a worktree from each other; four subjects on either side of the walk's bound (a marker inside it, one beyond it, one in a name, none); every configuration |
| `Instruments` | a measurement is of one program, a profile of its run, the subject is untouched, every call is answered | two repeats, two symbols, one driver; three calls: one leaves something behind, one meets it, one is measured after; calls name files of the workspace |
| `Pipeline_evidence` | *violation*: "no finding can outlive its own evidence" | two measurements, one of them taken before the first ship, and up to three findings of one run; a recursion limit of twelve, with room for the scan after a ship |
| `Workbench_result` | *violation*: the result is the workload's, "not a report about the client" | as `Workbench` |
| `Instruments_original` | *violation*: "The subject's source is never touched" | as `Instruments`, and a call may name a file by an absolute path |

Every property has a mutant: a definition changed as a plausible bug would change it
(`Wrong...` beside the definition), under which TLC finds the property violated.

**Symmetry** is used in `Spending` alone, on findings and on conclusions: neither is named
by a constant or told apart by an action, and the run checks invariants only.

**Deadlock** is checked in `Pipeline`. It is not where the system really stops: a finding
cleared or given up (`Repair`), every call made (`Spending`, `Instruments`), every session
closed (`Workbench`), a call that has returned (`Execute`), a scan that is done
(`ScanLoop`), no reliable reset (`Reset`), every command refused or ended (`Launch`).

**Fairness.** An invocation of the graph is one synchronous call, so weak fairness is on its own
step (`Pipeline`, `Repair`, `Reset`) and never on a crash, a resumption or a person. In
`ScanLoop` it is on `Turn`: every model and tool call has a timeout. In `Execute` it is on the
deadlines, the harness and the reader threads, and the subject owes nothing. In `Workbench` it
is on the harness alone, which kills every command it waits for at its timeout; docker's daemon
and its clients owe nothing. In `Instruments` it is on `Step`, what a call does by itself once
it was made: its container runs on without anyone's help, and is killed at its deadline (`Stop`,
which owes nothing) if it should not. In `Reset` it is on the whole of `choose_reset`, whose
waits are bounded (`_DOCKER_TIMEOUT_SECONDS`, `_READY_TIMEOUT_SECONDS`) except for statements of
postgres itself, which are assumed to return. `Launch` and `Spending` state none: what ends a
command or a cascade there is a person, a builder or the provider.

## 4. Where code and documents disagree

Three disagreements have a run:

1. **A finding outlives its evidence** (`Pipeline_evidence`). `findings_per_scan` says that
   minting one "is what keeps the backlog empty, so no finding can outlive its own evidence"
   (`nodes.py:150-154`). It does keep the backlog empty (`BacklogIsEmpty`, proved), but the
   scan after a ship restores every measurement of the run (`nodes.py:234`), is told to start
   from the one grounding took (`nodes.py:491-493`), and a claim on that one is attested: the
   finding is audited and repaired from a measurement of the program before the patch.
2. **A result is a report about the client** (`Workbench_result`). Once the docker client is
   gone, for whatever reason, the daemon is asked for the exit code (`runner.py:403`,
   `526-544`). Of a container that never started, or still runs, that is 0, and it is returned
   as the workload's own result, which `runner.py:353-356` says it is; `finally` then removes
   the container.
3. **An ablation of an absolute path breaks the original** (`Instruments_original`). `copy /
   path` is the absolute path itself (`collect/ablation.py:174`), so the stub is written to
   the worktree and stays; the copy, unstubbed, is measured. A path of enough `..` does
   the same.

Others are known and have no run.

*The pipeline.* A process that dies between the checkpoint of `audit_patch` and the park is
resumed past the gate and ships what nobody was shown (`graph.py:220`, against `158-159`). A
run that ends by `escalate`, or finds nothing better in another round, keeps `repaired`, and
`cli/scan.py:336` prints READY TO SHIP, where `report.py:181-197` says only a parked run is
at the gate. The archive of a finding opens with other findings' candidates (`nodes.py:561`,
`576`); ids of candidates collide after a crash between journal and checkpoint
(`optimizer.py:242-247`); a search that fails loses its candidates (`nodes.py:293`);
`another_round` is bounded by the recursion limit alone (`checkpointing.py:214-216`); a patch
that broke comes back: it was journalled as a winner before it was attacked, nothing tells the
archive otherwise, so the same winner is handed over and may be cleared on other inputs
(`nodes.py:310`, where `memory.py:95-97` calls it "exactly the one the next round must not
propose again"); the shipped command gives no repair harness (`cli/scan.py:228-230`), so a run
of its that proves a finding raises at `optimize`, as its own plan says; a
search's numbers are not checkpointed (`pipeline/state.py:41`, `64-65`). A measurement that
verifies on the last turn is not kept (`agent/scan.py:265-267`, `nodes.py:59`), and replies
nobody can read do not count as a stall (`scan.py:302`).

*Money.* Phase caps have no caller that counts: nothing in the pipeline calls `record_step`
(`cost/budget.py:289-291`, `415`) or `cascade` (`falsify.py:133` repeats the loop by hand). The
ceiling is per process (`cli/scan.py:121`, `236`). `tighten` can lift a lowered cap back to the
compiled one. `EscalationLog` counts only cascades that returned (`cascade.py:199-207`,
`299-311`), so a validator that rejects everything looks like one that never rejected.

*Commands.* Once the leader of a process group is collected the group can no longer be named
(`bench/execute.py:267`), so the descendants of a command that exited by itself and left them
holding its pipes are never signalled, and those of one that ended on SIGTERM never killed,
where the docstring says "Terminate the child and everything it started" (`259`);
`OnlyBehindItsLeader` is what does hold.

*Launching.* Docker's tags have fixed names, so of two launches on one machine one may be
measured in the image of the other's subject, where `nodes.py:193-197` and `tiers.py:31-33`
speak of the image this run built; `OwnImageUnlessRebuilt` is what does hold. A ceiling of 0 is
loaded, and refused by `Budget` only after the journal and the worktree exist. The worktree of a
run is never destroyed, so the command cannot be given again after it was interrupted. A run is
named by directory and revision, so repositories of one name collide. Files that cannot be read,
directories that are skipped and what lies past `MAX_FILE_BYTES` are not screened.

*Instruments.* `output_changed` compares digests even where the outputs of the repeats differed.
A command that names the subject by an absolute path runs the original, not the stubbed copy. A
one-line `def` loses its header to the stub and is then reported as having stopped the program.
What the ablation returns, and its symbol, are looked at only after the first measurement. The
noise of the second one is not. The exit code of the probe is ignored. A subject that dies
before py-spy has written a profile is reported as the instrument's failure, "not implicated",
after a second attempt (`profiling.py:200-208`). Descendants of a workload outlive its `wait4`
(`_child_posix.py:45`) and run beside the next repeat. A `write_file` of `coldfix` makes it a
file, and no driver can be written any more.

*Bench.* `compare` of two variants with one label compares a variant with itself; `certify` with
a target in [0.99, 1) certifies although nothing is detectable.

*Reset.* `choose_reset` judges a restart by what a rollback that drifted left behind, and rejects
it, where `verification.py:332` calls it the fallback; a snapshot chosen after a rollback
restores the changed state by the same path.

*Sessions and containers.* A `docker rm` that cannot be started (no process left on the machine,
after a `docker run` that was) is taken for a docker that was never there (`runner.py:554`), so
a container may run on without a word, where `runner.py:145-147` and `350` say the failure is
never swallowed and the container gone on every path; `RunningIsKnown` excepts it by
`unremoved`. A `git apply --numstat` that fails for a reason of its own reads as a patch that
writes nothing (`patching.py:488-489`), and its protected paths pass if the filter missed them;
`ProtectedStayOut` excepts it by `unlisted`. A close whose removal failed cannot be tried again,
and the session then says its worktree "no longer exists" (`modes.py:99`, `156-159`). An
inspection that times out is reported as the workload's timeout (`runner.py:403`). A `git
worktree add` or `git apply` killed at its timeout leaves what it had written (`AddFails`,
`ApplyKilled`), and so does a `git worktree add` that fails after writing, for a post-checkout
hook (`worktrees.py:243-246`); the error is raised, and the worktree is nobody's. A container
whose creation outlives the removal by name stays, created and never started.

## 5. The proofs

`tlapm` checks every proof from nothing. For all values of the constants:

| Module | Theorems | Argument |
|---|---|---|
| `PipelineProofs` | `RouteSafety`, `EvidenceSafety`, `AuditSafety`, `ShipSafety`, `BacklogSafety` | The inductive invariant `IInv` relates the checkpoint's route to its channels, its findings to its measurements, the process's ledger to both, and what is being searched to the finding in hand. `StateAndRouteAgree` alone is not inductive: whether a ship may be reached depends on which finding was patched, and whether the ledger has what is cited depends on where in a node the process is. One lemma per node; `ReturnCases` reduces each to what its update does to the checkpoint. `BacklogSafety` assumes `FindingsPerScan = 1`, the case the code defends: on top of `IInv`, `Alone` says that at most one finding is open and that none is when a scan begins, and `FindingMoves` sorts every step into five moves of the findings and their verdicts. |
| | `ReportSafety` | `PatchIsOne`: a patch in hand is for a finding still sound, and unless it is about to be audited the audit on record is its own. |
| | `PromiseKept` (`FindingLife`) | Again for `FindingsPerScan = 1`. `Steadfast` collects what the mapping needs, `StepMoves` sorts every step into the moves of a finding's life, and one lemma per move shows that it is a step of `FindingLife` or leaves every life alone. |
| | `HistorySafety`, `JournalSafety` | One invariant for both, `Tracked`. `Measured`: what a search adds was measured after everything in the checkpoint, so handing it back cannot repeat history. `Journalled`: what a search has filed is in the journal of its finding, and a node returns only when all of it is filed. |
| `RepairProofs` | `OnceSafety`, `EscalationSafety`, `ComparedSafety` | An archive begins with what was recalled, so the invariant speaks of what outlives the process too. `Recalled`: the memory (the journal, or the checkpoint where there is none) is numbered in the order of measurement, holds every candidate of the checkpoint at its number, and no edit twice. `Continued`: a search's archive begins with the memory. `Pending`: what is still to be measured is new, numbered from the archive's end, there is room for it, and it is of the last round. With `OnRecord`, that a measured candidate is among the ids of its round, a rung once spent stays spent: no candidate of an older round is measured later. |
| | `BestKept` (`BestSoFar`) | `FastestIs`: the best time is the least of a finite set of numbers, so it exists; `FastestImproves`: one candidate more never worsens it. Measuring a candidate is a `Try`, journalling one or returning a `Keep`, a crash a `Lose`; every other step stutters. |
| `ScanProofs` | `MeasuredSafety`, `FindingSafety` | The part of the invariant that speaks of the checkpoint and the saved prefix of the ledger survives every turn, raise and crash (`CheckpointHolds`); the other part says that in the measuring phase a measurement is in the ledger. |
| `MeteringProofs` | `CeilingSafety`, `InvoiceSafety`, `SpendingSafety` | What is authorised is reserved (`IInv`): the worst case covers every split of the prompt among the cache's rates. `Charged` bounds the invoice by the ceilings of the bills lost, and rests on the former. `SpendingIsMetered`: every step of `Spending` is a step of `Metering` or leaves the bill alone, so caps and cascades inherit both. |
| | `StopSafety` | The code keeps counters and the last conclusions, the property speaks of the history of completed steps. `Counted`: a counter is the number of its steps in the history. `Within`: a step that was let ask still has room when it is recorded. `Echoed`: the conclusions a counter has seen are those of its last steps, none left out between (`Lists`). |
| `ResetProofs` | `CertifiedSafety`, `StartSafety` | A trial that has not drifted begins every cycle at its baseline (`Returns`), so one cycle speaks for those after it. Two things make that inductive: ids are drawn ahead of every row until a rollback has put the sequence back behind rows it could not undo (`Ordered`, and a rollback is tried once: `Singular`), so a committed write cannot go unseen; and a mechanism that terminates connections leaves a workload on one of them no second cycle (`Severed`). |
| `WorkbenchProofs` | `WorktreeSafety`, `KnownSafety`, `ProtectedSafety` | One invariant for each third of the module. `TreeInv`: where the call is determines what its session's tree may be, and a session not yet opened has none. `BoxInv`: a container that has been told to start, not only one that runs, is the current call's or one whose removal failed. `PatchInv`: past the audit, what a diff writes is declared and nothing declared is under a rule, unless the session is on record as `unlisted`. None assumes anything of docker or of git. |
| `CommandProofs` (`Execute`) | `TypeSafety`, `ResultSafety`, `LeaderSafety`, `SurvivorSafety` | The place of the harness determines what has been waited for, signalled and read; so a call that gives up on a group without having killed it has found its leader collected. |
| `CommandProofs` (`Launch`) | `ScreenSafety`, `CollectorSafety`, `ImageSafety`, `JournalSafety` | A run belongs to the launch that made its worktree, and its checkpoint says where that launch is (`Owned`); so what a process past the screening holds was screened, by it or by the one it resumes (`Screened`). A tag that was built keeps the collector whoever builds it next (`Carried`), and its subject while nobody else does (`Own`). A launch that may write has made the triggers itself (`Guarded`). |
| `InstrumentsProofs` | `ProgramSafety`, `SubjectSafety`, `ProfileSafety` | The place of a call determines its tool and its half (`Placed`), what its runs so far ran (`OneSubject`: the worktree's program, or that and the one stub) and what its failed attempts were (`Unreported`: they left no profile, and no report is about). The first two theorems assume that no call names a file by an absolute path; without it they are false (section 4). |

Assumptions are the named ones of the modules (`ScanAssumption` and its like): bounds and
prices are naturals, positive where the code's are, and sentinels are no members of the
sets beside them.

Every invariant, action property and refinement that a passing run checks is stated by one
of these theorems.

**Only model-checked:** liveness (`InvocationEnds`, `NodeEnds`, `LoopEnds`, `CallEnds`,
`ChoiceEnds`, `CallReturns`, `CallAnswered`): it rests on `ENABLED`, which is out of the
prover's reach. A scan that keeps more than one finding is out of the hypotheses of
`BacklogSafety` and `PromiseKept`, and of the run.

## 6. What is not modelled

Starting an existing thread again, `rewind`, and asynchronous durability: a checkpoint is
written before the next step here, as `orchestrator/resume.py` asks for, while `cli/scan.py:324`
invokes the graph itself, without asking, and a crash of that one invocation may lose a
super-step more; prompts and
replies beyond what the code tells apart; the SQL of the store; `EscalationLog` and the
statistics that would promote a step; how much of an output `_BoundedCapture` keeps; Windows;
what a session's reads return (`diff`, `sources`, `original_of`), the parsing of hunks and the
matching of globs; request digests and recorded replies; `sandbox/scope.py` and
`collect/attachment.py`, which have no caller; the arithmetic of a profile's samples; the layout
of the report. `Launch` takes a build killed at its timeout not to have moved its tag, and
resumes only runs of its own launches. The floating-point statistics of `bench/` are out of TLC's
reach; its schedule and certification are sequential arithmetic with no caller in the pipeline.
`src/spikes/`, `src/tools/` and the tests are not part of the program. `PROJECT.json` lists each
component with its reason.

## 7. What comes next

In this order, with the runs of settled disagreements giving way where the list of runs
gets long:

1. `History`: the append-only channels under rewind and a thread started twice.
2. `Capture`: the head and tail `_absorb` keeps against a reference definition, and the
   marker `text` puts between them.
3. `Schedule`: the interleaved order of `bench/interleaving.py` against its balance, and the
   verdicts of `bench/certification.py`.
4. The matcher of protected paths (`patching._match_segments`) against a reference definition.
5. Violation runs for the patch that broke and comes back, the group that outlives its
   leader, and the gate that a resumption passes.
