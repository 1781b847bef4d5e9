------------------------------- MODULE Launch -------------------------------
(***************************************************************************)
(* What happens before anything is measured: `coldfix scan` from its        *)
(* configuration to the first container of the subject.                     *)
(*                                                                          *)
(*   cli/main.py, cli/scan.py, cli/config.py   one command, a process       *)
(*   state/persistent.py                       the journal's schema         *)
(*   sandbox/worktrees.py                      the run's workspace          *)
(*   pipeline/nodes.py, refuse                 the first node of the graph  *)
(*   sandbox/realtime.py, production.py        what it declines             *)
(*   collect/tiers.py, _docker_cli.py          the images it builds         *)
(*   orchestrator/resume.py                    another process goes on      *)
(*                                                                          *)
(* Several commands share one machine: its docker tags, whose names are     *)
(* fixed, one journal database, one checkpoint file and one worktree root.  *)
(* A run is named after its subject, so `saved` and `worktrees` are by      *)
(* subject. Every node after refuse is the one place "ground" here: what    *)
(* they do is Pipeline's, and all of them run containers of runs_in.        *)
(***************************************************************************)
EXTENDS Naturals, Sequences, FiniteSets

CONSTANTS
  Launches,   \* the commands started on this machine
  Subjects,   \* what they are pointed at: a repository, its revision and its image
  Files,      \* subject -> the files of its worktree, in the order of the walk
  MaxFiles,   \* realtime.MAX_FILES_SCANNED
  None

\* Whether the file's name is a marker's, whether its text holds one, and how far
\* the screening gets: to its text, to its name (binary, unreadable, or a marker past
\* the first MAX_FILE_BYTES), to neither (in a directory skipped or not to be listed).
FileType == [named : BOOLEAN, marked : BOOLEAN, reach : {"text", "name", "none"}]

ASSUME FilesAssumption == Files \in [Subjects -> Seq(FileType)] /\ MaxFiles \in Nat

Tags == {"coldfix-collector", "coldfix-derived"}

ASSUME NoneAssumption == None \notin Subjects \cup Launches \cup Tags

\* An image: whose it is, and whether the collector is in it.
ImageType == [of : Subjects, collector : BOOLEAN]

VARIABLES
  at,         \* where the process of each launch is
  subject,    \* [scan] of its configuration
  database,   \* [scan].database_url: none, one the policy permits, another
  journals,   \* [scan].journal_url: likewise
  funded,     \* [budget] holds amounts that are positive
  worktrees,  \* subject -> the launch whose directory stands under worktree_root
  saved,      \* the checkpoint of each run: the node due next, and runs_in
  tags,       \* what docker's tags name
  store,      \* the journal database: its table, its triggers, and whether it has entries
  ran,        \* history: the last container each launch started, and over what
  rebuilt     \* history: another launch moved a tag since this one built the collector

config == <<subject, database, journals, funded>>
disk == <<worktrees, saved>>
machine == <<tags, store>>
history == <<ran, rebuilt>>
vars == <<at, config, disk, machine, history>>

Databases == {"none", "permitted", "other"}

Init ==
  /\ at = [l \in Launches |-> "new"]
  /\ subject = [l \in Launches |-> None]
  /\ database = [l \in Launches |-> "none"] /\ journals = [l \in Launches |-> "none"]
  /\ funded = [l \in Launches |-> FALSE]
  /\ worktrees = [s \in Subjects |-> None]
  /\ saved = [s \in Subjects |-> [next |-> "none", runsIn |-> None]]
  /\ tags = [t \in Tags |-> None]
  /\ store = [table |-> FALSE, guarded |-> FALSE, entries |-> FALSE]
  /\ ran = [l \in Launches |-> None] /\ rebuilt = [l \in Launches |-> FALSE]

Goto(l, place) == at' = [at EXCEPT ![l] = place]

\* The command ends with a message, a traceback or a report, or dies where it is.
Stop(l, how) == Goto(l, how) /\ UNCHANGED <<config, disk, machine, history>>

-----------------------------------------------------------------------------
(* cli/config.py and cli/scan.py: the command line up to the graph *)

\* What a setting can hold, as _Reader tells them apart. Only Budget and
\* ExchangeRate ask whether an amount is positive.
Settings == {"absent", "malformed", "zero", "good"}

Legible(setting) == setting \in {"zero", "good"}

Load(l) ==
  /\ at[l] = "new"
  /\ \E ceiling, rate, text \in Settings :
       IF ~(Legible(ceiling) /\ Legible(rate) /\ text = "good")
       THEN Stop(l, "refused")
       ELSE /\ \E s \in Subjects, db, jn \in Databases :
                 /\ subject' = [subject EXCEPT ![l] = s]
                 /\ database' = [database EXCEPT ![l] = db]
                 /\ journals' = [journals EXCEPT ![l] = jn]
            /\ funded' = [funded EXCEPT ![l] = "zero" \notin {ceiling, rate}]
            /\ Goto(l, "loaded")
            /\ UNCHANGED <<disk, machine, history>>

\* --plan reports and opens nothing.
Plan(l) == at[l] = "loaded" /\ Stop(l, "planned")

Keys == {"unset", "blank", "set"}

\* run_scan: the two refusals, and connect, which refuses a blank key.
RunScan(l) ==
  /\ at[l] = "loaded"
  /\ \E spend \in BOOLEAN, key \in Keys :
       Stop(l, IF ~spend \/ key = "unset" THEN "refused"
               ELSE IF key = "blank" THEN "failed" ELSE "journal")

\* open_journal, of which a configuration may name none.
NoJournal(l) == at[l] = "journal" /\ journals[l] = "none" /\ Stop(l, "worktree")

\* VerifiedDatabase raises; refuse_shared_store lets any store be beside a file of checkpoints.
JournalRefused(l) == at[l] = "journal" /\ journals[l] = "other" /\ Stop(l, "failed")

CreateTableThen(l, place) ==
  /\ at[l] = "journal" /\ journals[l] = "permitted"
  /\ store' = [store EXCEPT !.table = TRUE]
  /\ Goto(l, place)
  /\ UNCHANGED <<config, disk, tags, history>>

\* A store whose table is there is taken for initialized.
WrongCreateTable(l) == CreateTableThen(l, IF store.table THEN "worktree" ELSE "schema")

\* initialize, its first statement: the table if there is none, and the guard function.
CreateTable(l) == CreateTableThen(l, "schema")

\* Its second: both triggers dropped and made again, in one transaction.
CreateTriggers(l) ==
  /\ at[l] = "schema"
  /\ store' = [store EXCEPT !.guarded = TRUE]
  /\ Goto(l, "worktree")
  /\ UNCHANGED <<config, disk, tags, history>>

\* Repository.create_worktree, at a path that must not exist yet.
CreateWorktree(l) ==
  /\ at[l] = "worktree"
  /\ worktrees[subject[l]] = None
  /\ worktrees' = [worktrees EXCEPT ![subject[l]] = l]
  /\ Goto(l, "resources")
  /\ UNCHANGED <<config, saved, machine, history>>

\* It refuses that path, a tree that is not clean and a revision that is none; git may refuse.
NoWorktree(l) == at[l] = "worktree" /\ Stop(l, "failed")

\* resources_for: Budget and ExchangeRate refuse an amount that is not positive.
NotPositive(l) == at[l] = "resources" /\ ~funded[l] /\ Stop(l, "failed")

\* graph.invoke over the run's thread.
Invoke(l) ==
  /\ at[l] = "resources" /\ funded[l]
  /\ saved' = [saved EXCEPT ![subject[l]].next = "refuse"]
  /\ Goto(l, "refuse")
  /\ UNCHANGED <<config, worktrees, machine, history>>

-----------------------------------------------------------------------------
(* pipeline/nodes.py, refuse: what must not be touched *)

\* _walk: the positions of the files it yields.
Walked(s) == {i \in DOMAIN Files[s] : Files[s][i].reach # "none"}

\* A walk that stops at the bound counts as finished.
WrongTruncated(s) == Cardinality(Walked(s)) > MaxFiles + 1

Truncated(s) == Cardinality(Walked(s)) > MaxFiles

\* Those that come before the bound.
Scanned(s) == {i \in Walked(s) : Cardinality({j \in Walked(s) : j < i}) < MaxFiles}

\* _scan_file: a name is matched whatever the file holds, its text where it can be read.
Detected(f) == f.named \/ (f.marked /\ f.reach = "text")

Clear(s) == ~Truncated(s) /\ \A i \in Scanned(s) : ~Detected(Files[s][i])

\* The node returns: the update and the route are checkpointed together.
Refused(l) ==
  /\ saved' = [saved EXCEPT ![subject[l]].next = "end"]
  /\ Goto(l, "returned")
  /\ UNCHANGED <<config, worktrees, machine, history>>

Declined(s, db) == ~Clear(s) \/ db = "other"

Screen(l) ==
  /\ at[l] = "refuse"
  /\ IF Declined(subject[l], database[l])
     THEN Refused(l)
     ELSE Stop(l, "wheel")

-----------------------------------------------------------------------------
(* collect/tiers.py: what can be measured, found out by doing it *)

Operators(s) == [of |-> s, collector |-> FALSE]

Start(l, what, image) ==
  ran' = [ran EXCEPT ![l] = [what |-> what, over |-> subject[l], database |-> database[l],
                             image |-> image]]

\* build_wheel: uv builds the wheel, once per interpreter, or raises.
BuildWheel(l) == at[l] = "wheel" /\ Stop(l, "probe")

\* can_run: the operator's image with /bin/true, then with its own entrypoint. Docker
\* may refuse either container or not answer in time.
CanRun(l) ==
  /\ at[l] = "probe"
  /\ Start(l, "probe", Operators(subject[l]))
  /\ Goto(l, "collector")
  /\ UNCHANGED <<config, disk, machine, rebuilt>>

CannotRun(l) == at[l] = "probe" /\ Refused(l)

\* docker build -t: the tag is moved from whatever it named.
Build(l, tag, image) ==
  /\ tags' = [tags EXCEPT ![tag] = image]
  /\ rebuilt' = [m \in Launches |-> IF m # l THEN TRUE
                                    ELSE tag # "coldfix-collector" /\ rebuilt[l]]
  /\ UNCHANGED <<config, disk, store, ran>>

\* An image that is there already is taken.
WrongBuildCollector(l) ==
  /\ at[l] = "collector" /\ Goto(l, "derived")
  /\ LET there == tags["coldfix-collector"] IN
     Build(l, "coldfix-collector",
           IF there # None THEN there ELSE [Operators(subject[l]) EXCEPT !.collector = TRUE])

\* FROM the operator's image, with the wheel and pydantic installed.
BuildCollector(l) ==
  /\ at[l] = "collector" /\ Goto(l, "derived")
  /\ Build(l, "coldfix-collector", [Operators(subject[l]) EXCEPT !.collector = TRUE])

NoCollector(l) == at[l] = "collector" /\ Refused(l)

\* FROM the operator's image, as before S-28.1b.
WrongBase(l) == Operators(subject[l])

\* The derived image is FROM the collector's tag.
Base(l) == tags["coldfix-collector"]

BuildDerived(l) ==
  /\ at[l] = "derived" /\ Goto(l, "compose")
  /\ Build(l, "coldfix-derived", Base(l))

\* detect: the tier reached, and the image tool calls run in.
Proceed(l, runsIn) ==
  /\ saved' = [saved EXCEPT ![subject[l]] = [next |-> "ground", runsIn |-> runsIn]]
  /\ Goto(l, "ground")
  /\ UNCHANGED <<config, worktrees, machine, history>>

\* Tier 0, when instrumentation cannot be installed; tier 1 or 2 as there is a compose file.
OsOnly(l) == at[l] = "derived" /\ Proceed(l, "coldfix-collector")
Instrumented(l) == at[l] = "compose" /\ Proceed(l, "coldfix-derived")

-----------------------------------------------------------------------------
(* The nodes after it, and other processes *)

\* A checkpoint that names no image falls back to the operator's.
EntryImage(l) ==
  LET tag == saved[subject[l]].runsIn
  IN  IF tag = None THEN Operators(subject[l]) ELSE tags[tag]

\* A tool call runs in a container over the worktree; a lost candidate is journalled.
Work(l) ==
  /\ at[l] = "ground"
  /\ Start(l, "work", EntryImage(l))
  /\ store' = [store EXCEPT !.entries = @ \/ journals[l] = "permitted"]
  /\ UNCHANGED <<at, config, disk, tags, rebuilt>>

\* The graph parks, with its nodes still due, or has ended.
Return(l) ==
  /\ at[l] = "ground"
  /\ Goto(l, "returned")
  /\ \/ UNCHANGED saved
     \/ saved' = [saved EXCEPT ![subject[l]].next = "end"]
  /\ UNCHANGED <<config, worktrees, machine, history>>

InGraph == {"refuse", "wheel", "probe", "collector", "derived", "compose", "ground"}

\* A docker, git or database call raises out of the command, or the process dies.
Die(l) ==
  /\ at[l] \in InGraph \cup {"journal", "schema", "worktree", "resources"}
  /\ Stop(l, "dead")

\* A resumed run goes on where runs go on.
WrongDue(s) == "ground"

\* The node the checkpoint says is due.
Due(s) == saved[s].next

\* resume: another process goes on with the launch's run, over the same worktree.
Resume(l) ==
  /\ at[l] \in {"dead", "returned"} /\ worktrees[subject[l]] = l
  /\ saved[subject[l]].next \in {"refuse", "ground"}
  /\ Stop(l, Due(subject[l]))

-----------------------------------------------------------------------------

Command(l) ==
  \/ Load(l) \/ Plan(l) \/ RunScan(l)
  \/ NoJournal(l) \/ JournalRefused(l) \/ CreateTable(l) \/ CreateTriggers(l)
  \/ CreateWorktree(l) \/ NoWorktree(l) \/ NotPositive(l) \/ Invoke(l)
  \/ Screen(l) \/ BuildWheel(l) \/ CanRun(l) \/ CannotRun(l) \/ BuildCollector(l) \/ NoCollector(l)
  \/ BuildDerived(l) \/ OsOnly(l) \/ Instrumented(l) \/ Work(l) \/ Return(l)

Next == \E l \in Launches : Command(l) \/ Die(l) \/ Resume(l)

Spec == Init /\ [][Next]_vars

-----------------------------------------------------------------------------
(* Safety *)

\* No container, not even the probe's, is started over a workspace in which a file
\* the screening reads is a real-time system's, or beside a database the policy does
\* not permit: not past the bound of the walk, and not by a resumed run, which does
\* not screen again (nodes.refuse, realtime.ScreenedRepository).
NothingRunsUnscreened ==
  \A l \in Launches : ran[l] # None =>
    /\ ran[l].database # "other"
    /\ \A i \in Walked(ran[l].over) : ~Detected(Files[ran[l].over][i])

\* Every tool call is `python -m coldfix.collect.run` in the container, so each one's
\* image has the collector, whichever launch moved the tags meanwhile and whichever
\* process goes on with the run (tiers.detect, Capabilities.runs_in, _entry_image).
CarriesTheCollector ==
  \A l \in Launches : ran[l] # None /\ ran[l].what = "work" => ran[l].image.collector

\* As long as no other launch builds, a run is measured in the image of its own
\* subject, the one it built, in every process (nodes.refuse, "runs_in").
OwnImageUnlessRebuilt ==
  \A l \in Launches :
    ran[l] # None /\ ran[l].what = "work" /\ ~rebuilt[l] => ran[l].image.of = ran[l].over

\* Nothing is written to a journal whose entries could be rewritten: a process that died
\* between the schema and its triggers leaves the next one to make them, and two that
\* initialize at once do not undo each other (PersistentStore.initialize, append).
JournalIsGuarded == store.entries => store.guarded

=============================================================================
