----------------------------- MODULE Workbench -----------------------------
(***************************************************************************)
(* sandbox/modes.py over sandbox/worktrees.py, sandbox/runner.py and        *)
(* sandbox/patching.py: sessions opened on worktrees of their own, workloads *)
(* run in containers over them, patches applied to them, worktrees removed. *)
(*                                                                          *)
(* The harness makes one call at a time. What it cannot make wait is the    *)
(* docker daemon, and a container whose client was killed. Every git and    *)
(* docker command has a timeout, at which bench/execute.py kills it         *)
(* whatever it was doing.                                                   *)
(*                                                                          *)
(* A path stands for what a policy tells apart; calls that only read        *)
(* (diff, sources, original_of) are left out. MaxRuns bounds the workloads. *)
(***************************************************************************)
EXTENDS Naturals

CONSTANTS
  Sessions,    \* what the caller opens
  Candidates,  \* those opened in ExecutionMode.CANDIDATE
  Paths,       \* what a patch may write
  Protected,   \* the paths under a rule of PatchPolicy
  MaxRuns,
  None

ASSUME WorkbenchAssumption ==
  /\ None \notin Sessions /\ Candidates \subseteq Sessions /\ Protected \subseteq Paths
  /\ MaxRuns \in Nat

VARIABLES
  session,   \* each "new", "refused" by open, "open" or "closed"
  tree,      \* its worktree on disk: "absent", "whole" or in "part"
  patched,   \* the paths its patches have written
  unlisted,  \* history: sessions with a patch let through that git was not able to list
  failed,    \* history: worktrees about which a git command failed, aloud
  at,        \* the step of the call under way, or "idle"
  who,       \* the session it is made on
  patch,     \* the diff it applies
  outcome,   \* what it will return or raise, once it has cleaned up
  run,       \* the last container named
  box,       \* what docker has under each name
  unremoved  \* history: those whose removal failed, aloud or not

treeVars == <<session, tree, failed>>
patchVars == <<patched, unlisted>>
callVars == <<at, who, patch, outcome>>
boxVars == <<run, box, unremoved>>

vars == <<treeVars, patchVars, callVars, boxVars>>

Runs == 1..MaxRuns

BoxStates ==
  {"none", "asked", "created", "starting", "running", "exited", "oom", "gone"}

\* A diff: the paths touched_paths finds in it, those git writes (a rename's source is
\* always among the former), and whether git can parse it.
Patches == [declared : SUBSET Paths, written : SUBSET Paths, readable : BOOLEAN]

NoPatch == [declared |-> {}, written |-> {}, readable |-> FALSE]

Init ==
  /\ session = [s \in Sessions |-> "new"] /\ tree = [s \in Sessions |-> "absent"]
  /\ patched = [s \in Sessions |-> {}] /\ unlisted = {} /\ failed = {}
  /\ at = "idle" /\ who = None /\ patch = NoPatch /\ outcome = "none"
  /\ run = 0 /\ box = [r \in Runs |-> "none"] /\ unremoved = {}

Call(s, step) == at = "idle" /\ at' = step /\ who' = s /\ UNCHANGED outcome

\* It returns or raises.
Leave == at' = "idle" /\ who' = None /\ outcome' = "none"

Step(step) == at' = step /\ who' = IF step = "idle" THEN None ELSE who

-----------------------------------------------------------------------------
(* Workbench.open *)

Open(s) ==
  /\ session[s] = "new"
  /\ Call(s, "add")
  /\ UNCHANGED <<treeVars, patchVars, patch, boxVars>>

\* A dirty tree, no such revision, or a git that says no before it has written.
Decline(s) ==
  /\ session[s] = "new" /\ at = "idle"
  /\ session' = [session EXCEPT ![s] = "refused"]
  /\ UNCHANGED <<tree, failed, patchVars, callVars, boxVars>>

Add ==
  /\ at = "add"
  /\ tree' = [tree EXCEPT ![who] = "whole"] /\ Step("bind")
  /\ UNCHANGED <<session, failed, patchVars, patch, outcome, boxVars>>

\* Refused after it has written (a post-checkout hook fails) or killed at its timeout,
\* `git worktree add` may have cleaned up after itself or not.
AddFails ==
  /\ at = "add"
  /\ \E left \in {"absent", "part", "whole"} : tree' = [tree EXCEPT ![who] = left]
  /\ session' = [session EXCEPT ![who] = "refused"] /\ failed' = failed \cup {who}
  /\ Leave
  /\ UNCHANGED <<patchVars, patch, boxVars>>

Bind ==
  /\ at = "bind"
  /\ session' = [session EXCEPT ![who] = "open"] /\ Leave
  /\ UNCHANGED <<tree, failed, patchVars, patch, boxVars>>

\* The worktree is nobody's yet, and stays.
WrongUnbound == "idle"

\* What follows when Sandbox() raises.
Unbound == "remove"

BindRaises ==
  /\ at = "bind"
  /\ session' = [session EXCEPT ![who] = "refused"]
  /\ Step(Unbound)
  /\ UNCHANGED <<tree, failed, patchVars, patch, outcome, boxVars>>

-----------------------------------------------------------------------------
(* Session.close, and the end of a failed open *)

\* Closed once the worktree is known to be gone.
WrongClosing == "open"

\* What a session is from the moment close is called.
Closing == "closed"

Close(s) ==
  /\ session[s] = "open" /\ Call(s, "remove")
  /\ session' = [session EXCEPT ![s] = Closing]
  /\ UNCHANGED <<tree, failed, patchVars, patch, boxVars>>

Removed ==
  /\ at = "remove"
  /\ tree' = [tree EXCEPT ![who] = "absent"]
  /\ Leave
  /\ UNCHANGED <<session, failed, patchVars, patch, boxVars>>

\* Refused, reported done with files left, or killed: destroy_worktree raises.
NotRemoved ==
  /\ at = "remove"
  /\ \E left \in {tree[who], "part", "absent"} : tree' = [tree EXCEPT ![who] = left]
  /\ failed' = failed \cup {who}
  /\ Leave
  /\ UNCHANGED <<session, patchVars, patch, boxVars>>

-----------------------------------------------------------------------------
(* Session.run: the docker client, and the daemon behind it. A container that is "gone" *)
(* was removed, or was never to be. *)

Become(r, state) == box' = [box EXCEPT ![r] = state]

Exists(state) == state \notin {"none", "asked", "gone"}

\* The container is removed after a run that ended, and not after a timeout.
WrongAfter(result) == IF result = "timeout" THEN "idle" ELSE "destroy"

\* `finally: _destroy(container)`.
After(result) == "destroy"

Run(s) ==
  /\ session[s] = "open" /\ run < MaxRuns
  /\ Call(s, "client") /\ run' = run + 1
  /\ UNCHANGED <<treeVars, patchVars, patch, box, unremoved>>

Client == at = "client"

\* The client asks for a container, and once it has one, for its start.
Ask ==
  /\ Client
  /\ \/ box[run] = "none" /\ Become(run, "asked")
     \/ box[run] = "created" /\ Become(run, "starting")
  /\ UNCHANGED <<treeVars, patchVars, callVars, run, unremoved>>

\* The daemon answers when it does, the client there to hear it or not. A workload
\* that cannot be executed is a container that has exited.
Daemon ==
  /\ \E r \in Runs :
       \/ box[r] = "asked" /\ \E state \in {"created", "gone"} : Become(r, state)
       \/ box[r] = "starting" /\ \E state \in {"running", "exited"} : Become(r, state)
       \/ box[r] = "running" /\ \E state \in {"exited", "oom"} : Become(r, state)
  /\ UNCHANGED <<treeVars, patchVars, callVars, run, unremoved>>

\* There is no docker CLI, or the machine has no process left for it.
Unavailable ==
  /\ at = "client" /\ box[run] = "none"
  /\ outcome' = "unavailable" /\ Step(After("unavailable"))
  /\ UNCHANGED <<treeVars, patchVars, patch, boxVars>>

\* The client has nothing left to wait for, or ends for a reason of its own: it was
\* killed, or lost its daemon.
ClientEnds ==
  /\ Client /\ Step("inspect")
  /\ UNCHANGED <<treeVars, patchVars, patch, outcome, boxVars>>

\* The time counts from the start of the workload.
WrongOverdue(state) == state = "running"

\* The timeout bounds the whole call, container startup included.
Overdue(state) == TRUE

Deadline ==
  /\ Client /\ Overdue(box[run])
  /\ outcome' = "timeout" /\ Step(After("timeout"))
  /\ UNCHANGED <<treeVars, patchVars, patch, boxVars>>

\* What _run_in makes of what `docker inspect` says; of a container that has not ended it
\* says 0, and a container that runs has not been killed.
Report(state) ==
  CASE ~Exists(state) -> "lost" [] state = "oom" -> "memory" [] OTHER -> "result"

\* Or inspect cannot start, is killed, or is answered by an error, which _inspect
\* takes for a container that is not there.
Inspect ==
  /\ at = "inspect"
  /\ outcome' \in {Report(box[run]), "lost", "timeout", "unspawned"}
  /\ Step(After(outcome'))
  /\ UNCHANGED <<treeVars, patchVars, patch, boxVars>>

Gone(state) == IF Exists(state) THEN "gone" ELSE state

\* `docker rm --force`, or there was no such container.
Destroyed ==
  /\ at = "destroy"
  /\ Become(run, Gone(box[run])) /\ Leave
  /\ UNCHANGED <<treeVars, patchVars, patch, run, unremoved>>

Unremoved ==
  unremoved' = IF box[run] \in {"none", "gone"} THEN unremoved ELSE unremoved \cup {run}

\* Refused or killed, whatever the daemon makes of it: ContainerNotDestroyedError.
NotDestroyed ==
  /\ at = "destroy"
  /\ \E state \in {box[run], Gone(box[run])} : Become(run, state)
  /\ Unremoved /\ Leave
  /\ UNCHANGED <<treeVars, patchVars, patch, run>>

\* `docker rm` cannot be started: "No docker CLI means no container was ever created."
NothingToDestroy ==
  /\ at = "destroy"
  /\ Unremoved /\ Leave
  /\ UNCHANGED <<treeVars, patchVars, patch, run, box>>

-----------------------------------------------------------------------------
(* CandidateSession.apply_patch *)

Apply(s) ==
  /\ s \in Candidates /\ session[s] = "open"
  /\ Call(s, "audit") /\ patch' \in Patches
  /\ UNCHANGED <<treeVars, patchVars, boxVars>>

\* _git_destinations: what `git apply --numstat` lists.
Listed == IF patch.readable THEN patch.written ELSE {}

\* The rules are asked about the paths the filter found, and git about none.
WrongAllowed(listed) == patch.declared \cap Protected = {}

Allowed(listed) == listed \subseteq patch.declared /\ patch.declared \cap Protected = {}

Audit ==
  /\ at = "audit" /\ Allowed(Listed)
  /\ Step("check")
  /\ UNCHANGED <<treeVars, patchVars, patch, outcome, boxVars>>

\* A listing that failed for a reason of its own is read as one of nothing.
AuditUnlisted ==
  /\ at = "audit" /\ Allowed({})
  /\ Step("check") /\ unlisted' = unlisted \cup {who}
  /\ UNCHANGED <<treeVars, patched, patch, outcome, boxVars>>

\* git apply --check
Check ==
  /\ at = "check" /\ patch.readable
  /\ Step("apply")
  /\ UNCHANGED <<treeVars, patchVars, patch, outcome, boxVars>>

Write ==
  /\ at = "apply"
  /\ patched' = [patched EXCEPT ![who] = @ \cup patch.written]
  /\ Leave /\ patch' = NoPatch
  /\ UNCHANGED <<treeVars, unlisted, boxVars>>

\* Not allowed, not readable, or it does not fit; git checks all it writes first.
Reject ==
  /\ at \in {"audit", "check", "apply"} /\ (at = "audit" => ~Allowed(Listed))
  /\ Leave /\ patch' = NoPatch
  /\ UNCHANGED <<treeVars, patchVars, boxVars>>

\* A git killed while it writes leaves part of the patch.
ApplyKilled ==
  /\ at \in {"audit", "check", "apply"}
  /\ \E part \in SUBSET (IF at = "apply" THEN patch.written ELSE {}) :
       patched' = [patched EXCEPT ![who] = @ \cup part]
  /\ Leave /\ patch' = NoPatch
  /\ UNCHANGED <<treeVars, unlisted, boxVars>>

-----------------------------------------------------------------------------

\* What the harness does next once a call is under way.
Harness ==
  \/ Add \/ AddFails \/ Bind \/ BindRaises \/ Removed \/ NotRemoved
  \/ Unavailable \/ Deadline \/ Inspect
  \/ Destroyed \/ NotDestroyed \/ NothingToDestroy
  \/ Audit \/ AuditUnlisted \/ Check \/ Write \/ Reject \/ ApplyKilled

Next ==
  \/ \E s \in Sessions : Open(s) \/ Decline(s) \/ Close(s) \/ Run(s) \/ Apply(s)
  \/ Harness \/ Ask \/ ClientEnds \/ Daemon

Spec == Init /\ [][Next]_vars

\* Every command the harness waits for ends, at its timeout if not before; nothing is
\* asked of the daemon or of a client that is not killed.
FairSpec == Spec /\ WF_vars(Harness)

-----------------------------------------------------------------------------
(* Safety *)

Steps ==
  {"idle", "add", "bind", "remove", "client", "inspect", "destroy", "audit", "check", "apply"}

\* Every variable is of its type, a call is made on a session, a workload has a name
\* for its container, and a worktree is removed from under nobody.
TypeOK ==
  /\ session \in [Sessions -> {"new", "refused", "open", "closed"}]
  /\ tree \in [Sessions -> {"absent", "part", "whole"}]
  /\ patched \in [Sessions -> SUBSET Paths]
  /\ failed \subseteq Sessions /\ unlisted \subseteq Sessions
  /\ at \in Steps /\ (IF at = "idle" THEN who = None ELSE who \in Sessions)
  /\ patch \in Patches /\ run \in 0..MaxRuns
  /\ box \in [Runs -> BoxStates] /\ unremoved \subseteq 1..run
  /\ (at \in {"client", "inspect", "destroy"} => run > 0)
  /\ (at = "remove" => session[who] \in {"refused", "closed"})

\* A session that can still be used has the whole of its worktree, however its own
\* close and the opening of others end (Session.close, Workbench.open).
OpenIsWhole == \A s \in Sessions : session[s] = "open" => tree[s] = "whole"

\* A worktree without an open session is one a git command failed on, and said so:
\* no failed open and no edit of the main tree strands one (Workbench.open, the
\* docstring of destroy_worktree).
NothingStranded ==
  \A s \in Sessions :
    tree[s] # "absent" => session[s] = "open" \/ s \in failed \/ who = s

\* Sessions and worktrees account for each other, through every failed open and close
\* (Session.close, Workbench.open).
WorktreesKept == OpenIsWhole /\ NothingStranded

\* A workload that runs is that of the call under way, or one whose removal failed by
\* name or never started: an answer of docker that comes late, to a client that was killed
\* or has ended, starts nothing (Sandbox.run: "destroyed before this returns, on every path").
RunningIsKnown ==
  \A r \in Runs :
    box[r] = "running" =>
      r \in unremoved \/ (r = run /\ at \in {"client", "inspect", "destroy"})

\* What run is about to return describes a workload that ended by itself, not a container
\* whose client is gone (Sandbox.run, "The workload's own result ... and not a report about
\* the client").
ResultIsTheWorkloads ==
  at = "destroy" /\ outcome = "result" => box[run] = "exited"

\* No path under a rule is written by a patch, in whole or in part, whatever the filter
\* made of the diff, as long as git can list what it writes (patching.audit).
ProtectedStayOut ==
  \A s \in Sessions : patched[s] \cap Protected # {} => s \in unlisted

\* Every call ends, though docker never answers.
CallReturns == at # "idle" ~> at = "idle"
=============================================================================
