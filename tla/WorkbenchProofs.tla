-------------------------- MODULE WorkbenchProofs --------------------------
(***************************************************************************)
(* What a session promises about its worktree, its containers and its       *)
(* patches, for any number of sessions and workloads. Three invariants, each *)
(* over the one before it: where the call under way stands with its worktree, *)
(* what docker has under each name, and how far a patch has been audited.   *)
(***************************************************************************)
EXTENDS Workbench, TLAPS

-----------------------------------------------------------------------------
(* Worktrees *)

InUse == {"client", "inspect", "destroy", "audit", "check", "apply"}

\* The step of a call says how far its session and its worktree are.
Placed ==
  /\ at = "add" => session[who] = "new" /\ tree[who] = "absent"
  /\ at = "bind" => session[who] = "new" /\ tree[who] = "whole"
  /\ at \in InUse => session[who] = "open"

\* A session nobody has opened has no worktree.
Unopened == \A s \in Sessions : session[s] = "new" => tree[s] = "absent" \/ who = s

TreeInv == TypeOK /\ Placed /\ Unopened /\ OpenIsWhole /\ NothingStranded

LEMMA TreeInit == Init => TreeInv
BY WorkbenchAssumption, SMT
   DEF Init, TreeInv, TypeOK, Placed, Unopened, OpenIsWhole, NothingStranded, InUse, Steps,
       Patches, NoPatch, Runs, BoxStates

LEMMA TreeNext == TreeInv /\ [Next]_vars => TreeInv'
<1> SUFFICES ASSUME TreeInv, [Next]_vars PROVE TreeInv'
  OBVIOUS
<1> USE WorkbenchAssumption
    DEF TreeInv, TypeOK, Placed, Unopened, OpenIsWhole, NothingStranded, InUse, Steps,
        treeVars, patchVars, callVars, boxVars, Call, Leave, Step
<1>1. ASSUME NEW s \in Sessions, Open(s) PROVE TreeInv'
  BY <1>1 DEF Open
<1>2. ASSUME NEW s \in Sessions, Decline(s) PROVE TreeInv'
  BY <1>2 DEF Decline
<1>3. ASSUME NEW s \in Sessions, Close(s) PROVE TreeInv'
  BY <1>3 DEF Close, Closing
<1>4. ASSUME NEW s \in Sessions, Run(s) PROVE TreeInv'
  BY <1>4 DEF Run
<1>5. ASSUME NEW s \in Sessions, Apply(s) PROVE TreeInv'
  BY <1>5 DEF Apply
<1>6. CASE Harness
  <2>1. CASE Add
    BY <2>1 DEF Add
  <2>2. CASE AddFails
    BY <2>2 DEF AddFails
  <2>3. CASE Bind
    BY <2>3 DEF Bind
  <2>4. CASE BindRaises
    BY <2>4 DEF BindRaises, Unbound
  <2>5. CASE Removed
    BY <2>5 DEF Removed
  <2>6. CASE NotRemoved
    BY <2>6 DEF NotRemoved
  <2>7. CASE Unavailable
    BY <2>7 DEF Unavailable, After
  <2>8. CASE Deadline
    BY <2>8 DEF Deadline, Client, After
  <2>9. CASE Inspect
    BY <2>9 DEF Inspect, After
  <2>10. CASE Destroyed
    BY <2>10 DEF Destroyed, Become, Gone, BoxStates
  <2>11. CASE NotDestroyed
    <3>1. box' \in [Runs -> BoxStates]
      BY <2>11 DEF NotDestroyed, Become, Gone, BoxStates
    <3>2. unremoved' \subseteq 1..run'
      BY <2>11 DEF NotDestroyed, Unremoved
    <3>3. QED
      BY <2>11, <3>1, <3>2 DEF NotDestroyed
  <2>12. CASE NothingToDestroy
    BY <2>12 DEF NothingToDestroy, Unremoved
  <2>13. CASE Audit \/ AuditUnlisted
    BY <2>13 DEF Audit, AuditUnlisted
  <2>14. CASE Check
    BY <2>14 DEF Check
  <2>15. CASE Write
    BY <2>15 DEF Write, Patches, NoPatch
  <2>16. CASE Reject
    BY <2>16 DEF Reject, Patches, NoPatch
  <2>17. CASE ApplyKilled
    BY <2>17 DEF ApplyKilled, Patches, NoPatch
  <2>18. QED
    BY <1>6, <2>1, <2>2, <2>3, <2>4, <2>5, <2>6, <2>7, <2>8, <2>9, <2>10, <2>11, <2>12,
       <2>13, <2>14, <2>15, <2>16, <2>17 DEF Harness
<1>7. CASE Ask \/ ClientEnds
  BY <1>7 DEF Ask, ClientEnds, Client, Become, BoxStates
<1>8. CASE Daemon
  BY <1>8 DEF Daemon, Become, BoxStates
<1>9. CASE UNCHANGED vars
  BY <1>9 DEF vars
<1>10. QED
  BY <1>1, <1>2, <1>3, <1>4, <1>5, <1>6, <1>7, <1>8, <1>9 DEF Next

\* The invariant of the worktrees holds of every reachable state.
LEMMA TreeHolds == Spec => []TreeInv
BY TreeInit, TreeNext, PTL DEF Spec

\* A session can be used only while its whole worktree is there, for any number of
\* sessions opened and closed in any order (Session.close sets _closed first).
LEMMA WholeSafety == Spec => []OpenIsWhole
<1>1. TreeInv => OpenIsWhole
  BY DEF TreeInv
<1>2. QED
  BY <1>1, TreeHolds, PTL

\* A worktree nobody holds open is one git failed on, aloud (Workbench.open).
LEMMA StrandedSafety == Spec => []NothingStranded
<1>1. TreeInv => NothingStranded
  BY DEF TreeInv
<1>2. QED
  BY <1>1, TreeHolds, PTL

\* Both: an open session has its worktree, and a worktree its session, or a failure that
\* was reported (Session.close, Workbench.open).
THEOREM WorktreeSafety == Spec => []WorktreesKept
<1>1. OpenIsWhole /\ NothingStranded => WorktreesKept
  BY DEF WorktreesKept
<1>2. QED
  BY <1>1, WholeSafety, StrandedSafety, PTL

-----------------------------------------------------------------------------
(* Containers *)

\* No name is used that was not given.
Unasked == \A r \in Runs : r > run => box[r] = "none"

\* The container a call leaves will not run, or its removal failed: only the call that
\* named it asks for its start.
Settled ==
  \A r \in Runs :
    box[r] \in {"starting", "running"} =>
      r \in unremoved \/ (r = run /\ at \in {"client", "inspect", "destroy"})

BoxInv == Unasked /\ Settled

LEMMA BoxInit == Init => BoxInv
BY SMT DEF Init, BoxInv, Unasked, Settled

LEMMA BoxNext == TreeInv /\ BoxInv /\ [Next]_vars => BoxInv'
<1> SUFFICES ASSUME TypeOK, BoxInv, [Next]_vars PROVE BoxInv'
  BY DEF TreeInv
<1> USE WorkbenchAssumption
    DEF TypeOK, BoxInv, Unasked, Settled, Steps, Runs,
        treeVars, patchVars, callVars, boxVars, Call, Leave, Step
<1>1. ASSUME NEW s \in Sessions, Open(s) PROVE BoxInv'
  BY <1>1 DEF Open
<1>2. ASSUME NEW s \in Sessions, Decline(s) PROVE BoxInv'
  BY <1>2 DEF Decline
<1>3. ASSUME NEW s \in Sessions, Close(s) PROVE BoxInv'
  BY <1>3 DEF Close
<1>4. ASSUME NEW s \in Sessions, Run(s) PROVE BoxInv'
  BY <1>4 DEF Run
<1>5. ASSUME NEW s \in Sessions, Apply(s) PROVE BoxInv'
  BY <1>5 DEF Apply
<1>6. CASE Harness
  <2>1. CASE Add \/ AddFails \/ Bind \/ BindRaises \/ Removed \/ NotRemoved
    BY <2>1 DEF Add, AddFails, Bind, BindRaises, Removed, NotRemoved
  <2>2. CASE Unavailable \/ Deadline \/ Inspect
    BY <2>2 DEF Unavailable, Deadline, Inspect, Client, After
  <2>3. CASE Destroyed
    BY <2>3 DEF Destroyed, Become, Gone, Exists
  <2>4. CASE NotDestroyed
    BY <2>4 DEF NotDestroyed, Become, Gone, Exists, Unremoved
  <2>5. CASE NothingToDestroy
    BY <2>5 DEF NothingToDestroy, Unremoved
  <2>6. CASE Audit \/ AuditUnlisted \/ Check \/ Write \/ Reject \/ ApplyKilled
    BY <2>6 DEF Audit, AuditUnlisted, Check, Write, Reject, ApplyKilled
  <2>7. QED
    BY <1>6, <2>1, <2>2, <2>3, <2>4, <2>5, <2>6 DEF Harness
<1>7. CASE Ask \/ ClientEnds
  BY <1>7 DEF Ask, ClientEnds, Client, Become
<1>8. CASE Daemon
  BY <1>8 DEF Daemon, Become
<1>9. CASE UNCHANGED vars
  BY <1>9 DEF vars
<1>10. QED
  BY <1>1, <1>2, <1>3, <1>4, <1>5, <1>6, <1>7, <1>8, <1>9 DEF Next

\* A workload that runs is that of the call under way, or one whose removal failed, for
\* any number of workloads and a daemon that answers when it likes (Sandbox.run,
\* runner._destroy).
THEOREM KnownSafety == Spec => []RunningIsKnown
<1>1. BoxInv => RunningIsKnown
  BY DEF BoxInv, Settled, RunningIsKnown
<1>2. QED
  BY <1>1, BoxInit, BoxNext, TreeHolds, PTL DEF Spec

-----------------------------------------------------------------------------
(* Patches *)

\* What has passed the audit writes nothing under a rule if git could list what it
\* writes, and what git cannot read it does not write.
Audited ==
  /\ at \in {"check", "apply"} => Allowed(Listed) \/ who \in unlisted
  /\ at = "apply" => patch.readable

PatchInv == Audited /\ ProtectedStayOut

LEMMA PatchNext == TreeInv /\ PatchInv /\ [Next]_vars => PatchInv'
<1> SUFFICES ASSUME TypeOK, PatchInv, [Next]_vars PROVE PatchInv'
  BY DEF TreeInv
<1> USE DEF TypeOK, PatchInv, Audited, ProtectedStayOut, Allowed, Listed, Steps,
        treeVars, patchVars, callVars, boxVars, Call, Leave, Step
<1>1. ASSUME NEW s \in Sessions, Open(s) \/ Decline(s) \/ Close(s) \/ Run(s) \/ Apply(s)
      PROVE  PatchInv'
  BY <1>1 DEF Open, Decline, Close, Run, Apply
<1>2. CASE Harness
  <2>1. CASE Add \/ AddFails \/ Bind \/ BindRaises \/ Removed \/ NotRemoved
    BY <2>1 DEF Add, AddFails, Bind, BindRaises, Removed, NotRemoved, Unbound
  <2>2. CASE Unavailable \/ Deadline \/ Inspect
    BY <2>2 DEF Unavailable, Deadline, Inspect, Client, After
  <2>3. CASE Destroyed \/ NotDestroyed \/ NothingToDestroy
    BY <2>3 DEF Destroyed, NotDestroyed, NothingToDestroy
  <2>4. CASE Audit \/ AuditUnlisted
    BY <2>4 DEF Audit, AuditUnlisted
  <2>5. CASE Check
    BY <2>5 DEF Check
  <2>6. CASE Write
    BY <2>6 DEF Write
  <2>7. CASE Reject
    BY <2>7 DEF Reject
  <2>8. CASE ApplyKilled
    BY <2>8 DEF ApplyKilled
  <2>9. QED
    BY <1>2, <2>1, <2>2, <2>3, <2>4, <2>5, <2>6, <2>7, <2>8 DEF Harness
<1>3. CASE Ask \/ ClientEnds \/ Daemon
  BY <1>3 DEF Ask, ClientEnds, Client, Daemon
<1>4. CASE UNCHANGED vars
  BY <1>4 DEF vars
<1>5. QED
  BY <1>1, <1>2, <1>3, <1>4 DEF Next

\* No patch that git could list writes a path under a rule, in whole or in part, for any
\* diff, whatever the filter made of it (patching.audit against git's own listing).
THEOREM ProtectedSafety == Spec => []ProtectedStayOut
<1>1. Init => PatchInv
  BY DEF Init, PatchInv, Audited, ProtectedStayOut
<1>2. PatchInv => ProtectedStayOut
  BY DEF PatchInv
<1>3. QED
  BY <1>1, <1>2, PatchNext, TreeHolds, PTL DEF Spec
=============================================================================
