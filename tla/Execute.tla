------------------------------ MODULE Execute ------------------------------
(***************************************************************************)
(* bench/execute.py on POSIX: one command run to a deadline, its output     *)
(* read by a thread, its process group killed when the deadline passes.     *)
(* Every measurement, every git and docker command goes through it.         *)
(*                                                                          *)
(* The command is the leader of a group of its own. It and what it forks    *)
(* may write, fork, leave the group, close their output, and exit when they *)
(* like, a SIGTERM or not. The two streams are one pipe here: only whether  *)
(* both readers reached the end matters to execute().                       *)
(*                                                                          *)
(* MaxWrites bounds what the processes write.                               *)
(***************************************************************************)
EXTENDS Naturals, FiniteSets

CONSTANTS
  Leader,     \* the command
  Kids,       \* what it may fork, directly or not
  Capacity,   \* chunks the pipe holds before a writer blocks
  MaxWrites

ASSUME ExecuteAssumption ==
  /\ Leader \notin Kids /\ IsFiniteSet(Kids)
  /\ Capacity \in Nat \ {0} /\ MaxWrites \in Nat

Procs == {Leader} \cup Kids

VARIABLES
  alive,     \* the processes that run
  born,      \* those that ever did
  group,     \* those in the leader's process group
  holding,   \* those that keep the pipe's write end open, or whose end is not closed yet
  written, unread,   \* chunks written so far, and still in the pipe
  reader,    \* the reader threads: "reading" or "eof"
  pc,        \* where execute() is
  late,      \* the timer execute() is waiting with has run out
  reaped,    \* popen.wait has collected the leader, and its pid is gone
  sent,      \* the signals sent to the group
  outcome    \* "none", "result" or "timed_out"

processes == <<alive, born, group, holding>>
pipe == <<written, unread, reader>>
harness == <<pc, late, reaped, sent, outcome>>

executeVars == <<processes, pipe, harness>>

\* Popen, in a session of its own, with a reader started on each stream.
ExecuteInit ==
  /\ alive = {Leader} /\ born = {Leader} /\ group = {Leader} /\ holding = {Leader}
  /\ written = 0 /\ unread = 0 /\ reader = "reading"
  /\ pc = "waiting" /\ late = FALSE /\ reaped = FALSE /\ sent = {} /\ outcome = "none"

-----------------------------------------------------------------------------
(* What the subject's processes do *)

\* A child shares its parent's group and its pipe, or redirects its output.
Fork(parent, child) ==
  /\ parent \in alive /\ child \notin born
  /\ alive' = alive \cup {child} /\ born' = born \cup {child}
  /\ group' = IF parent \in group THEN group \cup {child} ELSE group
  /\ \/ parent \in holding /\ holding' = holding \cup {child}
     \/ UNCHANGED holding
  /\ UNCHANGED <<pipe, harness>>

Leave(child) ==
  /\ child \in alive \cap group /\ child # Leader
  /\ group' = group \ {child}
  /\ UNCHANGED <<alive, born, holding, pipe, harness>>

WriteChunk(p) ==
  /\ p \in alive \cap holding /\ written < MaxWrites /\ unread < Capacity
  /\ written' = written + 1 /\ unread' = unread + 1
  /\ UNCHANGED <<processes, reader, harness>>

\* By itself, or by the system once it was killed.
CloseOutput(p) ==
  /\ p \in holding /\ holding' = holding \ {p}
  /\ UNCHANGED <<alive, born, group, pipe, harness>>

Exit(p) ==
  /\ p \in alive
  /\ alive' = alive \ {p} /\ holding' = holding \ {p}
  /\ group' = group \ {p}
  /\ UNCHANGED <<born, pipe, harness>>

Subject ==
  \/ \E parent \in Procs, child \in Kids : Fork(parent, child)
  \/ \E p \in Procs : Leave(p) \/ WriteChunk(p) \/ CloseOutput(p) \/ Exit(p)

-----------------------------------------------------------------------------
(* _BoundedCapture: one thread per stream, until the end *)

Read ==
  /\ reader = "reading" /\ unread > 0
  /\ unread' = 0
  /\ UNCHANGED <<processes, written, reader, harness>>

Eof ==
  /\ reader = "reading" /\ unread = 0 /\ holding = {}
  /\ reader' = "eof"
  /\ UNCHANGED <<processes, written, unread, harness>>

-----------------------------------------------------------------------------
(* execute() *)

Timer ==
  /\ pc # "done" /\ ~late /\ late' = TRUE
  /\ UNCHANGED <<processes, pipe, pc, reaped, sent, outcome>>

\* From one wait to another: `timer` says whether the new one has its own.
GoTo(place, timer) == pc' = place /\ late' = (late /\ ~timer)

\* The leader exited in time. What is left of the deadline is for the readers.
WaitReturns ==
  /\ pc = "waiting" /\ Leader \notin alive
  /\ reaped' = TRUE /\ GoTo("joining", FALSE)
  /\ UNCHANGED <<processes, pipe, sent, outcome>>

WaitExpires ==
  /\ pc = "waiting" /\ late /\ GoTo("killing", TRUE)
  /\ UNCHANGED <<processes, pipe, reaped, sent, outcome>>

\* The leader is gone, so its output is all there.
WrongJoined == TRUE

\* _join_all: the end of both streams.
Joined == reader = "eof"

JoinReturns ==
  /\ pc = "joining" /\ Joined
  /\ outcome' = "result" /\ GoTo("done", TRUE)
  /\ UNCHANGED <<processes, pipe, reaped, sent>>

\* Something that inherited the pipe keeps it open.
JoinExpires ==
  /\ pc = "joining" /\ late /\ ~Joined /\ GoTo("killing", TRUE)
  /\ UNCHANGED <<processes, pipe, reaped, sent, outcome>>

\* There is nothing to kill once the leader has exited.
WrongFirstSignal == IF Leader \in alive THEN "term" ELSE "draining"

\* os.getpgid of a leader already collected raises, and nothing is signalled.
FirstSignal == IF reaped THEN "draining" ELSE "term"

FindGroup ==
  /\ pc = "killing" /\ GoTo(FirstSignal, TRUE)
  /\ UNCHANGED <<processes, pipe, reaped, sent, outcome>>

\* SIGTERM: whoever it reaches may exit, soon or not.
Term ==
  /\ pc = "term" /\ sent' = sent \cup {"TERM"} /\ GoTo("grace", TRUE)
  /\ UNCHANGED <<processes, pipe, reaped, outcome>>

\* The leader's exit ends the escalation.
GraceReturns ==
  /\ pc = "grace" /\ Leader \notin alive
  /\ reaped' = TRUE /\ GoTo("draining", TRUE)
  /\ UNCHANGED <<processes, pipe, sent, outcome>>

\* Asking is enough.
WrongAfterGrace == "draining"

AfterGrace == "kill"

GraceExpires ==
  /\ pc = "grace" /\ late /\ GoTo(AfterGrace, TRUE)
  /\ UNCHANGED <<processes, pipe, reaped, sent, outcome>>

\* SIGKILL takes the group as it is: none of them runs on, whenever the system is done
\* with them. The group exists as long as its leader is not collected, so that neither
\* signal raises ProcessLookupError.
Kill ==
  /\ pc = "kill" /\ sent' = sent \cup {"KILL"} /\ GoTo("killed", TRUE)
  /\ alive' = alive \ (group \cup {Leader}) /\ group' = {}
  /\ UNCHANGED <<born, holding, pipe, reaped, outcome>>

KillReturns ==
  /\ pc = "killed" /\ Leader \notin alive
  /\ reaped' = TRUE /\ GoTo("draining", TRUE)
  /\ UNCHANGED <<processes, pipe, sent, outcome>>

\* A leader in a sleep that cannot be interrupted is left uncollected.
KillExpires ==
  /\ pc = "killed" /\ late /\ GoTo("draining", TRUE)
  /\ UNCHANGED <<processes, pipe, reaped, sent, outcome>>

\* The partial output is worth waiting for.
WrongDrained == Joined

\* A last, bounded wait for what was written before the kill.
Drained == Joined \/ late

Drain ==
  /\ pc = "draining" /\ Drained
  /\ outcome' = "timed_out" /\ GoTo("done", TRUE)
  /\ UNCHANGED <<processes, pipe, reaped, sent>>

Harness ==
  \/ WaitReturns \/ WaitExpires \/ JoinReturns \/ JoinExpires
  \/ FindGroup \/ Term \/ GraceReturns \/ GraceExpires
  \/ Kill \/ KillReturns \/ KillExpires \/ Drain

ExecuteNext == Subject \/ Read \/ Eof \/ Timer \/ Harness

ExecuteSpec == ExecuteInit /\ [][ExecuteNext]_executeVars

\* Time passes, and the harness and its threads run; the subject owes nothing.
FairSpec == ExecuteSpec /\ WF_executeVars(Timer) /\ WF_executeVars(Harness) /\ WF_executeVars(Read) /\ WF_executeVars(Eof)

-----------------------------------------------------------------------------

\* What each variable holds; a process still there after a timeout was asked to
\* exit before it was made to (_kill_process_group).
TypeOK ==
  /\ alive \subseteq born /\ born \subseteq Procs
  /\ group \subseteq alive /\ holding \subseteq born
  /\ written \in 0..MaxWrites /\ unread \in 0..Capacity /\ unread <= written
  /\ reader \in {"reading", "eof"}
  /\ pc \in {"waiting", "joining", "killing", "term", "grace", "kill", "killed", "draining", "done"}
  /\ late \in BOOLEAN /\ reaped \in BOOLEAN
  /\ sent \in {{}, {"TERM"}, {"TERM", "KILL"}}
  /\ outcome \in {"none", "result", "timed_out"}

\* A result is returned only when all that was ever written has been read and
\* nobody is left who could write more: an exit code never comes with the output
\* of a run still going on (the join after popen.wait).
ResultIsWhole == outcome = "result" => holding = {} /\ unread = 0 /\ reader = "eof"

\* The command itself never outlives the call, whatever it does with SIGTERM
\* (_kill_process_group).
LeaderNeverOutlives == outcome # "none" => Leader \notin alive

\* The call always ends, even while a process that left the group keeps the pipe
\* open for ever ("`timeout` means a bound on this call").
CallEnds == <>(pc = "done")

\* What is left of the group after a timeout has lost its leader, which ended by itself or
\* on SIGTERM: nobody survives a leader that had to be killed, and nobody is given up on
\* while a leader that runs or was not collected still names the group
\* (_kill_process_group).
OnlyBehindItsLeader ==
  outcome = "timed_out" /\ group # {} => reaped /\ "KILL" \notin sent
=============================================================================
