-------------------------------- MODULE Reset --------------------------------
(***************************************************************************)
(* sandbox/reset.py and sandbox/verification.py: three ways of putting a    *)
(* database back, tried in the order offered until one has brought it back  *)
(* Cycles times over (choose_reset), and the experiments that are then run  *)
(* with that one.                                                           *)
(*                                                                          *)
(* The database is one table of rows named by their ids, and the sequence   *)
(* the ids are drawn from, which no rollback rewinds. Only what is          *)
(* committed is in db; open is what the transaction of RollbackReset's own  *)
(* connection sees.                                                         *)
(*                                                                          *)
(* MaxSeq bounds the ids. MayFail lets a workload raise and a call fail.    *)
(***************************************************************************)
EXTENDS Naturals, FiniteSetsExt, SequencesExt

CONSTANTS Cycles, MaxSeq, MayFail, None

Mechanisms == {"rollback", "snapshot", "restart"}

Databases == [rows : SUBSET (1..MaxSeq), seq : 0..MaxSeq]

ASSUME ResetAssumption ==
  /\ Cycles \in Nat \ {0} /\ MaxSeq \in Nat \ {0} /\ MayFail \in BOOLEAN
  /\ None \notin Databases \cup Nat

\* What seed_sql makes, and what the project starts from.
Seed == [rows |-> {1}, seq |-> 1]

\* A workload: what it writes, whether through the mechanism's connection or by
\* committing on one of its own, and what process_identity says of it.
Workloads ==
  [writes : {"nothing", "insert", "replace"},
   through : {"mechanism", "itself"},
   process : {"fresh", "survives", "unasked"}]

VARIABLES
  offered, workload,       \* the arguments of choose_reset
  db, open, snapshot,
  link,                    \* RollbackReset's connection: "unopened", "open" or "broken"
  captured,                \* RollbackReset's _baseline: the sequence's value
  trial, pc, cycle,        \* the candidate, and the step of it that is next
  baseline, first, drift,  \* what the report of the candidate rests on
  raised,                  \* the workload of this cycle raised
  observed,                \* what it reported
  certified,               \* the candidate verified, and experiments run with it
  cut                      \* history: the last reset that was begun did not finish

storage == <<db, open, snapshot, link, captured>>
report == <<baseline, first, drift>>
given == <<offered, workload>>

vars == <<given, storage, trial, pc, cycle, report, raised, observed, certified, cut>>

Init ==
  /\ offered \in UNION {TupleOf(Mechanisms, n) : n \in 1..3} /\ IsInjective(offered)
  /\ workload \in Workloads
  /\ db = Seed /\ open = None /\ snapshot = None /\ link = "unopened" /\ captured = None
  /\ trial = 1 /\ pc = "prepare" /\ cycle = 0
  /\ baseline = None /\ first = None /\ drift = FALSE
  /\ raised = FALSE /\ observed = None /\ certified = FALSE /\ cut = FALSE

Using == offered[trial]

-----------------------------------------------------------------------------
(* The database *)

\* The rows a statement of the mechanism's connection sees.
Seen == IF open = None THEN db.rows ELSE open

\* Other connections to the database are terminated, and their transactions with them.
Terminated ==
  /\ open' = None
  /\ link' = IF link = "open" THEN "broken" ELSE link

\* The candidate is rejected, and the next one is tried on whatever it left.
Reject ==
  IF trial < Len(offered)
  THEN trial' = trial + 1 /\ pc' = "prepare"
  ELSE trial' = trial /\ pc' = "failed"

\* Nothing was done, and the exception ends the trial, or reaches the experimenter.
Fails ==
  /\ IF certified THEN pc' = "begin" /\ UNCHANGED trial ELSE Reject
  /\ UNCHANGED <<given, storage, cycle, report, observed, certified>>
  /\ raised' = FALSE

-----------------------------------------------------------------------------
(* prepare, and the fingerprint of the baseline *)

Prepare ==
  /\ pc = "prepare"
  /\ \/ /\ Using = "rollback" /\ db # None /\ link # "broken"
        /\ captured' = db.seq /\ db' = [db EXCEPT !.rows = Seen]
        /\ open' = None /\ link' = "open" /\ UNCHANGED snapshot
     \/ /\ Using = "snapshot" /\ db # None
        /\ snapshot' = db /\ Terminated /\ UNCHANGED <<db, captured>>
     \/ Using = "restart" /\ UNCHANGED storage
  /\ pc' = "fingerprint"
  /\ UNCHANGED <<given, trial, cycle, report, raised, observed, certified, cut>>

\* The database cannot be reached, or this connection to it is gone.
CannotPrepare ==
  /\ pc = "prepare" /\ Using # "restart"
  /\ MayFail \/ db = None \/ (Using = "rollback" /\ link = "broken")
  /\ Fails /\ UNCHANGED cut

Baseline ==
  /\ pc = "fingerprint" /\ db # None
  /\ baseline' = db /\ drift' = FALSE /\ cycle' = 1 /\ pc' = "begin"
  /\ UNCHANGED <<given, storage, trial, first, raised, observed, certified, cut>>

CannotRead ==
  /\ \/ pc = "fingerprint" /\ (MayFail \/ db = None)
     \/ pc = "begin" /\ MayFail
  /\ Fails /\ UNCHANGED cut

-----------------------------------------------------------------------------
(* A cycle: begin, the workload, and the reset on the way out whatever happened *)

\* begin() leaves a transaction that a cut reset left open.
WrongDiscarded == open

Discarded == IF Using = "rollback" THEN None ELSE open

Begin ==
  /\ pc = "begin" /\ open' = Discarded /\ pc' = "workload"
  /\ UNCHANGED <<given, db, snapshot, link, captured, trial, cycle, report, raised, observed,
                 certified, cut>>

\* The id the workload draws, and the rows there are once it has written.
Id == db.seq + 1

Written ==
  CASE workload.writes = "insert" -> Seen \union {Id}
    [] workload.writes = "replace" -> (Seen \ {Max(Seen)}) \union {Id}

\* The id is taken by a row nobody sees go.
Collides == Id \in IF workload.writes = "insert" THEN Seen ELSE Seen \ {Max(Seen)}

\* The workload ran to its end: what it reports is how many rows it saw.
Works ==
  /\ pc = "workload" /\ db # None
  /\ workload.through = "mechanism" => link # "broken"
  /\ IF workload.writes = "nothing"
     THEN /\ UNCHANGED db
          /\ open' = IF workload.through = "mechanism" THEN Seen ELSE open
     ELSE /\ db.seq < MaxSeq /\ ~Collides
          /\ IF workload.through = "mechanism"
             THEN open' = Written /\ db' = [db EXCEPT !.seq = Id]
             ELSE db' = [rows |-> Written, seq |-> Id] /\ UNCHANGED open
  /\ link' = IF workload.through = "mechanism" THEN "open" ELSE link
  /\ observed' = Cardinality(Seen) /\ raised' = FALSE /\ pc' = "reset"
  /\ UNCHANGED <<given, snapshot, captured, trial, cycle, report, certified, cut>>

\* It raised: nothing to connect to, an id that was there, or an error of its own once
\* the id was drawn, which a rollback does not put back.
RaisesAtOnce ==
  /\ pc = "workload"
  /\ db = None \/ MayFail \/ (workload.through = "mechanism" /\ link = "broken")
  /\ raised' = TRUE /\ pc' = "reset"
  /\ UNCHANGED <<given, storage, trial, cycle, report, observed, certified, cut>>

RaisesWriting ==
  /\ pc = "workload" /\ db # None /\ workload.writes # "nothing" /\ db.seq < MaxSeq
  /\ workload.through = "mechanism" => link # "broken"
  /\ MayFail \/ Collides
  /\ db' = [db EXCEPT !.seq = Id]
  /\ IF workload.through = "mechanism" THEN open' = Seen /\ link' = "open"
                                       ELSE UNCHANGED <<open, link>>
  /\ raised' = TRUE /\ pc' = "reset"
  /\ UNCHANGED <<given, snapshot, captured, trial, cycle, report, observed, certified, cut>>

\* The first half of reset(): the rollback, the DROP, or the container's destruction.
Undo ==
  /\ pc = "reset" /\ cut' = TRUE /\ pc' = "restore"
  /\ \/ Using = "rollback" /\ open' = None /\ UNCHANGED <<db, snapshot, link>>
     \/ Using = "snapshot" /\ Terminated /\ db' = None /\ UNCHANGED snapshot
     \/ Using = "restart" /\ Terminated /\ db' = None /\ snapshot' = None
  /\ UNCHANGED <<given, captured, trial, cycle, report, raised, observed, certified>>

\* The second half: the sequences, the copy of the template, or the seed.
Restored ==
  CASE Using = "rollback" -> [db EXCEPT !.seq = captured]
    [] Using = "snapshot" -> snapshot
    [] Using = "restart" -> Seed

Restore ==
  /\ pc = "restore" /\ db' = Restored /\ cut' = FALSE
  /\ IF raised
     THEN IF certified THEN pc' = "begin" /\ UNCHANGED trial ELSE Reject
     ELSE pc' = (IF certified THEN "begin" ELSE "compare") /\ UNCHANGED trial
  /\ raised' = FALSE
  /\ UNCHANGED <<given, open, snapshot, link, captured, cycle, report, observed, certified>>

\* reset() raises before or between its halves.
ResetCut == MayFail /\ pc \in {"reset", "restore"} /\ cut' = TRUE /\ Fails

-----------------------------------------------------------------------------
(* verify: what did not come back *)

\* Row counts certify a reset that loses content and sequences.
WrongFingerprint(state) == Cardinality(state.rows)

\* Counts, content hashes, greatest ids and sequences.
Fingerprint(state) == state

LastCycle == cycle >= Cycles

WrongNextCycle == cycle

NextCycle == cycle + 1

Drifted ==
  \/ drift
  \/ cycle > 1 /\ (observed # first \/ workload.process = "survives")
  \/ Fingerprint(db) # Fingerprint(baseline)

Compare ==
  /\ pc = "compare"
  /\ first' = IF cycle = 1 THEN observed ELSE first
  /\ drift' = Drifted
  /\ IF ~LastCycle
     THEN cycle' = NextCycle /\ pc' = "begin" /\ UNCHANGED <<trial, certified>>
     ELSE /\ UNCHANGED cycle
          /\ IF Drifted THEN Reject /\ UNCHANGED certified
                        ELSE certified' = TRUE /\ pc' = "begin" /\ UNCHANGED trial
  /\ UNCHANGED <<given, storage, baseline, raised, observed, cut>>

\* The fingerprint after a cycle is not inside verify's try: its failure ends the choice.
Escapes ==
  /\ MayFail /\ pc = "compare" /\ pc' = "failed"
  /\ UNCHANGED <<given, storage, trial, cycle, report, raised, observed, certified, cut>>

Next ==
  \/ Prepare \/ CannotPrepare \/ Baseline \/ CannotRead
  \/ Begin \/ Works \/ RaisesAtOnce \/ RaisesWriting
  \/ Undo \/ Restore \/ ResetCut \/ Compare \/ Escapes

Spec == Init /\ [][Next]_vars

\* choose_reset is one synchronous call, and what it waits for has a timeout.
FairSpec == Spec /\ WF_vars(Next)

-----------------------------------------------------------------------------

\* What verification is for: a rollback is never trusted with a workload whose writes
\* it cannot reach, nor any mechanism with a process that outlives a cycle and may
\* have a cache in it, nor one that terminates the connection the workload runs on.
CertifiedIsSound ==
  certified =>
    /\ Using = "rollback" => workload.through = "mechanism" \/ workload.writes = "nothing"
    /\ Cycles > 1 => /\ workload.process # "survives"
                     /\ workload.through = "mechanism" => Using = "rollback"

\* However many experiments were run and whichever of them raised, the next starts
\* from the state the mechanism was verified against, unless the reset before it did
\* not finish; and rows never survive a rollback, even then.
ExperimentsStartAlike ==
  certified /\ pc = "workload" =>
    /\ open = None
    /\ cut \/ db = baseline
    /\ Using = "rollback" => db.rows = baseline.rows

\* choose_reset returns a mechanism or raises.
ChoiceEnds == <>(certified \/ pc = "failed")
=============================================================================
