---------------------------- MODULE CommandProofs ----------------------------
(***************************************************************************)
(* The two components that start processes.  Launch, for any machine: its  *)
(* launches, its subjects, their files.  Then Execute, for any processes,  *)
(* any pipe and any amount of output: a result is whole because the end of *)
(* the pipe is final once reached, and the leader is gone because every    *)
(* way out of the call passes through collecting it.                       *)
(***************************************************************************)
EXTENDS Launch, Execute, FiniteSetTheorems, TLAPS

-----------------------------------------------------------------------------
(* The invariant *)

Early == {"loaded", "journal", "schema", "worktree"}
Probing == {"refuse", "wheel", "probe", "collector", "derived", "compose"}
Places == {"new", "refused", "planned", "failed", "dead", "returned", "resources", "ground"}
            \cup Early \cup Probing

TypeInv ==
  /\ at \in [Launches -> Places]
  /\ subject \in [Launches -> Subjects \cup {None}]
  /\ database \in [Launches -> Databases] /\ journals \in [Launches -> Databases]
  /\ worktrees \in [Subjects -> Launches \cup {None}]
  /\ saved \in [Subjects -> [next : {"none", "refuse", "ground", "end"}, runsIn : Tags \cup {None}]]
  /\ tags \in [Tags -> ImageType \cup {None}]
  /\ store \in [table : BOOLEAN, guarded : BOOLEAN, entries : BOOLEAN]
  /\ DOMAIN ran = Launches /\ rebuilt \in [Launches -> BOOLEAN]

\* A run has one launch, the one that made its worktree, and its checkpoint says
\* where that launch is.
Owned ==
  /\ \A s \in Subjects : worktrees[s] = None => saved[s].next = "none"
  /\ \A l \in Launches :
      /\ at[l] \in Early \cup InGraph \cup {"resources", "dead", "returned"} => subject[l] \in Subjects
      /\ at[l] \in InGraph \cup {"resources"} => worktrees[subject[l]] = l
      /\ at[l] \in Probing => saved[subject[l]].next = "refuse"
      /\ at[l] = "ground" => saved[subject[l]].next = "ground"
      /\ \A s \in Subjects :
           worktrees[s] = l => subject[l] = s /\ at[l] \notin Early \cup {"new"}

Run(l, s) == worktrees[s] = l /\ saved[s].next = "ground"

\* Past the screening, in whatever process, subject and database have passed it.
Screened ==
  \A l \in Launches :
    /\ at[l] \in Probing \ {"refuse"} => ~Declined(subject[l], database[l])
    /\ \A s \in Subjects : Run(l, s) => ~Declined(s, database[l])
    /\ ran[l] # None => ran[l].over \in Subjects /\ ~Declined(ran[l].over, ran[l].database)

HasCollector(tag) == tags[tag] \in ImageType /\ tags[tag].collector

\* A tag that was built carries the collector, whoever builds it next.
Carried ==
  /\ \A l \in Launches :
       /\ at[l] \in {"derived", "compose"} => HasCollector("coldfix-collector")
       /\ at[l] = "compose" => HasCollector("coldfix-derived")
       /\ ran[l] # None /\ ran[l].what = "work" => ran[l].image.collector
  /\ \A s \in Subjects :
       saved[s].next = "ground" => saved[s].runsIn \in Tags /\ HasCollector(saved[s].runsIn)

\* Undisturbed, the tags a launch built name images of its own subject.
Own ==
  \A l \in Launches :
    /\ at[l] = "collector" => ran[l] = None \/ ran[l].what # "work"
    /\ ~rebuilt[l] =>
         /\ at[l] \in {"derived", "compose"} => tags["coldfix-collector"].of = subject[l]
         /\ at[l] = "compose" => tags["coldfix-derived"].of = subject[l]
         /\ \A s \in Subjects : Run(l, s) => tags[saved[s].runsIn].of = s
         /\ ran[l] # None /\ ran[l].what = "work" => ran[l].image.of = ran[l].over

\* A launch that may write has made the triggers, itself.
Guarded ==
  /\ \A l \in Launches :
       /\ journals[l] = "permitted"
       /\ at[l] \in InGraph \cup {"worktree", "resources"} \/ \E s \in Subjects : worktrees[s] = l
       => store.guarded
  /\ store.entries => store.guarded

-----------------------------------------------------------------------------
(* Every step keeps it *)

LEMMA TypeStep == TypeInv /\ Owned /\ [Next]_vars => TypeInv'
<1> SUFFICES ASSUME TypeInv /\ Owned, [Next]_vars PROVE TypeInv'
  OBVIOUS
<1> USE NoneAssumption DEF TypeInv, ImageType, Tags, Databases, Places, Early, Probing, config, disk, machine, history, InGraph, Owned
<1>0. CASE UNCHANGED vars
  BY <1>0 DEF vars
<1>1. ASSUME NEW l \in Launches, Load(l) PROVE TypeInv'
  <2>1. \/ Stop(l, "refused")
        \/ \E s \in Subjects, db \in Databases, jn \in Databases :
             /\ subject' = [subject EXCEPT ![l] = s]
             /\ database' = [database EXCEPT ![l] = db]
             /\ journals' = [journals EXCEPT ![l] = jn]
             /\ Goto(l, "loaded") /\ UNCHANGED <<disk, machine, history>>
    BY <1>1 DEF Load
  <2>2. CASE Stop(l, "refused")
    BY <2>2 DEF Stop, Goto
  <2>3. ASSUME NEW s \in Subjects, NEW db \in Databases, NEW jn \in Databases,
               subject' = [subject EXCEPT ![l] = s],
               database' = [database EXCEPT ![l] = db],
               journals' = [journals EXCEPT ![l] = jn],
               Goto(l, "loaded"), UNCHANGED <<disk, machine, history>>
        PROVE TypeInv'
    BY <2>3 DEF Goto
  <2> QED
    BY <2>1, <2>2, <2>3
<1>2. ASSUME NEW l \in Launches,
             Plan(l) \/ RunScan(l) \/ NoJournal(l) \/ JournalRefused(l) \/ NoWorktree(l)
               \/ NotPositive(l) \/ BuildWheel(l) \/ Die(l)
      PROVE TypeInv'
  BY <1>2 DEF Plan, RunScan, NoJournal, JournalRefused, NoWorktree, NotPositive, BuildWheel,
             Die, Stop, Goto
<1>3. ASSUME NEW l \in Launches, CreateTable(l) PROVE TypeInv'
  BY <1>3 DEF CreateTable, CreateTableThen, Goto
<1>4. ASSUME NEW l \in Launches, CreateTriggers(l) PROVE TypeInv'
  BY <1>4 DEF CreateTriggers, Goto
<1>5. ASSUME NEW l \in Launches, CreateWorktree(l) PROVE TypeInv'
  BY <1>5 DEF CreateWorktree, Goto
<1>6. ASSUME NEW l \in Launches, Invoke(l) PROVE TypeInv'
  BY <1>6 DEF Invoke, Goto
<1>7. ASSUME NEW l \in Launches, Screen(l) PROVE TypeInv'
  <2>1. CASE Refused(l)
    BY <2>1, <1>7 DEF Screen, Refused, Goto
  <2>2. CASE Stop(l, "wheel")
    BY <2>2, <1>7 DEF Screen, Stop, Goto
  <2> QED
    BY <1>7, <2>1, <2>2 DEF Screen
<1>8. ASSUME NEW l \in Launches, CanRun(l) PROVE TypeInv'
  BY <1>8 DEF CanRun, Start, Operators, Goto
<1>9. ASSUME NEW l \in Launches, CannotRun(l) PROVE TypeInv'
  BY <1>9 DEF CannotRun, Refused, Goto
<1>10. ASSUME NEW l \in Launches, NoCollector(l) PROVE TypeInv'
  BY <1>10 DEF NoCollector, Refused, Goto
<1>11. ASSUME NEW l \in Launches, BuildCollector(l) PROVE TypeInv'
  BY <1>11 DEF BuildCollector, Build, Operators, Goto
<1>12. ASSUME NEW l \in Launches, BuildDerived(l) PROVE TypeInv'
  BY <1>12 DEF BuildDerived, Build, Base, Goto
<1>13. ASSUME NEW l \in Launches, OsOnly(l) PROVE TypeInv'
  BY <1>13 DEF OsOnly, Proceed, Goto
<1>14. ASSUME NEW l \in Launches, Instrumented(l) PROVE TypeInv'
  BY <1>14 DEF Instrumented, Proceed, Goto
<1>15. ASSUME NEW l \in Launches, Work(l) PROVE TypeInv'
  BY <1>15 DEF Work, Start, EntryImage
<1>16. ASSUME NEW l \in Launches, Return(l) PROVE TypeInv'
  <2>1. /\ at[l] = "ground" /\ at' = [at EXCEPT ![l] = "returned"]
        /\ UNCHANGED <<config, worktrees, machine, history>>
    BY <1>16 DEF Return, Goto
  <2>2. CASE UNCHANGED saved
    BY <2>1, <2>2
  <2>3. CASE saved' = [saved EXCEPT ![subject[l]].next = "end"]
    BY <2>1, <2>3
  <2> QED
    BY <1>16, <2>2, <2>3 DEF Return
<1>17. ASSUME NEW l \in Launches, Resume(l) PROVE TypeInv'
  BY <1>17 DEF Resume, Due, Stop, Goto
<1> QED
  BY <1>0, <1>1, <1>2, <1>3, <1>4, <1>5, <1>6, <1>7, <1>8, <1>9, <1>10, <1>11, <1>12, <1>13, <1>14, <1>15, <1>16, <1>17 DEF Next, Command

LEMMA OwnedStep == TypeInv /\ Owned /\ [Next]_vars => Owned'
<1> SUFFICES ASSUME TypeInv /\ Owned, [Next]_vars PROVE Owned'
  OBVIOUS
<1> USE NoneAssumption DEF Owned, TypeInv, Places, Early, Probing, Tags, config, disk, machine, history, InGraph
<1>0. CASE UNCHANGED vars
  BY <1>0 DEF vars
<1>1. ASSUME NEW l \in Launches, Load(l) PROVE Owned'
  BY <1>1 DEF Load, Stop, Goto
<1>2. ASSUME NEW l \in Launches,
             Plan(l) \/ RunScan(l) \/ NoJournal(l) \/ JournalRefused(l) \/ NoWorktree(l)
               \/ NotPositive(l) \/ BuildWheel(l) \/ Die(l)
      PROVE Owned'
  BY <1>2 DEF Plan, RunScan, NoJournal, JournalRefused, NoWorktree, NotPositive, BuildWheel,
             Die, Stop, Goto
<1>3. ASSUME NEW l \in Launches, CreateTable(l) PROVE Owned'
  BY <1>3 DEF CreateTable, CreateTableThen, Goto
<1>4. ASSUME NEW l \in Launches, CreateTriggers(l) PROVE Owned'
  BY <1>4 DEF CreateTriggers, Goto
<1>5. ASSUME NEW l \in Launches, CreateWorktree(l) PROVE Owned'
  BY <1>5 DEF CreateWorktree, Goto
<1>6. ASSUME NEW l \in Launches, Invoke(l) PROVE Owned'
  BY <1>6 DEF Invoke, Goto
<1>7. ASSUME NEW l \in Launches, Screen(l) PROVE Owned'
  <2>1. CASE Refused(l)
    BY <2>1, <1>7 DEF Screen, Refused, Goto
  <2>2. CASE Stop(l, "wheel")
    BY <2>2, <1>7 DEF Screen, Stop, Goto
  <2> QED
    BY <1>7, <2>1, <2>2 DEF Screen
<1>8. ASSUME NEW l \in Launches, CanRun(l) PROVE Owned'
  BY <1>8 DEF CanRun, Start, Operators, Goto
<1>9. ASSUME NEW l \in Launches, CannotRun(l) PROVE Owned'
  BY <1>9 DEF CannotRun, Refused, Goto
<1>10. ASSUME NEW l \in Launches, NoCollector(l) PROVE Owned'
  BY <1>10 DEF NoCollector, Refused, Goto
<1>11. ASSUME NEW l \in Launches, BuildCollector(l) PROVE Owned'
  BY <1>11 DEF BuildCollector, Build, Operators, Goto
<1>12. ASSUME NEW l \in Launches, BuildDerived(l) PROVE Owned'
  BY <1>12 DEF BuildDerived, Build, Base, Goto
<1>13. ASSUME NEW l \in Launches, OsOnly(l) PROVE Owned'
  BY <1>13 DEF OsOnly, Proceed, Goto
<1>14. ASSUME NEW l \in Launches, Instrumented(l) PROVE Owned'
  BY <1>14 DEF Instrumented, Proceed, Goto
<1>15. ASSUME NEW l \in Launches, Work(l) PROVE Owned'
  BY <1>15 DEF Work, Start, EntryImage
<1>16. ASSUME NEW l \in Launches, Return(l) PROVE Owned'
  <2>1. /\ at[l] = "ground" /\ at' = [at EXCEPT ![l] = "returned"]
        /\ UNCHANGED <<config, worktrees, machine, history>>
    BY <1>16 DEF Return, Goto
  <2>2. CASE UNCHANGED saved
    BY <2>1, <2>2
  <2>3. CASE saved' = [saved EXCEPT ![subject[l]].next = "end"]
    BY <2>1, <2>3
  <2> QED
    BY <1>16, <2>2, <2>3 DEF Return
<1>17. ASSUME NEW l \in Launches, Resume(l) PROVE Owned'
  BY <1>17 DEF Resume, Due, Stop, Goto
<1> QED
  BY <1>0, <1>1, <1>2, <1>3, <1>4, <1>5, <1>6, <1>7, <1>8, <1>9, <1>10, <1>11, <1>12, <1>13, <1>14, <1>15, <1>16, <1>17 DEF Next, Command

LEMMA ScreenedStep == TypeInv /\ Owned /\ Screened /\ [Next]_vars => Screened'
<1> SUFFICES ASSUME TypeInv /\ Owned /\ Screened, [Next]_vars PROVE Screened'
  OBVIOUS
<1> USE NoneAssumption DEF Screened, Owned, Run, TypeInv, Places, Early, Probing, Tags, config, disk, machine, history, InGraph
<1>0. CASE UNCHANGED vars
  BY <1>0 DEF vars
<1>1. ASSUME NEW l \in Launches, Load(l) PROVE Screened'
  BY <1>1 DEF Load, Stop, Goto
<1>2. ASSUME NEW l \in Launches,
             Plan(l) \/ RunScan(l) \/ NoJournal(l) \/ JournalRefused(l) \/ NoWorktree(l)
               \/ NotPositive(l) \/ BuildWheel(l) \/ Die(l)
      PROVE Screened'
  BY <1>2 DEF Plan, RunScan, NoJournal, JournalRefused, NoWorktree, NotPositive, BuildWheel,
             Die, Stop, Goto
<1>3. ASSUME NEW l \in Launches, CreateTable(l) PROVE Screened'
  BY <1>3 DEF CreateTable, CreateTableThen, Goto
<1>4. ASSUME NEW l \in Launches, CreateTriggers(l) PROVE Screened'
  BY <1>4 DEF CreateTriggers, Goto
<1>5. ASSUME NEW l \in Launches, CreateWorktree(l) PROVE Screened'
  BY <1>5 DEF CreateWorktree, Goto
<1>6. ASSUME NEW l \in Launches, Invoke(l) PROVE Screened'
  BY <1>6 DEF Invoke, Goto
<1>7. ASSUME NEW l \in Launches, Screen(l) PROVE Screened'
  BY <1>7 DEF Screen, Refused, Stop, Goto
<1>8. ASSUME NEW l \in Launches, CanRun(l) PROVE Screened'
  BY <1>8 DEF CanRun, Start, Operators, Goto
<1>9. ASSUME NEW l \in Launches, CannotRun(l) PROVE Screened'
  BY <1>9 DEF CannotRun, Refused, Goto
<1>10. ASSUME NEW l \in Launches, NoCollector(l) PROVE Screened'
  BY <1>10 DEF NoCollector, Refused, Goto
<1>11. ASSUME NEW l \in Launches, BuildCollector(l) PROVE Screened'
  BY <1>11 DEF BuildCollector, Build, Operators, Goto
<1>12. ASSUME NEW l \in Launches, BuildDerived(l) PROVE Screened'
  BY <1>12 DEF BuildDerived, Build, Base, Goto
<1>13. ASSUME NEW l \in Launches, OsOnly(l) PROVE Screened'
  BY <1>13 DEF OsOnly, Proceed, Goto
<1>14. ASSUME NEW l \in Launches, Instrumented(l) PROVE Screened'
  BY <1>14 DEF Instrumented, Proceed, Goto
<1>15. ASSUME NEW l \in Launches, Work(l) PROVE Screened'
  BY <1>15 DEF Work, Start, EntryImage
<1>16. ASSUME NEW l \in Launches, Return(l) PROVE Screened'
  BY <1>16 DEF Return, Goto
<1>17. ASSUME NEW l \in Launches, Resume(l) PROVE Screened'
  BY <1>17 DEF Resume, Due, Stop, Goto
<1> QED
  BY <1>0, <1>1, <1>2, <1>3, <1>4, <1>5, <1>6, <1>7, <1>8, <1>9, <1>10, <1>11, <1>12, <1>13, <1>14, <1>15, <1>16, <1>17 DEF Next, Command

LEMMA CarriedStep == TypeInv /\ Owned /\ Carried /\ [Next]_vars => Carried'
<1> SUFFICES ASSUME TypeInv /\ Owned /\ Carried, [Next]_vars PROVE Carried'
  OBVIOUS
<1> USE NoneAssumption DEF Carried, HasCollector, Owned, TypeInv, ImageType, Tags, Places, Early, Probing, config, disk, machine, history, InGraph
<1>0. CASE UNCHANGED vars
  BY <1>0 DEF vars
<1>1. ASSUME NEW l \in Launches, Load(l) PROVE Carried'
  BY <1>1 DEF Load, Stop, Goto
<1>2. ASSUME NEW l \in Launches,
             Plan(l) \/ RunScan(l) \/ NoJournal(l) \/ JournalRefused(l) \/ NoWorktree(l)
               \/ NotPositive(l) \/ BuildWheel(l) \/ Die(l)
      PROVE Carried'
  BY <1>2 DEF Plan, RunScan, NoJournal, JournalRefused, NoWorktree, NotPositive, BuildWheel,
             Die, Stop, Goto
<1>3. ASSUME NEW l \in Launches, CreateTable(l) PROVE Carried'
  BY <1>3 DEF CreateTable, CreateTableThen, Goto
<1>4. ASSUME NEW l \in Launches, CreateTriggers(l) PROVE Carried'
  BY <1>4 DEF CreateTriggers, Goto
<1>5. ASSUME NEW l \in Launches, CreateWorktree(l) PROVE Carried'
  BY <1>5 DEF CreateWorktree, Goto
<1>6. ASSUME NEW l \in Launches, Invoke(l) PROVE Carried'
  BY <1>6 DEF Invoke, Goto
<1>7. ASSUME NEW l \in Launches, Screen(l) PROVE Carried'
  <2>1. CASE Refused(l)
    BY <2>1, <1>7 DEF Screen, Refused, Goto
  <2>2. CASE Stop(l, "wheel")
    BY <2>2, <1>7 DEF Screen, Stop, Goto
  <2> QED
    BY <1>7, <2>1, <2>2 DEF Screen
<1>8. ASSUME NEW l \in Launches, CanRun(l) PROVE Carried'
  BY <1>8 DEF CanRun, Start, Operators, Goto
<1>9. ASSUME NEW l \in Launches, CannotRun(l) PROVE Carried'
  BY <1>9 DEF CannotRun, Refused, Goto
<1>10. ASSUME NEW l \in Launches, NoCollector(l) PROVE Carried'
  BY <1>10 DEF NoCollector, Refused, Goto
<1>11. ASSUME NEW l \in Launches, BuildCollector(l) PROVE Carried'
  BY <1>11 DEF BuildCollector, Build, Operators, Goto
<1>12. ASSUME NEW l \in Launches, BuildDerived(l) PROVE Carried'
  BY <1>12 DEF BuildDerived, Build, Base, Goto
<1>13. ASSUME NEW l \in Launches, OsOnly(l) PROVE Carried'
  BY <1>13 DEF OsOnly, Proceed, Goto
<1>14. ASSUME NEW l \in Launches, Instrumented(l) PROVE Carried'
  BY <1>14 DEF Instrumented, Proceed, Goto
<1>15. ASSUME NEW l \in Launches, Work(l) PROVE Carried'
  BY <1>15 DEF Work, Start, EntryImage
<1>16. ASSUME NEW l \in Launches, Return(l) PROVE Carried'
  BY <1>16 DEF Return, Goto
<1>17. ASSUME NEW l \in Launches, Resume(l) PROVE Carried'
  BY <1>17 DEF Resume, Due, Stop, Goto
<1> QED
  BY <1>0, <1>1, <1>2, <1>3, <1>4, <1>5, <1>6, <1>7, <1>8, <1>9, <1>10, <1>11, <1>12, <1>13, <1>14, <1>15, <1>16, <1>17 DEF Next, Command

LEMMA OwnStep == TypeInv /\ Owned /\ Carried /\ Own /\ [Next]_vars => Own'
<1> SUFFICES ASSUME TypeInv /\ Owned /\ Carried /\ Own, [Next]_vars PROVE Own'
  OBVIOUS
<1> USE NoneAssumption DEF Own, Carried, HasCollector, Run, Owned, TypeInv, ImageType, Tags, Places, Early, Probing, config, disk, machine, history, InGraph
<1>0. CASE UNCHANGED vars
  BY <1>0 DEF vars
<1>1. ASSUME NEW l \in Launches, Load(l) PROVE Own'
  BY <1>1 DEF Load, Stop, Goto
<1>2. ASSUME NEW l \in Launches,
             Plan(l) \/ RunScan(l) \/ NoJournal(l) \/ JournalRefused(l) \/ NoWorktree(l)
               \/ NotPositive(l) \/ BuildWheel(l) \/ Die(l)
      PROVE Own'
  BY <1>2 DEF Plan, RunScan, NoJournal, JournalRefused, NoWorktree, NotPositive, BuildWheel,
             Die, Stop, Goto
<1>3. ASSUME NEW l \in Launches, CreateTable(l) PROVE Own'
  BY <1>3 DEF CreateTable, CreateTableThen, Goto
<1>4. ASSUME NEW l \in Launches, CreateTriggers(l) PROVE Own'
  BY <1>4 DEF CreateTriggers, Goto
<1>5. ASSUME NEW l \in Launches, CreateWorktree(l) PROVE Own'
  BY <1>5 DEF CreateWorktree, Goto
<1>6. ASSUME NEW l \in Launches, Invoke(l) PROVE Own'
  BY <1>6 DEF Invoke, Goto
<1>7. ASSUME NEW l \in Launches, Screen(l) PROVE Own'
  BY <1>7 DEF Screen, Refused, Stop, Goto
<1>8. ASSUME NEW l \in Launches, CanRun(l) PROVE Own'
  BY <1>8 DEF CanRun, Start, Operators, Goto
<1>9. ASSUME NEW l \in Launches, CannotRun(l) PROVE Own'
  BY <1>9 DEF CannotRun, Refused, Goto
<1>10. ASSUME NEW l \in Launches, NoCollector(l) PROVE Own'
  BY <1>10 DEF NoCollector, Refused, Goto
<1>11. ASSUME NEW l \in Launches, BuildCollector(l) PROVE Own'
  BY <1>11 DEF BuildCollector, Build, Operators, Goto
<1>12. ASSUME NEW l \in Launches, BuildDerived(l) PROVE Own'
  BY <1>12 DEF BuildDerived, Build, Base, Goto
<1>13. ASSUME NEW l \in Launches, OsOnly(l) PROVE Own'
  BY <1>13 DEF OsOnly, Proceed, Goto
<1>14. ASSUME NEW l \in Launches, Instrumented(l) PROVE Own'
  BY <1>14 DEF Instrumented, Proceed, Goto
<1>15. ASSUME NEW l \in Launches, Work(l) PROVE Own'
  BY <1>15 DEF Work, Start, EntryImage
<1>16. ASSUME NEW l \in Launches, Return(l) PROVE Own'
  BY <1>16 DEF Return, Goto
<1>17. ASSUME NEW l \in Launches, Resume(l) PROVE Own'
  BY <1>17 DEF Resume, Due, Stop, Goto
<1> QED
  BY <1>0, <1>1, <1>2, <1>3, <1>4, <1>5, <1>6, <1>7, <1>8, <1>9, <1>10, <1>11, <1>12, <1>13, <1>14, <1>15, <1>16, <1>17 DEF Next, Command

LEMMA GuardedStep == TypeInv /\ Owned /\ Guarded /\ [Next]_vars => Guarded'
<1> SUFFICES ASSUME TypeInv /\ Owned /\ Guarded, [Next]_vars PROVE Guarded'
  OBVIOUS
<1> USE NoneAssumption DEF Guarded, Owned, TypeInv, Places, Early, Probing, Tags, config, disk, machine, history, InGraph
<1>0. CASE UNCHANGED vars
  BY <1>0 DEF vars
<1>1. ASSUME NEW l \in Launches, Load(l) PROVE Guarded'
  BY <1>1 DEF Load, Stop, Goto
<1>2. ASSUME NEW l \in Launches,
             Plan(l) \/ RunScan(l) \/ NoJournal(l) \/ JournalRefused(l) \/ NoWorktree(l)
               \/ NotPositive(l) \/ BuildWheel(l) \/ Die(l)
      PROVE Guarded'
  BY <1>2 DEF Plan, RunScan, NoJournal, JournalRefused, NoWorktree, NotPositive, BuildWheel,
             Die, Stop, Goto
<1>3. ASSUME NEW l \in Launches, CreateTable(l) PROVE Guarded'
  BY <1>3 DEF CreateTable, CreateTableThen, Goto
<1>4. ASSUME NEW l \in Launches, CreateTriggers(l) PROVE Guarded'
  BY <1>4 DEF CreateTriggers, Goto
<1>5. ASSUME NEW l \in Launches, CreateWorktree(l) PROVE Guarded'
  BY <1>5 DEF CreateWorktree, Goto
<1>6. ASSUME NEW l \in Launches, Invoke(l) PROVE Guarded'
  BY <1>6 DEF Invoke, Goto
<1>7. ASSUME NEW l \in Launches, Screen(l) PROVE Guarded'
  BY <1>7 DEF Screen, Refused, Stop, Goto
<1>8. ASSUME NEW l \in Launches, CanRun(l) PROVE Guarded'
  BY <1>8 DEF CanRun, Start, Operators, Goto
<1>9. ASSUME NEW l \in Launches, CannotRun(l) PROVE Guarded'
  BY <1>9 DEF CannotRun, Refused, Goto
<1>10. ASSUME NEW l \in Launches, NoCollector(l) PROVE Guarded'
  BY <1>10 DEF NoCollector, Refused, Goto
<1>11. ASSUME NEW l \in Launches, BuildCollector(l) PROVE Guarded'
  BY <1>11 DEF BuildCollector, Build, Operators, Goto
<1>12. ASSUME NEW l \in Launches, BuildDerived(l) PROVE Guarded'
  BY <1>12 DEF BuildDerived, Build, Base, Goto
<1>13. ASSUME NEW l \in Launches, OsOnly(l) PROVE Guarded'
  BY <1>13 DEF OsOnly, Proceed, Goto
<1>14. ASSUME NEW l \in Launches, Instrumented(l) PROVE Guarded'
  BY <1>14 DEF Instrumented, Proceed, Goto
<1>15. ASSUME NEW l \in Launches, Work(l) PROVE Guarded'
  BY <1>15 DEF Work, Start, EntryImage
<1>16. ASSUME NEW l \in Launches, Return(l) PROVE Guarded'
  BY <1>16 DEF Return, Goto
<1>17. ASSUME NEW l \in Launches, Resume(l) PROVE Guarded'
  BY <1>17 DEF Resume, Due, Stop, Goto
<1> QED
  BY <1>0, <1>1, <1>2, <1>3, <1>4, <1>5, <1>6, <1>7, <1>8, <1>9, <1>10, <1>11, <1>12, <1>13, <1>14, <1>15, <1>16, <1>17 DEF Next, Command

-----------------------------------------------------------------------------
(* The theorems *)

Inv == TypeInv /\ Owned /\ Screened /\ Carried /\ Own /\ Guarded

LEMMA InvInit == Init => Inv
  BY NoneAssumption DEF Init, Inv, TypeInv, ImageType, Tags, Databases, Places, Early, Probing,
     Owned, Screened, Run, Carried, Own, Guarded, InGraph

LEMMA Invariance == Spec => []Inv
<1>1. Inv /\ [Next]_vars => Inv'
  BY TypeStep, OwnedStep, ScreenedStep, CarriedStep, OwnStep, GuardedStep DEF Inv
<1> QED
  BY <1>1, InvInit, PTL DEF Spec

\* A walk within the bound has been read to its end.
LEMMA ClearIsRead ==
  ASSUME NEW s \in Subjects, Clear(s)
  PROVE  \A i \in Walked(s) : ~Detected(Files[s][i])
<1> SUFFICES ASSUME NEW i \in Walked(s) PROVE i \in Scanned(s)
  BY DEF Clear
<1> DEFINE before == {j \in Walked(s) : j < i}
<1>1. IsFiniteSet(Walked(s))
  <2>1. Files[s] \in Seq(FileType)
    BY FilesAssumption
  <2>2. IsFiniteSet(1..Len(Files[s]))
    BY <2>1, FS_Interval
  <2> QED
    BY <2>1, <2>2, FS_Subset DEF Walked
<1>2. /\ IsFiniteSet(Walked(s) \ {i})
      /\ Cardinality(Walked(s) \ {i}) = Cardinality(Walked(s)) - 1
  BY <1>1, FS_RemoveElement
<1>3. before \subseteq Walked(s) \ {i}
  BY FilesAssumption DEF Walked
<1>4. IsFiniteSet(before) /\ Cardinality(before) <= Cardinality(Walked(s) \ {i})
  BY <1>2, <1>3, FS_Subset
<1>5. /\ Cardinality(Walked(s)) \in Nat /\ Cardinality(before) \in Nat /\ MaxFiles \in Nat
      /\ Cardinality(Walked(s)) <= MaxFiles
  BY <1>1, <1>4, FS_CardinalityType, FilesAssumption DEF Clear, Truncated
<1>6. Cardinality(before) < MaxFiles
  BY <1>2, <1>4, <1>5
<1> QED
  BY <1>6 DEF Scanned

\* No container is ever started over a workspace with a marker that can be read, or
\* beside a database the policy does not permit (nodes.refuse).
THEOREM ScreenSafety == Spec => []NothingRunsUnscreened
<1>1. Inv => NothingRunsUnscreened
  <2> SUFFICES ASSUME Inv, NEW l \in Launches, ran[l] # None
               PROVE  /\ ran[l].database # "other"
                      /\ \A i \in Walked(ran[l].over) : ~Detected(Files[ran[l].over][i])
    BY DEF NothingRunsUnscreened
  <2>1. ~Declined(ran[l].over, ran[l].database) /\ ran[l].over \in Subjects
    BY DEF Inv, Screened
  <2> QED
    BY <2>1, ClearIsRead DEF Declined
<1> QED
  BY <1>1, Invariance, PTL

\* Every tool call's image carries the collector (tiers.detect, nodes._entry_image).
THEOREM CollectorSafety == Spec => []CarriesTheCollector
<1>1. Inv => CarriesTheCollector
  BY DEF Inv, Carried, CarriesTheCollector
<1> QED
  BY <1>1, Invariance, PTL

\* Undisturbed, a run is measured in its own image (Capabilities.runs_in).
THEOREM ImageSafety == Spec => []OwnImageUnlessRebuilt
<1>1. Inv => OwnImageUnlessRebuilt
  BY DEF Inv, Own, OwnImageUnlessRebuilt
<1> QED
  BY <1>1, Invariance, PTL

\* No entry is written to a journal without its triggers (PersistentStore.initialize).
THEOREM JournalSafety == Spec => []JournalIsGuarded
<1>1. Inv => JournalIsGuarded
  BY DEF Inv, Guarded, JournalIsGuarded
<1> QED
  BY <1>1, Invariance, PTL

-----------------------------------------------------------------------------
(* One command in a sandbox *)

\* The end of the pipe, once read, is final: nobody is left who could write.
EndIsFinal == reader = "eof" => holding = {} /\ unread = 0

\* The leader collected is gone, every way out of the call collects it, and how far
\* the call has come says which signals were sent.
Collected ==
  /\ reaped => Leader \notin alive
  /\ pc \in {"joining", "killed", "draining", "done"} => Leader \notin alive
  /\ pc = "joining" => reaped
  /\ pc \in {"draining", "done"} => reaped \/ "KILL" \in sent
  /\ pc \in {"waiting", "joining", "killing", "term"} => sent = {}
  /\ pc \in {"grace", "kill"} => sent = {"TERM"}
  /\ pc = "killed" => "KILL" \in sent
  /\ "KILL" \in sent => group = {}

\* A call that is not over has no outcome, and a result came from the end of the pipe.
OutcomeIsLast ==
  /\ outcome # "none" => pc = "done"
  /\ outcome = "result" => reader = "eof"

IInv == TypeOK /\ Leader \in born /\ EndIsFinal /\ Collected /\ OutcomeIsLast

LEMMA InitHolds == ExecuteInit => IInv
<1> SUFFICES ASSUME ExecuteInit PROVE IInv
  OBVIOUS
<1>1. /\ alive \subseteq born /\ born \subseteq Procs
      /\ group \subseteq alive /\ holding \subseteq alive
  BY DEF ExecuteInit, Procs
<1>2. written \in 0..MaxWrites /\ unread \in 0..Capacity /\ unread <= written
  BY ExecuteAssumption, SMT DEF ExecuteInit
<1>3. late \in BOOLEAN /\ reaped \in BOOLEAN /\ sent \in {{}, {"TERM"}, {"TERM", "KILL"}}
  BY DEF ExecuteInit
<1>4. QED
  BY <1>1, <1>2, <1>3 DEF ExecuteInit, IInv, TypeOK, EndIsFinal, Collected, OutcomeIsLast

LEMMA NextHolds == IInv /\ [ExecuteNext]_executeVars => IInv'
<1> SUFFICES ASSUME IInv, [ExecuteNext]_executeVars PROVE IInv'
  OBVIOUS
<1> USE ExecuteAssumption DEF IInv, TypeOK, EndIsFinal, Collected, OutcomeIsLast, Procs,
        processes, pipe, harness
<1>1. ASSUME NEW parent \in Procs, NEW child \in Kids, Fork(parent, child) PROVE IInv'
  BY <1>1 DEF Fork
<1>2. ASSUME NEW p \in Procs, Leave(p) PROVE IInv'
  BY <1>2 DEF Leave
<1>3. ASSUME NEW p \in Procs, WriteChunk(p) PROVE IInv'
  BY <1>3 DEF WriteChunk
<1>4. ASSUME NEW p \in Procs, CloseOutput(p) PROVE IInv'
  BY <1>4 DEF CloseOutput
<1>5. ASSUME NEW p \in Procs, Exit(p) PROVE IInv'
  BY <1>5 DEF Exit
<1>6. CASE Read
  BY <1>6 DEF Read
<1>7. CASE Eof
  BY <1>7 DEF Eof
<1>8. CASE Timer
  BY <1>8 DEF Timer
<1>9. CASE Harness
  <2> USE DEF GoTo
  <2>1. CASE WaitReturns
    BY <2>1 DEF WaitReturns
  <2>2. CASE WaitExpires
    BY <2>2 DEF WaitExpires
  <2>3. CASE JoinReturns
    BY <2>3 DEF JoinReturns, Joined
  <2>4. CASE JoinExpires
    BY <2>4 DEF JoinExpires
  <2>5. CASE FindGroup
    BY <2>5 DEF FindGroup, FirstSignal
  <2>6. CASE Term
    BY <2>6 DEF Term
  <2>7. CASE GraceReturns
    BY <2>7 DEF GraceReturns
  <2>8. CASE GraceExpires
    BY <2>8 DEF GraceExpires, AfterGrace
  <2>9. CASE Kill
    BY <2>9 DEF Kill
  <2>10. CASE KillReturns
    BY <2>10 DEF KillReturns
  <2>11. CASE KillExpires
    BY <2>11 DEF KillExpires
  <2>12. CASE Drain
    BY <2>12 DEF Drain
  <2>13. QED
    BY <1>9, <2>1, <2>2, <2>3, <2>4, <2>5, <2>6, <2>7, <2>8, <2>9, <2>10, <2>11, <2>12
       DEF Harness
<1>10. CASE UNCHANGED executeVars
  BY <1>10 DEF executeVars
<1>11. QED
  BY <1>1, <1>2, <1>3, <1>4, <1>5, <1>6, <1>7, <1>8, <1>9, <1>10 DEF ExecuteNext, Subject

\* Every variable keeps its type, and nothing is killed that was not asked first.
THEOREM TypeSafety == ExecuteSpec => []TypeOK
<1>1. IInv => TypeOK
  BY DEF IInv
<1>2. QED
  BY <1>1, InitHolds, NextHolds, PTL DEF ExecuteSpec

\* A result is returned only when everything written was read and nobody is left
\* to write more, for any processes and any pipe (the join after popen.wait).
THEOREM ResultSafety == ExecuteSpec => []ResultIsWhole
<1>1. IInv => ResultIsWhole
  BY DEF IInv, EndIsFinal, OutcomeIsLast, ResultIsWhole
<1>2. QED
  BY <1>1, InitHolds, NextHolds, PTL DEF ExecuteSpec

\* The command never outlives its call, whatever it forks and however it takes a
\* SIGTERM (_kill_process_group).
THEOREM LeaderSafety == ExecuteSpec => []LeaderNeverOutlives
<1>1. IInv => LeaderNeverOutlives
  BY DEF IInv, Collected, OutcomeIsLast, LeaderNeverOutlives
<1>2. QED
  BY <1>1, InitHolds, NextHolds, PTL DEF ExecuteSpec

\* Whoever of the group is left after a timeout is left because the leader exited and
\* was collected, for any processes (_kill_process_group).
THEOREM SurvivorSafety == ExecuteSpec => []OnlyBehindItsLeader
<1>1. IInv => OnlyBehindItsLeader
  BY DEF IInv, Collected, OutcomeIsLast, OnlyBehindItsLeader
<1>2. QED
  BY <1>1, InitHolds, NextHolds, PTL DEF ExecuteSpec
=============================================================================
