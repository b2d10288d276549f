------------------------------ MODULE StartUp ------------------------------
(***************************************************************************)
(* How an instance of the backend comes up: connecting with retries,       *)
(* migrating the schema, seeding, loading the quizzes of a folder.         *)
(*                                                                         *)
(* Two instances are deployed on one database and start together; whoever  *)
(* fails or is killed is started again.  Only the migrations are under a   *)
(* lock, and nothing is in a transaction: seeding is skipped as soon as    *)
(* its first row is there, a quiz of the folder as soon as one has its     *)
(* title.                                                                  *)
(*                                                                         *)
(* The rows of the seed are counted in their fixed order, the teacher      *)
(* first; their ids are constants, so a second teacher is refused.         *)
(***************************************************************************)
EXTENDS Integers, Sequences, FiniteSets

CONSTANTS
    Instances,
    Migrations,     \* the number of migrations
    SeedRows,       \* the number of rows SeedData inserts
    Titles,         \* the titles of the folder's quizzes, in order
    Questions,      \* the number of questions of each
    MaxTries,       \* the attempts Connect makes
    MaxFaults,      \* bound: failing calls, kills
    None

ASSUME BoundsAssumption ==
    /\ {Migrations, MaxFaults} \subseteq Nat
    /\ {SeedRows, Questions, MaxTries} \subseteq Nat \ {0}
    /\ Titles \in Seq(STRING)
    /\ IsFiniteSet(Instances) /\ Instances # {} /\ None \notin Instances

VARIABLES
    version, dirty, \* schema_migrations
    schema,         \* the migrations whose statements have been executed
    lock,           \* the instance that holds the migration lock, or None
    seeded,         \* how many rows of the seed are there
    quizzes,        \* the quizzes loaded, in the order of their creation
    pc, tries,
    title,          \* title[i]: the position in Titles
    at,             \* at[i]: rows of the seed, or questions, dealt with
    mine,           \* mine[i]: the position in quizzes of the one being loaded
    faults,
    interrupted     \* history: seeding or loading met a fault half way

database == <<version, dirty, schema, lock>>
data == <<seeded, quizzes>>
locals == <<title, at, mine>>
vars == <<database, data, pc, tries, locals, faults, interrupted>>

Labels == {"down", "gaveUp", "connect", "lock", "migrate", "run", "clean",
           "email", "seed", "load", "create", "question", "serving"}

\* A quiz as its rows: its title and how many questions refer to it.
Quiz == [title : {Titles[t] : t \in DOMAIN Titles}, questions : 0 .. Questions]

\* Types; in particular Connect makes MaxTries attempts and no more.
TypeOK ==
    /\ version \in 0 .. Migrations /\ dirty \in BOOLEAN
    /\ schema \subseteq 1 .. Migrations
    /\ lock \in Instances \cup {None}
    /\ seeded \in 0 .. SeedRows
    /\ quizzes \in Seq(Quiz)
    /\ pc \in [Instances -> Labels]
    /\ tries \in [Instances -> 0 .. MaxTries]
    /\ title \in [Instances -> 1 .. Len(Titles) + 1]
    /\ at \in [Instances -> Nat]
    /\ mine \in [Instances -> 0 .. Len(quizzes)]
    /\ faults \in 0 .. MaxFaults
    /\ interrupted \in BOOLEAN

Init ==
    /\ version = 0 /\ dirty = FALSE /\ schema = {} /\ lock = None
    /\ seeded = 0 /\ quizzes = << >>
    /\ pc = [i \in Instances |-> "down"]
    /\ tries = [i \in Instances |-> 0]
    /\ title = [i \in Instances |-> 1]
    /\ at = [i \in Instances |-> 0]
    /\ mine = [i \in Instances |-> 0]
    /\ faults = 0 /\ interrupted = FALSE

GoTo(i, label) == pc' = [pc EXCEPT ![i] = label]

Fault == faults < MaxFaults /\ faults' = faults + 1

\* The lock is a session's: it ends with the connection.
Unlock(i) == lock' = IF lock = i THEN None ELSE lock

\* main: the process starts.
Start(i) ==
    /\ pc[i] \in {"down", "gaveUp"}
    /\ GoTo(i, "connect")
    /\ tries' = [tries EXCEPT ![i] = 0]
    /\ title' = [title EXCEPT ![i] = 1]
    /\ at' = [at EXCEPT ![i] = 0]
    /\ mine' = [mine EXCEPT ![i] = 0]
    /\ UNCHANGED <<database, data, faults, interrupted>>

-----------------------------------------------------------------------------
(* Connect and runMigrations                                               *)

\* The loop's next turn, or its end.
Retry(i) ==
    /\ tries' = [tries EXCEPT ![i] = @ + 1]
    /\ GoTo(i, IF tries[i] + 1 = MaxTries THEN "gaveUp" ELSE "connect")

Reach(i) ==
    /\ pc[i] = "connect"
    /\ GoTo(i, "lock")
    /\ UNCHANGED <<database, data, tries, locals, faults, interrupted>>

\* No connection, no answer to the ping, or no migration lock in time.
Unreachable(i) ==
    /\ pc[i] = "connect" \/ (pc[i] = "lock" /\ lock # None)
    /\ Fault /\ Retry(i)
    /\ UNCHANGED <<database, data, locals, interrupted>>

\* Up takes the lock and finds a clean version.
TakeLock(i) ==
    /\ pc[i] = "lock" /\ lock = None /\ ~dirty
    /\ lock' = i
    /\ GoTo(i, "migrate")
    /\ UNCHANGED <<version, dirty, schema, data, tries, locals, faults, interrupted>>

ForceDirty(i) ==
    /\ pc[i] = "lock" /\ lock = None /\ dirty
    /\ dirty' = FALSE
    /\ lock' = i
    /\ GoTo(i, "migrate")
    /\ UNCHANGED <<version, schema, data, tries, locals, faults, interrupted>>

\* Up finds a dirty version and says "Dirty database version 3. Fix and force
\* version."  runMigrations takes the word after the number for the number,
\* cannot parse it and fails: no version is ever forced.
FindDirty(i) ==
    /\ pc[i] = "lock" /\ lock = None /\ dirty
    /\ Retry(i)
    /\ UNCHANGED <<database, data, locals, faults, interrupted>>

\* Up, for each migration: the version is set dirty, the file is executed,
\* the version is set clean.
MarkDirty(i) ==
    /\ pc[i] = "migrate" /\ version < Migrations
    /\ version' = version + 1 /\ dirty' = TRUE
    /\ GoTo(i, "run")
    /\ UNCHANGED <<schema, lock, data, tries, locals, faults, interrupted>>

RunMigration(i) ==
    /\ pc[i] = "run"
    /\ schema' = schema \cup {version}
    /\ GoTo(i, "clean")
    /\ UNCHANGED <<version, dirty, lock, data, tries, locals, faults, interrupted>>

MarkClean(i) ==
    /\ pc[i] = "clean"
    /\ dirty' = FALSE
    /\ GoTo(i, "migrate")
    /\ UNCHANGED <<version, schema, lock, data, tries, locals, faults, interrupted>>

\* A call of Up fails; a file's statements are executed together or not at all.
MigrationFails(i) ==
    /\ pc[i] \in {"migrate", "run", "clean"}
    /\ Fault /\ Retry(i) /\ Unlock(i)
    /\ UNCHANGED <<version, dirty, schema, data, locals, interrupted>>

Migrated(i) ==
    /\ pc[i] = "migrate" /\ version = Migrations
    /\ Unlock(i)
    /\ GoTo(i, "email")
    /\ UNCHANGED <<version, dirty, schema, data, tries, locals, faults, interrupted>>

-----------------------------------------------------------------------------
(* SeedData                                                                *)

SeedFinished == seeded = SeedRows
TeacherExists == seeded > 0

\* EmailExists; when it fails, seeding goes on as if there were no teacher.
CheckSeed(i) ==
    /\ pc[i] = "email"
    /\ \/ TeacherExists /\ GoTo(i, "load") /\ UNCHANGED faults
       \/ ~TeacherExists /\ GoTo(i, "seed") /\ UNCHANGED faults
       \/ TeacherExists /\ Fault /\ GoTo(i, "seed")
    /\ UNCHANGED <<database, data, tries, locals, interrupted>>

\* The next row.  A second teacher breaks the primary key and ends the process.
SeedRow(i) ==
    /\ pc[i] = "seed" /\ at[i] < SeedRows
    /\ IF at[i] = 0 /\ seeded > 0
       THEN GoTo(i, "down") /\ UNCHANGED <<seeded, at>>
       ELSE /\ seeded' = seeded + 1
            /\ at' = [at EXCEPT ![i] = @ + 1]
            /\ UNCHANGED pc
    /\ UNCHANGED <<database, quizzes, tries, title, mine, faults, interrupted>>

EndSeed(i) ==
    /\ pc[i] = "seed" /\ at[i] = SeedRows
    /\ GoTo(i, "load")
    /\ UNCHANGED <<database, data, tries, locals, faults, interrupted>>

-----------------------------------------------------------------------------
(* LoadInitialDataFromFolder                                               *)

AnyQuiz(t) == quizzes # << >>
CompleteQuiz(t) == \E n \in DOMAIN quizzes : quizzes[n] = [title |-> t, questions |-> Questions]
TitleExists(t) == \E n \in DOMAIN quizzes : quizzes[n].title = t

NextTitle(i) ==
    /\ title' = [title EXCEPT ![i] = @ + 1]
    /\ at' = [at EXCEPT ![i] = 0]
    /\ GoTo(i, "load")

\* GetQuizzes, archived ones included: is there one of this title?
CheckTitle(i) ==
    /\ pc[i] = "load" /\ title[i] <= Len(Titles)
    /\ IF TitleExists(Titles[title[i]])
       THEN NextTitle(i)
       ELSE GoTo(i, "create") /\ UNCHANGED <<title, at>>
    /\ UNCHANGED <<database, data, tries, mine, faults, interrupted>>

CreateQuiz(i) ==
    /\ pc[i] = "create"
    /\ quizzes' = Append(quizzes, [title |-> Titles[title[i]], questions |-> 0])
    /\ mine' = [mine EXCEPT ![i] = Len(quizzes')]
    /\ at' = [at EXCEPT ![i] = 0]
    /\ GoTo(i, "question")
    /\ UNCHANGED <<database, seeded, tries, title, faults, interrupted>>

\* A question that cannot be inserted is logged, and the next one follows.
CreateQuestion(i) ==
    /\ pc[i] = "question" /\ at[i] < Questions
    /\ at' = [at EXCEPT ![i] = @ + 1]
    /\ \/ /\ quizzes' = [quizzes EXCEPT ![mine[i]].questions = @ + 1]
          /\ UNCHANGED <<faults, interrupted>>
       \/ /\ Fault /\ interrupted' = TRUE
          /\ UNCHANGED quizzes
    /\ UNCHANGED <<database, seeded, pc, tries, title, mine>>

EndQuiz(i) ==
    /\ pc[i] = "question" /\ at[i] = Questions
    /\ NextTitle(i)
    /\ UNCHANGED <<database, data, tries, mine, faults, interrupted>>

\* A failing query skips the quiz; the next start loads it.
SkipQuiz(i) ==
    /\ pc[i] \in {"load", "create"} /\ title[i] <= Len(Titles)
    /\ Fault /\ NextTitle(i)
    /\ interrupted' = TRUE
    /\ UNCHANGED <<database, data, tries, mine>>

Serve(i) ==
    /\ pc[i] = "load" /\ title[i] > Len(Titles)
    /\ GoTo(i, "serving")
    /\ UNCHANGED <<database, data, tries, locals, faults, interrupted>>

-----------------------------------------------------------------------------

\* The process is killed at any point, by a failing insert of the seed, a probe
\* that finds no server yet, or a new deployment.
Crash(i) ==
    /\ pc[i] \notin {"down", "gaveUp"}
    /\ Fault /\ Unlock(i)
    /\ GoTo(i, "down")
    /\ interrupted' = (interrupted \/ (pc[i] = "seed" /\ at[i] > 0) \/ pc[i] = "question")
    /\ UNCHANGED <<version, dirty, schema, data, tries, locals>>

Run(i) ==
    \/ Start(i) \/ Reach(i) \/ TakeLock(i) \/ FindDirty(i)
    \/ MarkDirty(i) \/ RunMigration(i) \/ MarkClean(i) \/ Migrated(i)
    \/ CheckSeed(i) \/ SeedRow(i) \/ EndSeed(i)
    \/ CheckTitle(i) \/ CreateQuiz(i) \/ CreateQuestion(i) \/ EndQuiz(i) \/ Serve(i)

Next == \E i \in Instances :
    Run(i) \/ Unreachable(i) \/ MigrationFails(i) \/ SkipQuiz(i) \/ Crash(i)

Spec == Init /\ [][Next]_vars

\* A process runs, and one that has ended is started again.
FairSpec == Spec /\ \A i \in Instances : WF_vars(Run(i))

-----------------------------------------------------------------------------
(* Properties                                                              *)

\* Whoever reads or writes the tables does so under the complete schema, although
\* two instances migrate it, may be killed between any two steps of it, and give
\* up when it is dirty.
SchemaComplete ==
    \A i \in Instances :
        pc[i] \in {"email", "seed", "load", "create", "question", "serving"}
            => schema = 1 .. Migrations

\* When all instances serve, the seed is complete and every quiz of the folder is
\* there with all of its questions, unless a fault met an instance between the
\* first row of the seed and its last, or in the middle of a quiz.  It is not
\* enough that one instance serves: the other may still be inserting.
DataComplete ==
    (~interrupted /\ \A i \in Instances : pc[i] = "serving")
        => /\ seeded = SeedRows
           /\ \A t \in DOMAIN Titles : CompleteQuiz(Titles[t])
           /\ \A n \in DOMAIN quizzes : quizzes[n].questions = Questions

\* Instances that start together may each load a quiz, for each looks for its
\* title before the other has created it; restarts add no further copy.
CopiesUpToInstances ==
    \A t \in DOMAIN Titles :
        Cardinality({n \in DOMAIN quizzes : quizzes[n].title = Titles[t]})
            <= Cardinality(Instances)

\* All instances come to serve, after any finite number of faults and whatever
\* the faults and the other instance have left in the tables, unless a fault
\* met a migration.
AllServe == <>[](\A i \in Instances : pc[i] = "serving") \/ <>[]dirty

=============================================================================
