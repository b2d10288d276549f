--------------------------- MODULE StartUpProofs ----------------------------
(***************************************************************************)
(* For any number of instances, migrations, titles and faults: who uses    *)
(* the tables of StartUp does so under the complete schema, a quiz is      *)
(* loaded at most once per instance, and without a fault half way the seed *)
(* and the quizzes are complete when all instances serve.                  *)
(***************************************************************************)
EXTENDS StartUp, FiniteSetTheorems, TLAPS

Migrating == {"migrate", "run", "clean"}
Connected == {"email", "seed", "load", "create", "question", "serving"}

\* One instance migrates at a time.
Locked == \A i \in Instances : pc[i] \in Migrating => lock = i

\* What has been executed, as far as the version and the label say it; while the
\* version is dirty and nobody migrates, nothing is known, and nobody goes on.
Executed ==
    /\ ~dirty => schema = 1 .. version
    /\ \A i \in Instances :
        /\ pc[i] = "migrate" => ~dirty
        /\ pc[i] = "run" => dirty /\ version > 0 /\ schema = 1 .. version - 1
        /\ pc[i] = "clean" => dirty /\ schema = 1 .. version
        /\ pc[i] \in Connected => version = Migrations /\ ~dirty

\* Who still tries has tries left.
TriesLeft ==
    \A i \in Instances : pc[i] \in {"connect", "lock", "migrate", "run", "clean"} => tries[i] < MaxTries

\* Who has inserted the teacher inserts all rows that are there, and is alone.
Seeding ==
    \A i \in Instances :
        /\ pc[i] \in {"connect", "lock", "migrate", "run", "clean", "email"} => at[i] = 0
        /\ pc[i] = "seed" /\ at[i] > 0 => seeded = at[i]
        /\ \A j \in Instances \ {i} :
            pc[i] = "seed" /\ pc[j] = "seed" => at[i] = 0 \/ at[j] = 0

\* Who inserts questions does so into a quiz of its own, one at most per turn.
Loading ==
    \A i \in Instances :
        /\ pc[i] \in {"create", "question"} => title[i] \in 1 .. Len(Titles)
        /\ pc[i] = "question" => /\ mine[i] \in 1 .. Len(quizzes)
                                 /\ at[i] \in 0 .. Questions
                                 /\ quizzes[mine[i]].questions <= at[i]
        /\ \A j \in Instances \ {i} :
            pc[i] = "question" /\ pc[j] = "question" => mine[i] # mine[j]

IInv == TypeOK /\ Locked /\ Executed /\ TriesLeft /\ Seeding /\ Loading

USE DEF database, data, locals

\* The bounds are numbers, and there are instances.
LEMMA Bounds ==
    /\ Migrations \in Nat /\ MaxFaults \in Nat /\ MaxTries \in Nat /\ MaxTries > 0
    /\ SeedRows \in Nat /\ SeedRows > 0 /\ Questions \in Nat /\ Questions > 0
    /\ Len(Titles) \in Nat /\ DOMAIN Titles = 1 .. Len(Titles) /\ None \notin Instances
BY BoundsAssumption

\* An instance that fails to connect tries again or gives up.
LEMMA RetryTyped ==
    ASSUME TypeOK, TriesLeft, NEW i \in Instances, pc[i] \in {"connect", "lock", "migrate", "run", "clean"}, Retry(i)
    PROVE  tries' \in [Instances -> 0 .. MaxTries] /\ pc' \in [Instances -> Labels] /\ TriesLeft'
<1>1. tries[i] < MaxTries /\ tries[i] \in Nat
    BY Bounds DEF TriesLeft, TypeOK
<1>2. tries[i] + 1 \in 0 .. MaxTries /\ (tries[i] + 1 # MaxTries => tries[i] + 1 < MaxTries)
    BY <1>1, Bounds
<1>3. PICK label \in {"gaveUp", "connect"} :
        /\ pc' = [pc EXCEPT ![i] = label]
        /\ label = "connect" => tries[i] + 1 # MaxTries
    BY DEF Retry, GoTo
<1>4. tries' = [tries EXCEPT ![i] = tries[i] + 1]
    BY DEF Retry
<1>5. tries' \in [Instances -> 0 .. MaxTries] /\ pc' \in [Instances -> Labels]
    BY <1>2, <1>3, <1>4 DEF TypeOK, Labels
<1>6. ASSUME NEW j \in Instances, pc'[j] \in {"connect", "lock", "migrate", "run", "clean"}
      PROVE  tries'[j] < MaxTries
    BY <1>2, <1>3, <1>4, <1>6 DEF TypeOK, TriesLeft
<1> QED BY <1>5, <1>6 DEF TriesLeft

\* SeedRow: the row inserted is the next one of whoever inserted the teacher.
LEMMA SeedRowKeeps ==
    ASSUME TypeOK, Seeding, Loading, NEW i \in Instances, SeedRow(i)
    PROVE  TypeOK' /\ Seeding'
<1> USE Bounds DEF Labels, GoTo
<1>1. CASE at[i] = 0 /\ seeded > 0
    BY <1>1 DEF SeedRow, TypeOK, Seeding
<1>2. CASE ~(at[i] = 0 /\ seeded > 0)
    <2>1. seeded = at[i] /\ at[i] \in Nat /\ at[i] < SeedRows
        BY <1>2 DEF SeedRow, TypeOK, Seeding
    <2>2. seeded' = seeded + 1 /\ at' = [at EXCEPT ![i] = seeded + 1] /\ UNCHANGED pc
        BY <1>2, <2>1 DEF SeedRow
    <2>3. TypeOK'
        <3>1. seeded' \in 0 .. SeedRows
            BY <2>1, <2>2
        <3>2. at' \in [Instances -> Nat]
            BY <2>1, <2>2 DEF TypeOK
        <3>3. UNCHANGED <<database, quizzes, pc, tries, title, mine, faults, interrupted>>
            BY <2>2 DEF SeedRow
        <3> QED BY <3>1, <3>2, <3>3 DEF TypeOK
    <2>4. \A j \in Instances \ {i} : pc[j] = "seed" => at[j] = 0
        BY <2>1 DEF SeedRow, TypeOK, Seeding
    <2>5. Seeding'
        BY <2>1, <2>2, <2>4 DEF SeedRow, TypeOK, Seeding
    <2> QED BY <2>3, <2>5
<1> QED BY <1>1, <1>2

\* CheckTitle goes to the next title or to the creation of this one.
LEMMA CheckTitleKeeps ==
    ASSUME TypeOK, Seeding, Loading, NEW i \in Instances, CheckTitle(i)
    PROVE  TypeOK' /\ Seeding' /\ Loading'
<1> USE Bounds DEF Labels, GoTo
<1>0. pc[i] = "load" /\ title[i] \in 1 .. Len(Titles) /\ UNCHANGED <<database, data, tries, mine, faults, interrupted>>
    BY DEF CheckTitle, TypeOK
<1>1. CASE TitleExists(Titles[title[i]])
    <2>1. /\ pc' = [pc EXCEPT ![i] = "load"] /\ title' = [title EXCEPT ![i] = title[i] + 1]
          /\ at' = [at EXCEPT ![i] = 0]
        BY <1>1 DEF CheckTitle, NextTitle, TitleExists
    <2>2. TypeOK'
        BY <1>0, <2>1 DEF TypeOK
    <2>3. Seeding'
        BY <1>0, <2>1 DEF TypeOK, Seeding
    <2>4. Loading'
        BY <1>0, <2>1 DEF TypeOK, Loading
    <2> QED BY <2>2, <2>3, <2>4
<1>2. CASE ~TitleExists(Titles[title[i]])
    <2>1. pc' = [pc EXCEPT ![i] = "create"] /\ UNCHANGED <<title, at>>
        BY <1>2 DEF CheckTitle
    <2>2. TypeOK'
        BY <1>0, <2>1 DEF TypeOK
    <2>3. Seeding'
        BY <1>0, <2>1 DEF TypeOK, Seeding
    <2>4. Loading'
        BY <1>0, <2>1 DEF TypeOK, Loading
    <2> QED BY <2>2, <2>3, <2>4
<1> QED BY <1>1, <1>2

\* CreateQuiz: the new quiz is nobody else's.
LEMMA CreateQuizKeeps ==
    ASSUME TypeOK, Seeding, Loading, NEW i \in Instances, CreateQuiz(i)
    PROVE  TypeOK' /\ Loading'
<1> USE Bounds DEF Labels, GoTo
<1>1. /\ title[i] \in 1 .. Len(Titles)
      /\ [title |-> Titles[title[i]], questions |-> 0] \in Quiz
    BY DEF CreateQuiz, Loading, Quiz
<1>2. /\ quizzes' \in Seq(Quiz) /\ Len(quizzes') = Len(quizzes) + 1 /\ Len(quizzes) \in Nat
      /\ \A n \in 1 .. Len(quizzes) : quizzes'[n] = quizzes[n]
      /\ quizzes'[Len(quizzes) + 1].questions = 0
    BY <1>1 DEF CreateQuiz, TypeOK
<1>3. mine' = [mine EXCEPT ![i] = Len(quizzes) + 1]
    BY <1>2 DEF CreateQuiz
<1>4. /\ pc' = [pc EXCEPT ![i] = "question"] /\ at' = [at EXCEPT ![i] = 0]
      /\ UNCHANGED <<database, seeded, tries, title, faults, interrupted>>
    BY DEF CreateQuiz
<1>5. TypeOK'
    <2>1. mine' \in [Instances -> 0 .. Len(quizzes')]
        BY <1>2, <1>3 DEF TypeOK
    <2> QED BY <1>2, <1>4, <2>1 DEF TypeOK
<1>6. Loading'
    <2>1. \A j \in Instances : pc'[j] \in {"create", "question"} => title'[j] \in 1 .. Len(Titles)
        BY <1>1, <1>4 DEF TypeOK, Loading
    <2>2. \A j \in Instances : pc'[j] = "question" => mine'[j] \in 1 .. Len(quizzes')
        BY <1>2, <1>3, <1>4 DEF TypeOK, Loading
    <2>3. \A j \in Instances : pc'[j] = "question" =>
            /\ at'[j] \in 0 .. Questions
            /\ quizzes'[mine'[j]].questions <= at'[j]
        <3> SUFFICES ASSUME NEW j \in Instances, pc'[j] = "question"
                     PROVE  /\ at'[j] \in 0 .. Questions
                            /\ quizzes'[mine'[j]].questions <= at'[j]
            OBVIOUS
        <3>1. CASE j = i
            BY <1>2, <1>3, <1>4, <3>1 DEF TypeOK
        <3>2. CASE j # i
            <4>1. pc[j] = "question" /\ mine'[j] = mine[j] /\ at'[j] = at[j]
                BY <1>3, <1>4, <3>2 DEF TypeOK
            <4>2. /\ mine[j] \in 1 .. Len(quizzes) /\ at[j] \in 0 .. Questions
                  /\ quizzes[mine[j]].questions <= at[j]
                BY <4>1 DEF Loading
            <4> QED BY <1>2, <4>1, <4>2
        <3> QED BY <3>1, <3>2
    <2>4. \A j \in Instances : \A k \in Instances \ {j} :
            pc'[j] = "question" /\ pc'[k] = "question" => mine'[j] # mine'[k]
        <3>1. \A j \in Instances \ {i} : pc'[j] = "question" =>
                pc[j] = "question" /\ mine'[j] = mine[j] /\ mine[j] \in 1 .. Len(quizzes)
            BY <1>3, <1>4 DEF TypeOK, Loading
        <3>2. mine'[i] = Len(quizzes) + 1 /\ Len(quizzes) \in Nat
            BY <1>2, <1>3 DEF TypeOK
        <3> QED BY <3>1, <3>2 DEF Loading
    <2> QED BY <2>1, <2>2, <2>3, <2>4 DEF Loading
<1> QED BY <1>5, <1>6

\* CreateQuestion inserts into the quiz this instance created.
LEMMA CreateQuestionKeeps ==
    ASSUME TypeOK, Seeding, Loading, NEW i \in Instances, CreateQuestion(i)
    PROVE  TypeOK' /\ Loading'
<1> USE Bounds DEF Labels, GoTo
<1>1. /\ pc[i] = "question" /\ at[i] < Questions /\ at' = [at EXCEPT ![i] = at[i] + 1]
      /\ UNCHANGED <<database, seeded, pc, tries, title, mine>>
    BY DEF CreateQuestion
<1>2. /\ mine[i] \in 1 .. Len(quizzes) /\ quizzes[mine[i]] \in Quiz
      /\ quizzes[mine[i]].questions <= at[i] /\ at[i] \in Nat
      /\ quizzes[mine[i]].questions \in Nat /\ Len(quizzes) \in Nat
    <2>1. /\ mine[i] \in 1 .. Len(quizzes) /\ quizzes[mine[i]].questions <= at[i]
          /\ at[i] \in 0 .. Questions
        BY <1>1 DEF Loading
    <2>2. quizzes[mine[i]] \in Quiz /\ Len(quizzes) \in Nat
        BY <2>1 DEF TypeOK
    <2> QED BY <2>1, <2>2 DEF Quiz
<1>5. ASSUME NEW j \in Instances, pc[j] = "question", j # i
      PROVE  mine[j] # mine[i] /\ at'[j] = at[j]
    BY <1>1, <1>5 DEF Loading, TypeOK
<1>6. at'[i] = at[i] + 1 /\ at[i] + 1 \in 0 .. Questions /\ at' \in [Instances -> Nat]
    <2>1. at \in [Instances -> Nat]
        BY DEF TypeOK
    <2> QED BY <1>1, <1>2, <2>1
<1>3. CASE quizzes' = [quizzes EXCEPT ![mine[i]].questions = @ + 1] /\ UNCHANGED <<faults, interrupted>>
    <2> DEFINE m == mine[i]
               more == [title |-> quizzes[m].title, questions |-> quizzes[m].questions + 1]
    <2>0. more \in Quiz /\ quizzes' = [quizzes EXCEPT ![m] = more]
        <3>1. quizzes[m] = [title |-> quizzes[m].title, questions |-> quizzes[m].questions]
            BY <1>2 DEF Quiz
        <3>2. [quizzes[m] EXCEPT !.questions = @ + 1] = more
            BY <3>1
        <3>3. quizzes[m].questions + 1 \in 0 .. Questions
            BY <1>1, <1>2 DEF Quiz
        <3> QED BY <1>2, <1>3, <3>2, <3>3 DEF Quiz
    <2>1. /\ quizzes' \in Seq(Quiz) /\ Len(quizzes') = Len(quizzes)
          /\ quizzes'[mine[i]].questions = quizzes[mine[i]].questions + 1
          /\ \A n \in 1 .. Len(quizzes) \ {mine[i]} : quizzes'[n] = quizzes[n]
        BY <1>2, <2>0 DEF TypeOK
    <2>2. TypeOK'
        BY <1>1, <1>3, <1>6, <2>1 DEF TypeOK
    <2>3. ASSUME NEW j \in Instances, pc[j] = "question"
          PROVE  /\ mine[j] \in 1 .. Len(quizzes') /\ at'[j] \in 0 .. Questions
                 /\ quizzes'[mine[j]].questions <= at'[j]
        <3>1. CASE j = i
            BY <1>2, <1>6, <2>1, <3>1
        <3>2. CASE j # i
            BY <1>5, <2>1, <2>3, <3>2 DEF Loading
        <3> QED BY <3>1, <3>2
    <2>4. Loading'
        BY <1>1, <2>3 DEF Loading
    <2> QED BY <2>2, <2>4
<1>4. CASE Fault /\ interrupted' = TRUE /\ UNCHANGED quizzes
    <2>1. TypeOK'
        BY <1>1, <1>4, <1>6 DEF TypeOK, Fault
    <2>2. ASSUME NEW j \in Instances, pc[j] = "question"
          PROVE  at'[j] \in 0 .. Questions /\ quizzes[mine[j]].questions <= at'[j]
        <3>1. CASE j = i
            BY <1>2, <1>6, <3>1
        <3>2. CASE j # i
            BY <1>5, <2>2, <3>2 DEF Loading
        <3> QED BY <3>1, <3>2
    <2>3. Loading'
        BY <1>1, <1>4, <2>2 DEF Loading
    <2> QED BY <2>1, <2>3
<1> QED BY <1>3, <1>4 DEF CreateQuestion

\* Every step keeps the types.
LEMMA TypesKept ==
    ASSUME IInv, Next
    PROVE  TypeOK'
<1> USE Bounds DEF IInv, Labels, GoTo
<1>1. ASSUME NEW i \in Instances, Start(i) PROVE TypeOK'
    BY <1>1 DEF TypeOK, Start
<1>2. ASSUME NEW i \in Instances, Reach(i) PROVE TypeOK'
    BY <1>2 DEF TypeOK, Reach
<1>3. ASSUME NEW i \in Instances, Unreachable(i) PROVE TypeOK'
    <2>1. pc[i] \in {"connect", "lock"} /\ Retry(i)
        BY <1>3 DEF Unreachable
    <2>2. tries' \in [Instances -> 0 .. MaxTries] /\ pc' \in [Instances -> Labels]
        BY <2>1, RetryTyped
    <2> QED BY <1>3, <2>2 DEF Unreachable, Fault, TypeOK
<1>4. ASSUME NEW i \in Instances, TakeLock(i) PROVE TypeOK'
    BY <1>4 DEF TypeOK, TakeLock
<1>5. ASSUME NEW i \in Instances, FindDirty(i) PROVE TypeOK'
    <2>1. pc[i] = "lock" /\ Retry(i)
        BY <1>5 DEF FindDirty
    <2>2. tries' \in [Instances -> 0 .. MaxTries] /\ pc' \in [Instances -> Labels]
        BY <2>1, RetryTyped
    <2> QED BY <1>5, <2>2 DEF FindDirty, TypeOK
<1>6. ASSUME NEW i \in Instances, MarkDirty(i) PROVE TypeOK'
    BY <1>6 DEF TypeOK, MarkDirty
<1>7. ASSUME NEW i \in Instances, RunMigration(i) PROVE TypeOK'
    BY <1>7 DEF RunMigration, TypeOK, Executed
<1>8. ASSUME NEW i \in Instances, MarkClean(i) PROVE TypeOK'
    BY <1>8 DEF TypeOK, MarkClean
<1>9. ASSUME NEW i \in Instances, MigrationFails(i) PROVE TypeOK'
    BY <1>9, RetryTyped DEF MigrationFails, Fault, Unlock, TypeOK
<1>10. ASSUME NEW i \in Instances, Migrated(i) PROVE TypeOK'
    BY <1>10 DEF TypeOK, Migrated, Unlock
<1>11. ASSUME NEW i \in Instances, CheckSeed(i) PROVE TypeOK'
    <2>1. \E label \in {"load", "seed"} : pc' = [pc EXCEPT ![i] = label]
        BY <1>11 DEF CheckSeed
    <2>2. faults' \in 0 .. MaxFaults
        BY <1>11 DEF CheckSeed, Fault, TypeOK
    <2> QED BY <1>11, <2>1, <2>2 DEF CheckSeed, TypeOK
<1>12. ASSUME NEW i \in Instances, SeedRow(i) PROVE TypeOK'
    BY <1>12, SeedRowKeeps
<1>13. ASSUME NEW i \in Instances, EndSeed(i) PROVE TypeOK'
    BY <1>13 DEF TypeOK, EndSeed
<1>14. ASSUME NEW i \in Instances, CheckTitle(i) PROVE TypeOK'
    BY <1>14, CheckTitleKeeps
<1>15. ASSUME NEW i \in Instances, CreateQuiz(i) PROVE TypeOK'
    BY <1>15, CreateQuizKeeps
<1>16. ASSUME NEW i \in Instances, CreateQuestion(i) PROVE TypeOK'
    BY <1>16, CreateQuestionKeeps
<1>17. ASSUME NEW i \in Instances, EndQuiz(i) PROVE TypeOK'
    <2>1. /\ title[i] \in 1 .. Len(Titles)
          /\ UNCHANGED <<database, data, tries, mine, faults, interrupted>>
        BY <1>17 DEF EndQuiz, Loading
    <2>2. /\ pc' = [pc EXCEPT ![i] = "load"] /\ title' = [title EXCEPT ![i] = title[i] + 1]
          /\ at' = [at EXCEPT ![i] = 0]
        BY <1>17 DEF EndQuiz, NextTitle
    <2>3. title' \in [Instances -> 1 .. Len(Titles) + 1]
        BY <2>1, <2>2 DEF TypeOK
    <2> QED BY <2>1, <2>2, <2>3 DEF TypeOK
<1>18. ASSUME NEW i \in Instances, SkipQuiz(i) PROVE TypeOK'
    BY <1>18 DEF TypeOK, SkipQuiz, NextTitle, Fault
<1>19. ASSUME NEW i \in Instances, Serve(i) PROVE TypeOK'
    BY <1>19 DEF TypeOK, Serve
<1>20. ASSUME NEW i \in Instances, Crash(i) PROVE TypeOK'
    BY <1>20 DEF TypeOK, Crash, Fault, Unlock
<1> QED BY <1>1, <1>2, <1>3, <1>4, <1>5, <1>6, <1>7, <1>8, <1>9, <1>10,
           <1>11, <1>12, <1>13, <1>14, <1>15, <1>16, <1>17, <1>18, <1>19, <1>20 DEF Next, Run

\* Only the holder of the lock migrates, and nobody takes it from it.
LEMMA LockedKept ==
    ASSUME IInv, Next
    PROVE  Locked'
<1> USE Bounds DEF IInv, Labels, Migrating, GoTo
<1>1. ASSUME NEW i \in Instances, Start(i) PROVE Locked'
    BY <1>1 DEF TypeOK, Locked, Start
<1>2. ASSUME NEW i \in Instances, Reach(i) PROVE Locked'
    BY <1>2 DEF TypeOK, Locked, Reach
<1>3. ASSUME NEW i \in Instances, Unreachable(i) PROVE Locked'
    BY <1>3 DEF TypeOK, Locked, Unreachable, Fault, Retry
<1>4. ASSUME NEW i \in Instances, TakeLock(i) PROVE Locked'
    BY <1>4 DEF TypeOK, Locked, TakeLock
<1>5. ASSUME NEW i \in Instances, FindDirty(i) PROVE Locked'
    BY <1>5 DEF TypeOK, Locked, FindDirty, Retry
<1>6. ASSUME NEW i \in Instances, MarkDirty(i) PROVE Locked'
    BY <1>6 DEF TypeOK, Locked, MarkDirty
<1>7. ASSUME NEW i \in Instances, RunMigration(i) PROVE Locked'
    BY <1>7 DEF TypeOK, Locked, RunMigration
<1>8. ASSUME NEW i \in Instances, MarkClean(i) PROVE Locked'
    BY <1>8 DEF TypeOK, Locked, MarkClean
<1>9. ASSUME NEW i \in Instances, MigrationFails(i) PROVE Locked'
    BY <1>9 DEF TypeOK, Locked, MigrationFails, Fault, Retry, Unlock
<1>10. ASSUME NEW i \in Instances, Migrated(i) PROVE Locked'
    BY <1>10 DEF TypeOK, Locked, Migrated, Unlock
<1>11. ASSUME NEW i \in Instances, CheckSeed(i) PROVE Locked'
    BY <1>11 DEF TypeOK, Locked, CheckSeed, TeacherExists, Fault
<1>12. ASSUME NEW i \in Instances, SeedRow(i) PROVE Locked'
    BY <1>12 DEF TypeOK, Locked, SeedRow
<1>13. ASSUME NEW i \in Instances, EndSeed(i) PROVE Locked'
    BY <1>13 DEF TypeOK, Locked, EndSeed
<1>14. ASSUME NEW i \in Instances, CheckTitle(i) PROVE Locked'
    BY <1>14 DEF TypeOK, Locked, CheckTitle, NextTitle
<1>15. ASSUME NEW i \in Instances, CreateQuiz(i) PROVE Locked'
    BY <1>15 DEF TypeOK, Locked, CreateQuiz
<1>16. ASSUME NEW i \in Instances, CreateQuestion(i) PROVE Locked'
    BY <1>16 DEF TypeOK, Locked, CreateQuestion, Fault
<1>17. ASSUME NEW i \in Instances, EndQuiz(i) PROVE Locked'
    BY <1>17 DEF TypeOK, Locked, EndQuiz, NextTitle
<1>18. ASSUME NEW i \in Instances, SkipQuiz(i) PROVE Locked'
    BY <1>18 DEF TypeOK, Locked, SkipQuiz, NextTitle, Fault
<1>19. ASSUME NEW i \in Instances, Serve(i) PROVE Locked'
    BY <1>19 DEF TypeOK, Locked, Serve
<1>20. ASSUME NEW i \in Instances, Crash(i) PROVE Locked'
    BY <1>20 DEF TypeOK, Locked, Crash, Fault, Unlock
<1> QED BY <1>1, <1>2, <1>3, <1>4, <1>5, <1>6, <1>7, <1>8, <1>9, <1>10,
           <1>11, <1>12, <1>13, <1>14, <1>15, <1>16, <1>17, <1>18, <1>19, <1>20 DEF Next, Run

\* The version goes on only with what has been executed.
LEMMA ExecutedKept ==
    ASSUME IInv, Next
    PROVE  Executed'
<1> USE Bounds DEF IInv, Labels, Migrating, Connected, GoTo
<1>1. ASSUME NEW i \in Instances, Start(i) PROVE Executed'
    BY <1>1 DEF TypeOK, Locked, Executed, Start
<1>2. ASSUME NEW i \in Instances, Reach(i) PROVE Executed'
    BY <1>2 DEF TypeOK, Locked, Executed, Reach
<1>3. ASSUME NEW i \in Instances, Unreachable(i) PROVE Executed'
    BY <1>3 DEF TypeOK, Locked, Executed, Unreachable, Fault, Retry
<1>4. ASSUME NEW i \in Instances, TakeLock(i) PROVE Executed'
    BY <1>4 DEF TypeOK, Locked, Executed, TakeLock
<1>5. ASSUME NEW i \in Instances, FindDirty(i) PROVE Executed'
    BY <1>5 DEF TypeOK, Locked, Executed, FindDirty, Retry
<1>6. ASSUME NEW i \in Instances, MarkDirty(i) PROVE Executed'
    BY <1>6 DEF TypeOK, Locked, Executed, MarkDirty
<1>7. ASSUME NEW i \in Instances, RunMigration(i) PROVE Executed'
    BY <1>7 DEF TypeOK, Locked, Executed, RunMigration
<1>8. ASSUME NEW i \in Instances, MarkClean(i) PROVE Executed'
    BY <1>8 DEF TypeOK, Locked, Executed, MarkClean
<1>9. ASSUME NEW i \in Instances, MigrationFails(i) PROVE Executed'
    BY <1>9 DEF TypeOK, Locked, Executed, MigrationFails, Fault, Retry, Unlock
<1>10. ASSUME NEW i \in Instances, Migrated(i) PROVE Executed'
    BY <1>10 DEF TypeOK, Locked, Executed, Migrated, Unlock
<1>11. ASSUME NEW i \in Instances, CheckSeed(i) PROVE Executed'
    BY <1>11 DEF TypeOK, Locked, Executed, CheckSeed, TeacherExists, Fault
<1>12. ASSUME NEW i \in Instances, SeedRow(i) PROVE Executed'
    BY <1>12 DEF TypeOK, Locked, Executed, SeedRow
<1>13. ASSUME NEW i \in Instances, EndSeed(i) PROVE Executed'
    BY <1>13 DEF TypeOK, Locked, Executed, EndSeed
<1>14. ASSUME NEW i \in Instances, CheckTitle(i) PROVE Executed'
    BY <1>14 DEF TypeOK, Locked, Executed, CheckTitle, NextTitle
<1>15. ASSUME NEW i \in Instances, CreateQuiz(i) PROVE Executed'
    BY <1>15 DEF TypeOK, Locked, Executed, CreateQuiz
<1>16. ASSUME NEW i \in Instances, CreateQuestion(i) PROVE Executed'
    BY <1>16 DEF TypeOK, Locked, Executed, CreateQuestion, Fault
<1>17. ASSUME NEW i \in Instances, EndQuiz(i) PROVE Executed'
    BY <1>17 DEF TypeOK, Locked, Executed, EndQuiz, NextTitle
<1>18. ASSUME NEW i \in Instances, SkipQuiz(i) PROVE Executed'
    BY <1>18 DEF TypeOK, Locked, Executed, SkipQuiz, NextTitle, Fault
<1>19. ASSUME NEW i \in Instances, Serve(i) PROVE Executed'
    BY <1>19 DEF TypeOK, Locked, Executed, Serve
<1>20. ASSUME NEW i \in Instances, Crash(i) PROVE Executed'
    BY <1>20 DEF TypeOK, Locked, Executed, Crash, Fault, Unlock
<1> QED BY <1>1, <1>2, <1>3, <1>4, <1>5, <1>6, <1>7, <1>8, <1>9, <1>10,
           <1>11, <1>12, <1>13, <1>14, <1>15, <1>16, <1>17, <1>18, <1>19, <1>20 DEF Next, Run

\* Whoever has used up its tries has exited.
LEMMA TriesLeftKept ==
    ASSUME IInv, Next
    PROVE  TriesLeft'
<1> USE Bounds DEF IInv, Labels, GoTo
<1>1. ASSUME NEW i \in Instances, Start(i) PROVE TriesLeft'
    BY <1>1 DEF TypeOK, TriesLeft, Start
<1>2. ASSUME NEW i \in Instances, Reach(i) PROVE TriesLeft'
    BY <1>2 DEF TypeOK, TriesLeft, Reach
<1>3. ASSUME NEW i \in Instances, Unreachable(i) PROVE TriesLeft'
    BY <1>3, RetryTyped DEF Unreachable
<1>4. ASSUME NEW i \in Instances, TakeLock(i) PROVE TriesLeft'
    BY <1>4 DEF TypeOK, TriesLeft, TakeLock
<1>5. ASSUME NEW i \in Instances, FindDirty(i) PROVE TriesLeft'
    BY <1>5, RetryTyped DEF FindDirty
<1>6. ASSUME NEW i \in Instances, MarkDirty(i) PROVE TriesLeft'
    BY <1>6 DEF TypeOK, TriesLeft, MarkDirty
<1>7. ASSUME NEW i \in Instances, RunMigration(i) PROVE TriesLeft'
    BY <1>7 DEF TypeOK, TriesLeft, RunMigration
<1>8. ASSUME NEW i \in Instances, MarkClean(i) PROVE TriesLeft'
    BY <1>8 DEF TypeOK, TriesLeft, MarkClean
<1>9. ASSUME NEW i \in Instances, MigrationFails(i) PROVE TriesLeft'
    BY <1>9, RetryTyped DEF MigrationFails
<1>10. ASSUME NEW i \in Instances, Migrated(i) PROVE TriesLeft'
    BY <1>10 DEF TypeOK, TriesLeft, Migrated, Unlock
<1>11. ASSUME NEW i \in Instances, CheckSeed(i) PROVE TriesLeft'
    BY <1>11 DEF TypeOK, TriesLeft, CheckSeed, TeacherExists, Fault
<1>12. ASSUME NEW i \in Instances, SeedRow(i) PROVE TriesLeft'
    BY <1>12 DEF TypeOK, TriesLeft, SeedRow
<1>13. ASSUME NEW i \in Instances, EndSeed(i) PROVE TriesLeft'
    BY <1>13 DEF TypeOK, TriesLeft, EndSeed
<1>14. ASSUME NEW i \in Instances, CheckTitle(i) PROVE TriesLeft'
    BY <1>14 DEF TypeOK, TriesLeft, CheckTitle, NextTitle
<1>15. ASSUME NEW i \in Instances, CreateQuiz(i) PROVE TriesLeft'
    BY <1>15 DEF TypeOK, TriesLeft, CreateQuiz
<1>16. ASSUME NEW i \in Instances, CreateQuestion(i) PROVE TriesLeft'
    BY <1>16 DEF TypeOK, TriesLeft, CreateQuestion, Fault
<1>17. ASSUME NEW i \in Instances, EndQuiz(i) PROVE TriesLeft'
    BY <1>17 DEF TypeOK, TriesLeft, EndQuiz, NextTitle
<1>18. ASSUME NEW i \in Instances, SkipQuiz(i) PROVE TriesLeft'
    BY <1>18 DEF TypeOK, TriesLeft, SkipQuiz, NextTitle, Fault
<1>19. ASSUME NEW i \in Instances, Serve(i) PROVE TriesLeft'
    BY <1>19 DEF TypeOK, TriesLeft, Serve
<1>20. ASSUME NEW i \in Instances, Crash(i) PROVE TriesLeft'
    BY <1>20 DEF TypeOK, TriesLeft, Crash, Fault, Unlock
<1> QED BY <1>1, <1>2, <1>3, <1>4, <1>5, <1>6, <1>7, <1>8, <1>9, <1>10,
           <1>11, <1>12, <1>13, <1>14, <1>15, <1>16, <1>17, <1>18, <1>19, <1>20 DEF Next, Run

\* A second instance finds the teacher and does not seed.
LEMMA SeedingKept ==
    ASSUME IInv, Next
    PROVE  Seeding'
<1> USE Bounds DEF IInv, Labels, GoTo
<1>1. ASSUME NEW i \in Instances, Start(i) PROVE Seeding'
    BY <1>1 DEF TypeOK, Seeding, Start
<1>2. ASSUME NEW i \in Instances, Reach(i) PROVE Seeding'
    BY <1>2 DEF TypeOK, Seeding, Reach
<1>3. ASSUME NEW i \in Instances, Unreachable(i) PROVE Seeding'
    BY <1>3 DEF TypeOK, Seeding, Unreachable, Fault, Retry
<1>4. ASSUME NEW i \in Instances, TakeLock(i) PROVE Seeding'
    BY <1>4 DEF TypeOK, Seeding, TakeLock
<1>5. ASSUME NEW i \in Instances, FindDirty(i) PROVE Seeding'
    BY <1>5 DEF TypeOK, Seeding, FindDirty, Retry
<1>6. ASSUME NEW i \in Instances, MarkDirty(i) PROVE Seeding'
    BY <1>6 DEF TypeOK, Seeding, MarkDirty
<1>7. ASSUME NEW i \in Instances, RunMigration(i) PROVE Seeding'
    BY <1>7 DEF TypeOK, Seeding, RunMigration
<1>8. ASSUME NEW i \in Instances, MarkClean(i) PROVE Seeding'
    BY <1>8 DEF TypeOK, Seeding, MarkClean
<1>9. ASSUME NEW i \in Instances, MigrationFails(i) PROVE Seeding'
    BY <1>9 DEF TypeOK, Seeding, MigrationFails, Fault, Retry, Unlock
<1>10. ASSUME NEW i \in Instances, Migrated(i) PROVE Seeding'
    BY <1>10 DEF TypeOK, Seeding, Migrated, Unlock
<1>11. ASSUME NEW i \in Instances, CheckSeed(i) PROVE Seeding'
    <2>1. \E label \in {"load", "seed"} : pc' = [pc EXCEPT ![i] = label]
        BY <1>11 DEF CheckSeed
    <2>2. at[i] = 0 /\ UNCHANGED <<at, seeded>>
        BY <1>11 DEF CheckSeed, Seeding
    <2> QED BY <2>1, <2>2 DEF TypeOK, Seeding
<1>12. ASSUME NEW i \in Instances, SeedRow(i) PROVE Seeding'
    BY <1>12, SeedRowKeeps
<1>13. ASSUME NEW i \in Instances, EndSeed(i) PROVE Seeding'
    BY <1>13 DEF TypeOK, Seeding, EndSeed
<1>14. ASSUME NEW i \in Instances, CheckTitle(i) PROVE Seeding'
    BY <1>14, CheckTitleKeeps
<1>15. ASSUME NEW i \in Instances, CreateQuiz(i) PROVE Seeding'
    BY <1>15 DEF TypeOK, Seeding, CreateQuiz
<1>16. ASSUME NEW i \in Instances, CreateQuestion(i) PROVE Seeding'
    BY <1>16 DEF TypeOK, Seeding, CreateQuestion, Fault
<1>17. ASSUME NEW i \in Instances, EndQuiz(i) PROVE Seeding'
    BY <1>17 DEF TypeOK, Seeding, EndQuiz, NextTitle
<1>18. ASSUME NEW i \in Instances, SkipQuiz(i) PROVE Seeding'
    BY <1>18 DEF TypeOK, Seeding, SkipQuiz, NextTitle, Fault
<1>19. ASSUME NEW i \in Instances, Serve(i) PROVE Seeding'
    BY <1>19 DEF TypeOK, Seeding, Serve
<1>20. ASSUME NEW i \in Instances, Crash(i) PROVE Seeding'
    BY <1>20 DEF TypeOK, Seeding, Crash, Fault, Unlock
<1> QED BY <1>1, <1>2, <1>3, <1>4, <1>5, <1>6, <1>7, <1>8, <1>9, <1>10,
           <1>11, <1>12, <1>13, <1>14, <1>15, <1>16, <1>17, <1>18, <1>19, <1>20 DEF Next, Run

\* Quizzes are extended by the instance that created them.
LEMMA LoadingKept ==
    ASSUME IInv, Next
    PROVE  Loading'
<1> USE Bounds DEF IInv, Labels, GoTo
<1>1. ASSUME NEW i \in Instances, Start(i) PROVE Loading'
    BY <1>1 DEF TypeOK, Loading, Start
<1>2. ASSUME NEW i \in Instances, Reach(i) PROVE Loading'
    BY <1>2 DEF TypeOK, Loading, Reach
<1>3. ASSUME NEW i \in Instances, Unreachable(i) PROVE Loading'
    BY <1>3 DEF TypeOK, Loading, Unreachable, Fault, Retry
<1>4. ASSUME NEW i \in Instances, TakeLock(i) PROVE Loading'
    BY <1>4 DEF TypeOK, Loading, TakeLock
<1>5. ASSUME NEW i \in Instances, FindDirty(i) PROVE Loading'
    BY <1>5 DEF TypeOK, Loading, FindDirty, Retry
<1>6. ASSUME NEW i \in Instances, MarkDirty(i) PROVE Loading'
    BY <1>6 DEF TypeOK, Loading, MarkDirty
<1>7. ASSUME NEW i \in Instances, RunMigration(i) PROVE Loading'
    BY <1>7 DEF TypeOK, Loading, RunMigration
<1>8. ASSUME NEW i \in Instances, MarkClean(i) PROVE Loading'
    BY <1>8 DEF TypeOK, Loading, MarkClean
<1>9. ASSUME NEW i \in Instances, MigrationFails(i) PROVE Loading'
    BY <1>9 DEF TypeOK, Loading, MigrationFails, Fault, Retry, Unlock
<1>10. ASSUME NEW i \in Instances, Migrated(i) PROVE Loading'
    BY <1>10 DEF TypeOK, Loading, Migrated, Unlock
<1>11. ASSUME NEW i \in Instances, CheckSeed(i) PROVE Loading'
    BY <1>11 DEF TypeOK, Loading, CheckSeed, TeacherExists, Fault
<1>12. ASSUME NEW i \in Instances, SeedRow(i) PROVE Loading'
    BY <1>12 DEF TypeOK, Loading, SeedRow
<1>13. ASSUME NEW i \in Instances, EndSeed(i) PROVE Loading'
    BY <1>13 DEF TypeOK, Loading, EndSeed
<1>14. ASSUME NEW i \in Instances, CheckTitle(i) PROVE Loading'
    BY <1>14, CheckTitleKeeps
<1>15. ASSUME NEW i \in Instances, CreateQuiz(i) PROVE Loading'
    BY <1>15, CreateQuizKeeps
<1>16. ASSUME NEW i \in Instances, CreateQuestion(i) PROVE Loading'
    BY <1>16, CreateQuestionKeeps
<1>17. ASSUME NEW i \in Instances, EndQuiz(i) PROVE Loading'
    BY <1>17 DEF TypeOK, Loading, EndQuiz, NextTitle
<1>18. ASSUME NEW i \in Instances, SkipQuiz(i) PROVE Loading'
    BY <1>18 DEF TypeOK, Loading, SkipQuiz, NextTitle, Fault
<1>19. ASSUME NEW i \in Instances, Serve(i) PROVE Loading'
    BY <1>19 DEF TypeOK, Loading, Serve
<1>20. ASSUME NEW i \in Instances, Crash(i) PROVE Loading'
    BY <1>20 DEF TypeOK, Loading, Crash, Fault, Unlock
<1> QED BY <1>1, <1>2, <1>3, <1>4, <1>5, <1>6, <1>7, <1>8, <1>9, <1>10,
           <1>11, <1>12, <1>13, <1>14, <1>15, <1>16, <1>17, <1>18, <1>19, <1>20 DEF Next, Run

-----------------------------------------------------------------------------
(* Copies                                                                  *)

Copies(x) == {n \in 1 .. Len(quizzes) : quizzes[n].title = x}

\* Instances that have not found a quiz of that title and are going to create it.
Creating(x) == {i \in Instances : pc[i] = "create" /\ Titles[title[i]] = x}

\* Nobody looks for a title and misses it once it has a copy.
CopiesCounted ==
    \A t \in DOMAIN Titles :
        Cardinality(Copies(Titles[t])) + Cardinality(Creating(Titles[t])) <= Cardinality(Instances)

\* Copies and creators of a title are finitely many.
LEMMA Counted ==
    ASSUME NEW n \in Nat, NEW C, C \subseteq 1 .. n, NEW I, I \subseteq Instances
    PROVE  /\ IsFiniteSet(C) /\ Cardinality(C) \in Nat
           /\ IsFiniteSet(I) /\ Cardinality(I) \in Nat /\ Cardinality(I) <= Cardinality(Instances)
           /\ Cardinality(Instances) \in Nat
<1>1. IsFiniteSet(1 .. n)
    BY FS_Interval
<1>2. IsFiniteSet(C) /\ Cardinality(C) \in Nat
    BY <1>1, FS_Subset, FS_CardinalityType
<1>3. IsFiniteSet(Instances) /\ Cardinality(Instances) \in Nat
    BY BoundsAssumption, FS_CardinalityType
<1>4. IsFiniteSet(I) /\ Cardinality(I) <= Cardinality(Instances)
    BY <1>3, FS_Subset
<1>5. Cardinality(I) \in Nat
    BY <1>4, FS_CardinalityType
<1> QED BY <1>2, <1>3, <1>4, <1>5

\* Whoever creates a copy is no longer about to: the sum stays.
LEMMA CopyAdded ==
    ASSUME NEW C, IsFiniteSet(C), NEW c, c \notin C, NEW I, IsFiniteSet(I), NEW i \in I
    PROVE  Cardinality(C \cup {c}) + Cardinality(I \ {i}) = Cardinality(C) + Cardinality(I)
<1>1. Cardinality(C) \in Nat /\ Cardinality(I) \in Nat
    BY FS_CardinalityType
<1>2. Cardinality(C \cup {c}) = IF c \in C THEN Cardinality(C) ELSE Cardinality(C) + 1
    BY FS_AddElement, Zenon
<1>3. Cardinality(I \ {i}) = IF i \in I THEN Cardinality(I) - 1 ELSE Cardinality(I)
    BY FS_RemoveElement, Zenon
<1> QED BY <1>1, <1>2, <1>3

\* A creator finds no copy, or was counted before one was there.
LEMMA CopiesKept ==
    ASSUME IInv, CopiesCounted, Next, TypeOK'
    PROVE  CopiesCounted'
<1> SUFFICES ASSUME NEW t \in DOMAIN Titles
             PROVE  Cardinality(Copies(Titles[t]))' + Cardinality(Creating(Titles[t]))'
                        <= Cardinality(Instances)
    BY DEF CopiesCounted
<1> DEFINE x == Titles[t]
<1>1. /\ IsFiniteSet(Copies(x)) /\ Cardinality(Copies(x)) \in Nat
      /\ IsFiniteSet(Creating(x)) /\ Cardinality(Creating(x)) \in Nat
    <2>1. Len(quizzes) \in Nat
        BY DEF IInv, TypeOK
    <2> QED BY <2>1, Counted DEF Copies, Creating
<1>2. /\ Cardinality(Creating(x)') \in Nat
      /\ Cardinality(Creating(x)') <= Cardinality(Instances) /\ Cardinality(Instances) \in Nat
    <2>1. Creating(x)' \subseteq Instances /\ {} \subseteq 1 .. 0
        BY DEF Creating
    <2> QED BY <2>1, Counted
<1>3. Cardinality(Copies(x)) + Cardinality(Creating(x)) <= Cardinality(Instances)
    BY DEF CopiesCounted
<1>4. ASSUME Copies(x)' = Copies(x), Creating(x)' \subseteq Creating(x)
      PROVE  Cardinality(Copies(x)') + Cardinality(Creating(x)') <= Cardinality(Instances)
    <2>1. Cardinality(Creating(x)') <= Cardinality(Creating(x))
        BY <1>1, <1>4, FS_Subset
    <2> QED BY <1>1, <1>2, <1>3, <1>4, <2>1
<1>5. ASSUME NEW i \in Instances, CheckTitle(i)
      PROVE  Cardinality(Copies(x)') + Cardinality(Creating(x)') <= Cardinality(Instances)
    <2>1. Copies(x)' = Copies(x)
        BY <1>5 DEF CheckTitle, Copies
    <2>2. CASE Copies(x) = {}
        BY <1>2, <2>1, <2>2, FS_EmptySet
    <2>3. CASE Copies(x) # {}
        <3>1. ~(pc'[i] = "create" /\ Titles[title'[i]] = x)
            BY <1>5, <2>3 DEF CheckTitle, NextTitle, GoTo, TitleExists, Copies, IInv, TypeOK
        <3>2. \A j \in Instances \ {i} : pc'[j] = pc[j] /\ title'[j] = title[j]
            BY <1>5 DEF CheckTitle, NextTitle, GoTo, IInv, TypeOK
        <3> QED BY <1>4, <2>1, <3>1, <3>2 DEF Creating
    <2> QED BY <2>2, <2>3
<1>6. ASSUME NEW i \in Instances, CreateQuiz(i)
      PROVE  Cardinality(Copies(x)') + Cardinality(Creating(x)') <= Cardinality(Instances)
    <2>1. /\ Len(quizzes') = Len(quizzes) + 1 /\ Len(quizzes) \in Nat
          /\ \A n \in 1 .. Len(quizzes) : quizzes'[n] = quizzes[n]
          /\ quizzes'[Len(quizzes) + 1].title = Titles[title[i]]
        BY <1>6 DEF CreateQuiz, IInv, TypeOK
    <2>2. pc[i] = "create" /\ pc' = [pc EXCEPT ![i] = "question"] /\ title' = title
        BY <1>6 DEF CreateQuiz, GoTo
    <2>3. CASE Titles[title[i]] = x
        <3>1. Copies(x)' = Copies(x) \cup {Len(quizzes) + 1} /\ Len(quizzes) + 1 \notin Copies(x)
            BY <2>1, <2>3 DEF Copies
        <3>2. i \in Creating(x) /\ Creating(x)' = Creating(x) \ {i}
            BY <2>2, <2>3 DEF Creating, IInv, TypeOK
        <3> QED BY <1>1, <1>3, <3>1, <3>2, CopyAdded
    <2>4. CASE Titles[title[i]] # x
        <3>1. Copies(x)' = Copies(x)
            BY <2>1, <2>4 DEF Copies
        <3>2. Creating(x)' \subseteq Creating(x)
            BY <2>2 DEF Creating, IInv, TypeOK
        <3> QED BY <1>4, <3>1, <3>2
    <2> QED BY <2>3, <2>4
<1>7. ASSUME NEW i \in Instances, CreateQuestion(i)
      PROVE  Cardinality(Copies(x)') + Cardinality(Creating(x)') <= Cardinality(Instances)
    <2>0. /\ mine[i] \in 1 .. Len(quizzes) /\ quizzes[mine[i]] \in Quiz
          /\ Len(quizzes) \in Nat /\ DOMAIN quizzes = 1 .. Len(quizzes)
        BY <1>7 DEF CreateQuestion, IInv, Loading, TypeOK
    <2>3. PICK row : /\ row.title = quizzes[mine[i]].title
                     /\ quizzes' \in {quizzes, [quizzes EXCEPT ![mine[i]] = row]}
        BY <1>7, <2>0 DEF CreateQuestion, Quiz
    <2>1. Len(quizzes') = Len(quizzes) /\ \A n \in 1 .. Len(quizzes) : quizzes'[n].title = quizzes[n].title
        <3>1. CASE quizzes' = quizzes
            BY <3>1
        <3>2. CASE quizzes' = [quizzes EXCEPT ![mine[i]] = row]
            <4>1. \A n \in 1 .. Len(quizzes) : quizzes'[n] = IF n = mine[i] THEN row ELSE quizzes[n]
                BY <2>0, <3>2
            <4>2. Len(quizzes') = Len(quizzes)
                BY <2>0, <3>2 DEF IInv, TypeOK
            <4> QED BY <2>3, <4>1, <4>2
        <3> QED BY <2>3, <3>1, <3>2
    <2>2. Copies(x)' = Copies(x) /\ Creating(x)' = Creating(x)
        BY <1>7, <2>1 DEF CreateQuestion, Copies, Creating
    <2> QED BY <1>4, <2>2
<1>8. ASSUME NEW i \in Instances, UNCHANGED quizzes, NEW label \in Labels \ {"create"},
             GoTo(i, label), \A j \in Instances \ {i} : title'[j] = title[j]
      PROVE  Cardinality(Copies(x)') + Cardinality(Creating(x)') <= Cardinality(Instances)
    BY <1>4, <1>8 DEF Copies, Creating, GoTo, IInv, TypeOK
<1>9. ASSUME UNCHANGED <<quizzes, pc, title>>
      PROVE  Cardinality(Copies(x)') + Cardinality(Creating(x)') <= Cardinality(Instances)
    BY <1>4, <1>9 DEF Copies, Creating
<1>10. ASSUME NEW i \in Instances,
              \/ Start(i) \/ Reach(i) \/ Unreachable(i) \/ TakeLock(i) \/ FindDirty(i)
              \/ MarkDirty(i) \/ RunMigration(i) \/ MarkClean(i) \/ MigrationFails(i) \/ Migrated(i)
              \/ CheckSeed(i) \/ EndSeed(i) \/ EndQuiz(i) \/ SkipQuiz(i) \/ Serve(i) \/ Crash(i)
       PROVE  /\ UNCHANGED quizzes /\ \E label \in Labels \ {"create"} : GoTo(i, label)
              /\ \A j \in Instances \ {i} : title'[j] = title[j]
    <2> USE DEF Labels, GoTo, IInv, TypeOK
    <2>1. CASE Start(i) \/ Reach(i) \/ TakeLock(i) \/ MarkDirty(i) \/ RunMigration(i) \/ MarkClean(i)
        BY <2>1 DEF Start, Reach, TakeLock, MarkDirty, RunMigration, MarkClean
    <2>2. CASE Unreachable(i) \/ FindDirty(i) \/ MigrationFails(i)
        BY <2>2 DEF Unreachable, FindDirty, MigrationFails, Retry
    <2>3. CASE Migrated(i) \/ CheckSeed(i) \/ EndSeed(i) \/ Serve(i) \/ Crash(i)
        BY <2>3 DEF Migrated, CheckSeed, EndSeed, Serve, Crash
    <2>4. CASE EndQuiz(i) \/ SkipQuiz(i)
        BY <2>4 DEF EndQuiz, SkipQuiz, NextTitle
    <2> QED BY <1>10, <2>1, <2>2, <2>3, <2>4
<1>11. ASSUME NEW i \in Instances, SeedRow(i)
       PROVE  Cardinality(Copies(x)') + Cardinality(Creating(x)') <= Cardinality(Instances)
    <2>1. CASE GoTo(i, "down")
        BY <1>8, <1>11, <2>1 DEF SeedRow, Labels
    <2>2. CASE UNCHANGED pc
        BY <1>9, <1>11, <2>2 DEF SeedRow
    <2> QED BY <1>11, <2>1, <2>2 DEF SeedRow
<1> QED BY <1>5, <1>6, <1>7, <1>8, <1>10, <1>11 DEF Next, Run

-----------------------------------------------------------------------------
(* Data                                                                    *)

\* Whoever is past seeding found the teacher; while the seed is not complete its
\* inserter is at work, unless a fault interrupted it.
SeedWhole ==
    /\ \A i \in Instances : pc[i] \in {"load", "create", "question", "serving"} => seeded > 0
    /\ ~interrupted /\ 0 < seeded /\ seeded < SeedRows
        => \E i \in Instances : pc[i] = "seed" /\ at[i] > 0

\* The titles an instance has gone past have a quiz.
TitlesLoaded ==
    /\ \A i \in Instances :
        /\ pc[i] = "serving" => title[i] > Len(Titles)
        /\ pc[i] = "question" => quizzes[mine[i]].title = Titles[title[i]]
    /\ ~interrupted => \A i \in Instances : \A t \in DOMAIN Titles :
        t < title[i] => TitleExists(Titles[t])

\* A quiz has all of its questions, or its creator is inserting them and has
\* left none out.
QuizzesWhole ==
    ~interrupted =>
        /\ \A i \in Instances : pc[i] = "question" => quizzes[mine[i]].questions = at[i]
        /\ \A n \in 1 .. Len(quizzes) :
            \/ quizzes[n].questions = Questions
            \/ \E i \in Instances : pc[i] = "question" /\ mine[i] = n

Whole == SeedWhole /\ TitlesLoaded /\ QuizzesWhole

\* The steps that neither seed nor load: they leave the data alone, and whoever
\* takes one is at none of the labels the data depend on, before or after.
Aside(i) ==
    /\ UNCHANGED <<data, interrupted>>
    /\ \E label \in {"down", "gaveUp", "connect", "lock", "migrate", "run", "clean", "email"} :
        GoTo(i, label)
    /\ pc[i] \notin {"seed", "load", "create", "question", "serving"}
    /\ \/ UNCHANGED locals
       \/ /\ title' = [title EXCEPT ![i] = 1]
          /\ at' = [at EXCEPT ![i] = 0]
          /\ mine' = [mine EXCEPT ![i] = 0]

\* Connecting and migrating are such steps.
LEMMA StepsAside ==
    ASSUME NEW i \in Instances,
           \/ Start(i) \/ Reach(i) \/ Unreachable(i) \/ TakeLock(i) \/ FindDirty(i)
           \/ MarkDirty(i) \/ RunMigration(i) \/ MarkClean(i) \/ MigrationFails(i) \/ Migrated(i)
    PROVE  Aside(i)
<1> USE DEF Aside, GoTo
<1>1. CASE Start(i)
    BY <1>1 DEF Start
<1>2. CASE Reach(i) \/ TakeLock(i)
    BY <1>2 DEF Reach, TakeLock
<1>3. CASE Unreachable(i) \/ FindDirty(i) \/ MigrationFails(i)
    BY <1>3 DEF Unreachable, FindDirty, MigrationFails, Retry
<1>4. CASE MarkDirty(i) \/ RunMigration(i) \/ MarkClean(i) \/ Migrated(i)
    BY <1>4 DEF MarkDirty, RunMigration, MarkClean, Migrated
<1> QED BY <1>1, <1>2, <1>3, <1>4

\* A fault that has interrupted the loading stays on record.
LEMMA InterruptedStays ==
    ASSUME Next
    PROVE  interrupted => interrupted'
<1>1. PICK i \in Instances : Run(i) \/ Unreachable(i) \/ MigrationFails(i) \/ SkipQuiz(i) \/ Crash(i)
    BY DEF Next
<1>2. CASE Start(i) \/ Reach(i) \/ Unreachable(i) \/ TakeLock(i) \/ FindDirty(i) \/ MarkDirty(i)
           \/ RunMigration(i) \/ MarkClean(i) \/ MigrationFails(i) \/ Migrated(i)
    BY <1>2, StepsAside DEF Aside
<1>3. CASE CheckSeed(i) \/ SeedRow(i) \/ EndSeed(i) \/ CheckTitle(i) \/ CreateQuiz(i) \/ EndQuiz(i) \/ Serve(i)
    BY <1>3 DEF CheckSeed, SeedRow, EndSeed, CheckTitle, CreateQuiz, EndQuiz, Serve
<1>4. CASE CreateQuestion(i) \/ SkipQuiz(i) \/ Crash(i)
    BY <1>4 DEF CreateQuestion, SkipQuiz, Crash
<1> QED BY <1>1, <1>2, <1>3, <1>4 DEF Run

\* SeedData: an inserter that stops half way was interrupted.
LEMMA SeedWholeKept ==
    ASSUME IInv, SeedWhole, Next
    PROVE  SeedWhole'
<1> USE Bounds DEF IInv, TypeOK, SeedWhole, GoTo
<1>1. PICK i \in Instances : Run(i) \/ Unreachable(i) \/ MigrationFails(i) \/ SkipQuiz(i) \/ Crash(i)
    BY DEF Next
<1>2. CASE Start(i) \/ Reach(i) \/ Unreachable(i) \/ TakeLock(i) \/ FindDirty(i) \/ MarkDirty(i)
           \/ RunMigration(i) \/ MarkClean(i) \/ MigrationFails(i) \/ Migrated(i)
    <2>1. Aside(i)
        BY <1>2, StepsAside
    <2> QED BY <2>1 DEF Aside
<1>3. CASE CheckSeed(i)
    BY <1>3 DEF CheckSeed, TeacherExists
<1>4. CASE SeedRow(i)
    <2>1. CASE at[i] = 0 /\ seeded > 0
        BY <1>4, <2>1 DEF SeedRow
    <2>2. CASE ~(at[i] = 0 /\ seeded > 0)
        <3>1. seeded' = seeded + 1 /\ at' = [at EXCEPT ![i] = at[i] + 1] /\ pc[i] = "seed" /\ UNCHANGED pc
            BY <1>4, <2>2 DEF SeedRow
        <3> QED BY <3>1
    <2> QED BY <2>1, <2>2
<1>5. CASE EndSeed(i)
    <2>1. seeded = SeedRows /\ seeded' = SeedRows /\ pc' = [pc EXCEPT ![i] = "load"]
        BY <1>5 DEF EndSeed, Seeding
    <2> QED BY <2>1
<1>6. CASE CheckTitle(i) \/ EndQuiz(i) \/ SkipQuiz(i)
    <2>1. /\ \E label \in {"load", "create"} : pc' = [pc EXCEPT ![i] = label]
          /\ pc[i] \in {"load", "create", "question"} /\ UNCHANGED seeded
          /\ \A j \in Instances \ {i} : at'[j] = at[j]
        BY <1>6 DEF CheckTitle, EndQuiz, SkipQuiz, NextTitle
    <2> QED BY <2>1, InterruptedStays
<1>7. CASE CreateQuiz(i) \/ CreateQuestion(i) \/ Serve(i)
    <2>1. /\ \E label \in {"question", "serving"} : pc' = [pc EXCEPT ![i] = label]
          /\ pc[i] \in {"load", "create", "question"} /\ UNCHANGED seeded
          /\ \A j \in Instances \ {i} : at'[j] = at[j]
        BY <1>7 DEF CreateQuiz, CreateQuestion, Serve
    <2> QED BY <2>1, InterruptedStays
<1>8. CASE Crash(i)
    <2>1. /\ pc' = [pc EXCEPT ![i] = "down"] /\ UNCHANGED <<seeded, at>>
          /\ pc[i] = "seed" /\ at[i] > 0 => interrupted'
        BY <1>8 DEF Crash
    <2> QED BY <2>1, InterruptedStays
<1> QED BY <1>1, <1>2, <1>3, <1>4, <1>5, <1>6, <1>7, <1>8 DEF Run

\* No quiz is removed or renamed.
LEMMA QuizzesStay ==
    ASSUME IInv, Next
    PROVE  /\ Len(quizzes) \in Nat /\ Len(quizzes') \in Nat /\ Len(quizzes) <= Len(quizzes')
           /\ \A n \in 1 .. Len(quizzes) : quizzes'[n].title = quizzes[n].title
<1> USE DEF IInv, TypeOK
<1>1. PICK i \in Instances : Run(i) \/ Unreachable(i) \/ MigrationFails(i) \/ SkipQuiz(i) \/ Crash(i)
    BY DEF Next
<1>2. CASE UNCHANGED quizzes
    BY <1>2
<1>3. CASE CreateQuiz(i)
    BY <1>3 DEF CreateQuiz
<1>4. CASE CreateQuestion(i)
    <2>1. mine[i] \in 1 .. Len(quizzes) /\ quizzes[mine[i]] \in Quiz /\ Len(quizzes) \in Nat
        BY <1>4 DEF CreateQuestion, Loading
    <2>2. PICK row : /\ row.title = quizzes[mine[i]].title
                     /\ quizzes' \in {quizzes, [quizzes EXCEPT ![mine[i]] = row]}
        BY <1>4, <2>1 DEF CreateQuestion, Quiz
    <2>3. CASE quizzes' = [quizzes EXCEPT ![mine[i]] = row]
        <3>1. Len(quizzes') = Len(quizzes)
            BY <2>1, <2>3
        <3>2. \A n \in 1 .. Len(quizzes) : quizzes'[n] = IF n = mine[i] THEN row ELSE quizzes[n]
            BY <2>1, <2>3
        <3> QED BY <2>1, <2>2, <3>1, <3>2
    <2> QED BY <1>2, <2>2, <2>3
<1>5. CASE Start(i) \/ Reach(i) \/ Unreachable(i) \/ TakeLock(i) \/ FindDirty(i) \/ MarkDirty(i)
           \/ RunMigration(i) \/ MarkClean(i) \/ MigrationFails(i) \/ Migrated(i)
    BY <1>2, <1>5, StepsAside DEF Aside
<1>6. CASE CheckSeed(i) \/ SeedRow(i) \/ EndSeed(i) \/ CheckTitle(i) \/ EndQuiz(i) \/ SkipQuiz(i)
           \/ Serve(i) \/ Crash(i)
    BY <1>2, <1>6 DEF CheckSeed, SeedRow, EndSeed, CheckTitle, EndQuiz, SkipQuiz, Serve, Crash
<1> QED BY <1>1, <1>3, <1>4, <1>5, <1>6 DEF Run

\* CreateQuestion counts the question in this instance's quiz, or is interrupted.
LEMMA QuestionCounted ==
    ASSUME IInv, NEW i \in Instances, CreateQuestion(i), ~interrupted'
    PROVE  /\ ~interrupted /\ Len(quizzes') = Len(quizzes) /\ mine[i] \in 1 .. Len(quizzes)
           /\ quizzes'[mine[i]].questions = quizzes[mine[i]].questions + 1
           /\ \A n \in 1 .. Len(quizzes) \ {mine[i]} : quizzes'[n] = quizzes[n]
<1>1. /\ mine[i] \in 1 .. Len(quizzes) /\ quizzes[mine[i]] \in Quiz
      /\ Len(quizzes) \in Nat /\ quizzes \in Seq(Quiz)
    BY DEF CreateQuestion, IInv, Loading, TypeOK
<1>2. quizzes' = [quizzes EXCEPT ![mine[i]].questions = @ + 1] /\ ~interrupted
    BY DEF CreateQuestion
<1> DEFINE more == [quizzes[mine[i]] EXCEPT !.questions = @ + 1]
<1>3. more.questions = quizzes[mine[i]].questions + 1
    BY <1>1 DEF Quiz
<1>4. quizzes' = [quizzes EXCEPT ![mine[i]] = more]
    BY <1>2
<1> HIDE DEF more
<1>5. /\ Len(quizzes') = Len(quizzes) /\ quizzes'[mine[i]] = more
      /\ \A n \in 1 .. Len(quizzes) \ {mine[i]} : quizzes'[n] = quizzes[n]
    BY <1>1, <1>4
<1> QED BY <1>1, <1>2, <1>3, <1>5

\* LoadInitialDataFromFolder goes past a title that has a quiz, or got one from it.
LEMMA TitlesLoadedKept ==
    ASSUME IInv, TitlesLoaded, Next
    PROVE  TitlesLoaded'
<1> USE Bounds DEF GoTo
<1>1. PICK i \in Instances : Run(i) \/ Unreachable(i) \/ MigrationFails(i) \/ SkipQuiz(i) \/ Crash(i)
    BY DEF Next
<1>2. ASSUME NEW t \in DOMAIN Titles, TitleExists(Titles[t])
      PROVE  TitleExists(Titles[t])'
    <2>1. PICK n \in 1 .. Len(quizzes) : quizzes[n].title = Titles[t]
        BY <1>2 DEF TitleExists, IInv, TypeOK
    <2>2. n \in 1 .. Len(quizzes') /\ quizzes'[n].title = Titles[t]
        BY <2>1, QuizzesStay
    <2> QED BY <2>2, TypesKept DEF TitleExists, IInv, TypeOK
<1>3. ASSUME NEW j \in Instances, pc[j] = "question", mine'[j] = mine[j], title'[j] = title[j]
      PROVE  quizzes'[mine'[j]].title = Titles[title'[j]]
    BY <1>3, QuizzesStay DEF TitlesLoaded, IInv, Loading
<1>4. ASSUME NEW j \in Instances, title'[j] = title[j], ~interrupted', NEW t \in DOMAIN Titles, t < title[j]
      PROVE  TitleExists(Titles[t])'
    BY <1>2, <1>4, InterruptedStays DEF TitlesLoaded
<1>5. ASSUME \A j \in Instances \ {i} : pc'[j] = pc[j] /\ mine'[j] = mine[j] /\ title'[j] = title[j],
             pc'[i] = "serving" => title'[i] > Len(Titles),
             pc'[i] = "question" => quizzes'[mine'[i]].title = Titles[title'[i]],
             ~interrupted' => \A t \in DOMAIN Titles : t < title'[i] => TitleExists(Titles[t])'
      PROVE  TitlesLoaded'
    <2>1. ASSUME NEW j \in Instances
          PROVE  /\ pc'[j] = "serving" => title'[j] > Len(Titles)
                 /\ pc'[j] = "question" => quizzes'[mine'[j]].title = Titles[title'[j]]
        BY <1>3, <1>5 DEF TitlesLoaded
    <2>2. ASSUME ~interrupted', NEW j \in Instances, NEW t \in DOMAIN Titles, t < title'[j]
          PROVE  TitleExists(Titles[t])'
        BY <1>4, <1>5, <2>2
    <2> QED BY <2>1, <2>2 DEF TitlesLoaded
<1>6. CASE Aside(i)
    <2>1. /\ \A j \in Instances \ {i} : pc'[j] = pc[j] /\ mine'[j] = mine[j] /\ title'[j] = title[j]
          /\ pc'[i] \notin {"serving", "question"} /\ title'[i] \in {1, title[i]}
        BY <1>6 DEF Aside, IInv, TypeOK
    <2>2. ASSUME ~interrupted', NEW t \in DOMAIN Titles, t < title'[i] PROVE TitleExists(Titles[t])'
        BY <1>4, <2>1, <2>2
    <2> QED BY <1>5, <2>1, <2>2
<1>7. CASE CheckSeed(i) \/ SeedRow(i) \/ EndSeed(i) \/ Crash(i)
    <2>1. /\ \E label \in {"load", "seed", "down"} : pc' = [pc EXCEPT ![i] = label] \/ UNCHANGED pc
          /\ pc[i] = "seed" \/ pc'[i] \notin {"serving", "question"}
          /\ UNCHANGED <<title, mine>>
        BY <1>7 DEF CheckSeed, SeedRow, EndSeed, Crash, IInv, TypeOK
    <2>2. pc'[i] \notin {"serving", "question"} /\ \A j \in Instances \ {i} : pc'[j] = pc[j]
        BY <2>1 DEF IInv, TypeOK
    <2> QED BY <1>4, <1>5, <2>1, <2>2
<1>8. CASE CheckTitle(i)
    <2>1. CASE TitleExists(Titles[title[i]])
        <3>1. /\ pc' = [pc EXCEPT ![i] = "load"] /\ title' = [title EXCEPT ![i] = title[i] + 1]
              /\ UNCHANGED mine
            BY <1>8, <2>1 DEF CheckTitle, NextTitle
        <3>2. ASSUME ~interrupted', NEW t \in DOMAIN Titles, t < title'[i] PROVE TitleExists(Titles[t])'
            <4>1. t < title[i] \/ t = title[i]
                BY <3>1, <3>2 DEF IInv, TypeOK
            <4>2. CASE t < title[i]
                BY <1>2, <3>2, <4>2, InterruptedStays DEF TitlesLoaded
            <4> QED BY <1>2, <2>1, <4>1, <4>2
        <3> QED BY <1>5, <3>1, <3>2 DEF IInv, TypeOK
    <2>2. CASE ~TitleExists(Titles[title[i]])
        <3>1. pc' = [pc EXCEPT ![i] = "create"] /\ UNCHANGED <<title, mine>>
            BY <1>8, <2>2 DEF CheckTitle
        <3> QED BY <1>4, <1>5, <3>1 DEF IInv, TypeOK
    <2> QED BY <2>1, <2>2
<1>9. CASE CreateQuiz(i)
    <2>1. /\ pc' = [pc EXCEPT ![i] = "question"] /\ UNCHANGED title
          /\ mine' = [mine EXCEPT ![i] = Len(quizzes')]
          /\ quizzes'[Len(quizzes')].title = Titles[title[i]]
        BY <1>9 DEF CreateQuiz, IInv, TypeOK
    <2> QED BY <1>4, <1>5, <2>1 DEF IInv, TypeOK
<1>10. CASE CreateQuestion(i)
    <2>1. pc[i] = "question" /\ UNCHANGED <<pc, title, mine>>
        BY <1>10 DEF CreateQuestion
    <2> QED BY <1>3, <1>4, <1>5, <2>1
<1>11. CASE EndQuiz(i)
    <2>1. /\ pc[i] = "question" /\ pc' = [pc EXCEPT ![i] = "load"]
          /\ title' = [title EXCEPT ![i] = title[i] + 1] /\ UNCHANGED <<mine, quizzes, interrupted>>
        BY <1>11 DEF EndQuiz, NextTitle
    <2>2. TitleExists(Titles[title[i]])
        <3>1. mine[i] \in 1 .. Len(quizzes) /\ quizzes[mine[i]].title = Titles[title[i]]
            BY <2>1 DEF TitlesLoaded, IInv, Loading
        <3>2. DOMAIN quizzes = 1 .. Len(quizzes)
            BY DEF IInv, TypeOK
        <3> QED BY <3>1, <3>2 DEF TitleExists
    <2>3. ASSUME ~interrupted', NEW t \in DOMAIN Titles, t < title'[i] PROVE TitleExists(Titles[t])'
        <3>1. t < title[i] \/ t = title[i]
            BY <2>1, <2>3 DEF IInv, TypeOK
        <3>2. CASE t < title[i]
            BY <1>2, <2>3, <3>2, InterruptedStays DEF TitlesLoaded
        <3> QED BY <1>2, <2>2, <3>1, <3>2
    <2> QED BY <1>5, <2>1, <2>3 DEF IInv, TypeOK
<1>12. CASE SkipQuiz(i)
    <2>1. /\ pc' = [pc EXCEPT ![i] = "load"] /\ interrupted' /\ UNCHANGED mine
          /\ title' = [title EXCEPT ![i] = title[i] + 1]
        BY <1>12 DEF SkipQuiz, NextTitle
    <2> QED BY <1>5, <2>1 DEF IInv, TypeOK
<1>13. CASE Serve(i)
    <2>1. pc' = [pc EXCEPT ![i] = "serving"] /\ title[i] > Len(Titles) /\ UNCHANGED <<title, mine>>
        BY <1>13 DEF Serve
    <2> QED BY <1>4, <1>5, <2>1 DEF IInv, TypeOK
<1> QED BY <1>1, <1>6, <1>7, <1>8, <1>9, <1>10, <1>11, <1>12, <1>13, StepsAside DEF Run

\* Without a fault every question is inserted, and a quiz is left when it is whole.
LEMMA QuizzesWholeKept ==
    ASSUME IInv, QuizzesWhole, Next
    PROVE  QuizzesWhole'
<1> USE Bounds DEF GoTo
<1> SUFFICES ASSUME ~interrupted'
             PROVE  /\ \A i \in Instances : pc'[i] = "question" => quizzes'[mine'[i]].questions = at'[i]
                    /\ \A n \in 1 .. Len(quizzes') :
                        \/ quizzes'[n].questions = Questions
                        \/ \E i \in Instances : pc'[i] = "question" /\ mine'[i] = n
    BY DEF QuizzesWhole
<1>0. ~interrupted /\ Len(quizzes) \in Nat
    BY InterruptedStays DEF IInv, TypeOK
<1> DEFINE Counts == \A i \in Instances : pc[i] = "question" => quizzes[mine[i]].questions = at[i]
           Finished == \A n \in 1 .. Len(quizzes) :
                \/ quizzes[n].questions = Questions
                \/ \E i \in Instances : pc[i] = "question" /\ mine[i] = n
<1>1. Counts /\ Finished
    BY <1>0 DEF QuizzesWhole
<1>2. PICK i \in Instances : Run(i) \/ Unreachable(i) \/ MigrationFails(i) \/ SkipQuiz(i) \/ Crash(i)
    BY DEF Next
<1>3. ASSUME UNCHANGED quizzes,
             \A j \in Instances \ {i} : pc'[j] = pc[j] /\ mine'[j] = mine[j] /\ at'[j] = at[j],
             pc[i] # "question", pc'[i] # "question"
      PROVE  Counts' /\ Finished'
    BY <1>1, <1>3
<1>4. CASE Aside(i)
    BY <1>3, <1>4 DEF Aside, IInv, TypeOK
<1>5. CASE CheckSeed(i) \/ EndSeed(i) \/ SkipQuiz(i) \/ Serve(i)
    BY <1>3, <1>5 DEF CheckSeed, EndSeed, SkipQuiz, NextTitle, Serve, IInv, TypeOK
<1>6. CASE SeedRow(i)
    <2>1. /\ pc[i] = "seed" /\ pc' \in {pc, [pc EXCEPT ![i] = "down"]} /\ UNCHANGED <<quizzes, mine>>
          /\ \A j \in Instances \ {i} : at'[j] = at[j]
        BY <1>6 DEF SeedRow, IInv, TypeOK
    <2> QED BY <1>3, <2>1 DEF IInv, TypeOK
<1>7. CASE CheckTitle(i)
    <2>1. /\ pc[i] = "load" /\ \E label \in {"load", "create"} : pc' = [pc EXCEPT ![i] = label]
          /\ UNCHANGED <<quizzes, mine>> /\ \A j \in Instances \ {i} : at'[j] = at[j]
        BY <1>7 DEF CheckTitle, NextTitle, IInv, TypeOK
    <2> QED BY <1>3, <2>1 DEF IInv, TypeOK
<1>8. CASE Crash(i)
    <2>1. pc[i] # "question" /\ pc' = [pc EXCEPT ![i] = "down"] /\ UNCHANGED <<quizzes, mine, at>>
        BY <1>8 DEF Crash
    <2> QED BY <1>3, <2>1 DEF IInv, TypeOK
<1>9. CASE CreateQuiz(i)
    <2>1. /\ Len(quizzes') = Len(quizzes) + 1 /\ quizzes'[Len(quizzes) + 1].questions = 0
          /\ \A n \in 1 .. Len(quizzes) : quizzes'[n] = quizzes[n]
        BY <1>0, <1>9 DEF CreateQuiz
    <2>2. /\ pc[i] = "create" /\ pc' = [pc EXCEPT ![i] = "question"]
          /\ mine' = [mine EXCEPT ![i] = Len(quizzes) + 1] /\ at' = [at EXCEPT ![i] = 0]
        BY <1>9, <2>1 DEF CreateQuiz
    <2>3. ASSUME NEW j \in Instances, pc'[j] = "question" PROVE quizzes'[mine'[j]].questions = at'[j]
        <3>1. CASE j = i
            BY <2>1, <2>2, <3>1 DEF IInv, TypeOK
        <3>2. CASE j # i
            <4>1. pc[j] = "question" /\ mine'[j] = mine[j] /\ at'[j] = at[j] /\ mine[j] \in 1 .. Len(quizzes)
                BY <2>2, <2>3, <3>2 DEF IInv, TypeOK, Loading
            <4> QED BY <1>1, <2>1, <4>1
        <3> QED BY <3>1, <3>2
    <2>4. ASSUME NEW n \in 1 .. Len(quizzes')
          PROVE  \/ quizzes'[n].questions = Questions
                 \/ \E j \in Instances : pc'[j] = "question" /\ mine'[j] = n
        <3>1. CASE n = Len(quizzes) + 1
            BY <2>2, <3>1 DEF IInv, TypeOK
        <3>2. CASE n \in 1 .. Len(quizzes)
            <4>1. quizzes[n].questions = Questions \/ \E j \in Instances : pc[j] = "question" /\ mine[j] = n
                BY <1>1, <3>2
            <4>2. \A j \in Instances : pc[j] = "question" => pc'[j] = "question" /\ mine'[j] = mine[j]
                BY <2>2 DEF IInv, TypeOK
            <4> QED BY <2>1, <3>2, <4>1, <4>2
        <3> QED BY <1>0, <2>1, <3>1, <3>2
    <2> QED BY <2>3, <2>4
<1>10. CASE CreateQuestion(i)
    <2>1. /\ Len(quizzes') = Len(quizzes) /\ mine[i] \in 1 .. Len(quizzes)
          /\ quizzes'[mine[i]].questions = quizzes[mine[i]].questions + 1
          /\ \A n \in 1 .. Len(quizzes) \ {mine[i]} : quizzes'[n] = quizzes[n]
        BY <1>10, QuestionCounted
    <2>2. pc[i] = "question" /\ at' = [at EXCEPT ![i] = at[i] + 1] /\ UNCHANGED <<pc, mine>>
        BY <1>10 DEF CreateQuestion
    <2>3. ASSUME NEW j \in Instances, pc'[j] = "question" PROVE quizzes'[mine'[j]].questions = at'[j]
        <3>1. CASE j = i
            BY <1>1, <2>1, <2>2, <3>1 DEF IInv, TypeOK
        <3>2. CASE j # i
            <4>1. mine[j] \in 1 .. Len(quizzes) \ {mine[i]} /\ at'[j] = at[j]
                BY <2>2, <2>3, <3>2 DEF IInv, TypeOK, Loading
            <4> QED BY <1>1, <2>1, <2>2, <2>3, <4>1
        <3> QED BY <3>1, <3>2
    <2>4. Finished'
        BY <1>1, <2>1, <2>2
    <2> QED BY <2>3, <2>4
<1>11. CASE EndQuiz(i)
    <2>1. /\ pc[i] = "question" /\ at[i] = Questions /\ pc' = [pc EXCEPT ![i] = "load"]
          /\ at' = [at EXCEPT ![i] = 0] /\ UNCHANGED <<quizzes, mine>>
        BY <1>11 DEF EndQuiz, NextTitle
    <2>2. quizzes[mine[i]].questions = Questions
        BY <1>1, <2>1
    <2> QED BY <1>1, <2>1, <2>2 DEF IInv, TypeOK
<1> QED BY <1>2, <1>4, <1>5, <1>6, <1>7, <1>8, <1>9, <1>10, <1>11, StepsAside DEF Run

-----------------------------------------------------------------------------

\* The inductive invariant holds always.
THEOREM Invariant == Spec => [](IInv /\ CopiesCounted /\ Whole)
<1>1. Init => IInv /\ CopiesCounted /\ Whole
    <2> SUFFICES ASSUME Init PROVE IInv /\ CopiesCounted /\ Whole
        OBVIOUS
    <2>1. IInv
        <3>1. TypeOK
            <4>1. quizzes = << >> /\ quizzes \in Seq(Quiz) /\ Len(quizzes) = 0
                BY DEF Init
            <4>2. 1 \in 1 .. Len(Titles) + 1 /\ 0 \in 0 .. MaxTries /\ 0 \in 0 .. 0 /\ 0 \in Nat
                BY Bounds
            <4>3. /\ pc \in [Instances -> Labels] /\ tries \in [Instances -> 0 .. MaxTries]
                  /\ title \in [Instances -> 1 .. Len(Titles) + 1] /\ at \in [Instances -> Nat]
                  /\ mine \in [Instances -> 0 .. 0]
                <5>1. /\ pc = [i \in Instances |-> "down"] /\ tries = [i \in Instances |-> 0]
                      /\ title = [i \in Instances |-> 1] /\ at = [i \in Instances |-> 0]
                      /\ mine = [i \in Instances |-> 0]
                    BY DEF Init
                <5>2. pc \in [Instances -> Labels]
                    BY <5>1 DEF Labels
                <5>3. tries \in [Instances -> 0 .. MaxTries] /\ title \in [Instances -> 1 .. Len(Titles) + 1]
                    BY <4>2, <5>1, Zenon
                <5>4. at \in [Instances -> Nat] /\ mine \in [Instances -> 0 .. 0]
                    BY <4>2, <5>1, Zenon
                <5> QED BY <5>2, <5>3, <5>4
            <4>4. version \in 0 .. Migrations /\ seeded \in 0 .. SeedRows /\ faults \in 0 .. MaxFaults
                <5>1. version = 0 /\ seeded = 0 /\ faults = 0
                    BY DEF Init
                <5> QED BY <5>1, Bounds
            <4>6. dirty \in BOOLEAN /\ interrupted \in BOOLEAN
                BY Zenon DEF Init
            <4>7. schema \subseteq 1 .. Migrations /\ lock \in Instances \cup {None}
                BY Zenon DEF Init
            <4>5. mine \in [Instances -> 0 .. Len(quizzes)]
                BY <4>1, <4>3
            <4> QED BY <4>1, <4>3, <4>4, <4>5, <4>6, <4>7 DEF TypeOK
        <3>2. \A i \in Instances : pc[i] = "down" /\ at[i] = 0
            BY DEF Init
        <3>3. ~dirty /\ schema = 1 .. version
            BY DEF Init
        <3>4. Locked /\ TriesLeft /\ Seeding /\ Loading
            BY <3>2 DEF Locked, TriesLeft, Seeding, Loading, Migrating
        <3>5. Executed
            BY <3>2, <3>3 DEF Executed, Connected
        <3> QED BY <3>1, <3>4, <3>5 DEF IInv
    <2>2. ASSUME NEW t \in DOMAIN Titles
          PROVE  Cardinality(Copies(Titles[t])) + Cardinality(Creating(Titles[t]))
                    <= Cardinality(Instances)
        <3>1. Copies(Titles[t]) = {} /\ Creating(Titles[t]) = {}
            BY DEF Init, Copies, Creating
        <3>2. Cardinality(Instances) \in Nat
            BY BoundsAssumption, FS_CardinalityType
        <3> QED BY <3>1, <3>2, FS_EmptySet
    <2>3. Whole
        BY Bounds DEF Init, Whole, SeedWhole, TitlesLoaded, QuizzesWhole
    <2> QED BY <2>1, <2>2, <2>3 DEF CopiesCounted
<1>2. IInv /\ CopiesCounted /\ Whole /\ [Next]_vars => IInv' /\ CopiesCounted' /\ Whole'
    <2> SUFFICES ASSUME IInv, CopiesCounted, Whole, [Next]_vars PROVE IInv' /\ CopiesCounted' /\ Whole'
        OBVIOUS
    <2>1. CASE Next
        <3>1. IInv'
            BY <2>1, TypesKept, LockedKept, ExecutedKept, TriesLeftKept, SeedingKept, LoadingKept
               DEF IInv
        <3>2. Whole'
            BY <2>1, SeedWholeKept, TitlesLoadedKept, QuizzesWholeKept DEF Whole
        <3> QED BY <2>1, <3>1, <3>2, CopiesKept DEF IInv
    <2>2. CASE UNCHANGED vars
        <3>1. IInv'
            BY <2>2 DEF vars, IInv, TypeOK, Locked, Executed, TriesLeft, Seeding, Loading
        <3>2. CopiesCounted'
            BY <2>2 DEF vars, CopiesCounted, Copies, Creating
        <3>3. Whole'
            <4>1. SeedWhole'
                BY <2>2 DEF vars, Whole, SeedWhole
            <4>2. TitlesLoaded'
                BY <2>2 DEF vars, Whole, TitlesLoaded, TitleExists
            <4>3. QuizzesWhole'
                BY <2>2 DEF vars, Whole, QuizzesWhole
            <4> QED BY <4>1, <4>2, <4>3 DEF Whole
        <3> QED BY <3>1, <3>2, <3>3
    <2> QED BY <2>1, <2>2
<1> QED BY <1>1, <1>2, PTL DEF Spec

\* The variables of StartUp have their types; Connect makes at most MaxTries attempts,
\* and no instance inserts a row of the seed twice.
THEOREM TypeCorrect == Spec => []TypeOK
<1>1. IInv => TypeOK
    BY DEF IInv
<1> QED BY <1>1, Invariant, PTL

\* Whoever has gone past runMigrations works under the complete schema, with any
\* number of instances, migrations, kills and retries.
THEOREM SchemaBeforeUse == Spec => []SchemaComplete
<1>1. IInv => SchemaComplete
    BY DEF IInv, Executed, Connected, SchemaComplete
<1> QED BY <1>1, Invariant, PTL

\* LoadInitialDataFromFolder looks for a title before it creates the quiz, without a
\* lock: at most one copy per instance comes of it, however often they restart.
THEOREM CopiesBounded == Spec => []CopiesUpToInstances
<1>1. IInv /\ CopiesCounted => CopiesUpToInstances
    <2> SUFFICES ASSUME IInv, CopiesCounted, NEW t \in DOMAIN Titles
                 PROVE  Cardinality({n \in DOMAIN quizzes : quizzes[n].title = Titles[t]})
                            <= Cardinality(Instances)
        BY DEF CopiesUpToInstances
    <2>1. Len(quizzes) \in Nat /\ DOMAIN quizzes = 1 .. Len(quizzes)
        BY DEF IInv, TypeOK
    <2>2. /\ Cardinality(Copies(Titles[t])) \in Nat /\ Cardinality(Creating(Titles[t])) \in Nat
          /\ Cardinality(Instances) \in Nat
        BY <2>1, Counted DEF Copies, Creating
    <2>3. Copies(Titles[t]) = {n \in DOMAIN quizzes : quizzes[n].title = Titles[t]}
        BY <2>1 DEF Copies
    <2>4. Cardinality(Copies(Titles[t])) + Cardinality(Creating(Titles[t])) <= Cardinality(Instances)
        BY DEF CopiesCounted
    <2>5. Cardinality(Copies(Titles[t])) <= Cardinality(Instances)
        BY <2>2, <2>4
    <2> QED BY <2>3, <2>5
<1> QED BY <1>1, Invariant, PTL

\* When every instance serves and no fault met the seeding or a quiz half way,
\* seeding and loading, which skip what they find begun, have left nothing out.
THEOREM DataIsComplete == Spec => []DataComplete
<1>1. IInv /\ Whole => DataComplete
    <2> SUFFICES ASSUME IInv, Whole, ~interrupted, \A i \in Instances : pc[i] = "serving"
                 PROVE  /\ seeded = SeedRows
                        /\ \A t \in DOMAIN Titles : CompleteQuiz(Titles[t])
                        /\ \A n \in DOMAIN quizzes : quizzes[n].questions = Questions
        BY DEF DataComplete
    <2>1. PICK i \in Instances : TRUE
        BY BoundsAssumption
    <2>2. seeded = SeedRows
        BY <2>1, Bounds DEF Whole, SeedWhole, IInv, TypeOK
    <2>3. Len(quizzes) \in Nat /\ DOMAIN quizzes = 1 .. Len(quizzes)
        BY DEF IInv, TypeOK
    <2>4. \A n \in DOMAIN quizzes : quizzes[n].questions = Questions
        BY <2>3 DEF Whole, QuizzesWhole
    <2>5. ASSUME NEW t \in DOMAIN Titles PROVE CompleteQuiz(Titles[t])
        <3>1. TitleExists(Titles[t])
            BY <2>1, Bounds DEF Whole, TitlesLoaded, IInv, TypeOK
        <3>2. PICK n \in DOMAIN quizzes : quizzes[n].title = Titles[t]
            BY <3>1 DEF TitleExists
        <3>3. quizzes[n] \in Quiz
            BY <2>3, <3>2 DEF IInv, TypeOK
        <3> QED BY <2>4, <3>2, <3>3 DEF CompleteQuiz, Quiz
    <2> QED BY <2>2, <2>4, <2>5
<1> QED BY <1>1, Invariant, PTL

=============================================================================
