------------------------- MODULE QuizSessionProofs -------------------------
(***************************************************************************)
(* Proofs about QuizSession, for every value of its constants.             *)
(*                                                                         *)
(* TypeOK and SessionNamesOwnAttempt are not inductive by themselves: what *)
(* a step writes is what its process read some steps earlier.  IInv adds   *)
(* what a process may rely on between two calls (the request it serves,    *)
(* the attempt it holds), and every other theorem rests on it.             *)
(***************************************************************************)
EXTENDS QuizSession, TLAPS

\* Where a process works on an attempt it has read or created.
Holding == {"store", "save", "upsert", "check", "credit", "update"}

\* Where a request goes by the quiz of its URL.
ByURL == {"resolve", "fallback", "create", "store", "navigate", "save",
          "answer", "upsert"}

\* A request in flight came from a page, and before now.
RequestsInFlight ==
    \A p \in Requests : pc[p] # "idle" =>
        /\ req[p] \in Request
        /\ req[p].at <= now
        /\ req[p].kind # "end" => req[p].quiz \in Quizzes
        /\ pc[p] \in ByURL => req[p].kind # "end"

\* The attempt in a process's hands exists, and it runs through the quiz the
\* process has noted.
HandsFull ==
    \A p \in Procs : pc[p] \in Holding =>
        /\ cur[p] \in Target
        /\ row[cur[p].attempt] # Absent
        /\ row[cur[p].attempt].quiz = cur[p].quiz

\* The session a request is about to write belongs to its user.
OwnSessionInHand ==
    \A p \in Requests : pc[p] \in {"store", "save"} =>
        row[cur[p].attempt].user = req[p].user

\* An answer about to be recorded is to a question of the attempt's quiz.
QuestionInHand ==
    \A p \in Requests : pc[p] = "upsert" =>
        req[p].idx \in 0 .. NumQuestions[cur[p].quiz] - 1

\* The cron goroutine runs nothing but the completion code, on rows it read.
CronOnRows ==
    /\ pc[Cron] \in {"idle", "scan", "check", "credit", "update"}
    /\ \A a \in stale : row[a] # Absent

\* No attempt starts in the future.
StartedBefore == \A a \in Attempts : row[a] # Absent => row[a].started <= now

IInv ==
    /\ TypeOK
    /\ RequestsInFlight
    /\ HandsFull
    /\ OwnSessionInHand
    /\ QuestionInHand
    /\ CronOnRows
    /\ StartedBefore
    /\ SessionNamesOwnAttempt

USE LimitsAssumption, NamesAssumption, AbsentAssumption

-----------------------------------------------------------------------------
(* IInv is inductive                                                       *)

\* Nothing is in flight and no attempt exists at first.
LEMMA InitInductive == Init => IInv
BY DEF Init, IInv, TypeOK, RequestsInFlight, HandsFull, OwnSessionInHand,
       QuestionInHand, CronOnRows, StartedBefore, SessionNamesOwnAttempt,
       Procs, Labels, Holding

\* The part of a session's value that a handler notes is a target whose
\* attempt exists, belongs to the user and runs through the session's quiz.
LEMMA SessionRead ==
    ASSUME IInv, NEW u \in Users, NEW s \in GetSession(u), s # Absent
    PROVE  /\ s \in SessionValue
           /\ TargetOf(s) \in Target
           /\ row[s.attempt] # Absent
           /\ row[s.attempt] \in Row
           /\ row[s.attempt].user = u
           /\ row[s.attempt].quiz = s.quiz
BY DEF IInv, TypeOK, SessionNamesOwnAttempt, GetSession, TargetOf, Target,
       SessionValue

\* The steps a process takes without writing row: the stores it may touch are
\* the sessions and the answers.
LEMMA RequestSteps ==
    ASSUME IInv, NEW p \in Requests,
           \/ Arrive(p) \/ Resolve(p) \/ Fallback(p) \/ Navigate(p)
           \/ Lookup(p) \/ CheckAnswer(p) \/ UpsertAnswer(p)
           \/ BeginComplete(p) \/ DeleteSession(p) \/ Abort(p)
    PROVE  IInv'
<1>1. pc[p] # "idle" =>
         \A s \in GetSession(req[p].user) : s # Absent =>
            /\ TargetOf(s) \in Target
            /\ row[s.attempt] # Absent
            /\ row[s.attempt].user = req[p].user
            /\ row[s.attempt].quiz = s.quiz
  BY SessionRead DEF IInv, RequestsInFlight, Request
<1> USE DEF IInv, TypeOK, RequestsInFlight, HandsFull, OwnSessionInHand,
            QuestionInHand, CronOnRows, StartedBefore, SessionNamesOwnAttempt,
            Procs, Labels, Holding, ByURL, stores, cronVars,
            Goto, Forget, Reply
<1>2. CASE Arrive(p)
  BY <1>2 DEF Arrive, Sent, FirstLabel, Request
<1>3. CASE Resolve(p)
  BY <1>3, SMTT(30) DEF Resolve, Proceed
<1>4. CASE Fallback(p)
  BY <1>4, SMTT(30) DEF Fallback, Proceed
<1>5. CASE Navigate(p)
  <2>1. CASE Reply(p)
    BY <1>5, <2>1 DEF Navigate
  <2>2. CASE ~Reply(p)
    <3>1. PICK s \in GetSession(req[p].user) :
             /\ s # Absent
             /\ cur' = [cur EXCEPT ![p] = TargetOf(s)]
             /\ pc' = [pc EXCEPT ![p] = "save"]
      BY <1>5, <2>2 DEF Navigate
    <3>2. /\ cur'[p] = TargetOf(s)
          /\ TargetOf(s) \in Target
          /\ row[cur'[p].attempt] # Absent
          /\ row[cur'[p].attempt].user = req[p].user
          /\ row[cur'[p].attempt].quiz = cur'[p].quiz
      BY <1>1, <1>5, <3>1 DEF Navigate, TargetOf
    <3> QED
      BY <1>5, <2>2, <3>1, <3>2, SMTT(30) DEF Navigate
  <2> QED
    BY <2>1, <2>2
<1>6. CASE Lookup(p)
  BY <1>6, SMTT(30) DEF Lookup
<1>7. CASE CheckAnswer(p)
  <2>1. CASE Reply(p)
    BY <1>7, <2>1, SMTT(30) DEF CheckAnswer
  <2>2. CASE ~Reply(p)
    <3>1. PICK s \in GetSession(req[p].user) :
             /\ s # Absent
             /\ cur' = [cur EXCEPT ![p] = TargetOf(s)]
             /\ pc' = [pc EXCEPT ![p] = "upsert"]
             /\ req[p].idx \in 0 .. NumQuestions[TargetOf(s).quiz] - 1
      BY <1>7, <2>2 DEF CheckAnswer, TargetOf
    <3>2. /\ cur'[p] = TargetOf(s)
          /\ TargetOf(s) \in Target
          /\ row[cur'[p].attempt] # Absent
          /\ row[cur'[p].attempt].user = req[p].user
          /\ row[cur'[p].attempt].quiz = cur'[p].quiz
      BY <1>1, <1>7, <3>1 DEF CheckAnswer, TargetOf
    <3> QED
      BY <1>7, <2>2, <3>1, <3>2, SMTT(30) DEF CheckAnswer
  <2> QED
    BY <2>1, <2>2
<1>8. CASE UpsertAnswer(p)
  BY <1>8, SMTT(30) DEF UpsertAnswer, Upserted, Target, AnswerRow
<1>9. CASE BeginComplete(p)
  <2>1. CASE Reply(p)
    BY <1>9, <2>1 DEF BeginComplete
  <2>2. CASE ~Reply(p)
    <3>1. PICK s \in GetSession(req[p].user) :
             /\ s # Absent
             /\ cur' = [cur EXCEPT ![p] = TargetOf(s)]
             /\ pc' = [pc EXCEPT ![p] = "check"]
      BY <1>9, <2>2 DEF BeginComplete
    <3>2. /\ cur'[p] = TargetOf(s)
          /\ TargetOf(s) \in Target
          /\ row[cur'[p].attempt] # Absent
          /\ row[cur'[p].attempt].user = req[p].user
          /\ row[cur'[p].attempt].quiz = cur'[p].quiz
      BY <1>1, <1>9, <3>1 DEF BeginComplete, TargetOf
    <3> QED
      BY <1>9, <2>2, <3>1, <3>2 DEF BeginComplete
  <2> QED
    BY <2>1, <2>2
<1>10. CASE DeleteSession(p)
  <2>1. session' \in [Users -> SessionValue \cup {Absent}]
    BY <1>10 DEF DeleteSession
  <2>2. \A u \in Users : session'[u] # Absent => session'[u] = session[u]
    BY <1>10 DEF DeleteSession
  <2>3. SessionNamesOwnAttempt'
    BY <1>10, <2>2 DEF DeleteSession
  <2> QED
    BY <1>10, <2>1, <2>3 DEF DeleteSession
<1>11. CASE Abort(p)
  BY <1>11 DEF Abort
<1> QED
  BY <1>2, <1>3, <1>4, <1>5, <1>6, <1>7, <1>8, <1>9, <1>10, <1>11

\* The new row belongs to the request that will store its session.
LEMMA CreateAttemptStep ==
    ASSUME IInv, NEW p \in Requests, CreateAttempt(p)
    PROVE  IInv'
<1> USE DEF IInv
<1> DEFINE New == [user |-> req[p].user, quiz |-> req[p].quiz,
                   started |-> now, done |-> FALSE, score |-> {}]
<1>1. PICK a \in Attempts :
         /\ row[a] = Absent
         /\ row' = [row EXCEPT ![a] = New]
         /\ cur' = [cur EXCEPT ![p] = [quiz |-> req[p].quiz, attempt |-> a]]
  BY DEF CreateAttempt
<1>2. /\ pc[p] = "create"
      /\ pc' = [pc EXCEPT ![p] = "store"]
      /\ UNCHANGED <<now, req, answers, session, late, snap, stale, cronFaults>>
  BY DEF CreateAttempt, Goto, cronVars
<1>3. req[p] \in Request /\ req[p].quiz \in Quizzes
  BY <1>2 DEF RequestsInFlight, ByURL
<1>4. New \in Row
  BY <1>3 DEF Request, Row, TypeOK
<1>5. /\ row'[a] = New
      /\ New # Absent
      /\ \A b \in Attempts : b # a => row'[b] = row[b]
      /\ \A b \in Attempts : row[b] # Absent => b # a
  BY <1>1, <1>4 DEF TypeOK
<1>6. TypeOK'
  BY <1>1, <1>2, <1>3, <1>4 DEF TypeOK, Labels, Target, Procs
<1>7. RequestsInFlight'
  BY <1>2 DEF RequestsInFlight, ByURL, TypeOK, Procs
<1>8. HandsFull'
  <2>1. SUFFICES ASSUME NEW q \in Procs, pc'[q] \in Holding
                 PROVE  /\ cur'[q] \in Target
                        /\ row'[cur'[q].attempt] # Absent
                        /\ row'[cur'[q].attempt].quiz = cur'[q].quiz
    BY DEF HandsFull
  <2>2. CASE q = p
    BY <1>1, <1>3, <1>5, <2>2 DEF Procs, TypeOK, Target
  <2>3. CASE q # p
    <3>1. pc'[q] = pc[q] /\ cur'[q] = cur[q]
      BY <1>1, <1>2, <2>3 DEF TypeOK
    <3>2. cur[q] \in Target /\ row[cur[q].attempt] # Absent
          /\ row[cur[q].attempt].quiz = cur[q].quiz
      BY <2>1, <3>1 DEF HandsFull
    <3> QED
      BY <1>5, <3>1, <3>2 DEF Target
  <2> QED
    BY <2>2, <2>3
<1>9. OwnSessionInHand'
  <2>1. SUFFICES ASSUME NEW q \in Requests, pc'[q] \in {"store", "save"}
                 PROVE  row'[cur'[q].attempt].user = req'[q].user
    BY DEF OwnSessionInHand
  <2>2. CASE q = p
    BY <1>1, <1>2, <1>5, <2>2 DEF Procs, TypeOK
  <2>3. CASE q # p
    <3>1. pc'[q] = pc[q] /\ cur'[q] = cur[q] /\ req'[q] = req[q] /\ q \in Procs
      BY <1>1, <1>2, <2>3 DEF TypeOK, Procs
    <3>2. cur[q] \in Target /\ row[cur[q].attempt] # Absent
      BY <2>1, <3>1 DEF HandsFull, Holding
    <3>3. row'[cur[q].attempt] = row[cur[q].attempt]
      BY <1>5, <3>2 DEF Target
    <3> QED
      BY <2>1, <3>1, <3>3 DEF OwnSessionInHand
  <2> QED
    BY <2>2, <2>3
<1>10. QuestionInHand'
  BY <1>1, <1>2 DEF QuestionInHand, TypeOK, Procs
<1>11. CronOnRows'
  BY <1>2, <1>5 DEF CronOnRows, TypeOK, Procs
<1>12. StartedBefore'
  BY <1>2, <1>5 DEF StartedBefore, TypeOK
<1>13. SessionNamesOwnAttempt'
  BY <1>2, <1>5 DEF SessionNamesOwnAttempt, TypeOK, SessionValue
<1> QED
  BY <1>6, <1>7, <1>8, <1>9, <1>10, <1>11, <1>12, <1>13

\* StoreSession and SaveSession write the target in hand as the session of the
\* request's user.
LEMMA SessionStep ==
    ASSUME IInv, NEW p \in Requests, StoreSession(p) \/ SaveSession(p)
    PROVE  IInv'
<1> USE DEF IInv
<1>1. /\ pc[p] \in {"store", "save"}
      /\ req[p] \in Request
      /\ req[p].user \in Users
      /\ req[p].quiz \in Quizzes
      /\ cur[p] \in Target
      /\ row[cur[p].attempt] # Absent
      /\ row[cur[p].attempt].user = req[p].user
      /\ row[cur[p].attempt].quiz = cur[p].quiz
  BY DEF StoreSession, SaveSession, RequestsInFlight, HandsFull,
         OwnSessionInHand, Holding, ByURL, Request, Procs
<1>2. UNCHANGED <<now, row, answers, late, stale, cronFaults>>
  BY DEF StoreSession, SaveSession, cronVars
<1>3. PICK e \in Nat :
         session' = [session EXCEPT ![req[p].user] =
                        [quiz |-> cur[p].quiz, attempt |-> cur[p].attempt,
                         expires |-> e]]
  <2>1. \A q \in Quizzes : now + KeptFor(q) \in Nat
    BY DEF TypeOK, KeptFor
  <2>2. cur[p].quiz \in Quizzes
    BY <1>1 DEF Target
  <2> QED
    BY <1>1, <2>1, <2>2 DEF StoreSession, SaveSession
<1>4. session' \in [Users -> SessionValue \cup {Absent}]
  BY <1>1, <1>3 DEF TypeOK, Target, SessionValue
<1>5. SessionNamesOwnAttempt'
  BY <1>1, <1>2, <1>3 DEF SessionNamesOwnAttempt, TypeOK
<1>6. /\ pc' \in [Procs -> Labels]
      /\ req' \in [Requests -> Request \cup {Absent}]
      /\ cur' \in [Procs -> Target \cup {Absent}]
      /\ snap' \in [Procs -> SUBSET Int]
  BY DEF StoreSession, SaveSession, Proceed, Reply, Goto, Forget, TypeOK,
         Procs, Labels
<1>7. TypeOK'
  BY <1>2, <1>4, <1>6 DEF TypeOK
<1> USE DEF TypeOK, Procs, Proceed, Reply, Goto, Forget, StoreSession,
            SaveSession
<1>8. RequestsInFlight'
  BY <1>1, <1>2 DEF RequestsInFlight, ByURL
<1>9. HandsFull' /\ OwnSessionInHand' /\ QuestionInHand'
  BY <1>2 DEF HandsFull, OwnSessionInHand, QuestionInHand, Holding
<1>10. CronOnRows' /\ StartedBefore'
  BY <1>2 DEF CronOnRows, StartedBefore
<1> QED
  BY <1>5, <1>7, <1>8, <1>9, <1>10

\* The completion code, run by a request or by the cron goroutine.
LEMMA CompletionSteps ==
    ASSUME IInv, NEW p \in Procs, Complete(p)
    PROVE  IInv'
<1> USE DEF IInv
<1>1. p \in Requests \/ p = Cron
  BY DEF Procs
<1>2. CASE CheckCompleted(p) \/ CountAnswers(p)
  <2>1. UNCHANGED <<now, row, answers, session, late, stale, cronFaults>>
    BY <1>2 DEF CheckCompleted, CountAnswers, stores, cronVars
  <2>2. UNCHANGED req /\ \A q \in Procs : q # p => pc'[q] = pc[q] /\ cur'[q] = cur[q]
    BY <1>2 DEF CheckCompleted, CountAnswers, Completed, Goto, Forget, TypeOK
  <2>3. /\ pc[p] \in {"check", "credit"}
        /\ pc'[p] = IF pc[p] = "credit" THEN "update"
                    ELSE IF row[cur[p].attempt].done
                         THEN IF p = Cron THEN "scan" ELSE "delete"
                         ELSE "credit"
        /\ pc'[p] \in Holding => cur'[p] = cur[p]
    BY <1>2 DEF CheckCompleted, CountAnswers, Completed, Goto, Forget, TypeOK,
                Holding
  <2>4. TypeOK'
    <3>1. pc[p] = "credit" => Credited(cur[p].attempt) \in SUBSET Int
      BY DEF HandsFull, Holding, TypeOK, Row, Target, Credited
    <3> QED
      BY <1>2, <2>1, <3>1 DEF CheckCompleted, CountAnswers, Completed, Goto,
                              Forget, TypeOK, Labels
  <2>5. RequestsInFlight'
    BY <1>1, <2>1, <2>2, <2>3 DEF RequestsInFlight, ByURL, Procs
  <2>6. HandsFull'
    BY <2>1, <2>2, <2>3 DEF HandsFull, Holding
  <2>7. OwnSessionInHand' /\ QuestionInHand'
    BY <2>1, <2>2, <2>3 DEF OwnSessionInHand, QuestionInHand, Procs
  <2>8. CronOnRows' /\ StartedBefore' /\ SessionNamesOwnAttempt'
    BY <1>1, <2>1, <2>2, <2>3
    DEF CronOnRows, StartedBefore, SessionNamesOwnAttempt, Procs
  <2> QED
    BY <2>4, <2>5, <2>6, <2>7, <2>8
<1>3. CASE UpdateAttempt(p)
  <2> DEFINE a == cur[p].attempt
             new == [row[a] EXCEPT !.done = TRUE, !.score = snap[p]]
  <2>1. /\ pc[p] = "update"
        /\ a \in Attempts
        /\ row[a] # Absent
        /\ row[a] \in Row
        /\ snap[p] \in SUBSET Int
    BY <1>3 DEF UpdateAttempt, HandsFull, Holding, Target, TypeOK
  <2>2. /\ new \in Row
        /\ new.user = row[a].user
        /\ new.quiz = row[a].quiz
        /\ new.started = row[a].started
        /\ new # Absent
    <3>1. /\ new \in Row
          /\ new.user = row[a].user
          /\ new.quiz = row[a].quiz
          /\ new.started = row[a].started
      BY <2>1 DEF Row
    <3> QED
      BY <3>1
  <2>3. /\ row' = [row EXCEPT ![a] = new]
        /\ UNCHANGED <<now, answers, session, late, req, stale, cronFaults>>
    BY <1>3 DEF UpdateAttempt, cronVars, Completed, Goto
  <2> HIDE DEF new
  <2>4. row' \in [Attempts -> Row \cup {Absent}]
    BY <2>1, <2>2, <2>3 DEF TypeOK
  <2>5. \A b \in Attempts : row[b] # Absent =>
           /\ row'[b] # Absent
           /\ row'[b].user = row[b].user
           /\ row'[b].quiz = row[b].quiz
           /\ row'[b].started = row[b].started
    BY <2>1, <2>2, <2>3 DEF TypeOK
  <2>6. \A b \in Attempts : row'[b] # Absent => row[b] # Absent
    BY <2>1, <2>3 DEF TypeOK
  <2>7. /\ pc' = [pc EXCEPT ![p] = IF p = Cron THEN "scan" ELSE "delete"]
        /\ cur' = [cur EXCEPT ![p] = Absent]
        /\ snap' = [snap EXCEPT ![p] = {}]
    BY <1>3 DEF UpdateAttempt, Completed, Goto, Forget
  <2>8. TypeOK'
    BY <2>3, <2>4, <2>7 DEF TypeOK, Labels
  <2>9. RequestsInFlight'
    BY <1>1, <2>1, <2>3, <2>7 DEF RequestsInFlight, ByURL, TypeOK, Procs
  <2>10. HandsFull'
    BY <2>5, <2>7 DEF HandsFull, Holding, TypeOK, Target
  <2>11. OwnSessionInHand'
    BY <2>3, <2>5, <2>7
    DEF OwnSessionInHand, HandsFull, Holding, TypeOK, Target, Procs
  <2>12. QuestionInHand'
    BY <2>3, <2>7 DEF QuestionInHand, TypeOK, Procs
  <2>13. CronOnRows'
    BY <2>3, <2>5, <2>7 DEF CronOnRows, TypeOK, Procs
  <2>14. StartedBefore'
    BY <2>3, <2>5, <2>6 DEF StartedBefore
  <2>15. SessionNamesOwnAttempt'
    BY <2>3, <2>5 DEF SessionNamesOwnAttempt, TypeOK, SessionValue
  <2> QED
    BY <2>8, <2>9, <2>10, <2>11, <2>12, <2>13, <2>14, <2>15
<1> QED
  BY <1>2, <1>3 DEF Complete

\* The cron goroutine's own bookkeeping.
LEMMA CronSteps ==
    ASSUME IInv, CronTick \/ CronVisit \/ CronRest \/ CronFail \/ CronRestart
    PROVE  IInv'
<1> USE DEF IInv
<1>1. UNCHANGED <<now, row, answers, session, late, req>>
  BY DEF CronTick, CronVisit, CronRest, CronFail, CronRestart, Goto, stores
<1>2. /\ StaleAttempts \subseteq Attempts
      /\ \A a \in StaleAttempts : row[a] # Absent
  BY DEF StaleAttempts
<1>3. stale' \subseteq Attempts /\ \A a \in stale' : row'[a] # Absent
  BY <1>1, <1>2 DEF CronTick, CronVisit, CronRest, CronFail, CronRestart,
                    TypeOK, CronOnRows, cronVars
<1>4. /\ \A q \in Procs : q # Cron => pc'[q] = pc[q] /\ cur'[q] = cur[q]
      /\ pc'[Cron] \in {"idle", "scan", "check"}
      /\ pc' \in [Procs -> Labels]
  BY DEF CronTick, CronVisit, CronRest, CronFail, CronRestart, Goto, Forget,
         TypeOK, Procs, Labels
<1>5. pc'[Cron] \in Holding =>
         /\ cur'[Cron] \in Target
         /\ row[cur'[Cron].attempt] # Absent
         /\ row[cur'[Cron].attempt].quiz = cur'[Cron].quiz
  <2>1. \A a \in stale : [quiz |-> row[a].quiz, attempt |-> a] \in Target
    BY DEF CronOnRows, TypeOK, Row, Target
  <2> QED
    BY <2>1 DEF CronTick, CronVisit, CronRest, CronFail, CronRestart, Goto,
                Forget, TypeOK, CronOnRows, Procs, Holding
<1>6. TypeOK'
  <2>1. cur' \in [Procs -> Target \cup {Absent}]
    <3>1. CASE CronVisit
      BY <3>1 DEF CronVisit, TypeOK, CronOnRows, Row, Target
    <3>2. CASE ~CronVisit
      BY <3>2 DEF CronTick, CronRest, CronFail, CronRestart, Forget, TypeOK
    <3> QED
      BY <3>1, <3>2
  <2>2. snap' \in [Procs -> SUBSET Int] /\ cronFaults' \in 0 .. MaxCronFaults
    BY DEF CronTick, CronVisit, CronRest, CronFail, CronRestart, Forget,
           TypeOK, cronVars
  <2> QED
    BY <1>1, <1>3, <1>4, <2>1, <2>2 DEF TypeOK
<1>7. RequestsInFlight' /\ OwnSessionInHand' /\ QuestionInHand'
  BY <1>1, <1>4 DEF RequestsInFlight, OwnSessionInHand, QuestionInHand, Procs
<1>8. HandsFull'
  BY <1>1, <1>4, <1>5 DEF HandsFull
<1>9. CronOnRows' /\ StartedBefore' /\ SessionNamesOwnAttempt'
  BY <1>1, <1>3, <1>4 DEF CronOnRows, StartedBefore, SessionNamesOwnAttempt
<1> QED
  BY <1>6, <1>7, <1>8, <1>9

\* Time passes, Redis drops a session, or nothing happens.
LEMMA EnvironmentSteps ==
    ASSUME IInv, Advance \/ (\E u \in Users : ExpireSession(u)) \/ UNCHANGED vars
    PROVE  IInv'
<1> USE DEF IInv, TypeOK, RequestsInFlight, HandsFull, OwnSessionInHand,
            QuestionInHand, CronOnRows, StartedBefore, SessionNamesOwnAttempt
<1>1. CASE Advance
  <2>1. /\ now' \in Nat
        /\ now <= now'
        /\ UNCHANGED <<row, answers, session, late, pc, req, cur, snap, stale,
                       cronFaults>>
    BY <1>1 DEF Advance, stores, cronVars
  <2>2. RequestsInFlight'
    BY <2>1 DEF Request
  <2>3. StartedBefore'
    BY <2>1 DEF Row
  <2> QED
    BY <2>1, <2>2, <2>3
<1>2. CASE \E u \in Users : ExpireSession(u)
  <2>1. PICK u \in Users : ExpireSession(u)
    BY <1>2
  <2>2. \A v \in Users : session'[v] # Absent => session'[v] = session[v]
    BY <2>1 DEF ExpireSession
  <2>3. session' \in [Users -> SessionValue \cup {Absent}]
    BY <2>1 DEF ExpireSession
  <2>4. SessionNamesOwnAttempt'
    BY <2>1, <2>2 DEF ExpireSession
  <2> QED
    BY <2>1, <2>3, <2>4 DEF ExpireSession, cronVars
<1>3. CASE UNCHANGED vars
  BY <1>3 DEF vars
<1> QED
  BY <1>1, <1>2, <1>3

\* Every step of the system keeps IInv.
LEMMA NextInductive == IInv /\ [Next]_vars => IInv'
<1> SUFFICES ASSUME IInv, [Next]_vars
             PROVE  IInv'
  OBVIOUS
<1>1. ASSUME NEW p \in Requests, Arrive(p) \/ Serve(p) \/ Abort(p)
      PROVE  IInv'
  <2>1. Complete(p) => IInv'
    BY CompletionSteps DEF Procs
  <2> QED
    BY <1>1, <2>1, RequestSteps, CreateAttemptStep, SessionStep DEF Serve
<1>2. CronStep => IInv'
  BY CompletionSteps, CronSteps DEF CronStep, Procs
<1> QED
  BY <1>1, <1>2, CronSteps, EnvironmentSteps DEF Next

\* IInv holds in every reachable state.
THEOREM Invariant == Spec => []IInv
BY InitInductive, NextInductive, PTL DEF Spec

-----------------------------------------------------------------------------
(* What the runs check, for every value of the constants                   *)

\* Every value the two stores and the handlers keep has its type.
THEOREM TypeCorrect == Spec => []TypeOK
<1>1. IInv => TypeOK
  BY DEF IInv
<1> QED
  BY <1>1, Invariant, PTL

\* Whatever tabs, double clicks, failures and cron ticks interleave, a user's
\* session names an attempt of that user for the session's quiz.
THEOREM SessionsNotMixedUp == Spec => []SessionNamesOwnAttempt
<1>1. IInv => SessionNamesOwnAttempt
  BY DEF IInv
<1> QED
  BY <1>1, Invariant, PTL

\* A step inserts a row, records an answer, counts answers, completes an
\* attempt, or leaves both tables and every count as they are.
LEMMA StepKinds ==
    ASSUME IInv, [Next]_vars
    PROVE  \/ \E p \in Requests : CreateAttempt(p) \/ UpsertAnswer(p)
           \/ \E p \in Procs : CountAnswers(p) \/ UpdateAttempt(p)
           \/ /\ UNCHANGED <<row, answers, late>>
              /\ \A q \in Procs : pc'[q] = "update" =>
                    pc[q] = "update" /\ cur'[q] = cur[q] /\ snap'[q] = snap[q]
<1> DEFINE Quiet ==
              /\ UNCHANGED <<row, answers, late>>
              /\ \A q \in Procs : pc'[q] = "update" =>
                    pc[q] = "update" /\ cur'[q] = cur[q] /\ snap'[q] = snap[q]
<1> USE DEF Goto, Reply, Forget, stores, cronVars
<1>1. TypeOK
  BY DEF IInv
<1>2. ASSUME NEW p \in Procs, CheckCompleted(p)
      PROVE  Quiet
  BY <1>1, <1>2 DEF CheckCompleted, Completed, TypeOK
<1>3. ASSUME NEW p \in Requests, Arrive(p) \/ Abort(p)
      PROVE  Quiet
  BY <1>1, <1>3 DEF Arrive, Abort, FirstLabel, TypeOK, Procs
<1>4. ASSUME NEW p \in Requests,
             \/ Resolve(p) \/ Fallback(p) \/ StoreSession(p) \/ Navigate(p)
             \/ SaveSession(p) \/ Lookup(p)
      PROVE  Quiet
  BY <1>1, <1>4 DEF Resolve, Fallback, StoreSession, Navigate, SaveSession,
                    Lookup, Proceed, TypeOK, Procs
<1>5. ASSUME NEW p \in Requests,
             CheckAnswer(p) \/ BeginComplete(p) \/ DeleteSession(p)
      PROVE  Quiet
  BY <1>1, <1>5 DEF CheckAnswer, BeginComplete, DeleteSession, TypeOK, Procs
<1>6. ASSUME CronTick \/ CronVisit \/ CronRest \/ CronFail \/ CronRestart
      PROVE  Quiet
  BY <1>1, <1>6 DEF CronTick, CronVisit, CronRest, CronFail, CronRestart,
                    TypeOK, Procs
<1>7. ASSUME Advance \/ (\E u \in Users : ExpireSession(u)) \/ UNCHANGED vars
      PROVE  Quiet
  BY <1>7 DEF Advance, ExpireSession, vars
<1> QED
  BY <1>2, <1>3, <1>4, <1>5, <1>6, <1>7
  DEF Next, Serve, CronStep, Complete, Procs

\* A row, once inserted, keeps its user, quiz and start, and stays completed.
LEMMA RowsKept ==
    ASSUME IInv, [Next]_vars, NEW a \in Attempts, row[a] # Absent
    PROVE  /\ row'[a] # Absent
           /\ row'[a].user = row[a].user
           /\ row'[a].quiz = row[a].quiz
           /\ row'[a].started = row[a].started
           /\ row[a].done => row'[a].done
<1>1. row \in [Attempts -> Row \cup {Absent}] /\ row[a] \in Row
  BY DEF IInv, TypeOK
<1>2. ASSUME NEW p \in Requests, CreateAttempt(p)
      PROVE  row'[a] = row[a]
  BY <1>1, <1>2 DEF CreateAttempt
<1>3. ASSUME NEW p \in Requests, UpsertAnswer(p)
      PROVE  row'[a] = row[a]
  BY <1>3 DEF UpsertAnswer
<1>4. ASSUME NEW p \in Procs, CountAnswers(p)
      PROVE  row'[a] = row[a]
  BY <1>4 DEF CountAnswers, stores
<1>5. ASSUME NEW p \in Procs, UpdateAttempt(p)
      PROVE  \/ row'[a] = row[a]
             \/ row'[a] = [row[a] EXCEPT !.done = TRUE, !.score = snap[p]]
  BY <1>1, <1>5 DEF UpdateAttempt
<1>6. ASSUME NEW p \in Procs, UpdateAttempt(p)
      PROVE  [row[a] EXCEPT !.done = TRUE, !.score = snap[p]] \in Row
  BY <1>1, <1>6 DEF UpdateAttempt, IInv, TypeOK, Row
<1>7. ASSUME NEW s
      PROVE  LET n == [row[a] EXCEPT !.done = TRUE, !.score = s] IN
                /\ n.user = row[a].user
                /\ n.quiz = row[a].quiz
                /\ n.started = row[a].started
                /\ n.done = TRUE
  BY <1>1 DEF Row
<1>8. CASE row'[a] = row[a]
  BY <1>1, <1>8
<1>9. CASE \E p \in Procs : UpdateAttempt(p)
  <2>1. PICK p \in Procs : UpdateAttempt(p)
    BY <1>9
  <2>2. CASE row'[a] = [row[a] EXCEPT !.done = TRUE, !.score = snap[p]]
    <3>1. row'[a] # Absent
      BY <1>6, <2>1, <2>2
    <3> QED BY <1>7, <2>2, <3>1
  <2> QED BY <1>5, <1>8, <2>1, <2>2
<1> QED
  BY <1>2, <1>3, <1>4, <1>8, <1>9, StepKinds

\* The upsert of a request in flight is to a question of its attempt's quiz,
\* and the attempt is there.
LEMMA UpsertTarget ==
    ASSUME IInv, NEW p \in Requests, UpsertAnswer(p)
    PROVE  /\ cur[p].attempt \in Attempts
           /\ row[cur[p].attempt] # Absent
           /\ row[cur[p].attempt].quiz = cur[p].quiz
           /\ req[p].idx \in 0 .. NumQuestions[cur[p].quiz] - 1
BY DEF UpsertAnswer, IInv, HandsFull, QuestionInHand, Holding, Procs, Target

-----------------------------------------------------------------------------

\* Only questions of an attempt's own quiz are ever answered in it, whatever
\* quiz the page that posts the answer was opened for.
THEOREM AnswersInQuiz == Spec => []AnswersOfAttemptsQuiz
<1>1. Init => AnswersOfAttemptsQuiz
  BY DEF Init, AnswersOfAttemptsQuiz
<1>2. IInv /\ AnswersOfAttemptsQuiz /\ [Next]_vars => AnswersOfAttemptsQuiz'
  <2> SUFFICES ASSUME IInv, AnswersOfAttemptsQuiz, [Next]_vars,
                      NEW a \in Attempts, NEW r \in answers'[a]
               PROVE  /\ row'[a] # Absent
                      /\ r.quiz = row'[a].quiz
                      /\ r.idx \in 0 .. NumQuestions[r.quiz] - 1
    BY DEF AnswersOfAttemptsQuiz
  <2>1. CASE r \in answers[a]
    BY <2>1, RowsKept DEF AnswersOfAttemptsQuiz
  <2>2. CASE r \notin answers[a]
    <3>1. PICK p \in Requests : UpsertAnswer(p)
      BY <2>2, StepKinds DEF CreateAttempt, CountAnswers, UpdateAttempt, stores
    <3>2. /\ a = cur[p].attempt
          /\ r.quiz = cur[p].quiz
          /\ r.idx = req[p].idx
      <4>1. PICK right \in BOOLEAN :
               answers' = [answers EXCEPT ![cur[p].attempt] =
                  Upserted(@, cur[p].quiz, req[p].idx, right)]
        BY <3>1 DEF UpsertAnswer
      <4>2. answers \in [Attempts -> SUBSET AnswerRow]
        BY DEF IInv, TypeOK
      <4> QED
        BY <2>2, <4>1, <4>2 DEF Upserted
    <3> QED
      BY <3>1, <3>2, UpsertTarget, RowsKept
  <2> QED
    BY <2>1, <2>2
<1> QED
  BY <1>1, <1>2, Invariant, PTL DEF Spec

\* The counts held by completers match as well, as long as no answer was
\* recorded after one of them was taken: this is why completers that overlap
\* may overwrite each other's score.
CountsMatch ==
    \A p \in Procs : pc[p] = "update" /\ cur[p].attempt \notin late =>
        snap[p] = Credited(cur[p].attempt)

\* The score of a completed attempt is that of its recorded answers, unless
\* one of them was recorded after a completer had read the answers.
THEOREM ScoresMatch == Spec => []ScoreMatchesAnswers
<1> DEFINE SInv == ScoreMatchesAnswers /\ CountsMatch
<1>1. Init => SInv
  BY DEF Init, ScoreMatchesAnswers, CountsMatch, Procs
<1>2. IInv /\ SInv /\ [Next]_vars => SInv'
  <2> SUFFICES ASSUME IInv, SInv, [Next]_vars
               PROVE  SInv'
    OBVIOUS
  <2>1. /\ TypeOK
        /\ \A p \in Procs : pc[p] = "update" =>
              /\ cur[p].attempt \in Attempts
              /\ row[cur[p].attempt] # Absent
    BY DEF IInv, HandsFull, Holding, Target
  <2>2. ASSUME NEW p \in Requests, CreateAttempt(p)
        PROVE  SInv'
    <3>1. PICK a \in Attempts : /\ row[a] = Absent
                                /\ ~row'[a].done
                                /\ \A b \in Attempts : b # a => row'[b] = row[b]
      BY <2>1, <2>2 DEF CreateAttempt, TypeOK
    <3>2. UNCHANGED <<answers, late, snap>>
      BY <2>2 DEF CreateAttempt
    <3>3. \A q \in Procs : pc'[q] = "update" =>
             /\ pc[q] = "update"
             /\ cur'[q] = cur[q]
             /\ cur[q].attempt # a
      BY <2>1, <2>2, <3>1 DEF CreateAttempt, Goto, TypeOK
    <3>4. \A b \in Attempts : b # a => Credited(b)' = Credited(b)
      BY <3>1, <3>2 DEF Credited
    <3> QED
      BY <2>1, <3>1, <3>2, <3>3, <3>4 DEF ScoreMatchesAnswers, CountsMatch
  <2>3. ASSUME NEW p \in Requests, UpsertAnswer(p)
        PROVE  SInv'
    <3> DEFINE a == cur[p].attempt
    <3>1. /\ UNCHANGED row
          /\ late' = IF row[a].done \/ \E c \in Procs : Counting(c, a)
                     THEN late \cup {a} ELSE late
          /\ \A b \in Attempts : b # a => answers'[b] = answers[b]
      BY <2>1, <2>3 DEF UpsertAnswer, TypeOK
    <3>2. \A q \in Procs : pc'[q] = "update" =>
             pc[q] = "update" /\ cur'[q] = cur[q] /\ snap'[q] = snap[q]
      BY <2>1, <2>3 DEF UpsertAnswer, Reply, Forget, TypeOK
    <3>3. \A b \in Attempts : b # a => Credited(b)' = Credited(b)
      BY <3>1 DEF Credited
    <3> QED
      BY <2>1, <3>1, <3>2, <3>3 DEF ScoreMatchesAnswers, CountsMatch, Counting
  <2>4. ASSUME NEW p \in Procs, CountAnswers(p)
        PROVE  SInv'
    <3>1. UNCHANGED <<row, answers, late, cur>>
      BY <2>4 DEF CountAnswers, stores
    <3>2. /\ snap'[p] = Credited(cur[p].attempt)
          /\ \A q \in Procs : q # p => pc'[q] = pc[q] /\ snap'[q] = snap[q]
      BY <2>1, <2>4 DEF CountAnswers, Goto, TypeOK
    <3>3. \A b \in Attempts : Credited(b)' = Credited(b)
      BY <3>1 DEF Credited
    <3>4. cur[p].attempt \in Attempts
      BY <2>4 DEF CountAnswers, IInv, HandsFull, Holding, Target
    <3> QED
      BY <2>1, <3>1, <3>2, <3>3, <3>4 DEF ScoreMatchesAnswers, CountsMatch
  <2>5. ASSUME NEW p \in Procs, UpdateAttempt(p)
        PROVE  SInv'
    <3> PICK a \in Attempts : a = cur[p].attempt
      BY <2>1, <2>5 DEF UpdateAttempt
    <3>1. /\ UNCHANGED <<answers, late>>
          /\ row' = [row EXCEPT ![a] =
                        [@ EXCEPT !.done = TRUE, !.score = snap[p]]]
          /\ pc[p] = "update"
      BY <2>5 DEF UpdateAttempt
    <3>2. row'[a].quiz = row[a].quiz /\ row'[a].score = snap[p]
      BY <2>1, <3>1 DEF TypeOK, Row
    <3>3. \A b \in Attempts : b # a => row'[b] = row[b]
      BY <2>1, <3>1 DEF TypeOK
    <3>4. \A b \in Attempts : Credited(b)' = Credited(b)
      BY <3>1, <3>2, <3>3 DEF Credited
    <3>5. \A q \in Procs : pc'[q] = "update" =>
             pc[q] = "update" /\ cur'[q] = cur[q] /\ snap'[q] = snap[q]
      BY <2>1, <2>5 DEF UpdateAttempt, Completed, Goto, Forget, TypeOK
    <3>6. a \notin late => row'[a].score = Credited(a)'
      BY <2>1, <3>1, <3>2, <3>4 DEF CountsMatch
    <3> QED
      BY <2>1, <3>1, <3>3, <3>4, <3>5, <3>6
      DEF ScoreMatchesAnswers, CountsMatch
  <2>6. ASSUME UNCHANGED <<row, answers, late>>,
               \A q \in Procs : pc'[q] = "update" =>
                  pc[q] = "update" /\ cur'[q] = cur[q] /\ snap'[q] = snap[q]
        PROVE  SInv'
    BY <2>6 DEF ScoreMatchesAnswers, CountsMatch, Credited
  <2> QED
    BY <2>2, <2>3, <2>4, <2>5, <2>6, StepKinds
<1>3. SInv => ScoreMatchesAnswers
  OBVIOUS
<1> QED
  BY <1>1, <1>2, <1>3, Invariant, PTL DEF Spec

-----------------------------------------------------------------------------

\* A session is either left as it is, dropped, or written by a request that
\* holds its target.
LEMMA SessionKinds ==
    ASSUME IInv, [Next]_vars, NEW u \in Users, session'[u] # Absent
    PROVE  \/ session'[u] = session[u]
           \/ \E p \in Requests : /\ StoreSession(p) \/ SaveSession(p)
                                  /\ req[p].user = u
<1> USE DEF stores
<1>1. session \in [Users -> SessionValue \cup {Absent}]
  BY DEF IInv, TypeOK
<1>2. ASSUME NEW p \in Procs, Complete(p)
      PROVE  UNCHANGED session
  BY <1>2 DEF Complete, CheckCompleted, CountAnswers, UpdateAttempt
<1>3. ASSUME CronTick \/ CronVisit \/ CronRest \/ CronFail \/ CronRestart
      PROVE  UNCHANGED session
  BY <1>3 DEF CronTick, CronVisit, CronRest, CronFail, CronRestart
<1>4. ASSUME NEW p \in Requests,
             \/ Arrive(p) \/ Abort(p) \/ Resolve(p) \/ Fallback(p)
             \/ CreateAttempt(p) \/ Navigate(p) \/ Lookup(p) \/ CheckAnswer(p)
             \/ UpsertAnswer(p) \/ BeginComplete(p)
      PROVE  UNCHANGED session
  BY <1>4 DEF Arrive, Abort, Resolve, Fallback, CreateAttempt, Navigate,
              Lookup, CheckAnswer, UpsertAnswer, BeginComplete
<1>5. ASSUME Advance \/ UNCHANGED vars
      PROVE  UNCHANGED session
  BY <1>5 DEF Advance, vars
<1>6. ASSUME (\E v \in Users : ExpireSession(v)) \/ (\E p \in Requests : DeleteSession(p))
      PROVE  session'[u] = session[u]
  BY <1>1, <1>6 DEF ExpireSession, DeleteSession
<1>7. ASSUME NEW p \in Requests, StoreSession(p) \/ SaveSession(p)
      PROVE  session'[u] = session[u] \/ req[p].user = u
  BY <1>1, <1>7 DEF StoreSession, SaveSession
<1> QED
  BY <1>2, <1>3, <1>4, <1>5, <1>6, <1>7 DEF Next, Serve, CronStep, Procs

\* A session outlives its attempt's deadline by Grace, by the limit of one quiz
\* or another, however often NavigateQuestion renews it and through whose URL.
THEOREM SessionsOutlive == Spec => []SessionOutlivesAttempt
<1>1. Init => SessionOutlivesAttempt
  BY DEF Init, SessionOutlivesAttempt
<1>2. IInv /\ SessionOutlivesAttempt /\ [Next]_vars => SessionOutlivesAttempt'
  <2> SUFFICES ASSUME IInv, SessionOutlivesAttempt, [Next]_vars,
                      NEW u \in Users, session'[u] # Absent
               PROVE  \E q \in Quizzes :
                        session'[u].expires >= row'[session'[u].attempt].started
                                    + TimeLimit[q] + Grace
    BY DEF SessionOutlivesAttempt, Deadline
  <2>1. CASE session'[u] = session[u]
    <3>1. /\ session[u] # Absent
          /\ session[u].attempt \in Attempts
          /\ row[session[u].attempt] # Absent
      BY <2>1 DEF IInv, TypeOK, SessionNamesOwnAttempt, SessionValue
    <3>2. row'[session[u].attempt].started = row[session[u].attempt].started
      BY <3>1, RowsKept
    <3> QED
      BY <2>1, <3>1, <3>2 DEF SessionOutlivesAttempt, Deadline
  <2>2. ASSUME NEW p \in Requests, StoreSession(p) \/ SaveSession(p),
               req[p].user = u
        PROVE  \E q \in Quizzes :
                 session'[u].expires >= row'[session'[u].attempt].started
                                    + TimeLimit[q] + Grace
    <3>1. /\ cur[p] \in Target
          /\ row[cur[p].attempt] # Absent
          /\ row[cur[p].attempt] \in Row
          /\ req[p].quiz \in Quizzes
          /\ row' = row
      BY <2>2 DEF StoreSession, SaveSession, IInv, TypeOK, HandsFull, Holding,
                  RequestsInFlight, ByURL, Procs, Target
    <3>2. row[cur[p].attempt].started <= now
      BY <3>1 DEF IInv, StartedBefore, Target
    <3>3. PICK q \in Quizzes :
             session'[u] = [quiz |-> cur[p].quiz, attempt |-> cur[p].attempt,
                            expires |-> now + KeptFor(q)]
      BY <2>2, <3>1 DEF StoreSession, SaveSession, IInv, TypeOK, Target
    <3>4. TimeLimit[q] \in Nat /\ now \in Nat /\ row[cur[p].attempt].started \in Nat
      BY <3>1 DEF Row, IInv, TypeOK
    <3> QED
      BY <3>1, <3>2, <3>3, <3>4 DEF KeptFor
  <2> QED
    BY <2>1, <2>2, SessionKinds
<1> QED
  BY <1>1, <1>2, Invariant, PTL DEF Spec

-----------------------------------------------------------------------------

\* An answer about to be recorded came before its deadline: SaveAnswer looked
\* at the clock after the request had arrived, and rows keep their start.
UpsertsInTime ==
    \A p \in Requests : pc[p] = "upsert" =>
        req[p].at <= Deadline(cur[p].attempt, req[p].quiz)

\* Only CheckAnswer brings a request to its upsert.
LEMMA UpsertKinds ==
    ASSUME IInv, [Next]_vars, NEW p \in Requests, pc'[p] = "upsert"
    PROVE  \/ CheckAnswer(p)
           \/ pc[p] = "upsert" /\ req'[p] = req[p] /\ cur'[p] = cur[p]
<1> USE DEF Goto, Reply, Forget
<1>1. TypeOK /\ p \in Procs /\ p # Cron
  BY DEF IInv, Procs
<1>2. ASSUME NEW q \in Procs, Complete(q)
      PROVE  pc[p] = "upsert" /\ req'[p] = req[p] /\ cur'[p] = cur[p]
  BY <1>1, <1>2 DEF Complete, CheckCompleted, CountAnswers, UpdateAttempt,
                    Completed, TypeOK
<1>3. ASSUME CronTick \/ CronVisit \/ CronRest \/ CronFail \/ CronRestart
      PROVE  pc[p] = "upsert" /\ req'[p] = req[p] /\ cur'[p] = cur[p]
  BY <1>1, <1>3 DEF CronTick, CronVisit, CronRest, CronFail, CronRestart, TypeOK
<1>4. ASSUME NEW q \in Requests,
             \/ Arrive(q) \/ Abort(q) \/ Resolve(q) \/ Fallback(q)
             \/ CreateAttempt(q) \/ StoreSession(q) \/ Navigate(q)
      PROVE  pc[p] = "upsert" /\ req'[p] = req[p] /\ cur'[p] = cur[p]
  BY <1>1, <1>4 DEF Arrive, Abort, Resolve, Fallback, CreateAttempt,
                    StoreSession, Navigate, Proceed, FirstLabel, TypeOK
<1>5. ASSUME NEW q \in Requests,
             \/ SaveSession(q) \/ Lookup(q) \/ UpsertAnswer(q)
             \/ BeginComplete(q) \/ DeleteSession(q)
      PROVE  pc[p] = "upsert" /\ req'[p] = req[p] /\ cur'[p] = cur[p]
  BY <1>1, <1>5 DEF SaveSession, Lookup, UpsertAnswer, BeginComplete,
                    DeleteSession, TypeOK
<1>6. ASSUME NEW q \in Requests, CheckAnswer(q), q # p
      PROVE  pc[p] = "upsert" /\ req'[p] = req[p] /\ cur'[p] = cur[p]
  BY <1>1, <1>6 DEF CheckAnswer, TypeOK
<1>7. ASSUME Advance \/ (\E u \in Users : ExpireSession(u)) \/ UNCHANGED vars
      PROVE  pc[p] = "upsert" /\ req'[p] = req[p] /\ cur'[p] = cur[p]
  BY <1>7 DEF Advance, ExpireSession, vars
<1> QED
  BY <1>2, <1>3, <1>4, <1>5, <1>6, <1>7 DEF Next, Serve, CronStep, Procs

\* No answer is recorded that reached the server after its deadline, however
\* long the handler takes between its checks and its writes.
THEOREM AnswersInTime == Spec => NoAnswerAfterDeadline
<1>1. Init => UpsertsInTime
  BY DEF Init, UpsertsInTime, Procs
<1>2. IInv /\ UpsertsInTime /\ [Next]_vars => UpsertsInTime'
  <2> SUFFICES ASSUME IInv, UpsertsInTime, [Next]_vars,
                      NEW p \in Requests, pc'[p] = "upsert"
               PROVE  req'[p].at <= row'[cur'[p].attempt].started
                                    + TimeLimit[req'[p].quiz]
    BY DEF UpsertsInTime, Deadline
  <2>1. CASE pc[p] = "upsert" /\ req'[p] = req[p] /\ cur'[p] = cur[p]
    <3>1. cur[p].attempt \in Attempts /\ row[cur[p].attempt] # Absent
      BY <2>1 DEF IInv, HandsFull, Holding, Procs, Target
    <3> QED
      BY <2>1, <3>1, RowsKept DEF UpsertsInTime, Deadline
  <2>2. CASE CheckAnswer(p)
    <3>1. /\ req[p] \in Request
          /\ req[p].at <= now
          /\ req[p].quiz \in Quizzes
          /\ req[p].user \in Users
      BY <2>2 DEF CheckAnswer, IInv, RequestsInFlight, ByURL, Request
    <3>2. PICK s \in GetSession(req[p].user) :
             /\ s # Absent
             /\ ~IsTimeExpired(s.attempt, req[p].quiz)
             /\ cur'[p] = TargetOf(s)
      BY <2>2 DEF CheckAnswer, Reply, IInv, TypeOK, Procs
    <3>3. row[s.attempt] \in Row
      BY <3>1, <3>2, SessionRead
    <3>4. /\ req[p].at \in Nat
          /\ now \in Nat
          /\ TimeLimit[req[p].quiz] \in Nat
          /\ row[s.attempt].started \in Nat
      BY <3>1, <3>3 DEF Request, Row, IInv, TypeOK
    <3>5. req'[p] = req[p] /\ row' = row
      BY <2>2 DEF CheckAnswer, Reply, Goto, stores, IInv, TypeOK, Procs
    <3> QED
      BY <3>1, <3>2, <3>4, <3>5 DEF IsTimeExpired, Deadline, TargetOf
  <2> QED
    BY <2>1, <2>2, UpsertKinds
<1>3. UpsertsInTime =>
         \A p \in Requests :
            pc[p] = "upsert" /\ answers' # answers /\ pc'[p] = "idle" =>
               req[p].at <= Deadline(cur[p].attempt, req[p].quiz)
  BY DEF UpsertsInTime
<1> QED
  BY <1>1, <1>2, <1>3, Invariant, PTL DEF Spec, NoAnswerAfterDeadline

-----------------------------------------------------------------------------
(* QuizSession implements AttemptLifecycle.                                 *)
(*                                                                         *)
(* Of an attempt the life cycle sees its holder, its right answers, the    *)
(* counts in the hands of completers and, once it is done, its score.  A   *)
(* step of QuizSession either leaves all of these alone or changes them    *)
(* for one attempt.  That an attempt not yet opened has no answers and no  *)
(* completers is what IInv and AnswersOfAttemptsQuiz add.                  *)

\* What the refinement rests on.
LInv == IInv /\ AnswersOfAttemptsQuiz

\* An attempt that exists has a holder.
LEMMA OpenedHasHolder ==
    ASSUME NEW a \in Attempts, row[a] # Absent, TypeOK
    PROVE  HolderOf(a) # Absent
<1>1. [user |-> row[a].user, quiz |-> row[a].quiz] \in [user : Users, quiz : Quizzes]
  BY DEF TypeOK, Row
<1> QED BY <1>1, AbsentAssumption DEF HolderOf

\* Nothing the life cycle sees of the attempts changes.
LEMMA LifecycleStutters ==
    ASSUME \A a \in Attempts : /\ HolderOf(a)' = HolderOf(a) /\ DoneOf(a)' = DoneOf(a)
                               /\ RightOf(a)' = RightOf(a) /\ CountsOf(a)' = CountsOf(a)
                               /\ ScoreOf(a)' = ScoreOf(a)
    PROVE  UNCHANGED Lifecycle!vars
BY DEF Lifecycle!vars

\* The rows and answers stay, and so do the completers that hold a count.
LEMMA OthersStutter ==
    ASSUME UNCHANGED <<row, answers>>,
           \A p \in Procs : pc[p] = "update" \/ pc'[p] = "update" =>
               pc'[p] = pc[p] /\ cur'[p] = cur[p] /\ snap'[p] = snap[p]
    PROVE  UNCHANGED Lifecycle!vars
<1>1. ASSUME NEW a \in Attempts
      PROVE  CountsOf(a)' = CountsOf(a)
  BY DEF CountsOf, Counting
<1> QED
  BY <1>1, LifecycleStutters DEF HolderOf, DoneOf, RightOf, ScoreOf, Credited

\* A completer goes and takes its count with it: unless another one holds the
\* same, it is gone.
LEMMA CountGoes ==
    ASSUME NEW p \in Procs, NEW a \in Attempts, Counting(p, a),
           pc'[p] # "update",
           \A q \in Procs \ {p} : pc'[q] = pc[q] /\ cur'[q] = cur[q] /\ snap'[q] = snap[q]
    PROVE  /\ CountsOf(a)' \in {CountsOf(a), CountsOf(a) \ {snap[p]}}
           /\ snap[p] \in CountsOf(a)
           /\ \A b \in Attempts \ {a} : CountsOf(b)' = CountsOf(b)
<1>1. snap[p] \in CountsOf(a)
  BY DEF CountsOf
<1>2. CASE \E q \in Procs \ {p} : Counting(q, a) /\ snap[q] = snap[p]
  <2>1. CountsOf(a)' = CountsOf(a)
    BY <1>2 DEF CountsOf, Counting
  <2> QED BY <1>1, <2>1 DEF CountsOf, Counting
<1>3. CASE ~\E q \in Procs \ {p} : Counting(q, a) /\ snap[q] = snap[p]
  <2>1. CountsOf(a)' = CountsOf(a) \ {snap[p]}
    BY <1>3 DEF CountsOf, Counting
  <2> QED BY <1>1, <2>1 DEF CountsOf, Counting
<1>4. \A b \in Attempts \ {a} : CountsOf(b)' = CountsOf(b)
  BY DEF CountsOf, Counting
<1> QED BY <1>1, <1>2, <1>3, <1>4

\* A handler or the cron job stops with a count in its hands, or without one.
LEMMA StopsForgets ==
    ASSUME LInv, NEW p \in Procs, Abort(p) \/ (p = Cron /\ (CronFail \/ CronRestart))
    PROVE  [Lifecycle!Next]_(Lifecycle!vars)
<1> USE DEF LInv, IInv, TypeOK
<1>1. /\ UNCHANGED <<row, answers>>
      /\ pc'[p] # "update"
      /\ \A q \in Procs \ {p} : pc'[q] = pc[q] /\ cur'[q] = cur[q] /\ snap'[q] = snap[q]
  BY DEF Abort, CronFail, CronRestart, Reply, Goto, Forget, stores
<1>2. CASE pc[p] # "update"
  BY <1>1, <1>2, OthersStutter
<1>3. CASE pc[p] = "update"
  <2>1. PICK a \in Attempts : Counting(p, a)
    BY <1>3 DEF HandsFull, Holding, Target, Counting
  <2>2. /\ CountsOf(a)' \in {CountsOf(a), CountsOf(a) \ {snap[p]}}
        /\ snap[p] \in CountsOf(a)
        /\ \A b \in Attempts \ {a} : CountsOf(b)' = CountsOf(b)
    BY <1>1, <2>1, CountGoes
  <2>3. /\ \A b \in Attempts : HolderOf(b)' = HolderOf(b) /\ DoneOf(b)' = DoneOf(b)
        /\ \A b \in Attempts : RightOf(b)' = RightOf(b) /\ ScoreOf(b)' = ScoreOf(b)
    BY <1>1 DEF HolderOf, DoneOf, RightOf, ScoreOf, Credited
  <2>4. CASE CountsOf(a)' = CountsOf(a)
    BY <2>2, <2>3, <2>4, LifecycleStutters
  <2>5. CASE CountsOf(a)' = CountsOf(a) \ {snap[p]}
    <3>1. a \in Attempts /\ CountsOf(a)' = CountsOf(a) \ {snap[p]}
      BY <2>5
    <3> DEFINE C == [b \in Attempts |-> CountsOf(b)]
               D == [b \in Attempts |-> CountsOf(b)']
    <3>2. D = [C EXCEPT ![a] = @ \ {snap[p]}] /\ snap[p] \in C[a]
      BY <2>2, <3>1
    <3>3. /\ [b \in Attempts |-> HolderOf(b)'] = [b \in Attempts |-> HolderOf(b)]
          /\ {b \in Attempts : DoneOf(b)'} = {b \in Attempts : DoneOf(b)}
          /\ [b \in Attempts |-> RightOf(b)'] = [b \in Attempts |-> RightOf(b)]
          /\ [b \in Attempts |-> ScoreOf(b)'] = [b \in Attempts |-> ScoreOf(b)]
      BY <2>3
    <3>4. Lifecycle!Forget(a)
      BY <3>2, <3>3, Zenon DEF Lifecycle!Forget
    <3> QED BY <2>1, <3>4 DEF Lifecycle!Next
  <2> QED BY <2>2, <2>4, <2>5
<1> QED BY <1>2, <1>3

\* CountAnswers is a count of the life cycle.
LEMMA CountAnswersCounts ==
    ASSUME LInv, NEW p \in Procs, CountAnswers(p)
    PROVE  [Lifecycle!Next]_(Lifecycle!vars)
<1> USE DEF LInv, IInv, TypeOK
<1>1. PICK a \in Attempts : a = cur[p].attempt /\ row[a] # Absent
  BY DEF CountAnswers, HandsFull, Holding, Target
<1>2. /\ UNCHANGED <<row, answers, cur>>
      /\ pc[p] = "credit" /\ pc'[p] = "update" /\ snap'[p] = Credited(a)
      /\ \A q \in Procs \ {p} : pc'[q] = pc[q] /\ snap'[q] = snap[q]
  BY <1>1 DEF CountAnswers, Goto, stores
<1>3. CountsOf(a)' = CountsOf(a) \cup {RightOf(a)}
  <2>1. RightOf(a) = Credited(a)
    BY <1>1 DEF RightOf
  <2>2. ~Counting(p, a) /\ Counting(p, a)' /\ snap'[p] = RightOf(a)
    BY <1>1, <1>2, <2>1 DEF Counting
  <2>3. \A q \in Procs \ {p} : (Counting(q, a)' <=> Counting(q, a)) /\ snap'[q] = snap[q]
    BY <1>2 DEF Counting
  <2> HIDE DEF LInv, IInv, TypeOK
  <2> DEFINE old == {c \in Procs : Counting(c, a)}
  <2>4. {c \in Procs : Counting(c, a)}' = old \cup {p}
    BY <2>2, <2>3
  <2>5. p \notin old
    BY <2>2
  <2>6. \A q \in old : snap'[q] = snap[q]
    BY <2>3, <2>5
  <2>7. {snap'[q] : q \in old \cup {p}} = {snap[q] : q \in old} \cup {snap'[p]}
    <3> HIDE DEF old
    <3> QED BY <2>6
  <2>8. CountsOf(a) = {snap[q] : q \in old}
    BY DEF CountsOf
  <2>9. CountsOf(a)' = {snap'[q] : q \in old \cup {p}}
    <3>1. CountsOf(a)' = {snap'[q] : q \in {c \in Procs : Counting(c, a)}'}
      BY DEF CountsOf
    <3> HIDE DEF old
    <3> QED BY <2>4, <3>1
  <2> HIDE DEF old
  <2> QED BY <2>2, <2>7, <2>8, <2>9
<1>4. \A b \in Attempts \ {a} : CountsOf(b)' = CountsOf(b)
  <2>1. SUFFICES ASSUME NEW b \in Attempts \ {a}
                 PROVE  CountsOf(b)' = CountsOf(b)
    OBVIOUS
  <2>2. cur[p].attempt # b
    BY <1>1
  <2>3. \A q \in Procs : Counting(q, b)' <=> Counting(q, b)
    BY <1>2, <2>2 DEF Counting
  <2>4. \A q \in Procs : Counting(q, b) => snap'[q] = snap[q]
    BY <1>2, <2>2 DEF Counting
  <2> QED BY <2>3, <2>4 DEF CountsOf
<1>5. /\ \A b \in Attempts : HolderOf(b)' = HolderOf(b) /\ DoneOf(b)' = DoneOf(b)
      /\ \A b \in Attempts : RightOf(b)' = RightOf(b) /\ ScoreOf(b)' = ScoreOf(b)
  BY <1>2 DEF HolderOf, DoneOf, RightOf, ScoreOf, Credited
<1>6. Lifecycle!Count(a)
  <2> HIDE DEF LInv, IInv, TypeOK
  <2>1. UNCHANGED <<[b \in Attempts |-> HolderOf(b)], {b \in Attempts : DoneOf(b)},
                    [b \in Attempts |-> RightOf(b)], [b \in Attempts |-> ScoreOf(b)]>>
    BY <1>5
  <2>2. [b \in Attempts |-> CountsOf(b)]' =
           [[b \in Attempts |-> CountsOf(b)] EXCEPT ![a] = CountsOf(a) \cup {RightOf(a)}]
    BY <1>3, <1>4
  <2>3. HolderOf(a) # Absent
    BY <1>1, OpenedHasHolder DEF LInv, IInv
  <2> QED BY <2>1, <2>2, <2>3 DEF Lifecycle!Count
<1> QED BY <1>1, <1>6 DEF Lifecycle!Next

\* UpdateAttempt completes the attempt with the count its process holds.
LEMMA UpdateCompletes ==
    ASSUME LInv, NEW p \in Procs, UpdateAttempt(p)
    PROVE  [Lifecycle!Next]_(Lifecycle!vars)
<1> USE DEF LInv, IInv, TypeOK
<1>1. PICK a \in Attempts :
         a = cur[p].attempt /\ row[a] # Absent /\ row[a] \in Row /\ Counting(p, a)
  BY DEF UpdateAttempt, HandsFull, Holding, Target, Counting
<1>2. /\ row' = [row EXCEPT ![a] = [row[a] EXCEPT !.done = TRUE, !.score = snap[p]]]
      /\ answers' = answers
      /\ pc'[p] # "update"
      /\ \A q \in Procs \ {p} : pc'[q] = pc[q] /\ cur'[q] = cur[q] /\ snap'[q] = snap[q]
  BY <1>1 DEF UpdateAttempt, Completed, Goto, Forget
<1>3. /\ CountsOf(a)' \in {CountsOf(a), CountsOf(a) \ {snap[p]}}
      /\ snap[p] \in CountsOf(a)
      /\ \A b \in Attempts \ {a} : CountsOf(b)' = CountsOf(b)
  BY <1>1, <1>2, CountGoes
<1>4. /\ row'[a] # Absent /\ row'[a].user = row[a].user /\ row'[a].quiz = row[a].quiz
      /\ row'[a].done /\ row'[a].score = snap[p]
      /\ \A b \in Attempts \ {a} : row'[b] = row[b]
  <2>1. row'[a] = [row[a] EXCEPT !.done = TRUE, !.score = snap[p]]
        /\ \A b \in Attempts \ {a} : row'[b] = row[b]
    BY <1>1, <1>2
  <2>2. row'[a] \in Row
    BY <1>1, <2>1 DEF Row
  <2> QED BY <1>1, <2>1, <2>2, AbsentAssumption DEF Row
<1>5. \A b \in Attempts : HolderOf(b)' = HolderOf(b) /\ RightOf(b)' = RightOf(b)
  <2>1. HolderOf(a)' = HolderOf(a) /\ RightOf(a)' = RightOf(a)
    BY <1>1, <1>2, <1>4 DEF HolderOf, RightOf, Credited
  <2>2. \A b \in Attempts \ {a} : HolderOf(b)' = HolderOf(b) /\ RightOf(b)' = RightOf(b)
    BY <1>2, <1>4 DEF HolderOf, RightOf, Credited
  <2> QED BY <2>1, <2>2
<1>6. /\ DoneOf(a)' /\ ScoreOf(a)' = snap[p]
      /\ \A b \in Attempts \ {a} : DoneOf(b)' = DoneOf(b) /\ ScoreOf(b)' = ScoreOf(b)
  BY <1>4 DEF DoneOf, ScoreOf
<1>7. Lifecycle!Complete(a)
  <2> HIDE DEF LInv, IInv, TypeOK
  <2>1. UNCHANGED <<[b \in Attempts |-> HolderOf(b)], [b \in Attempts |-> RightOf(b)]>>
    BY <1>5
  <2>2. {b \in Attempts : DoneOf(b)}' = {b \in Attempts : DoneOf(b)} \cup {a}
    BY <1>6
  <2>3. [b \in Attempts |-> ScoreOf(b)]' = [[b \in Attempts |-> ScoreOf(b)] EXCEPT ![a] = snap[p]]
    BY <1>6
  <2>4. [b \in Attempts |-> CountsOf(b)]' \in
           {[b \in Attempts |-> CountsOf(b)],
            [[b \in Attempts |-> CountsOf(b)] EXCEPT ![a] = CountsOf(a) \ {snap[p]}]}
    BY <1>3
  <2> QED BY <1>3, <2>1, <2>2, <2>3, <2>4 DEF Lifecycle!Complete
<1> QED BY <1>1, <1>7 DEF Lifecycle!Next

\* UpsertAnswer records one answer, right or wrong.
LEMMA UpsertRecords ==
    ASSUME LInv, NEW p \in Requests, UpsertAnswer(p)
    PROVE  [Lifecycle!Next]_(Lifecycle!vars)
<1> USE DEF LInv, IInv, TypeOK
<1>1. PICK a \in Attempts, i \in FormIndexes :
         /\ p \in Procs /\ a = cur[p].attempt /\ i = req[p].idx
         /\ row[a] # Absent /\ row[a].quiz = cur[p].quiz
         /\ i \in 0 .. NumQuestions[row[a].quiz] - 1
  <2>1. p \in Procs /\ pc[p] = "upsert"
    BY DEF UpsertAnswer, Procs
  <2>2. req[p].idx \in 0 .. NumQuestions[cur[p].quiz] - 1 /\ req[p] \in Request
    BY <2>1 DEF QuestionInHand, RequestsInFlight
  <2>3. req[p].idx \in FormIndexes
    BY <2>2, AbsentAssumption DEF Request
  <2> QED BY <2>1, <2>2, <2>3 DEF HandsFull, Holding, Target
<1>2. PICK right \in BOOLEAN :
         answers' = [answers EXCEPT ![a] = Upserted(answers[a], row[a].quiz, i, right)]
  BY <1>1 DEF UpsertAnswer
<1>3. /\ row' = row /\ pc[p] = "upsert" /\ pc'[p] = "idle"
      /\ \A q \in Procs \ {p} : pc'[q] = pc[q] /\ cur'[q] = cur[q] /\ snap'[q] = snap[q]
  BY <1>1 DEF UpsertAnswer, Reply, Forget
<1>4. \A b \in Attempts : CountsOf(b)' = CountsOf(b)
  BY <1>3 DEF CountsOf, Counting
<1>5. /\ answers'[a] = Upserted(answers[a], row[a].quiz, i, right)
      /\ \A b \in Attempts \ {a} : answers'[b] = answers[b]
  BY <1>1, <1>2
<1>6. Credited(a)' = IF right THEN Credited(a) \cup {i} ELSE Credited(a) \ {i}
  <2>1. \A k \in 0 .. NumQuestions[row[a].quiz] - 1 :
           [quiz |-> row[a].quiz, idx |-> k, right |-> TRUE] \in answers'[a]
             <=> IF k = i THEN right = TRUE
                 ELSE [quiz |-> row[a].quiz, idx |-> k, right |-> TRUE] \in answers[a]
    BY <1>1, <1>5 DEF Upserted
  <2>2. i \in 0 .. NumQuestions[row[a].quiz] - 1 /\ row' = row
    BY <1>1, <1>3
  <2>3. \A k : k \in Credited(a)' <=>
                /\ k \in 0 .. NumQuestions[row[a].quiz] - 1
                /\ IF k = i THEN right = TRUE ELSE k \in Credited(a)
    BY <2>1, <2>2 DEF Credited
  <2> QED BY <1>2, <2>2, <2>3, Zenon DEF Credited
<1>7. \A b \in Attempts \ {a} : RightOf(b)' = RightOf(b)
  BY <1>3, <1>5 DEF RightOf, Credited
<1>8. RightOf(a)' = RightOf(a) \cup {i} \/ RightOf(a)' = RightOf(a) \ {i}
  BY <1>1, <1>3, <1>6 DEF RightOf
<1>9. \A b \in Attempts : HolderOf(b)' = HolderOf(b) /\ DoneOf(b)' = DoneOf(b) /\ ScoreOf(b)' = ScoreOf(b)
  BY <1>3 DEF HolderOf, DoneOf, ScoreOf
<1>10. Lifecycle!Record(a)
  <2> HIDE DEF LInv, IInv, TypeOK
  <2>1. UNCHANGED <<[b \in Attempts |-> HolderOf(b)], {b \in Attempts : DoneOf(b)},
                    [b \in Attempts |-> CountsOf(b)], [b \in Attempts |-> ScoreOf(b)]>>
    BY <1>4, <1>9
  <2>2. \/ [b \in Attempts |-> RightOf(b)]' =
              [[b \in Attempts |-> RightOf(b)] EXCEPT ![a] = RightOf(a) \cup {i}]
        \/ [b \in Attempts |-> RightOf(b)]' =
              [[b \in Attempts |-> RightOf(b)] EXCEPT ![a] = RightOf(a) \ {i}]
    BY <1>7, <1>8
  <2>3. HolderOf(a) # Absent
    BY <1>1, OpenedHasHolder DEF LInv, IInv
  <2> QED BY <2>1, <2>2, <2>3 DEF Lifecycle!Record
<1> QED BY <1>1, <1>10 DEF Lifecycle!Next

\* CreateAttempt opens an attempt; it has no answers and nobody has counted any.
LEMMA CreateOpens ==
    ASSUME LInv, NEW p \in Requests, CreateAttempt(p)
    PROVE  [Lifecycle!Next]_(Lifecycle!vars)
<1> USE DEF LInv, IInv, TypeOK
<1>1. p \in Procs /\ req[p].user \in Users /\ req[p].quiz \in Quizzes
  <2>1. p \in Procs /\ pc[p] = "create"
    BY DEF CreateAttempt, Procs
  <2> QED BY <2>1 DEF RequestsInFlight, Request, ByURL
<1>2. PICK a \in Attempts :
         /\ row[a] = Absent
         /\ row' = [row EXCEPT ![a] = [user |-> req[p].user, quiz |-> req[p].quiz,
                                       started |-> now, done |-> FALSE, score |-> {}]]
  BY DEF CreateAttempt
<1>3. /\ pc[p] = "create" /\ pc'[p] = "store" /\ answers' = answers /\ snap' = snap
      /\ \A q \in Procs \ {p} : pc'[q] = pc[q] /\ cur'[q] = cur[q]
  BY <1>1 DEF CreateAttempt, Goto
<1>4. row'[a] = [user |-> req[p].user, quiz |-> req[p].quiz, started |-> now, done |-> FALSE, score |-> {}]
      /\ \A b \in Attempts \ {a} : row'[b] = row[b]
  BY <1>2
<1>5. row'[a] # Absent
  <2>1. row'[a] \in Row
    BY <1>1, <1>4 DEF Row
  <2> QED BY <2>1, AbsentAssumption
<1>6. answers[a] = {}
  BY <1>2 DEF AnswersOfAttemptsQuiz
<1>7. \A b \in Attempts : CountsOf(b)' = CountsOf(b)
  BY <1>3 DEF CountsOf, Counting
<1>8. /\ HolderOf(a) = Absent /\ HolderOf(a)' = [user |-> req[p].user, quiz |-> req[p].quiz]
      /\ DoneOf(a)' = DoneOf(a) /\ RightOf(a)' = RightOf(a) /\ ScoreOf(a)' = ScoreOf(a)
  BY <1>2, <1>3, <1>4, <1>5, <1>6 DEF HolderOf, DoneOf, RightOf, ScoreOf, Credited
<1>9. \A b \in Attempts \ {a} : /\ HolderOf(b)' = HolderOf(b) /\ DoneOf(b)' = DoneOf(b)
                                /\ RightOf(b)' = RightOf(b) /\ ScoreOf(b)' = ScoreOf(b)
  BY <1>3, <1>4 DEF HolderOf, DoneOf, RightOf, ScoreOf, Credited
<1>10. Lifecycle!Open(a)
  <2> HIDE DEF LInv, IInv, TypeOK
  <2>1. UNCHANGED <<{b \in Attempts : DoneOf(b)}, [b \in Attempts |-> RightOf(b)],
                    [b \in Attempts |-> CountsOf(b)], [b \in Attempts |-> ScoreOf(b)]>>
    BY <1>7, <1>8, <1>9
  <2>2. [b \in Attempts |-> HolderOf(b)]' =
           [[b \in Attempts |-> HolderOf(b)] EXCEPT ![a] = [user |-> req[p].user, quiz |-> req[p].quiz]]
    BY <1>8, <1>9
  <2> QED BY <1>1, <1>8, <2>1, <2>2 DEF Lifecycle!Open
<1> QED BY <1>10 DEF Lifecycle!Next

\* Every other step concerns sessions, requests and the clock only.
LEMMA OtherStepsStutter ==
    ASSUME LInv, [Next]_vars
    PROVE  \/ UNCHANGED Lifecycle!vars
           \/ \E p \in Requests : CreateAttempt(p) \/ UpsertAnswer(p)
           \/ \E p \in Procs : \/ CountAnswers(p) \/ UpdateAttempt(p)
                               \/ Abort(p) \/ (p = Cron /\ (CronFail \/ CronRestart))
<1> USE DEF LInv, IInv, TypeOK
<1>1. ASSUME NEW p \in Requests, Arrive(p) \/ Resolve(p) \/ Fallback(p) \/ StoreSession(p)
      PROVE  UNCHANGED Lifecycle!vars
  BY <1>1, OthersStutter DEF Arrive, Resolve, Fallback, StoreSession, Proceed, Sent, FirstLabel,
     Goto, Reply, Forget, stores, Procs
<1>2. ASSUME NEW p \in Requests, Navigate(p) \/ SaveSession(p) \/ Lookup(p) \/ CheckAnswer(p)
      PROVE  UNCHANGED Lifecycle!vars
  BY <1>2, OthersStutter DEF Navigate, SaveSession, Lookup, CheckAnswer, Goto, Reply, Forget, stores, Procs
<1>3. ASSUME NEW p \in Requests, BeginComplete(p) \/ DeleteSession(p)
      PROVE  UNCHANGED Lifecycle!vars
  BY <1>3, OthersStutter DEF BeginComplete, DeleteSession, Goto, Reply, Forget, stores, Procs
<1>4. ASSUME NEW p \in Procs, CheckCompleted(p)
      PROVE  UNCHANGED Lifecycle!vars
  BY <1>4, OthersStutter DEF CheckCompleted, Completed, Goto, Forget, stores
<1>5. ASSUME CronTick \/ CronVisit \/ CronRest
      PROVE  UNCHANGED Lifecycle!vars
  BY <1>5, OthersStutter DEF CronTick, CronVisit, CronRest, Goto, stores, Procs
<1>6. ASSUME Advance \/ (\E u \in Users : ExpireSession(u)) \/ UNCHANGED vars
      PROVE  UNCHANGED Lifecycle!vars
  BY <1>6, OthersStutter DEF Advance, ExpireSession, stores, vars
<1> QED
  BY <1>1, <1>2, <1>3, <1>4, <1>5, <1>6 DEF Next, Serve, CronStep, Complete, Procs

\* Whatever requests, the cron job and the clock do, an attempt is opened once, is
\* completed with a count of its right answers that was taken before, and does not
\* open again or change hands: QuizSession implements AttemptLifecycle.
THEOREM LifecycleImplemented == Spec => ImplementsLifecycle
<1>1. Init => Lifecycle!Init
  <2> SUFFICES ASSUME Init PROVE Lifecycle!Init
    OBVIOUS
  <2>1. \A a \in Attempts : row[a] = Absent
    BY DEF Init
  <2>2. \A p \in Procs : pc[p] = "idle"
    BY DEF Init
  <2> QED BY <2>1, <2>2 DEF Lifecycle!Init, HolderOf, DoneOf, RightOf, CountsOf, ScoreOf, Counting
<1>2. LInv /\ [Next]_vars => [Lifecycle!Next]_(Lifecycle!vars)
  <2> SUFFICES ASSUME LInv, [Next]_vars PROVE [Lifecycle!Next]_(Lifecycle!vars)
    OBVIOUS
  <2>1. CASE UNCHANGED Lifecycle!vars
    BY <2>1
  <2>2. CASE \E p \in Requests : CreateAttempt(p) \/ UpsertAnswer(p)
    BY <2>2, CreateOpens, UpsertRecords
  <2>3. CASE \E p \in Procs : CountAnswers(p) \/ UpdateAttempt(p)
    BY <2>3, CountAnswersCounts, UpdateCompletes
  <2>4. CASE \E p \in Procs : Abort(p) \/ (p = Cron /\ (CronFail \/ CronRestart))
    BY <2>4, StopsForgets
  <2> QED BY <2>1, <2>2, <2>3, <2>4, OtherStepsStutter
<1> QED
  BY <1>1, <1>2, Invariant, AnswersInQuiz, PTL DEF Spec, LInv, ImplementsLifecycle, Lifecycle!Spec

=============================================================================
