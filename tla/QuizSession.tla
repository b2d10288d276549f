---------------------------- MODULE QuizSession ----------------------------
(***************************************************************************)
(* Taking a quiz: the session service, the HTTP handlers that drive it and *)
(* the cron job that completes what a student left open.                   *)
(*                                                                         *)
(* A student's run through a quiz is kept in two stores.  PostgreSQL holds *)
(* one quiz_attempts row per run and its user_answers; Redis holds ONE     *)
(* session per user, the key quiz:session:user:<uid>, with a TTL.  Nothing *)
(* locks either: every handler is a chain of separate calls to the two     *)
(* stores, and handlers of one user (two tabs, a double click, the page    *)
(* and the cron job) interleave between any two calls.  Each action below  *)
(* is one such call with the code up to the next one.                      *)
(*                                                                         *)
(* Abstracted, because no branch of the modelled code reads it:            *)
(* CurrentIndex and Answers of the session, and the questions, order and   *)
(* answers keys (what a page displays); texts, points and images.  A score *)
(* is the set of questions whose points it sums.  The quiz a session reads *)
(* through the cache does not change during a behaviour.                   *)
(***************************************************************************)
EXTENDS Integers, FiniteSets

CONSTANTS
    Users,
    Quizzes,
    Attempts,       \* the ids uuid.New() can still hand out
    Requests,       \* slots for HTTP requests in flight
    Pages,          \* bound: the kinds of request that are sent
    Cron,           \* the goroutine of StartCronJob
    TimeLimit,      \* TimeLimit[q]: seconds a quiz lasts
    NumQuestions,   \* NumQuestions[q]: questions of a quiz
    FormIndexes,    \* values of current_index a page posts
    Grace,          \* seconds a session outlives its quiz's time limit (60)
    LastStart,      \* bound: no attempt starts after this second
    MaxTime,        \* bound: the clock stops here
    MaxCronFaults,  \* bound: failed calls and restarts the cron job meets
    Absent          \* no such key, row or value

ASSUME LimitsAssumption ==
    /\ TimeLimit \in [Quizzes -> Nat \ {0}]
    /\ NumQuestions \in [Quizzes -> Nat]
    /\ FormIndexes \subseteq Int
    /\ Pages \subseteq {"open", "navigate", "finish", "end"}
    /\ Grace \in Nat
    /\ LastStart \in Nat
    /\ MaxTime \in Nat
    /\ MaxCronFaults \in Nat

ASSUME NamesAssumption == Cron \notin Requests

VARIABLES
    now,        \* seconds since the start
    row,        \* row[a]: the quiz_attempts row, or Absent
    answers,    \* answers[a]: the user_answers rows of the attempt
    session,    \* session[u]: the value of the user's Redis key, or Absent
    pc,         \* pc[p]: what process p does next
    req,        \* req[p]: the request p serves, or Absent
    cur,        \* cur[p]: the quiz and attempt p works on, or Absent
    snap,       \* snap[p]: questions p counted as right, for the score
    stale,      \* attempts the cron job's loop has still to visit
    cronFaults, \* faults the cron job has met
    late        \* history: attempts answered after a completer counted

vars == <<now, row, answers, session, pc, req, cur, snap, stale, cronFaults, late>>

Procs == Requests \cup {Cron}

Labels == {"idle", "resolve", "fallback", "create", "store", "navigate", "save",
           "lookup", "answer", "upsert",
           "complete", "check", "credit", "update", "delete", "scan"}

Target == [quiz : Quizzes, attempt : Attempts]

Request == [kind : Pages, user : Users, quiz : Quizzes \cup {Absent},
            idx : FormIndexes \cup {Absent}, at : Nat]

Row == [user : Users, quiz : Quizzes, started : Nat, done : BOOLEAN,
        score : SUBSET Int]

SessionValue == [quiz : Quizzes, attempt : Attempts, expires : Nat]

AnswerRow == [quiz : Quizzes, idx : Int, right : BOOLEAN]

\* A missing value is told apart from every value.
ASSUME AbsentAssumption ==
    /\ Absent \notin Row /\ Absent \notin SessionValue /\ Absent \notin Int
    /\ Absent \notin [user : Users, quiz : Quizzes]

\* Types; in particular every stored session has a time at which it expires.
TypeOK ==
    /\ now \in Nat
    /\ row \in [Attempts -> Row \cup {Absent}]
    /\ answers \in [Attempts -> SUBSET AnswerRow]
    /\ session \in [Users -> SessionValue \cup {Absent}]
    /\ pc \in [Procs -> Labels]
    /\ req \in [Requests -> Request \cup {Absent}]
    /\ cur \in [Procs -> Target \cup {Absent}]
    /\ snap \in [Procs -> SUBSET Int]
    /\ stale \subseteq Attempts
    /\ cronFaults \in 0 .. MaxCronFaults
    /\ late \subseteq Attempts

Init ==
    /\ now = 0
    /\ row = [a \in Attempts |-> Absent]
    /\ answers = [a \in Attempts |-> {}]
    /\ session = [u \in Users |-> Absent]
    /\ pc = [p \in Procs |-> "idle"]
    /\ req = [p \in Requests |-> Absent]
    /\ cur = [p \in Procs |-> Absent]
    /\ snap = [p \in Procs |-> {}]
    /\ stale = {}
    /\ cronFaults = 0
    /\ late = {}

-----------------------------------------------------------------------------
(* Helpers                                                                 *)

\* GetSession: a Redis read that errors is reported as a missing key.
GetSession(u) == {session[u], Absent}

\* The last second of an attempt under the time limit of quiz q.
Deadline(a, q) == row[a].started + TimeLimit[q]

\* isTimeExpired: strictly after the deadline.
ExpiresWithSession(a, q) == now > Deadline(a, q) + Grace
IsTimeExpired(a, q) == now > Deadline(a, q)

\* GetActiveSessionForUser gives up on a session with no whole second left.
IsActive(s) == s # Absent /\ now < Deadline(s.attempt, s.quiz)

\* The TTL, in seconds, of the session key of a run through quiz q.
KeptAsAnswers(q) == Grace
KeptFor(q) == TimeLimit[q] + Grace

TargetOf(s) == [quiz |-> s.quiz, attempt |-> s.attempt]

\* The scoring loop: questions of the attempt's quiz with a right answer.
Credited(a) ==
    {i \in 0 .. NumQuestions[row[a].quiz] - 1 :
        [quiz |-> row[a].quiz, idx |-> i, right |-> TRUE] \in answers[a]}

\* INSERT ... ON CONFLICT (attempt_id, question_id) DO UPDATE.
Upserted(rows, q, i, right) ==
    {r \in rows : ~(r.quiz = q /\ r.idx = i)}
        \cup {[quiz |-> q, idx |-> i, right |-> right]}

StaleSessions ==
    {a \in Attempts : /\ row[a] # Absent
                      /\ ~row[a].done
                      /\ Deadline(a, row[a].quiz) <= now
                      /\ session[row[a].user] # Absent
                      /\ session[row[a].user].attempt = a}

\* GetStaleAttempts, with the deadline of the attempt's own quiz.
StaleAttempts ==
    {a \in Attempts : /\ row[a] # Absent
                      /\ ~row[a].done
                      /\ Deadline(a, row[a].quiz) <= now}

Goto(p, label) ==
    /\ pc' = [pc EXCEPT ![p] = label]
    /\ UNCHANGED req

\* Process p has no further use for what it read.
Forget(p) ==
    /\ cur' = [cur EXCEPT ![p] = Absent]
    /\ snap' = [snap EXCEPT ![p] = {}]

\* The handler returns: a page, a redirect or an error.
Reply(p) ==
    /\ pc' = [pc EXCEPT ![p] = "idle"]
    /\ req' = [req EXCEPT ![p] = Absent]
    /\ Forget(p)

\* CompleteSessionByAttemptID returns to its caller.
Completed(p) ==
    /\ Goto(p, IF p = Cron THEN "scan" ELSE "delete")
    /\ Forget(p)

stores == <<row, answers, session, late>>
cronVars == <<stale, cronFaults>>

-----------------------------------------------------------------------------
(* HTTP requests                                                           *)

\* QuizQuestion, QuizNavigate, QuizFinish and, as "end", QuizResult and
\* CancelSession, which make the same calls to the stores.
FirstLabel(kind) == IF kind \in {"open", "navigate"} THEN "resolve" ELSE "lookup"

\* What a page of kind k can send: the quiz is the one in its URL, which need
\* not be the quiz of the session (a tab left open), and current_index may be of
\* a question deleted since.  Fields the handler does not read are Absent.
Sent(k) ==
    [kind : {k}, user : Users,
     quiz : IF k = "end" THEN {Absent} ELSE Quizzes,
     idx : IF k \in {"navigate", "finish"} THEN FormIndexes ELSE {Absent},
     at : IF k \in {"navigate", "finish"} THEN {now} ELSE {0}]

Arrive(p) ==
    /\ pc[p] = "idle"
    /\ \E k \in Pages : \E r \in Sent(k) :
          /\ req' = [req EXCEPT ![p] = r]
          /\ pc' = [pc EXCEPT ![p] = FirstLabel(k)]
    /\ UNCHANGED <<now, stores, cur, snap, cronVars>>

\* getSessionFromRequest has a session for this page: QuizQuestion renders,
\* QuizNavigate goes on to NavigateQuestion.
Proceed(p) ==
    \/ /\ req[p].kind = "open"
       /\ Reply(p)
    \/ /\ req[p].kind = "navigate"
       /\ Goto(p, "navigate")
       /\ Forget(p)

\* getSessionFromRequest, the user's active session: the session of another
\* quiz shows the conflict page; without an active one the cookie is tried,
\* if the browser sent one.
Resolve(p) ==
    /\ pc[p] = "resolve"
    /\ \E s \in GetSession(req[p].user) :
          \/ IsActive(s) /\ s.quiz # req[p].quiz /\ Reply(p)
          \/ IsActive(s) /\ s.quiz = req[p].quiz /\ Proceed(p)
          \/ /\ ~IsActive(s)
             /\ Goto(p, "fallback") \/ Goto(p, "create")
             /\ UNCHANGED <<cur, snap>>
    /\ UNCHANGED <<now, stores, cronVars>>

\* getSessionFromRequest, the session the cookie names, expired or not.
Fallback(p) ==
    /\ pc[p] = "fallback"
    /\ \E s \in GetSession(req[p].user) :
          \/ s # Absent /\ s.quiz # req[p].quiz /\ Reply(p)
          \/ s # Absent /\ s.quiz = req[p].quiz /\ Proceed(p)
          \/ s = Absent /\ Goto(p, "create") /\ UNCHANGED <<cur, snap>>
    /\ UNCHANGED <<now, stores, cronVars>>

ReopenAttempt(p) ==
    /\ pc[p] = "create"
    /\ now <= LastStart
    /\ \E a \in Attempts :
          /\ row' = [row EXCEPT ![a] =
                        [user |-> req[p].user, quiz |-> req[p].quiz,
                         started |-> now, done |-> FALSE, score |-> {}]]
          /\ cur' = [cur EXCEPT ![p] = [quiz |-> req[p].quiz, attempt |-> a]]
    /\ Goto(p, "store")
    /\ UNCHANGED <<now, answers, session, late, snap, cronVars>>

\* CreateSession: the attempt's row is inserted first ...
CreateAttempt(p) ==
    /\ pc[p] = "create"
    /\ now <= LastStart
    /\ \E a \in Attempts :
          /\ row[a] = Absent
          /\ row' = [row EXCEPT ![a] =
                        [user |-> req[p].user, quiz |-> req[p].quiz,
                         started |-> now, done |-> FALSE, score |-> {}]]
          /\ cur' = [cur EXCEPT ![p] = [quiz |-> req[p].quiz, attempt |-> a]]
    /\ Goto(p, "store")
    /\ UNCHANGED <<now, answers, session, late, snap, cronVars>>

\* ... and the user's session overwritten afterwards.
StoreSession(p) ==
    /\ pc[p] = "store"
    /\ session' = [session EXCEPT ![req[p].user] =
                      [quiz |-> cur[p].quiz, attempt |-> cur[p].attempt,
                       expires |-> now + KeptFor(cur[p].quiz)]]
    /\ Proceed(p)
    /\ UNCHANGED <<now, row, answers, late, cronVars>>

\* NavigateQuestion up to its write of the session.  The time limit is that
\* of the quiz in the URL.
Navigate(p) ==
    /\ pc[p] = "navigate"
    /\ \E s \in GetSession(req[p].user) :
          LET ok == /\ s # Absent
                    /\ NumQuestions[s.quiz] > 0
                    /\ ~IsTimeExpired(s.attempt, req[p].quiz)
          IN \/ ~ok /\ Reply(p)
             \/ /\ ok
                /\ cur' = [cur EXCEPT ![p] = TargetOf(s)]
                /\ Goto(p, "save")
                /\ UNCHANGED snap
    /\ UNCHANGED <<now, stores, cronVars>>

SaveWithoutTTL(p) ==
    /\ pc[p] = "save"
    /\ session' = [session EXCEPT ![req[p].user] = cur[p]]
    /\ Goto(p, "answer")
    /\ Forget(p)
    /\ UNCHANGED <<now, row, answers, late, cronVars>>

SaveQuizOfURL(p) ==
    /\ pc[p] = "save"
    /\ session' = [session EXCEPT ![req[p].user] =
                      [quiz |-> req[p].quiz, attempt |-> cur[p].attempt,
                       expires |-> now + KeptFor(req[p].quiz)]]
    /\ Goto(p, "answer")
    /\ Forget(p)
    /\ UNCHANGED <<now, row, answers, late, cronVars>>

\* NavigateQuestion writes back the session it read, whatever the key holds
\* now, and renews its TTL.
SaveSession(p) ==
    /\ pc[p] = "save"
    /\ session' = [session EXCEPT ![req[p].user] =
                      [quiz |-> cur[p].quiz, attempt |-> cur[p].attempt,
                       expires |-> now + KeptFor(req[p].quiz)]]
    /\ Goto(p, "answer")
    /\ Forget(p)
    /\ UNCHANGED <<now, row, answers, late, cronVars>>

\* QuizFinish, QuizResult and CancelSession first ask whether there is a
\* session at all.
Lookup(p) ==
    /\ pc[p] = "lookup"
    /\ \E s \in GetSession(req[p].user) :
          \/ s = Absent /\ Reply(p)
          \/ /\ s # Absent
             /\ Goto(p, IF req[p].kind = "finish" THEN "answer" ELSE "complete")
             /\ UNCHANGED <<cur, snap>>
    /\ UNCHANGED <<now, stores, cronVars>>

CheckAnswerOfURL(p) ==
    /\ pc[p] = "answer"
    /\ \E s \in GetSession(req[p].user) :
          LET ok == /\ s # Absent
                    /\ req[p].idx \in 0 .. NumQuestions[req[p].quiz] - 1
                    /\ ~IsTimeExpired(s.attempt, req[p].quiz)
          IN \/ ~ok /\ Reply(p)
             \/ /\ ok
                /\ cur' = [cur EXCEPT ![p] =
                              [quiz |-> req[p].quiz, attempt |-> s.attempt]]
                /\ Goto(p, "upsert")
                /\ UNCHANGED snap
    /\ UNCHANGED <<now, stores, cronVars>>

\* SaveAnswer reads the session again and checks index and time; it never
\* looks at completed_at.
CheckAnswer(p) ==
    /\ pc[p] = "answer"
    /\ \E s \in GetSession(req[p].user) :
          LET ok == /\ s # Absent
                    /\ req[p].idx \in 0 .. NumQuestions[s.quiz] - 1
                    /\ ~IsTimeExpired(s.attempt, req[p].quiz)
          IN \/ ~ok /\ Reply(p)
             \/ /\ ok
                /\ cur' = [cur EXCEPT ![p] = TargetOf(s)]
                /\ Goto(p, "upsert")
                /\ UNCHANGED snap
    /\ UNCHANGED <<now, stores, cronVars>>

\* A process that holds a count of the answers of attempt a.
Counting(p, a) == pc[p] = "update" /\ cur[p].attempt = a

\* SaveAnswer records the answer to the session's question, right or wrong,
\* and the handler is done.
UpsertAnswer(p) ==
    /\ pc[p] = "upsert"
    /\ LET a == cur[p].attempt IN
          /\ \E right \in BOOLEAN :
                answers' = [answers EXCEPT ![a] =
                    Upserted(@, cur[p].quiz, req[p].idx, right)]
          /\ late' = IF row[a].done \/ \E c \in Procs : Counting(c, a)
                     THEN late \cup {a} ELSE late
    /\ Reply(p)
    /\ UNCHANGED <<now, row, session, cronVars>>

-----------------------------------------------------------------------------
(* Completion, shared by QuizResult, CancelSession and the cron job        *)

\* CompleteSession reads the session a second time.
BeginComplete(p) ==
    /\ pc[p] = "complete"
    /\ \E s \in GetSession(req[p].user) :
          \/ s = Absent /\ Reply(p)
          \/ /\ s # Absent
             /\ cur' = [cur EXCEPT ![p] = TargetOf(s)]
             /\ Goto(p, "check")
             /\ UNCHANGED snap
    /\ UNCHANGED <<now, stores, cronVars>>

\* CompleteSessionByAttemptID returns a completed attempt as it is ...
CheckCompleted(p) ==
    /\ pc[p] = "check"
    /\ \/ row[cur[p].attempt].done /\ Completed(p)
       \/ ~row[cur[p].attempt].done /\ Goto(p, "credit") /\ UNCHANGED <<cur, snap>>
    /\ UNCHANGED <<now, stores, cronVars>>

CountAnswered(p) ==
    /\ pc[p] = "credit"
    /\ snap' = [snap EXCEPT ![p] = {r.idx : r \in answers[cur[p].attempt]}]
    /\ Goto(p, "update")
    /\ UNCHANGED <<now, stores, cur, cronVars>>

\* ... and otherwise reads its answers and counts the right ones ...
CountAnswers(p) ==
    /\ pc[p] = "credit"
    /\ snap' = [snap EXCEPT ![p] = Credited(cur[p].attempt)]
    /\ Goto(p, "update")
    /\ UNCHANGED <<now, stores, cur, cronVars>>

\* ... and writes score and completed_at, unconditionally.
UpdateAttempt(p) ==
    /\ pc[p] = "update"
    /\ row' = [row EXCEPT ![cur[p].attempt] =
                  [@ EXCEPT !.done = TRUE, !.score = snap[p]]]
    /\ Completed(p)
    /\ UNCHANGED <<now, answers, session, late, cronVars>>

\* CompleteSession drops the user's session, whichever attempt it names now.
DeleteSession(p) ==
    /\ pc[p] = "delete"
    /\ session' = [session EXCEPT ![req[p].user] = Absent]
    /\ Reply(p)
    /\ UNCHANGED <<now, row, answers, late, cronVars>>

\* A call fails, the client goes away or the server restarts: the handler
\* stops where it is and what it wrote stays.
Abort(p) ==
    /\ pc[p] # "idle"
    /\ Reply(p)
    /\ UNCHANGED <<now, stores, cronVars>>

-----------------------------------------------------------------------------
(* The cron job                                                            *)

\* A tick of StartCronJob: the list of stale attempts is read once.
CronTick ==
    /\ pc[Cron] = "idle"
    /\ StaleAttempts # {}
    /\ stale' = StaleAttempts
    /\ Goto(Cron, "scan")
    /\ UNCHANGED <<now, stores, cur, snap, cronFaults>>

\* expireAttempt on the next attempt of the list (the query has no ORDER BY).
CronVisit ==
    /\ pc[Cron] = "scan"
    /\ \E a \in stale :
          /\ stale' = stale \ {a}
          /\ \/ /\ row[a].done
                /\ UNCHANGED <<pc, req, cur>>
             \/ /\ ~row[a].done
                /\ Goto(Cron, "check")
                /\ cur' = [cur EXCEPT ![Cron] =
                              [quiz |-> row[a].quiz, attempt |-> a]]
    /\ UNCHANGED <<now, stores, snap, cronFaults>>

\* The loop is over; the goroutine waits for the next tick.
CronRest ==
    /\ pc[Cron] = "scan"
    /\ stale = {}
    /\ Goto(Cron, "idle")
    /\ UNCHANGED <<now, stores, cur, snap, cronVars>>

\* A call fails: expireAttempt logs it and the loop goes on.
CronFail ==
    /\ pc[Cron] \in {"check", "credit", "update"}
    /\ cronFaults < MaxCronFaults
    /\ cronFaults' = cronFaults + 1
    /\ Forget(Cron)
    /\ Goto(Cron, "scan")
    /\ UNCHANGED <<now, stores, stale>>

\* The server restarts: the goroutine begins again with nothing in hand.
CronRestart ==
    /\ pc[Cron] # "idle"
    /\ cronFaults < MaxCronFaults
    /\ cronFaults' = cronFaults + 1
    /\ stale' = {}
    /\ Forget(Cron)
    /\ Goto(Cron, "idle")
    /\ UNCHANGED <<now, stores>>

-----------------------------------------------------------------------------
(* Environment                                                             *)

\* A second passes.
Advance ==
    /\ now < MaxTime
    /\ now' = now + 1
    /\ UNCHANGED <<stores, pc, req, cur, snap, cronVars>>

\* Redis drops a session whose TTL is over.
ExpireSession(u) ==
    /\ session[u] # Absent
    /\ now >= session[u].expires
    /\ session' = [session EXCEPT ![u] = Absent]
    /\ UNCHANGED <<now, row, answers, late, pc, req, cur, snap, cronVars>>

-----------------------------------------------------------------------------

Complete(p) == CheckCompleted(p) \/ CountAnswers(p) \/ UpdateAttempt(p)

Serve(p) ==
    \/ Resolve(p) \/ Fallback(p) \/ CreateAttempt(p) \/ StoreSession(p)
    \/ Navigate(p) \/ SaveSession(p)
    \/ Lookup(p) \/ CheckAnswer(p) \/ UpsertAnswer(p)
    \/ BeginComplete(p) \/ Complete(p) \/ DeleteSession(p)

CronStep == CronTick \/ CronVisit \/ Complete(Cron) \/ CronRest

Next ==
    \/ \E p \in Requests : Arrive(p) \/ Serve(p) \/ Abort(p)
    \/ CronStep \/ CronFail \/ CronRestart
    \/ Advance
    \/ \E u \in Users : ExpireSession(u)

Spec == Init /\ [][Next]_vars

\* Time passes and the cron goroutine is scheduled; no student need come back.
FairSpec == Spec /\ WF_vars(Advance) /\ WF_vars(CronStep)

(***************************************************************************)
(* Properties                                                              *)
(***************************************************************************)

\* A user's session always names an existing attempt of that very user, for
\* the quiz the session itself names: no interleaving of CreateSession,
\* NavigateQuestion's write-back of an old copy and CompleteSession mixes
\* two sessions up.
SessionNamesOwnAttempt ==
    \A u \in Users : session[u] # Absent =>
        LET a == session[u].attempt IN
            /\ row[a] # Absent
            /\ row[a].user = u
            /\ row[a].quiz = session[u].quiz

\* Every recorded answer is to a question of its attempt's quiz, although the
\* quiz in the URL of the page that posted it may be another one.
AnswersOfAttemptsQuiz ==
    \A a \in Attempts : \A r \in answers[a] :
        /\ row[a] # Absent
        /\ r.quiz = row[a].quiz
        /\ r.idx \in 0 .. NumQuestions[r.quiz] - 1

\* A completed attempt's score is that of its recorded answers, unless one of
\* them was recorded after a completer had read the answers.  Completers that
\* overlap (result page, cancellation, cron job), fail halfway or run twice
\* cannot make them differ by themselves.
ScoreMatchesAnswers ==
    \A a \in Attempts \ late :
        row[a] # Absent /\ row[a].done => row[a].score = Credited(a)

\* SaveAnswer never records an answer that reached the server after the
\* attempt's deadline, counted with the time limit of the quiz in the URL,
\* although the session is read again after the handler has checked it.
NoAnswerAfterDeadline ==
    [][\A p \in Requests :
          pc[p] = "upsert" /\ answers' # answers /\ pc'[p] = "idle" =>
              req[p].at <= Deadline(cur[p].attempt, req[p].quiz)]_vars

\* A session is kept until Grace seconds after its attempt's deadline, so the
\* handlers still find it, time the student out and lead to the result: the
\* deadline by the limit of the attempt's quiz or, as NavigateQuestion renews
\* the TTL with the limit of the quiz in the URL, of another quiz; never less.
SessionOutlivesAttempt ==
    \A u \in Users : session[u] # Absent =>
        \E q \in Quizzes : session[u].expires >= Deadline(session[u].attempt, q) + Grace

\* What the UI says of a cancelled test ("This action cannot be undone"): while
\* its time runs, a completed attempt does not become the test the user is
\* taking again.
CompletedIsNotResumed ==
    [][\A u \in Users :
          LET s == session'[u] IN
              s # session[u] /\ IsActive(s) => ~row[s.attempt].done]_vars

\* What AttemptLifecycle sees of an attempt: its user and quiz, whether it is
\* completed, its right answers, the counts of them that completers have taken
\* and not written yet, and the one it was completed with.
HolderOf(a) ==
    IF row[a] = Absent THEN Absent ELSE [user |-> row[a].user, quiz |-> row[a].quiz]
DoneOf(a) == row[a] # Absent /\ row[a].done
RightOf(a) == IF row[a] = Absent THEN {} ELSE Credited(a)
CountsOf(a) == {snap[p] : p \in {c \in Procs : Counting(c, a)}}
ScoreOf(a) == IF row[a] = Absent THEN {} ELSE row[a].score

Lifecycle == INSTANCE AttemptLifecycle WITH
    Questions <- FormIndexes,
    Nobody <- Absent,
    holder <- [a \in Attempts |-> HolderOf(a)],
    done <- {a \in Attempts : DoneOf(a)},
    right <- [a \in Attempts |-> RightOf(a)],
    counts <- [a \in Attempts |-> CountsOf(a)],
    score <- [a \in Attempts |-> ScoreOf(a)]

\* The service implements the attempt lifecycle: opened once, completed with a
\* count of its answers, never opened again, never handed to another user.
ImplementsLifecycle == Lifecycle!Spec

\* Every attempt is completed in the end, even if its student never comes
\* back, its session was overwritten by another tab or was never stored.
EveryAttemptCompletes ==
    \A a \in Attempts : row[a] # Absent ~> row[a] # Absent /\ row[a].done

=============================================================================
