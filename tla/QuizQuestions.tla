--------------------------- MODULE QuizQuestions ----------------------------
(***************************************************************************)
(* The questions of one quiz while a student takes it and an administrator *)
(* edits them.                                                             *)
(*                                                                         *)
(* A question is named by its position everywhere in a run: in the page's  *)
(* address, in the form it posts and in SaveAnswer.  What is at a position *)
(* is looked up in the list of questions at every use, twice within one    *)
(* NavigateQuestion, and the list is a cached copy of the rows that lapses *)
(* and is replaced while the quiz is taken; rows of equal order_index come *)
(* in another order each time.  The result page counts the answers, reads  *)
(* them again and judges them once more, in calls between which a post may *)
(* still store one.                                                        *)
(*                                                                         *)
(* The keys of the cache and their times to live are QuizCache's subject,  *)
(* overlapping requests on the session QuizSession's, and so are the cron  *)
(* job and other completions of the attempt.  The student uses one window  *)
(* and sends nothing while the result loads; a request may still be slower *)
(* than the next one.                                                      *)
(***************************************************************************)
EXTENDS Integers, Sequences, FiniteSets, SequencesExt

CONSTANTS
    Questions,      \* the questions there are or may be
    Answers,        \* what a student answers, and what may be right
    Requests,       \* slots for posts in flight
    MaxOrder,       \* bound: order_index an administrator enters is at most this
    MaxEdits,       \* bound: writes of questions
    MaxFills,       \* bound: goroutines about to store a list
    Absent

ASSUME BoundsAssumption ==
    {MaxOrder, MaxEdits, MaxFills} \subseteq Nat /\ IsFiniteSet(Questions)

VARIABLES
    row,        \* row[q]: the questions row, or Absent
    edits,      \* writes so far
    cached,     \* the list in Redis, or Absent
    fills,      \* lists read from the database and about to be stored
    running,    \* the session exists
    answered,   \* answered[q]: the user_answers row, or Absent
    score,      \* the questions counted when the attempt was completed, or Absent
    page,       \* the question card shown, or Absent
    pc, post,   \* the posts in flight
    asked,      \* the request for the result, and how far it has come
    result,     \* what the result page says, or Absent
    calm,       \* history: the questions have been left alone, see Settled
    late        \* history: in a calm run, the questions answered after the count

questionVars == <<row, edits>>
cacheVars == <<cached, fills>>
attemptVars == <<running, answered, score>>
postVars == <<pc, post>>
askVars == <<asked, result>>
runVars == <<attemptVars, page, postVars, askVars>>
histVars == <<calm, late>>
vars == <<questionVars, cacheVars, runVars, histVars>>

Row == [order : 0 .. MaxOrder, right : Answers]

Entry == [id : Questions, right : Answers]

Card == [idx : 0 .. Cardinality(Questions) - 1, id : Questions]

\* A post as it is sent, with the next card, and with its verdict.
Sent == [idx : 0 .. Cardinality(Questions) - 1, target : -1 .. Cardinality(Questions),
         given : Answers, under : Questions]

Navigated == [idx : 0 .. Cardinality(Questions) - 1, given : Answers, under : Questions,
              next : Card]

Judged == [id : Questions, given : Answers, correct : BOOLEAN, under : Questions, next : Card]

Ask == [at : {"idle", "complete", "update", "delete", "reread"}, listed : SUBSET Entry,
        score : SUBSET Questions]

NoAsk == [at |-> "idle", listed |-> {}, score |-> {}]

ASSUME AbsentAssumption == \A counted \in SUBSET Questions : counted # Absent

\* Types; in particular a card shows a position that the list has.
TypeOK ==
    /\ row \in [Questions -> Row \cup {Absent}]
    /\ edits \in 0 .. MaxEdits
    /\ cached \in Seq(Entry) \cup {Absent}
    /\ fills \subseteq Seq(Entry)
    /\ running \in BOOLEAN /\ calm \in BOOLEAN
    /\ answered \in [Questions -> [given : Answers, correct : BOOLEAN] \cup {Absent}]
    /\ score \in (SUBSET Questions) \cup {Absent}
    /\ page \in Card \cup {Absent}
    /\ pc \in [Requests -> {"idle", "navigate", "save", "upsert"}]
    /\ post \in [Requests -> Sent \cup Navigated \cup Judged \cup {Absent}]
    /\ asked \in Ask
    /\ late \subseteq Questions
    /\ result \in [score : SUBSET Questions, right : SUBSET Questions,
                   details : SUBSET Questions] \cup {Absent}

Exists == {q \in Questions : row[q] # Absent}

Listed(s) == [i \in DOMAIN s |-> [id |-> s[i], right |-> row[s[i]].right]]

\* GetQuestionsByQuizID: ordered by order_index, in any order where they are equal.
UnorderedLists == {Listed(s) : s \in SetToSeqs(Exists)}

Lists == {Listed(s) : s \in {t \in SetToSeqs(Exists) :
             \A i, j \in DOMAIN t : i < j => row[t[i]].order <= row[t[j]].order}}

At(stage) == asked.at = stage

\* Every list there is agrees with the rows, and no post is on its way.  Where
\* order_index does not tell two questions apart, there are still several lists.
Settled ==
    /\ cached = Absent \/ cached \in Lists
    /\ fills \subseteq Lists
    /\ \A r \in Requests : pc[r] = "idle"

Init ==
    /\ row \in {f \in [Questions -> Row \cup {Absent}] : 
                 \E q \in Questions : f[q] # Absent}
    /\ edits = 0
    /\ cached = Absent /\ fills = {}
    /\ running = FALSE
    /\ answered = [q \in Questions |-> Absent] /\ score = Absent
    /\ page = Absent
    /\ pc = [r \in Requests |-> "idle"]
    /\ post = [r \in Requests |-> Absent]
    /\ asked = NoAsk /\ result = Absent
    /\ calm = FALSE /\ late = {}

-----------------------------------------------------------------------------
(* The list of questions                                                   *)

\* getQuizWithQuestions: the cached list, or one from the database that a
\* goroutine stores later.
Read(list) ==
    IF cached # Absent
    THEN list = cached /\ UNCHANGED fills
    ELSE /\ list \in Lists
         /\ fills' = fills \cup {list}
         /\ Cardinality(fills') <= MaxFills

Fill(list) ==
    /\ cached' = list
    /\ fills' = fills \ {list}
    /\ UNCHANGED <<questionVars, runVars, histVars>>

\* The goroutine fails, or the server stops before it ran.
LoseFill(list) ==
    /\ fills' = fills \ {list}
    /\ UNCHANGED <<questionVars, cached, runVars, histVars>>

Lapse ==
    /\ cached # Absent
    /\ cached' = Absent
    /\ UNCHANGED <<questionVars, fills, runVars, histVars>>

-----------------------------------------------------------------------------
(* The administrator                                                       *)

Write(q, value) ==
    /\ edits < MaxEdits
    /\ edits' = edits + 1
    /\ row' = [row EXCEPT ![q] = value]
    /\ calm' = FALSE /\ late' = {}
    /\ UNCHANGED <<cacheVars, runVars>>

AddQuestion(q) ==
    /\ q \notin Exists
    /\ \E value \in Row : Write(q, value)

\* The form for editing has no order_index, so the handler reads 0.
UpdateQuestion(q) ==
    /\ q \in Exists
    /\ \E right \in Answers : Write(q, [order |-> 0, right |-> right])

\* user_answers refers to the row without ON DELETE: an answered question stays.
DeleteQuestion(q) ==
    /\ q \in Exists
    /\ answered[q] = Absent
    /\ Write(q, Absent)

\* ImportQuestions, for each question of the file in turn, with the edits of others
\* in between: order_index is the one of the file or else the question's place in
\* it.  The largest order_index there is would be added, but it comes back as an
\* int32, which the assertion to int64 refuses.
ImportQuestion(q) == AddQuestion(q)

-----------------------------------------------------------------------------
(* The student                                                             *)

\* CreateSession: a new attempt, and the browser leaves the old page.  A post that
\* is past the session belongs to the former attempt.
CreateSession ==
    /\ ~running
    /\ At("idle")
    /\ \E list \in Lists \cup {cached} : Read(list)
    /\ running' = TRUE
    /\ answered' = [q \in Questions |-> Absent]
    /\ score' = Absent
    /\ page' = Absent
    /\ pc' = [r \in Requests |-> IF pc[r] = "upsert" THEN "idle" ELSE pc[r]]
    /\ post' = [r \in Requests |-> IF pc[r] = "upsert" THEN Absent ELSE post[r]]
    /\ result' = Absent
    /\ calm' = Settled /\ late' = {}
    /\ UNCHANGED <<questionVars, cached, asked>>

Ids(list) == [i \in DOMAIN list |-> list[i].id]

CardAtOneBased(idx, ids) == [idx |-> idx + 1, id |-> ids[idx + 1]]

CardAt(idx, ids) == [idx |-> idx, id |-> ids[idx + 1]]

\* GetQuizQuestionData: a position past the end shows the first question.
QuizQuestion(idx) ==
    /\ running
    /\ At("idle")
    /\ \E list \in Lists \cup {cached} :
        /\ Read(list)
        /\ list # << >>
        /\ page' = CardAt(IF idx < Len(list) THEN idx ELSE 0, Ids(list))
    /\ UNCHANGED <<questionVars, cached, attemptVars, postVars, askVars, histVars>>

\* The card is posted: the position, where to go (the next question, or that of a
\* button; with wrapping, one step suffices for two questions), and the answer.
Send(r, step, given) ==
    /\ page # Absent /\ At("idle")
    /\ pc[r] = "idle"
    /\ pc' = [pc EXCEPT ![r] = "navigate"]
    /\ post' = [post EXCEPT ![r] = [idx |-> page.idx, target |-> page.idx + step,
                                    given |-> given, under |-> page.id]]
    /\ UNCHANGED <<questionVars, cacheVars, attemptVars, page, askVars, histVars>>

Done(r) == pc' = [pc EXCEPT ![r] = "idle"] /\ post' = [post EXCEPT ![r] = Absent]

Wrapped(target, n) == IF target < 0 THEN n - 1 ELSE IF target >= n THEN 0 ELSE target

\* NavigateQuestion up to SaveAnswer, and the card it will answer with; without a
\* session or questions it fails.
NavigateQuestion(r) ==
    /\ pc[r] = "navigate"
    /\ running
    /\ \E list \in Lists \cup {cached} :
        /\ Read(list)
        /\ IF list = << >> THEN Done(r)
           ELSE LET p == post[r] IN
                /\ pc' = [pc EXCEPT ![r] = "save"]
                /\ post' = [post EXCEPT ![r] =
                       [idx |-> p.idx, given |-> p.given, under |-> p.under,
                        next |-> CardAt(Wrapped(p.target, Len(list)), Ids(list))]]
    /\ UNCHANGED <<questionVars, cached, attemptVars, page, askVars, histVars>>

\* SaveAnswer up to its upsert: the answer is judged by the question at the posted
\* position of the list as it is now, in the attempt of the session as it is now.
SaveAnswer(r) ==
    /\ pc[r] = "save"
    /\ running
    /\ \E list \in Lists \cup {cached} :
        /\ Read(list)
        /\ IF post[r].idx < Len(list)
           THEN LET p == post[r]  entry == list[p.idx + 1] IN
                /\ pc' = [pc EXCEPT ![r] = "upsert"]
                /\ post' = [post EXCEPT ![r] =
                       [id |-> entry.id, given |-> p.given, correct |-> p.given = entry.right,
                        under |-> p.under, next |-> p.next]]
           ELSE Done(r)
    /\ UNCHANGED <<questionVars, cached, attemptVars, page, askVars, histVars>>

\* A call fails, or there is no session.
Fail(r) ==
    /\ pc[r] # "idle"
    /\ Done(r)
    /\ UNCHANGED <<questionVars, cacheVars, attemptVars, page, askVars, histVars>>

UpsertKeepsVerdict(old, new) == IF old = Absent THEN new ELSE [new EXCEPT !.correct = old.correct]

\* A second answer replaces the first and its verdict.
Upsert(old, new) == new

\* The answers of the attempt have been counted.
Counted == score # Absent \/ At("update")

\* UpsertUserAnswer: the row of a question there still is, session or not; the next
\* card goes to the page, if that is still there.
UpsertUserAnswer(r) ==
    /\ pc[r] = "upsert"
    /\ LET p == post[r] IN
       IF p.id \in Exists
       THEN /\ answered' = [answered EXCEPT ![p.id] =
                   Upsert(@, [given |-> p.given, correct |-> p.correct])]
            /\ page' = IF page = Absent THEN Absent ELSE p.next
            /\ late' = IF calm /\ Counted THEN late \cup {p.id} ELSE late
       ELSE UNCHANGED <<answered, page, late>>
    /\ Done(r)
    /\ UNCHANGED <<questionVars, cacheVars, running, score, askVars, calm>>

-----------------------------------------------------------------------------
(* The result                                                              *)

Right == {q \in Questions : answered[q] # Absent /\ answered[q].correct}

\* The answers judged again, by the questions listed.
RightBy(listed) ==
    {e.id : e \in {e \in listed : answered[e.id] # Absent /\ answered[e.id].given = e.right}}

Goto(stage) == asked' = [asked EXCEPT !.at = stage]

\* GetQuizResultData up to CompleteSession: the list its details will be judged by.
GetQuizResultData ==
    /\ running
    /\ page # Absent
    /\ At("idle")
    /\ \E list \in Lists \cup {cached} :
        /\ Read(list)
        /\ asked' = [at |-> "complete", listed |-> Range(list), score |-> {}]
    /\ UNCHANGED <<questionVars, cached, attemptVars, page, postVars, result, histVars>>

\* CompleteSession, CompleteSessionByAttemptID: the right answers to the questions of
\* the list as it is now are counted.
CompleteSession ==
    /\ At("complete")
    /\ running
    /\ \E list \in Lists \cup {cached} :
        /\ Read(list)
        /\ asked' = [asked EXCEPT !.at = "update",
                                  !.score = Right \cap {e.id : e \in Range(list)}]
    /\ late' = {}
    /\ UNCHANGED <<questionVars, cached, attemptVars, page, postVars, result, calm>>

UpdateAttempt ==
    /\ At("update")
    /\ score' = asked.score
    /\ Goto("delete")
    /\ UNCHANGED <<questionVars, cacheVars, running, answered, page, postVars, result, histVars>>

DeleteSession ==
    /\ At("delete")
    /\ running' = FALSE
    /\ Goto("reread")
    /\ UNCHANGED <<questionVars, cacheVars, answered, score, page, postVars, result, histVars>>

\* GetAnswersByAttempt and the page: the rows that are right, and the details.
GetAnswersByAttempt ==
    /\ At("reread")
    /\ result' = [score |-> score, right |-> Right, details |-> RightBy(asked.listed)]
    /\ asked' = NoAsk
    /\ page' = Absent
    /\ UNCHANGED <<questionVars, cacheVars, attemptVars, postVars, histVars>>

\* A call fails, or the student goes back to the card.  That the deletion of the
\* session fails, after which the completed attempt takes answers, is QuizSession's.
FailResult ==
    /\ ~At("idle") /\ ~At("delete")
    /\ asked' = NoAsk
    /\ UNCHANGED <<questionVars, cacheVars, attemptVars, page, postVars, result, histVars>>

-----------------------------------------------------------------------------

Next ==
    \/ \E list \in fills : Fill(list) \/ LoseFill(list)
    \/ Lapse
    \/ \E q \in Questions : AddQuestion(q) \/ UpdateQuestion(q) \/ DeleteQuestion(q) \/ ImportQuestion(q)
    \/ CreateSession
    \/ GetQuizResultData \/ CompleteSession \/ UpdateAttempt \/ DeleteSession
    \/ GetAnswersByAttempt \/ FailResult
    \/ \E idx \in 0 .. Cardinality(Questions) : QuizQuestion(idx)
    \/ \E r \in Requests, step \in {-1, 1}, given \in Answers : Send(r, step, given)
    \/ \E r \in Requests :
          NavigateQuestion(r) \/ SaveAnswer(r) \/ UpsertUserAnswer(r) \/ Fail(r)

Spec == Init /\ [][Next]_vars

-----------------------------------------------------------------------------
(* Properties                                                              *)

\* In a run during which, and before which until all lists of it had lapsed, no
\* question was written, an answer is recorded under the question it was typed under
\* or under one of the same order_index, whatever lapses, is stored late or
\* overtakes what.  An edit moves answers to other questions, and so does a lapse
\* where two questions have the same order_index; nothing else does.
RecordedUnderShown ==
    [][\A r \in Requests : UpsertUserAnswer(r) /\ calm =>
          \A q \in Questions : answered'[q] # answered[q] =>
              row[q].order = row[post[r].under].order]_vars

\* After such a run what the result page counts as right answers is what it shows as
\* right below, and what the score counts, except for the questions whose answer a
\* post stored after the score was counted.
ResultAgrees ==
    calm /\ result # Absent =>
        /\ result.right = result.details
        /\ result.score \ late = result.right \ late

\* In such a run no card is a dead end: the position a card posts is that of a
\* question that can take an answer.
NoDeadEnd ==
    calm /\ page # Absent =>
        \A list \in Lists \cup {IF cached = Absent THEN << >> ELSE cached} :
            list # << >> => page.idx < Len(list) /\ list[page.idx + 1].id \in Exists

=============================================================================
