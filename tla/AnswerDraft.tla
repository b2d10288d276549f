---------------------------- MODULE AnswerDraft ----------------------------
(***************************************************************************)
(* The answers of one attempt on their way between the question page and   *)
(* the three places that keep them: the session's Answers and the answers  *)
(* key in Redis, and the user_answers rows in PostgreSQL.                  *)
(*                                                                         *)
(* NavigateQuestion writes all three, one after the other, and answers     *)
(* with a page made from the session's Answers.  A page that is loaded is  *)
(* made from the answers key alone, which lives for a minute, and as a     *)
(* full page it carries no options to choose from.  Whatever the page      *)
(* shows is posted with the next navigation and replaces the stored row.   *)
(*                                                                         *)
(* An answer is the sequence of its gaps; an open or a chosen answer has   *)
(* one gap.  The session and its time limit are QuizSession's subject.     *)
(***************************************************************************)
EXTENDS Integers, Sequences, SequencesExt

CONSTANTS
    Kind,       \* Kind[q]: "choice", "open" or "fill", for questions 0 .. n-1
    Texts,      \* what a student types into a gap
    Requests,   \* slots for requests in flight
    Blank,      \* an empty gap
    Absent

KindAssumption ==
    /\ IsFiniteSet(DOMAIN Kind) /\ DOMAIN Kind # {}
    /\ Kind \in [0 .. Cardinality(DOMAIN Kind) - 1 -> {"choice", "open", "fill"}]

Questions == DOMAIN Kind
MaxGaps == 2    \* bound: gaps of a fill question

VARIABLES
    draft,      \* the session's Answers
    key,        \* the answers key, or Absent
    row,        \* row[q]: the user_answers row, or Absent
    page,       \* the question card shown, or Absent after the quiz is finished
    pc, post,   \* post[r]: what request r carries
    got,        \* got[r]: the answers r has read and amended
    meant,      \* history: meant[q]: the gaps as the student last changed them
    unkeyed,    \* history: questions whose answer a failed SetKey left out of key
    excused     \* history: one of the causes listed below has come up

stores == <<draft, key, row>>
vars == <<stores, page, pc, post, got, meant, unkeyed, excused>>

GapsOf(q) == IF Kind[q] = "fill" THEN MaxGaps ELSE 1
Fields == UNION {[1 .. n -> Texts \cup {Blank}] : n \in 1 .. MaxGaps}
Answers == BoundedSeq(Texts, MaxGaps)
AnswerMap == [Questions -> Answers]

\* A missing row is told apart from an answer.
AbsentAssumption == Absent \notin Answers

Page == [idx : Questions, field : Fields, options : BOOLEAN, touched : BOOLEAN]
PostOf == [kind : {"navigate", "finish"}, idx : Questions,
           target : Questions, field : Fields, touched : BOOLEAN]

\* Types; in particular a card is of a question there is, wherever the student
\* navigates from the first or the last one.
TypeOK ==
    /\ draft \in AnswerMap
    /\ key \in AnswerMap \cup {Absent}
    /\ row \in [Questions -> Answers \cup {Absent}]
    /\ page \in Page \cup {Absent}
    /\ pc \in [Requests -> {"idle", "save", "upsert", "key", "render"}]
    /\ post \in [Requests -> PostOf \cup {Absent}]
    /\ got \in [Requests -> AnswerMap]
    /\ meant \in [Questions -> Fields]
    /\ unkeyed \subseteq Questions
    /\ excused \in BOOLEAN

NoAnswers == [q \in Questions |-> <<>>]

\* renderFillQuestionHTML and the inputs of the card: the gaps an answer fills.
Shown(q, answer) ==
    [g \in 1 .. GapsOf(q) |-> IF g <= Len(answer) THEN answer[g] ELSE Blank]

\* ParseGapAnswers: the gaps before the first empty one; the rest is dropped.
Parsed(field) ==
    LET filled == {n \in 0 .. Len(field) : \A g \in 1 .. n : field[g] # Blank}
        n == CHOOSE n \in filled : \A m \in filled : m <= n
    IN SubSeq(field, 1, n)

\* Options are drawn for the card alone, not for the full page around it.
CardWith(q, answer, options) ==
    [idx |-> q, options |-> options, touched |-> FALSE,
     field |-> Shown(q, IF Kind[q] = "choice" /\ ~options THEN <<>> ELSE answer)]

Stored(q) == Shown(q, IF row[q] = Absent THEN <<>> ELSE row[q])

\* There is a stored answer for a page to leave out.
Answered(q) == row[q] \notin {Absent, <<>>}

\* CreateSession wrote the keys, or failed to and left them as they were, with
\* the answers of the attempt before; the browser opened q/0.
Init ==
    /\ draft = NoAnswers
    /\ key \in {NoAnswers, Absent} \cup {[q \in Questions |-> <<x>>] : x \in Texts}
    /\ row = [q \in Questions |-> Absent]
    /\ page = CardWith(0, IF key = Absent THEN <<>> ELSE key[0], FALSE)
    /\ pc = [r \in Requests |-> "idle"]
    /\ post = [r \in Requests |-> Absent]
    /\ got = [r \in Requests |-> NoAnswers]
    /\ meant = [q \in Questions |-> Shown(q, <<>>)]
    /\ unkeyed = {}
    /\ excused = (key \notin {NoAnswers, Absent})

InFlight == {r \in Requests : pc[r] # "idle"}

GoTo(r, label) == pc' = [pc EXCEPT ![r] = label]

End(r) ==
    /\ GoTo(r, "idle")
    /\ post' = [post EXCEPT ![r] = Absent]
    /\ got' = [got EXCEPT ![r] = NoAnswers]

-----------------------------------------------------------------------------
(* The page                                                                *)

\* The student types into a gap or chooses an option that is there.
Type(g, x) ==
    /\ page # Absent /\ g \in DOMAIN page.field
    /\ Kind[page.idx] = "choice" => page.options /\ x # Blank
    /\ page' = [page EXCEPT !.field[g] = x, !.touched = TRUE]
    /\ UNCHANGED <<stores, pc, post, got, meant, unkeyed, excused>>

\* targetIndex: before the first question is the last, after the last the first.
Wrapped(target) ==
    IF target < 0 THEN Cardinality(Questions) - 1
    ELSE IF target >= Cardinality(Questions) THEN 0 ELSE target

OnlyAnswer(map, q, answer) == [NoAnswers EXCEPT ![q] = answer]
WithAnswer(map, q, answer) == [map EXCEPT ![q] = answer]

Send(r, kind, target, label) ==
    /\ page # Absent /\ pc[r] = "idle"
    /\ post' = [post EXCEPT ![r] =
            [kind |-> kind, idx |-> page.idx, target |-> Wrapped(target),
             field |-> page.field, touched |-> page.touched]]
    /\ GoTo(r, label)
    /\ excused' = (excused \/ (\E s \in InFlight : post[s] # post'[r])
                   \/ Shown(page.idx, Parsed(page.field)) # page.field)
    /\ UNCHANGED <<stores, page, meant, unkeyed>>

\* A button of the card: NavigateQuestion has read the session.
Navigate(r, target) ==
    /\ Send(r, "navigate", target, "save")
    /\ got' = [got EXCEPT ![r] = WithAnswer(draft, page.idx, Parsed(page.field))]

\* The button of the last question: QuizFinish saves the answer only.
Finish(r) ==
    /\ page # Absent /\ page.idx = Cardinality(Questions) - 1
    /\ Send(r, "finish", page.idx, "upsert")
    /\ UNCHANGED got

\* QuizQuestion and GetQuizQuestionData: the page is loaded, in full or, by an
\* htmx request, the card alone.  It leaves a stored answer out when the key has
\* lapsed, when the key could not be set, and on the full page of a choice.
Load(q, htmx) ==
    /\ page # Absent
    /\ page' = CardWith(q, IF key = Absent THEN <<>> ELSE key[q], htmx)
    /\ excused' = (excused \/ InFlight # {} \/ q \in unkeyed
                   \/ (Answered(q) /\ (key = Absent \/ (Kind[q] = "choice" /\ ~htmx))))
    /\ UNCHANGED <<stores, pc, post, got, meant, unkeyed>>

-----------------------------------------------------------------------------
(* NavigateQuestion                                                        *)

SaveDraft(r) ==
    /\ pc[r] = "save"
    /\ draft' = got[r]
    /\ GoTo(r, "upsert")
    /\ UNCHANGED <<key, row, page, post, got, meant, unkeyed, excused>>

Written(r, q) ==
    /\ row' = [row EXCEPT ![q] = Parsed(post[r].field)]
    /\ meant' = IF post[r].touched THEN [meant EXCEPT ![post[r].idx] = post[r].field]
                ELSE meant

\* SaveAnswer: the row of the question the card showed.
Upsert(r) ==
    /\ pc[r] = "upsert"
    /\ Written(r, post[r].idx)
    /\ GoTo(r, IF post[r].kind = "finish" THEN "render" ELSE "key")
    /\ UNCHANGED <<draft, key, page, post, got, unkeyed, excused>>

SetKeyToOneAnswer(r) ==
    /\ pc[r] = "key"
    /\ key' = OnlyAnswer(key, post[r].idx, Parsed(post[r].field)) /\ unkeyed' = {}
    /\ GoTo(r, "render")
    /\ UNCHANGED <<draft, row, page, post, got, meant, excused>>

\* The answers key is set for a minute; a failure is only logged.
SetKey(r) ==
    /\ pc[r] = "key"
    /\ \/ key' = got[r] /\ unkeyed' = {}
       \/ UNCHANGED key /\ unkeyed' = unkeyed \cup {post[r].idx}
    /\ GoTo(r, "render")
    /\ UNCHANGED <<draft, row, page, post, got, meant, excused>>

\* The answer is the card of the target, or the result page.
Render(r) ==
    /\ pc[r] = "render"
    /\ page' = IF post[r].kind = "finish" \/ page = Absent THEN Absent
               ELSE CardWith(post[r].target, got[r][post[r].target], TRUE)
    /\ End(r)
    /\ UNCHANGED <<stores, meant, unkeyed, excused>>

\* A call fails, the request ends: the card stays.  When the session had been
\* saved, it holds an answer without a row.
Fail(r) ==
    /\ pc[r] \in {"save", "upsert"}
    /\ End(r)
    /\ excused' = (excused \/ (pc[r] = "upsert" /\ post[r].kind = "navigate"))
    /\ UNCHANGED <<stores, page, meant, unkeyed>>

\* The answer does not reach the browser: the card stays.  The row a lost
\* QuizFinish has written is not in the session.
LoseResponse(r) ==
    /\ pc[r] = "render"
    /\ End(r)
    /\ excused' = (excused \/ post[r].kind = "finish")
    /\ UNCHANGED <<stores, page, meant, unkeyed>>

\* The minute is over, or Redis has lost the key.
ExpireKey ==
    /\ key # Absent
    /\ key' = Absent
    /\ UNCHANGED <<draft, row, page, pc, post, got, meant, unkeyed, excused>>

Step(r) ==
    \/ \E t \in -1 .. Cardinality(Questions) : Navigate(r, t)
    \/ Finish(r) \/ SaveDraft(r) \/ Upsert(r) \/ SetKey(r) \/ Render(r)
    \/ Fail(r) \/ LoseResponse(r)

\* Bound: nothing is claimed of an excused behaviour, so it is not followed.
Next ==
    /\ ~excused
    /\ \/ \E r \in Requests : Step(r)
       \/ \E g \in 1 .. MaxGaps, x \in Texts \cup {Blank} : Type(g, x)
       \/ \E q \in Questions, htmx \in BOOLEAN : Load(q, htmx)
       \/ ExpireKey

Spec == Init /\ [][Next]_vars

-----------------------------------------------------------------------------
(* Properties.  Excused is a behaviour in which                            *)
(*   - the keys in Redis are of the attempt before,                        *)
(*   - a page was loaded while a request was in flight, or of a question   *)
(*     with a stored answer that its page cannot show: the answers key has *)
(*     lapsed or was not set, or a choice question was loaded in full,     *)
(*   - different requests overlapped,                                      *)
(*   - a gap was left empty before a filled one,                           *)
(*   - a row could not be written after the session was saved, or          *)
(*   - the response of a finished quiz was lost.                           *)

\* A stored answer is replaced by what the student typed and by nothing else:
\* going back and forth over a question, expired keys, lost responses and
\* refused requests leave the row as it was last changed by hand.
TypedAnswersKept == ~excused => \A q \in Questions : Stored(q) = meant[q]

\* At rest a card the student has not touched shows what is stored, and the
\* session holds what the rows hold, so that the next navigation shows it too.
PageShowsStored ==
    (~excused /\ InFlight = {} /\ page # Absent /\ ~page.touched)
        => /\ page.field = Stored(page.idx)
           /\ \A q \in Questions : Shown(q, draft[q]) = Stored(q)

=============================================================================
