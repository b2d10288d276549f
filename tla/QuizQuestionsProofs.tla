------------------------ MODULE QuizQuestionsProofs -------------------------
(***************************************************************************)
(* For any number of questions, edits and posts: in a run whose questions  *)
(* are left alone, an answer goes to the question it was typed under or to *)
(* one of the same order_index, the result agrees with itself but for the  *)
(* answers that were stored after the count, and every card can be         *)
(* answered.                                                               *)
(***************************************************************************)
EXTENDS QuizQuestions, FiniteSetTheorems, TLAPS

\* A list of questions that was read at some time: each of them at most once.
List == {list \in Seq(Entry) : IsInjective(Ids(list))}

Lookups == (cached # Absent => cached \in List) /\ fills \subseteq List

\* What a post in flight carries.
Carries ==
    \A r \in Requests :
        /\ pc[r] = "navigate" => post[r] \in Sent
        /\ pc[r] = "save" => post[r] \in Navigated
        /\ pc[r] = "upsert" => post[r] \in Judged

\* How far the request for the result has come.
Stages ==
    /\ At("complete") \/ At("update") => running
    /\ At("delete") \/ At("reread") => score # Absent
    /\ At("reread") => ~running
    /\ score # Absent => At("delete") \/ ~running
    /\ result # Absent => ~running /\ At("idle")

Typed == TypeOK /\ Lookups /\ Carries /\ Stages

\* In a run that is left alone all lists are lists of the rows as they are, ...
Agree == (cached # Absent => cached \in Lists) /\ fills \subseteq Lists

\* ... at the card's position each has a question of the same order_index, ...
Fits(idx, q) ==
    \A list \in Lists : idx + 1 \in DOMAIN list /\ row[list[idx + 1].id].order = row[q].order

CardFits == page # Absent => Fits(page.idx, page.id)

\* ... and so it is for a post, where it goes to and what it is judged by; ...
PostFits(r) ==
    /\ pc[r] \in {"navigate", "save"} => Fits(post[r].idx, post[r].under)
    /\ pc[r] \in {"save", "upsert"} => Fits(post[r].next.idx, post[r].next.id)
    /\ pc[r] = "upsert" =>
        /\ post[r].id \in Exists
        /\ row[post[r].id].order = row[post[r].under].order
        /\ post[r].correct <=> post[r].given = row[post[r].id].right

PostsFit == \A r \in Requests : PostFits(r)

\* ... an answer was judged as it would be now, ...
VerdictsHold ==
    \A q \in Questions : answered[q] # Absent =>
        q \in Exists /\ (answered[q].correct <=> answered[q].given = row[q].right)

\* ... the result will be judged so too, ...
Current == {[id |-> q, right |-> row[q].right] : q \in Exists}

AskFits == ~At("idle") => asked.listed = Current

\* ... and what was counted is right but for the late answers.
CountFits ==
    /\ At("update") => asked.score \ late = Right \ late
    /\ score # Absent => score \ late = Right \ late
    /\ result # Absent =>
        result.right = result.details /\ result.score \ late = result.right \ late

Undisturbed ==
    calm => Agree /\ CardFits /\ PostsFit /\ VerdictsHold /\ AskFits /\ CountFits

IInv == Typed /\ Undisturbed

-----------------------------------------------------------------------------
(* Lists of questions                                                      *)

\* A sequence of all elements of a set has each of them once.
LEMMA SeqOfAll ==
    ASSUME NEW S, IsFiniteSet(S), NEW s \in SetToSeqs(S)
    PROVE  /\ Cardinality(S) \in Nat
           /\ s \in [1 .. Cardinality(S) -> S]
           /\ \A i, j \in 1 .. Cardinality(S) : s[i] = s[j] => i = j
           /\ \A x \in S : \E i \in 1 .. Cardinality(S) : s[i] = x
<1> DEFINE D == 1 .. Cardinality(S)
<1>1. Cardinality(S) \in Nat
    BY FS_CardinalityType
<1>2. s \in [D -> S] /\ \A i, j \in D : s[i] = s[j] => i = j
    BY DEF SetToSeqs
<1>3. s \in Injection(D, S)
    BY <1>2 DEF Injection, IsInjective
<1>4. Cardinality(D) = Cardinality(S)
    BY <1>1, FS_Interval
<1>5. s \in Surjection(D, S)
    BY <1>3, <1>4, FS_Injection
<1> QED BY <1>1, <1>2, <1>5 DEF Surjection

\* Two sequences of the same elements, both in the order of a number, have the same
\* number at a position: were it smaller in s than in t, the elements of s up to it
\* would all be before it in t.
LEMMA NoSmaller ==
    ASSUME NEW S, IsFiniteSet(S), NEW s \in SetToSeqs(S), NEW t \in SetToSeqs(S),
           NEW ord \in [S -> Nat],
           \A i, j \in DOMAIN s : i < j => ord[s[i]] <= ord[s[j]],
           \A i, j \in DOMAIN t : i < j => ord[t[i]] <= ord[t[j]],
           NEW i \in DOMAIN s
    PROVE  DOMAIN t = DOMAIN s /\ ord[t[i]] <= ord[s[i]]
<1> DEFINE n == Cardinality(S)
           at(x) == CHOOSE k \in 1 .. n : t[k] = x
           f == [j \in 1 .. i |-> at(s[j])]
<1>1. /\ n \in Nat /\ s \in [1 .. n -> S] /\ t \in [1 .. n -> S]
      /\ \A j, k \in 1 .. n : s[j] = s[k] => j = k
      /\ \A x \in S : \E k \in 1 .. n : t[k] = x
    BY SeqOfAll
<1>2. DOMAIN s = 1 .. n /\ DOMAIN t = 1 .. n /\ i \in 1 .. n
    BY <1>1
<1> HIDE DEF n
<1>3. SUFFICES ASSUME ~(ord[t[i]] <= ord[s[i]]) PROVE FALSE
    BY <1>2
<1>4. ord[s[i]] < ord[t[i]]
    BY <1>1, <1>2, <1>3
<1>5. \A x \in S : at(x) \in 1 .. n /\ t[at(x)] = x
    BY <1>1
<1> HIDE DEF at
<1>6. ASSUME NEW j \in 1 .. i PROVE at(s[j]) \in 1 .. (i - 1)
    <2> DEFINE k == at(s[j])
    <2>0. n \in Nat /\ i \in 1 .. n
        BY <1>1, <1>2
    <2>1. j \in 1 .. n /\ j <= i
        BY <2>0
    <2>2. s[j] \in S /\ s[i] \in S /\ t[i] \in S
        BY <1>1, <2>0, <2>1
    <2>3. k \in 1 .. n /\ t[k] = s[j]
        BY <1>5, <2>2
    <2> HIDE DEF k
    <2>4. ord[s[j]] <= ord[s[i]]
        <3>1. CASE j = i
            BY <2>2, <3>1
        <3>2. CASE j < i
            BY <1>2, <2>0, <2>1, <3>2
        <3> QED BY <2>0, <2>1, <3>1, <3>2
    <2>5. ASSUME i <= k PROVE FALSE
        <3>1. ord[t[i]] <= ord[t[k]]
            <4>1. CASE k = i
                BY <2>2, <4>1
            <4>2. CASE i < k
                BY <1>2, <2>0, <2>3, <4>2
            <4> QED BY <2>0, <2>3, <2>5, <4>1, <4>2
        <3>2. ord[s[i]] \in Nat /\ ord[t[i]] \in Nat /\ ord[s[j]] \in Nat
            BY <2>2
        <3> QED BY <1>4, <2>3, <2>4, <3>1, <3>2
    <2>6. k \in 1 .. (i - 1)
        BY <2>0, <2>3, <2>5
    <2> QED BY <2>6 DEF k
<1>7. f \in [1 .. i -> 1 .. (i - 1)]
    BY <1>6
<1>8. \A j, k \in 1 .. i : f[j] = f[k] => j = k
    <2> SUFFICES ASSUME NEW j \in 1 .. i, NEW k \in 1 .. i, f[j] = f[k] PROVE j = k
        OBVIOUS
    <2>1. j \in 1 .. n /\ k \in 1 .. n /\ s[j] \in S /\ s[k] \in S
        BY <1>1, <1>2
    <2>2. s[j] = s[k]
        BY <1>5, <2>1
    <2> QED BY <1>1, <2>1, <2>2
<1>9. /\ IsFiniteSet(1 .. i) /\ Cardinality(1 .. i) = i
      /\ IsFiniteSet(1 .. (i - 1)) /\ Cardinality(1 .. (i - 1)) = i - 1
    BY <1>1, <1>2, FS_Interval
<1>10. Cardinality(1 .. (i - 1)) < Cardinality(1 .. i)
    BY <1>1, <1>2, <1>9
<1> HIDE DEF f
<1>11. \E j, k \in 1 .. i : j # k /\ f[j] = f[k]
    BY <1>7, <1>9, <1>10, FS_PigeonHole
<1> QED BY <1>8, <1>11

\* A list names at most all questions.
LEMMA SeqBound ==
    ASSUME NEW ids \in Seq(Questions), IsInjective(ids)
    PROVE  /\ Cardinality(Questions) \in Nat /\ Len(ids) \in Nat
           /\ Len(ids) <= Cardinality(Questions)
<1> DEFINE n == Len(ids)
<1>1. Cardinality(Questions) \in Nat
    BY BoundsAssumption, FS_CardinalityType
<1>2. n \in Nat /\ ids \in Injection(1 .. n, Questions)
    BY DEF Injection
<1> HIDE DEF n
<1>3. Cardinality(1 .. n) = n
    BY <1>2, FS_Interval
<1>4. n <= Cardinality(Questions)
    BY <1>2, <1>3, BoundsAssumption, FS_Injection
<1> QED BY <1>1, <1>2, <1>4 DEF n

\* The ids of a list, in its order.
LEMMA IdsOfList ==
    ASSUME NEW list \in List
    PROVE  /\ Ids(list) \in Seq(Questions) /\ IsInjective(Ids(list))
           /\ Len(Ids(list)) = Len(list) /\ Len(list) \in Nat
           /\ DOMAIN Ids(list) = 1 .. Len(list) /\ DOMAIN list = 1 .. Len(list)
           /\ \A i \in 1 .. Len(list) : Ids(list)[i] = list[i].id /\ list[i] \in Entry
           /\ list = << >> <=> Ids(list) = << >>
<1>1. list \in Seq(Entry) /\ IsInjective(Ids(list))
    BY DEF List
<1>2. /\ Len(list) \in Nat /\ DOMAIN list = 1 .. Len(list)
      /\ \A i \in 1 .. Len(list) : list[i] \in Entry
    BY <1>1
<1>3. \A i \in 1 .. Len(list) : list[i].id \in Questions
    BY <1>2 DEF Entry
<1>4. Ids(list) \in [1 .. Len(list) -> Questions]
    BY <1>2, <1>3 DEF Ids
<1>5. Ids(list) \in Seq(Questions) /\ Len(Ids(list)) = Len(list)
    BY <1>2, <1>4
<1>6. \A i \in 1 .. Len(list) : Ids(list)[i] = list[i].id
    BY <1>2 DEF Ids
<1>7. list = << >> <=> Ids(list) = << >>
    BY <1>1, <1>5
<1> QED BY <1>1, <1>2, <1>4, <1>5, <1>6, <1>7

\* A list from the database has every question there is, as it is.
LEMMA ListFromDatabase ==
    ASSUME TypeOK, NEW list \in Lists
    PROVE  /\ list \in List
           /\ \A i \in DOMAIN list :
                list[i].id \in Exists /\ list[i].right = row[list[i].id].right
           /\ \A q \in Exists : \E i \in DOMAIN list : list[i].id = q
           /\ Range(list) = Current
<1>1. Exists \subseteq Questions /\ IsFiniteSet(Exists)
    BY BoundsAssumption, FS_Subset DEF Exists
<1>2. PICK s \in SetToSeqs(Exists) : list = Listed(s)
    BY DEF Lists
<1> DEFINE n == Cardinality(Exists)
<1>3. /\ n \in Nat /\ s \in [1 .. n -> Exists]
      /\ \A i, j \in 1 .. n : s[i] = s[j] => i = j
      /\ \A x \in Exists : \E i \in 1 .. n : s[i] = x
    BY <1>1, SeqOfAll
<1>4. /\ DOMAIN list = 1 .. n
      /\ \A i \in 1 .. n : list[i] = [id |-> s[i], right |-> row[s[i]].right]
    BY <1>2, <1>3 DEF Listed
<1>5. \A q \in Exists : q \in Questions /\ row[q] \in Row
    BY DEF Exists, TypeOK
<1>6. \A i \in 1 .. n : list[i] \in Entry
    <2> SUFFICES ASSUME NEW i \in 1 .. n PROVE list[i] \in Entry
        OBVIOUS
    <2>1. s[i] \in Questions /\ row[s[i]].right \in Answers
        BY <1>3, <1>5 DEF Row
    <2> QED BY <1>4, <2>1 DEF Entry
<1>7. list \in Seq(Entry)
    <2>1. list = [i \in 1 .. n |-> list[i]]
        BY <1>2, <1>3 DEF Listed
    <2> QED BY <1>3, <1>6, <2>1
<1>8. IsInjective(Ids(list))
    BY <1>3, <1>4 DEF Ids, IsInjective
<1>9. Range(list) = Current
    BY <1>3, <1>4 DEF Range, Current
<1> QED BY <1>3, <1>4, <1>7, <1>8, <1>9 DEF List

\* All lists from the database have the same order_index at a position.
LEMMA ListsAgree ==
    ASSUME TypeOK, NEW list \in Lists, NEW other \in Lists, NEW i \in DOMAIN list
    PROVE  i \in DOMAIN other /\ row[other[i].id].order = row[list[i].id].order
<1> DEFINE ord == [q \in Exists |-> row[q].order]
<1>1. IsFiniteSet(Exists)
    BY BoundsAssumption, FS_Subset DEF Exists
<1>2. ord \in [Exists -> Nat]
    <2>1. \A q \in Exists : row[q] \in Row
        BY DEF Exists, TypeOK
    <2>2. \A q \in Exists : row[q].order \in Nat
        BY <2>1, BoundsAssumption DEF Row
    <2> QED BY <2>2
<1>4. PICK s \in SetToSeqs(Exists) :
         /\ list = Listed(s)
         /\ \A j, k \in DOMAIN s : j < k => row[s[j]].order <= row[s[k]].order
    BY DEF Lists
<1>5. PICK t \in SetToSeqs(Exists) :
         /\ other = Listed(t)
         /\ \A j, k \in DOMAIN t : j < k => row[t[j]].order <= row[t[k]].order
    BY DEF Lists
<1>6. /\ \A j \in DOMAIN s : s[j] \in Exists
      /\ \A j \in DOMAIN t : t[j] \in Exists
    BY DEF SetToSeqs
<1>7. \A j, k \in DOMAIN s : j < k => ord[s[j]] <= ord[s[k]]
    BY <1>4, <1>6
<1>8. \A j, k \in DOMAIN t : j < k => ord[t[j]] <= ord[t[k]]
    BY <1>5, <1>6
<1>9. DOMAIN list = DOMAIN s /\ DOMAIN other = DOMAIN t
    BY <1>4, <1>5 DEF Listed
<1> HIDE DEF ord
<1>10. DOMAIN t = DOMAIN s /\ ord[t[i]] <= ord[s[i]]
    BY <1>1, <1>2, <1>7, <1>8, <1>9, NoSmaller
<1>11. ord[s[i]] <= ord[t[i]]
    BY <1>1, <1>2, <1>7, <1>8, <1>9, <1>10, NoSmaller
<1>12. ord[s[i]] = ord[t[i]]
    BY <1>2, <1>6, <1>9, <1>10, <1>11
<1>13. row[t[i]].order = row[s[i]].order
    BY <1>6, <1>9, <1>10, <1>12 DEF ord
<1> QED BY <1>4, <1>5, <1>9, <1>10, <1>13 DEF Listed

-----------------------------------------------------------------------------
(* Steps                                                                   *)

\* A handler gets a list that was read at some time; what is left alone is as
\* the database has it now.
LEMMA ReadList ==
    ASSUME Typed, NEW list \in Lists \cup {cached}, Read(list)
    PROVE  /\ list \in List
           /\ fills' \subseteq List
           /\ Agree => list \in Lists /\ fills' \subseteq Lists
<1>1. CASE cached # Absent
    BY <1>1 DEF Typed, Lookups, Read, Agree
<1>2. CASE cached = Absent
    BY <1>2, ListFromDatabase DEF Typed, Lookups, Read, Agree
<1> QED BY <1>1, <1>2

\* While no question is written, the lists stay.
LEMMA RowsKept ==
    ASSUME row' = row
    PROVE  Exists' = Exists /\ Lists' = Lists
BY DEF Exists, Lists, Listed

\* A card is made from an id of a list.
LEMMA CardMade ==
    ASSUME NEW ids \in Seq(Questions), IsInjective(ids), NEW idx \in Nat, idx < Len(ids)
    PROVE  /\ CardAt(idx, ids) \in Card
           /\ CardAt(idx, ids).idx = idx /\ CardAt(idx, ids).id = ids[idx + 1]
           /\ idx + 1 \in DOMAIN ids
<1>1. Len(ids) \in Nat /\ Cardinality(Questions) \in Nat /\ Len(ids) <= Cardinality(Questions)
    BY SeqBound
<1>2. idx + 1 \in 1 .. Len(ids) /\ idx \in 0 .. Cardinality(Questions) - 1
    BY <1>1
<1>3. ids[idx + 1] \in Questions
    BY <1>2
<1> QED BY <1>2, <1>3 DEF CardAt, Card

\* The target wraps around into the list.
LEMMA WrappedInList ==
    ASSUME NEW target \in Int, NEW n \in Nat \ {0}
    PROVE  Wrapped(target, n) \in Nat /\ Wrapped(target, n) < n
BY DEF Wrapped


\* What the cache and the goroutines hold stays a list.
LEMMA LookupsInductive ==
    ASSUME Typed, [Next]_vars
    PROVE  Lookups' /\ (cached \in Seq(Entry) \cup {Absent} /\ fills \subseteq Seq(Entry))'
<1>1. Lookups'
    <2>1. CASE \E list \in fills : Fill(list) \/ LoseFill(list)
        BY <2>1 DEF Fill, LoseFill, Typed, Lookups
    <2>2. CASE Lapse
        BY <2>2 DEF Lapse, Typed, Lookups
    <2>3. CASE \E q \in Questions :
                  AddQuestion(q) \/ UpdateQuestion(q) \/ DeleteQuestion(q) \/ ImportQuestion(q)
        BY <2>3 DEF AddQuestion, UpdateQuestion, DeleteQuestion, ImportQuestion, Write,
                    cacheVars, Typed, Lookups
    <2>4. CASE CreateSession
        BY <2>4, ReadList DEF CreateSession, Typed, Lookups
    <2>5. CASE GetQuizResultData \/ CompleteSession
        BY <2>5, ReadList DEF GetQuizResultData, CompleteSession, Typed, Lookups
    <2>6. CASE UpdateAttempt \/ DeleteSession \/ GetAnswersByAttempt \/ FailResult
        BY <2>6 DEF UpdateAttempt, DeleteSession, GetAnswersByAttempt, FailResult, cacheVars,
                    Typed, Lookups
    <2>7. CASE \E idx \in 0 .. Cardinality(Questions) : QuizQuestion(idx)
        BY <2>7, ReadList DEF QuizQuestion, Typed, Lookups
    <2>8. CASE \E r \in Requests, move \in {-1, 1}, given \in Answers : Send(r, move, given)
        BY <2>8 DEF Send, cacheVars, Typed, Lookups
    <2>9. CASE \E r \in Requests : NavigateQuestion(r) \/ SaveAnswer(r)
        BY <2>9, ReadList DEF NavigateQuestion, SaveAnswer, Typed, Lookups
    <2>10. CASE \E r \in Requests : UpsertUserAnswer(r) \/ Fail(r)
        BY <2>10 DEF UpsertUserAnswer, Fail, cacheVars, Typed, Lookups
    <2>11. CASE UNCHANGED vars
        BY <2>11 DEF vars, cacheVars, Typed, Lookups
    <2> QED BY <2>1, <2>2, <2>3, <2>4, <2>5, <2>6, <2>7, <2>8, <2>9, <2>10, <2>11 DEF Next
<1> QED BY <1>1 DEF Lookups, List

\* The request for the result takes its steps in turn.
LEMMA StagesInductive ==
    ASSUME Typed, [Next]_vars
    PROVE  Stages'
<1>0. Stages /\ TypeOK
    BY DEF Typed
<1>1. CASE GetQuizResultData
    BY <1>0, <1>1 DEF GetQuizResultData, attemptVars, Stages, At
<1>2. CASE CompleteSession
    <2>1. PICK count : asked' = [asked EXCEPT !.at = "update", !.score = count]
        BY <1>2 DEF CompleteSession
    <2>2. asked \in Ask
        BY <1>0, <1>2 DEF CompleteSession, At, TypeOK
    <2>3. asked'.at = "update"
        BY <2>1, <2>2 DEF Ask
    <2> QED BY <1>0, <1>2, <2>3 DEF CompleteSession, attemptVars, Stages, At
<1>3. CASE UpdateAttempt
    <2>1. asked \in Ask
        BY <1>0, <1>3 DEF UpdateAttempt, At, TypeOK
    <2>2. asked' = [asked EXCEPT !.at = "delete"] /\ score' = asked.score
        BY <1>3 DEF UpdateAttempt, Goto
    <2>3. asked'.at = "delete" /\ asked' \in Ask /\ asked.score \in SUBSET Questions
        BY <2>1, <2>2 DEF Ask
    <2>4. score' # Absent
        BY <2>2, <2>3, AbsentAssumption
    <2> QED BY <2>3, <2>4, <1>0, <1>3, <2>1 DEF UpdateAttempt, Stages, At
<1>4. CASE DeleteSession
    <2>1. asked \in Ask /\ asked'.at = "reread"
        BY <1>0, <1>4 DEF DeleteSession, At, Goto, TypeOK, Ask
    <2> QED BY <1>0, <1>4, <2>1 DEF DeleteSession, Stages, At
<1>5. CASE GetAnswersByAttempt \/ FailResult
    BY <1>0, <1>5 DEF GetAnswersByAttempt, FailResult, NoAsk, attemptVars, Stages, At
<1>6. CASE CreateSession
    BY <1>0, <1>6 DEF CreateSession, Stages, At
<1>7. CASE UNCHANGED <<running, score, asked, result>>
    BY <1>0, <1>7 DEF Stages, At
<1> QED
    BY <1>1, <1>2, <1>3, <1>4, <1>5, <1>6, <1>7
       DEF Next, vars, runVars, attemptVars, askVars, Fill, LoseFill, Lapse, AddQuestion,
           UpdateQuestion, DeleteQuestion, ImportQuestion, Write, QuizQuestion, Send,
           NavigateQuestion, SaveAnswer, UpsertUserAnswer, Fail

\* A card made from a list is a card.
LEMMA CardOfList ==
    ASSUME NEW list \in List, NEW idx \in Nat, idx < Len(list)
    PROVE  /\ CardAt(idx, Ids(list)) \in Card
           /\ CardAt(idx, Ids(list)).idx = idx
           /\ CardAt(idx, Ids(list)).id = list[idx + 1].id
           /\ idx + 1 \in DOMAIN list
<1>1. /\ Ids(list) \in Seq(Questions) /\ IsInjective(Ids(list))
      /\ Len(Ids(list)) = Len(list) /\ Len(list) \in Nat
      /\ DOMAIN list = 1 .. Len(list)
      /\ \A i \in 1 .. Len(list) : Ids(list)[i] = list[i].id
    BY IdsOfList
<1>2. idx + 1 \in 1 .. Len(list)
    BY <1>1
<1> QED BY <1>1, <1>2, CardMade

\* A step keeps the types, and what posts carry.
LEMMA TypedInductive ==
    ASSUME Typed, [Next]_vars
    PROVE  Typed'
<1>1. Lookups' /\ (cached \in Seq(Entry) \cup {Absent} /\ fills \subseteq Seq(Entry))'
    BY LookupsInductive
<1>2. TypeOK /\ Lookups /\ Carries /\ Stages
    BY DEF Typed
<1>3. Cardinality(Questions) \in Nat /\ MaxEdits \in Nat
    BY BoundsAssumption, FS_CardinalityType
<1> SUFFICES Carries' /\ (TypeOK)'
    BY <1>1, StagesInductive DEF Typed
<1>4. CASE \E list \in fills : Fill(list) \/ LoseFill(list)
    BY <1>1, <1>2, <1>4 DEF Fill, LoseFill, questionVars, runVars, attemptVars, postVars,
                            askVars, histVars, TypeOK, Carries
<1>5. CASE Lapse
    BY <1>1, <1>2, <1>5 DEF Lapse, questionVars, runVars, attemptVars, postVars, askVars,
                            histVars, TypeOK, Carries
<1>6. CASE \E q \in Questions :
              AddQuestion(q) \/ UpdateQuestion(q) \/ DeleteQuestion(q) \/ ImportQuestion(q)
    <2>1. PICK q \in Questions, value \in Row \cup {Absent} : Write(q, value)
        <3>1. \A right \in Answers : [order |-> 0, right |-> right] \in Row
            BY BoundsAssumption DEF Row
        <3> QED BY <1>6, <3>1 DEF AddQuestion, UpdateQuestion, DeleteQuestion, ImportQuestion
    <2>2. row' \in [Questions -> Row \cup {Absent}]
        BY <1>2, <2>1 DEF Write, TypeOK
    <2>3. edits' \in 0 .. MaxEdits
        BY <1>2, <1>3, <2>1 DEF Write, TypeOK
    <2> QED BY <1>1, <1>2, <2>1, <2>2, <2>3 DEF Write, runVars, attemptVars, postVars, askVars,
                                                TypeOK, Carries
<1>7. CASE CreateSession
    <2>1. calm' \in BOOLEAN
        BY <1>7 DEF CreateSession, Settled
    <2>2. pc' \in [Requests -> {"idle", "navigate", "save", "upsert"}]
        BY <1>2, <1>7 DEF CreateSession, TypeOK
    <2>3. \A r \in Requests : pc'[r] # "idle" => pc'[r] = pc[r] /\ post'[r] = post[r]
        BY <1>7 DEF CreateSession
    <2>4. Carries'
        BY <1>2, <2>3 DEF Carries
    <2>5. (post \in [Requests -> Sent \cup Navigated \cup Judged \cup {Absent}])'
        BY <1>2, <1>7 DEF CreateSession, TypeOK
    <2>6. /\ UNCHANGED <<row, edits, asked>>
          /\ answered' = [q \in Questions |-> Absent] /\ score' = Absent /\ page' = Absent
          /\ running' = TRUE /\ result' = Absent /\ late' = {}
        BY <1>7 DEF CreateSession, questionVars
    <2> QED BY <1>1, <1>2, <2>1, <2>2, <2>4, <2>5, <2>6 DEF TypeOK
<1>8. CASE GetQuizResultData
    <2>1. PICK list \in Lists \cup {cached} :
             /\ Read(list)
             /\ asked' = [at |-> "complete", listed |-> Range(list), score |-> {}]
        BY <1>8 DEF GetQuizResultData
    <2>2. Range(list) \subseteq Entry
        BY <2>1, ReadList, IdsOfList DEF Range
    <2>3. asked' \in Ask
        BY <2>1, <2>2 DEF Ask
    <2> QED BY <1>1, <1>2, <1>8, <2>3
            DEF GetQuizResultData, questionVars, attemptVars, postVars, histVars, TypeOK, Carries
<1>9. CASE CompleteSession
    <2>1. PICK list \in Lists \cup {cached} :
             asked' = [asked EXCEPT !.at = "update",
                                    !.score = Right \cap {e.id : e \in Range(list)}]
        BY <1>9 DEF CompleteSession
    <2>2. Right \cap {e.id : e \in Range(list)} \subseteq Questions
        BY DEF Right
    <2>3. asked' \in Ask
        BY <1>2, <2>1, <2>2 DEF TypeOK, Ask
    <2> QED BY <1>1, <1>2, <1>9, <2>3
            DEF CompleteSession, questionVars, attemptVars, postVars, TypeOK, Carries
<1>10. CASE UpdateAttempt \/ DeleteSession
    <2>1. asked' \in Ask /\ asked.score \subseteq Questions
        BY <1>2, <1>10 DEF UpdateAttempt, DeleteSession, Goto, TypeOK, Ask
    <2> QED BY <1>1, <1>2, <1>10, <2>1
            DEF UpdateAttempt, DeleteSession, questionVars, postVars, histVars, TypeOK, Carries
<1>11. CASE GetAnswersByAttempt
    <2>1. result' = [score |-> score, right |-> Right, details |-> RightBy(asked.listed)]
        BY <1>11 DEF GetAnswersByAttempt
    <2>2. score \in SUBSET Questions /\ Right \in SUBSET Questions
        BY <1>2, <1>11 DEF GetAnswersByAttempt, Stages, TypeOK, Right
    <2>3. RightBy(asked.listed) \in SUBSET Questions
        BY <1>2 DEF RightBy, TypeOK, Ask, Entry
    <2>4. result' \in [score : SUBSET Questions, right : SUBSET Questions,
                       details : SUBSET Questions]
        BY <2>1, <2>2, <2>3
    <2>5. NoAsk \in Ask
        BY DEF NoAsk, Ask
    <2> QED BY <1>1, <1>2, <1>11, <2>4, <2>5
            DEF GetAnswersByAttempt, questionVars, attemptVars, postVars, histVars,
                TypeOK, Carries
<1>12. CASE FailResult
    <2>1. NoAsk \in Ask
        BY DEF NoAsk, Ask
    <2> QED BY <1>1, <1>2, <1>12, <2>1
            DEF FailResult, questionVars, attemptVars, postVars, histVars, TypeOK, Carries
<1>13. CASE \E idx \in 0 .. Cardinality(Questions) : QuizQuestion(idx)
    <2>1. PICK idx \in 0 .. Cardinality(Questions), list \in Lists \cup {cached} :
             /\ Read(list) /\ list # << >>
             /\ page' = CardAt(IF idx < Len(list) THEN idx ELSE 0, Ids(list))
        BY <1>13 DEF QuizQuestion
    <2>2. list \in List
        BY <2>1, ReadList
    <2>3. Len(list) \in Nat /\ Len(list) # 0
        BY <2>1, <2>2, IdsOfList
    <2>4. page' \in Card
        BY <2>1, <2>2, <2>3, CardOfList
    <2> QED BY <1>1, <1>2, <1>13, <2>4
            DEF QuizQuestion, questionVars, attemptVars, postVars, askVars, histVars,
                TypeOK, Carries
<1>14. CASE \E r \in Requests, move \in {-1, 1}, given \in Answers : Send(r, move, given)
    <2>1. PICK r \in Requests, move \in {-1, 1}, given \in Answers : Send(r, move, given)
        BY <1>14
    <2>2. page \in Card /\ page.id \in Questions /\ page.idx \in 0 .. Cardinality(Questions) - 1
        BY <1>2, <2>1 DEF Send, TypeOK, Card
    <2>3. page.idx + move \in -1 .. Cardinality(Questions)
        BY <1>3, <2>2
    <2>4. [idx |-> page.idx, target |-> page.idx + move, given |-> given,
           under |-> page.id] \in Sent
        BY <2>2, <2>3 DEF Sent
    <2>5. /\ pc'[r] = "navigate" /\ post'[r] \in Sent
          /\ \A s \in Requests : s # r => pc'[s] = pc[s] /\ post'[s] = post[s]
        BY <1>2, <2>1, <2>4 DEF Send, TypeOK
    <2>6. Carries'
        BY <1>2, <2>5 DEF Carries
    <2> QED BY <1>1, <1>2, <2>1, <2>4, <2>6
            DEF Send, questionVars, cacheVars, attemptVars, askVars, histVars, TypeOK
<1>15. CASE \E r \in Requests : NavigateQuestion(r)
    <2>1. PICK r \in Requests : NavigateQuestion(r)
        BY <1>15
    <2> DEFINE p == post[r]
    <2>2. PICK list \in Lists \cup {cached} :
             /\ Read(list)
             /\ IF list = << >> THEN Done(r)
                ELSE /\ pc' = [pc EXCEPT ![r] = "save"]
                     /\ post' = [post EXCEPT ![r] =
                            [idx |-> p.idx, given |-> p.given, under |-> p.under,
                             next |-> CardAt(Wrapped(p.target, Len(list)), Ids(list))]]
        BY <2>1 DEF NavigateQuestion
    <2>3. list \in List
        BY <2>2, ReadList
    <2>4. CASE list = << >>
        BY <1>1, <1>2, <2>1, <2>2, <2>4
           DEF NavigateQuestion, Done, questionVars, attemptVars, askVars, histVars,
               TypeOK, Carries
    <2>5. CASE list # << >>
        <3>1. p \in Sent
            BY <1>2, <2>1 DEF NavigateQuestion, Carries
        <3>2. p.target \in Int /\ Len(list) \in Nat \ {0}
            BY <1>3, <2>3, <2>5, <3>1, IdsOfList DEF Sent
        <3>3. CardAt(Wrapped(p.target, Len(list)), Ids(list)) \in Card
            BY <2>3, <3>2, WrappedInList, CardOfList
        <3>4. [idx |-> p.idx, given |-> p.given, under |-> p.under,
               next |-> CardAt(Wrapped(p.target, Len(list)), Ids(list))] \in Navigated
            BY <3>1, <3>3 DEF Sent, Navigated
        <3> HIDE DEF p
        <3>5. /\ pc'[r] = "save" /\ post'[r] \in Navigated
              /\ \A s \in Requests : s # r => pc'[s] = pc[s] /\ post'[s] = post[s]
            BY <1>2, <2>2, <2>5, <3>4 DEF TypeOK
        <3>6. Carries'
            BY <1>2, <3>5 DEF Carries
        <3> QED BY <1>1, <1>2, <2>1, <2>2, <2>5, <3>4, <3>6
                DEF NavigateQuestion, questionVars, attemptVars, askVars, histVars, TypeOK
    <2> QED BY <2>4, <2>5
<1>16. CASE \E r \in Requests : SaveAnswer(r)
    <2>1. PICK r \in Requests : SaveAnswer(r)
        BY <1>16
    <2> DEFINE p == post[r]
    <2>2. PICK list \in Lists \cup {cached} :
             /\ Read(list)
             /\ IF p.idx < Len(list)
                THEN LET entry == list[p.idx + 1] IN
                     /\ pc' = [pc EXCEPT ![r] = "upsert"]
                     /\ post' = [post EXCEPT ![r] =
                            [id |-> entry.id, given |-> p.given,
                             correct |-> p.given = entry.right,
                             under |-> p.under, next |-> p.next]]
                ELSE Done(r)
        BY <2>1 DEF SaveAnswer
    <2>3. list \in List
        BY <2>2, ReadList
    <2>4. CASE ~(p.idx < Len(list))
        BY <1>1, <1>2, <2>1, <2>2, <2>4
           DEF SaveAnswer, Done, questionVars, attemptVars, askVars, histVars, TypeOK, Carries
    <2>5. CASE p.idx < Len(list)
        <3> DEFINE entry == list[p.idx + 1]
                   new == [id |-> entry.id, given |-> p.given,
                           correct |-> p.given = entry.right,
                           under |-> p.under, next |-> p.next]
        <3>1. p \in Navigated
            BY <1>2, <2>1 DEF SaveAnswer, Carries
        <3>2. entry \in Entry
            BY <1>3, <2>3, <2>5, <3>1, IdsOfList DEF Navigated
        <3>3. (p.given = entry.right) \in BOOLEAN
            OBVIOUS
        <3>4. new \in Judged
            BY <3>1, <3>2, <3>3 DEF Navigated, Entry, Judged
        <3>5. pc' = [pc EXCEPT ![r] = "upsert"] /\ post' = [post EXCEPT ![r] = new]
            BY <2>2, <2>5
        <3> HIDE DEF p, new, entry
        <3>6. /\ pc'[r] = "upsert" /\ post'[r] \in Judged
              /\ \A s \in Requests : s # r => pc'[s] = pc[s] /\ post'[s] = post[s]
            BY <1>2, <3>4, <3>5 DEF TypeOK
        <3>7. Carries'
            BY <1>2, <3>6 DEF Carries
        <3> QED BY <1>1, <1>2, <2>1, <3>4, <3>5, <3>7
                DEF SaveAnswer, questionVars, attemptVars, askVars, histVars, TypeOK
    <2> QED BY <2>4, <2>5
<1>17. CASE \E r \in Requests : UpsertUserAnswer(r)
    <2>1. PICK r \in Requests : UpsertUserAnswer(r)
        BY <1>17
    <2> DEFINE p == post[r]
               new == [given |-> p.given, correct |-> p.correct]
    <2>2. /\ UNCHANGED answered \/ answered' = [answered EXCEPT ![p.id] = new]
          /\ page' \in {page, Absent, p.next}
          /\ late' \in {late, late \cup {p.id}}
        BY <2>1 DEF UpsertUserAnswer, Upsert
    <2>3. p \in Judged
        BY <1>2, <2>1 DEF UpsertUserAnswer, Carries
    <2>4. p.next \in Card /\ p.id \in Questions /\ new \in [given : Answers, correct : BOOLEAN]
        BY <2>3 DEF Judged
    <2> HIDE DEF p, new
    <2>5. /\ answered' \in [Questions -> [given : Answers, correct : BOOLEAN] \cup {Absent}]
          /\ page' \in Card \cup {Absent} /\ late' \subseteq Questions
        BY <1>2, <2>2, <2>4 DEF TypeOK
    <2>6. Carries'
        BY <1>2, <2>1 DEF UpsertUserAnswer, Done, TypeOK, Carries
    <2> QED BY <1>1, <1>2, <2>1, <2>5, <2>6
            DEF UpsertUserAnswer, Done, questionVars, cacheVars, askVars, TypeOK
<1>18. CASE \E r \in Requests : Fail(r)
    BY <1>1, <1>2, <1>18 DEF Fail, Done, questionVars, cacheVars, attemptVars, askVars,
                             histVars, TypeOK, Carries
<1>19. CASE UNCHANGED vars
    BY <1>1, <1>2, <1>19 DEF vars, questionVars, cacheVars, runVars, attemptVars, postVars,
                             askVars, histVars, TypeOK, Carries
<1> QED BY <1>4, <1>5, <1>6, <1>7, <1>8, <1>9, <1>10, <1>11, <1>12, <1>13, <1>14, <1>15,
           <1>16, <1>17, <1>18, <1>19 DEF Next

\* While no row is written, a card made at a position of a list fits.
LEMMA CardFitsAll ==
    ASSUME Typed, NEW list \in Lists, NEW idx \in Nat, idx < Len(list)
    PROVE  Fits(CardAt(idx, Ids(list)).idx, CardAt(idx, Ids(list)).id)
<1>1. list \in List
    BY ListFromDatabase DEF Typed
<1>2. /\ CardAt(idx, Ids(list)).idx = idx /\ CardAt(idx, Ids(list)).id = list[idx + 1].id
      /\ idx + 1 \in DOMAIN list
    BY <1>1, CardOfList
<1>3. \A other \in Lists :
         idx + 1 \in DOMAIN other /\ row[other[idx + 1].id].order = row[list[idx + 1].id].order
    BY <1>2, ListsAgree DEF Typed
<1> QED BY <1>2, <1>3 DEF Fits

\* While no row is written, what fits goes on to fit.
LEMMA FitsKept ==
    ASSUME row' = row
    PROVE  /\ \A idx, q : Fits(idx, q)' <=> Fits(idx, q)
           /\ Current' = Current /\ Exists' = Exists /\ Lists' = Lists
<1>1. Exists' = Exists /\ Lists' = Lists
    BY RowsKept
<1> QED BY <1>1 DEF Fits, Current

\* A post that stays as it is fits as it did.
LEMMA PostFitsKept ==
    ASSUME row' = row, NEW r \in Requests, PostFits(r),
           pc'[r] = "idle" \/ (pc'[r] = pc[r] /\ post'[r] = post[r])
    PROVE  PostFits(r)'
<1>1. Exists' = Exists /\ Lists' = Lists
    BY RowsKept
<1> QED BY <1>1 DEF PostFits, Fits

\* In such a run the answers judged again are those that are right.
LEMMA JudgedAgain ==
    ASSUME VerdictsHold
    PROVE  /\ RightBy(Current) = Right
           /\ Right \subseteq Exists
           /\ {e.id : e \in Current} = Exists
<1>1. Right \subseteq Exists
    BY DEF Right, VerdictsHold
<1>2. {e.id : e \in Current} = Exists
    <2>1. \A e \in Current : e.id \in Exists
        BY DEF Current
    <2>2. ASSUME NEW q \in Exists PROVE \E e \in Current : e.id = q
        <3>1. [id |-> q, right |-> row[q].right] \in Current
            BY DEF Current
        <3> QED BY <3>1
    <2> QED BY <2>1, <2>2
<1>3. ASSUME NEW q \in RightBy(Current) PROVE q \in Right
    <2>1. PICK e \in Current : q = e.id /\ answered[e.id] # Absent /\ answered[e.id].given = e.right
        BY DEF RightBy
    <2>2. q \in Exists /\ e.right = row[q].right
        BY <2>1 DEF Current
    <2> QED BY <2>1, <2>2 DEF VerdictsHold, Right, Exists
<1>4. ASSUME NEW q \in Right PROVE q \in RightBy(Current)
    <2> DEFINE e == [id |-> q, right |-> row[q].right]
    <2>1. q \in Exists /\ answered[q] # Absent /\ answered[q].given = row[q].right
        BY DEF Right, VerdictsHold
    <2>2. e \in Current /\ e.id = q /\ e.right = row[q].right
        BY <2>1 DEF Current
    <2> HIDE DEF e
    <2> QED BY <2>1, <2>2 DEF RightBy
<1> QED BY <1>1, <1>2, <1>3, <1>4

\* What a step leaves alone of rows, answers and count goes on to agree.
LEMMA CountFitsKept ==
    ASSUME CountFits, late' = late, answered' = answered, score' = score,
           asked' = asked, result' = result
    PROVE  CountFits'
<1>1. Right' = Right
    BY DEF Right
<1> QED BY <1>1 DEF CountFits, At

\* The flag calm leaves a run undisturbed.
LEMMA UndisturbedInductive ==
    ASSUME Typed, Undisturbed, [Next]_vars
    PROVE  Undisturbed'
<1> SUFFICES ASSUME calm'
             PROVE  (Agree /\ CardFits /\ PostsFit /\ VerdictsHold /\ AskFits /\ CountFits)'
    BY DEF Undisturbed
<1>0. TypeOK /\ Carries /\ Stages
    BY DEF Typed
<1>1. ASSUME UNCHANGED <<row, calm>>
      PROVE  /\ Agree /\ CardFits /\ PostsFit /\ VerdictsHold /\ AskFits /\ CountFits
             /\ Lists' = Lists /\ Exists' = Exists /\ Current' = Current
    BY <1>1, FitsKept DEF Undisturbed
<1>2. ASSUME UNCHANGED <<row, calm, page>> PROVE CardFits'
    BY <1>1, <1>2 DEF CardFits, Fits
<1>3. ASSUME UNCHANGED <<row, calm, pc, post>> PROVE PostsFit'
    BY <1>1, <1>3, PostFitsKept DEF PostsFit
<1>4. ASSUME UNCHANGED <<row, calm, answered>> PROVE VerdictsHold'
    BY <1>1, <1>4 DEF VerdictsHold
<1>5. ASSUME UNCHANGED <<row, calm, asked>> PROVE AskFits'
    BY <1>1, <1>5 DEF AskFits, At
<1>6. ASSUME UNCHANGED <<row, calm, late, answered, score, asked, result>> PROVE CountFits'
    BY <1>1, <1>6, CountFitsKept
<1>7. ASSUME UNCHANGED <<row, calm, cached>>, fills' \subseteq Lists PROVE Agree'
    BY <1>1, <1>7 DEF Agree
<1>8. CASE \E list \in fills : Fill(list) \/ LoseFill(list)
    <2>1. UNCHANGED <<row, calm, late, page, pc, post, answered, score, asked, result>>
        BY <1>8 DEF Fill, LoseFill, questionVars, runVars, attemptVars, postVars, askVars, histVars
    <2>2. Agree'
        BY <1>1, <1>8, <2>1 DEF Fill, LoseFill, Agree
    <2> QED BY <1>2, <1>3, <1>4, <1>5, <1>6, <2>1, <2>2
<1>9. CASE Lapse
    <2>1. UNCHANGED <<row, calm, late, page, pc, post, answered, score, asked, result, fills>>
        BY <1>9 DEF Lapse, questionVars, runVars, attemptVars, postVars, askVars, histVars
    <2>2. Agree'
        BY <1>1, <1>9, <2>1 DEF Lapse, Agree
    <2> QED BY <1>2, <1>3, <1>4, <1>5, <1>6, <2>1, <2>2
<1>10. CASE \E q \in Questions :
              AddQuestion(q) \/ UpdateQuestion(q) \/ DeleteQuestion(q) \/ ImportQuestion(q)
    BY <1>10 DEF AddQuestion, UpdateQuestion, DeleteQuestion, ImportQuestion, Write
<1>11. CASE CreateSession
    <2>1. PICK list \in Lists \cup {cached} : Read(list)
        BY <1>11 DEF CreateSession
    <2>2. /\ Settled /\ answered' = [q \in Questions |-> Absent]
          /\ page' = Absent /\ score' = Absent /\ result' = Absent
          /\ At("idle") /\ UNCHANGED <<row, cached, asked>>
          /\ \A r \in Requests : pc'[r] = IF pc[r] = "upsert" THEN "idle" ELSE pc[r]
        BY <1>11 DEF CreateSession, questionVars
    <2>3. Agree
        BY <2>2 DEF Settled, Agree
    <2>4. fills' \subseteq Lists
        BY <2>1, <2>3, ReadList
    <2>5. Lists' = Lists
        BY <2>2, RowsKept
    <2>6. Agree'
        BY <2>2, <2>3, <2>4, <2>5 DEF Agree
    <2>7. \A r \in Requests : pc'[r] = "idle"
        BY <2>2 DEF Settled
    <2>8. PostsFit'
        BY <2>7 DEF PostsFit, PostFits
    <2> QED BY <2>2, <2>6, <2>8 DEF CardFits, VerdictsHold, AskFits, CountFits, At
<1>12. CASE GetQuizResultData
    <2>1. PICK list \in Lists \cup {cached} :
             /\ Read(list)
             /\ asked' = [at |-> "complete", listed |-> Range(list), score |-> {}]
        BY <1>12 DEF GetQuizResultData
    <2>2. UNCHANGED <<row, calm, late, cached, answered, score, page, pc, post, result>>
        BY <1>12 DEF GetQuizResultData, questionVars, attemptVars, postVars, histVars
    <2>3. list \in Lists /\ fills' \subseteq Lists
        BY <1>1, <2>1, <2>2, ReadList
    <2>4. AskFits'
        BY <1>0, <1>1, <2>1, <2>2, <2>3, ListFromDatabase DEF AskFits
    <2>5. CountFits'
        <3>1. Right' = Right /\ ~At("update")'
            BY <2>1, <2>2 DEF Right, At
        <3> QED BY <1>1, <2>2, <3>1 DEF CountFits
    <2> QED BY <1>2, <1>3, <1>4, <1>7, <2>2, <2>3, <2>4, <2>5
<1>13. CASE CompleteSession
    <2>1. PICK list \in Lists \cup {cached} :
             /\ Read(list)
             /\ asked' = [asked EXCEPT !.at = "update",
                                       !.score = Right \cap {e.id : e \in Range(list)}]
        BY <1>13 DEF CompleteSession
    <2>2. UNCHANGED <<row, calm, cached, answered, score, page, pc, post, result>>
        BY <1>13 DEF CompleteSession, questionVars, attemptVars, postVars
    <2>3. list \in Lists /\ fills' \subseteq Lists
        BY <1>1, <2>1, <2>2, ReadList
    <2>4. asked \in Ask /\ ~At("idle") /\ ~At("delete") /\ running
        BY <1>0, <1>13 DEF CompleteSession, At, TypeOK
    <2>5. asked'.listed = asked.listed /\ asked'.score = Right \cap {e.id : e \in Range(list)}
        BY <2>1, <2>4 DEF Ask
    <2>6. AskFits'
        BY <1>1, <2>2, <2>4, <2>5 DEF AskFits
    <2>7. Range(list) = Current
        BY <1>0, <2>3, ListFromDatabase
    <2>8. asked'.score = Right /\ Right' = Right
        BY <1>1, <2>2, <2>5, <2>7, JudgedAgain DEF Right
    <2>9. score = Absent /\ result = Absent
        BY <1>0, <2>4 DEF Stages
    <2>10. CountFits'
        BY <2>2, <2>8, <2>9 DEF CountFits
    <2> QED BY <1>2, <1>3, <1>4, <1>7, <2>2, <2>3, <2>6, <2>10
<1>14. CASE UpdateAttempt
    <2>1. UNCHANGED <<row, calm, late, cached, fills, answered, page, pc, post, result>>
        BY <1>14 DEF UpdateAttempt, questionVars, cacheVars, postVars, histVars
    <2>2. asked \in Ask /\ At("update") /\ score' = asked.score
        BY <1>0, <1>14 DEF UpdateAttempt, TypeOK
    <2>3. asked'.listed = asked.listed /\ asked'.at = "delete"
        BY <1>14, <2>2 DEF UpdateAttempt, Goto, Ask
    <2>4. AskFits'
        BY <1>1, <2>1, <2>2, <2>3 DEF AskFits, At
    <2>5. CountFits'
        <3>1. Right' = Right /\ ~At("update")'
            BY <2>1, <2>3 DEF Right, At
        <3> QED BY <1>1, <2>1, <2>2, <3>1 DEF CountFits
    <2> QED BY <1>1, <1>2, <1>3, <1>4, <1>7, <2>1, <2>4, <2>5 DEF Agree
<1>15. CASE DeleteSession
    <2>1. UNCHANGED <<row, calm, late, cached, fills, answered, score, page, pc, post, result>>
        BY <1>15 DEF DeleteSession, questionVars, cacheVars, postVars, histVars
    <2>2. asked \in Ask /\ At("delete")
        BY <1>0, <1>15 DEF DeleteSession, TypeOK
    <2>3. asked'.listed = asked.listed /\ asked'.at = "reread"
        BY <1>15, <2>2 DEF DeleteSession, Goto, Ask
    <2>4. AskFits'
        BY <1>1, <2>1, <2>2, <2>3 DEF AskFits, At
    <2>5. CountFits'
        <3>1. Right' = Right /\ ~At("update")'
            BY <2>1, <2>3 DEF Right, At
        <3> QED BY <1>1, <2>1, <3>1 DEF CountFits
    <2> QED BY <1>1, <1>2, <1>3, <1>4, <1>7, <2>1, <2>4, <2>5 DEF Agree
<1>16. CASE GetAnswersByAttempt
    <2>1. /\ UNCHANGED <<row, calm, late, cached, fills, answered, score, pc, post>>
          /\ page' = Absent /\ asked' = NoAsk
          /\ result' = [score |-> score, right |-> Right, details |-> RightBy(asked.listed)]
        BY <1>16 DEF GetAnswersByAttempt, questionVars, cacheVars, attemptVars, postVars, histVars
    <2>2. AskFits' /\ CardFits' /\ ~At("update")'
        BY <2>1 DEF AskFits, CardFits, NoAsk, At
    <2>3. asked.listed = Current /\ score # Absent
        BY <1>0, <1>1, <1>16, <2>1 DEF GetAnswersByAttempt, AskFits, Stages, At
    <2>4. RightBy(asked.listed) = Right /\ Right' = Right
        BY <1>1, <2>1, <2>3, JudgedAgain DEF Right
    <2>5. CountFits'
        BY <1>1, <2>1, <2>2, <2>3, <2>4 DEF CountFits
    <2> QED BY <1>1, <1>3, <1>4, <1>7, <2>1, <2>2, <2>5 DEF Agree
<1>17. CASE FailResult
    <2>1. /\ UNCHANGED <<row, calm, late, cached, fills, answered, score, page, pc, post, result>>
          /\ asked' = NoAsk
        BY <1>17 DEF FailResult, questionVars, cacheVars, attemptVars, postVars, histVars
    <2>2. AskFits' /\ ~At("update")' /\ Right' = Right
        BY <2>1 DEF AskFits, NoAsk, At, Right
    <2>3. CountFits'
        BY <1>1, <2>1, <2>2 DEF CountFits
    <2> QED BY <1>1, <1>2, <1>3, <1>4, <1>7, <2>1, <2>2, <2>3 DEF Agree
<1>18. CASE \E idx \in 0 .. Cardinality(Questions) : QuizQuestion(idx)
    <2>1. PICK idx \in 0 .. Cardinality(Questions), list \in Lists \cup {cached} :
             /\ Read(list) /\ list # << >>
             /\ page' = CardAt(IF idx < Len(list) THEN idx ELSE 0, Ids(list))
        BY <1>18 DEF QuizQuestion
    <2>2. UNCHANGED <<row, calm, late, cached, answered, score, pc, post, asked, result>>
        BY <1>18 DEF QuizQuestion, questionVars, attemptVars, postVars, askVars, histVars
    <2>3. list \in Lists /\ list \in List /\ fills' \subseteq Lists
        BY <1>1, <2>1, <2>2, ReadList
    <2>4. Len(list) \in Nat \ {0}
        BY <2>1, <2>3, IdsOfList
    <2>5. Fits(page'.idx, page'.id)
        <3> DEFINE k == IF idx < Len(list) THEN idx ELSE 0
        <3>1. k \in Nat /\ k < Len(list) /\ page' = CardAt(k, Ids(list))
            BY <2>1, <2>4, BoundsAssumption, FS_CardinalityType
        <3> HIDE DEF k
        <3> QED BY <2>3, <3>1, CardFitsAll
    <2>6. CardFits'
        BY <1>1, <2>2, <2>5 DEF CardFits, Fits
    <2> QED BY <1>3, <1>4, <1>5, <1>6, <1>7, <2>2, <2>3, <2>6
<1>19. CASE \E r \in Requests, move \in {-1, 1}, given \in Answers : Send(r, move, given)
    <2>1. PICK r \in Requests, move \in {-1, 1}, given \in Answers : Send(r, move, given)
        BY <1>19
    <2>2. UNCHANGED <<row, calm, late, cached, fills, answered, score, page, asked, result>>
        BY <2>1 DEF Send, questionVars, cacheVars, attemptVars, askVars, histVars
    <2>3. /\ page # Absent /\ pc'[r] = "navigate"
          /\ post'[r].idx = page.idx /\ post'[r].under = page.id
          /\ \A s \in Requests : s # r => pc'[s] = pc[s] /\ post'[s] = post[s]
        BY <1>0, <2>1 DEF Send, TypeOK
    <2>4. PostFits(r)'
        BY <1>1, <2>2, <2>3 DEF CardFits, PostFits, Fits
    <2>5. PostsFit'
        BY <1>1, <2>2, <2>3, <2>4, PostFitsKept DEF PostsFit
    <2> QED BY <1>1, <1>2, <1>4, <1>5, <1>6, <1>7, <2>2, <2>5 DEF Agree
<1>20. CASE \E r \in Requests : NavigateQuestion(r)
    <2>1. PICK r \in Requests : NavigateQuestion(r)
        BY <1>20
    <2> DEFINE p == post[r]
    <2>2. PICK list \in Lists \cup {cached} :
             /\ Read(list)
             /\ IF list = << >> THEN Done(r)
                ELSE /\ pc' = [pc EXCEPT ![r] = "save"]
                     /\ post' = [post EXCEPT ![r] =
                            [idx |-> p.idx, given |-> p.given, under |-> p.under,
                             next |-> CardAt(Wrapped(p.target, Len(list)), Ids(list))]]
        BY <2>1 DEF NavigateQuestion
    <2>3. UNCHANGED <<row, calm, late, cached, answered, score, page, asked, result>>
        BY <2>1 DEF NavigateQuestion, questionVars, attemptVars, askVars, histVars
    <2>4. list \in Lists /\ list \in List /\ fills' \subseteq Lists
        BY <1>1, <2>2, <2>3, ReadList
    <2>5. PostsFit'
        <3>1. CASE list = << >>
            <4>1. /\ pc'[r] = "idle"
                  /\ \A s \in Requests : s # r => pc'[s] = pc[s] /\ post'[s] = post[s]
                BY <1>0, <2>2, <3>1 DEF Done, TypeOK
            <4> QED BY <1>1, <2>3, <4>1, PostFitsKept DEF PostsFit
        <3>2. CASE list # << >>
            <4> DEFINE card == CardAt(Wrapped(p.target, Len(list)), Ids(list))
            <4>1. p \in Sent /\ Fits(p.idx, p.under)
                BY <1>0, <1>1, <2>1, <2>3 DEF NavigateQuestion, Carries, PostsFit, PostFits
            <4>2. p.target \in Int /\ Len(list) \in Nat \ {0}
                BY <2>4, <3>2, <4>1, IdsOfList, BoundsAssumption, FS_CardinalityType DEF Sent
            <4>3. Fits(card.idx, card.id)
                BY <2>4, <4>2, WrappedInList, CardFitsAll
            <4> HIDE DEF card
            <4>4. /\ pc'[r] = "save" /\ post'[r].idx = p.idx /\ post'[r].under = p.under
                  /\ post'[r].next = card
                  /\ \A s \in Requests : s # r => pc'[s] = pc[s] /\ post'[s] = post[s]
                BY <1>0, <2>2, <3>2 DEF TypeOK, card
            <4>5. PostFits(r)'
                BY <1>1, <2>3, <4>1, <4>3, <4>4 DEF PostFits, Fits
            <4> QED BY <1>1, <2>3, <4>4, <4>5, PostFitsKept DEF PostsFit
        <3> QED BY <3>1, <3>2
    <2> QED BY <1>2, <1>4, <1>5, <1>6, <1>7, <2>3, <2>4, <2>5
<1>21. CASE \E r \in Requests : SaveAnswer(r)
    <2>1. PICK r \in Requests : SaveAnswer(r)
        BY <1>21
    <2> DEFINE p == post[r]
    <2>2. PICK list \in Lists \cup {cached} :
             /\ Read(list)
             /\ IF p.idx < Len(list)
                THEN LET entry == list[p.idx + 1] IN
                     /\ pc' = [pc EXCEPT ![r] = "upsert"]
                     /\ post' = [post EXCEPT ![r] =
                            [id |-> entry.id, given |-> p.given,
                             correct |-> p.given = entry.right,
                             under |-> p.under, next |-> p.next]]
                ELSE Done(r)
        BY <2>1 DEF SaveAnswer
    <2>3. UNCHANGED <<row, calm, late, cached, answered, score, page, asked, result>>
        BY <2>1 DEF SaveAnswer, questionVars, attemptVars, askVars, histVars
    <2>4. list \in Lists /\ list \in List /\ fills' \subseteq Lists
        BY <1>1, <2>2, <2>3, ReadList
    <2>5. PostsFit'
        <3>1. CASE ~(p.idx < Len(list))
            <4>1. /\ pc'[r] = "idle"
                  /\ \A s \in Requests : s # r => pc'[s] = pc[s] /\ post'[s] = post[s]
                BY <1>0, <2>2, <3>1 DEF Done, TypeOK
            <4> QED BY <1>1, <2>3, <4>1, PostFitsKept DEF PostsFit
        <3>2. CASE p.idx < Len(list)
            <4> DEFINE entry == list[p.idx + 1]
                       verdict == p.given = entry.right
            <4>1. Fits(p.idx, p.under) /\ Fits(p.next.idx, p.next.id)
                BY <1>1, <2>1, <2>3 DEF SaveAnswer, PostsFit, PostFits
            <4>2. p.idx + 1 \in DOMAIN list /\ row[entry.id].order = row[p.under].order
                BY <2>4, <4>1 DEF Fits
            <4>3. entry.id \in Exists /\ entry.right = row[entry.id].right
                BY <1>0, <2>4, <4>2, ListFromDatabase
            <4>4. /\ pc'[r] = "upsert" /\ post'[r].id = entry.id /\ post'[r].under = p.under
                  /\ post'[r].given = p.given /\ post'[r].correct = verdict
                  /\ post'[r].next = p.next
                  /\ \A s \in Requests : s # r => pc'[s] = pc[s] /\ post'[s] = post[s]
                BY <1>0, <2>2, <3>2 DEF TypeOK
            <4>5. verdict <=> p.given = row[entry.id].right
                BY <4>3
            <4> HIDE DEF entry, verdict, p
            <4>6. PostFits(r)'
                BY <1>1, <2>3, <4>1, <4>2, <4>3, <4>4, <4>5 DEF PostFits, Fits
            <4> QED BY <1>1, <2>3, <4>4, <4>6, PostFitsKept DEF PostsFit
        <3> QED BY <3>1, <3>2
    <2> QED BY <1>2, <1>4, <1>5, <1>6, <1>7, <2>3, <2>4, <2>5
<1>22. CASE \E r \in Requests : UpsertUserAnswer(r)
    <2>1. PICK r \in Requests : UpsertUserAnswer(r)
        BY <1>22
    <2> DEFINE p == post[r]
               new == [given |-> p.given, correct |-> p.correct]
    <2>2. /\ UNCHANGED <<row, calm, cached, fills, score, asked, result>>
          /\ pc[r] = "upsert"
        BY <2>1 DEF UpsertUserAnswer, questionVars, cacheVars, askVars
    <2>3. PostsFit'
        <3>1. /\ pc'[r] = "idle"
              /\ \A s \in Requests : s # r => pc'[s] = pc[s] /\ post'[s] = post[s]
            BY <1>0, <2>1 DEF UpsertUserAnswer, Done, TypeOK
        <3> QED BY <1>1, <2>2, <3>1, PostFitsKept DEF PostsFit
    <2>4. /\ Fits(p.next.idx, p.next.id) /\ p.id \in Exists
          /\ p.correct <=> p.given = row[p.id].right
        BY <1>1, <2>2 DEF PostsFit, PostFits
    <2>5. /\ answered' = [answered EXCEPT ![p.id] = new]
          /\ page' = IF page = Absent THEN Absent ELSE p.next
          /\ late' = IF calm /\ Counted THEN late \cup {p.id} ELSE late
        BY <2>1, <2>4 DEF UpsertUserAnswer, Upsert
    <2>6. new.given = p.given /\ new.correct = p.correct
        OBVIOUS
    <2> HIDE DEF p, new
    <2>7. CardFits'
        BY <1>1, <2>2, <2>4, <2>5 DEF CardFits, Fits
    <2>8. VerdictsHold'
        <3>1. /\ p.id \in Questions /\ answered'[p.id] = new
              /\ \A q \in Questions : q # p.id => answered'[q] = answered[q]
            BY <1>0, <2>4, <2>5 DEF TypeOK, Exists
        <3>2. SUFFICES ASSUME NEW q \in Questions, answered'[q] # Absent
                       PROVE  q \in Exists /\ (answered'[q].correct <=> answered'[q].given = row[q].right)
            BY <1>1, <2>2 DEF VerdictsHold
        <3>3. CASE q = p.id
            BY <2>4, <2>6, <3>1, <3>3
        <3>4. CASE q # p.id
            BY <1>1, <2>2, <3>1, <3>2, <3>4 DEF VerdictsHold
        <3> QED BY <3>3, <3>4
    <2>9. CountFits'
        <3>1. At("update")' <=> At("update")
            BY <2>2 DEF At
        <3>2. \A q \in Questions : q # p.id => (q \in Right' <=> q \in Right)
            BY <1>0, <2>5 DEF Right, TypeOK
        <3>3. Right' \subseteq Questions /\ Right \subseteq Questions
            BY DEF Right
        <3>4. CASE Counted
            <4>1. calm /\ late' = late \cup {p.id}
                BY <2>2, <2>5, <3>4
            <4>2. Right' \ late' = Right \ late'
                BY <3>2, <3>3, <4>1
            <4>3. \A S : S \ late = Right \ late => S \ late' = Right' \ late'
                BY <4>1, <4>2
            <4>4. result # Absent => result.score \ late' = result.right \ late'
                BY <1>1, <2>2, <4>1 DEF CountFits
            <4> QED BY <1>1, <2>2, <3>1, <4>3, <4>4 DEF CountFits
        <3>5. CASE ~Counted
            <4>1. score = Absent /\ ~At("update") /\ late' = late
                BY <2>5, <3>5 DEF Counted
            <4> QED BY <1>1, <2>2, <3>1, <4>1 DEF CountFits
        <3> QED BY <3>4, <3>5
    <2> QED BY <1>1, <1>5, <1>7, <2>2, <2>3, <2>7, <2>8, <2>9 DEF Agree
<1>23. CASE \E r \in Requests : Fail(r)
    <2>1. PICK r \in Requests : Fail(r)
        BY <1>23
    <2>2. UNCHANGED <<row, calm, late, cached, fills, answered, score, page, asked, result>>
        BY <2>1 DEF Fail, questionVars, cacheVars, attemptVars, askVars, histVars
    <2>3. /\ pc'[r] = "idle"
          /\ \A s \in Requests : s # r => pc'[s] = pc[s] /\ post'[s] = post[s]
        BY <1>0, <2>1 DEF Fail, Done, TypeOK
    <2>4. PostsFit'
        BY <1>1, <2>2, <2>3, PostFitsKept DEF PostsFit
    <2> QED BY <1>1, <1>2, <1>4, <1>5, <1>6, <1>7, <2>2, <2>4 DEF Agree
<1>24. CASE UNCHANGED vars
    BY <1>1, <1>2, <1>3, <1>4, <1>5, <1>6, <1>7, <1>24
       DEF vars, questionVars, cacheVars, runVars, attemptVars, postVars, askVars, histVars, Agree
<1> QED BY <1>8, <1>9, <1>10, <1>11, <1>12, <1>13, <1>14, <1>15, <1>16, <1>17, <1>18, <1>19,
           <1>20, <1>21, <1>22, <1>23, <1>24 DEF Next

-----------------------------------------------------------------------------

\* The inductive invariant holds always.
THEOREM Invariant == Spec => []IInv
<1>1. Init => IInv
    <2> SUFFICES ASSUME Init PROVE IInv
        OBVIOUS
    <2>1. row \in [Questions -> Row \cup {Absent}] /\ edits \in 0 .. MaxEdits
        BY BoundsAssumption DEF Init
    <2>2. NoAsk \in Ask
        BY DEF NoAsk, Ask
    <2>3. TypeOK
        BY <2>1, <2>2 DEF Init, TypeOK
    <2>4. Lookups /\ Carries /\ Stages /\ Undisturbed
        BY DEF Init, Lookups, Carries, Stages, Undisturbed, At, NoAsk
    <2> QED BY <2>3, <2>4 DEF IInv, Typed
<1>2. IInv /\ [Next]_vars => IInv'
    BY TypedInductive, UndisturbedInductive DEF IInv
<1> QED BY <1>1, <1>2, PTL DEF Spec

\* Rows, lists, posts, the request for the result and the result have the types
\* QuizQuestions gives them; a card shows a position that there is.
THEOREM TypeCorrect == Spec => []TypeOK
<1>1. IInv => TypeOK
    BY DEF IInv, Typed
<1> QED BY <1>1, Invariant, PTL

\* After a run whose questions were left alone, right answers and details of the
\* result agree, and so does the score but for the answers stored after it was counted
\* (GetQuizResultData, CompleteSessionByAttemptID, UpsertUserAnswer).
THEOREM ResultsAgree == Spec => []ResultAgrees
<1>1. IInv => ResultAgrees
    BY DEF IInv, Undisturbed, CountFits, ResultAgrees
<1> QED BY <1>1, Invariant, PTL

\* Every card of such a run is of a question that can take an answer
\* (GetQuizQuestionData, NavigateQuestion).
THEOREM CardsCanBeAnswered == Spec => []NoDeadEnd
<1>1. IInv => NoDeadEnd
    <2> SUFFICES ASSUME IInv, calm, page # Absent,
                        NEW list \in Lists \cup {IF cached = Absent THEN << >> ELSE cached},
                        list # << >>
                 PROVE  page.idx < Len(list) /\ list[page.idx + 1].id \in Exists
        BY DEF NoDeadEnd
    <2>1. Typed /\ TypeOK /\ Agree /\ CardFits
        BY DEF IInv, Typed, Undisturbed
    <2>2. list \in Lists
        BY <2>1 DEF Agree
    <2>3. page.idx + 1 \in DOMAIN list /\ page.idx \in Nat
        BY <2>1, <2>2, BoundsAssumption, FS_CardinalityType DEF CardFits, Fits, TypeOK, Card
    <2>4. DOMAIN list = 1 .. Len(list) /\ Len(list) \in Nat
        BY <2>1, <2>2, ListFromDatabase, IdsOfList
    <2>5. list[page.idx + 1].id \in Exists
        BY <2>1, <2>2, <2>3, ListFromDatabase
    <2> QED BY <2>3, <2>4, <2>5
<1> QED BY <1>1, Invariant, PTL

\* In such a run an answer is recorded under the question it was typed under or one
\* of the same order_index, whatever the cache does (NavigateQuestion, SaveAnswer).
THEOREM AnswersStayUnderTheirQuestion == Spec => RecordedUnderShown
<1> DEFINE Recorded ==
        \A r \in Requests : UpsertUserAnswer(r) /\ calm =>
            \A q \in Questions : answered'[q] # answered[q] =>
                row[q].order = row[post[r].under].order
<1>1. ASSUME IInv, [Next]_vars PROVE [Recorded]_vars
    <2> SUFFICES ASSUME NEW r \in Requests, UpsertUserAnswer(r), calm,
                        NEW q \in Questions, answered'[q] # answered[q]
                 PROVE  row[q].order = row[post[r].under].order
        OBVIOUS
    <2>1. TypeOK /\ PostFits(r) /\ pc[r] = "upsert"
        BY <1>1 DEF IInv, Typed, Undisturbed, PostsFit, UpsertUserAnswer
    <2>2. \/ UNCHANGED answered
          \/ \E new : answered' = [answered EXCEPT ![post[r].id] = new]
        BY DEF UpsertUserAnswer, Upsert
    <2>3. q = post[r].id
        BY <2>1, <2>2 DEF TypeOK
    <2> QED BY <2>1, <2>3 DEF PostFits
<1> QED BY <1>1, Invariant, PTL DEF Spec, RecordedUnderShown

=============================================================================
