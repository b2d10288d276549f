-------------------------- MODULE QuizCacheProofs --------------------------
(***************************************************************************)
(* For any number of pages, writes, goroutines and edits, any limits and   *)
(* delays: how old what a page reads can be, and that a key deleted with   *)
(* no goroutine on its way stays up to date.                               *)
(***************************************************************************)
EXTENDS QuizCache, TLAPS

\* The edit that wrote what a table holds.
Current(t) == IF t = "questions" THEN questions ELSE QuizEdit

\* What has been replaced is older than what a table holds.
Numbered ==
    /\ \A t \in Tables : Current(t) <= edits
    /\ \A t \in Tables, n \in 0 .. MaxEdits :
         replaced[t][n] # Absent => n < Current(t) /\ replaced[t][n] <= now

When(k, value) == replaced[TableOf(k)][value.edit]

\* A value a query once answered: no newer than the table, and a quiz has its row.
Answered(k, value) ==
    /\ value.edit <= Current(TableOf(k))
    /\ k = "quiz" => value.rows # {}

\* A page that has missed a key has it to fetch; the list pages read their list
\* only, so who reads the quiz asked for one that was there.
Asking ==
    \A r \in Requests :
        /\ missed[r] => todo[r] # << >>
        /\ page[r] = Absent => todo[r] = << >>
        /\ todo[r] # << >> /\ page[r] \in {"mine", "listed"} => todo[r] = <<page[r]>>
        /\ page[r] \in {"take", "view", "added"} => quiz # Absent

\* A run has read its quiz before it asks for the questions.
LimitRead ==
    \A r \in Requests :
        (page[r] = "take" /\ todo[r] # << >> /\ Head(todo[r]) # "quiz") =>
            got[r]["quiz"] \in Reading /\ got[r]["quiz"].value.rows # {}

\* A value on its way was true when it set out, at most one delay ago.
FillIsFresh(f) ==
    /\ Answered(f.key, f.value)
    /\ f.since <= now /\ now <= f.since + FillDelay
    /\ f.ttl \in Kept(f.key)
    /\ When(f.key, f.value) # Absent => f.since <= When(f.key, f.value)

Filling ==
    /\ \A f \in fills : FillIsFresh(f)
    /\ created # Absent => FillIsFresh(created) /\ created.key = "quiz"
    /\ \A w \in Admins : step[w] = "store" => created # Absent /\ quiz # Absent
    /\ \A w, v \in Admins : step[w] = "store" /\ step[v] = "store" => w = v

\* A key is kept no longer than from one delay after it was true.
EntryIsFresh(k, e) ==
    /\ Answered(k, e.value)
    /\ now < e.expires
    /\ \E d \in Kept(k) :
         /\ e.expires <= now + d
         /\ When(k, e.value) # Absent => e.expires <= When(k, e.value) + FillDelay + d

Caching == \A k \in Keys : cache[k] # Absent => EntryIsFresh(k, cache[k])

ReadingIsFresh(k, g) ==
    /\ Answered(k, g.value)
    /\ g.at <= now
    /\ When(k, g.value) # Absent =>
         \E d \in Kept(k) : g.at <= When(k, g.value) + FillDelay + d

Showing ==
    \A r \in Requests, k \in Keys : got[r][k] # Absent => ReadingIsFresh(k, got[r][k])

\* Nothing older than a deletion that met no goroutine is on its way, or stored.
Purging ==
    \A k \in Keys : (purged[k] # Absent /\ ~purged[k].racing) =>
        /\ purged[k].edit <= Current(TableOf(k))
        /\ \A f \in InFlight : f.key = k => purged[k].edit <= f.value.edit
        /\ cache[k] # Absent => purged[k].edit <= cache[k].value.edit

Serving == Asking /\ LimitRead
Fresh == Filling /\ Caching /\ Showing

IInv == TypeOK /\ Numbered /\ Serving /\ Fresh /\ Purging

-----------------------------------------------------------------------------
(* What the database answers                                               *)

USE BoundsAssumption, KindsAssumption, AbsentAssumption DEF PageKinds

\* A query answers with what its table holds.
LEMMA AnswerIsCurrent ==
    ASSUME TypeOK, NEW k \in Keys
    PROVE  /\ Answer[k] \in Value
           /\ Answer[k].edit = Current(TableOf(k))
           /\ Current(TableOf(k)) \in Nat
           /\ k = "quiz" /\ quiz # Absent => Answer[k].rows # {}
<1>1. QuizEdit \in Nat /\ Stored \subseteq QuizRow
    BY DEF TypeOK, QuizEdit, QuizRow, Stored
<1>2. quiz # Absent => Stored # {}
    BY DEF Stored
<1> QED BY <1>1, <1>2 DEF Answer, Value, Current, TableOf, Keys, TypeOK

\* Times to live are numbers of seconds.
LEMMA KeptInNat ==
    ASSUME NEW k, NEW d \in Kept(k) PROVE d \in Nat
<1>1. TTL \in Nat /\ Grace \in Nat /\ \A l \in Limits : l \in Nat
    BY BoundsAssumption
<1>2. CASE d = TTL
    BY <1>1, <1>2
<1>3. CASE d # TTL
    <2>1. PICK l \in Limits : d = l + Grace
        BY <1>3 DEF Kept
    <2> QED BY <1>1, <2>1
<1> QED BY <1>2, <1>3

\* A run's questions are kept for the limit of a row that was read.
LEMMA TTLOfKept ==
    ASSUME TypeOK, LimitRead, NEW r \in Requests, NEW k \in Keys,
           todo[r] # << >>, k = Head(todo[r])
    PROVE  TTLOf(r, k) \in Nat \ {0} /\ TTLOf(r, k) \in Kept(k)
<1>1. CASE page[r] = "take" /\ k = "questions"
    <2> DEFINE rows == got[r]["quiz"].value.rows
    <2>1. rows \in SUBSET QuizRow /\ rows # {}
        BY <1>1 DEF LimitRead, Reading, Value
    <2>2. (CHOOSE q \in rows : TRUE).limit \in Limits
        BY <2>1 DEF QuizRow
    <2>3. \A l \in Limits : l + Grace \in Nat \ {0} /\ l + Grace \in Kept(k)
        BY <1>1 DEF Kept
    <2>4. TTLOf(r, k) = (CHOOSE q \in rows : TRUE).limit + Grace
        BY <1>1 DEF TTLOf
    <2> QED BY <2>2, <2>3, <2>4
<1>2. CASE ~(page[r] = "take" /\ k = "questions")
    BY <1>2 DEF TTLOf, Kept
<1> QED BY <1>1, <1>2

\* The keys a page asks for.
LEMMA ReadsKeys ==
    ASSUME NEW p \in Pages
    PROVE  /\ Reads(p) \in Seq(Keys) /\ Reads(p) # << >>
           /\ p \in {"mine", "listed"} => Reads(p) = <<p>>
           /\ p = "take" => Head(Reads(p)) = "quiz"
<1>0. p \in {"take", "view", "added", "mine", "listed"}
    BY KindsAssumption
<1>1. CASE p \in {"take", "view"}
    <2>1. Reads(p) = <<"quiz", "questions">>
        BY <1>1 DEF Reads
    <2> QED BY <1>1, <2>1 DEF Keys
<1>2. CASE p = "added"
    <2>1. Reads(p) = <<"questions", "quiz">>
        BY <1>2 DEF Reads
    <2>2. <<"questions", "quiz">> \in Seq(Keys)
        BY DEF Keys
    <2>3. Reads(p) # << >>
        BY <2>1
    <2> QED BY <1>2, <2>1, <2>2, <2>3
<1>3. CASE p \in {"mine", "listed"}
    <2>1. Reads(p) = <<p>>
        BY <1>3 DEF Reads
    <2> QED BY <1>3, <2>1 DEF Keys
<1> QED BY <1>0, <1>1, <1>2, <1>3

\* After a key the others are still to be read.
LEMMA ReadsOn ==
    ASSUME TypeOK, NEW r \in Requests, todo[r] # << >>
    PROVE  /\ Head(todo[r]) \in Keys /\ Tail(todo[r]) \in Seq(Keys)
           /\ \A p \in Keys : todo[r] = <<p>> => Tail(todo[r]) = << >> /\ Head(todo[r]) = p
<1>1. todo[r] \in Seq(Keys)
    BY DEF TypeOK
<1>2. Head(todo[r]) \in Keys /\ Tail(todo[r]) \in Seq(Keys)
    BY <1>1
<1>3. ASSUME NEW p \in Keys, todo[r] = <<p>> PROVE Tail(todo[r]) = << >> /\ Head(todo[r]) = p
    BY <1>3
<1> QED BY <1>2, <1>3

-----------------------------------------------------------------------------
(* Types                                                                   *)

\* What has not been replaced yet can be counted.
LEMMA EditsCounted ==
    ASSUME TypeOK, Numbered
    PROVE  QuizEdit \in 0 .. MaxEdits /\ questions \in 0 .. MaxEdits
<1>1. QuizEdit \in Nat /\ questions \in Nat /\ edits \in 0 .. MaxEdits
    BY DEF TypeOK, QuizEdit, QuizRow
<1>2. Current("quizzes") = QuizEdit /\ Current("questions") = questions
    BY DEF Current
<1> QED BY <1>1, <1>2 DEF Numbered, Tables

\* An edit is counted with the row it replaces.
LEMMA CountTypes ==
    ASSUME TypeOK, NEW t \in Tables, NEW n \in 0 .. MaxEdits, Count(t, n)
    PROVE  /\ edits + 1 \in 0 .. MaxEdits /\ edits' = edits + 1
           /\ replaced' \in [Tables -> [0 .. MaxEdits -> Nat \cup {Absent}]]
<1>1. replaced' \in [Tables -> [0 .. MaxEdits -> Nat \cup {Absent}]]
    BY DEF TypeOK, Count
<1> QED BY <1>1 DEF TypeOK, Count

\* A new row is numbered with the edit that writes it.
LEMMA WriteTypes ==
    ASSUME TypeOK, Numbered, NEW s \in Statuses, NEW l \in Limits, WriteQuiz(s, l)
    PROVE  /\ quiz' \in QuizRow /\ quiz'.edit = edits + 1 /\ edits' = edits + 1
           /\ edits + 1 \in 0 .. MaxEdits /\ UNCHANGED questions
           /\ replaced' \in [Tables -> [0 .. MaxEdits -> Nat \cup {Absent}]]
<1>1. Count("quizzes", QuizEdit)
    BY DEF WriteQuiz
<1>2. /\ edits + 1 \in 0 .. MaxEdits /\ edits' = edits + 1
      /\ replaced' \in [Tables -> [0 .. MaxEdits -> Nat \cup {Absent}]]
    BY <1>1, EditsCounted, CountTypes DEF Tables
<1> QED BY <1>2 DEF WriteQuiz, QuizRow

\* Everything keeps its type, in particular the time to live of a run's questions.
LEMMA TypeInductive ==
    ASSUME TypeOK, Numbered, Asking, LimitRead, Filling, [Next]_vars
    PROVE  TypeOK'
<1> USE DEF TypeOK, tables, readerVars, writerVars
<1>1. ASSUME NEW r \in Requests, NEW p \in Pages, Ask(r, p) PROVE TypeOK'
    BY <1>1, ReadsKeys DEF Ask
<1>2. ASSUME NEW r \in Requests, Hit(r) PROVE TypeOK'
    <2>1. cache[Head(todo[r])].value \in Value
        BY <1>2, ReadsOn DEF Hit, Entry
    <2> QED BY <1>2, <2>1, ReadsOn DEF Hit, Read, Reading
<1>3. ASSUME NEW r \in Requests, Miss(r) PROVE TypeOK'
    BY <1>3 DEF Miss
<1>4. ASSUME NEW r \in Requests, Fetch(r) PROVE TypeOK'
    <2> DEFINE k == Head(todo[r])
    <2>1. todo[r] # << >>
        BY <1>4 DEF Fetch, Asking
    <2>2. k \in Keys /\ Answer[k] \in Value /\ TTLOf(r, k) \in Nat \ {0}
        BY <2>1, ReadsOn, AnswerIsCurrent, TTLOfKept
    <2>3. [key |-> k, value |-> Answer[k], ttl |-> TTLOf(r, k), since |-> now] \in Fill
        BY <2>2 DEF Fill
    <2> QED BY <1>4, <2>1, <2>2, <2>3, ReadsOn DEF Fetch, Read, Reading
<1>5. ASSUME NEW r \in Requests, Respond(r) PROVE TypeOK'
    BY <1>5 DEF Respond
<1>6. ASSUME NEW f \in fills, Store(f) PROVE TypeOK'
    <2>1. f \in Fill
        OBVIOUS
    <2>2. [value |-> f.value, expires |-> now + f.ttl] \in Entry /\ f.key \in Keys
        BY <2>1 DEF Fill, Entry
    <2>3. cache' \in [Keys -> Entry \cup {Absent}]
        BY <1>6, <2>2 DEF Store, Set, Expiry
    <2> QED BY <1>6, <2>3 DEF Store
<1>7. ASSUME NEW w \in Admins, NEW l \in Limits, CreateQuiz(w, l) PROVE TypeOK'
    <2>1. WriteQuiz("available", l) /\ "available" \in Statuses
        BY <1>7 DEF CreateQuiz, Statuses
    <2>2. created' \in Fill
        BY <1>7, <2>1, WriteTypes DEF CreateQuiz, Fill, Value, Keys
    <2> QED BY <1>7, <2>1, <2>2, WriteTypes DEF CreateQuiz, GoTo
<1>8. ASSUME NEW w \in Admins, StoreCreated(w) PROVE TypeOK'
    BY <1>8 DEF StoreCreated, Filling, Set, Expiry, Fill, Entry, GoTo
<1>9. ASSUME NEW w \in Admins, Unlist(w) \/ DeleteQuizKey(w) \/ DeleteQuestionsKey(w)
      PROVE  TypeOK'
    <2>1. ASSUME NEW k \in Keys, Del(k) PROVE cache' \in [Keys -> Entry \cup {Absent}]
                                               /\ purged' \in [Keys -> Purge \cup {Absent}]
        <3>1. Answer[k].edit \in 0 .. MaxEdits
            BY AnswerIsCurrent, EditsCounted DEF Current
        <3> QED BY <2>1, <3>1 DEF Del, Purge, Racing
    <2>2. cache' \in [Keys -> Entry \cup {Absent}] /\ purged' \in [Keys -> Purge \cup {Absent}]
        BY <1>9, <2>1 DEF Unlist, DeleteQuizKey, DeleteQuestionsKey, Keys
    <2>3. step' \in [Admins -> {"idle", "store", "unlist", "delete", "deleteQuestions"}]
        BY <1>9 DEF Unlist, DeleteQuizKey, DeleteQuestionsKey, GoTo
    <2> QED BY <1>9, <2>2, <2>3 DEF Unlist, DeleteQuizKey, DeleteQuestionsKey
<1>10. ASSUME NEW w \in Admins, SkipCall(w) PROVE TypeOK'
    BY <1>10 DEF SkipCall, GoTo
<1>11. ASSUME NEW w \in Admins, ArchiveQuiz(w) PROVE TypeOK'
    <2>1. WriteQuiz("archived", quiz.limit) /\ "archived" \in Statuses /\ quiz.limit \in Limits
        BY <1>11 DEF ArchiveQuiz, Statuses, QuizRow
    <2> QED BY <1>11, <2>1, WriteTypes DEF ArchiveQuiz, GoTo
<1>12. ASSUME NEW s \in Statuses, NEW l \in Limits, UpdateQuiz(s, l) PROVE TypeOK'
    BY <1>12, WriteTypes DEF UpdateQuiz
<1>13. CASE RestoreQuiz
    <2>1. WriteQuiz("available", quiz.limit) /\ "available" \in Statuses /\ quiz.limit \in Limits
        BY <1>13 DEF RestoreQuiz, Statuses, QuizRow
    <2> QED BY <1>13, <2>1, WriteTypes DEF RestoreQuiz
<1>14. CASE EditQuestion
    <2>1. Count("questions", questions) /\ questions \in 0 .. MaxEdits /\ "questions" \in Tables
        BY <1>14, EditsCounted DEF EditQuestion, Tables
    <2> QED BY <1>14, <2>1, CountTypes DEF EditQuestion
<1>15. CASE Restart
    BY <1>15 DEF Restart
<1>16. CASE Advance
    BY <1>16 DEF Advance
<1>17. ASSUME NEW f \in fills, Lose(f) PROVE TypeOK'
    BY <1>17 DEF Lose
<1>18. CASE UNCHANGED vars
    BY <1>18 DEF vars
<1> QED BY <1>1, <1>2, <1>3, <1>4, <1>5, <1>6, <1>7, <1>8, <1>9, <1>10, <1>11, <1>12,
           <1>13, <1>14, <1>15, <1>16, <1>17, <1>18 DEF Next

-----------------------------------------------------------------------------
(* Rows are replaced by younger ones                                       *)

\* Time stands still, and tables, if anything, move on.
Later ==
    /\ UNCHANGED now
    /\ \A t \in Tables : Current(t) <= Current(t)'
    /\ \A t \in Tables, n \in 0 .. MaxEdits : replaced'[t][n] \in {replaced[t][n], now}

\* An edit of table t, counted with what the table held.
LEMMA EditIsLater ==
    ASSUME TypeOK, TypeOK', Numbered, NEW t \in Tables, Count(t, Current(t)), UNCHANGED now,
           Current(t)' = edits + 1, \A u \in Tables \ {t} : Current(u)' = Current(u)
    PROVE  Numbered' /\ Later
<1> USE DEF Numbered, Later
<1>1. \A u \in Tables : Current(u) \in 0 .. MaxEdits /\ Current(u) <= edits
    BY EditsCounted DEF Current
<1>2. /\ edits' = edits + 1 /\ edits \in Nat /\ now \in Nat
      /\ \A u \in Tables, n \in 0 .. MaxEdits :
            replaced'[u][n] = IF u = t /\ n = Current(t) THEN now ELSE replaced[u][n]
    BY <1>1 DEF Count, TypeOK
<1>3. \A u \in Tables : Current(u) <= Current(u)' /\ Current(u)' <= edits'
    BY <1>1, <1>2
<1>4. \A u \in Tables, n \in 0 .. MaxEdits : replaced'[u][n] # Absent =>
            n < Current(u)' /\ replaced'[u][n] <= now
    <2> SUFFICES ASSUME NEW u \in Tables, NEW n \in 0 .. MaxEdits, replaced'[u][n] # Absent
                 PROVE  n < Current(u)' /\ replaced'[u][n] <= now
        OBVIOUS
    <2>1. CASE u = t /\ n = Current(t)
        BY <1>1, <1>2, <2>1
    <2>2. CASE ~(u = t /\ n = Current(t))
        <3>1. n < Current(u) /\ replaced'[u][n] <= now
            BY <1>2, <2>2
        <3> QED BY <1>1, <1>2, <1>3, <3>1
    <2> QED BY <2>1, <2>2
<1> QED BY <1>2, <1>3, <1>4

\* Whoever writes the quiz's row replaces it.
LEMMA WriteIsLater ==
    ASSUME TypeOK, TypeOK', Numbered, NEW s \in Statuses, NEW l \in Limits, WriteQuiz(s, l),
           UNCHANGED now
    PROVE  Numbered' /\ Later
<1>1. Count("quizzes", Current("quizzes"))
    BY DEF WriteQuiz, Current
<1>2. quiz' # Absent /\ quiz'.edit = edits + 1 /\ UNCHANGED questions
    BY WriteTypes
<1>3. Current("quizzes")' = edits + 1 /\ Current("questions")' = Current("questions")
    BY <1>2 DEF Current, QuizEdit
<1> QED BY <1>1, <1>3, EditIsLater DEF Tables

\* Every step but a second's passing leaves the tables or replaces a row.
LEMMA NextIsLater ==
    ASSUME TypeOK, TypeOK', Numbered, [Next]_vars, ~Advance
    PROVE  Numbered' /\ Later
<1>1. ASSUME UNCHANGED <<now, tables>> PROVE Numbered' /\ Later
    <2>1. \A t \in Tables : Current(t)' = Current(t) /\ Current(t) \in Nat
        BY <1>1, EditsCounted DEF tables, Current, QuizEdit
    <2> QED BY <1>1, <2>1 DEF Numbered, Later, tables
<1>2. ASSUME NEW w \in Admins, NEW l \in Limits, CreateQuiz(w, l) PROVE Numbered' /\ Later
    BY <1>2, WriteIsLater DEF CreateQuiz, Statuses
<1>3. ASSUME NEW w \in Admins, ArchiveQuiz(w) PROVE Numbered' /\ Later
    BY <1>3, WriteIsLater DEF ArchiveQuiz, Statuses, TypeOK, QuizRow
<1>4. ASSUME NEW s \in Statuses, NEW l \in Limits, UpdateQuiz(s, l) PROVE Numbered' /\ Later
    BY <1>4, WriteIsLater DEF UpdateQuiz
<1>5. CASE RestoreQuiz
    BY <1>5, WriteIsLater DEF RestoreQuiz, Statuses, TypeOK, QuizRow
<1>6. CASE EditQuestion
    <2>1. Count("questions", Current("questions")) /\ UNCHANGED <<now, quiz>>
        BY <1>6 DEF EditQuestion, Current
    <2>2. Current("questions")' = edits + 1 /\ Current("quizzes")' = Current("quizzes")
        BY <1>6 DEF EditQuestion, Current, QuizEdit
    <2> QED BY <2>1, <2>2, EditIsLater DEF Tables
<1>7. ASSUME NEW r \in Requests,
             \/ \E p \in Pages : Ask(r, p)
             \/ Hit(r) \/ Miss(r) \/ Fetch(r) \/ Respond(r)
      PROVE  UNCHANGED <<now, tables>>
    BY <1>7 DEF Ask, Hit, Miss, Fetch, Respond
<1>8. ASSUME NEW f \in fills, Store(f) \/ Lose(f) PROVE UNCHANGED <<now, tables>>
    BY <1>8 DEF Store, Lose
<1>9. ASSUME NEW w \in Admins,
             \/ StoreCreated(w) \/ Unlist(w) \/ DeleteQuizKey(w) \/ DeleteQuestionsKey(w)
             \/ SkipCall(w)
      PROVE  UNCHANGED <<now, tables>>
    BY <1>9 DEF StoreCreated, Unlist, DeleteQuizKey, DeleteQuestionsKey, SkipCall
<1>10. CASE Restart \/ UNCHANGED vars
    BY <1>1, <1>10 DEF Restart, vars, tables
<1> QED BY <1>1, <1>2, <1>3, <1>4, <1>5, <1>6, <1>7, <1>8, <1>9, <1>10 DEF Next

-----------------------------------------------------------------------------
(* Nothing ages by an edit                                                 *)

\* A value that was answered once is of an edit that was counted.
LEMMA ValueNumbered ==
    ASSUME TypeOK, Numbered, NEW k \in Keys, NEW value \in Value, Answered(k, value)
    PROVE  /\ TableOf(k) \in Tables /\ value.edit \in 0 .. MaxEdits
           /\ When(k, value) \in Nat \cup {Absent}
<1>1. TableOf(k) \in Tables /\ Current(TableOf(k)) \in 0 .. MaxEdits
    BY EditsCounted DEF TableOf, Tables, Current
<1>2. value.edit \in 0 .. MaxEdits
    BY <1>1 DEF Answered, Value
<1> QED BY <1>1, <1>2 DEF When, TypeOK

\* What is true of it stays so while tables move on.
LEMMA StillAnswered ==
    ASSUME TypeOK, TypeOK', Numbered, Numbered', Later,
           NEW k \in Keys, NEW value \in Value, Answered(k, value)
    PROVE  Answered(k, value)' /\ When(k, value)' \in {When(k, value), now}
<1>1. TableOf(k) \in Tables /\ value.edit \in 0 .. MaxEdits
    BY ValueNumbered
<1>2. Current(TableOf(k)) \in Nat /\ Current(TableOf(k))' \in Nat
    BY DEF TypeOK, Current, QuizEdit, QuizRow
<1>3. Current(TableOf(k)) <= Current(TableOf(k))'
    BY <1>1 DEF Later
<1> QED BY <1>1, <1>2, <1>3 DEF Answered, When, Later


\* A value on its way, a key and what a page has read stay fresh.
LEMMA FillStaysFresh ==
    ASSUME TypeOK, TypeOK', Numbered, Numbered', Later, NEW f \in Fill, FillIsFresh(f)
    PROVE  FillIsFresh(f)'
<1>1. f.key \in Keys /\ f.value \in Value /\ now \in Nat /\ f.since \in Nat
    BY DEF Fill, TypeOK
<1>2. Answered(f.key, f.value) /\ When(f.key, f.value) \in Nat \cup {Absent}
    BY <1>1, ValueNumbered DEF FillIsFresh
<1>3. Answered(f.key, f.value)' /\ When(f.key, f.value)' \in {When(f.key, f.value), now}
    BY <1>1, <1>2, StillAnswered
<1> QED BY <1>1, <1>2, <1>3 DEF FillIsFresh, Later

LEMMA EntryStaysFresh ==
    ASSUME TypeOK, TypeOK', Numbered, Numbered', Later, NEW k \in Keys, NEW e \in Entry,
           EntryIsFresh(k, e)
    PROVE  EntryIsFresh(k, e)'
<1>1. e.value \in Value /\ e.expires \in Nat /\ now \in Nat
    BY DEF Entry, TypeOK
<1>2. Answered(k, e.value) /\ When(k, e.value) \in Nat \cup {Absent}
    BY <1>1, ValueNumbered DEF EntryIsFresh
<1>3. Answered(k, e.value)' /\ When(k, e.value)' \in {When(k, e.value), now}
    BY <1>1, <1>2, StillAnswered
<1>4. PICK d \in Kept(k) :
         /\ e.expires <= now + d
         /\ When(k, e.value) # Absent => e.expires <= When(k, e.value) + FillDelay + d
    BY DEF EntryIsFresh
<1>5. d \in Nat
    BY KeptInNat
<1>6. /\ e.expires <= now' + d
      /\ When(k, e.value)' # Absent => e.expires <= When(k, e.value)' + FillDelay + d
    BY <1>1, <1>2, <1>3, <1>4, <1>5 DEF Later
<1> QED BY <1>3, <1>4, <1>6 DEF EntryIsFresh, Later

LEMMA ReadingStaysFresh ==
    ASSUME TypeOK, TypeOK', Numbered, Numbered', Later, NEW k \in Keys, NEW g \in Reading,
           ReadingIsFresh(k, g)
    PROVE  ReadingIsFresh(k, g)'
<1>1. g.value \in Value /\ g.at \in Nat /\ now \in Nat /\ TTL \in Kept(k)
    BY DEF Reading, TypeOK, Kept
<1>2. Answered(k, g.value) /\ When(k, g.value) \in Nat \cup {Absent}
    BY <1>1, ValueNumbered DEF ReadingIsFresh
<1>3. Answered(k, g.value)' /\ When(k, g.value)' \in {When(k, g.value), now}
    BY <1>1, <1>2, StillAnswered
<1>4. CASE When(k, g.value)' = now
    <2>1. g.at <= now /\ g.at <= now + FillDelay + TTL
        BY <1>1 DEF ReadingIsFresh
    <2> QED BY <1>1, <1>3, <1>4, <2>1 DEF ReadingIsFresh, Later
<1>5. CASE When(k, g.value)' = When(k, g.value)
    BY <1>1, <1>3, <1>5 DEF ReadingIsFresh, Later
<1> QED BY <1>3, <1>4, <1>5

-----------------------------------------------------------------------------
(* Pages                                                                   *)

\* Requests other than r keep what they have read, and what they have still to read.
LEMMA OthersServed ==
    ASSUME TypeOK, TypeOK', Asking, LimitRead, NEW r \in Requests,
           quiz # Absent => quiz' # Absent,
           \A q \in Requests \ {r} : /\ page'[q] = page[q] /\ todo'[q] = todo[q]
                                     /\ missed'[q] = missed[q] /\ got'[q] = got[q],
           missed'[r] => todo'[r] # << >>,
           page'[r] = Absent => todo'[r] = << >>,
           todo'[r] # << >> /\ page'[r] \in {"mine", "listed"} => todo'[r] = <<page'[r]>>,
           page'[r] \in {"take", "view", "added"} => quiz' # Absent,
           page'[r] = "take" /\ todo'[r] # << >> /\ Head(todo'[r]) # "quiz" =>
                got'[r]["quiz"] \in Reading /\ got'[r]["quiz"].value.rows # {}
    PROVE  Asking' /\ LimitRead'
<1>1. Asking'
    BY DEF Asking
<1>2. LimitRead'
    BY DEF LimitRead
<1> QED BY <1>1, <1>2

\* Who reads a quiz asked for one that is there.
LEMMA QuizIsThere ==
    ASSUME TypeOK, Asking, NEW r \in Requests, todo[r] # << >>, Head(todo[r]) = "quiz"
    PROVE  quiz # Absent
<1>1. page[r] \in Pages
    BY DEF Asking, TypeOK
<1>2. page[r] \notin {"mine", "listed"}
    <2> SUFFICES ASSUME page[r] \in {"mine", "listed"} PROVE FALSE
        OBVIOUS
    <2>1. todo[r] = <<page[r]>>
        BY DEF Asking
    <2>2. Head(todo[r]) = page[r]
        BY <2>1
    <2> QED BY <2>2
<1>3. page[r] \in {"take", "view", "added"}
    BY <1>1, <1>2
<1> QED BY <1>3 DEF Asking

\* Who has read a key has a value that was answered.
LEMMA ReadAnswered ==
    ASSUME TypeOK, Asking, Caching, NEW r \in Requests, Hit(r) \/ Fetch(r)
    PROVE  /\ todo[r] # << >> /\ Head(todo[r]) \in Keys
           /\ \E value \in Value :
                /\ Read(r, Head(todo[r]), value)
                /\ Head(todo[r]) = "quiz" => value.rows # {}
<1> DEFINE k == Head(todo[r])
<1>1. todo[r] # << >>
    BY DEF Hit, Fetch, Asking
<1>2. k \in Keys
    BY <1>1, ReadsOn
<1>3. CASE Hit(r)
    <2>1. cache[k] # Absent /\ cache[k] \in Entry /\ EntryIsFresh(k, cache[k])
        BY <1>2, <1>3 DEF Hit, Caching, TypeOK
    <2>2. cache[k].value \in Value /\ (k = "quiz" => cache[k].value.rows # {})
        BY <2>1 DEF Entry, EntryIsFresh, Answered
    <2> QED BY <1>1, <1>2, <1>3, <2>2 DEF Hit
<1>4. CASE Fetch(r)
    <2>1. Answer[k] \in Value /\ (k = "quiz" => Answer[k].rows # {})
        BY <1>1, <1>2, AnswerIsCurrent, QuizIsThere
    <2> QED BY <1>1, <1>2, <1>4, <2>1 DEF Fetch
<1> QED BY <1>3, <1>4

\* A row that is written is there.
LEMMA WriteKeepsQuiz ==
    ASSUME TypeOK, NEW s, NEW l, WriteQuiz(s, l), s \in Statuses, l \in Limits
    PROVE  quiz' # Absent
<1>1. quiz' \in QuizRow
    BY DEF WriteQuiz, QuizRow, TypeOK
<1> QED BY <1>1

\* What a page has read and what it has still to read.
LEMMA ServingInductive ==
    ASSUME TypeOK, TypeOK', Numbered, Asking, LimitRead, Caching, [Next]_vars
    PROVE  Asking' /\ LimitRead'
<1>1. ASSUME NEW r \in Requests, NEW p \in Pages, Ask(r, p) PROVE Asking' /\ LimitRead'
    <2>1. /\ page'[r] = p /\ todo'[r] = Reads(p) /\ page[r] = Absent
          /\ UNCHANGED <<quiz, missed, got>> /\ (quiz # Absent \/ p \in {"mine", "listed"})
          /\ \A q \in Requests \ {r} : page'[q] = page[q] /\ todo'[q] = todo[q]
        BY <1>1 DEF Ask, TypeOK, tables
    <2> QED BY <2>1, ReadsKeys, OthersServed DEF Asking
<1>2. ASSUME NEW r \in Requests, Hit(r) \/ Fetch(r) PROVE Asking' /\ LimitRead'
    <2> DEFINE k == Head(todo[r])
    <2>1. todo[r] # << >> /\ k \in Keys
        BY <1>2, ReadAnswered
    <2>2. PICK value \in Value : Read(r, k, value) /\ (k = "quiz" => value.rows # {})
        BY <1>2, ReadAnswered
    <2>3. /\ got'[r] = [got[r] EXCEPT ![k] = [value |-> value, at |-> now]]
          /\ todo'[r] = Tail(todo[r])
          /\ \A q \in Requests \ {r} : got'[q] = got[q] /\ todo'[q] = todo[q]
        BY <2>2 DEF Read, TypeOK
    <2>4. /\ UNCHANGED <<quiz, page>> /\ ~missed'[r]
          /\ \A q \in Requests \ {r} : missed'[q] = missed[q]
        BY <1>2 DEF Hit, Fetch, tables, TypeOK
    <2>5. /\ page'[r] = Absent => todo'[r] = << >>
          /\ todo'[r] # << >> /\ page'[r] \in {"mine", "listed"} => todo'[r] = <<page'[r]>>
        <3>1. page[r] # Absent
            BY <2>1 DEF Asking
        <3>2. page[r] \in {"mine", "listed"} => todo[r] = <<page[r]>> /\ page[r] \in Keys
            BY <2>1 DEF Asking, Keys
        <3> QED BY <2>1, <2>3, <2>4, <3>1, <3>2, ReadsOn
    <2>6. ASSUME page[r] = "take"
          PROVE  got'[r]["quiz"] \in Reading /\ got'[r]["quiz"].value.rows # {}
        <3>1. CASE k = "quiz"
            <4>1. got'[r]["quiz"] = [value |-> value, at |-> now]
                BY <2>3, <3>1 DEF TypeOK, Keys
            <4> QED BY <2>2, <3>1, <4>1 DEF Reading, TypeOK
        <3>2. CASE k # "quiz"
            <4>1. got'[r]["quiz"] = got[r]["quiz"]
                BY <2>3, <3>2 DEF TypeOK, Keys
            <4> QED BY <2>1, <2>6, <3>2, <4>1 DEF LimitRead
        <3> QED BY <3>1, <3>2
    <2>7. page[r] \in {"take", "view", "added"} => quiz # Absent
        BY DEF Asking
    <2> QED BY <2>3, <2>4, <2>5, <2>6, <2>7, OthersServed
<1>3. ASSUME NEW r \in Requests, Miss(r) PROVE Asking' /\ LimitRead'
    <2>1. /\ UNCHANGED <<quiz, page, todo, got>> /\ todo[r] # << >>
          /\ \A q \in Requests \ {r} : missed'[q] = missed[q]
        BY <1>3 DEF Miss, tables, TypeOK
    <2> QED BY <2>1, OthersServed DEF Asking, LimitRead
<1>4. ASSUME NEW r \in Requests, Respond(r) PROVE Asking' /\ LimitRead'
    <2>1. /\ UNCHANGED quiz /\ page'[r] = Absent /\ todo'[r] = << >> /\ ~missed'[r]
          /\ \A q \in Requests \ {r} : /\ page'[q] = page[q] /\ todo'[q] = todo[q]
                                       /\ missed'[q] = missed[q] /\ got'[q] = got[q]
        BY <1>4 DEF Respond, tables, TypeOK
    <2> QED BY <2>1, OthersServed
<1>5. ASSUME UNCHANGED readerVars, quiz # Absent => quiz' # Absent PROVE Asking' /\ LimitRead'
    BY <1>5 DEF Asking, LimitRead, readerVars
<1>6. CASE Restart
    BY <1>6 DEF Restart, Asking, LimitRead
<1>7. ASSUME NEW w \in Admins,
             \/ \E l \in Limits : CreateQuiz(w, l)
             \/ StoreCreated(w) \/ Unlist(w) \/ ArchiveQuiz(w) \/ DeleteQuizKey(w)
             \/ DeleteQuestionsKey(w) \/ SkipCall(w)
      PROVE  UNCHANGED readerVars /\ (quiz # Absent => quiz' # Absent)
    <2>1. CASE \E l \in Limits : CreateQuiz(w, l)
        BY <2>1, WriteKeepsQuiz DEF CreateQuiz, Statuses
    <2>2. CASE ArchiveQuiz(w)
        <3>1. WriteQuiz("archived", quiz.limit) /\ "archived" \in Statuses /\ quiz.limit \in Limits
            BY <2>2 DEF ArchiveQuiz, Statuses, QuizRow, TypeOK
        <3> QED BY <2>2, <3>1, WriteKeepsQuiz DEF ArchiveQuiz
    <2>3. CASE \/ StoreCreated(w) \/ Unlist(w) \/ DeleteQuizKey(w) \/ DeleteQuestionsKey(w)
               \/ SkipCall(w)
        BY <2>3 DEF StoreCreated, Unlist, DeleteQuizKey, DeleteQuestionsKey, SkipCall, tables
    <2> QED BY <1>7, <2>1, <2>2, <2>3
<1>8. ASSUME (\E s \in Statuses, l \in Limits : UpdateQuiz(s, l)) \/ RestoreQuiz
      PROVE  UNCHANGED readerVars /\ (quiz # Absent => quiz' # Absent)
    <2>1. CASE \E s \in Statuses, l \in Limits : UpdateQuiz(s, l)
        BY <2>1, WriteKeepsQuiz DEF UpdateQuiz
    <2>2. CASE RestoreQuiz
        <3>1. WriteQuiz("available", quiz.limit) /\ "available" \in Statuses /\ quiz.limit \in Limits
            BY <2>2 DEF RestoreQuiz, Statuses, QuizRow, TypeOK
        <3> QED BY <2>2, <3>1, WriteKeepsQuiz DEF RestoreQuiz
    <2> QED BY <1>8, <2>1, <2>2
<1>9. CASE EditQuestion \/ Advance \/ UNCHANGED vars
    BY <1>5, <1>9 DEF EditQuestion, Advance, vars, tables, readerVars
<1>10. ASSUME NEW f \in fills, Store(f) \/ Lose(f)
       PROVE  UNCHANGED readerVars /\ (quiz # Absent => quiz' # Absent)
    BY <1>10 DEF Store, Lose, tables
<1> QED BY <1>1, <1>2, <1>3, <1>4, <1>5, <1>6, <1>7, <1>8, <1>9, <1>10 DEF Next

-----------------------------------------------------------------------------
(* What is on its way, stored and shown                                    *)

\* What a query answers now has not been replaced.
LEMMA AnswerNotReplaced ==
    ASSUME TypeOK, Numbered, NEW k \in Keys, k = "quiz" => quiz # Absent
    PROVE  Answered(k, Answer[k]) /\ When(k, Answer[k]) = Absent
<1>1. /\ Answer[k].edit = Current(TableOf(k)) /\ Current(TableOf(k)) \in Nat
      /\ k = "quiz" => Answer[k].rows # {}
    BY AnswerIsCurrent
<1>2. TableOf(k) \in Tables /\ Current(TableOf(k)) \in 0 .. MaxEdits
    BY EditsCounted DEF TableOf, Tables, Current
<1>3. ~(Current(TableOf(k)) < Current(TableOf(k)))
    BY <1>1
<1> QED BY <1>1, <1>2, <1>3 DEF Answered, When, Numbered

\* A value is stored with the time to live that counts from now.
LEMMA SetIsFresh ==
    ASSUME TypeOK, NEW f \in Fill, FillIsFresh(f), When(f.key, f.value) \in Nat \cup {Absent}
    PROVE  EntryIsFresh(f.key, [value |-> f.value, expires |-> now + f.ttl])
<1> DEFINE e == [value |-> f.value, expires |-> now + f.ttl]
<1>1. /\ f.ttl \in Nat \ {0} /\ f.since \in Nat /\ now \in Nat
      /\ e.value = f.value /\ e.expires = now + f.ttl
    BY DEF Fill, TypeOK
<1>2. Answered(f.key, e.value) /\ f.ttl \in Kept(f.key) /\ now < e.expires /\ e.expires <= now + f.ttl
    BY <1>1 DEF FillIsFresh
<1>3. When(f.key, f.value) # Absent => e.expires <= When(f.key, f.value) + FillDelay + f.ttl
    BY <1>1 DEF FillIsFresh
<1> QED BY <1>1, <1>2, <1>3 DEF EntryIsFresh

\* Keys that are left or deleted are as fresh as before.
LEMMA CachingKept ==
    ASSUME TypeOK, TypeOK', Numbered, Numbered', Later, Caching,
           \A k \in Keys : cache'[k] \in {cache[k], Absent}
    PROVE  Caching'
<1> SUFFICES ASSUME NEW k \in Keys, cache'[k] # Absent PROVE EntryIsFresh(k, cache[k])'
    BY DEF Caching
<1>1. cache'[k] = cache[k] /\ cache[k] \in Entry /\ EntryIsFresh(k, cache[k])
    BY DEF Caching, TypeOK
<1>2. PICK e \in Entry : e = cache[k] /\ e = cache'[k] /\ EntryIsFresh(k, e)
    BY <1>1
<1>3. EntryIsFresh(k, e)'
    BY <1>2, EntryStaysFresh
<1> QED BY <1>2, <1>3 DEF EntryIsFresh

\* So are the keys after one is stored.
LEMMA CachingStored ==
    ASSUME TypeOK, TypeOK', Numbered, Numbered', Later, Caching,
           NEW f \in Fill, FillIsFresh(f), Set(f)
    PROVE  Caching'
<1> SUFFICES ASSUME NEW k \in Keys, cache'[k] # Absent PROVE EntryIsFresh(k, cache[k])'
    BY DEF Caching
<1>1. f.key \in Keys /\ f.value \in Value
    BY DEF Fill
<1>2. CASE k = f.key
    <2> DEFINE e == [value |-> f.value, expires |-> now + f.ttl]
    <2>1. cache'[k] = e
        BY <1>2 DEF Set, Expiry, TypeOK
    <2>2. EntryIsFresh(k, e)
        BY <1>1, <1>2, SetIsFresh, ValueNumbered DEF FillIsFresh
    <2>3. e \in Entry
        BY DEF TypeOK, Fill, Entry
    <2>4. PICK g \in Entry : g = cache'[k] /\ EntryIsFresh(k, g)
        BY <2>1, <2>2, <2>3
    <2>5. EntryIsFresh(k, g)'
        BY <2>4, EntryStaysFresh
    <2> QED BY <2>4, <2>5 DEF EntryIsFresh
<1>3. CASE k # f.key
    <2>1. cache'[k] = cache[k] /\ cache[k] \in Entry /\ EntryIsFresh(k, cache[k])
        BY <1>3 DEF Set, Caching, TypeOK
    <2>2. PICK e \in Entry : e = cache[k] /\ e = cache'[k] /\ EntryIsFresh(k, e)
        BY <2>1
    <2>3. EntryIsFresh(k, e)'
        BY <2>2, EntryStaysFresh
    <2> QED BY <2>2, <2>3 DEF EntryIsFresh
<1> QED BY <1>2, <1>3

\* What pages have read stays fresh, and so is what they read next.
LEMMA ShowingKept ==
    ASSUME TypeOK, TypeOK', Numbered, Numbered', Later, Showing,
           \A r \in Requests, k \in Keys :
              \/ got'[r][k] \in {got[r][k], Absent}
              \/ \E g \in Reading : got'[r][k] = g /\ ReadingIsFresh(k, g)
    PROVE  Showing'
<1> SUFFICES ASSUME NEW r \in Requests, NEW k \in Keys, got'[r][k] # Absent
             PROVE  ReadingIsFresh(k, got[r][k])'
    BY DEF Showing
<1>1. PICK g \in Reading : g = got'[r][k] /\ ReadingIsFresh(k, g)
    BY DEF Showing, TypeOK
<1>2. ReadingIsFresh(k, g)'
    BY <1>1, ReadingStaysFresh
<1> QED BY <1>1, <1>2 DEF ReadingIsFresh

\* What is on its way stays fresh, and so is what sets out.
LEMMA FillsKept ==
    ASSUME TypeOK, TypeOK', Numbered, Numbered', Later, Filling,
           \A f \in fills' : f \in fills \/ FillIsFresh(f)
    PROVE  \A f \in fills' : FillIsFresh(f)'
<1> SUFFICES ASSUME NEW f \in fills' PROVE FillIsFresh(f)'
    OBVIOUS
<1>1. PICK g \in Fill : g = f /\ FillIsFresh(g)
    BY DEF Filling, TypeOK
<1>2. FillIsFresh(g)'
    BY <1>1, FillStaysFresh
<1> QED BY <1>1, <1>2 DEF FillIsFresh

\* A row that CreateQuiz is about to store stays fresh.
LEMMA CreatedKept ==
    ASSUME TypeOK, TypeOK', Numbered, Numbered', Later, Filling,
           created' \in {created, Absent}
    PROVE  created' # Absent => FillIsFresh(created)' /\ created'.key = "quiz"
<1> SUFFICES ASSUME created' # Absent PROVE FillIsFresh(created)' /\ created'.key = "quiz"
    OBVIOUS
<1>1. PICK g \in Fill : g = created /\ g = created' /\ FillIsFresh(g) /\ g.key = "quiz"
    BY DEF Filling, TypeOK
<1>2. FillIsFresh(g)'
    BY <1>1, FillStaysFresh
<1> QED BY <1>1, <1>2 DEF FillIsFresh

\* A goroutine, and CreateQuiz, store what is fresh.
LEMMA FillingInductive ==
    ASSUME TypeOK, TypeOK', Numbered, Numbered', Later, Asking, LimitRead, Filling,
           [Next]_vars, ~Advance
    PROVE  Filling'
<1>1. ASSUME UNCHANGED <<created, step>>, quiz # Absent => quiz' # Absent,
             \A f \in fills' : f \in fills \/ FillIsFresh(f)
      PROVE  Filling'
    <2>1. \A f \in fills' : FillIsFresh(f)'
        BY <1>1, FillsKept
    <2>2. created' # Absent => FillIsFresh(created)' /\ created'.key = "quiz"
        BY <1>1, CreatedKept
    <2> QED BY <1>1, <2>1, <2>2 DEF Filling
<1>2. ASSUME NEW w \in Admins, NEW label, GoTo(w, label), label # "store",
             quiz # Absent => quiz' # Absent, UNCHANGED fills,
             created' \in {created, Absent}, created' = created \/ step[w] = "store"
      PROVE  Filling'
    <2>1. \A f \in fills' : FillIsFresh(f)'
        BY <1>2, FillsKept
    <2>2. created' # Absent => FillIsFresh(created)' /\ created'.key = "quiz"
        BY <1>2, CreatedKept
    <2>3. \A v \in Admins : step'[v] = IF v = w THEN label ELSE step[v]
        BY <1>2 DEF GoTo, TypeOK
    <2> QED BY <1>2, <2>1, <2>2, <2>3 DEF Filling
<1>3. ASSUME NEW r \in Requests, Fetch(r) PROVE Filling'
    <2> DEFINE k == Head(todo[r])
               f == [key |-> k, value |-> Answer[k], ttl |-> TTLOf(r, k), since |-> now]
    <2>1. todo[r] # << >>
        BY <1>3 DEF Fetch, Asking
    <2>2. k \in Keys /\ (k = "quiz" => quiz # Absent)
        BY <2>1, ReadsOn, QuizIsThere
    <2>3. Answered(k, Answer[k]) /\ When(k, Answer[k]) = Absent /\ TTLOf(r, k) \in Kept(k)
        BY <2>1, <2>2, AnswerNotReplaced, TTLOfKept
    <2>4. FillIsFresh(f)
        BY <2>3 DEF FillIsFresh, TypeOK
    <2>5. fills' = fills \cup {f} /\ UNCHANGED <<created, step, quiz>>
        BY <1>3 DEF Fetch, writerVars, tables
    <2> QED BY <1>1, <2>4, <2>5
<1>4. ASSUME NEW r \in Requests,
             \/ \E p \in Pages : Ask(r, p)
             \/ Hit(r) \/ Miss(r) \/ Respond(r)
      PROVE  UNCHANGED <<created, step, quiz, fills>>
    BY <1>4 DEF Ask, Hit, Miss, Respond, tables, writerVars
<1>5. ASSUME NEW f \in fills, Store(f) \/ Lose(f)
      PROVE  UNCHANGED <<created, step, quiz>> /\ fills' \subseteq fills
    BY <1>5 DEF Store, Lose, tables, writerVars
<1>6. ASSUME NEW w \in Admins, NEW l \in Limits, CreateQuiz(w, l) PROVE Filling'
    <2>1. WriteQuiz("available", l) /\ "available" \in Statuses /\ quiz = Absent /\ UNCHANGED fills
          /\ \A v \in Admins : step'[v] = IF v = w THEN "store" ELSE step[v]
        BY <1>6 DEF CreateQuiz, Statuses, GoTo, TypeOK
    <2>2. /\ quiz' \in QuizRow /\ quiz'.edit = edits + 1 /\ edits + 1 \in 0 .. MaxEdits
          /\ edits + 1 = Current("quizzes")'
        BY <2>1, WriteTypes DEF Current, QuizEdit
    <2>3. /\ created' \in Fill /\ created'.key = "quiz" /\ created'.ttl = TTL
          /\ created'.since = now /\ created'.value.edit = edits + 1
          /\ created'.value.rows = {quiz'}
        BY <1>6, <2>2 DEF CreateQuiz, Fill, Value, Keys, TypeOK
    <2>4. replaced'["quizzes"][edits + 1] = Absent
        BY <2>2 DEF Numbered, Tables
    <2>5. FillIsFresh(created)'
        BY <2>2, <2>3, <2>4 DEF FillIsFresh, Answered, When, TableOf, Kept, Later, TypeOK
    <2>6. \A f \in fills' : FillIsFresh(f)'
        BY <2>1, FillsKept
    <2>7. created' # Absent /\ quiz' # Absent
        BY <2>2, <2>3
    <2> QED BY <2>1, <2>3, <2>5, <2>6, <2>7 DEF Filling
<1>7. ASSUME NEW w \in Admins,
             \/ StoreCreated(w) \/ Unlist(w) \/ DeleteQuizKey(w)
             \/ DeleteQuestionsKey(w) \/ SkipCall(w)
      PROVE  Filling'
    <2>1. /\ \E label : label # "store" /\ GoTo(w, label)
          /\ UNCHANGED <<quiz, fills>> /\ created' \in {created, Absent}
          /\ created' = created \/ step[w] = "store"
        BY <1>7 DEF StoreCreated, Unlist, DeleteQuizKey, DeleteQuestionsKey, SkipCall, tables
    <2> QED BY <1>2, <2>1
<1>8. ASSUME NEW w \in Admins, ArchiveQuiz(w) PROVE Filling'
    <2>1. GoTo(w, "delete") /\ UNCHANGED <<fills, created>>
        BY <1>8 DEF ArchiveQuiz
    <2>2. quiz # Absent => quiz' # Absent
        BY <1>8, WriteKeepsQuiz DEF ArchiveQuiz, Statuses, QuizRow, TypeOK
    <2> QED BY <1>2, <2>1, <2>2
<1>9. ASSUME NEW s \in Statuses, NEW l \in Limits, UpdateQuiz(s, l) PROVE Filling'
    BY <1>1, <1>9, WriteKeepsQuiz DEF UpdateQuiz, writerVars
<1>10. CASE RestoreQuiz
    <2>1. UNCHANGED <<fills, created, step>>
        BY <1>10 DEF RestoreQuiz, writerVars
    <2>2. quiz # Absent => quiz' # Absent
        BY <1>10, WriteKeepsQuiz DEF RestoreQuiz, Statuses, QuizRow, TypeOK
    <2> QED BY <1>1, <2>1, <2>2
<1>11. CASE EditQuestion \/ UNCHANGED vars
    BY <1>1, <1>11 DEF EditQuestion, vars, writerVars
<1>12. CASE Restart
    BY <1>12 DEF Restart, Filling
<1> QED BY <1>1, <1>3, <1>4, <1>5, <1>6, <1>7, <1>8, <1>9, <1>10, <1>11, <1>12 DEF Next

\* A key that is stored is fresh.
LEMMA CachingInductive ==
    ASSUME TypeOK, TypeOK', Numbered, Numbered', Later, Filling, Caching, [Next]_vars, ~Advance
    PROVE  Caching'
<1>1. ASSUME UNCHANGED cache PROVE Caching'
    BY <1>1, CachingKept
<1>2. ASSUME NEW f \in fills, Store(f) PROVE Caching'
    BY <1>2, CachingStored DEF Store, Filling, TypeOK
<1>3. ASSUME NEW w \in Admins, StoreCreated(w) PROVE Caching'
    BY <1>3, CachingStored DEF StoreCreated, Filling, TypeOK
<1>4. ASSUME NEW k \in Keys, Del(k) PROVE Caching'
    BY <1>4, CachingKept DEF Del, TypeOK
<1>5. ASSUME NEW w \in Admins, Unlist(w) \/ DeleteQuizKey(w) \/ DeleteQuestionsKey(w)
      PROVE  \E k \in Keys : Del(k)
    BY <1>5 DEF Unlist, DeleteQuizKey, DeleteQuestionsKey, Keys
<1>6. ASSUME NEW r \in Requests,
             \/ \E p \in Pages : Ask(r, p)
             \/ Hit(r) \/ Miss(r) \/ Fetch(r) \/ Respond(r)
      PROVE  UNCHANGED cache
    BY <1>6 DEF Ask, Hit, Miss, Fetch, Respond
<1>7. ASSUME NEW w \in Admins,
             (\E l \in Limits : CreateQuiz(w, l)) \/ ArchiveQuiz(w) \/ SkipCall(w)
      PROVE  UNCHANGED cache
    BY <1>7 DEF CreateQuiz, ArchiveQuiz, SkipCall
<1>8. CASE \/ \E f \in fills : Lose(f)
           \/ \E s \in Statuses, l \in Limits : UpdateQuiz(s, l)
           \/ RestoreQuiz \/ EditQuestion \/ Restart \/ UNCHANGED vars
    BY <1>1, <1>8 DEF Lose, UpdateQuiz, RestoreQuiz, EditQuestion, Restart, vars
<1> QED BY <1>1, <1>2, <1>3, <1>4, <1>5, <1>6, <1>7, <1>8 DEF Next

\* What a page reads is fresh.
LEMMA ShowingInductive ==
    ASSUME TypeOK, TypeOK', Numbered, Numbered', Later, Asking, Caching, Showing,
           [Next]_vars, ~Advance
    PROVE  Showing'
<1>1. ASSUME UNCHANGED got PROVE Showing'
    BY <1>1, ShowingKept
<1>2. ASSUME NEW r \in Requests, Hit(r) \/ Fetch(r) PROVE Showing'
    <2> DEFINE k == Head(todo[r])
    <2>1. todo[r] # << >> /\ k \in Keys
        BY <1>2, ReadAnswered
    <2>2. PICK g \in Reading : ReadingIsFresh(k, g) /\ got' = [got EXCEPT ![r][k] = g]
        <3>1. CASE Hit(r)
            <4> DEFINE e == cache[k]
            <4>1. e \in Entry /\ EntryIsFresh(k, e)
                BY <2>1, <3>1 DEF Hit, Caching, TypeOK
            <4>2. [value |-> e.value, at |-> now] \in Reading
                BY <4>1 DEF Entry, Reading, TypeOK
            <4>3. When(k, e.value) \in Nat \cup {Absent}
                BY <2>1, <4>1, ValueNumbered DEF Entry, EntryIsFresh
            <4>4. PICK d \in Kept(k) :
                     When(k, e.value) # Absent => e.expires <= When(k, e.value) + FillDelay + d
                BY <4>1 DEF EntryIsFresh
            <4>5. d \in Nat /\ e.expires \in Nat /\ now \in Nat /\ now < e.expires
                BY <4>1, KeptInNat DEF Entry, EntryIsFresh, TypeOK
            <4>6. When(k, e.value) # Absent => now <= When(k, e.value) + FillDelay + d
                BY <4>3, <4>4, <4>5
            <4>7. ReadingIsFresh(k, [value |-> e.value, at |-> now])
                BY <4>1, <4>4, <4>5, <4>6 DEF ReadingIsFresh, EntryIsFresh
            <4> QED BY <3>1, <4>2, <4>7 DEF Hit, Read
        <3>2. CASE Fetch(r)
            <4>1. Answer[k] \in Value /\ Answered(k, Answer[k]) /\ When(k, Answer[k]) = Absent
                BY <2>1, AnswerIsCurrent, AnswerNotReplaced, QuizIsThere
            <4>2. [value |-> Answer[k], at |-> now] \in Reading
                BY <4>1 DEF Reading, TypeOK
            <4>3. ReadingIsFresh(k, [value |-> Answer[k], at |-> now])
                BY <4>1 DEF ReadingIsFresh, TypeOK
            <4> QED BY <3>2, <4>2, <4>3 DEF Fetch, Read
        <3> QED BY <1>2, <3>1, <3>2
    <2>3. \A q \in Requests, j \in Keys :
             got'[q][j] = IF q = r /\ j = k THEN g ELSE got[q][j]
        BY <2>1, <2>2 DEF TypeOK
    <2> QED BY <2>2, <2>3, ShowingKept
<1>3. ASSUME NEW r \in Requests, Respond(r) PROVE Showing'
    BY <1>3, ShowingKept DEF Respond, TypeOK
<1>4. CASE Restart
    BY <1>4, ShowingKept DEF Restart
<1>5. ASSUME NEW r \in Requests, (\E p \in Pages : Ask(r, p)) \/ Miss(r) PROVE UNCHANGED got
    BY <1>5 DEF Ask, Miss
<1>6. ASSUME NEW w \in Admins,
             \/ \E l \in Limits : CreateQuiz(w, l)
             \/ StoreCreated(w) \/ Unlist(w) \/ ArchiveQuiz(w) \/ DeleteQuizKey(w)
             \/ DeleteQuestionsKey(w) \/ SkipCall(w)
      PROVE  UNCHANGED got
    BY <1>6 DEF CreateQuiz, StoreCreated, Unlist, ArchiveQuiz, DeleteQuizKey,
           DeleteQuestionsKey, SkipCall, readerVars
<1>7. CASE \/ \E f \in fills : Store(f) \/ Lose(f)
           \/ \E s \in Statuses, l \in Limits : UpdateQuiz(s, l)
           \/ RestoreQuiz \/ EditQuestion \/ UNCHANGED vars
    BY <1>1, <1>7 DEF Store, Lose, UpdateQuiz, RestoreQuiz, EditQuestion, readerVars, vars
<1> QED BY <1>1, <1>2, <1>3, <1>4, <1>5, <1>6, <1>7 DEF Next

-----------------------------------------------------------------------------
(* A second passes                                                         *)

\* Redis drops what expires, and nothing is on its way for longer than a delay.
LEMMA AdvanceKeepsFresh ==
    ASSUME TypeOK, TypeOK', Numbered, Fresh, Advance
    PROVE  Numbered' /\ Fresh'
<1>1. /\ now \in Nat /\ now' = now + 1
      /\ UNCHANGED <<quiz, questions, edits, replaced, fills, got, step, created>>
    BY DEF Advance, TypeOK, tables, readerVars, writerVars
<1>2. \A k \in Keys, value \in Value :
        (Answered(k, value)' <=> Answered(k, value)) /\ When(k, value)' = When(k, value)
    BY <1>1 DEF Answered, When, Current, QuizEdit
<1>3. \A t \in Tables : Current(t)' = Current(t)
    BY <1>1 DEF Current, QuizEdit
<1>4. Numbered'
    <2> SUFFICES ASSUME NEW t \in Tables, NEW n \in 0 .. MaxEdits, replaced[t][n] # Absent
                 PROVE  n < Current(t) /\ replaced[t][n] <= now + 1
        BY <1>1, <1>3 DEF Numbered
    <2>1. replaced[t][n] \in Nat
        BY DEF TypeOK
    <2> QED BY <1>1, <2>1 DEF Numbered
<1>5. ASSUME NEW f \in InFlight, FillIsFresh(f) PROVE FillIsFresh(f)'
    <2>1. f.key \in Keys /\ f.value \in Value /\ f.since \in Nat
        BY DEF InFlight, TypeOK, Fill
    <2>2. f.since <= now /\ now < f.since + FillDelay
        BY <1>5 DEF Advance, FillIsFresh
    <2>3. f.since <= now + 1 /\ now + 1 <= f.since + FillDelay
        BY <1>1, <2>1, <2>2
    <2> QED BY <1>1, <1>2, <1>5, <2>1, <2>3 DEF FillIsFresh
<1>6. Filling'
    <2>1. \A f \in fills : FillIsFresh(f)'
        BY <1>5 DEF Fresh, Filling, InFlight
    <2>2. created # Absent => FillIsFresh(created)' /\ created.key = "quiz"
        <3>1. CASE created # Absent
            <4>1. PICK g \in InFlight : g = created /\ FillIsFresh(g) /\ g.key = "quiz"
                BY <3>1 DEF Fresh, Filling, InFlight
            <4>2. FillIsFresh(g)'
                BY <1>5, <4>1
            <4> QED BY <1>1, <4>1, <4>2 DEF FillIsFresh
        <3> QED BY <3>1
    <2> QED BY <1>1, <2>1, <2>2 DEF Fresh, Filling
<1>7. Caching'
    <2> SUFFICES ASSUME NEW k \in Keys, cache'[k] # Absent PROVE EntryIsFresh(k, cache[k])'
        BY DEF Caching
    <2>1. cache'[k] = cache[k] /\ cache[k] # Absent /\ cache[k].expires > now'
        BY DEF Advance, TypeOK
    <2>2. PICK e \in Entry : e = cache[k] /\ e = cache'[k] /\ EntryIsFresh(k, e) /\ now' < e.expires
        BY <2>1 DEF Fresh, Caching, TypeOK
    <2>3. e.value \in Value /\ e.expires \in Nat
        BY DEF Entry
    <2>4. PICK d \in Kept(k) :
             /\ e.expires <= now + d
             /\ When(k, e.value) # Absent => e.expires <= When(k, e.value) + FillDelay + d
        BY <2>2 DEF EntryIsFresh
    <2>5. d \in Nat
        BY KeptInNat
    <2>6. e.expires <= now' + d
        BY <1>1, <2>3, <2>4, <2>5
    <2>7. EntryIsFresh(k, e)'
        BY <1>2, <2>2, <2>3, <2>4, <2>6 DEF EntryIsFresh
    <2> QED BY <2>2, <2>7 DEF EntryIsFresh
<1>8. Showing'
    <2> SUFFICES ASSUME NEW r \in Requests, NEW k \in Keys, got[r][k] # Absent
                 PROVE  ReadingIsFresh(k, got[r][k])'
        BY <1>1 DEF Showing
    <2>1. PICK g \in Reading : g = got[r][k] /\ g = got'[r][k] /\ ReadingIsFresh(k, g)
        BY <1>1 DEF Fresh, Showing, TypeOK
    <2>2. g.value \in Value /\ g.at \in Nat
        BY DEF Reading
    <2>3. ReadingIsFresh(k, g)'
        BY <1>1, <1>2, <2>1, <2>2 DEF ReadingIsFresh
    <2> QED BY <2>1, <2>3 DEF ReadingIsFresh
<1> QED BY <1>4, <1>6, <1>7, <1>8 DEF Fresh

-----------------------------------------------------------------------------
(* Invalidation                                                            *)

\* Tables hold nothing older than before.
LEMMA CurrentGrows ==
    ASSUME TypeOK, TypeOK', Later \/ Advance, NEW k \in Keys
    PROVE  /\ Current(TableOf(k)) \in Nat /\ Current(TableOf(k))' \in Nat
           /\ Current(TableOf(k)) <= Current(TableOf(k))'
<1>1. Current(TableOf(k)) \in Nat /\ Current(TableOf(k))' \in Nat
    BY DEF TypeOK, Current, QuizEdit, QuizRow
<1>2. CASE Later
    <2>1. TableOf(k) \in Tables
        BY DEF TableOf, Tables
    <2> QED BY <1>1, <1>2, <2>1 DEF Later
<1>3. CASE Advance
    BY <1>1, <1>3 DEF Advance, tables, Current, QuizEdit
<1> QED BY <1>1, <1>2, <1>3

\* After a deletion that met no goroutine, what sets out and what is stored is
\* as young as the deletion.
LEMMA PurgingKept ==
    ASSUME TypeOK, TypeOK', Later \/ Advance, Purging,
           \A k \in Keys : purged'[k] = purged[k],
           \A f \in InFlight' : f \in InFlight \/ Current(TableOf(f.key)) <= f.value.edit,
           \A k \in Keys : \/ cache'[k] \in {cache[k], Absent}
                           \/ \E f \in InFlight : f.key = k /\ cache'[k].value = f.value
    PROVE  Purging'
<1> SUFFICES ASSUME NEW k \in Keys, purged[k] # Absent, ~purged[k].racing
             PROVE  /\ purged[k].edit <= Current(TableOf(k))'
                    /\ \A f \in InFlight' : f.key = k => purged[k].edit <= f.value.edit
                    /\ cache'[k] # Absent => purged[k].edit <= cache'[k].value.edit
    BY DEF Purging
<1>1. purged[k].edit \in Nat /\ purged[k].edit <= Current(TableOf(k))
    BY DEF Purging, TypeOK, Purge
<1>2. purged[k].edit <= Current(TableOf(k))'
    BY <1>1, CurrentGrows
<1>3. ASSUME NEW f \in InFlight', f.key = k PROVE purged[k].edit <= f.value.edit
    <2>1. CASE f \in InFlight
        BY <1>3, <2>1 DEF Purging
    <2>2. CASE Current(TableOf(k)) <= f.value.edit
        <3>1. f.value.edit \in Nat
            BY DEF InFlight, TypeOK, Fill, Value
        <3> QED BY <1>1, <2>2, <3>1, CurrentGrows
    <2> QED BY <1>3, <2>1, <2>2
<1>4. cache'[k] # Absent => purged[k].edit <= cache'[k].value.edit
    BY DEF Purging
<1> QED BY <1>2, <1>3, <1>4

LEMMA PurgingInductive ==
    ASSUME TypeOK, TypeOK', Numbered, Later \/ Advance, Asking, Filling, Purging, [Next]_vars
    PROVE  Purging'
<1>1. ASSUME UNCHANGED purged, InFlight' \subseteq InFlight,
             \A k \in Keys : cache'[k] \in {cache[k], Absent}
      PROVE  Purging'
    BY <1>1, PurgingKept
<1>2. ASSUME NEW r \in Requests, Fetch(r) PROVE Purging'
    <2> DEFINE k == Head(todo[r])
               f == [key |-> k, value |-> Answer[k], ttl |-> TTLOf(r, k), since |-> now]
    <2>1. k \in Keys
        BY <1>2, ReadsOn DEF Fetch, Asking
    <2>2. f.key = k /\ f.value.edit = Current(TableOf(k)) /\ Current(TableOf(k)) \in Nat
        BY <2>1, AnswerIsCurrent
    <2>3. InFlight' = InFlight \cup {f} /\ UNCHANGED <<purged, cache>>
        BY <1>2 DEF Fetch, InFlight, writerVars
    <2> QED BY <2>2, <2>3, PurgingKept
<1>3. ASSUME NEW f \in fills, Store(f) PROVE Purging'
    <2>1. f \in InFlight /\ InFlight' \subseteq InFlight /\ UNCHANGED purged
        BY <1>3 DEF Store, InFlight, writerVars
    <2>2. \A k \in Keys : cache'[k] = cache[k] \/ (f.key = k /\ cache'[k].value = f.value)
        BY <1>3 DEF Store, Set, TypeOK
    <2> QED BY <2>1, <2>2, PurgingKept
<1>4. ASSUME NEW w \in Admins, NEW l \in Limits, CreateQuiz(w, l) PROVE Purging'
    <2>1. /\ created'.key = "quiz" /\ created'.value.edit = edits + 1
          /\ UNCHANGED <<purged, cache, fills>> /\ edits \in Nat
        BY <1>4 DEF CreateQuiz, TypeOK
    <2>2. Current(TableOf("quiz")) <= edits + 1
        BY <2>1, EditsCounted DEF Numbered, Current, TableOf, Tables
    <2>3. \A f \in InFlight' : f \in InFlight \/ f = created'
        BY <2>1 DEF InFlight
    <2> QED BY <2>1, <2>2, <2>3, PurgingKept
<1>5. ASSUME NEW w \in Admins, StoreCreated(w) PROVE Purging'
    <2>1. created \in InFlight /\ InFlight' \subseteq InFlight /\ UNCHANGED purged
        BY <1>5 DEF StoreCreated, Filling, InFlight
    <2>2. \A k \in Keys :
             cache'[k] = cache[k] \/ (created.key = k /\ cache'[k].value = created.value)
        BY <1>5 DEF StoreCreated, Set, TypeOK
    <2> QED BY <2>1, <2>2, PurgingKept
<1>6. ASSUME NEW k \in Keys, Del(k), UNCHANGED <<tables, fills, created>> PROVE Purging'
    <2>1. UNCHANGED InFlight /\ \A t \in Tables : UNCHANGED Current(t)
        BY <1>6 DEF tables, InFlight, Current, QuizEdit
    <2>2. \A j \in Keys : cache'[j] = (IF j = k THEN Absent ELSE cache[j])
        BY <1>6 DEF Del, TypeOK
    <2>3. /\ purged'[k] = [edit |-> Answer[k].edit, racing |-> Racing(k)]
          /\ \A j \in Keys \ {k} : purged'[j] = purged[j]
        BY <1>6 DEF Del, TypeOK
    <2>4. purged'[k].edit = Current(TableOf(k)) /\ Current(TableOf(k)) \in Nat
        BY <2>3, AnswerIsCurrent
    <2>5. ~purged'[k].racing => \A f \in InFlight : f.key # k
        BY <2>3 DEF Racing
    <2>6. \A j \in Keys : Current(TableOf(j))' = Current(TableOf(j))
        BY <2>1 DEF TableOf, Tables
    <2> QED BY <2>1, <2>2, <2>3, <2>4, <2>5, <2>6 DEF Purging
<1>7. ASSUME NEW w \in Admins, Unlist(w) \/ DeleteQuizKey(w) \/ DeleteQuestionsKey(w)
      PROVE  \E k \in Keys : Del(k) /\ UNCHANGED <<tables, fills, created>>
    BY <1>7 DEF Unlist, DeleteQuizKey, DeleteQuestionsKey, Keys
<1>8. ASSUME NEW r \in Requests,
             \/ \E p \in Pages : Ask(r, p)
             \/ Hit(r) \/ Miss(r) \/ Respond(r)
      PROVE  UNCHANGED <<purged, cache, fills, created>>
    BY <1>8 DEF Ask, Hit, Miss, Respond, writerVars
<1>9. ASSUME NEW w \in Admins, ArchiveQuiz(w) \/ SkipCall(w)
      PROVE  UNCHANGED <<purged, cache, fills>> /\ created' \in {created, Absent}
    BY <1>9 DEF ArchiveQuiz, SkipCall
<1>10. CASE \/ \E f \in fills : Lose(f)
            \/ \E s \in Statuses, l \in Limits : UpdateQuiz(s, l)
            \/ RestoreQuiz \/ EditQuestion \/ Restart \/ UNCHANGED vars
    <2>1. /\ UNCHANGED <<purged, cache>> /\ fills' \subseteq fills
          /\ created' \in {created, Absent}
        BY <1>10 DEF Lose, UpdateQuiz, RestoreQuiz, EditQuestion, Restart, vars, writerVars
    <2> QED BY <1>1, <2>1 DEF InFlight
<1>11. CASE Advance
    <2>1. UNCHANGED <<purged, fills, created>> /\ \A k \in Keys : cache'[k] \in {cache[k], Absent}
        BY <1>11 DEF Advance, writerVars, TypeOK
    <2> QED BY <1>1, <2>1 DEF InFlight
<1>12. ASSUME UNCHANGED <<purged, cache, fills>>, created' \in {created, Absent} PROVE Purging'
    BY <1>1, <1>12 DEF InFlight
<1> QED BY <1>2, <1>3, <1>4, <1>5, <1>6, <1>7, <1>8, <1>9, <1>10, <1>11, <1>12 DEF Next

-----------------------------------------------------------------------------

\* The inductive invariant holds always.
THEOREM Invariant == Spec => []IInv
<1>1. Init => IInv
    <2> SUFFICES ASSUME Init PROVE IInv
        OBVIOUS
    <2> USE DEF Init
    <2>1. TypeOK
        BY DEF TypeOK, Tables
    <2>2. Numbered
        BY DEF Numbered, Current, QuizEdit
    <2>3. Serving
        BY DEF Serving, Asking, LimitRead
    <2>4. Fresh
        BY DEF Fresh, Filling, Caching, Showing
    <2>5. Purging
        BY DEF Purging
    <2> QED BY <2>1, <2>2, <2>3, <2>4, <2>5 DEF IInv
<1>2. IInv /\ [Next]_vars => IInv'
    <2> SUFFICES ASSUME IInv, [Next]_vars PROVE IInv'
        OBVIOUS
    <2>1. TypeOK /\ Numbered /\ Asking /\ LimitRead /\ Filling /\ Caching /\ Showing /\ Purging
        BY DEF IInv, Serving, Fresh
    <2>2. TypeOK'
        BY <2>1, TypeInductive
    <2>3. Asking' /\ LimitRead'
        BY <2>1, <2>2, ServingInductive
    <2>4. CASE Advance
        BY <2>1, <2>2, <2>3, <2>4, AdvanceKeepsFresh, PurgingInductive DEF IInv, Serving, Fresh
    <2>5. CASE ~Advance
        <3>1. Numbered' /\ Later
            BY <2>1, <2>2, <2>5, NextIsLater
        <3>2. Filling' /\ Caching' /\ Showing' /\ Purging'
            BY <2>1, <2>2, <2>5, <3>1, FillingInductive, CachingInductive, ShowingInductive,
               PurgingInductive
        <3> QED BY <2>2, <2>3, <3>1, <3>2 DEF IInv, Serving, Fresh
    <2> QED BY <2>4, <2>5
<1> QED BY <1>1, <1>2, PTL DEF Spec

\* Pages, cache and writes have the types QuizCache gives them; no value is ever
\* on its way into Redis with a time to live of 0, which would be none.
THEOREM TypeCorrect == Spec => []TypeOK
<1>1. IInv => TypeOK
    BY DEF IInv
<1> QED BY <1>1, Invariant, PTL

\* What a page reads was replaced at most one time to live and one delay ago,
\* whoever edits, archives and stores meanwhile (GetOrFetch, DeleteQuiz, TakeQuiz).
THEOREM PagesAreFresh == Spec => []PagesFresh
<1>1. IInv => PagesFresh
    BY DEF IInv, Fresh, Showing, ReadingIsFresh, When, PagesFresh
<1> QED BY <1>1, Invariant, PTL

\* A key that DeleteQuiz or CreateQuiz deletes while no goroutine is on its way
\* to store it never again holds what was true before.
THEOREM InvalidationHolds == Spec => []InvalidationTakesEffect
<1>1. IInv => InvalidationTakesEffect
    <2> SUFFICES ASSUME IInv, NEW k \in Keys, purged[k] # Absent, cache[k] # Absent,
                        ~purged[k].racing
                 PROVE  cache[k].value.edit >= purged[k].edit
        BY DEF InvalidationTakesEffect
    <2>1. purged[k].edit <= cache[k].value.edit
        BY DEF IInv, Purging
    <2>2. purged[k].edit \in Nat /\ cache[k].value.edit \in Nat
        BY DEF IInv, TypeOK, Purge, Entry, Value
    <2> QED BY <2>1, <2>2
<1> QED BY <1>1, Invariant, PTL

=============================================================================
