----------------------------- MODULE QuizCache -----------------------------
(***************************************************************************)
(* The cache of quizzes and questions in Redis, its readers and the        *)
(* administrator's edits.                                                  *)
(*                                                                         *)
(* Every page reads a quiz through GetOrFetch: a hit is returned; a miss   *)
(* asks PostgreSQL, answers the request and stores what it got in a        *)
(* goroutine of its own, which may store it after whatever happens next.   *)
(* CreateQuiz and DeleteQuiz write the database and then the cache; all    *)
(* other edits leave the cache alone, so the time to live is what bounds   *)
(* how long a page can show what is no longer true.                        *)
(*                                                                         *)
(* One quiz, its questions, and the lists of quizzes of its creator and of *)
(* a student.  A row is its status, its time limit and, as history, the    *)
(* number of the edit that wrote it; the questions are the number of the   *)
(* edit that last changed one of them.  Images are never cached.           *)
(***************************************************************************)
EXTENDS Integers, Sequences, FiniteSets

CONSTANTS
    Requests,   \* slots for pages being served
    Admins,     \* slots for administrators' writes being served
    Pages,      \* bound: the kinds of page that are asked for
    Edits,      \* bound: the kinds of write that are sent
    Limits,     \* time limits a form sends, in seconds
    TTL,        \* the cache's default time to live (REDIS_CACHE_TTL)
    Grace,      \* seconds added to a time limit for the questions of a run
    FillDelay,  \* seconds from a database answer to its storing in Redis
    MaxEdits,   \* bound: edits that change the database
    MaxFills,   \* bound: goroutines storing at once
    MaxTime,    \* bound: the clock stops here
    Absent

Keys == {"quiz", "questions", "mine", "listed"}

\* A run, the editing page, the list after AddQuestion, one's own quizzes, all that are open.
PageKinds == {"take", "view", "added", "mine", "listed"}

ASSUME BoundsAssumption ==
    /\ Limits \subseteq Nat
    /\ TTL \in Nat \ {0}
    /\ Grace \in Nat \ {0}
    /\ FillDelay \in Nat
    /\ MaxEdits \in Nat
    /\ MaxFills \in Nat
    /\ MaxTime \in Nat

ASSUME KindsAssumption ==
    /\ Pages \subseteq PageKinds
    /\ Edits \subseteq {"update", "archive", "restore", "question"}

VARIABLES
    now,        \* seconds since the start
    quiz,       \* the row of quizzes, or Absent
    questions,  \* the edit that last changed the quiz's questions
    edits,      \* edits so far
    replaced,   \* history: replaced[t][n]: when what edit n left was replaced
    cache,      \* cache[k]: the Redis key, or Absent
    fills,      \* values on their way into the cache
    page,       \* page[r]: the page request r serves, or Absent
    todo,       \* todo[r]: the keys r has still to read
    missed,     \* missed[r]: the key at the head was not in the cache
    got,        \* got[r]: the value r read of each key, or Absent
    step,       \* step[w]: what the write w does next
    created,    \* the new quiz CreateQuiz is about to store, or Absent
    purged      \* history: purged[k]: how k was last deleted, or Absent

vars == <<now, quiz, questions, edits, replaced, cache, fills, page, todo,
          missed, got, step, created, purged>>

Tables == {"quizzes", "questions"}

Statuses == {"available", "archived"}

\* The quizzes row, and what GetOrFetch stores under a key: rows or a row,
\* reduced to what a reader uses, with the edit they are of.
QuizRow == [status : Statuses, limit : Limits, edit : Nat]

Value == [rows : SUBSET QuizRow, edit : Nat]

\* A key in Redis, a value on its way there, what a page has read, and a deletion.
Entry == [value : Value, expires : Nat]
Fill == [key : Keys, value : Value, ttl : Nat \ {0}, since : Nat]
Reading == [value : Value, at : Nat]
Purge == [edit : 0 .. MaxEdits, racing : BOOLEAN]

ASSUME AbsentAssumption ==
    Absent \notin QuizRow \cup PageKinds \cup Nat \cup Fill

\* Types; in particular every value on its way into Redis has a time to live above 0,
\* which Redis would take for none at all.
TypeOK ==
    /\ now \in Nat
    /\ quiz \in QuizRow \cup {Absent}
    /\ questions \in Nat
    /\ edits \in 0 .. MaxEdits
    /\ replaced \in [Tables -> [0 .. MaxEdits -> Nat \cup {Absent}]]
    /\ cache \in [Keys -> Entry \cup {Absent}]
    /\ fills \subseteq Fill
    /\ page \in [Requests -> Pages \cup {Absent}]
    /\ todo \in [Requests -> Seq(Keys)]
    /\ missed \in [Requests -> BOOLEAN]
    /\ got \in [Requests -> [Keys -> Reading \cup {Absent}]]
    /\ step \in [Admins -> {"idle", "store", "unlist", "delete", "deleteQuestions"}]
    /\ created \in Fill \cup {Absent}
    /\ purged \in [Keys -> Purge \cup {Absent}]

Init ==
    /\ now = 0
    /\ quiz = Absent
    /\ questions = 0
    /\ edits = 0
    /\ replaced = [t \in Tables |-> [n \in 0 .. MaxEdits |-> Absent]]
    /\ cache = [k \in Keys |-> Absent]
    /\ fills = {}
    /\ page = [r \in Requests |-> Absent]
    /\ todo = [r \in Requests |-> << >>]
    /\ missed = [r \in Requests |-> FALSE]
    /\ got = [r \in Requests |-> [k \in Keys |-> Absent]]
    /\ step = [w \in Admins |-> "idle"]
    /\ created = Absent
    /\ purged = [k \in Keys |-> Absent]

-----------------------------------------------------------------------------
(* What the database answers, and the cache                                *)

QuizEdit == IF quiz = Absent THEN 0 ELSE quiz.edit

Stored == {quiz} \ {Absent}

\* The queries behind the keys: GetQuizByID and GetQuizzesForUser do not ask
\* for the status of the creator's own quizzes.
Answer ==
    [k \in Keys |->
        CASE k = "questions" -> [rows |-> {}, edit |-> questions]
          [] k = "listed" -> [rows |-> {q \in Stored : q.status = "available"},
                              edit |-> QuizEdit]
          [] OTHER -> [rows |-> Stored, edit |-> QuizEdit]]

TableOf(k) == IF k = "questions" THEN "questions" ELSE "quizzes"

\* The order in which a page asks for its keys: a run and the editing page
\* read the quiz first, the list shown after AddQuestion the questions first.
Reads(p) ==
    CASE p \in {"take", "view"} -> <<"quiz", "questions">>
      [] p = "added" -> <<"questions", "quiz">>
      [] OTHER -> <<p>>

\* The questions of a run are kept as long as the session; the limit is that
\* of the row the page has just read.
TTLOf(r, k) ==
    IF page[r] = "take" /\ k = "questions"
    THEN (CHOOSE q \in got[r]["quiz"].value.rows : TRUE).limit + Grace
    ELSE TTL

\* SET with a time to live.
NeverExpires(ttl) == MaxTime + 1
Expiry(ttl) == now + ttl

Set(f) == cache' = [cache EXCEPT ![f.key] =
                        [value |-> f.value, expires |-> Expiry(f.ttl)]]

InFlight == fills \cup ({created} \ {Absent})

Racing(k) == \E f \in InFlight : f.key = k

\* DEL; as history, the edit it is as of and whether an answer is on its way.
Del(k) == /\ cache' = [cache EXCEPT ![k] = Absent]
          /\ purged' = [purged EXCEPT ![k] =
                            [edit |-> Answer[k].edit, racing |-> Racing(k)]]

-----------------------------------------------------------------------------
(* Pages: GetOrFetch, once per key                                         *)

readerVars == <<page, todo, missed, got>>
tables == <<quiz, questions, edits, replaced>>
writerVars == <<step, created, purged>>

\* A page of the quiz is asked for by its id, so the quiz exists.
Ask(r, p) ==
    /\ page[r] = Absent
    /\ quiz # Absent \/ p \in {"mine", "listed"}
    /\ page' = [page EXCEPT ![r] = p]
    /\ todo' = [todo EXCEPT ![r] = Reads(p)]
    /\ UNCHANGED <<now, tables, cache, fills, missed, got, writerVars>>

Read(r, k, value) ==
    /\ got' = [got EXCEPT ![r][k] = [value |-> value, at |-> now]]
    /\ todo' = [todo EXCEPT ![r] = Tail(@)]

\* cache.Get finds the key.
Hit(r) ==
    /\ todo[r] # << >> /\ ~missed[r]
    /\ cache[Head(todo[r])] # Absent
    /\ Read(r, Head(todo[r]), cache[Head(todo[r])].value)
    /\ UNCHANGED <<now, tables, cache, fills, page, missed, writerVars>>

\* cache.Get does not find it, or fails: an error counts as a miss.
Miss(r) ==
    /\ todo[r] # << >> /\ ~missed[r]
    /\ missed' = [missed EXCEPT ![r] = TRUE]
    /\ UNCHANGED <<now, tables, cache, fills, page, todo, got, writerVars>>

\* fetchFunc answers; the goroutine that stores the answer starts.
Fetch(r) ==
    /\ missed[r]
    /\ Cardinality(fills) < MaxFills
    /\ LET k == Head(todo[r]) IN
        /\ Read(r, k, Answer[k])
        /\ fills' = fills \cup {[key |-> k, value |-> Answer[k],
                                 ttl |-> TTLOf(r, k), since |-> now]}
    /\ missed' = [missed EXCEPT ![r] = FALSE]
    /\ UNCHANGED <<now, tables, cache, page, writerVars>>

\* The page is served, or an error ends it before.
Respond(r) ==
    /\ page[r] # Absent
    /\ page' = [page EXCEPT ![r] = Absent]
    /\ todo' = [todo EXCEPT ![r] = << >>]
    /\ missed' = [missed EXCEPT ![r] = FALSE]
    /\ got' = [got EXCEPT ![r] = [k \in Keys |-> Absent]]
    /\ UNCHANGED <<now, tables, cache, fills, writerVars>>

\* The goroutine stores the value, whatever has happened since.
Store(f) ==
    /\ Set(f)
    /\ fills' = fills \ {f}
    /\ UNCHANGED <<now, tables, readerVars, writerVars>>

\* It fails: its context ended with the request, Redis is away, a restart.
Lose(f) ==
    /\ fills' = fills \ {f}
    /\ UNCHANGED <<now, tables, cache, readerVars, writerVars>>

-----------------------------------------------------------------------------
(* Writes                                                                  *)

Count(t, n) ==
    /\ edits < MaxEdits
    /\ edits' = edits + 1
    /\ replaced' = [replaced EXCEPT ![t][n] = now]

WriteQuiz(status, limit) ==
    /\ Count("quizzes", QuizEdit)
    /\ quiz' = [status |-> status, limit |-> limit, edit |-> edits + 1]
    /\ UNCHANGED questions

GoTo(w, label) == step' = [step EXCEPT ![w] = label]

\* CreateQuiz: SaveOrUpdate stores the row it inserted, then the creator's
\* list is deleted.
CreateQuiz(w, limit) ==
    /\ step[w] = "idle" /\ quiz = Absent
    /\ WriteQuiz("available", limit)
    /\ created' = [key |-> "quiz", value |-> [rows |-> {quiz'}, edit |-> edits + 1],
                   ttl |-> TTL, since |-> now]
    /\ GoTo(w, "store")
    /\ UNCHANGED <<now, cache, fills, readerVars, purged>>

StoreCreated(w) ==
    /\ step[w] = "store"
    /\ Set(created)
    /\ created' = Absent
    /\ GoTo(w, "unlist")
    /\ UNCHANGED <<now, tables, fills, readerVars, purged>>

Unlist(w) ==
    /\ step[w] = "unlist"
    /\ Del("mine")
    /\ GoTo(w, "idle")
    /\ UNCHANGED <<now, tables, fills, readerVars, created>>

\* UpdateQuiz and RestoreQuiz write the row and leave the cache.
UpdateQuiz(status, limit) ==
    /\ "update" \in Edits
    /\ quiz # Absent
    /\ WriteQuiz(status, limit)
    /\ UNCHANGED <<now, cache, fills, readerVars, writerVars>>

RestoreQuiz ==
    /\ "restore" \in Edits
    /\ quiz # Absent
    /\ WriteQuiz("available", quiz.limit)
    /\ UNCHANGED <<now, cache, fills, readerVars, writerVars>>

\* AddQuestion, UpdateQuestion, DeleteQuestion and ImportQuestions: the same.
EditQuestion ==
    /\ "question" \in Edits
    /\ quiz # Absent
    /\ Count("questions", questions)
    /\ questions' = edits + 1
    /\ UNCHANGED <<now, quiz, cache, fills, readerVars, writerVars>>

\* DeleteQuiz archives the row, then deletes one key after the other.
ArchiveQuiz(w) ==
    /\ "archive" \in Edits
    /\ step[w] = "idle" /\ quiz # Absent
    /\ WriteQuiz("archived", quiz.limit)
    /\ GoTo(w, "delete")
    /\ UNCHANGED <<now, cache, fills, readerVars, created, purged>>

DeleteListKey(w) ==
    /\ step[w] = "delete"
    /\ cache' = [cache EXCEPT !["mine"] = Absent]
    /\ purged' = [purged EXCEPT !["quiz"] = [edit |-> QuizEdit, racing |-> Racing("quiz")]]
    /\ GoTo(w, "deleteQuestions")
    /\ UNCHANGED <<now, tables, fills, readerVars, created>>

DeleteQuizKey(w) ==
    /\ step[w] = "delete"
    /\ Del("quiz")
    /\ GoTo(w, "deleteQuestions")
    /\ UNCHANGED <<now, tables, fills, readerVars, created>>

DeleteQuestionsKey(w) ==
    /\ step[w] = "deleteQuestions"
    /\ Del("questions")
    /\ GoTo(w, "idle")
    /\ UNCHANGED <<now, tables, fills, readerVars, created>>

\* A call to Redis fails: it is logged, and the write goes on.
SkipCall(w) ==
    /\ step[w] # "idle"
    /\ GoTo(w, CASE step[w] = "store" -> "unlist"
                 [] step[w] = "delete" -> "deleteQuestions"
                 [] OTHER -> "idle")
    /\ created' = IF step[w] = "store" THEN Absent ELSE created
    /\ UNCHANGED <<now, tables, cache, fills, readerVars, purged>>

\* The server restarts: whatever a request or goroutine still had to do is
\* not done.
Restart ==
    /\ page' = [r \in Requests |-> Absent]
    /\ todo' = [r \in Requests |-> << >>]
    /\ missed' = [r \in Requests |-> FALSE]
    /\ got' = [r \in Requests |-> [k \in Keys |-> Absent]]
    /\ step' = [w \in Admins |-> "idle"]
    /\ created' = Absent
    /\ fills' = {}
    /\ UNCHANGED <<now, tables, cache, purged>>

-----------------------------------------------------------------------------
(* Time                                                                    *)

\* A second passes; Redis drops what has expired.  FillDelay bounds how long
\* an answer of the database is on its way into Redis.
Advance ==
    /\ now < MaxTime
    /\ \A f \in InFlight : now < f.since + FillDelay
    /\ now' = now + 1
    /\ cache' = [k \in Keys |-> IF cache[k] # Absent /\ cache[k].expires > now'
                               THEN cache[k] ELSE Absent]
    /\ UNCHANGED <<tables, fills, readerVars, writerVars>>

Next ==
    \/ \E r \in Requests : \/ \E p \in Pages : Ask(r, p)
                           \/ Hit(r) \/ Miss(r) \/ Fetch(r) \/ Respond(r)
    \/ \E f \in fills : Store(f) \/ Lose(f)
    \/ \E w \in Admins : \/ \E l \in Limits : CreateQuiz(w, l)
                         \/ StoreCreated(w) \/ Unlist(w)
                         \/ ArchiveQuiz(w) \/ DeleteQuizKey(w)
                         \/ DeleteQuestionsKey(w) \/ SkipCall(w)
    \/ \E s \in Statuses, l \in Limits : UpdateQuiz(s, l)
    \/ RestoreQuiz \/ EditQuestion \/ Restart \/ Advance

Spec == Init /\ [][Next]_vars

-----------------------------------------------------------------------------
(* Properties                                                              *)

\* The longest a key is kept.
Kept(k) == IF k = "questions" THEN {TTL} \cup {l + Grace : l \in Limits} ELSE {TTL}

\* No page reads what an edit replaced longer ago than one time to live and
\* one delay: neither edits that invalidate nothing, nor goroutines that undo
\* an invalidation, nor a run's longer time to live, nor failures add to it.
PagesFresh ==
    \A r \in Requests, k \in Keys :
        got[r][k] # Absent =>
            LET when == replaced[TableOf(k)][got[r][k].value.edit] IN
            when = Absent \/ \E d \in Kept(k) : got[r][k].at <= when + FillDelay + d

\* A key that CreateQuiz or DeleteQuiz deleted while no goroutine was on its way
\* to store it never again holds what was true before: an archived quiz comes
\* back from the cache through such a goroutine only, whatever else happens
\* between the writes to the database and to the two keys.
InvalidationTakesEffect ==
    \A k \in Keys :
        (purged[k] # Absent /\ cache[k] # Absent /\ ~purged[k].racing)
            => cache[k].value.edit >= purged[k].edit

=============================================================================
