# A verification of GoQuizVibe

GoQuizVibe is a quiz platform: a Go backend that serves HTML (templ, htmx) and a
gRPC authentication service, a Go microservice that compiles Typst documents, a
JavaScript editor in the page and a Kotlin Multiplatform client. PostgreSQL keeps
what must last, Redis keeps sessions and cached rows, MinIO keeps files.

This directory holds TLA+ modules of the parts whose correctness depends on the
order in which things happen, TLC configurations that check them on small
instances, and TLAPS proofs of what holds for every instance. `PROJECT.json`
lists the components, the runs, the source lines each definition models, the
hazards and the theorems.

    tlc -workers 2 -config QuizSessionOverlap.cfg MCQuizSession
    tlapm QuizSessionProofs.tla

The sections below: what the system consists of; the modules; each module's state,
actions and abstractions; the runs; the proofs; what is left out.

## Inventory

Paths are below `src/backend/` unless they begin otherwise.

| Component | State | Operations | Talks to |
|---|---|---|---|
| Quiz session service, `feature/quiz/services/quiz_session.go` | `quiz_attempts`, `user_answers` (PostgreSQL); `quiz:session:user:<uid>`, and the questions, order and answers keys (Redis, with TTL) | CreateSession, NavigateQuestion, SaveAnswer, CompleteSession, CompleteSessionByAttemptID, reads for pages | both stores, cache service, gamification |
| Quiz handlers, `feature/quiz/handlers/quiz.go` | none; a cookie `quiz_session_id` in the browser | QuizQuestion, QuizNavigate, QuizFinish, QuizResult, CancelSession, SyncTime | session service; one goroutine per request |
| Quiz timer, `feature/quiz/services/quiz_timer.go` | `done`, `subscribed` channels | StartTimerSubscription, StartCronJob, expireStaleAttempts, Shutdown | PostgreSQL, Redis key events, session service |
| Answer checking, `feature/quiz/services/quiz.go` | none | NormalizeAnswer, CheckFillAnswer, gap answers | called by the session service |
| Cache service, `shared/infrastructure/cache/` | Redis keys with TTL | GetOrFetch, SaveOrUpdate, Delete, InvalidateCache | every reader of quizzes, questions, images |
| Quiz administration, `feature/admin/services/admin.go` | `quizzes`, `questions`, `question_images` | create, update, archive, restore, import; question and image edits | PostgreSQL, cache, storage |
| Object storage, `shared/infrastructure/storage/` | MinIO objects | upload, presign, delete | administration, materials |
| Gamification, `feature/gamification/` | none | streak, XP, leaderboard | reads completed attempts |
| Dashboard, `feature/dashboard/` | none | one page | reads |
| Learning materials, `feature/learning_materials/`, `src/microservices/typst/`, `static/scripts/editor/` | `learning_materials` rows, objects per material, a debounce timer in the page | create, compile, save, delete | PostgreSQL, MinIO, Typst gRPC |
| Authentication, `feature/auth/` | `users`; signed tokens | register, login, refresh | PostgreSQL |
| Kotlin client, `src/app/` | stored token, shown auth state | start-up refresh, login, register, logout | gRPC |
| Start-up and seeding, `shared/database/` | every table | migrate, seed, load quizzes | PostgreSQL |
| Pages and routes, `main.go`, `shared/middleware/`, the templates, `static/scripts/admin.js` | cookies `token` and `quiz_session_id` in the browser | what a page offers, routes, checks of the token and the role, redirections, what htmx does with an answer | every handler |
| Metrics, locales, dependency injection, configuration, generated gRPC code | counters | – | – |

### What is hard, and what makes each part correct

* **Sessions.** A student's run is spread over two stores, written by separate
  calls, with no transaction and no lock. There is *one* session per user, so two
  tabs share it, and handlers write back copies they read several calls earlier.
  Correct means: the session always names an attempt of that user and of that
  quiz; answers go to questions of the attempt's own quiz; nothing is recorded
  after the deadline; the session lives at least as long as the attempt may; a
  completed attempt has the score of its answers and is not reopened.
* **Completion.** Result page, cancellation and cron job run the same
  read-count-write over one row at the same time. Correct means: whoever wins,
  score and answers agree.
* **Cron job.** It is the only completer that does not need the student. Correct
  means: every attempt is completed in the end, after any failure or restart.
* **Timer subscription.** It is closed when the function that starts it returns;
  nothing in the repository writes a `quiz:timer:` key. Correct would mean: an
  expiry event completes the attempt, and shutdown ends the goroutine.
* **Cache.** Fetch and asynchronous Set race an invalidation; several edits
  invalidate nothing. Correct means: a stale value goes away, at the latest with
  its TTL, and what is cached was once in the database.
* **Administration, images, materials.** Rows and objects are written one after
  the other without compensation. Correct means: a row never names a missing
  object; the limit of images per question holds; orders are distinct.
* **Editor.** Compile requests overlap. Correct means: the page ends up showing
  the compilation of the last text.
* **Gamification, answer checking.** Pure. Correct means: equal to a definition
  one would write without the loops.
* **Pages.** A control may have no route, a redirection may keep the wrong verb, an
  answer may be swapped nowhere. Correct means: what a page offers is answered as it
  says, nothing changes unseen, and no request goes in circles.
* **Kotlin client.** A refresh started at launch answers after a login or logout.
  Correct means: the shown state agrees with the stored token.

## Modules

| Module | Models | Run |
|---|---|---|
| `QuizSession`, with `AttemptLifecycle` as what it promises | sessions, answers, completion, cron job | `overlap`, `tabs`, `cron`, `resume` |
| `AnswerDraft` | one attempt's answers between page, session, answers key and rows | `stored` |
| `QuizQuestions` | the list of questions while it is edited and a student answers by position | `quiz_questions` |
| `QuizCache` | the cached quiz, its questions and the lists of quizzes, under edits | `cache` |
| `QuestionImages` | images of a question: rows and objects | `stored` |
| `TypstMaterial` | a Typst material: row, source, PDF, compile service, editor | `separate` |
| `AuthClient` | signing up, in and out with the Kotlin client | `auth` |
| `StartUp` | connecting, migrating, seeding, loading quizzes, by two instances | `startup` |
| `QuestionForm`, `FillForm`, `AnswerCheck`, `Gamification` | the administrator's forms, the judgement of an answer, points and streaks | `separate` |
| `Pages`, `Browsing` | what every page of the web site offers; browsers, routes, middleware, and all handlers as their users meet them | `site`, `windows` |
| `Stored`, `Separate` | compositions of parts that share no state | `stored`, `separate` |
| `QuizSessionProofs`, `StoredProofs`, `StartUpProofs`, `QuizQuestionsProofs`, `QuizCacheProofs`, `TypstMaterialProofs`, `AuthClientProofs`, `SeparateProofs` | theorems | |

A module of instances is called `MC` followed by the module's name. `Stored` composes
`QuestionImages` and an instance of `AnswerDraft`; `Separate` composes `TypstMaterial` and
instances of `QuestionForm`, `FillForm`, `AnswerCheck` and `Gamification`. The parts of one
composition share no state, so a behaviour is about one part, its `subject`, and the others
stay as they begin; they are composed as specifications, so that the theorems are about what
the runs check.

The modules cut the system where its parts no longer depend on each other's order:

* A run of a quiz is in three of them. `QuizSession` has the session key, the
  attempt and the clock, and lets answers and questions be anything.
  `AnswerDraft` has what the answers are and where they are kept, for one attempt
  that goes on. `QuizQuestions` has what is at a position, and takes session and
  answers as given. None needs the others' variables: time decides nothing about
  which text is stored, and no page looks at another student's session.
* `QuizQuestions` uses the cache as "a list that may lapse and may be stored
  late"; when exactly that happens is `QuizCache`.
* `Browsing` has all handlers, each answered in one step, and what leads from one to the
  next: what the others take as arriving requests. What happens *within* a handler is
  theirs.
* A score is a set of questions in `QuizSession`, and a number in `Gamification`.

## QuizSession

### State

| Variable | In the program |
|---|---|
| `row[a]` | the `quiz_attempts` row: user, quiz, `started_at`, whether `completed_at` is set, score |
| `answers[a]` | the `user_answers` rows of the attempt: question (quiz and index), `is_correct` |
| `session[u]` | the Redis key of the user: `QuizID`, `AttemptID`, and when its TTL ends |
| `now` | the clock of the servers, in seconds |
| `pc[p]`, `req[p]`, `cur[p]`, `snap[p]` | for a request goroutine or the cron goroutine: the call it makes next, the request it serves, the quiz and attempt in its local `session`, the answers it has counted |
| `stale` | what is left of the slice `expireStaleAttempts` ranges over |
| `cronFaults` | how many faults the cron job has met (bounded) |
| `late` | history only: attempts that got an answer after a completer had counted |

### Actions

Each action is one call to a store with the code up to the next such call, so
everything another goroutine can do between two calls is a behaviour.

| Handler | Actions, in order |
|---|---|
| QuizQuestion (`open`) | Arrive, Resolve, [Fallback], [CreateAttempt, StoreSession] |
| QuizNavigate (`navigate`) | the same, then Navigate, SaveSession, CheckAnswer, UpsertAnswer |
| QuizFinish (`finish`) | Arrive, Lookup, CheckAnswer, UpsertAnswer |
| QuizResult, CancelSession (`end`) | Arrive, Lookup, BeginComplete, CheckCompleted, CountAnswers, UpdateAttempt, DeleteSession |
| cron job | CronTick, then CronVisit, CheckCompleted, CountAnswers, UpdateAttempt per attempt, CronRest |
| anything | Abort: a call fails, the server restarts; CronFail, CronRestart for the cron job |
| environment | Advance (a second passes), ExpireSession (Redis drops a key whose TTL is over) |

Where the code is easy to misread, the model follows the code:

* NavigateQuestion and SaveAnswer take the *questions* and the *attempt* from the
  session, and the *time limit* from the quiz in the URL, which in a tab left open
  is another quiz. So do `Navigate`, `SaveSession` and `CheckAnswer`.
* SaveAnswer reads the session again; CompleteSession does too.
* `GetActiveSessionForUser` treats a session with no whole second left as none;
  the cookie then leads to it anyhow, and without cookie a new attempt begins.
* A Redis read that fails is answered like a missing key: `GetSession` may always
  return `Absent`.
* DeleteSession and SaveSession do not look at what the key holds by then.
* UpdateAttempt is unconditional; SaveAnswer never reads `completed_at`.

### Abstractions

* A score is the *set* of questions whose points it adds up, so the sum of points
  is left out and two different counts are always told apart.
* `CurrentIndex` and `Answers` of the session and the questions, order and
  answers keys decide only what a page shows. They are the subject of `AnswerDraft`. The
  handlers ask for the quiz's whole list of questions, never for the selected
  pool, so `QuestionPoolSize` changes nothing here.
* Whether an answer is right is a free choice; the checking is in `AnswerCheck`.
* The quiz read through the cache is constant; its staleness is in `QuizCache`.
* Whether the browser sends the cookie is a free choice (`Resolve`), and the
  cookie holds the user's own id, as the handlers set it.
* `getSessionFromRequest` also reads a form field `session`; no page posts it to
  these two routes, so that branch is left out. In QuizResult, the branch that
  looks for an *attempt* with the id of the session never finds one: the pages
  send the user's id.
* The clock is whole seconds and one clock serves Go, PostgreSQL and Redis. An
  expired key is dropped by ExpireSession, at or after the end of its TTL; that it
  may be read a moment longer only adds behaviours.
* `CreateSession` takes its `started_at` just before the insert; the model takes
  both at once.

Bounds, all named constants: `Attempts` (ids available), `Requests` (requests in
flight at once; a slot is used again and again), `Pages` (which handlers a run
sends), `FormIndexes` (values of `current_index`), `LastStart`, `MaxTime` (the
clock), `MaxCronFaults`. `EveryAttemptCompletes` needs a clock that goes on beyond
every deadline; in `cron` it does (an attempt lasts a second, the clock goes to 2).

### AttemptLifecycle

What the service promises about an attempt with sessions, requests and clock
forgotten: opened once, for one user and quiz; completed with a count that *was*
the count of its right answers at some moment; never open again. `Lifecycle` in
`QuizSession` is the refinement mapping: a count is held by the processes at
`update`, the score is that of the row. TLC checks `ImplementsLifecycle`, with
overlapping completers, failures and a restart of the cron goroutine.

## AnswerDraft

A typed answer goes to three places, one after the other, and comes back on the next
page from one of two of them.

| Variable | In the program |
|---|---|
| `draft` | `Answers` of the session in Redis |
| `key` | the answers key, with its time to live of one minute |
| `row[q]` | the `user_answers` row |
| `page` | the question card: position, fields, whether it has options, whether the student has touched it |
| `pc[r]`, `post[r]`, `got[r]` | a navigation or finish request, what it carries, the answers it has read and amended |
| `meant[q]` | history: the gaps as the student last changed them |
| `unkeyed` | history: questions whose answer a failed `SetKey` left out of `key` |
| `excused` | history: see below |

`Navigate`, `SaveDraft`, `Upsert`, `SetKey`, `Render` are NavigateQuestion from reading
the session to the card it answers with; `Finish` is QuizFinish; `Load` is QuizQuestion
and GetAnswers, as a page (no options on the card of a choice question) or as a
fragment; `Type` is the student; `Fail` and `LoseResponse` end a request at any call;
`ExpireKey` drops the answers key. An answer is the sequence of its gaps
(`ParseGapAnswers` drops what follows the first empty one, `Shown` is what the card
makes of it); the verdict is `AnswerCheck`'s.

`excused` marks the behaviours in which the code does lose an answer or shows a page
without one. Each is set by its cause, at the step where it comes up, never by comparing
page and row: the keys are those of the attempt before (`Init`); a page is loaded while a
request is in flight, or of a question with a stored answer after its answers key has
lapsed, after `SetKey` failed for it, or in full when it is a choice question (`Load`); two
different requests overlap, or a gap is left empty before a filled one (`Send`); a row could
not be written after the session was (`Fail`); the response to the finish is lost. The
properties say that there is no other way, and the comment above them lists the causes.

## QuizQuestions

Every part of a run names a question by its position in a list that is cached and
edited meanwhile.

| Variable | In the program |
|---|---|
| `row[q]`, `edits` | the `questions` row: `order_index` and the right answer; writes so far (bounded) |
| `cached`, `fills` | the list in Redis; lists read from the database whose goroutine has not stored them yet |
| `running`, `answered[q]`, `score` | the session exists; the `user_answers` row; the questions counted when the attempt was completed |
| `page`, `pc[r]`, `post[r]` | the card; the posts in flight: position, target, answer, the next card, the verdict, and as history the question it was typed under |
| `asked` | the request for the result: the call it makes next, the list it has read, what it has counted |
| `result` | what GetQuizResultData shows: the score, the right answers, the details |
| `calm` | history: no question was written since before the run began, when all lists there were agreed with the rows and no post was under way |
| `late` | history: in such a run, the questions a post has stored an answer to after the count |

Every call is a step of its own. `NavigateQuestion` and `SaveAnswer` look the list up each
on their own, and `UpsertUserAnswer` is the upsert and the card that answers it.
`GetQuizResultData` looks the list up for the details; `CompleteSession` looks it up again
and counts; `UpdateAttempt`, `DeleteSession` and `GetAnswersByAttempt` follow, and a post
in flight may store its answer between any two of them. `Fail` and `FailResult` end a
request at any call. `Read` gives the cached list or any order the query may return, and
`order_index` need not be unique. `AddQuestion`, `UpdateQuestion` (whose form has no
`order_index`, so it stores 0), `DeleteQuestion` (refused by the foreign key once
answered) and `ImportQuestion` are the administrator's writes. One window: overlapping
requests on the session are `QuizSession`'s.

Two questions may well have the same `order_index`: an edit stores 0, and imported files
start anew. Nothing is assumed about it. What is promised of a run that is left alone is
therefore that an answer is recorded under the question it was typed under *or one of the
same order*: a mere lapse of the cache may exchange those two, and does in the model.

## QuizCache

| Variable | In the program |
|---|---|
| `quiz`, `questions` | the quiz's row, with the number of the edit that wrote it; the last edit of a question |
| `cache[k]` | the Redis key of the quiz, its questions, its creator's list, a student's list: value and expiry |
| `fills` | goroutines of GetOrFetch on their way to store |
| `page[r]`, `todo[r]`, `missed[r]`, `got[r]` | a page being served, the keys it has still to read, what it has read |
| `step[w]`, `created` | CreateQuiz or DeleteQuiz between its calls |
| `replaced`, `purged[k]` | history: when an edit's value was replaced; as of which edit a key was last deleted, and whether a goroutine was on its way to it |

`Hit`, `Miss`, `Fetch`, `Store`, `Lose` are GetOrFetch and its goroutine; `CreateQuiz`,
`StoreCreated`, `Unlist` are CreateQuiz with SaveOrUpdate; `ArchiveQuiz`,
`DeleteQuizKey`, `DeleteQuestionsKey` are DeleteQuiz; `UpdateQuiz`, `RestoreQuiz` and
`EditQuestion` touch no key. A call to Redis may fail (`SkipCall`, `Miss`, `Lose`), the
server may restart. `FillDelay` bounds how long a goroutine may take, otherwise nothing
could be said about age. Images are never cached: the code has a key for them that
nobody uses.

## QuestionImages

Rows and objects of one question. `AddQuestion` with files, `BeginUpload`,
`CountImages`, `PutObject`, `InsertImage`, `InsertFails`, `Rollback` are AddQuestion
and UploadQuestionImage; `BeginDelete`, `DeleteRow`, `DeleteObject` are
DeleteQuestionImage; `DeleteQuestion` cascades to the rows. `SkipFile` and `Abort` are
failures and restarts. What the code does with names is kept: a row has the URL; the
object's name is taken from it with `filepath.Base`, which for a presigned URL is no
object's name, so such objects stay (`NamedByBase`); the rollback passes the whole URL
and removes nothing. Object names come from the clock in nanoseconds and are taken to
be distinct.

## TypstMaterial

A material's row, its source and PDF (the number of the text they hold), the requests,
and the page of the editor: document, debounce timer, requests it awaits, the frame.
`Create`, `BeginCompile`, `BeginDelete` and `Send` start CreateTypstMaterialFromTemplate
or UploadTypstMaterial, CompileTypst, DeleteMaterial and the editor's save;
`PutSource`, `ReadSource`, `WritePdf`, `InsertRow`, `RecordPdf`, `RemoveSource`,
`RemovePdf`, `RemoveRow` are their calls, the second and third made by the compile
service; `Type`, `Answered`, `LoseAnswer`, `LoadPreview`, `OpenEditor` are the script.
`overlap`, `deletion` and `excused` are history: another request was in flight with
the editor's last; a deletion has begun; a deletion met another request or a failing
call.

## AuthClient

The server's `accounts`; the `token` on the device and the one `bearer` sends (read
from a store of its own, at the start); AuthStateHolder's `auth`; the unanswered `me`;
the two forms; `performLogout` in its steps; the back stack, and `seen`, the state the
navigation's effect was last launched for. The view models run on the main thread,
`me()` and `logout()` on others, so their answers come between any two steps of the
rest; `MainFree` keeps the main thread's own step undivided. History: `intent`, what
the user did last; `raced`, an operation began while another was under way; `failed`,
a call or a write on the device failed.

## StartUp

Two instances on one database. `Reach`, `TakeLock`, `FindDirty`, `MarkDirty`,
`RunMigration`, `MarkClean`, `Migrated` are Connect and golang-migrate's Up (external);
`CheckSeed`, `SeedRow`, `EndSeed` are SeedData; `CheckTitle`, `CreateQuiz`,
`CreateQuestion`, `EndQuiz`, `SkipQuiz` are LoadInitialDataFromFolder. `Crash` is a
kill at any point, `Start` the restart. History: `interrupted`, a fault came between
the first and the last row of the seed or of a quiz, after which the rest is never
inserted.

## QuestionForm, FillForm, AnswerCheck, Gamification

* `QuestionForm`: the rows of options in the administrator's page, each with the number
  its inputs' names carry; `Save` is the script's FormData and the handler
  UpdateQuestion. The script posts all radio buttons, checked or not, so the
  first row's number is the correct one's; which row is checked is left out.
  `removed`, `mixed` and `moved` are history.
* `FillForm`: the boxes of segments of all forms of the page, of which the script
  always finds the first, and UpdateQuestion that reads segments by number until one is
  missing. `stale` is history.
* `AnswerCheck`: typed fields to stored text (`Filled`, `Join`), to the verdict
  (`Split`, `NormalizeAnswer`, `CheckFillAnswer`) and to the result page's own
  judgement (`JudgeShown`), over every text of up to three characters out of a letter in
  two cases, a space, a dot and a bar.
* `Gamification`: points, leaderboard (of the attempts completed last, sorted by the
  exchange sort as written, from any order the map yields) and streak, as computed by
  pages between completions; `run` and `last` are history, the streak counted forwards.

## Pages and Browsing

`Pages` says what the templates offer: for each page, and for each part htmx puts into one,
the set of its links, forms and buttons. A control is the request it makes (verb, route,
the ids and indices it sends) and where its answer goes (`swap`): the page, an element, an
alert, or nowhere. A page of `QuestionCard` is its index and the number of questions, no
text.

| Variable of `Browsing` | In the program |
|---|---|
| `visitor` | who sits at the browsers, of those with `Habits`; the same all the time |
| `db` | accounts; a quiz's status and questions, a question's images, a material's owner; the session of a user (quiz, position, whether its time is over); which quizzes were taken, which questions answered; names used up |
| `jar[b]` | the cookies `token` and `quiz_session_id` of a browser |
| `window[w]` | the page a window shows, its address, and whether anything it shows has changed since |
| `asked[w]` | the request under way: the control it came from, the request as redirected so far, whether it changed anything, how often it was sent on |
| `told` | how the last request ended |
| `faults` | failures of the database so far (bounded) |

`Press`, `Type` and `Reload` begin a request; each handler is an action named after it;
`Unrouted`, `HandleAuthFailure` and `ErrorHandler` are the router and the middleware.
`Answer` is the browser: a form's redirection becomes a GET, htmx follows one with the same
verb, `HX-Redirect` loads a page, an error is not swapped, `admin.js` alerts, and loads the
page again; after `MaxHops` redirections it gives up (`GiveUp`). One step is one answered
request: whether calls *within* two handlers interleave is the subject of the other
modules, and here only redirections let another window in between. Two windows may share
a browser and its cookies.

`QuizQuestionRetry` is the redirection of QuizQuestion and QuizNavigate to question 0 when
`CreateSession` fails: because the database does, or, with nothing wrong with it, because
the id names no quiz, and then it fails again each time.

`OfferedIsAnswered` is about a page nothing has changed since it was shown; what each
address promises is `Means`, one line per route. `KnownDefect` lists where the code breaks
the promise, each with its reason. `ChangesAreTold` is about every page, however old, with
the same list. `RunningAttemptKept` is about several windows and names its two exceptions.
`RedirectionsEnd` bounds the redirections of one request by three, or by two and one more
for every failure; its exception is the id that names no quiz, whose question the browser
asks for until it gives up.

A run is about several visitors, one in each behaviour, each with a part of the site to
themselves, so that its states are the sum of theirs. `Habits[u]` has what u finds (the
quizzes' questions) and types, and the bounds: which controls u leaves alone because
another visitor presses them (`avoids`), what u may make, how many windows and requests
at once, how many failures.

* `site`: *t*, a teacher in one window, makes a quiz with a question and an image and
  takes it, with one failure; *o*, a teacher in one window, makes and opens materials, has
  another teacher's file on the list, and sees one failure; *p*, a teacher in two windows,
  deletes questions of a quiz of two in one while taking it in the other, so that cards
  outlive their questions.
* `windows`: *s*, a student in two windows with requests under way in both, and *z*, in two
  windows with one failure, take two quizzes; *v*, in one window, signs in and out, opens
  quizzes and a question of no quiz, with two failures.

No run has two users at one browser.

## Properties and runs

| Run | Instance | Checks |
|---|---|---|
| `overlap` | 1 student, 1 quiz, 1 attempt, 2 requests of every kind, cron job with 1 fault, clock to 2 | `TypeOK`, `ScoreMatchesAnswers`, `NoAnswerAfterDeadline`, `ImplementsLifecycle` |
| `tabs` | 1 student, 2 quizzes (1 and 2 questions, 1 and 2 seconds), 2 attempts, 2 requests that navigate and end, clock to 1 | `SessionNamesOwnAttempt`, `AnswersOfAttemptsQuiz`, `SessionOutlivesAttempt` |
| `cron` | 2 students, 1 quiz, 2 attempts, 1 request, 1 fault, with fairness | `EveryAttemptCompletes` |
| `resume` | as `overlap`, 2 seconds, no cron faults | `CompletedIsNotResumed`: violated |
| `quiz_questions` | 2 questions of any `order_index` up to 1, 2 answers, 1 post in flight and the request for the result, 1 edit, 1 late list | `RecordedUnderShown`, `ResultAgrees`, `NoDeadEnd` |
| `cache` | 1 page, 1 administrator, every kind of edit, 2 edits, 1 late value, time to live 1 s, clock to 3 | `PagesFresh`, `InvalidationTakesEffect` |
| `stored` | a choice, an open and a fill question with 2 gaps, 1 text; 4 object names, at most 2 images, 3 files; 2 requests | `TypedAnswersKept`, `PageShowsStored`, `RowNamesObject`, `LimitUpToRequests` |
| `auth` | 2 users, 2 forms submitted, 2 restarts, 3 screens on the stack, with fairness | `DeviceFollowsUser`, `LogoutEnds`, `HomeForSignedIn` |
| `startup` | 2 instances, 2 migrations, 3 seed rows, 2 quizzes of 2 questions, 3 faults, with fairness | `SchemaComplete`, `DataComplete`, `CopiesUpToInstances`, `AllServe` |
| `separate` | 2 requests and 2 edits of a material; 2 option texts, 3 rows; 2 forms of 2 segments; texts to 3 characters, or 2 gaps of 1; 3 students, 4 attempts, 3 days | `PreviewOfLastText`, `MaterialHasObjects`, `DeletionLeavesNothing`, `OptionsKept`, `Answerable`, `SavedAsShown`, `CorrectIsRight`, `RightIsCorrect`, `VerdictsAgree`, `BoardRanks`, `BoardAgreesWithStats`, `StreakIsRun` |
| `site` | 3 teachers: 1 window, 1 quiz of no question to begin with, 1 image, 1 failure; 1 window, a Typst material and another teacher's file, 1 failure; 2 windows, 1 quiz of 2 questions | `OfferedIsAnswered`, `ChangesAreTold` |
| `windows` | 3 students, 2 quizzes of 1 question: 2 windows and 2 requests; 2 windows, 1 request, 1 failure; 1 window, an id of no quiz, 2 failures | `RedirectionsEnd`, `RunningAttemptKept` |

What each says, beyond its comment in the module:

* `ScoreMatchesAnswers`: two completers and the cron job on one attempt, any of
  them failing half way, leave score and answers in agreement, unless an answer
  arrived after one of them had counted (see "Divergences").
* `NoAnswerAfterDeadline`: an answer recorded reached the server in time, though
  its handler reads session, attempt and quiz in separate calls and may be held
  up between any two. The deadline is that of the quiz in the URL, as in the code.
* `SessionNamesOwnAttempt`: overwritten and written-back sessions are never a
  mixture of two.
* `AnswersOfAttemptsQuiz`: every page of `tabs` posts index 1, which quiz 1 does
  not have (a question may have been deleted since). While the session is of
  quiz 2 the answer goes under quiz 2's question, whatever quiz the page was of;
  while it is of quiz 1 it is refused, also when the page is of quiz 2.
* `SessionOutlivesAttempt`: a session lives until the deadline its attempt has by *some*
  quiz's limit, and `Grace` longer. With a shorter quiz in the URL, NavigateQuestion does
  shorten the time to live of a session of a longer one, so no more can be said; quizzes
  of one length are the special case in which the attempt's own deadline is outlived.
* `EveryAttemptCompletes`: through walking away, aborted requests, expired,
  overwritten and never stored sessions.
* `TypedAnswersKept` and `PageShowsStored`: navigation, reload, expiry and retries
  give every stored answer back as it was typed.
* `RecordedUnderShown`, `ResultAgrees`, `NoDeadEnd`: an answer moves to another question
  by an administrator's edit, or, between questions of one `order_index`, by the cache, and
  by nothing else; the result page contradicts itself by an edit, or by an answer that
  was stored after the score was counted, and by nothing else.
* `PagesFresh`: the age of anything a page shows is bounded by one time to live and
  one delay. `InvalidationTakesEffect`: a deleted key comes back old only through a
  goroutine that was already on its way.
* `LimitUpToRequests`, `CopiesUpToInstances`: how far a limit that is checked without a
  lock can be exceeded.
* `DataComplete` and `AllServe`: two instances that start together end with complete
  data or a reason, and in the end serve.
* `OptionsKept`, `Answerable`, `SavedAsShown`: forms whose inputs are found by number
  or by an id that is not unique store what they show; the exceptions are named.

The bounds are enough because the interesting cases need two requests (one between
the other's read and its write), two attempts or two edits (one overwritten by the
other), one value on its way into the cache, and a clock that passes a deadline and
a time to live. The stores are keyed by user, attempt, quiz, question or material, and
the code never looks at a third one; only the leaderboard compares students, and has
three. `tabs` has quizzes of different limits, one of which ends first. The form
with options has three rows in `separate`, of which one can be removed so that a number is
missing; numbers at or over the limit, which is 20 in the code (`handlers/admin.go:239`), are
an exception of `OptionsKept`, and for `Answerable` the theorem covers them.
The theorems hold without any of the bounds that stand for unlimited things.

**Deadlock** is checked where the system cannot stop: `overlap`, `tabs`, `cron`,
`resume`, `cache`. The other configurations say `CHECK_DEADLOCK FALSE` because the
behaviour they model ends: the one question is deleted for good and the
quiz is finished (`stored`), the one material is deleted and an answer is judged once
(`separate`), all instances serve (`startup`), and forms, names, restarts and edits are bounded
(`auth`, `separate`, `site`, `windows`, and `quiz_questions`, where all questions may be deleted).

**Fairness.**

* `QuizSession`: `FairSpec` asks for weak fairness of `Advance`, as clocks do not
  stop, and of `CronStep`: the goroutine is started in `main` and its ticker fires
  every interval, so a step it can take is taken. No request is fair: a student may
  never come back. Faults of the cron job are finitely many (`MaxCronFaults`); if
  its every call failed nothing could be promised.
* `AuthClient`: every call is answered or times out (OkHttp: 15 s to connect, 30 s to
  read), the steps after it run, and the composition's effects are launched. Nobody has
  to press a button or to restart.
* `StartUp`: weak fairness of each instance's own steps, which include its restart
  (Kubernetes). Faults are finitely many.

No run but `overlap` lists a type invariant: `TypeOK` of the other modules says what the
variables range over, and the theorems prove it of those they are about.

### Finding

*A completed attempt can be continued* (`resume`). A navigation that read the
session before the completion deleted it writes it back
(`feature/quiz/services/quiz_session.go:333`). `CompletedIsNotResumed` asks that no session
with time left is of a completed attempt, and TLC's trace is that story: the
quiz is opened, a navigation reads its session, "end" completes the attempt and deletes
the session, the navigation stores it again, within the time. The test is then offered
and answered again until its time is over, and the next completion returns
the old score. The page that offers to cancel says "This action cannot be undone".

### Divergences

Met while modelling, and kept in the modules as what the code does or as a named
exception of a property:

* SaveAnswer never looks at `completed_at`: a request that has checked the time before a
  completion upserts after it, and score and answers differ from then on. `late` in
  `QuizSession`. On the result page, which counts once for the score and reads the answers
  again for the number of right ones, the two then differ at sight: `late` in
  `QuizQuestions`.
* Questions of one `order_index` come in another order whenever the cached list has lapsed
  (`shared/sql/queries/questions.sql:2`): the student's answer, named by position, goes to
  the other one. The named alternative of `RecordedUnderShown`.
* Two uploads that both count before either inserts exceed the three images the form
  allows ("Images (up to 3)", `shared/locales/en/LC_MESSAGES/default.po:423`).
  `LimitUpToRequests` is what remains true.
* `compileTypst` (`static/scripts/editor/compiler.mjs:17`) takes a refusal, which is JSON
  too, for a compilation without diagnostics: the panel says "No errors".
* `refreshInternal` (`AuthStateHolder.kt:48`) assigns what the start's `me()` answered
  even after a login: the user is shown signed out. `raced` in `AuthClient`.
* The version in golang-migrate's message on a dirty database is looked for in the
  wrong word (`shared/database/database.go:84`), so it is never forced. `AllServe` says
  "or dirty for ever".
* The script of the questions page posts every radio button
  (`static/scripts/admin.js:50`), so the first row is the correct option. `QuestionForm`.
* The form for editing has no `order_index` (`feature/admin/handlers/admin.go:225`): an
  edited question moves to the front. `UpdateQuestion` in `QuizQuestions`.
* Attempts the cron job completes count for the streak
  (`feature/gamification/services/gamification.go:165`), and the leaderboard never sets
  the streak it shows (`:79`). `Gamification`.
* The form that creates a quiz posts to `/admin/quizzes/new`, which is a GET only: 405. The
  DELETE that archives a quiz is answered by a 302, which is followed as a DELETE: 405, with
  the quiz archived and nothing shown. Deleting an answered question is refused by the
  foreign key: 404, unseen. The overview's link to a material's file has no route. These
  and the following are `KnownDefect` in `Browsing`.
* A quiz without questions makes the template panic, after the session was made. A result
  page loaded again is the quiz's information page. A finish that comes after the time is
  redirected to the result, which completes the attempt and is swapped nowhere. From an old
  tab, after the session is gone, it opens a new attempt instead.
* The cookie `quiz_session_id` outlives a logout; the next user of the browser is refused.
  Materials of another teacher offer to be deleted and compiled, which only the owner may;
  a compilation that fails shows nothing.
* A request to an overdue attempt that is on its way to the result completes the attempt
  begun meanwhile in another window, and so does loading the result page of an earlier
  attempt again: GetQuizResultData completes whatever session the user has
  (`feature/quiz/handlers/quiz.go:387`-`409`). The two exceptions of `RunningAttemptKept`.
* A question of an id that names no quiz is redirected to itself, with the database
  healthy, as often as the browser follows (`feature/quiz/handlers/quiz.go:103`, and `:185`
  in QuizNavigate). The exception of `RedirectionsEnd`.
* From the card of a question that was deleted meanwhile, NavigateQuestion stores where the
  student goes (`quiz_session.go:333`) before SaveAnswer refuses the index: 500, which htmx
  does not show. In `KnownDefect`.
* "Are you sure? This action is reversible." (`shared/locales/gettext.go:53`) is also asked
  before a learning material is deleted, which nothing reverses. No page offers to restore
  a quiz.
* Boxes of gaps share one id (`feature/admin/ui/admin/quiz_edit.templ:236`): a second fill
  question saved untouched loses its segments. `FillForm`.


## Proofs

What is proved holds for every value of the constants, under the assumptions the
modules state about them; TLC evaluates the assumptions in each run.

| Theorem | Module | Statement |
|---|---|---|
| `Invariant` | `QuizSessionProofs` | `Spec => []IInv` |
| `TypeCorrect` | `QuizSessionProofs` | `Spec => []TypeOK` |
| `SessionsNotMixedUp` | `QuizSessionProofs` | `Spec => []SessionNamesOwnAttempt` |
| `AnswersInQuiz` | `QuizSessionProofs` | `Spec => []AnswersOfAttemptsQuiz` |
| `SessionsOutlive` | `QuizSessionProofs` | `Spec => []SessionOutlivesAttempt` |
| `ScoresMatch` | `QuizSessionProofs` | `Spec => []ScoreMatchesAnswers` |
| `AnswersInTime` | `QuizSessionProofs` | `Spec => NoAnswerAfterDeadline` |
| `LifecycleImplemented` | `QuizSessionProofs` | `Spec => ImplementsLifecycle` |
| `TypeCorrect` | `StoredProofs` | `Spec => []TypeOK` |
| `ImagesCanBeShown` | `StoredProofs` | `Spec => []RowNamesObject` |
| `LimitAlmostKept` | `StoredProofs` | `Spec => []LimitUpToRequests` |
| `CardsTyped` | `StoredProofs` | `Draft!Spec => []Draft!TypeOK` |
| `AnswersKept` | `StoredProofs` | `Draft!Spec => []TypedAnswersKept` |
| `PageAgrees` | `StoredProofs` | `Draft!Spec => []PageShowsStored` |
| `StoredIsBoth` | `StoredProofs` | `StoredSpec => Spec /\ Draft!Spec` |
| `TypeCorrect` | `StartUpProofs` | `Spec => []TypeOK` |
| `SchemaBeforeUse` | `StartUpProofs` | `Spec => []SchemaComplete` |
| `CopiesBounded` | `StartUpProofs` | `Spec => []CopiesUpToInstances` |
| `DataIsComplete` | `StartUpProofs` | `Spec => []DataComplete` |
| `AnswersStayUnderTheirQuestion` | `QuizQuestionsProofs` | `Spec => RecordedUnderShown` |
| `ResultsAgree` | `QuizQuestionsProofs` | `Spec => []ResultAgrees` |
| `CardsCanBeAnswered` | `QuizQuestionsProofs` | `Spec => []NoDeadEnd` |
| `TypeCorrect` | `QuizCacheProofs` | `Spec => []TypeOK` |
| `PagesAreFresh` | `QuizCacheProofs` | `Spec => []PagesFresh` |
| `InvalidationHolds` | `QuizCacheProofs` | `Spec => []InvalidationTakesEffect` |
| `ListedCanBeOpened` | `TypstMaterialProofs` | `Spec => []MaterialHasObjects` |
| `DeletedIsGone` | `TypstMaterialProofs` | `Spec => []DeletionLeavesNothing` |
| `PreviewIsCurrent` | `TypstMaterialProofs` | `Spec => []PreviewOfLastText` |
| `DeviceAgrees` | `AuthClientProofs` | `Spec => []DeviceFollowsUser` |
| `SegmentsSaved` | `SeparateProofs` | `Gaps!Spec => SavedAsShown` |
| `OptionsSaved` | `SeparateProofs` | `Options!Spec => OptionsKept` |
| `AnswerPosted` | `SeparateProofs` | `Options!Spec => Answerable` |
| `StreakFound` | `SeparateProofs` | `Points!Spec => []StreakIsRun` |
| `Ranking` | `SeparateProofs` | `Points!Spec => []BoardRanks` |
| `BoardAgrees` | `SeparateProofs` | `Points!Spec => []BoardAgreesWithStats` |
| `JudgedAlike` | `SeparateProofs` | `Check!Spec => []VerdictsAgree` |
| `RightAnswered` | `SeparateProofs` | `Check!Spec => []CorrectIsRight` |
| `NothingElseRight` | `SeparateProofs` | `Check!Spec => []RightIsCorrect` |
| `SeparateIsSubject` | `SeparateProofs` | `SeparateSpec`, for each subject, implies its component's `Spec` |

**`QuizSessionProofs`.** Assumed: `LimitsAssumption` (limits are numbers, a time limit
is positive), `NamesAssumption` (the cron goroutine is not a request) and
`AbsentAssumption` (a missing value is not a value). None of the safety properties is
inductive: each speaks of the stores, and what a process may write depends on what it
read earlier. `IInv` therefore adds to them what a process may rely on between two of
its calls. A request at a label has the request that label needs (`RequestsInFlight`)
and its hands full or empty (`HandsFull`); the attempt it holds exists, belongs to its
user and to the quiz it holds beside it (`OwnSessionInHand`), which survives all the
others' steps because rows keep user, quiz and start (`RowsKept`); the question it is
going to record was checked against that very quiz (`QuestionInHand`); the cron
goroutine holds a row that exists (`CronOnRows`); no attempt starts in the future
(`StartedBefore`), without which a session stored *now* would not outlive it.
Preservation is one lemma per group of actions, put together in `NextInductive`. Scores
and deadlines then follow from `IInv` by smaller invariants of their own (`CountsMatch`;
`UpsertsInTime`: a request at `upsert` arrived before the deadline it was checked
against).

The last part of the module is the refinement that `overlap` checks for one attempt. Of an
attempt `AttemptLifecycle` sees holder, completion, right answers, counts taken and
score. A step of `QuizSession` either leaves them alone for all attempts
(`OtherStepsStutter`) or is one of `Open`, `Record`, `Count`, `Complete`, `Forget` for
one of them, with one lemma for each of CreateAttempt, UpsertAnswer, CountAnswers,
UpdateAttempt and the failures. `IInv` is needed for the row a process is about to
write to be there, `AnswersOfAttemptsQuiz` for an attempt to have no answers before it
is opened. Two processes may hold the same count: when one goes, the abstract count
stays or goes (`CountGoes`).

**`StoredProofs`.** Assumed: `BoundsAssumption` for the images, and `DraftAssumption` (every
question has a kind, a missing value is no value). Of the images, `RowNamesObject` is not
inductive: a request inserts a row for an object it put long before, and another one
deletes an object whose row it deleted before. `Naming` says what survives in between:
names are given out once (`GivenOut`, which is the assumption that the clock's nanoseconds
differ), no two rows name one object (`RowsDiffer`), and the object of a request that
inserts, deletes or removes is nobody else's (`Inserting`, `Deleting`, `Removing`). For the
limit, `RoomKept` counts whoever is between the count and the insert as one image more.

Of the answers, `DraftIInv` is the types, and `Kept` as long as nothing has happened that
`excused` names. `Kept` follows what was meant through every place it passes: the fields of
a card nobody has touched are what was last meant (`PageKept`); requests in flight carry one
and the same post (`OnePost`), which was meant, or is new and touched (`PostKept`); what a
navigation has read of the session is still there when it writes (`GotKept`); and session and
row differ only in the question of a request that is between writing the two (`DraftKept`).
What a loaded page shows comes from the answers key alone: `KeyKept` says that the key, while
it is there, has what the rows have, but for the questions a failed `SetKey` left out and
those still between row and key (`Unset`); hence a load that none of the causes
excuses shows what is stored (`LoadKeeps`).

**`StartUpProofs`.** Assumed: `BoundsAssumption` (among others that there is an instance).
`SchemaComplete` needs to know what the
version says of the schema while it is dirty and while somebody migrates (`Executed`),
and that only the lock's holder does (`Locked`). For the copies, `CopiesCounted`
(quizzes of a title, and instances about to create one, are together at most as many as
instances) is inductive thanks to the check before each creation, `Loading` and
`Seeding` say whose turn a row belongs to, and `TriesLeft` that a try remains.
`DataComplete` is about rest; `Whole` says what holds on the way there, as long as nothing
was interrupted: rows of the seed that are missing have an inserter (`SeedWhole`),
questions that are missing have the quiz's creator (`QuizzesWhole`), and the titles an
instance has gone past have a quiz, its own or another's (`TitlesLoaded`).

**`QuizQuestionsProofs`.** Assumed: `BoundsAssumption` (the questions are finitely many).
`AbsentAssumption` says that a missing count is none. Nothing is assumed
of `order_index`. The three properties rest on one fact about lists: at a position, all
lists the database may return have questions of the same `order_index` (`ListsAgree`). It
is proved by counting, in `NoSmaller`: were the number at a position smaller in one list
than in another, the questions up to there, one more than the places before it, would all
be at those places in the other; a sequence of all elements of a finite set repeats and
misses none (`SeqOfAll`). So no induction over lists is needed. `Undisturbed` then says of
a run that is left alone: cache and goroutines hold lists of the rows (`Agree`); the
position of a card, of a post and of the card a post will be answered with is that of
questions of the same order in every list (`CardFits`, `PostsFit`); a recorded verdict is
the one the rows give now (`VerdictsHold`); the request for the result holds the rows as
they are (`AskFits`); and what was counted is right, but for the late answers, from the
count through the update and the deletion of the session to the page (`CountFits`). `Stages`
keeps count, update, deletion and reading apart from a new run. Also in a run that is
disturbed, `Typed` keeps the ids of a list distinct, which is why a card's position is
never beyond the questions there are.

**`QuizCacheProofs`.** Assumed: `BoundsAssumption` (limits and times are numbers, the times
to live positive), `KindsAssumption` and `AbsentAssumption`. `PagesFresh` bounds what a
page has read, so it needs a bound for every place the value was in before. A value on
its way into Redis was true when it set out, at most `FillDelay` ago, and carries a time
to live of its key (`FillIsFresh`); a key expires no later than one delay and one time to
live after it was true (`EntryIsFresh`); both survive an edit because what an edit
replaces is replaced *now* (`Later`, and the lemmas called `...StaysFresh`). That edits
only ever replace what a table holds is `Numbered`. The time to live of a run's questions
is computed from the quiz that was read before them: `LimitRead` says that it has been
read and had a row, `Asking` that somebody asks for a quiz only if there is one. For the
invalidation, `Purging` follows a deleted key: if no goroutine was on its way, whatever
sets out later is as young as the deletion.

**`TypstMaterialProofs`.** Assumed: `BoundsAssumption`. `Storing`: before a deletion begins,
who inserts the row has put both objects. `Removal`: a deletion that is not excused is the
only request in flight, has removed what it is past, and leaves nobody who could store
again. `Editor` and `Preview` follow the text from the keystroke to the frame: the timer
carries what was typed last (`LastTyped`), an awaited save that is alone hands it on from
call to call (`Carried`), its answer is not that of a save the page had given up
(`NoneGivenUp`), and once it is answered compilations started since write the same text
again (`Settled`). That a page can be open only after the material was made (`PageOpen`,
`MadeOnce`) rules out that its creation is still storing the template.

**`AuthClientProofs`.** Assumed: `BoundsAssumption`. `DeviceFollowsUser` is about rest;
`Following` says what holds during an operation that runs alone (`Alone`): until a form
stores or a logout clears it the device has the token of the last sign-in (`Device`),
`me()` asks with just that token, and otherwise the state shows its user (`Shown`).

**`SeparateProofs`.** Assumed: `SeparateAssumption` (the bounds are numbers, the forms have
room for a row). What these components compute is data: sequences of rows, gaps, texts and
attempts, by folds and recursive functions. The library's theorems of induction take an
operator and cannot be used, so what they would say is said of sets: `Upwards` shows that a
set with 0 that has the next of each of its numbers has all of them, because a least number
outside would have one before it; and `Iterates`, that a function defined from one value to
the next exists, by adding one value to the longest. Everything recursive goes through these
two: `FlatStep` for `FlattenSeq`, `SumStep` for the sum of points, `RaisingRearranges` for the
exchanges, `SplitStep` for splitting at bars and `LettersStep` for the letters of a text.

* *Gaps.* `BoxKept`: boxes hold segments, as many as fit, and unless a box is stale their
  numbers are their places. `PostedSegments`: then the handler, which reads by number until one is
  missing, reads them all in order.
* *Options.* `RowsKept`: names grow from row to row unless rows were mixed, and the first row
  has number 0 unless it was removed. `PostedAsSeen`: reading by number up to the limit gives
  what the rows show from top to bottom, because every number belongs to one row or none.
* *Streak.* `RunKept`: the days of the run are days of the student's attempts, the one before
  it is not, and none comes after it. `StreakCounts`: so counting backwards stops where the run began.
* *Leaderboard.* An exchange rearranges a list (`ExchangeKeeps`); raising a place leaves there
  what no later place exceeds, and leaves the earlier ones (`RaisedRanks`); hence `SortRanks`, for
  any list. `BoardKept` adds that what was read above the board is at most the student's total,
  which only grows (`SumGrows`, `TotalGrows`).
* *Judging.* `CheckKept`: the stored text is the joined fields, the verdicts are the judgements
  of it. `SplitJoin`: fields without bars, joined and split again, are the same fields; with
  `TrimmedAlike` and `LowerAlike`, the right answer is judged right. The other way round nothing
  is inverted: splitting, trimming and small letters all keep the letters of a text
  (`LettersSplit`, `LettersTrim`, `LettersNormal`), so what is judged equal has equal letters.

`StoredIsBoth` and `SeparateIsSubject` carry what is proved of the components over to the
compositions that `stored` and `separate` check.

**Only model-checked.** The liveness properties (`EveryAttemptCompletes`, `LogoutEnds`,
`HomeForSignedIn`, `AllServe`), which are out of the prover's reach. The properties of
`Browsing`: `OfferedIsAnswered`, `ChangesAreTold` and `RunningAttemptKept` are about one step of
any of its handlers on any page, a case for each control and handler, which TLC enumerates
and a proof would only repeat; `RedirectionsEnd` depends on which redirection another window
can bring about a second time while the first is followed, over all pairs of handlers; it is
checked with two windows, and a proof has not been attempted.

## Not modelled

* Many of the repository's lines are generated: `*_templ.go` (layout; what a page offers
  or posts is `Pages`), `gettext.go`, protobuf, dependency
  injection, mocks. Definitions name generated Go where that is the code they translate
  (queries in `shared/db/*.sql.go`, cards and forms in `*_templ.go`).
* The subscription to Redis key events: a defer closes it before its goroutine can use
  it, and it waits for keys (`quiz:timer:`) nothing writes. `Shutdown` only ends the
  process.
* What the statistics, the errors page and the lists of materials print; that they are
  reached and what they offer is in `Browsing`. What the leaderboard shows is
  `Gamification`.
* UploadResourceMaterial: a put and an insert like UploadTypstMaterial's.
* LocalAuthApi, an in-memory stand-in for builds of the client without a server; password
  hashing and token signing, which keep no state.
* The form that adds a question: the editing form's, from empty. Two quizzes at once on
  the result page.
* Two editor pages of one material, in two windows: `TypstMaterial` has one page, whose
  saves overlap with each other, with a compilation from the material's page and with a
  deletion.
* Locale and compression middleware, metrics, configuration, deployment files other than the restart policy.
