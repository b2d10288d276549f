------------------------------ MODULE Browsing ------------------------------
(***************************************************************************)
(* Users at the web site: windows of browsers show pages (Pages), a        *)
(* control of a page is pressed, the request goes through the routes and   *)
(* the middleware to a handler, and the browser does with the answer what  *)
(* htmx, admin.js or the browser itself does with it: shows it, puts it    *)
(* into the page, asks for the address it names, loads the page again.     *)
(*                                                                         *)
(* A step is one request answered whole.  How handlers that run at once    *)
(* interleave is the matter of QuizSession, QuizQuestions and              *)
(* QuestionImages; here requests of several windows interleave, with the   *)
(* redirections they are made of, and pages are looked at long after what  *)
(* they show has changed.  Stale caches are the matter of QuizCache.       *)
(***************************************************************************)
EXTENDS Pages, Sequences, SequencesExt

CONSTANTS
    Visitors,       \* the users of whom one sits at these browsers
    Habits,         \* Habits[u]: what the visitor u does, see below
    Windows, Browsers,
    Browser,        \* Browser[w]: whose cookies the window w sends
    Author,         \* the teacher who made the quizzes
    Owner0,         \* Owner0[m]: the owner of the material m, or None
    MaxHops         \* redirections the browser follows before it gives up

(***************************************************************************)
(* What differs from visitor to visitor, so that one run is about several: *)
(*   quizzes  the questions of each quiz to begin with, in order           *)
(*   types    the addresses u types into the address line                  *)
(* and the bounds                                                          *)
(*   avoids   the addresses whose controls u does not press                *)
(*   makes    the names of what u may make                                 *)
(*   windows  how many windows u opens                                     *)
(*   atonce   how many requests u has under way                            *)
(*   faults   how often the database fails                                 *)
(***************************************************************************)

VARIABLES
    visitor,    \* who sits at the browsers
    db,         \* what the server keeps
    jar,        \* jar[b]: the cookies token and quiz_session_id of b
    window,     \* window[w]: the page shown, its address, whether it is up to date
    asked,      \* asked[w]: the request under way, the control it came from, and
                \* how often it was sent on since
    told,       \* what became of the last one, whoever's
    faults

vars == <<visitor, db, jar, window, asked, told, faults>>

Mine == Habits[visitor]

Nowhere == Page("nothing", {})
Blank == [page |-> Nowhere, address |-> Link("/"), fresh |-> TRUE]

Init ==
    /\ visitor \in Visitors
    /\ db = [accounts  |-> Teachers,
             status    |-> [q \in Quizzes |-> "available"],
             questions |-> Mine.quizzes,
             images    |-> [k \in QuestionIds |-> {}],
             owner     |-> Owner0,
             session   |-> [u \in Users |-> None],
             taken     |-> [u \in Users |-> {}],
             answered  |-> {},
             spent     |-> (QuestionIds \cup Images \cup Materials) \ Mine.makes]
    /\ jar = [b \in Browsers |-> [token |-> None, session |-> None]]
    /\ window = [w \in Windows |-> Blank]
    /\ asked = [w \in Windows |-> None]
    /\ told = "nothing"
    /\ faults = 0

-----------------------------------------------------------------------------
(* The browser                                                             *)

R(w) == asked[w].request
Cookies(w) == jar[Browser[w]]
Me(w) == Cookies(w).token

\* htmx and admin.js mark their requests with the header HX-Request.
Marked(r) == r.swap \notin {"page", "text"}
IsHtmx(r) == r.swap \in {"content", "timer", "questions", "self", "remove", "none"}

\* Answers: a page or a part of one, perhaps with an address for it; 200 and
\* nothing; a redirection; one by the headers of htmx; a status that tells of an
\* error; none, as a template panicked or the browser gave up.
Reply(kind, page, to) == [kind |-> kind, page |-> page, to |-> to]
Shows(page) == Reply("page", page, None)
ShowsAt(page, to) == Reply("page", page, to)
Done == Reply("done", Nowhere, None)
Redirects(to) == Reply("redirect", Nowhere, to)
HxRedirect(to) == Reply("hx-redirect", Nowhere, to)
HxRefresh == Reply("hx-refresh", Nowhere, None)
Error(status) == Reply("error", ErrorPage(status), None)
Aborts == Reply("abort", Nowhere, None)

Fails(a) == a.kind \in {"error", "abort"}

\* The request that follows from the answer: a POST that is redirected becomes
\* a GET, any other verb is kept.
Onward(w, a) ==
    LET r == R(w)
    IN CASE a.kind = "redirect" ->
              [a.to EXCEPT !.verb = IF r.verb = "POST" THEN "GET" ELSE r.verb, !.swap = r.swap]
         [] IsHtmx(r) /\ a.kind = "hx-redirect" -> a.to
         [] (IsHtmx(r) /\ a.kind = "hx-refresh") \/ (r.swap = "reload" /\ ~Fails(a)) ->
              window[w].address
         [] OTHER -> None

OfQuestions(c) == c.at \in
    {"/admin/quizzes/{id}/question", "/admin/quizzes/{id}/question/{qid}",
     "/admin/quizzes/{id}/question/{qid}/image",
     "/admin/quizzes/{id}/question/{qid}/image/{imgid}",
     "/admin/questions/prompt", "/admin/quizzes/{id}/questions/import"}

\* What w shows after the answer a; moved: the request has changed something.
Displayed(w, a, moved) ==
    LET r == R(w)
        seen == window[w]
        kept == [seen EXCEPT !.fresh = @ /\ ~moved]
    IN CASE Onward(w, a) # None -> kept
         [] r.swap = "page" ->
              [page |-> a.page, address |-> r, fresh |-> TRUE]
         [] Fails(a) -> kept
         [] r.swap = "content" /\ a.kind = "page" ->
              [page    |-> [seen.page EXCEPT !.content = a.page.body \cup a.page.content,
                                             !.timer = a.page.timer],
               address |-> IF a.to = None THEN seen.address ELSE a.to,
               fresh   |-> TRUE]
         [] r.swap = "timer" /\ a.kind = "page" ->
              [kept EXCEPT !.page.timer = Controls(a.page)]
         [] r.swap = "questions" /\ a.kind = "page" ->
              [seen EXCEPT !.page.body = {c \in @ : ~OfQuestions(c)} \cup a.page.body]
         [] r.swap = "self" /\ a.kind = "page" ->
              [kept EXCEPT !.page.body = @ \cup Controls(a.page)]
         [] r.swap = "remove" -> \* the card with the controls of its images
              [seen EXCEPT !.page.body =
                {c \in @ : c.what # r.what \/ ~OfQuestions(c)}]
         [] r.swap = "alert" /\ r.verb = "DELETE" ->
              [seen EXCEPT !.page.body = @ \ {r}]
         [] r.swap = "alert" -> seen
         [] OTHER -> kept

Outcome(r, a) ==
    CASE Fails(a) -> "refused"
      [] a.kind = "page" /\ r.swap \in {"none", "alert", "remove", "reload"} -> "unseen"
      [] a.kind = "page" -> a.page.name
      [] OTHER -> "done"

\* The answer a arrives at w; the server's state becomes d, the cookies c.
Answer(w, a, d, c) ==
    LET moved == d # db \/ c # Cookies(w)
        next == Onward(w, a)
        Disturbs(v) == d # db \/ (c # Cookies(w) /\ Browser[v] = Browser[w])
    IN /\ db' = d
       /\ jar' = [jar EXCEPT ![Browser[w]] = c]
       /\ window' = [v \in Windows |->
            IF v = w THEN Displayed(w, a, moved)
            ELSE [window[v] EXCEPT !.fresh = @ /\ ~Disturbs(v)]]
       /\ asked' = [v \in Windows |->
            IF v # w
            THEN IF asked[v] = None THEN None
                 ELSE [asked[v] EXCEPT !.fresh = @ /\ ~Disturbs(v)]
            ELSE IF next = None THEN None
                 ELSE [asked[w] EXCEPT !.request = next, !.changed = @ \/ moved,
                                      !.hops = @ + 1]]
       /\ told' = IF next = None THEN Outcome(R(w), a) ELSE "waiting"

\* An answer that changes nothing at the server.
Returns(w, a) == Answer(w, a, db, Cookies(w))

Waiting == {w \in Windows : asked[w] # None}
Opened == Waiting \cup {w \in Windows : window[w].page # Nowhere}

Ask(w, control, fresh) ==
    /\ asked[w] = None
    /\ Cardinality(Opened \cup {w}) <= Mine.windows
    /\ Cardinality(Waiting) < Mine.atonce
    /\ asked' = [asked EXCEPT ![w] =
         [control |-> control, request |-> control, fresh |-> fresh, changed |-> FALSE,
          hops |-> 0]]
    /\ told' = "waiting"
    /\ UNCHANGED <<db, jar, window, faults>>

\* A name is given once.  A control that makes something new is pressed while
\* there is a name left.
Unspent(names) == names \ db.spent

CanBeMet(c) ==
    CASE c.at \in {"/admin/quizzes/{id}/question", "/admin/quizzes/{id}/questions/import"} ->
            Unspent(QuestionIds) # {}
      [] c.at = "/admin/quizzes/{id}/question/{qid}/image" -> Unspent(Images) # {}
      [] c.at = "/admin/learning-materials/new" /\ c.verb = "POST" ->
            Unspent(IF c.what = "template" THEN Typst ELSE Materials) # {}
      [] OTHER -> TRUE

Press(w) ==
    \E c \in Controls(window[w].page) :
        c.at \notin Mine.avoids /\ CanBeMet(c) /\ Ask(w, c, window[w].fresh)

Type(w) == \E a \in Mine.types : Ask(w, a, TRUE)

Reload(w) == Ask(w, window[w].address, window[w].fresh)

-----------------------------------------------------------------------------
(* Routes and middleware                                                   *)

Public == {"/", "/login", "/register"}

StudentRoutes == [GET  |-> {"/logout", "/dashboard", "/quiz/{id}", "/quiz/{id}/info",
                            "/quiz/{id}/q/{index}", "/quiz/{id}/sync", "/quiz/{id}/result",
                            "/errors", "/leaderboard", "/editor"},
                  POST |-> {"/quiz/{id}/navigate", "/quiz/{id}/finish",
                            "/quiz/{id}/cancel-session"}]

AdminRoutes == [GET    |-> {"/admin", "/admin/quizzes", "/admin/quizzes/new",
                            "/admin/quizzes/{id}", "/admin/results", "/admin/statistics",
                            "/admin/api/quiz-stats", "/admin/api/grade-dist",
                            "/admin/api/subject-dist", "/admin/questions/schema",
                            "/admin/questions/prompt", "/admin/learning-materials",
                            "/admin/learning-materials/new", "/admin/learning-materials/{id}",
                            "/admin/learning-materials/{id}/preview"},
                POST   |-> {"/admin/quizzes/{id}/question",
                            "/admin/quizzes/{id}/question/{qid}/image",
                            "/admin/quizzes/{id}/restore",
                            "/admin/quizzes/{id}/questions/import",
                            "/admin/learning-materials/new",
                            "/admin/learning-materials/{id}/compile"},
                PUT    |-> {"/admin/quizzes/{id}", "/admin/quizzes/{id}/question/{qid}"},
                DELETE |-> {"/admin/quizzes/{id}", "/admin/quizzes/{id}/question/{qid}",
                            "/admin/quizzes/{id}/question/{qid}/image/{imgid}",
                            "/admin/learning-materials/{id}"}]

ForStudents(r) == r.verb \in DOMAIN StudentRoutes /\ r.at \in StudentRoutes[r.verb]
ForAdmin(r) == r.at \in AdminRoutes[r.verb]
ForAll(r) == r.at \in Public /\ r.verb \in {"GET", "POST"} /\ (r.at = "/" => r.verb = "GET")

\* A fault the runs must find: the pages of students are for students only.
AdmittedByExactRole(w) ==
    \/ ForAll(R(w))
    \/ ForStudents(R(w)) /\ Me(w) \notin Teachers \cup {None}
    \/ ForAdmin(R(w)) /\ Me(w) \in Teachers

Admitted(w) ==
    \/ ForAll(R(w))
    \/ ForStudents(R(w)) /\ Me(w) # None
    \/ ForAdmin(R(w)) /\ Me(w) \in Teachers

\* The mux finds no route: "GET /" takes every GET, and what is left is 405.
Unrouted(w) ==
    /\ asked[w] # None /\ asked[w].hops < MaxHops
    /\ ~ForAll(R(w)) /\ ~ForStudents(R(w)) /\ ~ForAdmin(R(w))
    /\ Returns(w, IF R(w).verb = "GET" THEN Shows(LandingPage) ELSE Error(405))

HandleAuthFailure(w) ==
    /\ asked[w] # None /\ asked[w].hops < MaxHops
    /\ ForStudents(R(w)) \/ ForAdmin(R(w))
    /\ ~Admitted(w)
    /\ Returns(w, IF Marked(R(w)) THEN Error(404) ELSE Redirects(Link("/login")))

\* Too many redirections: the browser follows no further.
GiveUp(w) ==
    /\ asked[w] # None /\ asked[w].hops = MaxHops
    /\ Returns(w, Aborts)

Arrives(w, verb, at) ==
    /\ asked[w] # None /\ asked[w].hops < MaxHops
    /\ R(w).verb = verb /\ R(w).at = at
    /\ Admitted(w)

\* These handlers ask nothing of the database.
Storeless == Public \cup {"/logout", "/quiz/{id}", "/admin/questions/prompt",
                           "/admin/questions/schema"}

\* The database fails under a handler before it has changed anything.
ErrorHandler(w) ==
    /\ asked[w] # None /\ asked[w].hops < MaxHops
    /\ Admitted(w) /\ R(w).at \notin Storeless
    /\ faults < Mine.faults /\ faults' = faults + 1
    /\ Returns(w, Error(500))

-----------------------------------------------------------------------------
(* Signing in and out                                                      *)

GetLandingPage(w) == Arrives(w, "GET", "/") /\ Returns(w, Shows(LandingPage))
\* A fault the runs must find: a student in a quiz is sent back there,
\* signed in or not.
BackFromLogin(w) ==
    /\ Arrives(w, "GET", "/login")
    /\ Returns(w, IF Cookies(w).session = None THEN Shows(LoginPage)
                  ELSE Redirects(window[w].address))

GetLoginPage(w) == Arrives(w, "GET", "/login") /\ Returns(w, Shows(LoginPage))
GetRegisterPage(w) == Arrives(w, "GET", "/register") /\ Returns(w, Shows(RegisterPage))

SignsIn(w, d, u) ==
    Answer(w, Redirects(Link(IF u \in Teachers /\ R(w).at = "/login" THEN "/admin"
                             ELSE "/dashboard")),
           d, [Cookies(w) EXCEPT !.token = u])

LoginSubmit(w) ==
    /\ Arrives(w, "POST", "/login")
    /\ \/ visitor \in db.accounts /\ SignsIn(w, db, visitor)
       \/ Returns(w, Shows(LoginPage))         \* the password is wrong

RegisterSubmit(w) ==
    /\ Arrives(w, "POST", "/register")
    /\ \/ /\ visitor \notin db.accounts
          /\ SignsIn(w, [db EXCEPT !.accounts = @ \cup {visitor}], visitor)
       \/ Returns(w, Shows(RegisterPage))      \* too short, or known already

\* The cookie of the session stays where it is.
Logout(w) ==
    /\ Arrives(w, "GET", "/logout")
    /\ Answer(w, Redirects(Link("/")), db, [Cookies(w) EXCEPT !.token = None])

-----------------------------------------------------------------------------
(* The student's handlers                                                  *)

Live(d, u) == d.session[u] # None /\ ~d.session[u].over

\* GetActiveSessionForUser; lost: one of its queries has failed.
ActiveSession(u, lost) == IF Live(db, u) /\ ~lost THEN db.session[u] ELSE None

Losing(lost) == IF lost THEN faults < Mine.faults /\ faults' = faults + 1
                ELSE UNCHANGED faults

GetQuizzesForUser(u) == {q \in Quizzes : db.status[q] = "available" \/ u = Author}

GetDashboardPage(w, lost) ==
    /\ Arrives(w, "GET", "/dashboard")
    /\ Losing(lost)
    /\ Returns(w, Shows(DashboardPage(Me(w), GetQuizzesForUser(Me(w)),
                                      ActiveSession(Me(w), lost))))

QuizStart(w) ==
    /\ Arrives(w, "GET", "/quiz/{id}")
    /\ Returns(w, Redirects(LinkTo("/quiz/{id}/info", R(w).id)))

QuizInfo(w) ==
    /\ Arrives(w, "GET", "/quiz/{id}/info")
    /\ Returns(w, IF R(w).id \in Quizzes THEN Shows(QuizInfoPage(R(w).id)) ELSE Error(500))

\* getSessionFromRequest: the user's running session; else the one of the user
\* named by the cookie, running or not; else a new one.
Session(quiz, at, over) == [quiz |-> quiz, at |-> at, over |-> over]

Holder(w, lost) ==
    IF ActiveSession(Me(w), lost) # None THEN Me(w)
    ELSE IF Cookies(w).session # None /\ db.session[Cookies(w).session] # None
         THEN Cookies(w).session ELSE None

InConflict(w, q, lost) ==
    Holder(w, lost) # None /\ db.session[Holder(w, lost)].quiz # q

\* There is a session, or CreateSession inserts an attempt, which has to name a
\* quiz there is.
HasSession(w, q, lost) == Holder(w, lost) # None \/ q \in Quizzes

\* The state with the session that is found or created.
WithSession(w, q, lost) ==
    IF Holder(w, lost) # None THEN db
    ELSE [db EXCEPT !.session[Me(w)] = Session(q, 0, FALSE)]

\* The cookie that goes with it: it is set with a page, never with an error.
WithCookie(w, lost) ==
    IF Holder(w, lost) # None THEN Cookies(w) ELSE [Cookies(w) EXCEPT !.session = Me(w)]

\* A fault the runs must find: the other quiz's session ends without asking.
ConflictEnded(w, q, lost) ==
    Answer(w, Redirects(LinkToQuestion(q, 0)),
           [db EXCEPT !.session[Holder(w, lost)] = None], Cookies(w))

Conflict(w, q, lost) ==
    LET h == Holder(w, lost)
    IN Returns(w, Shows(SessionConflictPage(h, db.session[h], q)))

QuestionsOf(d, u) == d.questions[d.session[u].quiz]
Count(d, u) == Len(QuestionsOf(d, u))

\* SaveAnswer: an answer to the question at index refers to it from now on.
Answered(d, u, index) == [d EXCEPT !.answered = @ \cup {QuestionsOf(d, u)[index + 1]}]

\* The card shows the questions of the user's own session, and names their quiz.
\* No question, and the template panics.
CardOf(d, u, index) ==
    LET q == d.session[u].quiz
    IN PageOf("card", {}, QuestionCard(q, index, Count(d, u), u), TimerWidget(q, u))

QuizQuestion(w, lost) ==
    /\ Arrives(w, "GET", "/quiz/{id}/q/{index}")
    /\ HasSession(w, R(w).id, lost)
    /\ Losing(lost)
    /\ LET u == Me(w)
           d == WithSession(w, R(w).id, lost)
           index == IF R(w).n[1] >= Count(d, u) THEN 0 ELSE R(w).n[1]
       IN IF InConflict(w, R(w).id, lost) THEN Conflict(w, R(w).id, lost)
          ELSE IF d.session[u] = None THEN Returns(w, Error(500))
          ELSE IF Count(d, u) = 0 THEN Answer(w, Aborts, d, Cookies(w))
          ELSE Answer(w, Shows(IF Marked(R(w)) THEN CardOf(d, u, index)
                               ELSE QuizPage(d.session[u].quiz, index, Count(d, u), u)),
                      d, WithCookie(w, lost))

\* CreateSession fails, as the database does or as the id names no quiz: the page
\* is asked for again.
QuizQuestionRetry(w, lost) ==
    /\ Arrives(w, "GET", "/quiz/{id}/q/{index}") \/ Arrives(w, "POST", "/quiz/{id}/navigate")
    /\ Holder(w, lost) = None
    /\ \/ ~HasSession(w, R(w).id, lost) /\ Losing(lost)
       \/ HasSession(w, R(w).id, lost) /\ ~lost /\ Losing(TRUE)
    /\ Returns(w, Redirects(LinkToQuestion(R(w).id, 0)))

\* NavigateQuestion stores where the user goes before it saves the answer, which
\* is refused when its question has gone.
QuizNavigate(w, lost) ==
    /\ Arrives(w, "POST", "/quiz/{id}/navigate")
    /\ HasSession(w, R(w).id, lost)
    /\ Losing(lost)
    /\ LET u == Me(w)
           q == R(w).id
           found == WithSession(w, q, lost)
           count == Count(found, u)
           target == IF R(w).n[2] >= count THEN 0 ELSE R(w).n[2]
           moved == [found EXCEPT !.session[u].at = target]
           h == Holder(w, lost)
       IN IF InConflict(w, q, lost) THEN Conflict(w, q, lost)
          ELSE IF found.session[u] = None THEN Returns(w, Error(500))
          ELSE IF count = 0 THEN Answer(w, Error(500), found, Cookies(w))
          ELSE IF found.session[u].over
               THEN Returns(w, Redirects(LinkToResult(q, h)))
          ELSE IF R(w).n[1] >= count THEN Answer(w, Error(500), moved, Cookies(w))
          ELSE Answer(w, ShowsAt(CardOf(moved, u, target), LinkToQuestion(q, target)),
                      Answered(moved, u, R(w).n[1]), WithCookie(w, lost))

QuizFinish(w) ==
    /\ Arrives(w, "POST", "/quiz/{id}/finish")
    /\ LET u == Me(w)
           result == LinkToResult(R(w).id, R(w).what)
       IN IF db.session[R(w).what] = None
          THEN Returns(w, Redirects(LinkToQuestion(R(w).id, 0)))
          ELSE IF db.session[u] = None \/ R(w).n[1] >= Count(db, u)
               THEN Returns(w, Error(500))
          ELSE IF db.session[u].over THEN Returns(w, Redirects(result))
          ELSE Answer(w, HxRedirect(result), Answered(db, u, R(w).n[1]), Cookies(w))

\* CompleteSession, and the attempt that GetQuizErrors lists.
Completed(u) ==
    [db EXCEPT !.session[u] = None, !.taken[u] = @ \cup {db.session[u].quiz}]

\* The session named by the address says whether there is a result; the session
\* that is completed is the user's own.
QuizResult(w) ==
    /\ Arrives(w, "GET", "/quiz/{id}/result")
    /\ LET u == Me(w)
       IN IF db.session[R(w).what] = None
          THEN Returns(w, Redirects(LinkTo("/quiz/{id}/info", R(w).id)))
          ELSE IF db.session[u] = None THEN Returns(w, Error(500))
          ELSE Answer(w, Shows(QuizResultPage(u)), Completed(u),
                      [Cookies(w) EXCEPT !.session = None])

CancelSession(w) ==
    /\ Arrives(w, "POST", "/quiz/{id}/cancel-session")
    /\ LET holder == R(w).what
       IN IF db.session[holder] = None
          THEN Returns(w, Redirects(LinkTo("/quiz/{id}/info", R(w).id)))
          ELSE IF holder # Me(w) THEN Returns(w, Error(401))
          ELSE Answer(w, Redirects(LinkToQuestion(R(w).id, 0)), Completed(holder),
                      [Cookies(w) EXCEPT !.session = None])

SyncTime(w) ==
    /\ Arrives(w, "GET", "/quiz/{id}/sync")
    /\ LET session == db.session[R(w).what]
       IN Returns(w,
            IF session = None THEN Redirects(LinkTo("/quiz/{id}/info", R(w).id))
            ELSE IF session.over THEN Redirects(LinkToResult(R(w).id, R(w).what))
            ELSE Shows(PageOf("timer", {}, {}, TimerWidget(R(w).id, R(w).what))))

GetErrorsPage(w) ==
    /\ Arrives(w, "GET", "/errors")
    /\ Returns(w, Shows(ErrorsPage(Me(w), db.taken[Me(w)])))

GetLeaderboardPage(w) ==
    Arrives(w, "GET", "/leaderboard") /\ Returns(w, Shows(LeaderboardPage(Me(w))))

-----------------------------------------------------------------------------
(* The teacher's handlers                                                  *)

Existing == {m \in Materials : db.owner[m] # None}

AdminDashboard(w) ==
    Arrives(w, "GET", "/admin") /\ Returns(w, Shows(AdminDashboardPage(Existing)))

GetNonArchivedQuizzes == {q \in Quizzes : db.status[q] # "archived"}

Archived == {q \in Quizzes : db.status[q] = "archived"}

\* QuizzesNew shows the list, too: what it would do with a POST has no route.
GetQuizzes(w) ==
    /\ Arrives(w, "GET", "/admin/quizzes") \/ Arrives(w, "GET", "/admin/quizzes/new")
    /\ Returns(w, Shows(QuizzesPage(GetNonArchivedQuizzes, Archived)))

QuizView(w) ==
    /\ Arrives(w, "GET", "/admin/quizzes/{id}")
    /\ Returns(w, Shows(QuizEditPage(R(w).id, ToSet(db.questions[R(w).id]), db.images)))

QuizUpdate(w) ==
    /\ Arrives(w, "PUT", "/admin/quizzes/{id}")
    /\ Answer(w, Done, [db EXCEPT !.status[R(w).id] = R(w).what], Cookies(w))

\* RestoreQuiz has a route, too, but no page comes to offer it: the list shows
\* the quizzes that are not archived.

\* Archives the quiz and redirects, and a redirected DELETE stays a DELETE.
QuizDelete(w) ==
    /\ Arrives(w, "DELETE", "/admin/quizzes/{id}")
    /\ Answer(w, Redirects(Link("/admin/quizzes")),
              [db EXCEPT !.status[R(w).id] = "archived"], Cookies(w))

IsQuestion(k) == \E q \in Quizzes : k \in ToSet(db.questions[q])

AddQuestion(w) ==
    /\ Arrives(w, "POST", "/admin/quizzes/{id}/question")
    /\ \E k \in Unspent(QuestionIds) :
        LET q == R(w).id
            d == [db EXCEPT !.questions[q] = Append(@, k), !.spent = @ \cup {k}]
        IN Answer(w, Shows(Page("questions",
                                QuestionsSection(q, ToSet(d.questions[q]), d.images))),
                  d, Cookies(w))

ImportQuestions(w) ==
    /\ Arrives(w, "POST", "/admin/quizzes/{id}/questions/import")
    /\ \E new \in SUBSET Unspent(QuestionIds) \ {{}} :
        Answer(w, HxRefresh,
               [db EXCEPT !.questions[R(w).id] = @ \o SetToSeq(new), !.spent = @ \cup new],
               Cookies(w))

\* The question's text and answers are the matter of QuestionForm and FillForm.
UpdateQuestion(w) ==
    /\ Arrives(w, "PUT", "/admin/quizzes/{id}/question/{qid}")
    /\ Returns(w, IF IsQuestion(R(w).what) THEN Done ELSE Error(404))

\* A fault the runs must find: answered as a form is, by the quiz's page.
DeleteQuestionRedirected(w) ==
    /\ Arrives(w, "DELETE", "/admin/quizzes/{id}/question/{qid}")
    /\ LET k == R(w).what
       IN IF ~IsQuestion(k) \/ k \in db.answered THEN Returns(w, Error(404))
          ELSE Answer(w, Redirects(LinkTo("/admin/quizzes/{id}", R(w).id)),
                      [db EXCEPT !.questions[R(w).id] = Remove(@, k), !.images[k] = {}],
                      Cookies(w))

\* An answer refers to its question, which the database then keeps.
DeleteQuestion(w) ==
    /\ Arrives(w, "DELETE", "/admin/quizzes/{id}/question/{qid}")
    /\ LET k == R(w).what
       IN IF ~IsQuestion(k) \/ k \in db.answered THEN Returns(w, Error(404))
          ELSE Answer(w, Done,
                      [db EXCEPT !.questions[R(w).id] = Remove(@, k), !.images[k] = {}],
                      Cookies(w))

UploadQuestionImage(w) ==
    /\ Arrives(w, "POST", "/admin/quizzes/{id}/question/{qid}/image")
    /\ LET k == R(w).what
       IN IF ~IsQuestion(k) \/ Cardinality(db.images[k]) >= MaxImages
          THEN Returns(w, Error(400))
          ELSE \E i \in Unspent(Images) :
                Answer(w, Done, [db EXCEPT !.images[k] = @ \cup {i}, !.spent = @ \cup {i}],
                       Cookies(w))

DeleteQuestionImage(w) ==
    /\ Arrives(w, "DELETE", "/admin/quizzes/{id}/question/{qid}/image/{imgid}")
    /\ LET k == R(w).what
       IN IF R(w).id \notin db.images[k] THEN Returns(w, Error(404))
          ELSE Answer(w, Done, [db EXCEPT !.images[k] = @ \ {R(w).id}], Cookies(w))

GetPrompt(w) ==
    Arrives(w, "GET", "/admin/questions/prompt") /\ Returns(w, Shows(Page("prompt", {})))

Results(w) == Arrives(w, "GET", "/admin/results") /\ Returns(w, Shows(ResultsPage))
Statistics(w) == Arrives(w, "GET", "/admin/statistics") /\ Returns(w, Shows(StatisticsPage))
QuizStatsData(w) ==
    Arrives(w, "GET", "/admin/api/quiz-stats") /\ Returns(w, Shows(QuizStatsPartial))
GradeDistData(w) ==
    Arrives(w, "GET", "/admin/api/grade-dist") /\ Returns(w, Shows(GradeDistPartial))
SubjectDistData(w) ==
    Arrives(w, "GET", "/admin/api/subject-dist") /\ Returns(w, Shows(SubjectDistPartial))

-----------------------------------------------------------------------------
(* Learning materials                                                      *)

ListMaterials(w) ==
    /\ Arrives(w, "GET", "/admin/learning-materials")
    /\ Returns(w, Shows(LearningMaterialsListPage(Existing)))

NewMaterial(w) ==
    /\ Arrives(w, "GET", "/admin/learning-materials/new")
    /\ Returns(w, Shows(LearningMaterialsNewPage))

CreateMaterial(w) ==
    /\ Arrives(w, "POST", "/admin/learning-materials/new")
    /\ \E m \in Unspent(IF R(w).what = "template" THEN Typst ELSE Materials) :
        Answer(w, HxRedirect(IF R(w).what = "template" THEN LinkTo("/editor", m)
                             ELSE LinkTo("/admin/learning-materials/{id}", m)),
               [db EXCEPT !.owner[m] = Me(w), !.spent = @ \cup {m}], Cookies(w))

ViewMaterial(w) ==
    /\ Arrives(w, "GET", "/admin/learning-materials/{id}")
    /\ Returns(w, IF R(w).id \in Existing THEN Shows(LearningMaterialsViewPage(R(w).id))
                  ELSE Error(404))

DeleteMaterial(w) ==
    /\ Arrives(w, "DELETE", "/admin/learning-materials/{id}")
    /\ IF db.owner[R(w).id] # Me(w) THEN Returns(w, Error(500))
       ELSE Answer(w, HxRedirect(Link("/admin/learning-materials")),
                   [db EXCEPT !.owner[R(w).id] = None], Cookies(w))

PreviewMaterial(w) ==
    /\ Arrives(w, "GET", "/admin/learning-materials/{id}/preview")
    /\ Returns(w, IF R(w).id \in Existing THEN Shows(LearningMaterialsPreviewPage(R(w).id))
                  ELSE Error(404))

CompileMaterial(w) ==
    /\ Arrives(w, "POST", "/admin/learning-materials/{id}/compile")
    /\ \/ db.owner[R(w).id] = Me(w) /\ Returns(w, HxRefresh)
       \/ Returns(w, Error(500))    \* not the owner, or it does not compile

\* Asks for no material: one that is gone has an empty source.
GetEditorPage(w) == Arrives(w, "GET", "/editor") /\ Returns(w, Shows(EditorPage(R(w).id)))

-----------------------------------------------------------------------------
(* What happens meanwhile                                                  *)

Meanwhile(d, j) ==
    /\ db' = d /\ jar' = j
    /\ window' = [w \in Windows |-> [window[w] EXCEPT !.fresh = FALSE]]
    /\ asked' = [w \in Windows |->
         IF asked[w] = None THEN None ELSE [asked[w] EXCEPT !.fresh = FALSE]]
    /\ UNCHANGED <<told, faults>>

\* The time of an attempt runs out; later its key expires, and the cron job
\* has completed the attempt by then, or will.
TimeOver(u) ==
    /\ Live(db, u)
    /\ Meanwhile([db EXCEPT !.session[u].over = TRUE], jar)

KeyExpires(u) ==
    /\ db.session[u] # None /\ db.session[u].over
    /\ \E taken \in {db.taken[u], db.taken[u] \cup {db.session[u].quiz}} :
        Meanwhile([db EXCEPT !.session[u] = None, !.taken[u] = taken], jar)

\* The cookie of a session lasts as long as its time.
CookieExpires(b) ==
    /\ jar[b].session # None
    /\ ~Live(db, jar[b].session)
    /\ Meanwhile(db, [jar EXCEPT ![b].session = None])

TokenExpires(b) ==
    /\ jar[b].token # None
    /\ Meanwhile(db, [jar EXCEPT ![b].token = None])

-----------------------------------------------------------------------------
SignIn(w) == GetLandingPage(w) \/ GetLoginPage(w) \/ GetRegisterPage(w)
                \/ LoginSubmit(w) \/ RegisterSubmit(w) \/ Logout(w)

Student(w) == QuizStart(w) \/ QuizInfo(w) \/ QuizFinish(w) \/ QuizResult(w)
                \/ CancelSession(w) \/ SyncTime(w) \/ GetErrorsPage(w)
                \/ GetLeaderboardPage(w)

Teacher(w) ==
    \/ AdminDashboard(w) \/ GetQuizzes(w) \/ QuizView(w) \/ QuizUpdate(w)
    \/ QuizDelete(w) \/ AddQuestion(w) \/ ImportQuestions(w)
    \/ UpdateQuestion(w) \/ DeleteQuestion(w) \/ UploadQuestionImage(w)
    \/ DeleteQuestionImage(w) \/ GetPrompt(w) \/ Results(w) \/ Statistics(w)
    \/ QuizStatsData(w) \/ GradeDistData(w) \/ SubjectDistData(w)

Material(w) == ListMaterials(w) \/ NewMaterial(w) \/ CreateMaterial(w)
                \/ ViewMaterial(w) \/ DeleteMaterial(w) \/ PreviewMaterial(w)
                \/ CompileMaterial(w) \/ GetEditorPage(w)

Lookup(w, lost) ==
    GetDashboardPage(w, lost) \/ QuizQuestion(w, lost) \/ QuizQuestionRetry(w, lost)
        \/ QuizNavigate(w, lost)

Serve(w) ==
    \/ UNCHANGED faults /\ (SignIn(w) \/ Student(w) \/ Teacher(w) \/ Material(w)
                             \/ Unrouted(w) \/ HandleAuthFailure(w) \/ GiveUp(w))
    \/ \E lost \in BOOLEAN : Lookup(w, lost)
    \/ ErrorHandler(w)

Next ==
    /\ UNCHANGED visitor
    /\ \/ \E w \in Windows : Press(w) \/ Type(w) \/ Reload(w) \/ Serve(w)
       \/ \E u \in Users : TimeOver(u) \/ KeyExpires(u)
       \/ \E b \in Browsers : CookieExpires(b) \/ TokenExpires(b)

\* Every request is answered: the server gives each a goroutine of its own.
Spec == Init /\ [][Next]_vars /\ \A w \in Windows : WF_vars(Serve(w))

-----------------------------------------------------------------------------
(* Properties                                                              *)

Ends(w) == asked[w] # None /\ asked'[w] = None
Moves(w) == asked[w].changed \/ db' # db \/ jar' # jar

\* What each address stands for: the page it shows, or what is done.
Means(c) == CASE
     c.at = "/login" -> {"login", "overview", "dashboard"}
  [] c.at = "/register" -> {"register", "dashboard"}
  [] c.at \in {"/", "/logout"} -> {"landing"}
  [] c.at = "/dashboard" -> {"dashboard"}
  [] c.at = "/leaderboard" -> {"leaderboard"}
  [] c.at = "/errors" -> {"errors"}
  [] c.at \in {"/quiz/{id}", "/quiz/{id}/info"} -> {"info"}
  [] c.at = "/quiz/{id}/q/{index}" -> {"quiz", "conflict"}
  [] c.at = "/quiz/{id}/cancel-session" -> {"quiz"}
  [] c.at = "/quiz/{id}/navigate" -> {"card", "result"}
  [] c.at = "/quiz/{id}/sync" -> {"timer", "result"}
  [] c.at \in {"/quiz/{id}/finish", "/quiz/{id}/result"} -> {"result"}
  [] c.at = "/editor" -> {"editor"}
  [] c.at = "/admin" -> {"overview"}
  [] c.at \in {"/admin/quizzes", "/admin/quizzes/{id}/restore"} -> {"quizzes"}
  [] c.at = "/admin/quizzes/new" -> {"edit"}
  [] c.at = "/admin/quizzes/{id}" -> IF c.verb = "DELETE" THEN {"quizzes"} ELSE {"edit"}
  [] c.at = "/admin/quizzes/{id}/question" -> {"questions"}
  [] c.at \in {"/admin/quizzes/{id}/questions/import",
               "/admin/quizzes/{id}/question/{qid}/image"} -> {"edit"}
  [] c.at \in {"/admin/quizzes/{id}/question/{qid}",
               "/admin/quizzes/{id}/question/{qid}/image/{imgid}"} -> {"done"}
  [] c.at = "/admin/questions/prompt" -> {"prompt"}
  [] c.at = "/admin/results" -> {"results"}
  [] c.at = "/admin/statistics" -> {"statistics"}
  [] c.at = "/admin/api/quiz-stats" -> {"quiz-stats"}
  [] c.at = "/admin/api/grade-dist" -> {"grade-dist"}
  [] c.at = "/admin/api/subject-dist" -> {"subject-dist"}
  [] c.at = "/admin/learning-materials" -> {"materials"}
  [] c.at = "/admin/learning-materials/new" ->
        IF c.verb = "GET" THEN {"new"} ELSE {"editor", "material"}
  [] c.at = "/admin/learning-materials/{id}" ->
        IF c.verb = "GET" THEN {"material"} ELSE {"materials"}
  [] c.at = "/admin/learning-materials/{id}/preview" -> {"preview"}
  [] c.at = "/admin/learning-materials/{id}/compile" -> {"material"}
  [] c.at = "/materials/{id}/view" -> {"file"}

\* Nobody signed in is shown the form for it.
Expected(w, c) ==
    IF c.at \notin Public \cup {"/logout"} /\ Me(w) = None THEN {"login"} ELSE Means(c)

\* Where the code is known to break the promise of the control c:
KnownDefect(w, c) ==
    \* "Create quiz" posts to an address whose only route is a GET: 405.
    \/ c.at = "/admin/quizzes/new"
    \* The redirection of a DELETE is asked for as a DELETE: 405, with the quiz
    \* archived and nothing shown.
    \/ c.at = "/admin/quizzes/{id}" /\ c.verb = "DELETE"
    \* The foreign key of the answers keeps their question: 404, unseen.
    \/ c.at = "/admin/quizzes/{id}/question/{qid}" /\ c.verb = "DELETE" /\ c.what \in db.answered
    \* The overview's link to a file has no route: the landing page.
    \/ c.at = "/materials/{id}/view"
    \* The errors of typst are not shown; nor are those of a teacher who is
    \* offered what only the owner of the material may do.
    \/ c.at = "/admin/learning-materials/{id}/compile"
    \/ c.at = "/admin/learning-materials/{id}" /\ db.owner[c.id] # Me(w)
    \* A result is shown once: its page loaded again is the quiz's.
    \/ c.at = "/quiz/{id}/result"
    \* The template panics on a quiz without questions, and an id without a quiz
    \* is redirected to itself.
    \/ /\ c.at \in {"/quiz/{id}/q/{index}", "/quiz/{id}/cancel-session"}
       /\ c.id \in Quizzes => db.questions[c.id] = <<>>
    \* A finish that comes late is redirected, to the result, which completes the
    \* attempt, or to a question, which begins one, and shows neither, as the
    \* button swaps nothing.
    \/ c.at = "/quiz/{id}/finish" /\ R(w).at # c.at /\ R(w).swap = c.swap
    \* The card of a question that was deleted since: the position is stored and
    \* the answer refused, unseen.
    \/ c.at = "/quiz/{id}/navigate" /\ c.n[1] >= Len(db.questions[c.id])
    \* The cookie of a session outlives a logout, and is the next user's.
    \/ Cookies(w).session \notin {None, Me(w)}

\* A page keeps what it offers: a link or a button on a page that nothing has
\* changed since it was shown leads to the page or the answer it stands for,
\* through the routes, the redirections and what htmx makes of them, unless the
\* database fails or the code is known to break it.
OfferedIsAnswered ==
    [][\A w \in Windows :
        Ends(w) /\ asked[w].fresh /\ faults' = faults =>
            \/ told' \in Expected(w, asked[w].control)
            \/ KnownDefect(w, asked[w].control)]_vars

\* No silent change: a request that changes something at the server, in one of
\* the handlers it is redirected through, ends with an answer that its user
\* sees, and not with an error, on whatever old page the control was, unless the
\* code is known to break it.
ChangesAreTold ==
    [][\A w \in Windows :
        Ends(w) /\ Moves(w) /\ faults' = faults =>
            \/ told' \notin {"refused", "unseen"}
            \/ KnownDefect(w, asked[w].control)]_vars

\* A request on its way to the result page, which completes the session its user
\* has by then: of an attempt that was overdue, or the page loaded again.
CompletesByResult(w) ==
    /\ R(w).at = "/quiz/{id}/result"
    /\ \/ asked[w].control.at = "/quiz/{id}/result"
       \/ asked[w].control.at \in {"/quiz/{id}/navigate", "/quiz/{id}/sync"} /\ ~asked[w].fresh

\* An attempt that is running is ended by its user finishing a quiz, by the
\* user's choice on the page of the conflict, or by its time, and by nothing
\* else the windows of the user do.  Two exceptions, in which another attempt
\* has ended and this one was begun meanwhile: a request to the other attempt,
\* which was overdue, is on its way to the result; or the result page of the
\* other attempt is loaded again, as one may after it failed.
RunningAttemptKept ==
    [][\A u \in Users :
        Live(db, u) =>
            \/ Live(db', u) /\ db'.session[u].quiz = db.session[u].quiz
            \/ db'.session[u] = [db.session[u] EXCEPT !.over = TRUE]
            \/ \E w \in Windows :
                 /\ asked[w] # None /\ Me(w) = u
                 /\ \/ asked[w].control.at \in {"/quiz/{id}/finish", "/quiz/{id}/cancel-session"}
                    \/ CompletesByResult(w)
      ]_vars

\* No circle of redirections: however the pages, the cookies and the sessions
\* have come apart, a request is sent on at most three times, and once more for
\* every failure of the database.  The exception is the question of an id that
\* names no quiz: it is asked for again until the browser gives up.
RedirectionsEnd ==
    \A w \in Windows : asked[w] # None =>
        \/ asked[w].hops <= 3
        \/ asked[w].hops <= 2 + faults
        \/ /\ asked[w].control.at \in {"/quiz/{id}/q/{index}", "/quiz/{id}/cancel-session"}
           /\ asked[w].control.id \notin Quizzes

=============================================================================
