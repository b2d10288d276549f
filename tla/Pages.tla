-------------------------------- MODULE Pages --------------------------------
(***************************************************************************)
(* What the pages of the web site offer: the links, the forms, the buttons *)
(* of htmx and those of admin.js, as each template renders them.  Wording, *)
(* layout and what a form is filled in with are left out; the fields that  *)
(* choose what happens (an index, a session, a status) are kept.           *)
(*                                                                         *)
(* A control is the request it makes and where its answer goes:            *)
(*   "page"       a link or a form: the answer replaces the page           *)
(*   "content"    htmx: into #question-content                             *)
(*   "timer"      htmx: in place of #timer-display                         *)
(*   "questions"  htmx: into #questions-section                            *)
(*   "self"       htmx without a target: into the element that was pressed *)
(*   "remove"     htmx: the question's card is deleted                     *)
(*   "none"       htmx: nowhere                                            *)
(*   "alert"      fetch: a line says that it went well, or that it did not *)
(*   "reload"     fetch: that line, and the page is loaded again           *)
(*   "text"       fetch without the htmx header: into a text box           *)
(* Addresses of the object store are outside the site and are left out.    *)
(***************************************************************************)
EXTENDS Integers, FiniteSets

CONSTANTS
    Users, Teachers,
    Quizzes, QuestionIds, Images,
    Materials, Typst,   \* Typst: those that are compiled; the rest is files
    MaxImages,          \* MaxImagesPerQuestion
    None

ASSUME PagesAssumption == Teachers \subseteq Users /\ Typst \subseteq Materials

\* id: what the address names; what: the other name that is sent, of a user,
\* a question, a status or a kind; n: the indices that are sent.
Request(verb, at, id, what, n, swap) ==
    [verb |-> verb, at |-> at, id |-> id, what |-> what, n |-> n, swap |-> swap]

LinkTo(at, id) == Request("GET", at, id, None, <<>>, "page")
Link(at) == LinkTo(at, None)
LinkToQuestion(q, index) == Request("GET", "/quiz/{id}/q/{index}", q, None, <<index>>, "page")
LinkToResult(q, u) == Request("GET", "/quiz/{id}/result", q, u, <<>>, "page")

\* A whole page, and a part that htmx puts into one.  The card of a question
\* and the timer on it are replaced apart from the rest of their page.
PageOf(name, body, content, timer) ==
    [name |-> name, body |-> body, content |-> content, timer |-> timer]
Page(name, body) == PageOf(name, body, {}, {})

Controls(page) == page.body \cup page.content \cup page.timer

-----------------------------------------------------------------------------
(* Before signing in                                                       *)

LandingPage == Page("landing", {Link("/"), Link("/login"), Link("/register")})

LoginPage == Page("login",
    {Link("/"), Link("/register"), Request("POST", "/login", None, None, <<>>, "page")})

RegisterPage == Page("register",
    {Link("/"), Link("/login"), Request("POST", "/register", None, None, <<>>, "page")})

\* A page for an error; to a request of htmx the answer is an alert instead,
\* which htmx does not show, as it swaps no answer that is an error.
ErrorPage(status) ==
    Page("error", {Link(IF status = 401 THEN "/login" ELSE "/dashboard")})

-----------------------------------------------------------------------------
(* The student's pages                                                     *)

Navbar(u) ==
    {Link("/dashboard"), Link("/leaderboard"), Link("/errors"), Link("/logout")}
        \cup (IF u \in Teachers THEN {Link("/admin")} ELSE {})

QuizCard(q) == LinkTo("/quiz/{id}/info", q)

QuizGrid(quizzes) == {QuizCard(q) : q \in quizzes}

LeaderboardPreview == {Link("/leaderboard")}

\* active: the session in progress, or None.
DashboardPage(u, quizzes, active) == Page("dashboard",
    Navbar(u) \cup QuizGrid(quizzes) \cup LeaderboardPreview
        \cup (IF active = None THEN {}
              ELSE {LinkToQuestion(active.quiz, active.at)}))

QuizInfoPage(q) == Page("info",
    {Link("/dashboard"), LinkToQuestion(q, 0)})

SessionConflictPage(holder, session, requested) == Page("conflict",
    {LinkToQuestion(session.quiz, session.at),
     Request("POST", "/quiz/{id}/cancel-session", requested, holder, <<>>, "page")})

TimerWidget(q, u) == {Request("GET", "/quiz/{id}/sync", q, u, <<>>, "timer")}

\* The last question's button finishes the quiz, the others' goes to the next
\* question; the grid beside them goes to any.
QuestionCard(q, index, count, u) ==
    {Request("POST", "/quiz/{id}/navigate", q, None, <<index, i>>, "content") :
        i \in 0 .. count - 1}
        \cup (IF index >= count - 1
              THEN {Request("POST", "/quiz/{id}/finish", q, u, <<index>>, "none")} ELSE {})

QuizPage(q, index, count, u) ==
    PageOf("quiz", {Link("/dashboard")}, QuestionCard(q, index, count, u), TimerWidget(q, u))

QuizResultPage(u) == Page("result", Navbar(u) \cup {Link("/dashboard")})

ErrorsPage(u, taken) ==
    Page("errors", Navbar(u) \cup {LinkTo("/quiz/{id}/info", q) : q \in taken})

LeaderboardPage(u) == Page("leaderboard", Navbar(u))

-----------------------------------------------------------------------------
(* The teacher's pages                                                     *)

AdminNavbar ==
    {Link(at) : at \in {"/admin", "/admin/quizzes", "/admin/learning-materials",
                        "/admin/results", "/admin/statistics", "/logout", "/dashboard"}}

BaseAdmin(name, children) == Page(name, AdminNavbar \cup children)

\* address: where the file of m is kept: "store", a path of the site, or None.
MaterialCard(m, address, actions) ==
    {LinkTo("/admin/learning-materials/{id}", m)}
        \cup (IF actions
              THEN {Request("DELETE", "/admin/learning-materials/{id}", m, None, <<>>, "self")}
              ELSE {})
        \cup (IF address = None THEN {}
              ELSE IF m \in Typst
                   THEN {LinkTo("/admin/learning-materials/{id}/preview", m)}
              ELSE IF address = "store" THEN {} ELSE {LinkTo(address, m)})

\* The overview makes up an address of its own for a file.
AdminDashboardPage(materials) == BaseAdmin("overview",
    {Link("/admin/quizzes"), Link("/admin/results"), Link("/admin/statistics"),
     Link("/admin/learning-materials")}
        \cup UNION {MaterialCard(m, IF m \in Typst THEN None ELSE "/materials/{id}/view", FALSE)
                        : m \in materials})

\* A row of the list: a quiz that is archived can be restored, another archived.
QuizzesPage(quizzes, archived) == BaseAdmin("quizzes",
    {LinkTo("/admin/quizzes/{id}", q) : q \in quizzes}
        \cup {Request("POST", "/admin/quizzes/{id}/restore", q, None, <<>>, "page") :
                q \in quizzes \cap archived}
        \cup {Request("DELETE", "/admin/quizzes/{id}", q, None, <<>>, "self") :
                q \in quizzes \ archived}
        \cup {Request("POST", "/admin/quizzes/new", None, None, <<>>, "none")})

QuestionImagesSection(q, k, images) ==
    {Request("DELETE", "/admin/quizzes/{id}/question/{qid}/image/{imgid}", i, k, <<>>, "alert") :
        i \in images}
        \cup (IF Cardinality(images) < MaxImages
              THEN {Request("POST", "/admin/quizzes/{id}/question/{qid}/image", q, k, <<>>, "reload")}
              ELSE {})

EditQuestionCard(q, k, images) ==
    {Request("DELETE", "/admin/quizzes/{id}/question/{qid}", q, k, <<>>, "remove"),
     Request("PUT", "/admin/quizzes/{id}/question/{qid}", q, k, <<>>, "alert")}
        \cup QuestionImagesSection(q, k, images)

AddQuestionForm(q) == Request("POST", "/admin/quizzes/{id}/question", q, None, <<>>, "questions")

ImportQuestionsModal(q) ==
    {Request("GET", "/admin/questions/prompt", None, None, <<>>, "text"),
     Request("POST", "/admin/quizzes/{id}/questions/import", q, None, <<>>, "reload")}

\* images[k]: those of the question k.
QuestionsSection(q, questions, images) ==
    {AddQuestionForm(q)} \cup ImportQuestionsModal(q)
        \cup UNION {EditQuestionCard(q, k, images[k]) : k \in questions}

QuizDangerZone(q) == Request("DELETE", "/admin/quizzes/{id}", q, None, <<>>, "self")

Statuses == {"available", "archived"}   \* bound: and not "assigned", "completed"

QuizEditPage(q, questions, images) == BaseAdmin("edit",
    {Link("/admin/quizzes"), QuizDangerZone(q), LinkTo("/admin/quizzes/{id}", q)}
        \cup {Request("PUT", "/admin/quizzes/{id}", q, status, <<>>, "reload") :
                status \in Statuses}
        \cup QuestionsSection(q, questions, images))

ResultsPage == BaseAdmin("results", {})

\* Three tables that the page asks for as it is loaded.
StatisticsPage == BaseAdmin("statistics",
    {Request("GET", at, None, None, <<>>, "self") : at \in
        {"/admin/api/quiz-stats", "/admin/api/subject-dist", "/admin/api/grade-dist"}})

QuizStatsPartial == Page("quiz-stats", {})
SubjectDistPartial == Page("subject-dist", {})
GradeDistPartial == Page("grade-dist", {})

MaterialCardGrid(materials) ==
    UNION {MaterialCard(m, "store", TRUE) : m \in materials}

LearningMaterialsListPage(materials) == BaseAdmin("materials",
    {Link("/admin/learning-materials/new")} \cup MaterialCardGrid(materials))

LearningMaterialsNewPage == BaseAdmin("new",
    {Link("/admin/learning-materials")}
        \cup {Request("POST", "/admin/learning-materials/new", None, how, <<>>, "self")
                : how \in {"template", "files"}})

LearningMaterialsViewPage(m) == BaseAdmin("material",
    {Link("/admin/learning-materials"),
     Request("DELETE", "/admin/learning-materials/{id}", m, None, <<>>, "self")}
        \cup (IF m \in Typst
              THEN {LinkTo("/editor", m),
                    LinkTo("/admin/learning-materials/{id}/preview", m),
                    Request("POST", "/admin/learning-materials/{id}/compile", m, None, <<>>, "self")}
              ELSE {}))

LearningMaterialsPreviewPage(m) ==
    BaseAdmin("preview", {LinkTo("/admin/learning-materials/{id}", m)})

EditorPage(m) == Page("editor", {LinkTo("/admin/learning-materials/{id}", m)})

=============================================================================
