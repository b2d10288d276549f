----------------------------- MODULE MCBrowsing -----------------------------
EXTENDS Browsing, TLC

CONSTANTS s, z, v, t, o, p, q0, q1, q2, k1, k2, m1, f1, i1, w1, w2, b1

OneBrowser == [w \in Windows |-> b1]

NoQuestions == [q \in Quizzes |-> <<>>]
TwoQuestions == [q \in Quizzes |-> <<k1, k2>>]
OneEach == [q \in Quizzes |-> IF q = q1 THEN <<k1>> ELSE <<k2>>]

\* A file of another teacher's, and a name for a material that is not made yet.
TheirFile == [m \in Materials |-> IF m = f1 THEN p ELSE None]
NoMaterials == [m \in Materials |-> None]

HomePage == {Link("/")}
QuizPages == {LinkTo("/quiz/{id}", q) : q \in Quizzes}
\* The address of a question of no quiz there is.
LostQuestion == {LinkToQuestion(q0, 0)}

OfMaterials == {"/admin/learning-materials", "/admin/learning-materials/new",
                "/admin/learning-materials/{id}"}
OfReports == {"/leaderboard", "/errors", "/admin/results", "/admin/statistics"}
OfEditing == {"/admin/quizzes/{id}/question", "/admin/quizzes/{id}/questions/import",
              "/admin/questions/prompt", "/admin/quizzes/{id}/question/{qid}/image"}

\* Three teachers: t makes a quiz with a question and an image and takes it;
\* o makes a material; p changes a quiz in one window and takes it in the other.
Teaching ==
    [u \in Visitors |->
        CASE u = t -> [quizzes |-> NoQuestions, types |-> HomePage \cup QuizPages,
                       avoids |-> OfMaterials, makes |-> {k1, i1},
                       windows |-> 1, atonce |-> 1, faults |-> 1]
          [] u = o -> [quizzes |-> NoQuestions, types |-> HomePage,
                       avoids |-> {"/admin/quizzes"}, makes |-> {m1},
                       windows |-> 1, atonce |-> 1, faults |-> 1]
          [] u = p -> [quizzes |-> TwoQuestions,
                       types   |-> {LinkToQuestion(q1, 0), LinkTo("/admin/quizzes/{id}", q1)},
                       avoids  |-> OfMaterials \cup OfReports \cup OfEditing
                                     \cup {"/", "/register", "/logout", "/dashboard", "/admin",
                                           "/quiz/{id}/sync", "/admin/quizzes",
                                           "/admin/quizzes/{id}"},
                       makes   |-> {}, windows |-> 2, atonce |-> 1, faults |-> 0]]

\* Three students: s takes two quizzes in two windows, with a request under way
\* in each; so does z, one request after the other, and the database fails once;
\* v takes one in one window, asks for a question of no quiz there is, and the
\* database fails twice.
BackAndForth == {"/", "/login", "/logout", "/leaderboard", "/errors"}

Learning ==
    [u \in Visitors |->
        CASE u = s -> [quizzes |-> OneEach, types |-> HomePage, avoids |-> BackAndForth,
                       makes |-> {}, windows |-> 2, atonce |-> 2, faults |-> 0]
          [] u = z -> [quizzes |-> OneEach, types |-> HomePage, avoids |-> BackAndForth,
                       makes |-> {}, windows |-> 2, atonce |-> 1, faults |-> 1]
          [] u = v -> [quizzes |-> OneEach, types |-> HomePage \cup LostQuestion,
                       avoids |-> {"/leaderboard", "/errors"},
                       makes |-> {}, windows |-> 1, atonce |-> 1, faults |-> 2]]

\* Two windows of one browser may change places, and so may the two quizzes of
\* OneEach with their questions.
Exchange == [x \in {q1, q2, k1, k2} |->
    CASE x = q1 -> q2 [] x = q2 -> q1 [] x = k1 -> k2 [] x = k2 -> k1]

WindowSymmetry == Permutations(Windows)

Symmetry ==
    {x @@ y : x \in WindowSymmetry, y \in {Exchange, [x \in {q1, q2, k1, k2} |-> x]}}

=============================================================================
