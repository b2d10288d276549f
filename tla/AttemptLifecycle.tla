-------------------------- MODULE AttemptLifecycle --------------------------
(***************************************************************************)
(* What the quiz session service promises about one attempt, with no       *)
(* session, no request and no clock: an attempt is opened once, for one    *)
(* user and one quiz; it is completed with a count of its right answers    *)
(* that was taken from its answers at some moment before; and a completed  *)
(* attempt never opens again.  Several completers may each hold a count;   *)
(* the service promises nothing about which of them is written last.       *)
(***************************************************************************)
CONSTANTS
    Users,
    Quizzes,
    Attempts,
    Questions,  \* question numbers
    Nobody      \* the holder of an attempt not opened yet

VARIABLES
    holder,     \* holder[a]: user and quiz of the attempt, or Nobody
    done,       \* the completed attempts
    right,      \* right[a]: questions whose recorded answer is right now
    counts,     \* counts[a]: counts taken of right[a] and not written yet
    score       \* score[a]: the count the completed attempt shows

vars == <<holder, done, right, counts, score>>

Init ==
    /\ holder = [a \in Attempts |-> Nobody]
    /\ done = {}
    /\ right = [a \in Attempts |-> {}]
    /\ counts = [a \in Attempts |-> {}]
    /\ score = [a \in Attempts |-> {}]

Open(a) ==
    /\ holder[a] = Nobody
    /\ \E u \in Users, q \in Quizzes :
          holder' = [holder EXCEPT ![a] = [user |-> u, quiz |-> q]]
    /\ UNCHANGED <<done, right, counts, score>>

\* One question is answered, rightly or wrongly.
Record(a) ==
    /\ holder[a] # Nobody
    /\ \E i \in Questions :
          \/ right' = [right EXCEPT ![a] = @ \cup {i}]
          \/ right' = [right EXCEPT ![a] = @ \ {i}]
    /\ UNCHANGED <<holder, done, counts, score>>

Count(a) ==
    /\ holder[a] # Nobody
    /\ counts' = [counts EXCEPT ![a] = @ \cup {right[a]}]
    /\ UNCHANGED <<holder, done, right, score>>

\* A completer gives up before it wrote.
Forget(a) ==
    /\ \E c \in counts[a] : counts' = [counts EXCEPT ![a] = @ \ {c}]
    /\ UNCHANGED <<holder, done, right, score>>

\* The count is written; another completer may hold the same one.
Complete(a) ==
    /\ \E c \in counts[a] :
          /\ score' = [score EXCEPT ![a] = c]
          /\ counts' \in {counts, [counts EXCEPT ![a] = @ \ {c}]}
    /\ done' = done \cup {a}
    /\ UNCHANGED <<holder, right>>

Next == \E a \in Attempts :
            Open(a) \/ Record(a) \/ Count(a) \/ Forget(a) \/ Complete(a)

Spec == Init /\ [][Next]_vars

=============================================================================
