---------------------------- MODULE Gamification ----------------------------
(***************************************************************************)
(* What students earn: experience points, the leaderboard and the streak   *)
(* of days.                                                                *)
(*                                                                         *)
(* Nothing of it is stored.  Every page computes it again from the         *)
(* completed attempts: the points from all of a student's, the leaderboard *)
(* from the Limit completed last of all students, the streak from the days *)
(* they were completed on.  The dashboard asks for the three one after the *)
(* other, between completions.  An attempt is completed by the student or, *)
(* after its time, by the cron job.                                        *)
(***************************************************************************)
EXTENDS Integers, Sequences, FiniteSets, SequencesExt

CONSTANTS
    Users,
    Scores,         \* scores of an attempt
    Limit,          \* attempts the leaderboard looks at
    MaxAttempts,    \* bound: attempts that are completed
    MaxDay,         \* bound: the last day
    Absent

BoundsAssumption ==
    /\ Scores \subseteq Nat /\ {Limit, MaxDay} \subseteq Nat
    /\ Absent \notin Users

VARIABLES
    today,
    attempts,   \* the completed attempts, in the order of completed_at
    viewer,     \* whose dashboard is being made, or Absent
    step,       \* what the dashboard asks for next
    stats,      \* the viewer's points and streak as read
    board,      \* the leaderboard as read
    run, last   \* history: the days in a row u has completed attempts on, and the last

history == <<run, last>>
vars == <<today, attempts, viewer, step, stats, board, history>>

Attempt == [user : Users, score : Scores, day : 0 .. MaxDay]
BoardEntry == [user : Users, xp : Nat, streak : Nat]

\* Types; in particular a student is at most once on the leaderboard, and a streak
\* is no longer than there have been days.
TypeOK ==
    /\ today \in 0 .. MaxDay
    /\ attempts \in Seq(Attempt) /\ Len(attempts) <= MaxAttempts
    /\ viewer \in Users \cup {Absent}
    /\ step \in {"idle", "attempts", "board", "shown"}
    /\ stats \in [xp : Nat, streak : 0 .. MaxDay + 1]
    /\ board \in Seq(BoardEntry) /\ Len(board) <= Cardinality(Users)
    /\ run \in [Users -> 0 .. MaxDay + 1]
    /\ last \in [Users -> -1 .. MaxDay]

NoStats == [xp |-> 0, streak |-> 0]

Init ==
    /\ today = 0
    /\ attempts = << >>
    /\ viewer = Absent /\ step = "idle" /\ stats = NoStats /\ board = << >>
    /\ run = [u \in Users |-> 0] /\ last = [u \in Users |-> -1]

-----------------------------------------------------------------------------
(* What is computed                                                        *)

Of(u) == {i \in DOMAIN attempts : attempts[i].user = u}

\* The sum of the scores of some attempts.
Points(some) ==
    LET sum[n \in 0 .. Len(attempts)] ==
            IF n = 0 THEN 0
            ELSE sum[n - 1] + IF n \in some THEN attempts[n].score ELSE 0
    IN sum[Len(attempts)]

TotalXp(u) == Points(Of(u))

\* GetRecentAttempts: the Limit completed last.
Recent == {i \in DOMAIN attempts : i > Len(attempts) - Limit}

Days(u) == {attempts[i].day : i \in Of(u)}

ActiveDays(u) == Cardinality(Days(u))

\* CalculateStreak: days counted backwards from today to the first without one.
Streak(u) ==
    LET unbroken == {n \in 0 .. today + 1 : (today - n + 1) .. today \subseteq Days(u)}
    IN CHOOSE n \in unbroken : \A m \in unbroken : m <= n

Exchange(s, i, j) ==
    IF s[j].xp > s[i].xp THEN [s EXCEPT ![i] = s[j], ![j] = s[i]] ELSE s

RaisedNext(s, i) == IF i < Len(s) THEN Exchange(s, i, i + 1) ELSE s

\* A place is exchanged with every later one in turn that has more.
Raised(s, i) ==
    LET upTo[j \in 0 .. Len(s)] ==
            IF j <= i THEN s ELSE Exchange(upTo[j - 1], i, j)
    IN upTo[Len(s)]

\* SortByXP: every place in turn.
SortByXP(entries) ==
    LET upTo[i \in 0 .. Len(entries)] ==
            IF i = 0 THEN entries ELSE Raised(upTo[i - 1], i)
    IN upTo[Len(entries)]

LastScore(u) == attempts[CHOOSE i \in Of(u) : \A j \in Of(u) : j <= i].score

BoardXp(u) == Points(Recent \cap Of(u))

\* The students of the recent attempts, as the map may yield them.
Contestants == SetToSeqs({attempts[i].user : i \in Recent})

\* GetLeaderboard: one entry per student among the recent attempts, sorted from
\* any order.  Nothing sets the entry's Streak.
Leaderboards ==
    {SortByXP([i \in DOMAIN s |->
                  [user |-> s[i], xp |-> BoardXp(s[i]), streak |-> 0]]) :
        s \in Contestants}

-----------------------------------------------------------------------------
(* Attempts                                                                *)

\* CompleteSessionByAttemptID, called by the student's result page or the cron job.
Complete(u, score) ==
    /\ Len(attempts) < MaxAttempts
    /\ attempts' = Append(attempts, [user |-> u, score |-> score, day |-> today])
    /\ run' = [run EXCEPT ![u] = CASE last[u] = today -> @
                                   [] last[u] = today - 1 -> @ + 1
                                   [] OTHER -> 1]
    /\ last' = [last EXCEPT ![u] = today]
    /\ UNCHANGED <<today, viewer, step, stats, board>>

NextDay ==
    /\ today < MaxDay
    /\ today' = today + 1
    /\ UNCHANGED <<attempts, viewer, step, stats, board, history>>

-----------------------------------------------------------------------------
(* The dashboard                                                           *)

\* GetUserStats asks for the points, and then for the attempts.
ReadStats(u) ==
    /\ step = "idle"
    /\ viewer' = u
    /\ stats' = [stats EXCEPT !.xp = TotalXp(u)]
    /\ step' = "attempts"
    /\ UNCHANGED <<today, attempts, board, history>>

ReadAttempts ==
    /\ step = "attempts"
    /\ stats' = [stats EXCEPT !.streak = Streak(viewer)]
    /\ step' = "board"
    /\ UNCHANGED <<today, attempts, viewer, board, history>>

ReadBoard ==
    /\ step = "board"
    /\ board' \in Leaderboards
    /\ step' = "shown"
    /\ UNCHANGED <<today, attempts, viewer, stats, history>>

LeavePage ==
    /\ step = "shown"
    /\ step' = "idle" /\ viewer' = Absent /\ stats' = NoStats /\ board' = << >>
    /\ UNCHANGED <<today, attempts, history>>

Next ==
    \/ \E u \in Users : ReadStats(u)
    \/ \E u \in Users, score \in Scores : Complete(u, score)
    \/ NextDay \/ ReadAttempts \/ ReadBoard \/ LeavePage

Spec == Init /\ [][Next]_vars

-----------------------------------------------------------------------------
(* Properties                                                              *)

\* The leaderboard is a ranking: nobody stands above somebody with more points
\* and nobody stands on it twice, in whichever order the map yielded them.
BoardRanks ==
    \A i, j \in DOMAIN board : i < j =>
        board[i].xp >= board[j].xp /\ board[i].user # board[j].user

\* Points on the leaderboard are points the student has; and while it looks at
\* all attempts there are, it shows a student no fewer than the same dashboard
\* says above it, though the two are read at different times.
BoardAgreesWithStats ==
    /\ \A i \in DOMAIN board : board[i].xp <= TotalXp(board[i].user)
    /\ step = "shown" /\ Len(attempts) <= Limit =>
        \A i \in DOMAIN board : board[i].user = viewer => board[i].xp >= stats.xp

\* Counting backwards from today over the days of all attempts gives what
\* counting forward day by day would have: the run a student is in, if today
\* belongs to it.
StreakIsRun ==
    \A u \in Users : Streak(u) = IF last[u] = today THEN run[u] ELSE 0

=============================================================================
