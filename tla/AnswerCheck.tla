---------------------------- MODULE AnswerCheck -----------------------------
(***************************************************************************)
(* How one answer is judged: what a student types into the fields of a     *)
(* question card becomes one text, with bars between the gaps; SaveAnswer  *)
(* splits and judges it, stores text and verdict; and the result page      *)
(* judges the stored text a second time.                                   *)
(*                                                                         *)
(* A text is a sequence of characters of few kinds.  An open question has  *)
(* one field and no gaps; its text is compared whole.                      *)
(***************************************************************************)
EXTENDS Integers, Sequences, FiniteSets, SequencesExt, FiniteSetsExt

CONSTANTS
    Chars,      \* "a", "A", " ", ".", "|" or some of them
    MaxLength   \* bound: MaxLength[n]: characters of a text where there are n fields

LengthsAssumption == MaxLength \in Seq(Nat)

VARIABLES
    fill,       \* the question has gaps
    right,      \* the correct answer: the text of each gap, or of the only field
    typed,      \* what the student typed into the fields
    stored,     \* user_answers.user_answer
    verdict,    \* user_answers.is_correct
    detail,     \* the result page's judgement
    step

vars == <<fill, right, typed, stored, verdict, detail, step>>

Texts(n) == BoundedSeq(Chars, n)
Fields(n) == [1 .. n -> Texts(MaxLength[n])]

\* Types; in particular the stored text holds what was typed and bars, nothing else.
TypeOK ==
    /\ {fill, verdict, detail} \subseteq BOOLEAN
    /\ right \in UNION {Fields(n) : n \in DOMAIN MaxLength}
    /\ typed \in UNION {Fields(n) : n \in DOMAIN MaxLength}
    /\ stored \in Seq(Chars \cup {"|"})
    /\ step \in {"typed", "posted", "saved", "shown"}

\* A gap of the administrator's form may be left empty, an open question's
\* answer too.
Init ==
    /\ \E n \in DOMAIN MaxLength :
        /\ fill \in IF n = 1 THEN BOOLEAN ELSE {TRUE}
        /\ right \in Fields(n)
        /\ typed \in Fields(n)
    /\ stored = << >> /\ verdict = FALSE /\ detail = FALSE
    /\ step = "typed"

-----------------------------------------------------------------------------

Trim(s, drop, from) ==
    LET kept == {i \in DOMAIN s : s[i] \notin drop}
    IN IF kept = {} THEN << >>
       ELSE SubSeq(s, IF from = "both" THEN Min(kept) ELSE 1, Max(kept))

ToLower(s) == [i \in DOMAIN s |-> IF s[i] = "A" THEN "a" ELSE s[i]]

KeepCase(s) == Trim(Trim(s, {" "}, "both"), {"."}, "right")

\* Spaces at both ends first, then dots at the end; spaces before those stay.
NormalizeAnswer(s) == Trim(ToLower(Trim(s, {" "}, "both")), {"."}, "right")

\* ParseGapAnswers: the fields before the first empty one.
Filled(fields) ==
    LET n == Max({n \in 0 .. Len(fields) : \A g \in 1 .. n : fields[g] # << >>})
    IN SubSeq(fields, 1, n)

\* joinGapAnswers, and strings.Split, which makes one empty text of an empty text.
Join(texts) == FlattenSeq([i \in DOMAIN texts |-> IF i = 1 THEN texts[i] ELSE <<"|">> \o texts[i]])

Extended(texts, c) ==
    IF c = "|" THEN Append(texts, << >>)
    ELSE [texts EXCEPT ![Len(texts)] = Append(@, c)]

Split(s) ==
    LET upTo[i \in 0 .. Len(s)] ==
            IF i = 0 THEN << << >> >> ELSE Extended(upTo[i - 1], s[i])
    IN upTo[Len(s)]

CheckFirstGaps(answers) ==
    \A g \in DOMAIN right : g <= Len(answers) => NormalizeAnswer(answers[g]) = NormalizeAnswer(right[g])

CheckFillAnswer(answers) ==
    /\ Len(answers) = Len(right)
    /\ \A g \in DOMAIN right : NormalizeAnswer(answers[g]) = NormalizeAnswer(right[g])

Judge(s) == IF fill THEN CheckFillAnswer(Split(s))
            ELSE NormalizeAnswer(s) = NormalizeAnswer(right[1])

JudgeUnsplit(s) == s # << >> /\ NormalizeAnswer(s) = NormalizeAnswer(Join(right))

\* The result page shows a phrase for an empty answer, and judges the phrase:
\* none of the correct answers.
JudgeShown(s) == s # << >> /\ Judge(s)

-----------------------------------------------------------------------------

\* QuizNavigate and QuizFinish
Post ==
    /\ step = "typed"
    /\ stored' = IF fill THEN Join(Filled(typed)) ELSE typed[1]
    /\ step' = "posted"
    /\ UNCHANGED <<fill, right, typed, verdict, detail>>

SaveAnswer ==
    /\ step = "posted"
    /\ verdict' = Judge(stored)
    /\ step' = "saved"
    /\ UNCHANGED <<fill, right, typed, stored, detail>>

GetQuizResultData ==
    /\ step = "saved"
    /\ detail' = JudgeShown(stored)
    /\ step' = "shown"
    /\ UNCHANGED <<fill, right, typed, stored, verdict>>

Next == Post \/ SaveAnswer \/ GetQuizResultData

Spec == Init /\ [][Next]_vars

-----------------------------------------------------------------------------
(* Properties                                                              *)

Judged == step \in {"saved", "shown"}

HasBar(s) == "|" \in Range(s)

\* Who types the correct answer is right, in whatever case, unless a gap of it
\* is empty, which cannot be posted, or contains a bar, which splits it.
CorrectIsRight ==
    Judged /\ (\A g \in DOMAIN right : ToLower(typed[g]) = ToLower(right[g]))
    /\ (fill => \A g \in DOMAIN right : right[g] # << >> /\ ~HasBar(right[g]))
    => verdict

\* Without case, spaces, dots and bars.
Letters(s) ==
    LET upTo[i \in 0 .. Len(s)] ==
            IF i = 0 THEN << >>
            ELSE IF s[i] \in {" ", ".", "|"} THEN upTo[i - 1]
            ELSE Append(upTo[i - 1], ToLower(s)[i])
    IN upTo[Len(s)]

LettersOf(texts) == Letters(FlattenSeq(texts))

\* Who is right has posted the letters of the correct answer, all and no more:
\* case, spaces, dots and bars are all that is ever forgiven.  (What stands in a
\* field after an empty one is not posted.)
RightIsCorrect ==
    verdict => LettersOf(IF fill THEN Filled(typed) ELSE typed) = LettersOf(right)

\* The verdict that counts for the score and the one the result page shows are
\* the same, except where nothing was answered and nothing is the correct
\* answer: that counts as right and is shown as wrong.
VerdictsAgree ==
    step = "shown" /\ (stored = << >> => \E g \in DOMAIN right : NormalizeAnswer(right[g]) # << >>)
    => verdict = detail

=============================================================================
