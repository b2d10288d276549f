------------------------------ MODULE Separate ------------------------------
(***************************************************************************)
(* One instance of each component that touches no other's state: a Typst   *)
(* material, the forms of questions with options and with gaps, the        *)
(* judgement of an answer, and points and streaks.  A behaviour is about   *)
(* one of them, the subject, and the others stay as they are drawn below.  *)
(***************************************************************************)
EXTENDS TypstMaterial, Sequences

CONSTANTS
    Words,      \* texts of options and pieces of text between gaps
    Blank,
    MaxOptions, MaxRows,                \* of the form with options
    Count, MaxSegments,                 \* of the form with gaps
    Chars, MaxLength,                   \* of a typed answer
    Users, Scores, Limit, MaxAttempts, MaxDay

VARIABLES
    subject,
    type, options, correct, form, rows, field, removed, mixed, moved,
    types, segments, forms, box, stale,
    fill, right, typed, stored, verdict, detail, judging,
    today, attempts, viewer, step, stats, board, run, last

optionsVars == <<type, options, correct, form, rows, field, removed, mixed, moved>>
gapsVars == <<types, segments, forms, box, stale>>
checkVars == <<fill, right, typed, stored, verdict, detail, judging>>
pointsVars == <<today, attempts, viewer, step, stats, board, run, last>>

Options == INSTANCE QuestionForm WITH
    Texts <- Words, answer <- field

Gaps == INSTANCE FillForm WITH
    Segment <- Words, MaxRows <- MaxSegments,
    type <- types, stored <- segments, form <- forms

Check == INSTANCE AnswerCheck WITH step <- judging

Points == INSTANCE Gamification

ASSUME SeparateAssumption ==
    /\ Options!BoundsAssumption /\ Gaps!BoundsAssumption
    /\ Check!LengthsAssumption /\ Points!BoundsAssumption

-----------------------------------------------------------------------------

NoOptions ==
    /\ type = "open" /\ form = "open" /\ options = << >> /\ correct = Blank
    /\ rows = << >> /\ field = Blank
    /\ removed = FALSE /\ mixed = FALSE /\ moved = FALSE

NoGaps ==
    /\ types = [q \in Gaps!Questions |-> "open"] /\ forms = types
    /\ segments = [q \in Gaps!Questions |-> << >>] /\ box = segments
    /\ stale = [q \in Gaps!Questions |-> FALSE]

NoAnswer ==
    /\ fill = FALSE /\ right = <<<< >>>> /\ typed = right
    /\ stored = << >> /\ verdict = FALSE /\ detail = FALSE /\ judging = "typed"

SeparateInit ==
    /\ subject \in {"material", "options", "gaps", "check", "points"}
    /\ Init
    /\ IF subject = "options" THEN Options!Init ELSE NoOptions
    /\ IF subject = "gaps" THEN Gaps!Init ELSE NoGaps
    /\ IF subject = "check" THEN Check!Init ELSE NoAnswer
    /\ Points!Init

SeparateNext ==
    /\ UNCHANGED subject
    /\ \/ /\ subject = "material" /\ Next
          /\ UNCHANGED <<optionsVars, gapsVars, checkVars, pointsVars>>
       \/ /\ subject = "options" /\ Options!Next
          /\ UNCHANGED <<vars, gapsVars, checkVars, pointsVars>>
       \/ /\ subject = "gaps" /\ Gaps!Next
          /\ UNCHANGED <<vars, optionsVars, checkVars, pointsVars>>
       \/ /\ subject = "check" /\ Check!Next
          /\ UNCHANGED <<vars, optionsVars, gapsVars, pointsVars>>
       \/ /\ subject = "points" /\ Points!Next
          /\ UNCHANGED <<vars, optionsVars, gapsVars, checkVars>>

SeparateSpec ==
    SeparateInit /\ [][SeparateNext]_<<subject, vars, optionsVars, gapsVars, checkVars, pointsVars>>

-----------------------------------------------------------------------------
(* The components' properties; those of the material are TypstMaterial's own. *)

OptionsKept == Options!OptionsKept
Answerable == Options!Answerable
SavedAsShown == Gaps!SavedAsShown
CorrectIsRight == Check!CorrectIsRight
RightIsCorrect == Check!RightIsCorrect
VerdictsAgree == Check!VerdictsAgree
BoardRanks == Points!BoardRanks
BoardAgreesWithStats == Points!BoardAgreesWithStats
StreakIsRun == Points!StreakIsRun

=============================================================================
