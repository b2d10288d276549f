------------------------------- MODULE Stored -------------------------------
(***************************************************************************)
(* What is kept in several stores at once: the answers of an attempt       *)
(* (AnswerDraft) and the images of a question (QuestionImages).  The two   *)
(* share no state, so a behaviour is about one of them, the subject, and   *)
(* the other stays as it begins.                                           *)
(***************************************************************************)
EXTENDS QuestionImages

CONSTANTS Kind, Words, Blank

VARIABLES
    subject,
    draft, key, answerRow, page, draftPc, post, got, meant, unkeyed, excused

draftVars == <<draft, key, answerRow, page, draftPc, post, got, meant, unkeyed, excused>>

Draft == INSTANCE AnswerDraft WITH Texts <- Words, row <- answerRow, pc <- draftPc

ASSUME DraftAssumption == Draft!KindAssumption /\ Draft!AbsentAssumption

-----------------------------------------------------------------------------

StoredInit ==
    /\ subject \in {"answers", "images"}
    /\ Draft!Init /\ (subject # "answers" => key = Absent)
    /\ Init

StoredNext ==
    /\ UNCHANGED subject
    /\ \/ subject = "answers" /\ Draft!Next /\ UNCHANGED vars
       \/ subject = "images" /\ Next /\ UNCHANGED draftVars

StoredSpec == StoredInit /\ [][StoredNext]_<<subject, vars, draftVars>>

-----------------------------------------------------------------------------
(* The answers' properties; those of the images are QuestionImages' own.    *)

\* A stored answer is replaced by what the student typed and by nothing else.
TypedAnswersKept == Draft!TypedAnswersKept

\* At rest, an untouched card shows what is stored, and so does the session.
PageShowsStored == Draft!PageShowsStored

=============================================================================
