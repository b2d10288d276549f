---------------------------- MODULE QuestionForm ----------------------------
(***************************************************************************)
(* Editing a question with options to choose from: the rows of options in  *)
(* the administrator's page, each a radio button and a text whose names    *)
(* carry a number, and the handler UpdateQuestion that makes the options   *)
(* and the correct answer from those numbers again.                        *)
(*                                                                         *)
(* Rows are added and removed in the page without renumbering, the script  *)
(* posts every input of the form, checked or not, and the handler skips    *)
(* empty texts before it counts.  So which row is checked decides nothing, *)
(* and is left out: UpdateQuestion takes the first row's number for the    *)
(* checked one's.                                                          *)
(***************************************************************************)
EXTENDS Integers, Sequences, FiniteSets, SequencesExt

CONSTANTS
    Texts,          \* texts of an option or an answer
    Blank,          \* the empty text
    MaxOptions,     \* the numbers UpdateQuestion looks at are below this
    MaxRows         \* bound: rows in the form

\* At least one option can be posted, and the form has room for the two it shows.
BoundsAssumption ==
    MaxOptions \in Nat \ {0} /\ MaxRows \in Nat \ {0, 1}

VARIABLES
    type,       \* the stored question's type: "choice" or "open"
    options,    \* its options, none for an open question
    correct,    \* its correct answer; a number n stands for the text "option_n"
    form,       \* the type selected in the form
    rows,       \* the rows of options
    answer,     \* the text field of an open question
    removed,    \* history: a row was removed since the rows were drawn
    mixed,      \* history: and a row added after that
    moved       \* history: the first row was removed since the rows were drawn

stored == <<type, options, correct>>
page == <<form, rows, answer>>
flags == <<removed, mixed, moved>>
vars == <<stored, page, flags>>

Row == [name : Nat, text : Texts \cup {Blank}]

\* Types; in particular no option of a stored question is blank.
TypeOK ==
    /\ type \in {"choice", "open"} /\ form \in {"choice", "open"}
    /\ options \in Seq(Texts)
    /\ correct \in Texts \cup {Blank} \cup 0 .. MaxRows
    /\ rows \in Seq(Row) /\ Len(rows) <= MaxRows
    /\ answer \in Texts \cup {Blank}
    /\ {removed, mixed, moved} \subseteq BOOLEAN

\* AnswerOptionsByType: one row per option, numbered from 0.
Draw(opts) == rows' = [i \in DOMAIN opts |-> [name |-> i - 1, text |-> opts[i]]]

Fresh == removed' = FALSE /\ mixed' = FALSE /\ moved' = FALSE

\* A question as AddQuestion or an import left it, and the form not yet drawn.
Init ==
    /\ type = "choice"
    /\ options \in {o \in BoundedSeq(Texts, MaxRows) : Len(o) >= 2}
    /\ correct \in Range(options)
    /\ form = type /\ rows = << >> /\ answer = Blank
    /\ removed = FALSE /\ mixed = FALSE /\ moved = FALSE

-----------------------------------------------------------------------------
(* The page                                                                *)

\* The page is loaded, with what is stored.
OpenPage ==
    /\ form' = type
    /\ Draw(IF type = "choice" THEN options ELSE << >>)
    /\ answer' = IF type = "open" /\ correct \in Texts THEN correct ELSE Blank
    /\ Fresh
    /\ UNCHANGED stored

\* updateAnswerOptions: another type is selected, and its empty form is drawn.
SelectType(t) ==
    /\ form # t
    /\ form' = t
    /\ Draw(IF t = "choice" THEN <<Blank, Blank>> ELSE << >>)
    /\ answer' = Blank
    /\ Fresh
    /\ UNCHANGED stored

\* addOption: the number of the new row is the number of rows.
AddOption ==
    /\ form = "choice" /\ Len(rows) < MaxRows
    /\ rows' = Append(rows, [name |-> Len(rows), text |-> Blank])
    /\ mixed' = (mixed \/ removed)
    /\ UNCHANGED <<stored, form, answer, removed, moved>>

\* removeOption: two rows remain at least; the others keep their numbers.
RemoveOption(i) ==
    /\ form = "choice" /\ Len(rows) > 2
    /\ rows' = RemoveAt(rows, i)
    /\ removed' = TRUE
    /\ moved' = (moved \/ i = 1)
    /\ UNCHANGED <<stored, form, answer, mixed>>

Write(i, x) ==
    /\ rows' = [rows EXCEPT ![i].text = x]
    /\ UNCHANGED <<stored, form, answer, flags>>

WriteAnswer(x) ==
    /\ form = "open"
    /\ answer' = x
    /\ UNCHANGED <<stored, form, rows, flags>>

-----------------------------------------------------------------------------
(* UpdateQuestion                                                          *)

\* r.Form[option_n]: the first input of that name, if it is not empty.
Named(n) == {i \in DOMAIN rows : rows[i].name = n /\ \A j \in 1 .. i - 1 : rows[j].name # n}

OptionText(n) == IF \E i \in Named(n) : rows[i].text # Blank
                 THEN <<rows[CHOOSE i \in Named(n) : TRUE].text>> ELSE << >>

PostedBelowLimit == FlattenSeq([n \in 1 .. MaxOptions - 1 |-> OptionText(n - 1)])
PostedOptions == FlattenSeq([n \in 1 .. MaxOptions |-> OptionText(n - 1)])

\* r.FormValue: handleQuestionEditSubmit has sent all radio buttons, so it is
\* the first row's, checked or not.  It counts among the options that are left.
OptionOfNumber(opts) ==
    LET n == rows[1].name IN IF n \in 1 .. Len(opts) - 1 THEN opts[n + 1] ELSE n

ChosenOption(opts) ==
    LET n == rows[1].name IN IF n < Len(opts) THEN opts[n + 1] ELSE n

\* The form is sent, stored, and stays as it is.
Save ==
    /\ type' = form
    /\ IF form = "choice"
       THEN /\ options' = PostedOptions
            /\ correct' = IF rows = << >> THEN Blank ELSE ChosenOption(PostedOptions)
       ELSE /\ options' = << >>
            /\ correct' = answer
    /\ UNCHANGED <<page, flags>>

Next ==
    \/ OpenPage \/ AddOption \/ Save
    \/ \E t \in {"choice", "open"} : SelectType(t)
    \/ \E i \in DOMAIN rows : RemoveOption(i)
    \/ \E i \in DOMAIN rows, x \in Texts \cup {Blank} : Write(i, x)
    \/ \E x \in Texts \cup {Blank} : WriteAnswer(x)

Spec == Init /\ [][Next]_vars

-----------------------------------------------------------------------------
(* Properties                                                              *)

\* The texts an administrator sees in the rows, top to bottom.
Shown(i) == IF rows[i].text = Blank THEN << >> ELSE <<rows[i].text>>
Seen == FlattenSeq([i \in DOMAIN rows |-> Shown(i)])

\* UpdateQuestion stores the options the administrator sees, all of them and in
\* that order, although removals leave gaps among the numbers: the exceptions
\* are a row added after a removal, whose number another row may have, and
\* numbers at or over the limit, which the handler does not look at.
OptionsKept ==
    [][Save /\ form = "choice" /\ ~mixed /\ (\A i \in DOMAIN rows : rows[i].name < MaxOptions)
       => options' = Seen]_vars

\* A question that has options can be answered after it was edited: its correct
\* answer is one of them, whatever rows were left empty, removed or added,
\* unless the first row was removed, whose number may then be one that no
\* option has any more.
Answerable ==
    [][Save /\ form = "choice" /\ ~moved /\ options' # << >>
       => correct' \in Range(options')]_vars

=============================================================================
