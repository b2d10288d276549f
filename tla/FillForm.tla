------------------------------ MODULE FillForm ------------------------------
(***************************************************************************)
(* Editing questions with gaps: the administrator's page has one form per  *)
(* question, and a form of type "fill" a box of segments, pieces of text   *)
(* and gaps with their right answers.                                      *)
(*                                                                         *)
(* All boxes have the same id, so the script finds the first one only: it  *)
(* is what is filled when the page is loaded, once for every fill question *)
(* on it, where new segments go and what is renumbered when one is         *)
(* removed, whichever form's button was used.  UpdateQuestion reads        *)
(* segments by number until one is missing.                                *)
(***************************************************************************)
EXTENDS Integers, Sequences, FiniteSets, SequencesExt, FiniteSetsExt

CONSTANTS
    Count,      \* questions of the quiz, in the order of the page
    Segment,    \* the segments there may be, each with its type and content
    MaxRows     \* bound: segments in a box

BoundsAssumption == Count \in Nat /\ MaxRows \in Nat \ {0}

Questions == 1 .. Count

VARIABLES
    type,       \* type[q]: "fill" or "open", as stored
    stored,     \* stored[q]: the segments of a fill question's correct answer
    form,       \* form[q]: the type selected in q's form
    box,        \* box[q]: the segments in q's form
    stale       \* history: a segment of q's box was removed and q's not renumbered

vars == <<type, stored, form, box, stale>>

Types == {"fill", "open"}
Row == [number : 0 .. MaxRows - 1, segment : Segment]

\* Types; in particular segments are numbered from 0 and within their box.
TypeOK ==
    /\ {type, form} \subseteq [Questions -> Types]
    /\ stored \in [Questions -> Seq(Segment)]
    /\ box \in [Questions -> Seq(Row)]
    /\ \A q \in Questions : Len(box[q]) <= MaxRows /\ Len(stored[q]) <= MaxRows
    /\ stale \in [Questions -> BOOLEAN]

Numbered(segments) == [i \in DOMAIN segments |-> [number |-> i - 1, segment |-> segments[i]]]

Segments(rows) == [i \in DOMAIN rows |-> rows[i].segment]

LeftNumbered(rows) == rows
Renumbered(rows) == Numbered(Segments(rows))

Fills(f) == {q \in Questions : f[q] = "fill"}

\* document.getElementById("segment-inputs")
First(f) == Min(Fills(f))

Init ==
    /\ type \in [Questions -> Types]
    /\ \E one \in Segment :
        stored = [q \in Questions |-> IF type[q] = "fill" THEN <<one>> ELSE << >>]
    /\ form = type
    /\ box = [q \in Questions |-> << >>]
    /\ stale = [q \in Questions |-> FALSE]

-----------------------------------------------------------------------------
(* The page                                                                *)

NothingStale == stale' = [q \in Questions |-> FALSE]

\* The page is loaded.  The script of every fill question, when its turn comes,
\* appends the first one's stored segments to the first one's box.
OpenPage ==
    /\ form' = type
    /\ IF Fills(type) = {} THEN box' = [q \in Questions |-> << >>]
       ELSE LET f == First(type)
                drawn == FlattenSeq([n \in 1 .. Cardinality(Fills(type)) |-> stored[f]])
            IN /\ Len(drawn) <= MaxRows
               /\ box' = [q \in Questions |-> IF q = f THEN Numbered(drawn) ELSE << >>]
    /\ NothingStale
    /\ UNCHANGED <<type, stored>>

\* The questions are drawn again in answer to an added one: no script runs.
RedrawQuestions ==
    /\ form' = type
    /\ box' = [q \in Questions |-> << >>]
    /\ NothingStale
    /\ UNCHANGED <<type, stored>>

\* updateAnswerOptions: a form of another type starts empty.
SelectType(q, t) ==
    /\ form[q] # t
    /\ form' = [form EXCEPT ![q] = t]
    /\ box' = [box EXCEPT ![q] = << >>]
    /\ stale' = [stale EXCEPT ![q] = FALSE]
    /\ UNCHANGED <<type, stored>>

\* addSegment, from a button of any form.
AddSegment(new) ==
    /\ Fills(form) # {}
    /\ LET f == First(form) IN
       /\ Len(box[f]) < MaxRows
       /\ box' = [box EXCEPT ![f] = Append(@, [number |-> Len(@), segment |-> new])]
    /\ UNCHANGED <<type, stored, form, stale>>

\* removeSegment, whose button names no box: reindexSegments takes the first.
RemoveSegment(q, i) ==
    /\ LET f == First(form)
           fewer == [box EXCEPT ![q] = RemoveAt(@, i)]
       IN /\ box' = [fewer EXCEPT ![f] = Renumbered(@)]
          /\ stale' = [stale EXCEPT ![q] = TRUE, ![f] = FALSE]
    /\ UNCHANGED <<type, stored, form>>

WriteContent(q, i, new) ==
    /\ box' = [box EXCEPT ![q][i].segment = new]
    /\ UNCHANGED <<type, stored, form, stale>>

-----------------------------------------------------------------------------
(* UpdateQuestion                                                          *)

Number(q, n) == {i \in DOMAIN box[q] : box[q][i].number = n}

\* parseFillSegmentsFromForm: by number, up to the first that is missing.
Posted(q) ==
    LET n == Max({n \in 0 .. MaxRows : \A m \in 0 .. n - 1 : Number(q, m) # {}})
    IN [k \in 1 .. n |-> box[q][Min(Number(q, k - 1))].segment]

\* Without segments the handler falls back on a field the form does not have.
Save(q) ==
    /\ type' = [type EXCEPT ![q] = form[q]]
    /\ stored' = [stored EXCEPT ![q] = IF form[q] = "fill" THEN Posted(q) ELSE << >>]
    /\ UNCHANGED <<form, box, stale>>

Next ==
    \/ OpenPage \/ RedrawQuestions
    \/ \E q \in Questions : Save(q)
    \/ \E q \in Questions, t \in Types : SelectType(q, t)
    \/ \E new \in Segment : AddSegment(new)
    \/ \E q \in Questions : \E i \in DOMAIN box[q] :
           RemoveSegment(q, i) \/ \E new \in Segment : WriteContent(q, i, new)

Spec == Init /\ [][Next]_vars

-----------------------------------------------------------------------------
(* Properties                                                              *)

\* What is stored is what the form shows, all segments in their order, unless
\* a segment of the form was removed while another form's box was the one that
\* is renumbered: then a number is missing and what follows it is lost.
SavedAsShown ==
    [][\A q \in Questions : Save(q) /\ form[q] = "fill" /\ ~stale[q] =>
          stored'[q] = Segments(box[q])]_vars

=============================================================================
