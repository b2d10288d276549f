--------------------------- MODULE TypstMaterial ---------------------------
(***************************************************************************)
(* A Typst learning material: its row in PostgreSQL, its source and its    *)
(* compiled PDF in MinIO, the requests that create, compile, save and      *)
(* delete it, the compile service they call, and the editor in the page.   *)
(*                                                                         *)
(* The PDF's path follows from the material's id, so all compilations      *)
(* write one object, and the compile service reads whatever source is in   *)
(* the bucket by then, not the text of the request that called it.  The    *)
(* editor sends the text 300 ms after the last keystroke, whether or not   *)
(* an earlier request is still unanswered, and applies the answers in the  *)
(* order they arrive.                                                      *)
(*                                                                         *)
(* Texts are numbered: 0 is the template, and each edit is a new text.     *)
(* Dependencies of the source and resource materials are left out.         *)
(***************************************************************************)
EXTENDS Integers, FiniteSets

CONSTANTS
    Requests,   \* slots for HTTP requests in flight
    MaxEdits,   \* bound: edits made in the editor
    Absent

ASSUME BoundsAssumption == MaxEdits \in Nat /\ Absent \notin Nat

VARIABLES
    row,        \* the learning_materials row: "none", "there", "deleted"
    source,     \* the text in the object main.typ, or Absent
    pdf,        \* the text whose PDF is in the bucket, or Absent
    kind,       \* kind[r]: what request r is
    pc,         \* pc[r]: the call r makes next
    text,       \* text[r]: the text r carries; in the compile service, has read
    ok,         \* ok[r]: whether the compilation of r has succeeded
    edits,      \* texts typed so far
    doc,        \* the text in the editor, or Absent while it is not open
    timer,      \* the text scheduleCompile is going to send, or Absent
    awaited,    \* requests the open page awaits
    loading,    \* the frame has been given a URL it has not loaded yet
    preview,    \* the text whose PDF the frame shows, or Absent
    answer,     \* history: the last answer: "none", "compiled", "refused", "lost"
    overlap,    \* history: another request was in flight with the editor's last
    deletion,   \* history: a deletion has begun
    excused     \* history: a deletion met another request, or a call failed

page == <<edits, doc, timer, awaited, loading, preview, answer>>
vars == <<row, source, pdf, kind, pc, text, ok, page, overlap, deletion, excused>>

Texts == 0 .. MaxEdits
Kinds == {"none", "create", "compile", "save", "delete"}
Labels == {"idle", "find", "put", "read", "write", "insert", "record", "answer",
           "removeSource", "removePdf", "removeRow"}

\* Types; in particular the compile service never works on a source that is not there.
TypeOK ==
    /\ row \in {"none", "there", "deleted"}
    /\ {source, pdf, doc, timer, preview} \subseteq Texts \cup {Absent}
    /\ kind \in [Requests -> Kinds]
    /\ pc \in [Requests -> Labels]
    /\ text \in [Requests -> Texts]
    /\ ok \in [Requests -> BOOLEAN]
    /\ edits \in Texts
    /\ awaited \subseteq Requests
    /\ answer \in {"none", "compiled", "refused", "lost"}
    /\ {loading, overlap, deletion, excused} \subseteq BOOLEAN

Init ==
    /\ row = "none"
    /\ source = Absent /\ pdf = Absent
    /\ kind = [r \in Requests |-> "none"]
    /\ pc = [r \in Requests |-> "idle"]
    /\ text = [r \in Requests |-> 0]
    /\ ok = [r \in Requests |-> FALSE]
    /\ edits = 0
    /\ doc = Absent /\ timer = Absent /\ preview = Absent
    /\ awaited = {}
    /\ loading = FALSE
    /\ answer = "none"
    /\ overlap = FALSE /\ deletion = FALSE /\ excused = FALSE

-----------------------------------------------------------------------------
(* Requests                                                                *)

GoTo(r, label) == pc' = [pc EXCEPT ![r] = label]

InFlight == {r \in Requests : pc[r] # "idle"}

Deleting == \E r \in InFlight : kind[r] = "delete"

Begin(r, k, label) ==
    /\ pc[r] = "idle"
    /\ kind' = [kind EXCEPT ![r] = k]
    /\ GoTo(r, label)
    /\ ok' = [ok EXCEPT ![r] = FALSE]
    /\ overlap' = IF k = "save" THEN InFlight # {}
                    ELSE overlap \/ \E s \in InFlight : kind[s] = "save"
    /\ deletion' = (deletion \/ k = "delete")
    /\ excused' = (excused \/ Deleting \/ (k = "delete" /\ InFlight # {}))

\* A request that is not the editor's ends; the editor's is answered.
Finish(r) == GoTo(r, IF kind[r] = "save" THEN "answer" ELSE "idle")

\* CreateTypstMaterialFromTemplate and UploadTypstMaterial: a new id, so once.
Create(r) ==
    /\ row = "none" /\ source = Absent /\ \A s \in Requests : kind[s] # "create"
    /\ Begin(r, "create", "put")
    /\ text' = [text EXCEPT ![r] = 0]
    /\ UNCHANGED <<row, source, pdf, page>>

\* CompileTypst has read the row.
BeginCompile(r) ==
    /\ row = "there"
    /\ Begin(r, "compile", "read")
    /\ UNCHANGED <<row, source, pdf, text, page>>

\* DeleteMaterial has read the row and compared its owner.
BeginDelete(r) ==
    /\ row = "there"
    /\ Begin(r, "delete", "removeSource")
    /\ UNCHANGED <<row, source, pdf, text, page>>

history == <<overlap, deletion, excused>>

\* CompileAndGetURL reads the row; without it the request is refused.
FindMaterial(r) ==
    /\ pc[r] = "find"
    /\ GoTo(r, IF row = "there" THEN "put" ELSE "answer")
    /\ UNCHANGED <<row, source, pdf, kind, text, ok, page, history>>

PutSource(r) ==
    /\ pc[r] = "put"
    /\ source' = text[r]
    /\ GoTo(r, "read")
    /\ UNCHANGED <<row, pdf, kind, text, ok, page, history>>

\* The compile service: it reads the source under the material's path.
ReadSource(r) ==
    /\ pc[r] = "read" /\ source # Absent
    /\ text' = [text EXCEPT ![r] = source]
    /\ GoTo(r, "write")
    /\ UNCHANGED <<row, source, pdf, kind, ok, page, history>>

\* It compiles, puts the PDF and answers with its path.
WritePdf(r) ==
    /\ pc[r] = "write"
    /\ pdf' = text[r]
    /\ ok' = [ok EXCEPT ![r] = TRUE]
    /\ GoTo(r, CASE kind[r] = "create" -> "insert"
                 [] kind[r] = "compile" -> "record"
                 [] OTHER -> "answer")
    /\ UNCHANGED <<row, source, kind, text, page, history>>

InsertRow(r) ==
    /\ pc[r] = "insert"
    /\ row' = "there"
    /\ GoTo(r, "idle")
    /\ UNCHANGED <<source, pdf, kind, text, ok, page, history>>

\* UpdateLearningMaterial writes back the row it read; a row that was deleted
\* meanwhile stays so, and the update fails.
RecordPdf(r) ==
    /\ pc[r] = "record"
    /\ GoTo(r, "idle")
    /\ UNCHANGED <<row, source, pdf, kind, text, ok, page, history>>

FailIgnoringResponse(r) ==
    /\ pc[r] \in {"find", "put", "read", "write", "insert", "record", "removeRow"}
    /\ IF kind[r] = "create" /\ pc[r] \in {"read", "write"} THEN GoTo(r, "insert") ELSE Finish(r)
    /\ excused' = (excused \/ kind[r] = "delete")
    /\ UNCHANGED <<row, source, pdf, kind, text, ok, page, overlap, deletion>>

\* The source is not there, the text does not compile, a call fails: an editor
\* is told so, everything else just ends where it is.
Fail(r) ==
    /\ pc[r] \in {"find", "put", "read", "write", "insert", "record", "removeRow"}
    /\ Finish(r)
    /\ excused' = (excused \/ kind[r] = "delete")
    /\ UNCHANGED <<row, source, pdf, kind, text, ok, page, overlap, deletion>>

\* DeleteMaterial: objects first; a removal that fails is ignored.
RemoveSource(r) ==
    /\ pc[r] = "removeSource"
    /\ source' \in {source, Absent}
    /\ excused' = (excused \/ source' # Absent)
    /\ GoTo(r, "removePdf")
    /\ UNCHANGED <<row, pdf, kind, text, ok, page, overlap, deletion>>

KeepPdf(r) ==
    /\ pc[r] = "removePdf"
    /\ GoTo(r, "removeRow")
    /\ UNCHANGED <<row, source, pdf, kind, text, ok, page, history>>

RemovePdf(r) ==
    /\ pc[r] = "removePdf"
    /\ pdf' \in {pdf, Absent}
    /\ excused' = (excused \/ pdf' # Absent)
    /\ GoTo(r, "removeRow")
    /\ UNCHANGED <<row, source, kind, text, ok, page, overlap, deletion>>

RemoveRow(r) ==
    /\ pc[r] = "removeRow"
    /\ row' = "deleted"
    /\ GoTo(r, "idle")
    /\ UNCHANGED <<source, pdf, kind, text, ok, page, history>>

-----------------------------------------------------------------------------
(* The editor                                                              *)

objects == <<row, source, pdf>>

\* EditorPage: the page opens, or opens anew, with the stored source and PDF;
\* what the page before was waiting for is answered to nobody.
OpenEditor ==
    /\ row = "there" /\ source # Absent
    /\ doc' = source
    /\ timer' = Absent
    /\ awaited' = {}
    /\ loading' = TRUE
    /\ preview' = Absent
    /\ answer' = "none"
    /\ UNCHANGED <<objects, kind, pc, text, ok, edits, history>>

TypeKeepingTimer ==
    /\ doc # Absent /\ edits < MaxEdits
    /\ edits' = edits + 1
    /\ doc' = edits'
    /\ timer' = IF timer = Absent THEN doc' ELSE timer
    /\ UNCHANGED <<objects, kind, pc, text, ok, awaited, loading, preview,
                   answer, history>>

\* scheduleCompile: every change starts the 300 ms anew, with the new text.
Type ==
    /\ doc # Absent /\ edits < MaxEdits
    /\ edits' = edits + 1
    /\ doc' = edits'
    /\ timer' = doc'
    /\ UNCHANGED <<objects, kind, pc, text, ok, awaited, loading, preview,
                   answer, history>>

\* The timer fires: compileTypst sends the text.
Send(r) ==
    /\ timer # Absent
    /\ Begin(r, "save", "find")
    /\ text' = [text EXCEPT ![r] = timer]
    /\ timer' = Absent
    /\ awaited' = awaited \cup {r}
    /\ UNCHANGED <<objects, edits, doc, loading, preview, answer>>

\* The answer arrives.  A refusal is JSON as well: it has no url, so the frame
\* stays, and no diagnostics, so the panel says that there are no errors.
Answered(r) ==
    /\ pc[r] = "answer"
    /\ GoTo(r, "idle")
    /\ awaited' = awaited \ {r}
    /\ \/ /\ r \in awaited
          /\ loading' = (loading \/ ok[r])
          /\ answer' = IF ok[r] THEN "compiled" ELSE "refused"
       \/ /\ r \notin awaited
          /\ UNCHANGED <<loading, answer>>
    /\ UNCHANGED <<objects, kind, text, ok, edits, doc, timer, preview, history>>

\* No answer arrives, or none that is JSON: compileAndPreview shows a failure.
\* The server may still be working on the request.
LoseAnswer(r) ==
    /\ r \in awaited
    /\ awaited' = awaited \ {r}
    /\ answer' = "lost"
    /\ UNCHANGED <<objects, kind, pc, text, ok, edits, doc, timer, loading,
                   preview, history>>

\* The frame loads the PDF that is in the bucket by now.
LoadPreview ==
    /\ loading
    /\ loading' = FALSE
    /\ preview' = pdf
    /\ UNCHANGED <<objects, kind, pc, text, ok, edits, doc, timer, awaited,
                   answer, history>>

Server(r) ==
    \/ Create(r) \/ BeginCompile(r) \/ BeginDelete(r)
    \/ FindMaterial(r) \/ PutSource(r) \/ ReadSource(r) \/ WritePdf(r)
    \/ InsertRow(r) \/ RecordPdf(r) \/ Fail(r)
    \/ RemoveSource(r) \/ RemovePdf(r) \/ RemoveRow(r)

Next ==
    \/ OpenEditor \/ Type \/ LoadPreview
    \/ \E r \in Requests : Server(r) \/ Send(r) \/ Answered(r) \/ LoseAnswer(r)

Spec == Init /\ [][Next]_vars

-----------------------------------------------------------------------------
(* Properties                                                              *)

Quiet == InFlight = {} /\ timer = Absent /\ ~loading

\* When the editor has come to rest and its last request was answered and never
\* in flight together with another, the frame shows the text that is in the editor,
\* and unless a deletion has begun that text is what is stored.  Edits between
\* sending and answer, answers lost earlier, reopened pages and failed requests
\* in between do not matter.
PreviewOfLastText ==
    (Quiet /\ answer = "compiled" /\ ~overlap /\ ~deletion)
        => preview = doc /\ source = doc /\ pdf = doc

\* A row is inserted after its objects are stored, and they are removed by a
\* deletion only: until one begins, a listed material can be opened.
MaterialHasObjects ==
    (row = "there" /\ ~deletion) => source # Absent /\ pdf # Absent

\* A deletion during which nothing else was in flight and no call failed leaves
\* no object: neither the source nor a PDF that was compiled at some time.
DeletionLeavesNothing ==
    (row = "deleted" /\ ~excused) => source = Absent /\ pdf = Absent

=============================================================================
