------------------------ MODULE TypstMaterialProofs ------------------------
(***************************************************************************)
(* For any number of requests and edits: a listed material has its source  *)
(* and its PDF, a deletion leaves neither, and the editor at rest shows    *)
(* the PDF of its last text.                                               *)
(***************************************************************************)
EXTENDS TypstMaterial, TLAPS

Active(r) == pc[r] # "idle"
Saves(r) == Active(r) /\ kind[r] = "save"

\* A request is at a call that requests of its kind make.
OwnLabels ==
    \A r \in Requests : Active(r) =>
        \/ kind[r] = "create" /\ pc[r] \in {"put", "read", "write", "insert"}
        \/ kind[r] = "compile" /\ pc[r] \in {"read", "write", "record"}
        \/ kind[r] = "save" /\ pc[r] \in {"find", "put", "read", "write", "answer"}
        \/ kind[r] = "delete" /\ pc[r] \in {"removeSource", "removePdf", "removeRow"}

\* Before a deletion nothing is on its way to be removed, ...
NothingRemoved ==
    ~deletion => /\ row # "deleted"
                 /\ \A r \in Requests : Active(r) => kind[r] # "delete"

\* ... and who inserts the row has put both objects.
ObjectsFirst ==
    ~deletion =>
        /\ row = "there" => source # Absent /\ pdf # Absent
        /\ \A r \in Requests :
             /\ pc[r] \in {"write", "insert"} => source # Absent
             /\ pc[r] = "insert" => pdf # Absent

Storing == OwnLabels /\ NothingRemoved /\ ObjectsFirst

\* A deletion that is not excused is the only request in flight, ...
DeletesAlone ==
    ~excused => \A r, s \in Requests :
        Active(r) /\ kind[r] = "delete" /\ Active(s) => r = s

\* ... has removed what it is past, and afterwards nobody stores anything.
Emptied ==
    ~excused =>
        /\ \A r \in Requests :
             /\ pc[r] \in {"removePdf", "removeRow"} => source = Absent
             /\ pc[r] = "removeRow" => pdf = Absent
        /\ row = "deleted" =>
             /\ source = Absent /\ pdf = Absent
             /\ \A r \in Requests : pc[r] \in {"idle", "find", "answer"}

Removal == DeletesAlone /\ Emptied

-----------------------------------------------------------------------------
(* The editor                                                              *)

\* The page awaits saves only, ...
AwaitsSaves == \A r \in awaited : Saves(r)

\* ... its timer carries what was typed last, ...
LastTyped == timer # Absent => timer = doc

\* ... and all this is only in an open page, of a material that was made.
PageOpen ==
    /\ timer # Absent \/ awaited # {} \/ answer # "none" => doc # Absent
    /\ doc # Absent => row # "none"

\* The material is made before anybody else can do something with it.
MadeOnce ==
    \A r \in Requests :
        /\ Active(r) /\ kind[r] = "create" => row = "none"
        /\ Active(r) /\ kind[r] = "delete" => row # "none"
        /\ \A s \in Requests : kind[r] = "create" /\ kind[s] = "create" => r = s

\* A save is compiled when it is answered, not before.
NotYetOk == \A r \in Requests : Saves(r) /\ pc[r] # "answer" => ~ok[r]

Editor == AwaitsSaves /\ LastTyped /\ PageOpen /\ MadeOnce /\ NotYetOk

SavesAlone ==
    ~overlap => \A r, s \in Requests : Saves(r) /\ Active(s) => r = s

\* While nothing new is typed, an awaited save hands the editor's text on.
Carried ==
    (~overlap /\ ~deletion /\ timer = Absent) =>
        \A r \in awaited :
            /\ pc[r] \in {"find", "put", "write"} => text[r] = doc
            /\ pc[r] \in {"read", "write"} => source = doc
            /\ pc[r] = "answer" /\ ok[r] => source = doc /\ pdf = doc

\* An answer that is shown is not that of a save given up.
NoneGivenUp ==
    (~overlap /\ answer = "compiled") => \A r \in Requests : Saves(r) => r \in awaited

\* Once it is answered, what a compilation in flight reads and writes is that text.
Settled ==
    (/\ ~overlap /\ ~deletion /\ timer = Absent /\ answer = "compiled"
     /\ \A r \in Requests : ~Saves(r)) =>
        /\ source = doc /\ pdf = doc
        /\ loading \/ preview = doc
        /\ \A r \in Requests : pc[r] = "write" => text[r] = doc

Preview == SavesAlone /\ Carried /\ NoneGivenUp /\ Settled

IInv == TypeOK /\ Storing /\ Removal /\ Editor /\ Preview


-----------------------------------------------------------------------------

\* The types are inductive: the compile service reads only a source that is there.
LEMMA TypeInductive ==
    ASSUME TypeOK, [Next]_vars
    PROVE  TypeOK'
<1> USE BoundsAssumption DEF GoTo, InFlight, TypeOK, Texts, Kinds, Labels, page
<1>1. CASE OpenEditor
    BY <1>1 DEF OpenEditor, objects, history
<1>2. CASE Type
    BY <1>2 DEF Type, objects, history
<1>3. CASE LoadPreview
    BY <1>3 DEF LoadPreview, objects, history
<1>4. ASSUME NEW r \in Requests, Server(r) \/ Send(r) \/ Answered(r) \/ LoseAnswer(r)
      PROVE  TypeOK'
    <2>1. CASE Create(r)
        BY <2>1 DEF Create, Begin, Deleting, page
    <2>2. CASE BeginCompile(r)
        BY <2>2 DEF BeginCompile, Begin, Deleting, page
    <2>3. CASE BeginDelete(r)
        BY <2>3 DEF BeginDelete, Begin, Deleting, page
    <2>4. CASE FindMaterial(r)
        BY <2>4 DEF FindMaterial, page, history
    <2>5. CASE PutSource(r)
        BY <2>5 DEF PutSource, page, history
    <2>6. CASE ReadSource(r)
        BY <2>6 DEF ReadSource, page, history
    <2>7. CASE WritePdf(r)
        BY <2>7 DEF WritePdf, page, history
    <2>8. CASE InsertRow(r)
        BY <2>8 DEF InsertRow, page, history
    <2>9. CASE RecordPdf(r)
        BY <2>9 DEF RecordPdf, page, history
    <2>10. CASE Fail(r)
        BY <2>10 DEF Fail, Finish, page
    <2>11. CASE RemoveSource(r)
        BY <2>11 DEF RemoveSource, page
    <2>12. CASE RemovePdf(r)
        BY <2>12 DEF RemovePdf, page
    <2>13. CASE RemoveRow(r)
        BY <2>13 DEF RemoveRow, page, history
    <2>14. CASE Send(r)
        BY <2>14 DEF Send, Begin, Deleting, objects
    <2>15. CASE Answered(r)
        BY <2>15 DEF Answered, objects, history
    <2>16. CASE LoseAnswer(r)
        BY <2>16 DEF LoseAnswer, objects, history
    <2> QED BY <1>4, <2>1, <2>2, <2>3, <2>4, <2>5, <2>6, <2>7, <2>8, <2>9, <2>10,
            <2>11, <2>12, <2>13, <2>14, <2>15, <2>16 DEF Server
<1>5. CASE UNCHANGED vars
    BY <1>5 DEF vars, page
<1> QED BY <1>1, <1>2, <1>3, <1>4, <1>5 DEF Next
\* Objects come before the row, whoever else is in flight.
LEMMA StoringInductive ==
    ASSUME TypeOK, Storing, [Next]_vars
    PROVE  Storing'
<1> USE BoundsAssumption DEF GoTo, InFlight, TypeOK, Texts, Kinds, Labels, page,
        Storing, OwnLabels, NothingRemoved, ObjectsFirst, Active
<1>1. CASE OpenEditor
    BY <1>1 DEF OpenEditor, objects, history
<1>2. CASE Type
    BY <1>2 DEF Type, objects, history
<1>3. CASE LoadPreview
    BY <1>3 DEF LoadPreview, objects, history
<1>4. ASSUME NEW r \in Requests, Server(r) \/ Send(r) \/ Answered(r) \/ LoseAnswer(r)
      PROVE  Storing'
    <2>1. CASE Create(r)
        BY <2>1 DEF Create, Begin, Deleting, page
    <2>2. CASE BeginCompile(r)
        BY <2>2 DEF BeginCompile, Begin, Deleting, page
    <2>3. CASE BeginDelete(r)
        BY <2>3 DEF BeginDelete, Begin, Deleting, page
    <2>4. CASE FindMaterial(r)
        BY <2>4 DEF FindMaterial, page, history
    <2>5. CASE PutSource(r)
        BY <2>5 DEF PutSource, page, history
    <2>6. CASE ReadSource(r)
        BY <2>6 DEF ReadSource, page, history
    <2>7. CASE WritePdf(r)
        BY <2>7 DEF WritePdf, page, history
    <2>8. CASE InsertRow(r)
        BY <2>8 DEF InsertRow, page, history
    <2>9. CASE RecordPdf(r)
        BY <2>9 DEF RecordPdf, page, history
    <2>10. CASE Fail(r)
        BY <2>10 DEF Fail, Finish, page
    <2>11. CASE RemoveSource(r)
        BY <2>11 DEF RemoveSource, page
    <2>12. CASE RemovePdf(r)
        BY <2>12 DEF RemovePdf, page
    <2>13. CASE RemoveRow(r)
        BY <2>13 DEF RemoveRow, page, history
    <2>14. CASE Send(r)
        BY <2>14 DEF Send, Begin, Deleting, objects
    <2>15. CASE Answered(r)
        BY <2>15 DEF Answered, objects, history
    <2>16. CASE LoseAnswer(r)
        BY <2>16 DEF LoseAnswer, objects, history
    <2> QED BY <1>4, <2>1, <2>2, <2>3, <2>4, <2>5, <2>6, <2>7, <2>8, <2>9, <2>10,
            <2>11, <2>12, <2>13, <2>14, <2>15, <2>16 DEF Server
<1>5. CASE UNCHANGED vars
    BY <1>5 DEF vars, page
<1> QED BY <1>1, <1>2, <1>3, <1>4, <1>5 DEF Next
\* A deletion nothing interferes with leaves no object.
LEMMA RemovalInductive ==
    ASSUME TypeOK, Storing, Removal, [Next]_vars
    PROVE  Removal'
<1> USE BoundsAssumption DEF GoTo, InFlight, TypeOK, Texts, Kinds, Labels, page,
        Storing, OwnLabels, Removal, DeletesAlone, Emptied, Active
<1>1. CASE OpenEditor
    BY <1>1 DEF OpenEditor, objects, history
<1>2. CASE Type
    BY <1>2 DEF Type, objects, history
<1>3. CASE LoadPreview
    BY <1>3 DEF LoadPreview, objects, history
<1>4. ASSUME NEW r \in Requests, Server(r) \/ Send(r) \/ Answered(r) \/ LoseAnswer(r)
      PROVE  Removal'
    <2>1. CASE Create(r)
        BY <2>1 DEF Create, Begin, Deleting, page
    <2>2. CASE BeginCompile(r)
        BY <2>2 DEF BeginCompile, Begin, Deleting, page
    <2>3. CASE BeginDelete(r)
        BY <2>3 DEF BeginDelete, Begin, Deleting, page
    <2>4. CASE FindMaterial(r)
        BY <2>4 DEF FindMaterial, page, history
    <2>5. CASE PutSource(r)
        BY <2>5 DEF PutSource, page, history
    <2>6. CASE ReadSource(r)
        BY <2>6 DEF ReadSource, page, history
    <2>7. CASE WritePdf(r)
        BY <2>7 DEF WritePdf, page, history
    <2>8. CASE InsertRow(r)
        BY <2>8 DEF InsertRow, page, history
    <2>9. CASE RecordPdf(r)
        BY <2>9 DEF RecordPdf, page, history
    <2>10. CASE Fail(r)
        BY <2>10 DEF Fail, Finish, page
    <2>11. CASE RemoveSource(r)
        BY <2>11 DEF RemoveSource, page
    <2>12. CASE RemovePdf(r)
        BY <2>12 DEF RemovePdf, page
    <2>13. CASE RemoveRow(r)
        BY <2>13 DEF RemoveRow, page, history
    <2>14. CASE Send(r)
        BY <2>14 DEF Send, Begin, Deleting, objects
    <2>15. CASE Answered(r)
        BY <2>15 DEF Answered, objects, history
    <2>16. CASE LoseAnswer(r)
        BY <2>16 DEF LoseAnswer, objects, history
    <2> QED BY <1>4, <2>1, <2>2, <2>3, <2>4, <2>5, <2>6, <2>7, <2>8, <2>9, <2>10,
            <2>11, <2>12, <2>13, <2>14, <2>15, <2>16 DEF Server
<1>5. CASE UNCHANGED vars
    BY <1>5 DEF vars, page
<1> QED BY <1>1, <1>2, <1>3, <1>4, <1>5 DEF Next
\* What the page awaits, and what has not been answered.
LEMMA EditorInductive ==
    ASSUME TypeOK, Storing, Editor, [Next]_vars
    PROVE  Editor'
<1> USE BoundsAssumption DEF GoTo, InFlight, TypeOK, Texts, Kinds, Labels, page,
        Storing, OwnLabels, Editor, AwaitsSaves, LastTyped, PageOpen, MadeOnce,
        NotYetOk, Active, Saves
<1>1. CASE OpenEditor
    BY <1>1 DEF OpenEditor, objects, history
<1>2. CASE Type
    BY <1>2 DEF Type, objects, history
<1>3. CASE LoadPreview
    BY <1>3 DEF LoadPreview, objects, history
<1>4. ASSUME NEW r \in Requests, Server(r) \/ Send(r) \/ Answered(r) \/ LoseAnswer(r)
      PROVE  Editor'
    <2>1. CASE Create(r)
        BY <2>1 DEF Create, Begin, Deleting, page
    <2>2. CASE BeginCompile(r)
        BY <2>2 DEF BeginCompile, Begin, Deleting, page
    <2>3. CASE BeginDelete(r)
        BY <2>3 DEF BeginDelete, Begin, Deleting, page
    <2>4. CASE FindMaterial(r)
        BY <2>4 DEF FindMaterial, page, history
    <2>5. CASE PutSource(r)
        BY <2>5 DEF PutSource, page, history
    <2>6. CASE ReadSource(r)
        BY <2>6 DEF ReadSource, page, history
    <2>7. CASE WritePdf(r)
        BY <2>7 DEF WritePdf, page, history
    <2>8. CASE InsertRow(r)
        BY <2>8 DEF InsertRow, page, history
    <2>9. CASE RecordPdf(r)
        BY <2>9 DEF RecordPdf, page, history
    <2>10. CASE Fail(r)
        BY <2>10 DEF Fail, Finish, page
    <2>11. CASE RemoveSource(r)
        BY <2>11 DEF RemoveSource, page
    <2>12. CASE RemovePdf(r)
        BY <2>12 DEF RemovePdf, page
    <2>13. CASE RemoveRow(r)
        BY <2>13 DEF RemoveRow, page, history
    <2>14. CASE Send(r)
        <3>1. AwaitsSaves'
            BY <2>14 DEF Send, Begin, Deleting, objects
        <3>2. LastTyped'
            BY <2>14 DEF Send, Begin, Deleting, objects
        <3>3. PageOpen'
            BY <2>14 DEF Send, Begin, Deleting, objects
        <3>4. MadeOnce'
            BY <2>14 DEF Send, Begin, Deleting, objects
        <3>5. NotYetOk'
            BY <2>14 DEF Send, Begin, Deleting, objects
        <3> QED BY <3>1, <3>2, <3>3, <3>4, <3>5
    <2>15. CASE Answered(r)
        <3>1. AwaitsSaves'
            BY <2>15 DEF Answered, objects, history
        <3>2. LastTyped'
            BY <2>15 DEF Answered, objects, history
        <3>3. PageOpen'
            BY <2>15 DEF Answered, objects, history
        <3>4. MadeOnce'
            BY <2>15 DEF Answered, objects, history
        <3>5. NotYetOk'
            BY <2>15 DEF Answered, objects, history
        <3> QED BY <3>1, <3>2, <3>3, <3>4, <3>5
    <2>16. CASE LoseAnswer(r)
        BY <2>16 DEF LoseAnswer, objects, history
    <2> QED BY <1>4, <2>1, <2>2, <2>3, <2>4, <2>5, <2>6, <2>7, <2>8, <2>9, <2>10,
            <2>11, <2>12, <2>13, <2>14, <2>15, <2>16 DEF Server
<1>5. CASE UNCHANGED vars
    BY <1>5 DEF vars, page
<1> QED BY <1>1, <1>2, <1>3, <1>4, <1>5 DEF Next
\* The text of the editor is handed on from save to preview.
LEMMA PreviewInductive ==
    ASSUME TypeOK, Storing, Editor, Preview, [Next]_vars
    PROVE  Preview'
<1> USE BoundsAssumption DEF GoTo, InFlight, TypeOK, Texts, Kinds, Labels, page,
        Storing, OwnLabels, Editor, AwaitsSaves, LastTyped, PageOpen, MadeOnce,
        NotYetOk, Preview, SavesAlone, Carried, NoneGivenUp, Settled, Active, Saves
<1>1. CASE OpenEditor
    BY <1>1 DEF OpenEditor, objects, history
<1>2. CASE Type
    BY <1>2 DEF Type, objects, history
<1>3. CASE LoadPreview
    BY <1>3 DEF LoadPreview, objects, history
<1>4. ASSUME NEW r \in Requests, Server(r) \/ Send(r) \/ Answered(r) \/ LoseAnswer(r)
      PROVE  Preview'
    <2>1. CASE Create(r)
        BY <2>1 DEF Create, Begin, Deleting, page
    <2>2. CASE BeginCompile(r)
        BY <2>2 DEF BeginCompile, Begin, Deleting, page
    <2>3. CASE BeginDelete(r)
        BY <2>3 DEF BeginDelete, Begin, Deleting, page
    <2>4. CASE FindMaterial(r)
        BY <2>4 DEF FindMaterial, page, history
    <2>5. CASE PutSource(r)
        BY <2>5 DEF PutSource, page, history
    <2>6. CASE ReadSource(r)
        BY <2>6 DEF ReadSource, page, history
    <2>7. CASE WritePdf(r)
        BY <2>7 DEF WritePdf, page, history
    <2>8. CASE InsertRow(r)
        BY <2>8 DEF InsertRow, page, history
    <2>9. CASE RecordPdf(r)
        BY <2>9 DEF RecordPdf, page, history
    <2>10. CASE Fail(r)
        <3>1. SavesAlone'
            BY <2>10 DEF Fail, Finish, page
        <3>2. Carried'
            BY <2>10 DEF Fail, Finish, page
        <3>3. NoneGivenUp'
            BY <2>10 DEF Fail, Finish, page
        <3>4. Settled'
            BY <2>10 DEF Fail, Finish, page
        <3> QED BY <3>1, <3>2, <3>3, <3>4
    <2>11. CASE RemoveSource(r)
        <3>1. kind[r] = "delete" /\ Active(r)
            BY <2>11 DEF RemoveSource
        <3>2. deletion
            BY <3>1 DEF NothingRemoved
        <3>3. UNCHANGED deletion
            BY <2>11 DEF RemoveSource
        <3>4. SavesAlone' /\ NoneGivenUp'
            BY <2>11 DEF RemoveSource, page
        <3> QED BY <3>2, <3>3, <3>4
    <2>12. CASE RemovePdf(r)
        <3>1. kind[r] = "delete" /\ Active(r)
            BY <2>12 DEF RemovePdf
        <3>2. deletion
            BY <3>1 DEF NothingRemoved
        <3>3. UNCHANGED deletion
            BY <2>12 DEF RemovePdf
        <3>4. SavesAlone' /\ NoneGivenUp'
            BY <2>12 DEF RemovePdf, page
        <3> QED BY <3>2, <3>3, <3>4
    <2>13. CASE RemoveRow(r)
        BY <2>13 DEF RemoveRow, page, history
    <2>14. CASE Send(r)
        BY <2>14 DEF Send, Begin, Deleting, objects
    <2>15. CASE Answered(r)
        BY <2>15 DEF Answered, objects, history
    <2>16. CASE LoseAnswer(r)
        BY <2>16 DEF LoseAnswer, objects, history
    <2> QED BY <1>4, <2>1, <2>2, <2>3, <2>4, <2>5, <2>6, <2>7, <2>8, <2>9, <2>10,
            <2>11, <2>12, <2>13, <2>14, <2>15, <2>16 DEF Server
<1>5. CASE UNCHANGED vars
    BY <1>5 DEF vars, page
<1> QED BY <1>1, <1>2, <1>3, <1>4, <1>5 DEF Next
-----------------------------------------------------------------------------

\* The inductive invariant holds always.
THEOREM Invariant == Spec => []IInv
<1>1. Init => IInv
    <2> SUFFICES ASSUME Init PROVE IInv
        OBVIOUS
    <2> USE DEF Init, Active, Saves
    <2>1. TypeOK
        <3>1. 0 \in Texts
            BY BoundsAssumption DEF Texts
        <3>2. {source, pdf, doc, timer, preview} \subseteq Texts \cup {Absent}
            OBVIOUS
        <3>3. {loading, overlap, deletion, excused} \subseteq BOOLEAN
            OBVIOUS
        <3> QED BY <3>1, <3>2, <3>3 DEF TypeOK, Kinds, Labels
    <2>2. Storing
        BY DEF Storing, OwnLabels, NothingRemoved, ObjectsFirst
    <2>3. Removal
        BY DEF Removal, DeletesAlone, Emptied
    <2>4. Editor
        BY DEF Editor, AwaitsSaves, LastTyped, PageOpen, MadeOnce, NotYetOk
    <2>5. Preview
        BY DEF Preview, SavesAlone, Carried, NoneGivenUp, Settled
    <2> QED BY <2>1, <2>2, <2>3, <2>4, <2>5 DEF IInv
<1>2. IInv /\ [Next]_vars => IInv'
    BY TypeInductive, StoringInductive, RemovalInductive, EditorInductive, PreviewInductive
       DEF IInv
<1> QED BY <1>1, <1>2, PTL DEF Spec

\* Row, objects, requests and page have the types TypstMaterial gives them; the
\* compile service never works on a source that is not there.
THEOREM TypeCorrect == Spec => []TypeOK
<1>1. IInv => TypeOK
    BY DEF IInv
<1> QED BY <1>1, Invariant, PTL

\* Until a deletion begins, a material that is listed has its source and its PDF,
\* whatever is compiled, saved and fails at the same time
\* (CreateTypstMaterialFromTemplate, UploadTypstMaterial, CompileTypst).
THEOREM ListedCanBeOpened == Spec => []MaterialHasObjects
<1>1. IInv => MaterialHasObjects
    BY DEF IInv, Storing, ObjectsFirst, MaterialHasObjects
<1> QED BY <1>1, Invariant, PTL

\* A deletion that no other request and no failed call interferes with leaves
\* neither source nor PDF in the bucket (DeleteMaterial).
THEOREM DeletedIsGone == Spec => []DeletionLeavesNothing
<1>1. IInv => DeletionLeavesNothing
    BY DEF IInv, Removal, Emptied, DeletionLeavesNothing
<1> QED BY <1>1, Invariant, PTL

\* An editor at rest shows the PDF of the text that is in it, if its last request
\* was answered and was alone (scheduleCompile, compileAndPreview, CompileAndGetURL).
THEOREM PreviewIsCurrent == Spec => []PreviewOfLastText
<1>1. IInv => PreviewOfLastText
    BY DEF IInv, Preview, Settled, PreviewOfLastText, Quiet, InFlight, Saves, Active
<1> QED BY <1>1, Invariant, PTL

=============================================================================
