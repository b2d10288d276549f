--------------------------- MODULE QuestionImages ---------------------------
(***************************************************************************)
(* The images of a question: rows of question_images in PostgreSQL and     *)
(* objects in MinIO, written one after the other by AddQuestion,           *)
(* UploadQuestionImage and DeleteQuestionImage, with no transaction over   *)
(* the two and none over the count and the insertion either.               *)
(*                                                                         *)
(* A row keeps the URL its object had when it was uploaded, and the        *)
(* object's name is later taken from that URL.  A presigned URL ends in a  *)
(* query string; the plain one, used when signing fails, ends in the name. *)
(***************************************************************************)
EXTENDS Integers, FiniteSets

CONSTANTS
    Requests,   \* slots for administrators' requests being served
    Names,      \* bound: the object names the clock still gives out
    MaxImages,  \* MaxImagesPerQuestion
    MaxFiles,   \* bound: files sent with a new question
    Absent

ASSUME BoundsAssumption ==
    MaxImages \in Nat \ {0} /\ MaxFiles \in Nat /\ IsFiniteSet(Requests)

VARIABLES
    question,   \* whether the questions row exists: "none", "there", "deleted"
    rows,       \* the question's question_images rows
    objects,    \* names of the objects in the bucket
    fresh,      \* names not given out yet
    pc,         \* pc[r]: the call request r makes next
    left,       \* left[r]: files AddQuestion has still to look at
    count,      \* count[r]: the number of rows r read
    image       \* image[r]: the row r inserts or deletes, or Absent

vars == <<question, rows, objects, fresh, pc, left, count, image>>

Labels == {"idle", "count", "put", "insert", "rollback", "deleteRow", "deleteObject"}

Row == [object : Names, url : {"presigned", "plain"}, order : Nat]

ASSUME AbsentAssumption == Absent \notin Row

\* Types; in particular the files AddQuestion has left are never counted below 0.
TypeOK ==
    /\ question \in {"none", "there", "deleted"}
    /\ rows \subseteq Row
    /\ objects \subseteq Names
    /\ fresh \subseteq Names
    /\ pc \in [Requests -> Labels]
    /\ left \in [Requests -> Nat]
    /\ count \in [Requests -> Nat]
    /\ image \in [Requests -> Row \cup {Absent}]

Init ==
    /\ question = "none"
    /\ rows = {}
    /\ objects = {}
    /\ fresh = Names
    /\ pc = [r \in Requests |-> "idle"]
    /\ left = [r \in Requests |-> 0]
    /\ count = [r \in Requests |-> 0]
    /\ image = [r \in Requests |-> Absent]

GoTo(r, label) == pc' = [pc EXCEPT ![r] = label]

\* The next file of AddQuestion's loop, or the end of the request.
NextFile(r) ==
    /\ GoTo(r, IF left[r] > 0 THEN "count" ELSE "idle")
    /\ left' = [left EXCEPT ![r] = IF @ > 0 THEN @ - 1 ELSE 0]
    /\ image' = [image EXCEPT ![r] = Absent]

-----------------------------------------------------------------------------
(* Adding                                                                  *)

\* The question is inserted; at most MaxImages files are looked at.
AddQuestion(r, files) ==
    /\ pc[r] = "idle" /\ question = "none"
    /\ question' = "there"
    /\ LET n == IF files > MaxImages THEN MaxImages ELSE files IN
        /\ GoTo(r, IF n > 0 THEN "count" ELSE "idle")
        /\ left' = [left EXCEPT ![r] = IF n > 0 THEN n - 1 ELSE 0]
    /\ UNCHANGED <<rows, objects, fresh, count, image>>

\* UploadQuestionImage has found the question.
BeginUpload(r) ==
    /\ pc[r] = "idle" /\ question = "there"
    /\ GoTo(r, "count")
    /\ left' = [left EXCEPT ![r] = 0]
    /\ UNCHANGED <<question, rows, objects, fresh, count, image>>

HasRoomForOneMore(n) == n <= MaxImages
HasRoom(n) == n < MaxImages

\* SELECT COUNT(*): with no room left, the file is skipped or refused.
CountImages(r) ==
    /\ pc[r] = "count"
    /\ count' = [count EXCEPT ![r] = Cardinality(rows)]
    /\ \/ /\ HasRoom(Cardinality(rows))
          /\ GoTo(r, "put")
          /\ UNCHANGED <<left, image>>
       \/ /\ ~HasRoom(Cardinality(rows))
          /\ NextFile(r)
    /\ UNCHANGED <<question, rows, objects, fresh>>

\* UploadImage: the object is put under a name of its own and its URL taken,
\* presigned if that works.  The clock never gives out a name twice; which one it
\* gives makes no difference.
PutObject(r, name, url) ==
    /\ pc[r] = "put" /\ name \in fresh
    /\ name = CHOOSE n \in fresh : TRUE
    /\ objects' = objects \cup {name}
    /\ fresh' = fresh \ {name}
    /\ image' = [image EXCEPT ![r] = [object |-> name, url |-> url, order |-> count[r]]]
    /\ GoTo(r, "insert")
    /\ UNCHANGED <<question, rows, left, count>>

\* The row is inserted if its question still exists (foreign key).
InsertImage(r) ==
    /\ pc[r] = "insert" /\ question = "there"
    /\ rows' = rows \cup {image[r]}
    /\ NextFile(r)
    /\ UNCHANGED <<question, objects, fresh, count>>

InsertFails(r) ==
    /\ pc[r] = "insert"
    /\ GoTo(r, "rollback")
    /\ UNCHANGED <<question, rows, objects, fresh, left, count, image>>

\* DeleteImage of the whole URL: no object has that name, and removing what
\* does not exist succeeds.
Rollback(r) ==
    /\ pc[r] = "rollback"
    /\ NextFile(r)
    /\ UNCHANGED <<question, rows, objects, fresh, count>>

-----------------------------------------------------------------------------
(* Deleting                                                                *)

\* filepath.Base of the URL: the object's name, unless a query follows it.
NamedByBase(img) == IF img.url = "plain" THEN {img.object} ELSE {}

BeginDeleteWithObject(r, img) ==
    /\ pc[r] = "idle" /\ img \in rows
    /\ image' = [image EXCEPT ![r] = img]
    /\ objects' = objects \ NamedByBase(img)
    /\ GoTo(r, "deleteRow")
    /\ UNCHANGED <<question, rows, fresh, left, count>>

\* DeleteQuestionImage has read the row and compared its question.
BeginDelete(r, img) ==
    /\ pc[r] = "idle" /\ img \in rows
    /\ image' = [image EXCEPT ![r] = img]
    /\ GoTo(r, "deleteRow")
    /\ UNCHANGED <<question, rows, objects, fresh, left, count>>

\* Deleting a row that is gone by now is no error.
DeleteRow(r) ==
    /\ pc[r] = "deleteRow"
    /\ rows' = rows \ {image[r]}
    /\ GoTo(r, "deleteObject")
    /\ UNCHANGED <<question, objects, fresh, left, count, image>>

DeleteObject(r) ==
    /\ pc[r] = "deleteObject"
    /\ objects' = objects \ NamedByBase(image[r])
    /\ image' = [image EXCEPT ![r] = Absent]
    /\ GoTo(r, "idle")
    /\ UNCHANGED <<question, rows, fresh, left, count>>

\* DeleteQuestion: the foreign key deletes the rows; nobody the objects.
DeleteQuestion ==
    /\ question = "there"
    /\ question' = "deleted"
    /\ rows' = {}
    /\ UNCHANGED <<objects, fresh, pc, left, count, image>>

-----------------------------------------------------------------------------
(* Failures                                                                *)

\* A count or an upload fails: AddQuestion takes the next file, an upload ends.
SkipFile(r) ==
    /\ pc[r] \in {"count", "put"}
    /\ NextFile(r)
    /\ UNCHANGED <<question, rows, objects, fresh, count>>

\* A call of a deletion fails, or the server restarts: nothing more is done.
Abort(r) ==
    /\ pc[r] # "idle"
    /\ GoTo(r, "idle")
    /\ left' = [left EXCEPT ![r] = 0]
    /\ image' = [image EXCEPT ![r] = Absent]
    /\ UNCHANGED <<question, rows, objects, fresh, count>>

Step(r) ==
    \/ \E n \in 0 .. MaxFiles : AddQuestion(r, n)
    \/ BeginUpload(r) \/ CountImages(r)
    \/ \E name \in Names, url \in {"presigned", "plain"} : PutObject(r, name, url)
    \/ InsertImage(r) \/ InsertFails(r) \/ Rollback(r)
    \/ \E img \in rows : BeginDelete(r, img)
    \/ DeleteRow(r) \/ DeleteObject(r)
    \/ SkipFile(r) \/ Abort(r)

Next == DeleteQuestion \/ \E r \in Requests : Step(r)

Spec == Init /\ [][Next]_vars

-----------------------------------------------------------------------------
(* Properties                                                              *)

\* A row never names an object that is not there: an image of a question can
\* be shown (while its URL is valid), whatever fails half way and whoever else
\* uploads or deletes.  It rests on the order of the calls in both directions.
RowNamesObject == \A img \in rows : img.object \in objects

\* "Images (up to 3)", says the form.  The limit is exceeded by at most one image
\* per other request: each has counted before any of the others inserted.
LimitUpToRequests == Cardinality(rows) < MaxImages + Cardinality(Requests)

=============================================================================
