---------------------------- MODULE StoredProofs ----------------------------
(***************************************************************************)
(* What is kept in several stores, for any number of requests, questions,  *)
(* images, names and texts: rows of QuestionImages name objects that are   *)
(* there, and a question has less than one image more than allowed per     *)
(* request; and AnswerDraft keeps the answers of an attempt and shows them *)
(* on its cards.                                                           *)
(***************************************************************************)
EXTENDS Stored, SequenceTheorems, FiniteSetTheorems, TLAPS

-----------------------------------------------------------------------------
(* The images of a question                                                *)


\* Objects in the bucket have had their names given out.
GivenOut == objects \cap fresh = {}

\* No two rows name one object, ...
RowsDiffer == \A a, b \in rows : a.object = b.object => a = b

\* ... and none names the object of a request that is going to insert its row,
\* which is there, and which no other request inserts.
Inserting ==
    \A r \in Requests : pc[r] = "insert" =>
        /\ image[r] \in Row /\ image[r].object \in objects
        /\ \A img \in rows : img.object # image[r].object
        /\ \A q \in Requests \ {r} : pc[q] = "insert" => image[q].object # image[r].object

\* A row somebody deletes is the only one, now and later, to name its object.
Deleting ==
    \A r \in Requests : pc[r] = "deleteRow" =>
        /\ image[r] \in Row /\ image[r].object \notin fresh
        /\ \A img \in rows : img.object = image[r].object => img = image[r]
        /\ \A q \in Requests : pc[q] = "insert" => image[q].object # image[r].object

\* Once it is deleted, nobody names the object that is removed next.
Removing ==
    \A r \in Requests : pc[r] = "deleteObject" =>
        /\ image[r] \in Row /\ image[r].object \notin fresh
        /\ \A img \in rows : img.object # image[r].object
        /\ \A q \in Requests : pc[q] = "insert" => image[q].object # image[r].object

Naming == GivenOut /\ RowNamesObject /\ RowsDiffer /\ Inserting /\ Deleting /\ Removing

\* Whoever has counted and not inserted yet counts as one image more.
Uploading == {r \in Requests : pc[r] \in {"put", "insert"}}

RoomKept == Cardinality(rows) + Cardinality(Uploading) < MaxImages + Cardinality(Requests)

IInv == TypeOK /\ IsFiniteSet(rows) /\ Naming /\ RoomKept

\* The rows are counted: there are finitely many of them.
LEMMA RowsCounted ==
    ASSUME IsFiniteSet(rows)
    PROVE  Cardinality(rows) \in Nat
BY FS_CardinalityType

\* The types alone, inductive by themselves but for the row a request inserts.
LEMMA TypeInductive ==
    ASSUME TypeOK, IsFiniteSet(rows), Inserting, [Next]_vars
    PROVE  TypeOK'
<1> USE AbsentAssumption, BoundsAssumption DEF TypeOK, Labels, NextFile, GoTo
<1>1. CASE DeleteQuestion
    BY <1>1 DEF DeleteQuestion
<1>2. ASSUME NEW r \in Requests, Step(r) PROVE TypeOK'
    <2>1. CASE \E n \in 0 .. MaxFiles : AddQuestion(r, n)
        BY <2>1 DEF AddQuestion
    <2>2. CASE BeginUpload(r)
        BY <2>2 DEF BeginUpload
    <2>3. CASE CountImages(r)
        BY <2>3, RowsCounted DEF CountImages
    <2>4. CASE \E name \in Names, url \in {"presigned", "plain"} : PutObject(r, name, url)
        BY <2>4 DEF PutObject, Row
    <2>5. CASE InsertImage(r)
        BY <2>5 DEF InsertImage, Inserting
    <2>6. CASE InsertFails(r) \/ Rollback(r)
        BY <2>6 DEF InsertFails, Rollback
    <2>7. CASE \E img \in rows : BeginDelete(r, img)
        BY <2>7 DEF BeginDelete
    <2>8. CASE DeleteRow(r) \/ DeleteObject(r)
        BY <2>8 DEF DeleteRow, DeleteObject
    <2>9. CASE SkipFile(r) \/ Abort(r)
        BY <2>9 DEF SkipFile, Abort
    <2> QED BY <1>2, <2>1, <2>2, <2>3, <2>4, <2>5, <2>6, <2>7, <2>8, <2>9 DEF Step
<1>3. CASE UNCHANGED vars
    BY <1>3 DEF vars
<1> QED BY <1>1, <1>2, <1>3 DEF Next

-----------------------------------------------------------------------------
(* Rows and objects                                                        *)

\* An addition or upload inserts the row of the object it put.
LEMMA AddingNames ==
    ASSUME TypeOK, Naming, NEW r \in Requests,
           \/ \E n \in 0 .. MaxFiles : AddQuestion(r, n)
           \/ BeginUpload(r) \/ CountImages(r)
           \/ \E name \in Names, url \in {"presigned", "plain"} : PutObject(r, name, url)
           \/ InsertImage(r) \/ InsertFails(r) \/ Rollback(r)
    PROVE  Naming'
<1> USE AbsentAssumption DEF TypeOK, Labels, NextFile, GoTo, Naming, GivenOut,
        RowNamesObject, RowsDiffer, Inserting, Deleting, Removing, Row
<1>1. CASE \E n \in 0 .. MaxFiles : AddQuestion(r, n)
    BY <1>1 DEF AddQuestion
<1>2. CASE BeginUpload(r) \/ CountImages(r)
    BY <1>2 DEF BeginUpload, CountImages
<1>3. ASSUME NEW name \in Names, NEW url \in {"presigned", "plain"}, PutObject(r, name, url)
      PROVE  Naming'
    BY <1>3 DEF PutObject
<1>4. CASE InsertImage(r)
    BY <1>4 DEF InsertImage
<1>5. CASE InsertFails(r) \/ Rollback(r)
    BY <1>5 DEF InsertFails, Rollback
<1> QED BY <1>1, <1>2, <1>3, <1>4, <1>5

\* A deletion removes the object after its row.
LEMMA DeletingNames ==
    ASSUME TypeOK, Naming, NEW r \in Requests,
           \/ \E img \in rows : BeginDelete(r, img)
           \/ DeleteRow(r) \/ DeleteObject(r) \/ SkipFile(r) \/ Abort(r)
    PROVE  Naming'
<1> USE AbsentAssumption DEF TypeOK, Labels, NextFile, GoTo, Naming, GivenOut,
        RowNamesObject, RowsDiffer, Inserting, Deleting, Removing, Row
<1>1. ASSUME NEW img \in rows, BeginDelete(r, img) PROVE Naming'
    BY <1>1 DEF BeginDelete
<1>2. CASE DeleteRow(r)
    BY <1>2 DEF DeleteRow
<1>3. CASE DeleteObject(r)
    BY <1>3 DEF DeleteObject, NamedByBase
<1>4. CASE SkipFile(r) \/ Abort(r)
    BY <1>4 DEF SkipFile, Abort
<1> QED BY <1>1, <1>2, <1>3, <1>4

-----------------------------------------------------------------------------
(* The limit                                                               *)

\* Requests between count and insert are finitely many.
LEMMA UploadingCounted ==
    /\ IsFiniteSet(Uploading) /\ Cardinality(Uploading) \in Nat
    /\ Cardinality(Uploading) <= Cardinality(Requests) /\ Cardinality(Requests) \in Nat
BY FS_Subset, FS_CardinalityType, BoundsAssumption DEF Uploading

\* A request that stops uploading makes room for one image.
LEMMA LeaveUploading ==
    ASSUME TypeOK, NEW r \in Uploading, NEW label \in Labels \ {"put", "insert"}, GoTo(r, label)
    PROVE  Cardinality(Uploading') = Cardinality(Uploading) - 1
<1>1. Uploading' = Uploading \ {r}
    BY DEF Uploading, GoTo, TypeOK
<1> QED BY <1>1, UploadingCounted, FS_RemoveElement

\* After a file an addition goes on with the next one or ends.
LEMMA NextFileGoesOn ==
    ASSUME NEW r \in Requests, NextFile(r)
    PROVE  \E label \in {"count", "idle"} : GoTo(r, label)
BY DEF NextFile

\* With one element more a set has at most one more.
LEMMA OneMore ==
    ASSUME NEW S, IsFiniteSet(S), NEW e
    PROVE  /\ IsFiniteSet(S \cup {e}) /\ Cardinality(S \cup {e}) \in Nat
           /\ Cardinality(S \cup {e}) <= Cardinality(S) + 1
<1>1. Cardinality(S) \in Nat
    BY FS_CardinalityType
<1>2. /\ IsFiniteSet(S \cup {e})
      /\ Cardinality(S \cup {e}) = IF e \in S THEN Cardinality(S) ELSE Cardinality(S) + 1
    BY FS_AddElement, Zenon
<1> QED BY <1>1, <1>2

\* With an element less a set has no more.
LEMMA OneLess ==
    ASSUME NEW S, IsFiniteSet(S), NEW e
    PROVE  /\ IsFiniteSet(S \ {e}) /\ Cardinality(S \ {e}) \in Nat
           /\ Cardinality(S \ {e}) <= Cardinality(S)
<1>1. Cardinality(S) \in Nat
    BY FS_CardinalityType
<1>2. /\ IsFiniteSet(S \ {e})
      /\ Cardinality(S \ {e}) = IF e \in S THEN Cardinality(S) - 1 ELSE Cardinality(S)
    BY FS_RemoveElement, Zenon
<1>3. Cardinality(S \ {e}) \in Nat
    BY <1>2, FS_CardinalityType
<1> QED BY <1>1, <1>2, <1>3

LEMMA LimitInductive ==
    ASSUME TypeOK, IsFiniteSet(rows), RoomKept, [Next]_vars
    PROVE  IsFiniteSet(rows)' /\ RoomKept'
<1> USE BoundsAssumption, UploadingCounted, RowsCounted
<1>1. ASSUME UNCHANGED rows, Uploading' = Uploading PROVE IsFiniteSet(rows)' /\ RoomKept'
    BY <1>1 DEF RoomKept
<1>2. ASSUME UNCHANGED rows, NEW r \in Uploading, NEW label \in Labels \ {"put", "insert"},
             GoTo(r, label)
      PROVE  IsFiniteSet(rows)' /\ RoomKept'
    BY <1>2, LeaveUploading DEF RoomKept
<1>3. ASSUME NEW img, rows' = rows \ {img}, Uploading' = Uploading
      PROVE  IsFiniteSet(rows)' /\ RoomKept'
    <2>1. IsFiniteSet(rows') /\ Cardinality(rows') \in Nat /\ Cardinality(rows') <= Cardinality(rows)
        BY <1>3, OneLess
    <2> QED BY <1>3, <2>1 DEF RoomKept
<1>4. CASE DeleteQuestion
    <2>1. rows' = {} /\ Uploading' = Uploading
        BY <1>4 DEF DeleteQuestion, Uploading
    <2> QED BY <2>1, FS_EmptySet DEF RoomKept
<1>5. ASSUME NEW r \in Requests, Step(r) PROVE IsFiniteSet(rows)' /\ RoomKept'
    <2> USE <1>5 DEF TypeOK, Labels, GoTo, NextFile
    <2>1. CASE \E n \in 0 .. MaxFiles : AddQuestion(r, n)
        BY <2>1, <1>1 DEF AddQuestion, Uploading
    <2>2. CASE BeginUpload(r)
        BY <2>2, <1>1 DEF BeginUpload, Uploading
    <2>3. CASE CountImages(r)
        <3>1. CASE HasRoom(Cardinality(rows))
            <4>1. Uploading' \in SUBSET Requests
                BY DEF Uploading
            <4>2. Cardinality(Uploading') \in Nat /\ Cardinality(Uploading') <= Cardinality(Requests)
                BY <4>1, FS_Subset, FS_CardinalityType
            <4> QED BY <2>3, <3>1, <4>2 DEF CountImages, HasRoom, RoomKept
        <3>2. CASE ~HasRoom(Cardinality(rows))
            BY <2>3, <3>2, <1>1 DEF CountImages, Uploading
        <3> QED BY <3>1, <3>2
    <2>4. CASE \E name \in Names, url \in {"presigned", "plain"} : PutObject(r, name, url)
        BY <2>4, <1>1 DEF PutObject, Uploading
    <2>5. CASE InsertImage(r)
        <3>1. r \in Uploading /\ rows' = rows \cup {image[r]}
            BY <2>5 DEF InsertImage, Uploading
        <3>2. PICK label \in {"count", "idle"} : GoTo(r, label)
            BY <2>5, NextFileGoesOn DEF InsertImage
        <3>3. Cardinality(Uploading') = Cardinality(Uploading) - 1
            BY <3>1, <3>2, LeaveUploading
        <3>4. IsFiniteSet(rows') /\ Cardinality(rows') \in Nat /\ Cardinality(rows') <= Cardinality(rows) + 1
            BY <3>1, OneMore
        <3> QED BY <3>3, <3>4 DEF RoomKept
    <2>6. CASE InsertFails(r)
        <3>1. r \in Uploading /\ GoTo(r, "rollback") /\ UNCHANGED rows
            BY <2>6 DEF InsertFails, Uploading
        <3> QED BY <3>1, <1>2
    <2>7. CASE Rollback(r)
        BY <2>7, <1>1 DEF Rollback, Uploading
    <2>8. CASE \E img \in rows : BeginDelete(r, img)
        BY <2>8, <1>1 DEF BeginDelete, Uploading
    <2>9. CASE DeleteRow(r)
        BY <2>9, <1>3 DEF DeleteRow, Uploading
    <2>10. CASE DeleteObject(r)
        BY <2>10, <1>1 DEF DeleteObject, Uploading
    <2>11. CASE SkipFile(r) \/ Abort(r)
        <3>1. UNCHANGED rows /\ \E label \in {"count", "idle"} : GoTo(r, label)
            BY <2>11, NextFileGoesOn DEF SkipFile, Abort
        <3>2. CASE r \in Uploading
            BY <3>1, <3>2, <1>2
        <3>3. CASE r \notin Uploading
            BY <3>1, <3>3, <1>1 DEF Uploading
        <3> QED BY <3>2, <3>3
    <2> QED BY <2>1, <2>2, <2>3, <2>4, <2>5, <2>6, <2>7, <2>8, <2>9, <2>10, <2>11 DEF Step
<1>6. CASE UNCHANGED vars
    BY <1>6, <1>1 DEF vars, Uploading
<1> QED BY <1>4, <1>5, <1>6 DEF Next

-----------------------------------------------------------------------------

\* The inductive invariant holds always.
THEOREM Invariant == Spec => []IInv
<1>1. Init => IInv
    <2> SUFFICES ASSUME Init PROVE IInv
        OBVIOUS
    <2>1. rows = {} /\ Uploading = {}
        BY DEF Init, Uploading
    <2>2. IsFiniteSet(rows) /\ RoomKept
        BY <2>1, FS_EmptySet, UploadingCounted, BoundsAssumption DEF RoomKept
    <2>3. TypeOK
        BY AbsentAssumption DEF Init, TypeOK, Labels
    <2>4. Naming
        BY DEF Init, Naming, GivenOut, RowNamesObject, RowsDiffer, Inserting, Deleting, Removing
    <2> QED BY <2>2, <2>3, <2>4 DEF IInv
<1>2. IInv /\ [Next]_vars => IInv'
    <2> SUFFICES ASSUME IInv, [Next]_vars PROVE IInv'
        OBVIOUS
    <2> USE DEF IInv
    <2>1. TypeOK'
        BY TypeInductive DEF Naming
    <2>2. IsFiniteSet(rows)' /\ RoomKept'
        BY LimitInductive
    <2>3. Naming'
        <3>1. CASE DeleteQuestion
            BY <3>1 DEF DeleteQuestion, Naming, GivenOut, RowNamesObject, RowsDiffer,
               Inserting, Deleting, Removing
        <3>2. ASSUME NEW r \in Requests, Step(r) PROVE Naming'
            BY <3>2, AddingNames, DeletingNames DEF Step
        <3>3. CASE UNCHANGED vars
            BY <3>3 DEF vars, Naming, GivenOut, RowNamesObject, RowsDiffer,
               Inserting, Deleting, Removing
        <3> QED BY <3>1, <3>2, <3>3 DEF Next
    <2> QED BY <2>1, <2>2, <2>3
<1> QED BY <1>1, <1>2, PTL DEF Spec

\* Rows, objects and requests have the types QuestionImages gives them; AddQuestion's
\* files are never counted below 0.
THEOREM TypeCorrect == Spec => []TypeOK
<1>1. IInv => TypeOK
    BY DEF IInv
<1> QED BY <1>1, Invariant, PTL

\* A row never names an object that is not there, whatever fails half way and
\* whoever else uploads or deletes (AddQuestion, UploadQuestionImage,
\* DeleteQuestionImage).
THEOREM ImagesCanBeShown == Spec => []RowNamesObject
<1>1. IInv => RowNamesObject
    BY DEF IInv, Naming
<1> QED BY <1>1, Invariant, PTL

\* Counting before inserting without a lock exceeds the limit by at most one image
\* per other request.
THEOREM LimitAlmostKept == Spec => []LimitUpToRequests
<1>1. IInv => LimitUpToRequests
    BY RowsCounted, UploadingCounted, BoundsAssumption DEF IInv, RoomKept, LimitUpToRequests
<1> QED BY <1>1, Invariant, PTL

-----------------------------------------------------------------------------
(* The answers of an attempt                                               *)

Flying == {r \in Requests : draftPc[r] # "idle"}
Idx(r) == post[r].idx
Field(r) == post[r].field

\* Requests in flight carry one and the same post, that can be stored as it is.
OnePost ==
    \A r \in Flying :
        /\ post[r] \in Draft!PostOf
        /\ \A s \in Flying : post[s] = post[r]
        /\ Draft!Shown(Idx(r), Draft!Parsed(Field(r))) = Field(r)
        /\ post[r].kind = "finish" => draftPc[r] \in {"upsert", "render"}

\* A card nobody has touched shows what was last meant, ...
PageKept == (page # Absent /\ ~page.touched) => page.field = meant[page.idx]

\* ... so does an untouched post, and a touched one once it is written or once
\* a card has come back for one that was.
PostKept ==
    \A r \in Flying :
        \/ meant[Idx(r)] = Field(r)
        \/ /\ post[r].touched /\ draftPc[r] \notin {"key", "render"}
           /\ page # Absent => page.touched

\* What a navigation has read of the session is still there, and what it has
\* amended is written in turn to the session and to the row.
GotKept ==
    \A r \in Flying : post[r].kind = "navigate" =>
        /\ got[r][Idx(r)] = Draft!Parsed(Field(r))
        /\ \A q \in Draft!Questions \ {Idx(r)} : got[r][q] = draft[q]
        /\ draftPc[r] # "save" => draft[Idx(r)] = Draft!Parsed(Field(r))
        /\ draftPc[r] \in {"key", "render"} => answerRow[Idx(r)] = Draft!Parsed(Field(r))

\* Session and row differ only while a request is between writing the two.
Between(r) ==
    \/ post[r].kind = "navigate" /\ draftPc[r] = "upsert"
    \/ post[r].kind = "finish" /\ draftPc[r] = "render"
DraftKept ==
    page # Absent =>
        \A q \in Draft!Questions :
            \/ Draft!Shown(q, draft[q]) = Draft!Stored(q)
            \/ \E r \in Flying : Idx(r) = q /\ Between(r)

\* The answers key, where it was set, holds what is stored, until the row is
\* written again and while the key is not.
Unset(r) ==
    \/ post[r].kind = "navigate" /\ draftPc[r] = "key"
    \/ post[r].kind = "finish" /\ draftPc[r] = "render"
KeyKept ==
    (page # Absent /\ key # Absent) =>
        \A q \in Draft!Questions \ unkeyed :
            \/ Draft!Shown(q, key[q]) = Draft!Stored(q)
            \/ \E r \in Flying : Idx(r) = q /\ Unset(r)

Kept == /\ OnePost /\ Draft!TypedAnswersKept /\ PageKept /\ PostKept /\ GotKept
        /\ DraftKept /\ KeyKept

DraftIInv == Draft!TypeOK /\ (~excused => Kept)

USE DEF Draft!stores, Draft!GoTo, Draft!End

-----------------------------------------------------------------------------
(* Questions, fields and answers                                           *)

\* Draft counts with the same operators.
LEMMA SameCount ==
    ASSUME NEW S
    PROVE  /\ Draft!IsFiniteSet(S) <=> IsFiniteSet(S)
           /\ Draft!Cardinality(S) = Cardinality(S)
<1>1. Draft!IsFiniteSet(S) <=> IsFiniteSet(S)
    BY Zenon DEF Draft!IsFiniteSet, IsFiniteSet
<1>2. Draft!Cardinality(S) = Cardinality(S)
    BY Zenon, <1>1 DEF Draft!Cardinality, Cardinality
<1> QED BY <1>1, <1>2

\* Questions are numbered from 0.
LEMMA QuestionsNumbered ==
    /\ Draft!Cardinality(Draft!Questions) \in Nat \ {0}
    /\ Draft!Questions = 0 .. Draft!Cardinality(Draft!Questions) - 1
<1> DEFINE Q == Draft!Questions
<1>1. IsFiniteSet(Q) /\ Q # {} /\ Q = 0 .. Draft!Cardinality(Q) - 1
    BY DraftAssumption, SameCount DEF Draft!KindAssumption, Draft!Questions
<1>2. Cardinality(Q) \in Nat /\ Cardinality(Q) # 0
    BY <1>1, FS_CardinalityType, FS_EmptySet
<1> QED BY <1>1, <1>2, SameCount

\* An answer is a sequence of at most MaxGaps texts.
LEMMA AnswersAreShort ==
    Draft!Answers = {s \in Seq(Words) : Len(s) <= Draft!MaxGaps}
<1>1. Draft!Answers = UNION {[1 .. m -> Words] : m \in 0 .. 2}
    BY DEF Draft!Answers, Draft!MaxGaps, Draft!BoundedSeq, Draft!SeqOf
<1>2. ASSUME NEW s \in Draft!Answers PROVE s \in Seq(Words) /\ Len(s) <= 2
    <2>1. PICK m \in 0 .. 2 : s \in [1 .. m -> Words]
        BY <1>1
    <2> QED BY <2>1
<1>3. ASSUME NEW s \in Seq(Words), Len(s) <= 2 PROVE s \in Draft!Answers
    <2>1. Len(s) \in Nat /\ s \in [1 .. Len(s) -> Words]
        BY LenProperties
    <2> QED BY <1>1, <1>3, <2>1
<1> QED BY <1>2, <1>3 DEF Draft!MaxGaps

\* The card has at least one gap and shows of an answer what fits.
LEMMA ShownIsField ==
    ASSUME NEW q, NEW answer \in Draft!Answers
    PROVE  Draft!Shown(q, answer) \in Draft!Fields
<1>1. Draft!GapsOf(q) \in 1 .. 2
    BY DEF Draft!GapsOf, Draft!MaxGaps
<1>2. answer \in Seq(Words)
    BY AnswersAreShort
<1>3. Draft!Shown(q, answer) \in [1 .. Draft!GapsOf(q) -> Words \cup {Blank}]
    BY <1>1, <1>2 DEF Draft!Shown
<1> QED BY <1>1, <1>3 DEF Draft!Fields, Draft!MaxGaps

\* What is read of the gaps are texts: it stops at the first empty one.
LEMMA ParsedIsAnswer ==
    ASSUME NEW field \in Draft!Fields
    PROVE  Draft!Parsed(field) \in Draft!Answers
<1> DEFINE filled == {n \in 0 .. Len(field) : \A g \in 1 .. n : field[g] # Blank}
           n == CHOOSE n \in filled : \A m \in filled : m <= n
<1>1. PICK k \in 1 .. 2 : field \in [1 .. k -> Words \cup {Blank}]
    BY DEF Draft!Fields, Draft!MaxGaps
<1>2. Len(field) = k
    BY <1>1
<1>3. \E l \in filled : \A m \in filled : m <= l
    <2>1. CASE 2 \in filled
        BY <1>1, <1>2, <2>1
    <2>2. CASE 2 \notin filled /\ 1 \in filled
        BY <1>1, <1>2, <2>2
    <2>3. CASE 2 \notin filled /\ 1 \notin filled
        BY <1>1, <1>2, <2>3
    <2> QED BY <2>1, <2>2, <2>3
<1>4. n \in filled
    BY <1>3
<1>5. n \in 0 .. 2 /\ \A g \in 1 .. n : field[g] \in Words
    BY <1>1, <1>2, <1>4
<1> HIDE DEF n
<1>6. SubSeq(field, 1, n) \in Seq(Words) /\ Len(SubSeq(field, 1, n)) <= 2
    BY <1>5, SubSeqProperties
<1>7. Draft!Parsed(field) = SubSeq(field, 1, n)
    BY DEF Draft!Parsed, n
<1> QED BY <1>6, <1>7, AnswersAreShort DEF Draft!MaxGaps

\* No answer is the empty sequence, ...
LEMMA NoAnswersTyped ==
    << >> \in Draft!Answers /\ Draft!NoAnswers \in Draft!AnswerMap
BY AnswersAreShort DEF Draft!NoAnswers, Draft!AnswerMap, Draft!MaxGaps

\* ... and a card is of a question, with the gaps it has.
LEMMA CardIsPage ==
    ASSUME NEW q \in Draft!Questions, NEW answer \in Draft!Answers, NEW options \in BOOLEAN
    PROVE  Draft!CardWith(q, answer, options) \in Draft!Page
<1> DEFINE a == IF Kind[q] = "choice" /\ ~options THEN << >> ELSE answer
<1>1. a \in Draft!Answers
    BY NoAnswersTyped
<1>2. Draft!Shown(q, a) \in Draft!Fields
    BY <1>1, ShownIsField
<1> HIDE DEF a
<1>3. Draft!CardWith(q, answer, options)
        = [idx |-> q, options |-> options, touched |-> FALSE, field |-> Draft!Shown(q, a)]
    BY DEF Draft!CardWith, a
<1> QED BY <1>2, <1>3 DEF Draft!Page

\* Wherever a navigation goes, it arrives at a question.
LEMMA WrappedIsQuestion ==
    ASSUME NEW t \in Int
    PROVE  Draft!Wrapped(t) \in Draft!Questions
BY QuestionsNumbered DEF Draft!Wrapped

-----------------------------------------------------------------------------
(* Types                                                                   *)

\* A request posts the card it was sent from.
LEMMA SendTyped ==
    ASSUME Draft!TypeOK, NEW r \in Requests, NEW kind \in {"navigate", "finish"},
           NEW t \in Int, NEW label \in {"save", "upsert"}, Draft!Send(r, kind, t, label)
    PROVE  /\ post'[r] \in Draft!PostOf
           /\ post' \in [Requests -> Draft!PostOf \cup {Absent}]
           /\ draftPc' \in [Requests -> {"idle", "save", "upsert", "key", "render"}]
           /\ excused' \in BOOLEAN
<1>1. Draft!Wrapped(t) \in Draft!Questions
    BY WrappedIsQuestion
<1>2. page \in Draft!Page
    BY DEF Draft!Send, Draft!TypeOK
<1>3. post'[r] = [kind |-> kind, idx |-> page.idx, target |-> Draft!Wrapped(t),
                  field |-> page.field, touched |-> page.touched]
    BY DEF Draft!Send, Draft!TypeOK
<1>4. post'[r] \in Draft!PostOf
    BY <1>1, <1>2, <1>3 DEF Draft!PostOf, Draft!Page
<1>5. post' \in [Requests -> Draft!PostOf \cup {Absent}]
    BY <1>3, <1>4 DEF Draft!Send, Draft!TypeOK
<1>6. draftPc' \in [Requests -> {"idle", "save", "upsert", "key", "render"}]
    BY DEF Draft!Send, Draft!TypeOK
<1>7. excused' \in BOOLEAN
    BY Zenon DEF Draft!Send, Draft!TypeOK
<1> QED BY <1>4, <1>5, <1>6, <1>7

\* The initial state has the types.
LEMMA InitTyped == Draft!Init => Draft!TypeOK
<1> SUFFICES ASSUME Draft!Init PROVE Draft!TypeOK
    OBVIOUS
<1>1. \A q \in Draft!Questions : Draft!Shown(q, << >>) \in Draft!Fields
    BY NoAnswersTyped, ShownIsField
<1>2. key \in Draft!AnswerMap \cup {Absent}
    <2>1. \A x \in Words : << x >> \in Draft!Answers
        BY AnswersAreShort DEF Draft!MaxGaps
    <2>2. \A x \in Words : [q \in Draft!Questions |-> << x >>] \in Draft!AnswerMap
        BY <2>1 DEF Draft!AnswerMap
    <2> QED BY <2>2, NoAnswersTyped DEF Draft!Init
<1>3. page \in Draft!Page
    <2>1. 0 \in Draft!Questions
        BY QuestionsNumbered
    <2>2. (IF key = Absent THEN << >> ELSE key[0]) \in Draft!Answers
        BY <1>2, <2>1, NoAnswersTyped DEF Draft!AnswerMap
    <2> QED BY <2>1, <2>2, CardIsPage DEF Draft!Init
<1> QED BY <1>1, <1>2, <1>3, NoAnswersTyped DEF Draft!Init, Draft!TypeOK

\* Types are kept, as long as a request in flight carries a post.
LEMMA NextTyped ==
    ASSUME Draft!TypeOK, ~excused => OnePost, [Draft!Next]_(Draft!vars)
    PROVE  Draft!TypeOK'
<1> USE DEF Draft!TypeOK
<1>1. ASSUME NEW r \in Requests, ~excused, Draft!Step(r) PROVE Draft!TypeOK'
    <2>1. ASSUME draftPc[r] # "idle" PROVE post[r] \in Draft!PostOf
        BY <1>1, <2>1 DEF OnePost, Flying
    <2>2. ASSUME NEW t \in -1 .. Draft!Cardinality(Draft!Questions), Draft!Navigate(r, t)
          PROVE  Draft!TypeOK'
        <3>1. page \in Draft!Page /\ page.idx \in Draft!Questions /\ page.field \in Draft!Fields
            BY <2>2 DEF Draft!Navigate, Draft!Send, Draft!Page
        <3>2. Draft!WithAnswer(draft, page.idx, Draft!Parsed(page.field)) \in Draft!AnswerMap
            BY <3>1, ParsedIsAnswer DEF Draft!WithAnswer, Draft!AnswerMap
        <3>3. t \in Int
            BY QuestionsNumbered
        <3> QED BY <2>2, <3>2, <3>3, SendTyped DEF Draft!Navigate, Draft!Send
    <2>3. CASE Draft!Finish(r)
        <3>1. page.idx \in Int
            BY <2>3, QuestionsNumbered DEF Draft!Finish
        <3> QED BY <2>3, <3>1, SendTyped DEF Draft!Finish, Draft!Send
    <2>4. CASE Draft!SaveDraft(r) \/ Draft!SetKey(r)
        <3>1. Draft!SetKey(r) => post[r].idx \in Draft!Questions
            BY <2>1 DEF Draft!SetKey, Draft!PostOf
        <3> QED BY <2>4, <3>1 DEF Draft!SaveDraft, Draft!SetKey
    <2>5. CASE Draft!Upsert(r)
        <3>1. post[r].idx \in Draft!Questions /\ post[r].field \in Draft!Fields
            BY <2>1, <2>5 DEF Draft!Upsert, Draft!PostOf
        <3> QED BY <2>5, <3>1, ParsedIsAnswer DEF Draft!Upsert, Draft!Written
    <2>6. CASE Draft!Render(r)
        <3>1. post[r].target \in Draft!Questions
            BY <2>1, <2>6 DEF Draft!Render, Draft!PostOf
        <3>2. page' \in Draft!Page \cup {Absent}
            BY <2>6, <3>1, CardIsPage DEF Draft!Render, Draft!AnswerMap
        <3> QED BY <2>6, <3>2, NoAnswersTyped DEF Draft!Render
    <2>7. CASE Draft!Fail(r) \/ Draft!LoseResponse(r)
        BY <2>7, NoAnswersTyped DEF Draft!Fail, Draft!LoseResponse
    <2> QED BY <1>1, <2>2, <2>3, <2>4, <2>5, <2>6, <2>7 DEF Draft!Step
<1>2. ASSUME NEW g \in 1 .. Draft!MaxGaps, NEW x \in Words \cup {Blank}, Draft!Type(g, x)
      PROVE  Draft!TypeOK'
    <2>1. page \in Draft!Page /\ page.field \in Draft!Fields
        BY <1>2 DEF Draft!Type, Draft!Page
    <2>2. [page.field EXCEPT ![g] = x] \in Draft!Fields
        BY <2>1 DEF Draft!Fields
    <2>3. [page EXCEPT !.field[g] = x, !.touched = TRUE]
            = [page EXCEPT !.field = [page.field EXCEPT ![g] = x], !.touched = TRUE]
        OBVIOUS
    <2>4. [page EXCEPT !.field = [page.field EXCEPT ![g] = x], !.touched = TRUE] \in Draft!Page
        BY <2>1, <2>2 DEF Draft!Page
    <2> QED BY <1>2, <2>3, <2>4 DEF Draft!Type
<1>3. ASSUME NEW q \in Draft!Questions, NEW htmx \in BOOLEAN, Draft!Load(q, htmx)
      PROVE  Draft!TypeOK'
    <2>1. (IF key = Absent THEN << >> ELSE key[q]) \in Draft!Answers
        BY NoAnswersTyped DEF Draft!AnswerMap
    <2>2. page' \in Draft!Page
        BY <1>3, <2>1, CardIsPage DEF Draft!Load
    <2>3. excused' \in BOOLEAN
        BY <1>3, Zenon DEF Draft!Load
    <2> QED BY <1>3, <2>2, <2>3 DEF Draft!Load
<1>4. CASE Draft!ExpireKey
    BY <1>4 DEF Draft!ExpireKey
<1>5. CASE UNCHANGED Draft!vars
    BY <1>5 DEF Draft!vars
<1> QED BY <1>1, <1>2, <1>3, <1>4, <1>5 DEF Draft!Next

-----------------------------------------------------------------------------
(* The answers                                                             *)

\* The empty answers are kept, unless the keys are of the attempt before.
LEMMA InitKept == Draft!Init /\ ~excused => Kept
<1> SUFFICES ASSUME Draft!Init, ~excused PROVE Kept
    OBVIOUS
<1>1. 0 \in Draft!Questions
    BY QuestionsNumbered
<1>2. Flying = {}
    BY DEF Draft!Init, Flying
<1>3. \A q \in Draft!Questions : Draft!Stored(q) = meant[q] /\ draft[q] = << >>
    BY DEF Draft!Init, Draft!Stored, Draft!NoAnswers
<1>4. page.field = meant[page.idx] /\ page.idx = 0
    <2>1. (IF key = Absent THEN << >> ELSE key[0]) = << >>
        BY <1>1, Zenon DEF Draft!Init, Draft!NoAnswers
    <2> QED BY <1>1, <2>1 DEF Draft!Init, Draft!CardWith
<1>5. \A q \in Draft!Questions : Draft!Shown(q, draft[q]) = Draft!Stored(q)
    BY <1>3 DEF Draft!Init, Draft!Stored
<1>6. KeyKept
    <2>1. key # Absent => \A q \in Draft!Questions : key[q] = << >>
        BY DEF Draft!Init, Draft!NoAnswers
    <2> QED BY <1>3, <1>5, <2>1 DEF KeyKept
<1> QED BY <1>2, <1>3, <1>4, <1>5, <1>6 DEF Kept, OnePost, Draft!TypedAnswersKept, PageKept,
            PostKept, GotKept, DraftKept

\* What the student types shows on the card alone.
LEMMA TypeKeeps ==
    ASSUME Draft!TypeOK, Kept, NEW g, NEW x, Draft!Type(g, x)
    PROVE  Kept'
<1>1. page' # Absent => page # Absent
    BY DEF Draft!Type
<1>2. page # Absent /\ (page' # Absent => page'.touched)
    BY DEF Draft!Type, Draft!TypeOK, Draft!Page
<1>3. UNCHANGED <<draft, key, answerRow, draftPc, post, got, meant, unkeyed, excused>>
    BY DEF Draft!Type
<1> USE DEF Kept
<1>4. Flying' = Flying /\ \A q : Draft!Stored(q)' = Draft!Stored(q)
    BY <1>3 DEF Flying, Draft!Stored
<1>5. OnePost' /\ GotKept'
    BY <1>3, <1>4 DEF OnePost, GotKept, Idx, Field
<1>6. Draft!TypedAnswersKept'
    BY <1>3, <1>4 DEF Draft!TypedAnswersKept
<1>7. PageKept'
    BY <1>2 DEF PageKept
<1>8. PostKept'
    BY <1>2, <1>3, <1>4 DEF PostKept, Idx, Field
<1>9. DraftKept' /\ KeyKept'
    BY <1>2, <1>3, <1>4 DEF DraftKept, KeyKept, Idx, Between, Unset
<1> QED BY <1>5, <1>6, <1>7, <1>8, <1>9

\* A request that is sent carries the card, as those in flight do.
LEMMA SendKeeps ==
    ASSUME Draft!TypeOK, Kept, ~excused, ~excused', NEW r \in Requests,
           \/ \E t \in -1 .. Draft!Cardinality(Draft!Questions) : Draft!Navigate(r, t)
           \/ Draft!Finish(r)
    PROVE  Kept'
<1> USE DEF Kept
<1>1. PICK kind \in {"navigate", "finish"}, t \in Int, label \in {"save", "upsert"} :
        /\ Draft!Send(r, kind, t, label)
        /\ kind = "finish" <=> label = "upsert"
        /\ got' = IF kind = "finish" THEN got
                  ELSE [got EXCEPT ![r] =
                            Draft!WithAnswer(draft, page.idx, Draft!Parsed(page.field))]
    <2>1. CASE Draft!Finish(r)
        <3>1. page \in Draft!Page /\ page.idx \in Int
            BY <2>1, QuestionsNumbered DEF Draft!Finish, Draft!TypeOK, Draft!Page
        <3> QED BY <2>1, <3>1 DEF Draft!Finish
    <2>2. ASSUME NEW t \in -1 .. Draft!Cardinality(Draft!Questions), Draft!Navigate(r, t)
          PROVE  /\ Draft!Send(r, "navigate", t, "save") /\ t \in Int
                 /\ got' = [got EXCEPT ![r] =
                            Draft!WithAnswer(draft, page.idx, Draft!Parsed(page.field))]
        BY <2>2, QuestionsNumbered DEF Draft!Navigate
    <2> QED BY <2>1, <2>2
<1>2. /\ page # Absent /\ page \in Draft!Page /\ r \notin Flying
      /\ UNCHANGED <<draft, key, answerRow, page, meant, unkeyed>>
    BY <1>1 DEF Draft!Send, Draft!TypeOK, Flying
<1>3. Flying' = Flying \cup {r} /\ draftPc'[r] = label
    BY <1>1, <1>2 DEF Draft!Send, Draft!TypeOK, Flying
<1>4. post'[r].kind = kind /\ post'[r].idx = page.idx /\ post'[r].field = page.field
        /\ post'[r].touched = page.touched /\ post'[r] \in Draft!PostOf
    <2>1. post'[r] \in Draft!PostOf
        BY <1>1, SendTyped
    <2>2. post'[r] = [kind |-> kind, idx |-> page.idx, target |-> Draft!Wrapped(t),
                      field |-> page.field, touched |-> page.touched]
        BY <1>1 DEF Draft!Send, Draft!TypeOK
    <2> QED BY <2>1, <2>2
<1>5. \A s \in Flying : post[s] = post'[r] /\ post'[s] = post[s] /\ draftPc'[s] = draftPc[s]
        /\ got'[s] = got[s]
    <2>1. \A s \in Flying : post[s] = post'[r]
        BY <1>1 DEF Draft!Send, Draft!InFlight, Flying
    <2> QED BY <1>1, <1>2, <2>1 DEF Draft!Send, Draft!TypeOK, Flying
<1>6. Draft!Shown(page.idx, Draft!Parsed(page.field)) = page.field
    BY <1>1 DEF Draft!Send
<1>7. \A q : Draft!Stored(q)' = Draft!Stored(q)
    BY <1>2 DEF Draft!Stored
<1>8. OnePost'
    <2>1. ASSUME NEW s \in Flying' PROVE post'[s] = post'[r]
        BY <1>3, <1>5
    <2>2. ASSUME NEW s \in Flying'
          PROVE  post'[s].kind = "finish" => draftPc'[s] \in {"upsert", "render"}
        BY <1>1, <1>3, <1>4, <1>5 DEF OnePost
    <2>3. ASSUME NEW s \in Flying'
          PROVE  Draft!Shown(post'[s].idx, Draft!Parsed(post'[s].field)) = post'[s].field
        BY <1>4, <1>6, <2>1
    <2> QED BY <1>4, <2>1, <2>2, <2>3 DEF OnePost, Idx, Field
<1>9. Draft!TypedAnswersKept' /\ PageKept'
    BY <1>2, <1>7 DEF Draft!TypedAnswersKept, PageKept
<1>10. PostKept'
    <2>1. meant[page.idx] = page.field \/ page.touched
        BY <1>2 DEF PageKept
    <2>2. ASSUME NEW s \in Flying PROVE PostKept!(s)'
        BY <1>2, <1>5, <2>2 DEF PostKept, Idx, Field
    <2> QED BY <1>1, <1>2, <1>3, <1>4, <2>1, <2>2 DEF PostKept, Idx, Field
<1>11. GotKept'
    <2>1. ASSUME NEW s \in Flying PROVE GotKept!(s)'
        BY <1>2, <1>5, <2>1 DEF GotKept, Idx, Field
    <2>2. ASSUME kind = "navigate" PROVE GotKept!(r)'
        <3>1. got'[r] = [draft EXCEPT ![page.idx] = Draft!Parsed(page.field)]
            BY <1>1, <2>2 DEF Draft!WithAnswer, Draft!TypeOK
        <3>2. page.idx \in Draft!Questions /\ draft \in [Draft!Questions -> Draft!Answers]
            BY <1>2 DEF Draft!Page, Draft!TypeOK, Draft!AnswerMap
        <3>3. /\ got'[r][page.idx] = Draft!Parsed(page.field)
              /\ \A q \in Draft!Questions \ {page.idx} : got'[r][q] = draft'[q]
            BY <1>2, <3>1, <3>2
        <3>4. draftPc'[r] = "save"
            BY <1>1, <1>3, <2>2
        <3> QED BY <1>4, <3>3, <3>4 DEF Idx, Field
    <2> QED BY <1>1, <1>3, <1>4, <2>1, <2>2 DEF GotKept
<1>12. DraftKept' /\ KeyKept'
    BY <1>2, <1>3, <1>5, <1>7 DEF DraftKept, KeyKept, Idx, Between, Unset
<1> QED BY <1>8, <1>9, <1>10, <1>11, <1>12

\* A card that is loaded while nothing is in flight shows what is stored: what
\* the key holds, or no answer when there is none.
LEMMA LoadKeeps ==
    ASSUME Draft!TypeOK, Kept, ~excused, ~excused', NEW q \in Draft!Questions,
           NEW htmx \in BOOLEAN, Draft!Load(q, htmx)
    PROVE  Kept'
<1> USE DEF Kept
<1> DEFINE answer == IF key = Absent THEN << >> ELSE key[q]
<1>1. /\ page # Absent /\ Flying = {} /\ q \notin unkeyed
      /\ Draft!Answered(q) => key # Absent /\ ~(Kind[q] = "choice" /\ ~htmx)
      /\ page' = Draft!CardWith(q, answer, htmx)
      /\ UNCHANGED <<draft, key, answerRow, draftPc, post, got, meant, unkeyed>>
    BY DEF Draft!Load, Draft!InFlight, Flying
<1>2. Flying' = Flying /\ \A p : Draft!Stored(p)' = Draft!Stored(p)
    BY <1>1 DEF Flying, Draft!Stored
<1>3. /\ page'.idx = q
      /\ page'.field = Draft!Shown(q, IF Kind[q] = "choice" /\ ~htmx THEN << >> ELSE answer)
    BY <1>1 DEF Draft!CardWith
<1>4. key # Absent => Draft!Shown(q, key[q]) = Draft!Stored(q)
    BY <1>1 DEF KeyKept
<1>5. ~Draft!Answered(q) => Draft!Stored(q) = Draft!Shown(q, << >>)
    BY DEF Draft!Answered, Draft!Stored
<1>6. page'.field = Draft!Stored(q)
    BY <1>1, <1>3, <1>4, <1>5
<1>7. OnePost' /\ PostKept' /\ GotKept'
    BY <1>1, <1>2 DEF OnePost, PostKept, GotKept
<1>8. Draft!TypedAnswersKept' /\ PageKept'
    BY <1>1, <1>2, <1>3, <1>6 DEF Draft!TypedAnswersKept, PageKept
<1>9. DraftKept' /\ KeyKept'
    BY <1>1, <1>2 DEF DraftKept, KeyKept
<1> QED BY <1>7, <1>8, <1>9

\* Saving the session: what all requests in flight have read and amended.
LEMMA SaveDraftKeeps ==
    ASSUME Draft!TypeOK, Kept, NEW r \in Requests, Draft!SaveDraft(r)
    PROVE  Kept'
<1> USE DEF Kept
<1>1. /\ draftPc[r] = "save" /\ draftPc' = [draftPc EXCEPT ![r] = "upsert"] /\ draft' = got[r]
      /\ UNCHANGED <<key, answerRow, page, post, got, meant, unkeyed, excused>>
    BY DEF Draft!SaveDraft
<1>2. Flying' = Flying /\ r \in Flying /\ draftPc'[r] = "upsert"
        /\ \A s \in Flying \ {r} : draftPc'[s] = draftPc[s]
    BY <1>1 DEF Flying, Draft!TypeOK
<1>3. \A q : Draft!Stored(q)' = Draft!Stored(q)
    BY <1>1 DEF Draft!Stored
<1>4. post[r].kind = "navigate" /\ post[r] \in Draft!PostOf /\ \A s \in Flying : post[s] = post[r]
    BY <1>1, <1>2 DEF OnePost, Draft!PostOf
<1>5. /\ draft'[Idx(r)] = Draft!Parsed(Field(r))
      /\ \A q \in Draft!Questions \ {Idx(r)} : draft'[q] = draft[q]
    BY <1>1, <1>2, <1>4 DEF GotKept
<1>6. OnePost'
    BY <1>1, <1>2, <1>4 DEF OnePost, Idx, Field
<1>7. Draft!TypedAnswersKept' /\ PageKept'
    BY <1>1, <1>3 DEF Draft!TypedAnswersKept, PageKept
<1>8. PostKept'
    BY <1>1, <1>2 DEF PostKept, Idx, Field
<1>9. GotKept'
    <2>1. ASSUME NEW s \in Flying
          PROVE  /\ got[s][Idx(s)] = Draft!Parsed(Field(s))
                 /\ \A q \in Draft!Questions \ {Idx(s)} : got[s][q] = draft'[q]
                 /\ draft'[Idx(s)] = Draft!Parsed(Field(s))
                 /\ draftPc'[s] \in {"key", "render"}
                        => answerRow[Idx(s)] = Draft!Parsed(Field(s))
        BY <1>2, <1>4, <1>5 DEF GotKept, Idx, Field
    <2> QED BY <1>1, <1>2, <2>1 DEF GotKept, Idx, Field
<1>10. DraftKept'
    <2>1. \A q \in Draft!Questions \ {Idx(r)} :
            page # Absent => Draft!Shown(q, draft'[q]) = Draft!Stored(q)
        BY <1>4, <1>5 DEF DraftKept, Idx
    <2>2. Idx(r)' = Idx(r) /\ Between(r)'
        BY <1>1, <1>2, <1>4 DEF Idx, Between
    <2> QED BY <1>1, <1>2, <1>3, <2>1, <2>2 DEF DraftKept
<1>11. KeyKept'
    <2>1. \A s \in Flying : Unset(s) => s # r
        BY <1>1, <1>4 DEF Unset
    <2>2. \A s \in Flying : Unset(s) => Unset(s)' /\ Idx(s)' = Idx(s)
        BY <1>1, <1>2, <2>1 DEF Unset, Idx
    <2> QED BY <1>1, <1>2, <1>3, <2>2 DEF KeyKept
<1> QED BY <1>6, <1>7, <1>8, <1>9, <1>10, <1>11

\* Writing the row: of the answer as it was typed, or as it was stored before.
LEMMA UpsertKeeps ==
    ASSUME Draft!TypeOK, Kept, ~excused, NEW r \in Requests, Draft!Upsert(r)
    PROVE  Kept'
<1> USE DEF Kept
<1> DEFINE next == IF post[r].kind = "finish" THEN "render" ELSE "key"
<1>0. PICK i \in Draft!Questions, f \in Draft!Fields :
        post[r] \in Draft!PostOf /\ i = post[r].idx /\ f = post[r].field
    BY DEF Draft!Upsert, OnePost, Flying, Draft!PostOf
<1>1. /\ draftPc[r] = "upsert" /\ draftPc' = [draftPc EXCEPT ![r] = next]
      /\ answerRow' = [answerRow EXCEPT ![i] = Draft!Parsed(f)]
      /\ meant' = IF post[r].touched THEN [meant EXCEPT ![i] = f] ELSE meant
      /\ UNCHANGED <<draft, key, page, post, got, unkeyed, excused>>
    BY <1>0 DEF Draft!Upsert, Draft!Written
<1>2. Flying' = Flying /\ r \in Flying /\ draftPc'[r] = next
        /\ \A s \in Flying \ {r} : draftPc'[s] = draftPc[s]
    BY <1>1 DEF Flying, Draft!TypeOK
<1>3. \A s \in Flying : post[s] = post[r] /\ Idx(s) = i /\ Field(s) = f
    BY <1>0, <1>2 DEF OnePost, Idx, Field
<1>4. answerRow'[i] = Draft!Parsed(f) /\ \A q \in Draft!Questions \ {i} : answerRow'[q] = answerRow[q]
    BY <1>1 DEF Draft!TypeOK
<1>5. /\ Draft!Stored(i)' = f
      /\ \A q \in Draft!Questions \ {i} : Draft!Stored(q)' = Draft!Stored(q)
    <2>1. Draft!Parsed(f) # Absent
        BY ParsedIsAnswer, DraftAssumption DEF Draft!AbsentAssumption
    <2>2. Draft!Shown(i, Draft!Parsed(f)) = f
        BY <1>2, <1>3 DEF OnePost
    <2> QED BY <1>4, <2>1, <2>2 DEF Draft!Stored
<1>6. meant'[i] = f /\ \A q \in Draft!Questions \ {i} : meant'[q] = meant[q]
    BY <1>0, <1>1, <1>2, <1>3 DEF PostKept, Draft!TypeOK
<1>7. OnePost'
    BY <1>0, <1>1, <1>2, <1>3 DEF OnePost, Idx, Field, Draft!PostOf
<1>8. Draft!TypedAnswersKept'
    BY <1>5, <1>6 DEF Draft!TypedAnswersKept
<1>9. PageKept'
    <2>1. ASSUME page # Absent, ~page.touched PROVE page.field = meant'[page.idx]
        <3>1. page.field = meant[page.idx] /\ page.idx \in Draft!Questions
            BY <2>1 DEF PageKept, Draft!TypeOK, Draft!Page
        <3>2. meant[i] = f
            BY <1>2, <1>3, <2>1 DEF PostKept
        <3> QED BY <1>6, <3>1, <3>2
    <2> QED BY <1>1, <2>1 DEF PageKept
<1>10. PostKept'
    BY <1>1, <1>2, <1>3, <1>6 DEF PostKept, Idx, Field
<1>11. GotKept'
    <2>1. ASSUME NEW s \in Flying, post[s].kind = "navigate"
          PROVE  /\ got[s][i] = Draft!Parsed(f)
                 /\ \A q \in Draft!Questions \ {i} : got[s][q] = draft[q]
                 /\ draftPc'[s] # "save" => draft[i] = Draft!Parsed(f)
        BY <1>1, <1>2, <1>3, <2>1 DEF GotKept
    <2> QED BY <1>1, <1>2, <1>3, <1>4, <2>1 DEF GotKept, Idx, Field
<1>12. DraftKept'
    <2>1. \A q \in Draft!Questions \ {i} :
            page # Absent => Draft!Shown(q, draft[q]) = Draft!Stored(q)'
        BY <1>3, <1>5 DEF DraftKept, Idx
    <2>2. CASE post[r].kind = "finish"
        BY <1>1, <1>2, <1>3, <2>1, <2>2 DEF DraftKept, Idx, Between
    <2>3. CASE post[r].kind = "navigate"
        <3>1. draft[i] = Draft!Parsed(f)
            BY <1>1, <1>2, <1>3, <2>3 DEF GotKept
        <3>2. Draft!Shown(i, draft[i]) = Draft!Stored(i)'
            BY <1>2, <1>3, <1>5, <3>1 DEF OnePost
        <3> QED BY <1>1, <2>1, <3>2 DEF DraftKept
    <2> QED BY <1>0, <2>2, <2>3 DEF Draft!PostOf
<1>13. KeyKept'
    <2>1. r \in Flying' /\ Idx(r)' = i /\ Unset(r)'
        BY <1>0, <1>1, <1>2, <1>3 DEF Idx, Unset, Draft!PostOf
    <2>2. ASSUME page # Absent, key # Absent, NEW q \in Draft!Questions \ unkeyed, q # i
          PROVE  Draft!Shown(q, key[q]) = Draft!Stored(q)'
        BY <1>3, <1>5, <2>2 DEF KeyKept
    <2> QED BY <1>1, <2>1, <2>2 DEF KeyKept
<1> QED BY <1>7, <1>8, <1>9, <1>10, <1>11, <1>12, <1>13

\* Setting the key, to what the session and the rows hold by now, or failing to.
LEMMA SetKeyKeeps ==
    ASSUME Draft!TypeOK, Kept, NEW r \in Requests, Draft!SetKey(r)
    PROVE  Kept'
<1> USE DEF Kept
<1>1. /\ draftPc[r] = "key" /\ draftPc' = [draftPc EXCEPT ![r] = "render"]
      /\ UNCHANGED <<draft, answerRow, page, post, got, meant, excused>>
    BY DEF Draft!SetKey
<1>2. Flying' = Flying /\ r \in Flying /\ draftPc'[r] = "render"
        /\ \A s \in Flying \ {r} : draftPc'[s] = draftPc[s]
    BY <1>1 DEF Flying, Draft!TypeOK
<1>3. \A q : Draft!Stored(q)' = Draft!Stored(q)
    BY <1>1 DEF Draft!Stored
<1>4. OnePost' /\ PostKept' /\ GotKept'
    BY <1>1, <1>2 DEF OnePost, PostKept, GotKept, Idx, Field
<1>5. Draft!TypedAnswersKept' /\ PageKept'
    BY <1>1, <1>3 DEF Draft!TypedAnswersKept, PageKept
<1>6. DraftKept'
    BY <1>1, <1>2, <1>3 DEF DraftKept, Idx, Between
<1>7. KeyKept'
    <2>1. \A s \in Flying : Idx(s) = Idx(r)
        BY <1>2 DEF OnePost, Idx
    <2>2. CASE key' = got[r]
        <3>1. ASSUME page # Absent, NEW q \in Draft!Questions
              PROVE  Draft!Shown(q, key'[q]) = Draft!Stored(q)'
            <4>1. post[r].kind = "navigate"
                BY <1>1, <1>2 DEF OnePost, Draft!PostOf
            <4>2. CASE q = Idx(r)
                <5>1. got[r][q] = Draft!Parsed(Field(r)) /\ answerRow[q] = Draft!Parsed(Field(r))
                    BY <1>1, <1>2, <4>1, <4>2 DEF GotKept
                <5>2. Draft!Parsed(Field(r)) # Absent
                    BY <1>2, ParsedIsAnswer, DraftAssumption
                       DEF OnePost, Draft!PostOf, Field, Draft!AbsentAssumption
                <5> QED BY <1>3, <2>2, <5>1, <5>2 DEF Draft!Stored
            <4>3. CASE q # Idx(r)
                <5>1. got[r][q] = draft[q]
                    BY <1>2, <4>1, <4>3 DEF GotKept
                <5>2. Draft!Shown(q, draft[q]) = Draft!Stored(q)
                    BY <2>1, <3>1, <4>3 DEF DraftKept
                <5> QED BY <1>3, <2>2, <5>1, <5>2
            <4> QED BY <4>2, <4>3
        <3> QED BY <1>1, <3>1 DEF KeyKept
    <2>3. CASE UNCHANGED key /\ unkeyed' = unkeyed \cup {Idx(r)}
        <3>1. ASSUME page # Absent, key # Absent, NEW q \in Draft!Questions \ unkeyed'
              PROVE  Draft!Shown(q, key[q]) = Draft!Stored(q)
            BY <2>1, <2>3, <3>1 DEF KeyKept
        <3> QED BY <1>1, <1>3, <2>3, <3>1 DEF KeyKept
    <2> QED BY <2>2, <2>3 DEF Draft!SetKey, Idx
<1> QED BY <1>4, <1>5, <1>6, <1>7

\* A request that ends leaves the others as they are.
LEMMA EndLeaves ==
    ASSUME Draft!TypeOK, NEW r \in Requests, Draft!End(r)
    PROVE  /\ Flying' = Flying \ {r}
           /\ \A s \in Flying' : /\ draftPc'[s] = draftPc[s] /\ post'[s] = post[s]
                                 /\ got'[s] = got[s]
BY DEF Flying, Draft!TypeOK

\* What is true of all requests in flight is true of those that are left.
LEMMA EndKeeps ==
    ASSUME Draft!TypeOK, Kept, NEW r \in Requests, Draft!End(r),
           UNCHANGED <<draft, key, answerRow, meant, excused>>
    PROVE  /\ OnePost' /\ Draft!TypedAnswersKept' /\ GotKept'
           /\ UNCHANGED page => PageKept' /\ PostKept'
<1> USE DEF Kept
<1>1. /\ Flying' = Flying \ {r}
      /\ \A s \in Flying' : /\ draftPc'[s] = draftPc[s] /\ post'[s] = post[s]
                            /\ got'[s] = got[s]
    BY EndLeaves
<1> HIDE DEF Draft!End
<1>2. OnePost'
    BY <1>1 DEF OnePost, Idx, Field
<1>3. Draft!TypedAnswersKept'
    BY DEF Draft!TypedAnswersKept, Draft!Stored
<1>4. GotKept'
    BY <1>1 DEF GotKept, Idx, Field
<1>5. UNCHANGED page => PageKept' /\ PostKept'
    BY <1>1 DEF PageKept, PostKept, Idx, Field
<1> QED BY <1>2, <1>3, <1>4, <1>5

\* The card that comes back shows what is stored of the question it is of.
LEMMA RenderKeeps ==
    ASSUME Draft!TypeOK, Kept, ~excused, NEW r \in Requests, Draft!Render(r)
    PROVE  Kept'
<1> USE DEF Kept
<1>1. /\ draftPc[r] = "render" /\ r \in Flying /\ Draft!End(r)
      /\ UNCHANGED <<draft, key, answerRow, meant, unkeyed, excused>>
    BY DEF Draft!Render, Flying
<1>2. OnePost' /\ Draft!TypedAnswersKept' /\ GotKept'
    BY <1>1, EndKeeps
<1>3. /\ Flying' = Flying \ {r}
        /\ \A s \in Flying' : draftPc'[s] = draftPc[s] /\ post'[s] = post[s]
    BY <1>1, EndLeaves
<1>4. CASE page' = Absent
    <2>1. PageKept' /\ DraftKept' /\ KeyKept'
        BY <1>4 DEF PageKept, DraftKept, KeyKept
    <2>2. PostKept'
        BY <1>1, <1>4, <1>3 DEF PostKept, Idx, Field
    <2> QED BY <1>2, <2>1, <2>2
<1>5. CASE page' # Absent
    <2> DEFINE t == post[r].target
    <2>1. /\ post[r].kind = "navigate" /\ page # Absent
          /\ page' = Draft!CardWith(t, got[r][t], TRUE)
          /\ t \in Draft!Questions /\ \A s \in Flying : post[s] = post[r]
        BY <1>1, <1>5 DEF Draft!Render, OnePost, Draft!PostOf
    <2>2. page'.idx = t /\ page'.field = Draft!Shown(t, got[r][t])
        BY <2>1 DEF Draft!CardWith
    <2>3. Draft!Shown(t, got[r][t]) = Draft!Stored(t)
        <3>1. CASE t = Idx(r)
            <4>1. got[r][t] = Draft!Parsed(Field(r)) /\ answerRow[t] = Draft!Parsed(Field(r))
                BY <1>1, <2>1, <3>1 DEF GotKept
            <4>2. Draft!Parsed(Field(r)) # Absent
                BY <1>1, ParsedIsAnswer, DraftAssumption
                   DEF OnePost, Draft!PostOf, Field, Draft!AbsentAssumption
            <4> QED BY <4>1, <4>2 DEF Draft!Stored
        <3>2. CASE t # Idx(r)
            <4>1. got[r][t] = draft[t]
                BY <1>1, <2>1, <3>2 DEF GotKept
            <4>2. Draft!Shown(t, draft[t]) = Draft!Stored(t)
                BY <2>1, <3>2 DEF DraftKept, Idx
            <4> QED BY <4>1, <4>2
        <3> QED BY <3>1, <3>2
    <2>4. PageKept'
        <3>1. Draft!Stored(t) = meant[t]
            BY <2>1 DEF Draft!TypedAnswersKept
        <3> QED BY <1>1, <2>2, <2>3, <3>1 DEF PageKept
    <2>5. PostKept'
        <3>1. meant[Idx(r)] = Field(r)
            BY <1>1 DEF PostKept
        <3> QED BY <1>1, <1>3, <2>1, <3>1 DEF PostKept, Idx, Field
    <2>6. DraftKept'
        <3>1. ~Between(r)
            BY <1>1, <2>1 DEF Between
        <3>2. \A q : Draft!Stored(q)' = Draft!Stored(q)
            BY <1>1 DEF Draft!Stored
        <3> QED BY <1>1, <1>3, <2>1, <3>1, <3>2 DEF DraftKept, Idx, Between
    <2>7. KeyKept'
        <3>1. ~Unset(r)
            BY <1>1, <2>1 DEF Unset
        <3>2. \A q : Draft!Stored(q)' = Draft!Stored(q)
            BY <1>1 DEF Draft!Stored
        <3> QED BY <1>1, <1>3, <2>1, <3>1, <3>2 DEF KeyKept, Idx, Unset
    <2> QED BY <1>2, <2>4, <2>5, <2>6, <2>7
<1> QED BY <1>4, <1>5

\* A request that ends without its card has written both places or none.
LEMMA LoseKeeps ==
    ASSUME Draft!TypeOK, Kept, ~excused, ~excused', NEW r \in Requests,
           Draft!Fail(r) \/ Draft!LoseResponse(r)
    PROVE  Kept'
<1> USE DEF Kept
<1>1. /\ r \in Flying /\ Draft!End(r)
      /\ UNCHANGED <<draft, key, answerRow, page, meant, unkeyed>>
    BY DEF Draft!Fail, Draft!LoseResponse, Flying
<1>2. ~Between(r) /\ ~Unset(r)
    BY DEF Draft!Fail, Draft!LoseResponse, Between, Unset
<1>3. UNCHANGED excused
    <2>1. excused' \in BOOLEAN
        BY Zenon DEF Draft!TypeOK, Draft!Fail, Draft!LoseResponse
    <2> QED BY <2>1 DEF Draft!TypeOK
<1>4. OnePost' /\ Draft!TypedAnswersKept' /\ GotKept' /\ PageKept' /\ PostKept'
    BY <1>1, <1>3, EndKeeps
<1>5. DraftKept' /\ KeyKept'
    <2>1. \A q : Draft!Stored(q)' = Draft!Stored(q)
        BY <1>1 DEF Draft!Stored
    <2>2. /\ Flying' = Flying \ {r}
            /\ \A s \in Flying' : draftPc'[s] = draftPc[s] /\ post'[s] = post[s]
        BY <1>1, EndLeaves
    <2>3. DraftKept'
        BY <1>1, <1>2, <2>1, <2>2 DEF DraftKept, Idx, Between
    <2>4. KeyKept'
        BY <1>1, <1>2, <2>1, <2>2 DEF KeyKept, Idx, Unset
    <2> QED BY <2>3, <2>4
<1> QED BY <1>4, <1>5

-----------------------------------------------------------------------------
(* The specification                                                       *)

\* A step of the program keeps the invariant.
LEMMA NextKept ==
    ASSUME DraftIInv, [Draft!Next]_(Draft!vars)
    PROVE  DraftIInv'
<1>1. Draft!TypeOK'
    BY NextTyped DEF DraftIInv, Kept
<1>2. ASSUME ~excused' PROVE Kept'
    <2>1. CASE UNCHANGED Draft!vars
        BY <1>2, <2>1 DEF Draft!vars, DraftIInv, Kept, OnePost, Draft!TypedAnswersKept, PageKept,
            PostKept, GotKept, DraftKept, KeyKept, Flying, Idx, Field, Between, Unset,
            Draft!Stored
    <2>2. CASE Draft!Next
        <3>1. ~excused /\ Draft!TypeOK /\ Kept
            BY <2>2 DEF Draft!Next, DraftIInv
        <3>2. ASSUME NEW r \in Requests, Draft!Step(r) PROVE Kept'
            BY <1>2, <3>1, <3>2, SendKeeps, SaveDraftKeeps, UpsertKeeps, SetKeyKeeps,
               RenderKeeps, LoseKeeps DEF Draft!Step
        <3>3. CASE Draft!ExpireKey
            BY <3>1, <3>3 DEF Draft!ExpireKey, Kept, OnePost, Draft!TypedAnswersKept, PageKept,
                PostKept, GotKept, DraftKept, KeyKept, Flying, Idx, Field, Between, Unset,
                Draft!Stored
        <3> QED BY <1>2, <2>2, <3>1, <3>2, <3>3, TypeKeeps, LoadKeeps DEF Draft!Next
    <2> QED BY <2>1, <2>2
<1> QED BY <1>1, <1>2 DEF DraftIInv

\* The invariant: types, and Kept of every behaviour that is not excused.
LEMMA DraftInvariant == Draft!Spec => []DraftIInv
<1>1. Draft!Init => DraftIInv
    BY InitTyped, InitKept DEF DraftIInv
<1>2. DraftIInv /\ [Draft!Next]_(Draft!vars) => DraftIInv'
    BY NextKept
<1> QED BY <1>1, <1>2, PTL DEF Draft!Spec

\* Wherever the student goes, the card is of a question and shows its gaps.
THEOREM CardsTyped == Draft!Spec => []Draft!TypeOK
<1>1. DraftIInv => Draft!TypeOK
    BY DEF DraftIInv
<1> QED BY <1>1, DraftInvariant, PTL

\* TypedAnswersKept: NavigateQuestion and SaveAnswer replace a stored answer by
\* what the student typed and by nothing else, whatever expires or is lost.
THEOREM AnswersKept == Draft!Spec => []TypedAnswersKept
<1>1. DraftIInv => TypedAnswersKept
    BY DEF DraftIInv, Kept, TypedAnswersKept, Draft!TypedAnswersKept
<1> QED BY <1>1, DraftInvariant, PTL

\* PageShowsStored: at rest, the card and the session show what is stored.
THEOREM PageAgrees == Draft!Spec => []PageShowsStored
<1>1. DraftIInv => PageShowsStored
    <2>1. ASSUME DraftIInv, ~excused, Draft!InFlight = {}, page # Absent, ~page.touched
          PROVE  /\ page.field = Draft!Stored(page.idx)
                 /\ \A q \in Draft!Questions : Draft!Shown(q, draft[q]) = Draft!Stored(q)
        <3>1. Flying = {} /\ Kept /\ page.idx \in Draft!Questions
            BY <2>1 DEF Flying, Draft!InFlight, DraftIInv, Draft!TypeOK, Draft!Page
        <3>2. page.field = Draft!Stored(page.idx)
            BY <2>1, <3>1 DEF Kept, PageKept, Draft!TypedAnswersKept
        <3>3. \A q \in Draft!Questions : Draft!Shown(q, draft[q]) = Draft!Stored(q)
            BY <2>1, <3>1 DEF Kept, DraftKept
        <3> QED BY <3>2, <3>3
    <2> QED BY <2>1 DEF PageShowsStored, Draft!PageShowsStored
<1> QED BY <1>1, DraftInvariant, PTL

-----------------------------------------------------------------------------
(* Both together                                                           *)

\* StoredSpec, in which one of the two moves, is a behaviour of both, so that
\* what is proved of either holds of it.
THEOREM StoredIsBoth == StoredSpec => Spec /\ Draft!Spec
<1>1. StoredInit => Init /\ Draft!Init
    BY DEF StoredInit
<1>2. [StoredNext]_<<subject, vars, draftVars>> => [Next]_vars
    BY DEF StoredNext
<1>3. [StoredNext]_<<subject, vars, draftVars>> => [Draft!Next]_(Draft!vars)
    BY DEF StoredNext, draftVars, Draft!vars, Draft!stores
<1> QED BY <1>1, <1>2, <1>3, PTL DEF StoredSpec, Spec, Draft!Spec

=============================================================================
