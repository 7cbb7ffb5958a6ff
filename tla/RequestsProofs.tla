--------------------------- MODULE RequestsProofs ---------------------------
(***************************************************************************)
(* What the handlers of requests promise, proved of Requests for any       *)
(* number of requests, words, people, texts and faults.                    *)
(***************************************************************************)
EXTENDS Requests, FiniteSetTheorems, TLAPS

\* A step is one of a part, with the state of the others unchanged.
LEMMA PartsAlone ==
    ASSUME [Next]_vars
    PROVE  /\ BoardNext \/ UNCHANGED boardState
           /\ MaterialNext \/ UNCHANGED materialState
           /\ AccountNext \/ UNCHANGED accountState
           /\ EventNext \/ UNCHANGED eventState
           /\ RoomNext \/ UNCHANGED roomState
           /\ CardNext \/ UNCHANGED cardState
           /\ ClickNext \/ UNCHANGED clickState
           /\ ListNext \/ UNCHANGED listState
           /\ OptionsNext \/ UNCHANGED optionsState
           /\ FeedNext \/ UNCHANGED feedState
           /\ ExplainNext \/ UNCHANGED explainState
           /\ PracticeNext \/ UNCHANGED practiceState
  <1>1. CASE UNCHANGED vars
    BY <1>1 DEF vars
  <1>2. CASE BoardNext
    <2>1. Others("board")
      BY <1>2 DEF BoardNext
    <2>2. QED
      BY <1>2, <2>1 DEF Others
  <1>3. CASE MaterialNext
    <2>1. Others("material")
      BY <1>3 DEF MaterialNext
    <2>2. QED
      BY <1>3, <2>1 DEF Others
  <1>4. CASE AccountNext
    <2>1. Others("account")
      BY <1>4 DEF AccountNext
    <2>2. QED
      BY <1>4, <2>1 DEF Others
  <1>5. CASE EventNext
    <2>1. Others("event")
      BY <1>5 DEF EventNext
    <2>2. QED
      BY <1>5, <2>1 DEF Others
  <1>6. CASE RoomNext
    <2>1. Others("room")
      BY <1>6 DEF RoomNext
    <2>2. QED
      BY <1>6, <2>1 DEF Others
  <1>7. CASE CardNext
    <2>1. Others("card")
      BY <1>7 DEF CardNext
    <2>2. QED
      BY <1>7, <2>1 DEF Others
  <1>8. CASE ClickNext
    <2>1. Others("click")
      BY <1>8 DEF ClickNext
    <2>2. QED
      BY <1>8, <2>1 DEF Others
  <1>9. CASE ListNext
    <2>1. Others("list")
      BY <1>9 DEF ListNext
    <2>2. QED
      BY <1>9, <2>1 DEF Others
  <1>10. CASE OptionsNext
    <2>1. Others("options")
      BY <1>10 DEF OptionsNext
    <2>2. QED
      BY <1>10, <2>1 DEF Others
  <1>11. CASE FeedNext
    <2>1. Others("feed")
      BY <1>11 DEF FeedNext
    <2>2. QED
      BY <1>11, <2>1 DEF Others
  <1>12. CASE ExplainNext
    <2>1. Others("explain")
      BY <1>12 DEF ExplainNext
    <2>2. QED
      BY <1>12, <2>1 DEF Others
  <1>13. CASE PracticeNext
    <2>1. Others("practice")
      BY <1>13 DEF PracticeNext
    <2>2. QED
      BY <1>13, <2>1 DEF Others
  <1>14. QED
    BY <1>1, <1>2, <1>3, <1>4, <1>5, <1>6, <1>7, <1>8, <1>9, <1>10, <1>11, <1>12, <1>13
       DEF Next

-----------------------------------------------------------------------------
\* The files of materials

\* What the requests of the teacher have done; only a confirmed file has a tag.
Stages ==
    {"idle", "loaded", "uploaded", "copied", "checked", "confirmed",
     "dropUpload", "dropFile", "dropRow"}

TransferType ==
    transfer \in [Requests -> [at : Stages, tag : Declared \cup {Nothing}, left : BOOLEAN]]

MaterialType ==
    /\ row \in {"absent", "pending", "ready", "gone"}
    /\ TransferType
    /\ deletions \in Nat /\ worker \in {"idle", "upload"}

\* Jobs are queued for a row that is gone; before the row there is nothing.
JobsOfTheGone ==
    /\ deletions > 0 \/ worker # "idle" => row = "gone"
    /\ row = "absent" => \A r \in Requests : transfer[r].at = "idle"

\* Unless two confirms overlapped, there is one at most, and none of a row
\* that is confirmed.
OneConfirm ==
    ~confirms =>
        /\ \A r, q \in Material!Confirming : r = q
        /\ row = "ready" => Material!Confirming = {}

\* The file a confirm is about to mark is the one it looked at.
FileChecked ==
    /\ row \in {"absent", "pending"} => etag = Nothing
    /\ row = "pending" /\ Material!Removing = {} /\ ~confirms /\ ~lost =>
           \A r \in Requests : transfer[r].at = "checked" =>
               file = transfer[r].tag /\ file \in Declared

\* Somebody who still has to look at the file, or has left it to a job.
LooksAtFile(r) ==
    \/ transfer[r].at \in {"copied", "checked", "dropUpload", "dropFile"}
    \/ transfer[r].at = "dropRow" /\ transfer[r].left

\* A file put back behind a removal of a row has somebody to look at it.
FileLookedAt ==
    Material!Exists /\ file # Nothing /\ ~late /\ ~lost
    /\ (\E r \in Requests : transfer[r].at = "dropRow" /\ ~transfer[r].left) =>
        \E r \in Requests : LooksAtFile(r)

FilesInv ==
    /\ MaterialType /\ JobsOfTheGone /\ OneConfirm /\ FileChecked /\ FileLookedAt
    /\ Files

LEMMA FilesConstants == Material!MaterialsAssumption
  BY RequestsAssumption

LEMMA FilesInit == ASSUME Init PROVE FilesInv
  <1>1. Material!Init
    BY DEF Init
  <1>2. QED
    BY <1>1, FilesConstants
    DEF Material!MaterialsAssumption, Material!Init, Material!Idle, Material!Confirming,
        Material!Removing, Material!Exists, FilesInv, MaterialType, TransferType, Stages,
        JobsOfTheGone, OneConfirm, FileChecked, FileLookedAt, LooksAtFile, Files,
        Material!ReadyHasFile, Material!NoOrphanFile

LEMMA FilesStep == ASSUME FilesInv, MaterialNext PROVE FilesInv'
  <1> USE FilesConstants
      DEF Material!MaterialsAssumption, Material!Idle, Material!Confirming, Material!Contents,
        Material!Removing, Material!Exists, FilesInv, MaterialType, TransferType, Stages,
        JobsOfTheGone, OneConfirm, FileChecked, FileLookedAt, LooksAtFile, Files,
        Material!ReadyHasFile, Material!NoOrphanFile,
        Material!At, Material!Goes, Material!Ends, Material!Matches, Material!QueuedKeys,
        Material!history, Material!objects, Material!jobs
  <1>1. CASE Material!Create
    BY <1>1 DEF Material!Create
  <1>2. CASE Material!StartLesson
    BY <1>2 DEF Material!StartLesson
  <1>3. CASE Material!CancelLesson
    BY <1>3 DEF Material!CancelLesson
  <1>4. CASE Material!LinkExpires
    BY <1>4 DEF Material!LinkExpires
  <1>5. CASE Material!LifecycleDropsUpload
    BY <1>5 DEF Material!LifecycleDropsUpload
  <1>6. CASE Material!JobDropsUpload
    BY <1>6 DEF Material!JobDropsUpload
  <1>7. CASE Material!JobDropsFile
    BY <1>7 DEF Material!JobDropsFile
  <1>8. CASE Material!JobRetries
    BY <1>8 DEF Material!JobRetries
  <1>9. CASE \E c \in Material!Contents : Material!Put(c)
    BY <1>9 DEF Material!Put
  <1>10. ASSUME NEW r \in Requests, Material!LoadToConfirm(r) PROVE FilesInv'
    <2>1. /\ transfer' \in [Requests -> [at : Stages, tag : Declared \cup {Nothing}, left : BOOLEAN]]
          /\ transfer'[r].at = "loaded" /\ transfer'[r].tag = transfer[r].tag /\ transfer'[r].left = transfer[r].left
          /\ \A q \in Requests : q # r => transfer'[q] = transfer[q]
      BY <1>10 DEF Material!LoadToConfirm
    <2>2. MaterialType'
      BY <2>1, <1>10 DEF Material!LoadToConfirm
    <2>3. JobsOfTheGone'
      BY <2>1, <1>10 DEF Material!LoadToConfirm
    <2>4. OneConfirm'
      <3>1. confirms' <=> confirms \/ Material!Confirming # {}
        BY <1>10 DEF Material!LoadToConfirm
      <3>2. row' = "pending"
        BY <1>10 DEF Material!LoadToConfirm
      <3>3. QED
        BY <2>1, <3>1, <3>2
    <2>5. FileChecked'
      BY <2>1, <1>10 DEF Material!LoadToConfirm
    <2>6. FileLookedAt'
      BY <2>1, <1>10 DEF Material!LoadToConfirm
    <2>7. Files'
      BY <2>1, <1>10 DEF Material!LoadToConfirm
    <2>8. QED
      BY <2>2, <2>3, <2>4, <2>5, <2>6, <2>7 DEF FilesInv
  <1>11. CASE \E r \in Requests : Material!CheckUpload(r)
    BY <1>11 DEF Material!CheckUpload
  <1>12. ASSUME NEW r \in Requests, Material!CopyUpload(r) PROVE FilesInv'
    <2>1. CASE upload = Nothing
      <3>0. transfer' = [transfer EXCEPT ![r] = Material!Idle]
        <4>1. Material!Ends(r)
          BY <1>12, <2>1 DEF Material!CopyUpload
        <4>2. QED
          BY <4>1
      <3>1. /\ transfer' \in [Requests -> [at : Stages, tag : Declared \cup {Nothing}, left : BOOLEAN]]
            /\ transfer'[r].at = "idle" /\ transfer'[r].tag = Nothing /\ transfer'[r].left = FALSE
            /\ \A q \in Requests : q # r => transfer'[q] = transfer[q]
        BY <3>0
      <3>2. MaterialType'
        BY <3>1, <1>12, <2>1 DEF Material!CopyUpload
      <3>3. JobsOfTheGone'
        BY <3>1, <1>12, <2>1 DEF Material!CopyUpload
      <3>4. OneConfirm'
        BY <3>1, <1>12, <2>1 DEF Material!CopyUpload
      <3>5. FileChecked'
        BY <3>1, <1>12, <2>1 DEF Material!CopyUpload
      <3>6. FileLookedAt'
        BY <3>1, <1>12, <2>1 DEF Material!CopyUpload
      <3>7. Files'
        BY <3>1, <1>12, <2>1 DEF Material!CopyUpload
      <3>8. QED
        BY <3>2, <3>3, <3>4, <3>5, <3>6, <3>7 DEF FilesInv
    <2>2. CASE upload # Nothing
      <3>1. /\ transfer' \in [Requests -> [at : Stages, tag : Declared \cup {Nothing}, left : BOOLEAN]]
            /\ transfer'[r].at = "copied" /\ transfer'[r].tag = transfer[r].tag /\ transfer'[r].left = transfer[r].left
            /\ \A q \in Requests : q # r => transfer'[q] = transfer[q]
        BY <1>12, <2>2 DEF Material!CopyUpload
      <3>2. MaterialType'
        BY <3>1, <1>12, <2>2 DEF Material!CopyUpload
      <3>3. JobsOfTheGone'
        BY <3>1, <1>12, <2>2 DEF Material!CopyUpload
      <3>4. OneConfirm'
        BY <3>1, <1>12, <2>2 DEF Material!CopyUpload
      <3>5. FileChecked'
        BY <3>1, <1>12, <2>2 DEF Material!CopyUpload
      <3>6. FileLookedAt'
        BY <3>1, <1>12, <2>2 DEF Material!CopyUpload
      <3>7. Files'
        BY <3>1, <1>12, <2>2 DEF Material!CopyUpload
      <3>8. QED
        BY <3>2, <3>3, <3>4, <3>5, <3>6, <3>7 DEF FilesInv
    <2>3. QED
      BY <2>1, <2>2
  <1>13. ASSUME NEW r \in Requests, Material!CheckFile(r) PROVE FilesInv'
    <2>1. CASE file = Nothing
      <3>0. transfer' = [transfer EXCEPT ![r] = Material!Idle]
        <4>1. Material!Ends(r)
          BY <1>13, <2>1 DEF Material!CheckFile
        <4>2. QED
          BY <4>1
      <3>1. /\ transfer' \in [Requests -> [at : Stages, tag : Declared \cup {Nothing}, left : BOOLEAN]]
            /\ transfer'[r].at = "idle" /\ transfer'[r].tag = Nothing /\ transfer'[r].left = FALSE
            /\ \A q \in Requests : q # r => transfer'[q] = transfer[q]
        BY <3>0
      <3>2. MaterialType'
        BY <3>1, <1>13, <2>1 DEF Material!CheckFile
      <3>3. JobsOfTheGone'
        BY <3>1, <1>13, <2>1 DEF Material!CheckFile
      <3>4. OneConfirm'
        BY <3>1, <1>13, <2>1 DEF Material!CheckFile
      <3>5. FileChecked'
        BY <3>1, <1>13, <2>1 DEF Material!CheckFile
      <3>6. FileLookedAt'
        BY <3>1, <1>13, <2>1 DEF Material!CheckFile
      <3>7. Files'
        BY <3>1, <1>13, <2>1 DEF Material!CheckFile
      <3>8. QED
        BY <3>2, <3>3, <3>4, <3>5, <3>6, <3>7 DEF FilesInv
    <2>2. CASE file # Nothing /\ file \in Declared
      <3>1. /\ transfer' \in [Requests -> [at : Stages, tag : Declared \cup {Nothing}, left : BOOLEAN]]
            /\ transfer'[r].at = "checked" /\ transfer'[r].tag = file /\ transfer'[r].left = transfer[r].left
            /\ \A q \in Requests : q # r => transfer'[q] = transfer[q]
        BY <1>13, <2>2 DEF Material!CheckFile
      <3>2. MaterialType'
        BY <3>1, <1>13, <2>2 DEF Material!CheckFile
      <3>3. JobsOfTheGone'
        BY <3>1, <1>13, <2>2 DEF Material!CheckFile
      <3>4. OneConfirm'
        BY <3>1, <1>13, <2>2 DEF Material!CheckFile
      <3>5. FileChecked'
        BY <3>1, <1>13, <2>2 DEF Material!CheckFile
      <3>6. FileLookedAt'
        BY <3>1, <1>13, <2>2 DEF Material!CheckFile
      <3>7. Files'
        BY <3>1, <1>13, <2>2 DEF Material!CheckFile
      <3>8. QED
        BY <3>2, <3>3, <3>4, <3>5, <3>6, <3>7 DEF FilesInv
    <2>3. CASE file # Nothing /\ file \notin Declared
      <3>1. /\ transfer' \in [Requests -> [at : Stages, tag : Declared \cup {Nothing}, left : BOOLEAN]]
            /\ transfer'[r].at = "dropUpload" /\ transfer'[r].tag = transfer[r].tag /\ transfer'[r].left = transfer[r].left
            /\ \A q \in Requests : q # r => transfer'[q] = transfer[q]
        BY <1>13, <2>3 DEF Material!CheckFile
      <3>2. MaterialType'
        BY <3>1, <1>13, <2>3 DEF Material!CheckFile
      <3>3. JobsOfTheGone'
        BY <3>1, <1>13, <2>3 DEF Material!CheckFile
      <3>4. OneConfirm'
        BY <3>1, <1>13, <2>3 DEF Material!CheckFile
      <3>5. FileChecked'
        BY <3>1, <1>13, <2>3 DEF Material!CheckFile
      <3>6. FileLookedAt'
        BY <3>1, <1>13, <2>3 DEF Material!CheckFile
      <3>7. Files'
        BY <3>1, <1>13, <2>3 DEF Material!CheckFile
      <3>8. QED
        BY <3>2, <3>3, <3>4, <3>5, <3>6, <3>7 DEF FilesInv
    <2>4. QED
      BY <2>1, <2>2, <2>3
  <1>14. ASSUME NEW r \in Requests, Material!ConfirmRow(r) PROVE FilesInv'
    <2>1. CASE Material!Exists
      <3>1. /\ transfer' \in [Requests -> [at : Stages, tag : Declared \cup {Nothing}, left : BOOLEAN]]
            /\ transfer'[r].at = "confirmed" /\ transfer'[r].tag = transfer[r].tag /\ transfer'[r].left = transfer[r].left
            /\ \A q \in Requests : q # r => transfer'[q] = transfer[q]
        BY <1>14, <2>1 DEF Material!ConfirmRow
      <3>2. MaterialType'
        BY <3>1, <1>14, <2>1 DEF Material!ConfirmRow
      <3>3. JobsOfTheGone'
        BY <3>1, <1>14, <2>1 DEF Material!ConfirmRow
      <3>4. OneConfirm'
        BY <3>1, <1>14, <2>1 DEF Material!ConfirmRow
      <3>5. FileChecked'
        BY <3>1, <1>14, <2>1 DEF Material!ConfirmRow
      <3>6. FileLookedAt'
        BY <3>1, <1>14, <2>1 DEF Material!ConfirmRow
      <3>7. Files'
        BY <3>1, <1>14, <2>1 DEF Material!ConfirmRow
      <3>8. QED
        BY <3>2, <3>3, <3>4, <3>5, <3>6, <3>7 DEF FilesInv
    <2>2. CASE ~Material!Exists
      <3>0. transfer' = [transfer EXCEPT ![r] = Material!Idle]
        <4>1. Material!Ends(r)
          BY <1>14, <2>2 DEF Material!ConfirmRow
        <4>2. QED
          BY <4>1
      <3>1. /\ transfer' \in [Requests -> [at : Stages, tag : Declared \cup {Nothing}, left : BOOLEAN]]
            /\ transfer'[r].at = "idle" /\ transfer'[r].tag = Nothing /\ transfer'[r].left = FALSE
            /\ \A q \in Requests : q # r => transfer'[q] = transfer[q]
        BY <3>0
      <3>2. MaterialType'
        BY <3>1, <1>14, <2>2 DEF Material!ConfirmRow
      <3>3. JobsOfTheGone'
        BY <3>1, <1>14, <2>2 DEF Material!ConfirmRow
      <3>4. OneConfirm'
        BY <3>1, <1>14, <2>2 DEF Material!ConfirmRow
      <3>5. FileChecked'
        BY <3>1, <1>14, <2>2 DEF Material!ConfirmRow
      <3>6. FileLookedAt'
        BY <3>1, <1>14, <2>2 DEF Material!ConfirmRow
      <3>7. Files'
        BY <3>1, <1>14, <2>2 DEF Material!ConfirmRow
      <3>8. QED
        BY <3>2, <3>3, <3>4, <3>5, <3>6, <3>7 DEF FilesInv
    <2>3. QED
      BY <2>1, <2>2
  <1>15. CASE \E r \in Requests : Material!DropConfirmedUpload(r)
    BY <1>15 DEF Material!DropConfirmedUpload
  <1>16. CASE \E r \in Requests : Material!LoadToRemove(r)
    BY <1>16 DEF Material!LoadToRemove
  <1>17. CASE \E r \in Requests : Material!RemoveUpload(r)
    BY <1>17 DEF Material!RemoveUpload
  <1>18. CASE \E r \in Requests : Material!RemoveFile(r)
    BY <1>18 DEF Material!RemoveFile
  <1>19. ASSUME NEW r \in Requests, Material!RemovalFails(r) PROVE FilesInv'
    <2>1. /\ transfer' \in [Requests -> [at : Stages, tag : Declared \cup {Nothing}, left : BOOLEAN]]
          /\ transfer'[r].at = "dropRow" /\ transfer'[r].tag = transfer[r].tag /\ transfer'[r].left = TRUE
          /\ \A q \in Requests : q # r => transfer'[q] = transfer[q]
      BY <1>19 DEF Material!RemovalFails
    <2>2. MaterialType'
      BY <2>1, <1>19 DEF Material!RemovalFails
    <2>3. JobsOfTheGone'
      BY <2>1, <1>19 DEF Material!RemovalFails
    <2>4. OneConfirm'
      BY <2>1, <1>19 DEF Material!RemovalFails
    <2>5. FileChecked'
      BY <2>1, <1>19 DEF Material!RemovalFails
    <2>6. FileLookedAt'
      BY <2>1, <1>19 DEF Material!RemovalFails
    <2>7. Files'
      BY <2>1, <1>19 DEF Material!RemovalFails
    <2>8. QED
      BY <2>2, <2>3, <2>4, <2>5, <2>6, <2>7 DEF FilesInv
  <1>20. ASSUME NEW r \in Requests, Material!DeleteRow(r) PROVE FilesInv'
    <2>1. /\ transfer' \in [Requests -> [at : Stages, tag : Declared \cup {Nothing}, left : BOOLEAN]]
          /\ transfer'[r].at = "idle" /\ transfer'[r].tag = Nothing /\ transfer'[r].left = FALSE
          /\ \A q \in Requests : q # r => transfer'[q] = transfer[q]
      BY <1>20 DEF Material!DeleteRow
    <2>2. MaterialType'
      BY <2>1, <1>20 DEF Material!DeleteRow
    <2>3. JobsOfTheGone'
      BY <2>1, <1>20 DEF Material!DeleteRow
    <2>4. OneConfirm'
      BY <2>1, <1>20 DEF Material!DeleteRow
    <2>5. FileChecked'
      BY <2>1, <1>20 DEF Material!DeleteRow
    <2>6. FileLookedAt'
      BY <2>1, <1>20 DEF Material!DeleteRow
    <2>7. Files'
      <3>1. lost' <=> lost \/ (~Material!Exists /\ transfer[r].left)
        BY <1>20 DEF Material!DeleteRow
      <3>2. /\ row' = "gone" /\ row # "absent" /\ transfer[r].at = "dropRow"
            /\ UNCHANGED <<file, etag, worker, late, confirms>>
        BY <1>20 DEF Material!DeleteRow
      <3>3. /\ deletions' \in Nat /\ deletions' >= deletions
            /\ Material!Exists /\ transfer[r].left => deletions' > 0
        BY <1>20 DEF Material!DeleteRow
      <3>4. Material!ReadyHasFile'
        BY <3>2
      <3>5. Material!NoOrphanFile'
        BY <2>1, <3>1, <3>2, <3>3
      <3>6. QED
        BY <3>4, <3>5
    <2>8. QED
      BY <2>2, <2>3, <2>4, <2>5, <2>6, <2>7 DEF FilesInv
  <1>21. ASSUME NEW r \in Requests, Material!Abort(r) PROVE FilesInv'
    <2>1. /\ transfer' \in [Requests -> [at : Stages, tag : Declared \cup {Nothing}, left : BOOLEAN]]
          /\ transfer'[r].at = "idle" /\ transfer'[r].tag = Nothing /\ transfer'[r].left = FALSE
          /\ \A q \in Requests : q # r => transfer'[q] = transfer[q]
      BY <1>21 DEF Material!Abort
    <2>2. MaterialType'
      BY <2>1, <1>21 DEF Material!Abort
    <2>3. JobsOfTheGone'
      BY <2>1, <1>21 DEF Material!Abort
    <2>4. OneConfirm'
      BY <2>1, <1>21 DEF Material!Abort
    <2>5. FileChecked'
      <3>1. lost' <=> lost \/ transfer[r].at \notin {"loaded", "uploaded", "confirmed"}
        BY <1>21 DEF Material!Abort
      <3>2. transfer[r].at # "idle" /\ UNCHANGED <<row, file, etag, confirms>>
        BY <1>21 DEF Material!Abort
      <3>3. QED
        BY <2>1, <3>1, <3>2
    <2>6. FileLookedAt'
      BY <2>1, <1>21 DEF Material!Abort
    <2>7. Files'
      BY <2>1, <1>21 DEF Material!Abort
    <2>8. QED
      BY <2>2, <2>3, <2>4, <2>5, <2>6, <2>7 DEF FilesInv
  <1>22. QED
    BY <1>1, <1>2, <1>3, <1>4, <1>5, <1>6, <1>7, <1>8, <1>9, <1>10, <1>11, <1>12, <1>13, <1>14, <1>15, <1>16, <1>17, <1>18, <1>19, <1>20, <1>21 DEF MaterialNext

LEMMA FilesInvariant == Spec => []FilesInv
  <1>1. FilesInv /\ UNCHANGED materialState => FilesInv'
    BY DEF materialState, FilesInv, MaterialType, TransferType, JobsOfTheGone, OneConfirm,
           FileChecked, FileLookedAt, LooksAtFile, Files, Material!ReadyHasFile,
           Material!NoOrphanFile, Material!Confirming, Material!Removing, Material!Exists
  <1>2. FilesInv /\ [Next]_vars => FilesInv'
    BY <1>1, FilesStep, PartsAlone
  <1>3. QED
    BY FilesInit, <1>2, PTL DEF Spec

\* A material that is shown has the file that was confirmed, and no file
\* outlives its row, whatever the browser uploads over it and whichever of any
\* number of confirms and removals dies (httpapi/materials.go).
THEOREM FilesCorrect == Spec => []Files
  BY FilesInvariant, PTL DEF FilesInv

-----------------------------------------------------------------------------
\* Accounts

RequestOps == Account!Ops \cup {"none", "login"}

UserRow == [exists : BOOLEAN, role : Account!Roles, archived : BOOLEAN, epoch : Nat]

AccountType ==
    /\ user \in [Account!Users -> UserRow]
    /\ \A s \in sessions : s.user \in Account!Users
    /\ invite.role \in Account!Roles
    /\ entry \in [Requests ->
           [op : RequestOps, at : {"free", "entered", "allowed", "open"},
            actor : Account!Users, by : Account!Roles, target : Account!Users,
            role : Account!Roles, epoch : Nat]]

\* Whoever is logged in has an account, and a request of his was allowed to
\* somebody of his role.
Authored ==
    /\ \A s \in sessions : user[s.user].exists
    /\ \A r \in Requests : entry[r].at \in {"entered", "allowed"} =>
           /\ user[entry[r].actor].exists
           /\ entry[r].op \in Account!Ops
           /\ Account!SelfAllowed(entry[r].actor, entry[r].op, entry[r].target, entry[r].role)
           /\ Account!RoleAllows(entry[r].by, entry[r].op)
    /\ \A r \in Requests : entry[r].at = "open" => user[entry[r].actor].exists

LoginsInv == AccountType /\ Authored /\ Logins

LEMMA AccountConstants ==
    /\ Account!AccountsAssumption
    /\ Asked \subseteq Account!Ops \X Account!Roles
    /\ NewRoles \cup InvitedRoles \subseteq Account!Roles
    /\ Grouped \subseteq Account!Users
  BY RequestsAssumption

LEMMA LoginsInit == ASSUME Init PROVE LoginsInv
  <1>1. Account!Init
    BY DEF Init
  <1>2. PICK colleague \in {"admin", "teacher"}, enrolled \in BOOLEAN :
            user = [u \in Account!Users |->
                       [Account!Absent EXCEPT !.exists = u # Invitee \/ enrolled,
                           !.role = IF u = Owner THEN "admin"
                                    ELSE IF u = Colleague THEN colleague ELSE @]]
    BY <1>1, Zenon DEF Account!Init
  <1>3. /\ user \in [Account!Users -> UserRow]
        /\ \A u \in Account!Users : user[u].epoch = 0
        /\ user[Owner].exists /\ user[Owner].role = "admin" /\ ~user[Owner].archived
        /\ user[Colleague].exists
    BY <1>2, AccountConstants
    DEF Account!AccountsAssumption, Account!Absent, Account!Users, Account!Roles, UserRow
  <1>4. sessions = [user : {Owner, Colleague}, epoch : {0}, late : {FALSE}]
    BY <1>1 DEF Account!Init
  <1>5. QED
    BY <1>1, <1>3, <1>4, AccountConstants
    DEF Account!AccountsAssumption, Account!Init, Account!Absent, Account!NoInvite,
          Account!Users, Account!Roles, Account!Ops, RequestOps, UserRow, LoginsInv, AccountType, Authored,
          Logins, Account!NoStaleSession, Account!AdminRemains, Account!Free, Account!Ends,
          Account!bounds, Account!Session

LEMMA UserChanged ==
    ASSUME NEW was \in UserRow,
           NEW there \in BOOLEAN, NEW role \in Account!Roles
    PROVE  [was EXCEPT !.exists = there, !.role = role] \in
           UserRow
  BY DEF UserRow

\* Archiving bumps the epoch of its target and ends every session he has.
LEMMA DeactivateStep ==
    ASSUME LoginsInv, NEW r \in Requests, Account!DeactivateUser(r)
    PROVE  LoginsInv'
  <1> DEFINE target == entry[r].target
  <1>1. /\ AccountType /\ Authored /\ Account!NoStaleSession /\ Account!AdminRemains
        /\ target \in Account!Users /\ user[target] \in UserRow
    BY DEF LoginsInv, Logins, AccountType
  <1>2. /\ entry[r].at = "allowed" /\ entry[r].op = "archive" /\ user[target].exists
        /\ user' = [user EXCEPT ![target].archived = TRUE, ![target].epoch = @ + 1]
        /\ sessions' = {s \in sessions : s.user # target}
        /\ entry' = [entry EXCEPT ![r] = Account!Free]
        /\ crossedEdits' = (crossedEdits \/ Account!Stale(entry[r]))
        /\ UNCHANGED invite
    BY DEF Account!DeactivateUser, Account!Writes, Account!Ended, Account!Ends
  <1>3. /\ user' \in [Account!Users -> UserRow]
        /\ \A u \in Account!Users : u # target => user'[u] = user[u]
        /\ \A u \in Account!Users : user'[u].exists = user[u].exists
    BY <1>1, <1>2 DEF AccountType, UserRow
  <1>4. /\ entry' \in [Requests ->
               [op : RequestOps, at : {"free", "entered", "allowed", "open"},
                actor : Account!Users, by : Account!Roles, target : Account!Users,
                role : Account!Roles, epoch : Nat]]
        /\ \A q \in Requests : q # r => entry'[q] = entry[q]
        /\ entry'[r].at = "free"
    BY <1>1, <1>2 DEF AccountType, Account!Free, RequestOps, Account!Ops, Account!Roles, Account!Users
  <1>5. AccountType'
    BY <1>1, <1>2, <1>3, <1>4 DEF AccountType
  <1>6. Authored'
    <2>1. \A s \in sessions' : user'[s.user].exists
      BY <1>1, <1>2, <1>3 DEF Authored, AccountType
    <2>2. ASSUME NEW q \in Requests, entry'[q].at \in {"entered", "allowed", "open"}
          PROVE  entry'[q] = entry[q] /\ entry[q].actor \in Account!Users
      BY <1>1, <1>4, <2>2 DEF AccountType
    <2>3. QED
      BY <1>1, <1>3, <2>1, <2>2 DEF Authored
  <1>7. Account!NoStaleSession'
    BY <1>1, <1>2, <1>3 DEF Account!NoStaleSession, AccountType
  <1>8. Account!AdminRemains'
    <2>1. CASE Account!Stale(entry[r])
      BY <1>2, <2>1 DEF Account!AdminRemains
    <2>2. CASE ~Account!Stale(entry[r]) /\ ~crossedEdits
      <3>1. PICK u \in Account!Users : user[u].exists /\ user[u].role = "admin" /\ ~user[u].archived
        BY <1>1, <2>2 DEF Account!AdminRemains
      <3>2. CASE u # target
        BY <1>3, <3>1, <3>2 DEF Account!AdminRemains
      <3>3. CASE u = target
        <4>1. /\ Account!SelfAllowed(entry[r].actor, "archive", target, entry[r].role)
              /\ Account!RoleAllows(entry[r].by, "archive") /\ user[entry[r].actor].exists
              /\ entry[r].actor \in Account!Users
          BY <1>1, <1>2 DEF Authored, AccountType
        <4>2. entry[r].actor # target
          BY <4>1 DEF Account!SelfAllowed
        <4>3. entry[r].by = "admin"
          BY <4>1, <2>2, <1>2, <3>1, <3>3 DEF Account!RoleAllows, Account!Stale
        <4>4. user[entry[r].actor].role = "admin" /\ ~user[entry[r].actor].archived
          BY <2>2, <4>3 DEF Account!Stale
        <4>5. QED
          BY <1>3, <4>1, <4>2, <4>4 DEF Account!AdminRemains
      <3>4. QED
        BY <3>2, <3>3
    <2>3. CASE crossedEdits
      BY <1>2, <2>3 DEF Account!AdminRemains
    <2>4. QED
      BY <2>1, <2>2, <2>3
  <1>9. QED
    BY <1>5, <1>6, <1>7, <1>8 DEF LoginsInv, Logins

LEMMA LoginsStep == ASSUME LoginsInv, AccountNext PROVE LoginsInv'
  <1> USE AccountConstants
      DEF Account!AccountsAssumption, Account!HasSession,
          Account!Users, Account!Roles, Account!Ops, RequestOps, UserRow, LoginsInv, AccountType, Authored,
          Logins, Account!NoStaleSession, Account!AdminRemains, Account!Free, Account!Ends,
          Account!bounds, Account!Session
  <1>1. ASSUME Account!AcceptInvite PROVE LoginsInv'
    <2>1. AccountType'
      <3>1. user' \in [Account!Users -> UserRow]
        <4>1. user' = [user EXCEPT ![Invitee] =
                           [user[Invitee] EXCEPT !.exists = TRUE, !.role = invite.role]]
          BY <1>1 DEF Account!AcceptInvite
        <4>2. [user[Invitee] EXCEPT !.exists = TRUE, !.role = invite.role] \in UserRow
          <5>1. user[Invitee] \in UserRow /\ invite.role \in Account!Roles
            BY <1>1 DEF Account!AcceptInvite
          <5>2. QED
            BY <5>1, UserChanged
        <4>3. QED
          BY <4>1, <4>2
      <3>2. \A s \in sessions' : s.user \in Account!Users
        BY <1>1 DEF Account!AcceptInvite
      <3>3. (invite.role \in Account!Roles)'
        BY <1>1 DEF Account!AcceptInvite, Account!NoInvite
      <3>4. entry' = entry
        BY <1>1 DEF Account!AcceptInvite
      <3>5. QED
        BY <3>1, <3>2, <3>3, <3>4
    <2>2. Authored'
      BY <1>1 DEF Account!AcceptInvite
    <2>3. Account!NoStaleSession'
      BY <1>1 DEF Account!AcceptInvite
    <2>4. Account!AdminRemains'
      BY <1>1 DEF Account!AcceptInvite
    <2>5. QED
      BY <2>1, <2>2, <2>3, <2>4
  <1>2. ASSUME Account!InviteEnds PROVE LoginsInv'
    <2>1. AccountType'
      BY <1>2 DEF Account!InviteEnds, Account!NoInvite
    <2>2. Authored'
      BY <1>2 DEF Account!InviteEnds, Account!NoInvite
    <2>3. Account!NoStaleSession'
      BY <1>2 DEF Account!InviteEnds, Account!NoInvite
    <2>4. Account!AdminRemains'
      BY <1>2 DEF Account!InviteEnds, Account!NoInvite
    <2>5. QED
      BY <2>1, <2>2, <2>3, <2>4
  <1>3. ASSUME NEW s \in sessions, Account!SessionEnds(s) PROVE LoginsInv'
    <2>1. AccountType'
      BY <1>3 DEF Account!SessionEnds
    <2>2. Authored'
      BY <1>3 DEF Account!SessionEnds
    <2>3. Account!NoStaleSession'
      BY <1>3 DEF Account!SessionEnds
    <2>4. Account!AdminRemains'
      BY <1>3 DEF Account!SessionEnds
    <2>5. QED
      BY <2>1, <2>2, <2>3, <2>4
  <1>4. ASSUME NEW u \in {Owner, Colleague}, NEW target \in Grouped, Account!ChangeGroup(u, target) PROVE LoginsInv'
    <2>1. AccountType'
      BY <1>4 DEF Account!ChangeGroup, Account!Edits
    <2>2. Authored'
      BY <1>4 DEF Account!ChangeGroup, Account!Edits
    <2>3. Account!NoStaleSession'
      BY <1>4 DEF Account!ChangeGroup, Account!Edits
    <2>4. Account!AdminRemains'
      BY <1>4 DEF Account!ChangeGroup, Account!Edits
    <2>5. QED
      BY <2>1, <2>2, <2>3, <2>4
  <1>5. ASSUME NEW u \in {Owner, Colleague}, NEW role \in NewRoles, Account!CreateUser(u, role) PROVE LoginsInv'
    <2>1. AccountType'
      <3>1. user' \in [Account!Users -> UserRow]
        <4>1. user' = [user EXCEPT ![Invitee] =
                           [user[Invitee] EXCEPT !.exists = TRUE, !.role = role]]
          BY <1>5 DEF Account!CreateUser
        <4>2. [user[Invitee] EXCEPT !.exists = TRUE, !.role = role] \in UserRow
          <5>1. user[Invitee] \in UserRow /\ role \in Account!Roles
            BY <1>5 DEF Account!CreateUser
          <5>2. QED
            BY <5>1, UserChanged
        <4>3. QED
          BY <4>1, <4>2
      <3>2. \A s \in sessions' : s.user \in Account!Users
        BY <1>5 DEF Account!CreateUser, Account!Edits
      <3>3. (invite.role \in Account!Roles)'
        BY <1>5 DEF Account!CreateUser, Account!NoInvite, Account!Edits
      <3>4. entry' = entry
        BY <1>5 DEF Account!CreateUser, Account!Edits
      <3>5. QED
        BY <3>1, <3>2, <3>3, <3>4
    <2>2. Authored'
      BY <1>5 DEF Account!CreateUser, Account!Edits
    <2>3. Account!NoStaleSession'
      BY <1>5 DEF Account!CreateUser, Account!Edits
    <2>4. Account!AdminRemains'
      BY <1>5 DEF Account!CreateUser, Account!Edits
    <2>5. QED
      BY <2>1, <2>2, <2>3, <2>4
  <1>6. ASSUME NEW u \in {Owner, Colleague}, NEW role \in InvitedRoles, NEW joins \in BOOLEAN, Account!CreateInvite(u, role, joins) PROVE LoginsInv'
    <2>1. AccountType'
      BY <1>6 DEF Account!CreateInvite, Account!Edits
    <2>2. Authored'
      BY <1>6 DEF Account!CreateInvite, Account!Edits
    <2>3. Account!NoStaleSession'
      BY <1>6 DEF Account!CreateInvite, Account!Edits
    <2>4. Account!AdminRemains'
      BY <1>6 DEF Account!CreateInvite, Account!Edits
    <2>5. QED
      BY <2>1, <2>2, <2>3, <2>4
  <1>7. ASSUME NEW r \in Requests, Account!CheckLogin(r, Invitee) PROVE LoginsInv'
    <2>1. AccountType'
      BY <1>7 DEF Account!CheckLogin
    <2>2. Authored'
      BY <1>7 DEF Account!CheckLogin
    <2>3. Account!NoStaleSession'
      BY <1>7 DEF Account!CheckLogin
    <2>4. Account!AdminRemains'
      BY <1>7 DEF Account!CheckLogin
    <2>5. QED
      BY <2>1, <2>2, <2>3, <2>4
  <1>8. ASSUME NEW r \in Requests, NEW u \in Account!Users, NEW target \in Account!Users, NEW ask \in Asked, Account!Enter(r, u, ask[1], target, ask[2]) PROVE LoginsInv'
    <2>1. AccountType'
      BY <1>8 DEF Account!Enter, Account!SelfAllowed, Account!RoleAllows
    <2>2. Authored'
      BY <1>8 DEF Account!Enter, Account!SelfAllowed, Account!RoleAllows
    <2>3. Account!NoStaleSession'
      BY <1>8 DEF Account!Enter, Account!SelfAllowed, Account!RoleAllows
    <2>4. Account!AdminRemains'
      BY <1>8 DEF Account!Enter, Account!SelfAllowed, Account!RoleAllows
    <2>5. QED
      BY <2>1, <2>2, <2>3, <2>4
  <1>9. ASSUME NEW r \in Requests, Account!Authorize(r) PROVE LoginsInv'
    <2>1. AccountType'
      BY <1>9 DEF Account!Authorize, Account!TeacherManages
    <2>2. Authored'
      BY <1>9 DEF Account!Authorize, Account!TeacherManages
    <2>3. Account!NoStaleSession'
      BY <1>9 DEF Account!Authorize, Account!TeacherManages
    <2>4. Account!AdminRemains'
      BY <1>9 DEF Account!Authorize, Account!TeacherManages
    <2>5. QED
      BY <2>1, <2>2, <2>3, <2>4
  <1>10. ASSUME NEW r \in Requests, Account!GivesUp(r) PROVE LoginsInv'
    <2>1. AccountType'
      BY <1>10 DEF Account!GivesUp
    <2>2. Authored'
      BY <1>10 DEF Account!GivesUp
    <2>3. Account!NoStaleSession'
      BY <1>10 DEF Account!GivesUp
    <2>4. Account!AdminRemains'
      BY <1>10 DEF Account!GivesUp
    <2>5. QED
      BY <2>1, <2>2, <2>3, <2>4
  <1>11. ASSUME NEW r \in Requests, Account!OpenSession(r) PROVE LoginsInv'
    <2>1. AccountType'
      BY <1>11 DEF Account!OpenSession
    <2>2. Authored'
      BY <1>11 DEF Account!OpenSession
    <2>3. Account!NoStaleSession'
      BY <1>11 DEF Account!OpenSession
    <2>4. Account!AdminRemains'
      BY <1>11 DEF Account!OpenSession
    <2>5. QED
      BY <2>1, <2>2, <2>3, <2>4
  <1>12. ASSUME NEW r \in Requests, Account!SetPassword(r) PROVE LoginsInv'
    <2>1. AccountType'
      BY <1>12 DEF Account!SetPassword, Account!Writes, Account!Ended
    <2>2. Authored'
      BY <1>12 DEF Account!SetPassword, Account!Writes, Account!Ended
    <2>3. Account!NoStaleSession'
      BY <1>12 DEF Account!SetPassword, Account!Writes, Account!Ended
    <2>4. Account!AdminRemains'
      BY <1>12 DEF Account!SetPassword, Account!Writes, Account!Ended
    <2>5. QED
      BY <2>1, <2>2, <2>3, <2>4
  <1>13. ASSUME NEW r \in Requests, Account!UpdateUserProfile(r) PROVE LoginsInv'
    <2>1. AccountType'
      BY <1>13 DEF Account!UpdateUserProfile, Account!Writes, Account!Stale, Account!SelfAllowed, Account!RoleAllows
    <2>2. Authored'
      BY <1>13 DEF Account!UpdateUserProfile, Account!Writes, Account!Stale, Account!SelfAllowed, Account!RoleAllows
    <2>3. Account!NoStaleSession'
      BY <1>13 DEF Account!UpdateUserProfile, Account!Writes, Account!Stale, Account!SelfAllowed, Account!RoleAllows
    <2>4. Account!AdminRemains'
      BY <1>13 DEF Account!UpdateUserProfile, Account!Writes, Account!Stale, Account!SelfAllowed, Account!RoleAllows
    <2>5. QED
      BY <2>1, <2>2, <2>3, <2>4
  <1>14. ASSUME NEW r \in Requests, Account!DeactivateUser(r) PROVE LoginsInv'
    BY <1>14, DeactivateStep
  <1>15. ASSUME NEW r \in Requests, Account!ReactivateUser(r) PROVE LoginsInv'
    <2>1. AccountType'
      <3>1. user' \in [Account!Users -> UserRow]
        <4>1. /\ user' = [user EXCEPT ![entry[r].target].archived = FALSE]
              /\ entry[r].target \in Account!Users
          BY <1>15 DEF Account!ReactivateUser
        <4>2. [user[entry[r].target] EXCEPT !.archived = FALSE] \in UserRow
          <5>1. user[entry[r].target] \in UserRow
            BY <4>1
          <5>2. QED
            BY <5>1
        <4>3. user' = [user EXCEPT ![entry[r].target] =
                           [user[entry[r].target] EXCEPT !.archived = FALSE]]
          BY <4>1
        <4>4. QED
          BY <4>2, <4>3
      <3>2. \A s \in sessions' : s.user \in Account!Users
        BY <1>15 DEF Account!ReactivateUser, Account!Writes
      <3>3. (invite.role \in Account!Roles)'
        BY <1>15 DEF Account!ReactivateUser, Account!NoInvite, Account!Writes
      <3>4. entry' \in [Requests ->
               [op : RequestOps, at : {"free", "entered", "allowed", "open"},
                actor : Account!Users, by : Account!Roles, target : Account!Users,
                role : Account!Roles, epoch : Nat]]
        BY <1>15 DEF Account!ReactivateUser, Account!Writes
      <3>5. QED
        BY <3>1, <3>2, <3>3, <3>4
    <2>2. Authored'
      BY <1>15 DEF Account!ReactivateUser, Account!Writes
    <2>3. Account!NoStaleSession'
      BY <1>15 DEF Account!ReactivateUser, Account!Writes
    <2>4. Account!AdminRemains'
      BY <1>15 DEF Account!ReactivateUser, Account!Writes
    <2>5. QED
      BY <2>1, <2>2, <2>3, <2>4
  <1> HIDE DEF Account!Users, Account!Roles, Account!Ops, LoginsInv, AccountType, Authored, Logins
  <1>16. QED
    BY <1>1, <1>2, <1>3, <1>4, <1>5, <1>6, <1>7, <1>8, <1>9, <1>10, <1>11, <1>12, <1>13,
       <1>14, <1>15
    DEF AccountNext

LEMMA LoginsInvariant == Spec => []LoginsInv
  <1>1. LoginsInv /\ UNCHANGED accountState => LoginsInv'
    BY DEF accountState, LoginsInv, AccountType, Authored, Logins, Account!NoStaleSession,
           Account!AdminRemains
  <1>2. LoginsInv /\ [Next]_vars => LoginsInv'
    BY <1>1, LoginsStep, PartsAlone
  <1>3. QED
    BY LoginsInit, <1>2, PTL DEF Spec

\* No session outlives a new password or the archive of its owner, and the
\* school keeps an admin, however many changes, invitations and requests under
\* way there are (httpapi/users.go, store/users.go).
THEOREM LoginsCorrect == Spec => []Logins
  BY LoginsInvariant, PTL DEF LoginsInv

-----------------------------------------------------------------------------
\* The candidates for the words of a lesson

Scene == [Clickable -> Nat]

ClickingType ==
    [at : {"free"}]
        \cup [at : {"click"}, student : Clickers, term : Clickable]
        \cup [at : {"collect"}, scene : Scene, draws : Nat]

CandidatesType ==
    /\ clicks \subseteq Clickers \X Clickable
    /\ clicked \in [Clickable -> Nat]
    /\ onBoard \in Scene /\ scene \in Scene /\ draws \in Nat
    /\ newest.scene \in Scene /\ newest.draws \in Nat
    /\ clicking \in [Requests -> ClickingType]

\* The clicks under way on words that are no candidates yet.
NewClicks ==
    {r \in Requests : clicking[r].at = "click" /\ clicked[clicking[r].term] = 0}

\* Each of them may still make a candidate.
RoomForClicks ==
    /\ IsFiniteSet(Click!ClickCandidates)
    /\ Cardinality(Click!ClickCandidates) + Cardinality(NewClicks)
           < MaxClickCandidates + Cardinality(Requests)

\* What a parse has read is no older than what was counted, unless another was
\* under way.
ParsedInOrder ==
    /\ newest.draws <= draws
    /\ \A r \in Requests : clicking[r].at = "collect" => clicking[r].draws <= draws
    /\ ~crossedScenes =>
           \A r \in Requests : clicking[r].at = "collect" =>
               /\ newest.draws <= clicking[r].draws
               /\ \A q \in Requests : clicking[q].at = "collect" => q = r

CandidatesInv == CandidatesType /\ RoomForClicks /\ ParsedInOrder /\ Candidates

ClickersOf(t) == {c \in clicks : c[2] = t}

LEMMA ClickCardinality ==
    ASSUME NEW S
    PROVE  Click!Cardinality(S) = Cardinality(S) /\ (Click!IsFiniteSet(S) <=> IsFiniteSet(S))
  BY DEF Click!Cardinality, Cardinality, Click!IsFiniteSet, IsFiniteSet

LEMMA ClickFinite ==
    /\ IsFiniteSet(Clickers) /\ IsFiniteSet(Requests)
    /\ Cardinality(Requests) \in Nat /\ MaxClickCandidates \in Nat \ {0}
  BY RequestsAssumption, ClickCardinality, FS_CardinalityType DEF Click!CandidatesAssumption

\* Those who clicked on one word.
LEMMA ClickersOfFinite ==
    ASSUME CandidatesType, NEW t \in Clickable
    PROVE  IsFiniteSet(ClickersOf(t)) /\ Cardinality(ClickersOf(t)) \in Nat
  <1>1. IsFiniteSet(Clickers \X {t})
    BY ClickFinite, FS_Singleton, FS_Product
  <1>2. ClickersOf(t) \subseteq Clickers \X {t}
    BY DEF ClickersOf, CandidatesType
  <1>3. QED
    BY <1>1, <1>2, FS_Subset, FS_CardinalityType

LEMMA NewClicksFinite == IsFiniteSet(NewClicks) /\ Cardinality(NewClicks) \in Nat
                         /\ Cardinality(NewClicks) <= Cardinality(Requests)
  <1>1. NewClicks \subseteq Requests
    BY DEF NewClicks
  <1>2. QED
    BY <1>1, ClickFinite, FS_Subset, FS_CardinalityType

LEMMA CandidatesInit == ASSUME Init PROVE CandidatesInv
  <1>1. Click!Init
    BY DEF Init
  <1>2. CandidatesType
    BY <1>1 DEF Click!Init, Click!Blank, Click!Free, CandidatesType, Scene, ClickingType
  <1>3. Click!ClickCandidates = {} /\ NewClicks = {} /\ \A t \in Clickable : ClickersOf(t) = {}
    BY <1>1 DEF Click!Init, Click!Blank, Click!Free, Click!ClickCandidates, NewClicks, ClickersOf
  <1>4. RoomForClicks /\ Click!SoftClickCap
    BY <1>3, FS_EmptySet, ClickFinite, ClickCardinality DEF RoomForClicks, Click!SoftClickCap
  <1>5. Click!CountIsClickers
    <2>1. ASSUME NEW t \in Clickable
          PROVE  clicked[t] = Click!Cardinality({c \in clicks : c[2] = t})
      BY <1>1, <1>3, FS_EmptySet, ClickCardinality DEF Click!Init, Click!Blank, ClickersOf
    <2>2. QED
      BY <2>1 DEF Click!CountIsClickers
  <1>6. ParsedInOrder /\ Click!CountsOneScene
    BY <1>1 DEF Click!Init, Click!Blank, Click!Free, ParsedInOrder, Click!CountsOneScene
  <1>7. QED
    BY <1>2, <1>4, <1>5, <1>6 DEF CandidatesInv, Candidates

\* What the steps that click on nothing leave as it is.
LEMMA ClicksKept ==
    ASSUME CandidatesInv, UNCHANGED <<clicks, clicked>>, NewClicks' \subseteq NewClicks
    PROVE  RoomForClicks' /\ Click!CountIsClickers' /\ Click!SoftClickCap'
  <1>1. Cardinality(NewClicks') <= Cardinality(NewClicks) /\ Cardinality(NewClicks') \in Nat
    BY NewClicksFinite, FS_Subset, FS_CardinalityType
  <1>2. Click!ClickCandidates' = Click!ClickCandidates
    BY DEF Click!ClickCandidates
  <1>3. Cardinality(Click!ClickCandidates) \in Nat
    BY FS_CardinalityType DEF CandidatesInv, RoomForClicks
  <1>4. RoomForClicks'
    BY <1>1, <1>2, <1>3, ClickFinite, NewClicksFinite DEF CandidatesInv, RoomForClicks
  <1>5. QED
    BY <1>2, <1>4 DEF CandidatesInv, Candidates, Click!CountIsClickers, Click!SoftClickCap

LEMMA ClickBeginsStep ==
    ASSUME CandidatesInv, NEW t \in Clickable, NEW r \in Requests, NEW s \in Clickers,
           Click!ClickBegins(r, s, t)
    PROVE  CandidatesInv'
  <1> DEFINE ask == [at |-> "click", student |-> s, term |-> t]
  <1>1. /\ clicking' = [clicking EXCEPT ![r] = ask]
        /\ clicking[r] = Click!Free
        /\ UNCHANGED <<window, scene, draws, clicks, clicked, onBoard, manual, newest,
                       crossedScenes>>
    BY DEF Click!ClickBegins
  <1>2. CandidatesType'
    BY <1>1 DEF CandidatesInv, CandidatesType, ClickingType, Scene
  <1>3. /\ clicking'[r].at = "click" /\ clicking'[r].term = t
        /\ \A q \in Requests : q # r => clicking'[q] = clicking[q]
    BY <1>1 DEF CandidatesInv, CandidatesType
  <1>4. ParsedInOrder'
    BY <1>1, <1>3 DEF CandidatesInv, ParsedInOrder, Click!Free
  <1>5. Click!CountsOneScene'
    BY <1>1 DEF CandidatesInv, Candidates, Click!CountsOneScene
  <1>6. CASE t \in Click!ClickCandidates
    <2>1. NewClicks' \subseteq NewClicks
      BY <1>1, <1>3, <1>6 DEF NewClicks, Click!ClickCandidates
    <2>2. QED
      BY <1>1, <1>2, <1>4, <1>5, <2>1, ClicksKept DEF CandidatesInv, Candidates
  <1>7. CASE t \notin Click!ClickCandidates
    <2>1. Cardinality(Click!ClickCandidates) < MaxClickCandidates
      BY <1>7, ClickCardinality DEF Click!ClickBegins, Click!MayBeNew
    <2>2. Click!ClickCandidates' = Click!ClickCandidates
      BY <1>1 DEF Click!ClickCandidates
    <2>3. Cardinality(NewClicks') \in Nat /\ Cardinality(NewClicks') <= Cardinality(Requests)
      <3>1. NewClicks' \subseteq Requests
        BY DEF NewClicks
      <3>2. QED
        BY <3>1, ClickFinite, FS_Subset, FS_CardinalityType
    <2>4. Cardinality(Click!ClickCandidates) \in Nat
      BY FS_CardinalityType DEF CandidatesInv, RoomForClicks
    <2>5. RoomForClicks'
      BY <2>1, <2>2, <2>3, <2>4, ClickFinite DEF CandidatesInv, RoomForClicks
    <2>6. Click!CountIsClickers' /\ Click!SoftClickCap'
      BY <1>1, <2>2 DEF CandidatesInv, Candidates, Click!CountIsClickers, Click!SoftClickCap
    <2>7. QED
      BY <1>2, <1>4, <1>5, <2>5, <2>6 DEF CandidatesInv, Candidates
  <1>8. QED
    BY <1>6, <1>7

LEMMA ClickEndsStep ==
    ASSUME CandidatesInv, NEW r \in Requests, Click!ClickEnds(r)
    PROVE  CandidatesInv'
  <1>1. PICK s \in Clickers : s = clicking[r].student
    BY DEF CandidatesInv, CandidatesType, ClickingType, Click!ClickEnds
  <1>2. PICK t \in Clickable : t = clicking[r].term
    BY DEF CandidatesInv, CandidatesType, ClickingType, Click!ClickEnds
  <1>3. /\ clicking[r].at = "click"
        /\ clicks' = clicks \cup {<<s, t>>}
        /\ clicked' = IF <<s, t>> \notin clicks THEN [clicked EXCEPT ![t] = @ + 1] ELSE clicked
        /\ clicking' = [clicking EXCEPT ![r] = Click!Free]
        /\ UNCHANGED <<window, scene, draws, onBoard, manual, newest, crossedScenes>>
    BY <1>1, <1>2 DEF Click!ClickEnds, Click!FirstClick
  <1>4. CandidatesType'
    BY <1>3 DEF CandidatesInv, CandidatesType, ClickingType, Scene, Click!Free
  <1>5. /\ clicking'[r].at = "free"
        /\ \A q \in Requests : q # r => clicking'[q] = clicking[q]
    BY <1>3 DEF CandidatesInv, CandidatesType, Click!Free
  <1>6. ParsedInOrder' /\ Click!CountsOneScene'
    BY <1>3, <1>5 DEF CandidatesInv, Candidates, ParsedInOrder, Click!CountsOneScene
  <1>7. \A w \in Clickable : w # t => ClickersOf(w)' = ClickersOf(w)
    BY <1>3 DEF ClickersOf
  <1>8. ClickersOf(t)' = ClickersOf(t) \cup {<<s, t>>}
    BY <1>3 DEF ClickersOf
  <1>9. \A w \in Clickable : clicked[w] = Cardinality(ClickersOf(w))
    BY ClickCardinality DEF CandidatesInv, Candidates, Click!CountIsClickers, ClickersOf
  <1>10. \A w \in Clickable : w # t => clicked'[w] = clicked[w]
    BY <1>3 DEF CandidatesInv, CandidatesType
  <1>11. <<s, t>> \in ClickersOf(t) <=> <<s, t>> \in clicks
    BY DEF ClickersOf
  <1>12. clicked'[t] = Cardinality(ClickersOf(t)') /\ clicked'[t] > 0
    <2>1. IsFiniteSet(ClickersOf(t)) /\ Cardinality(ClickersOf(t)) \in Nat
      BY ClickersOfFinite DEF CandidatesInv
    <2>2. CASE <<s, t>> \notin clicks
      <3>1. clicked'[t] = clicked[t] + 1
        BY <1>3, <2>2 DEF CandidatesInv, CandidatesType
      <3>2. Cardinality(ClickersOf(t)') = Cardinality(ClickersOf(t)) + 1
        BY <1>8, <1>11, <2>1, <2>2, FS_AddElement
      <3>3. QED
        BY <1>9, <2>1, <3>1, <3>2
    <2>3. CASE <<s, t>> \in clicks
      <3>1. ClickersOf(t)' = ClickersOf(t) /\ ClickersOf(t) # {}
        BY <1>8, <1>11, <2>3
      <3>2. Cardinality(ClickersOf(t)) # 0
        BY <2>1, <3>1, FS_EmptySet
      <3>3. QED
        BY <1>3, <1>9, <2>1, <2>3, <3>1, <3>2
    <2>4. QED
      BY <2>2, <2>3
  <1>13. Click!CountIsClickers'
    <2>1. ASSUME NEW w \in Clickable
          PROVE  clicked'[w] = Click!Cardinality({c \in clicks' : c[2] = w})
      <3>1. clicked'[w] = Cardinality(ClickersOf(w)')
        BY <1>7, <1>9, <1>10, <1>12
      <3>2. QED
        BY <3>1, ClickCardinality DEF ClickersOf
    <2>2. QED
      BY <2>1 DEF Click!CountIsClickers
  <1>14. RoomForClicks'
    <2>1. Click!ClickCandidates' = Click!ClickCandidates \cup {t}
      BY <1>10, <1>12 DEF Click!ClickCandidates
    <2>2. NewClicks' \subseteq NewClicks \ {r}
      BY <1>5, <1>3, <1>10, <1>12 DEF NewClicks, CandidatesInv, CandidatesType, ClickingType
    <2>3. /\ IsFiniteSet(NewClicks \ {r})
          /\ Cardinality(NewClicks \ {r}) =
                 IF r \in NewClicks THEN Cardinality(NewClicks) - 1 ELSE Cardinality(NewClicks)
      BY NewClicksFinite, FS_RemoveElement
    <2>4. Cardinality(NewClicks') <= Cardinality(NewClicks \ {r}) /\ Cardinality(NewClicks') \in Nat
      BY <2>2, <2>3, FS_Subset, FS_CardinalityType
    <2>5. /\ IsFiniteSet(Click!ClickCandidates')
          /\ Cardinality(Click!ClickCandidates') =
                 IF t \in Click!ClickCandidates THEN Cardinality(Click!ClickCandidates)
                 ELSE Cardinality(Click!ClickCandidates) + 1
      BY <2>1, FS_AddElement DEF CandidatesInv, RoomForClicks
    <2>6. t \notin Click!ClickCandidates => r \in NewClicks
      BY <1>2, <1>3 DEF Click!ClickCandidates, NewClicks, CandidatesInv, CandidatesType
    <2>7. Cardinality(Click!ClickCandidates) \in Nat /\ Cardinality(NewClicks) \in Nat
      BY NewClicksFinite, FS_CardinalityType DEF CandidatesInv, RoomForClicks
    <2>8. QED
      BY <2>3, <2>4, <2>5, <2>6, <2>7, ClickFinite DEF CandidatesInv, RoomForClicks
  <1>15. Click!SoftClickCap'
    <2>1. Cardinality(Click!ClickCandidates') \in Nat /\ Cardinality(NewClicks') \in Nat
      <3>1. NewClicks' \subseteq Requests
        BY DEF NewClicks
      <3>2. QED
        BY <1>14, <3>1, ClickFinite, FS_Subset, FS_CardinalityType DEF RoomForClicks
    <2>2. QED
      BY <1>14, <2>1, ClickFinite, ClickCardinality DEF RoomForClicks, Click!SoftClickCap
  <1>16. QED
    BY <1>4, <1>6, <1>13, <1>14, <1>15 DEF CandidatesInv, Candidates

\* The whiteboard is read.
LEMMA CollectReadsStep ==
    ASSUME CandidatesInv, NEW r \in Requests, Click!CollectReads(r)
    PROVE  CandidatesInv'
  <1>1. /\ clicking' = [clicking EXCEPT ![r] = [at |-> "collect", scene |-> scene, draws |-> draws]]
        /\ UNCHANGED <<window, scene, draws, clicks, clicked, onBoard, manual, newest>>
    BY DEF Click!CollectReads
  <1>2. CandidatesType'
    BY <1>1 DEF CandidatesInv, CandidatesType, ClickingType, Scene
  <1>3. /\ clicking'[r].at = "collect" /\ clicking'[r].draws = draws
        /\ \A q \in Requests : q # r => clicking'[q] = clicking[q]
    BY <1>1 DEF CandidatesInv, CandidatesType
  <1>4. crossedScenes' <=> crossedScenes \/ \E o \in Requests : clicking[o].at = "collect"
    BY DEF Click!CollectReads
  <1>5. ParsedInOrder'
    BY <1>1, <1>3, <1>4 DEF CandidatesInv, CandidatesType, ParsedInOrder
  <1>6. Click!CountsOneScene'
    BY <1>1, <1>4 DEF CandidatesInv, Candidates, Click!CountsOneScene
  <1>7. NewClicks' \subseteq NewClicks
    BY <1>1, <1>3 DEF NewClicks
  <1>8. QED
    BY <1>1, <1>2, <1>5, <1>6, <1>7, ClicksKept DEF CandidatesInv, Candidates

LEMMA SaveCandidatesStep ==
    ASSUME CandidatesInv, NEW r \in Requests, Click!SaveWhiteboardCandidates(r)
    PROVE  CandidatesInv'
  <1>1. PICK seen \in Scene : seen = clicking[r].scene
    BY DEF CandidatesInv, CandidatesType, ClickingType, Click!SaveWhiteboardCandidates
  <1>2. PICK n \in Nat : n = clicking[r].draws
    BY DEF CandidatesInv, CandidatesType, ClickingType, Click!SaveWhiteboardCandidates
  <1>3. /\ clicking[r].at = "collect"
        /\ onBoard' = [t \in Clickable |-> IF seen[t] > 0 THEN seen[t] ELSE onBoard[t]]
        /\ newest' = IF n >= newest.draws THEN [scene |-> seen, draws |-> n] ELSE newest
        /\ clicking' = [clicking EXCEPT ![r] = Click!Free]
        /\ UNCHANGED <<window, scene, draws, clicks, clicked, manual, crossedScenes>>
    BY <1>1, <1>2 DEF Click!SaveWhiteboardCandidates, Click!Counted
  <1>4. CandidatesType'
    <2>1. (newest.scene \in Scene /\ newest.draws \in Nat)'
      BY <1>3 DEF CandidatesInv, CandidatesType
    <2>2. onBoard' \in Scene
      BY <1>3 DEF CandidatesInv, CandidatesType, Scene
    <2>3. clicking' \in [Requests -> ClickingType]
      BY <1>3 DEF CandidatesInv, CandidatesType, ClickingType, Click!Free
    <2>4. QED
      BY <1>3, <2>1, <2>2, <2>3 DEF CandidatesInv, CandidatesType
  <1>5. /\ clicking'[r].at = "free"
        /\ \A q \in Requests : q # r => clicking'[q] = clicking[q]
    BY <1>3 DEF CandidatesInv, CandidatesType, Click!Free
  <1>6. ~crossedScenes => newest.draws <= n /\ n <= draws
    BY <1>2, <1>3 DEF CandidatesInv, ParsedInOrder
  <1>7. newest'.draws <= draws'
    <2>1. newest.draws <= draws /\ n <= draws
      BY <1>2, <1>3 DEF CandidatesInv, ParsedInOrder
    <2>2. QED
      BY <1>3, <2>1
  <1>8. ParsedInOrder'
    BY <1>3, <1>5, <1>7 DEF CandidatesInv, ParsedInOrder
  <1>9. Click!CountsOneScene'
    <2>1. SUFFICES ASSUME ~crossedScenes, NEW t \in Clickable, newest'.scene[t] # 0
                   PROVE  onBoard'[t] = newest'.scene[t]
      BY <1>3 DEF Click!CountsOneScene
    <2>2. newest'.scene = seen
      BY <1>3, <1>6, <2>1 DEF CandidatesInv, CandidatesType
    <2>3. QED
      BY <1>3, <2>1, <2>2 DEF Scene
  <1>10. NewClicks' \subseteq NewClicks
    BY <1>3, <1>5 DEF NewClicks
  <1>11. QED
    BY <1>3, <1>4, <1>8, <1>9, <1>10, ClicksKept DEF CandidatesInv, Candidates

LEMMA CandidatesStep == ASSUME CandidatesInv, ClickNext PROVE CandidatesInv'
  <1>1. CASE UNCHANGED <<draws, scene, clicks, clicked, onBoard, newest, crossedScenes, clicking>>
    <2>1. CandidatesType' /\ ParsedInOrder' /\ Click!CountsOneScene' /\ NewClicks' = NewClicks
      BY <1>1 DEF CandidatesInv, Candidates, CandidatesType, ParsedInOrder,
                  Click!CountsOneScene, NewClicks
    <2>2. QED
      BY <1>1, <2>1, ClicksKept DEF CandidatesInv, Candidates
  <1>2. ASSUME NEW t \in Drawable, NEW n \in 0..2, Click!Draw(t, n) PROVE CandidatesInv'
    <2>1. t \in Clickable /\ n \in Nat
      BY RequestsAssumption
    <2>2. /\ draws' = draws + 1 /\ scene' = [scene EXCEPT ![t] = n]
          /\ UNCHANGED <<clicks, clicked, onBoard, newest, crossedScenes, clicking>>
      BY <1>2 DEF Click!Draw
    <2>3. CandidatesType' /\ ParsedInOrder' /\ Click!CountsOneScene' /\ NewClicks' = NewClicks
      BY <2>1, <2>2 DEF CandidatesInv, Candidates, CandidatesType, ParsedInOrder,
                        Click!CountsOneScene, NewClicks, Scene, ClickingType
    <2>4. QED
      BY <2>2, <2>3, ClicksKept DEF CandidatesInv, Candidates
  <1>3. ASSUME NEW r \in Requests, Click!Fails(r) PROVE CandidatesInv'
    <2>1. /\ clicking' = [clicking EXCEPT ![r] = Click!Free]
          /\ UNCHANGED <<scene, draws, clicks, clicked, onBoard, newest, crossedScenes>>
      BY <1>3 DEF Click!Fails
    <2>2. /\ clicking'[r].at = "free"
          /\ \A q \in Requests : q # r => clicking'[q] = clicking[q]
      BY <2>1 DEF CandidatesInv, CandidatesType, Click!Free
    <2>3. CandidatesType'
      BY <2>1 DEF CandidatesInv, CandidatesType, ClickingType, Click!Free
    <2>4. ParsedInOrder' /\ Click!CountsOneScene' /\ NewClicks' \subseteq NewClicks
      BY <2>1, <2>2 DEF CandidatesInv, Candidates, ParsedInOrder, Click!CountsOneScene, NewClicks
    <2>5. QED
      BY <2>1, <2>3, <2>4, ClicksKept DEF CandidatesInv, Candidates
  <1>4. Click!CloseWindow \/ (\E t \in Drawable : Click!AddManualCandidates(t)) =>
            UNCHANGED <<draws, scene, clicks, clicked, onBoard, newest, crossedScenes, clicking>>
    BY DEF Click!CloseWindow, Click!AddManualCandidates
  <1>5. QED
    BY <1>1, <1>2, <1>3, <1>4, ClickBeginsStep, ClickEndsStep, CollectReadsStep,
       SaveCandidatesStep DEF ClickNext

LEMMA CandidatesInvariant == Spec => []CandidatesInv
  <1>1. CandidatesInv /\ UNCHANGED clickState => CandidatesInv'
    BY DEF clickState, CandidatesInv, CandidatesType, RoomForClicks, ParsedInOrder, Candidates,
           NewClicks, Click!ClickCandidates, Click!CountIsClickers, Click!SoftClickCap,
           Click!CountsOneScene
  <1>2. CandidatesInv /\ [Next]_vars => CandidatesInv'
    BY <1>1, CandidatesStep, PartsAlone
  <1>3. QED
    BY CandidatesInit, <1>2, PTL DEF Spec

\* The count of a clicked word is that of the people who clicked it, the cap on
\* clicked words gives way to those who click at once only, and the count of a
\* word of the whiteboard is that of one scene, for any number of people, words
\* and requests (store/lesson_terms.go).
THEOREM CandidatesCorrect == Spec => []Candidates
  BY CandidatesInvariant, PTL DEF CandidatesInv

-----------------------------------------------------------------------------
\* The guests of an event and the archive

JoinType ==
    [at : {"free", "came", "locked", "counted"}, link : Nat, end : Nat]

EventType ==
    /\ event \in [status : {"scheduled", "live", "gone"}, end : Nat]
    /\ guestLink \in Nat /\ issued \in Nat
    /\ join \in [Requests -> JoinType]
    /\ guests \subseteq Guests /\ IsFiniteSet(guests)
    /\ expires \in [Guests -> Nat]

\* Who holds the row of the event joins by its link and until its end.
JoinsAgree ==
    /\ guestLink # 0 => event.status # "gone"
    /\ \A r \in Requests :
           /\ join[r].at # "free" => join[r].link # 0
           /\ join[r].at \in {"locked", "counted"} =>
                  join[r].link = guestLink /\ join[r].end = event.end

\* Joins that have found a place.
Counted == {r \in Requests : join[r].at = "counted"}

RoomForJoins ==
    Cardinality(guests) + Cardinality(Counted) < MaxGuestsPerEvent + Cardinality(Requests)

EventInv ==
    /\ EventType /\ JoinsAgree /\ RoomForJoins
    /\ Event!SessionFollowsEvent /\ Event!SoftCap

LEMMA EventCardinality ==
    ASSUME NEW S
    PROVE  Event!Cardinality(S) = Cardinality(S) /\ (Event!IsFiniteSet(S) <=> IsFiniteSet(S))
  BY DEF Event!Cardinality, Cardinality, Event!IsFiniteSet, IsFiniteSet

LEMMA EventFacts ==
    /\ IsFiniteSet(Requests) /\ Cardinality(Requests) \in Nat
    /\ MaxGuestsPerEvent \in Nat \ {0} /\ Grace \in Nat
  BY RequestsAssumption, EventCardinality, FS_CardinalityType DEF Event!GuestAssumption

LEMMA CountedFinite ==
    /\ IsFiniteSet(Counted) /\ Cardinality(Counted) \in Nat
    /\ Cardinality(Counted) <= Cardinality(Requests)
  <1>1. Counted \subseteq Requests
    BY DEF Counted
  <1>2. QED
    BY <1>1, EventFacts, FS_Subset, FS_CardinalityType

LEMMA EventInit == ASSUME Init PROVE EventInv
  <1>1. Event!Init
    BY DEF Init
  <1>2. PICK end \in 1..Horizon : event = [status |-> "scheduled", end |-> end]
    BY <1>1 DEF Event!Init
  <1>3. EventType
    BY <1>1, <1>2, FS_EmptySet, RequestsAssumption
    DEF Event!Init, Event!Free, Event!GuestAssumption, EventType, JoinType
  <1>4. JoinsAgree /\ Event!SessionFollowsEvent /\ guests = {} /\ Counted = {}
    BY <1>1, <1>2 DEF Event!Init, Event!Free, JoinsAgree, Event!SessionFollowsEvent, Counted
  <1>5. RoomForJoins /\ Event!SoftCap
    BY <1>4, FS_EmptySet, EventFacts, EventCardinality DEF RoomForJoins, Event!SoftCap
  <1>6. QED
    BY <1>3, <1>4, <1>5 DEF EventInv

\* The cap follows from the places that joins under way have found.
LEMMA PlacesEnough ==
    ASSUME EventType, RoomForJoins
    PROVE  Event!SoftCap
  <1>1. Cardinality(guests) \in Nat
    BY FS_CardinalityType DEF EventType
  <1>2. QED
    BY <1>1, CountedFinite, EventFacts, EventCardinality DEF RoomForJoins, Event!SoftCap

LEMMA PlacesKept ==
    ASSUME EventInv, EventType', guests' = guests, Counted' \subseteq Counted
    PROVE  RoomForJoins' /\ Event!SoftCap'
  <1>1. Cardinality(Counted') \in Nat /\ Cardinality(Counted') <= Cardinality(Counted)
    BY CountedFinite, FS_Subset, FS_CardinalityType
  <1>2. Cardinality(guests) \in Nat
    BY FS_CardinalityType DEF EventInv, EventType
  <1>3. RoomForJoins'
    BY <1>1, <1>2, CountedFinite, EventFacts DEF EventInv, RoomForJoins
  <1>4. QED
    BY <1>1, <1>2, <1>3, EventFacts, EventCardinality DEF RoomForJoins, Event!SoftCap

\* The teacher's changes wait for the joins that hold the row.
LEMMA TeacherSteps ==
    ASSUME EventInv,
           \/ Event!Tick \/ Event!IssueLink \/ Event!RevokeLink \/ Event!CancelLesson
           \/ Event!StartLesson \/ \E end \in 1..Horizon : Event!RescheduleLesson(end)
           \/ \E g \in Guests : Event!Cleanup(g)
    PROVE  EventInv' /\ guests' \subseteq guests
  <1>1. CASE Event!Tick
    BY <1>1 DEF Event!Tick, EventInv, EventType, JoinsAgree, RoomForJoins, Counted,
                Event!SessionFollowsEvent, Event!SoftCap
  <1>2. CASE Event!IssueLink
    <2>1. /\ event.status # "gone" /\ guestLink' = issued + 1 /\ issued' = issued + 1
          /\ UNCHANGED <<event, join, guests, expires>>
          /\ \A r \in Requests : join[r].at \notin {"locked", "counted"}
      BY <1>2 DEF Event!IssueLink, Event!Locked
    <2>2. EventType' /\ JoinsAgree' /\ Event!SessionFollowsEvent'
      BY <2>1 DEF EventInv, EventType, JoinsAgree, Event!SessionFollowsEvent
    <2>3. QED
      BY <2>1, <2>2, PlacesKept DEF EventInv, Counted
  <1>3. CASE Event!RevokeLink
    <2>1. /\ guestLink' = 0 /\ UNCHANGED <<event, issued, join, guests, expires>>
          /\ \A r \in Requests : join[r].at \notin {"locked", "counted"}
      BY <1>3 DEF Event!RevokeLink, Event!Locked
    <2>2. EventType' /\ JoinsAgree' /\ Event!SessionFollowsEvent'
      BY <2>1 DEF EventInv, EventType, JoinsAgree, Event!SessionFollowsEvent
    <2>3. QED
      BY <2>1, <2>2, PlacesKept DEF EventInv, Counted
  <1>4. CASE Event!CancelLesson
    <2>1. /\ event' = [event EXCEPT !.status = "gone"] /\ guestLink' = 0 /\ guests' = {}
          /\ UNCHANGED <<issued, join, expires>>
          /\ \A r \in Requests : join[r].at \notin {"locked", "counted"}
      BY <1>4 DEF Event!CancelLesson, Event!Locked
    <2>2. EventType' /\ JoinsAgree' /\ Event!SessionFollowsEvent'
      BY <2>1, FS_EmptySet DEF EventInv, EventType, JoinsAgree, Event!SessionFollowsEvent
    <2>3. Counted' = {}
      BY <2>1 DEF Counted
    <2>4. RoomForJoins' /\ Event!SoftCap'
      BY <2>1, <2>3, FS_EmptySet, EventFacts, EventCardinality DEF RoomForJoins, Event!SoftCap
    <2>5. QED
      BY <2>1, <2>2, <2>4 DEF EventInv
  <1>5. CASE Event!StartLesson
    <2>1. /\ event.status = "scheduled" /\ event' = [event EXCEPT !.status = "live"]
          /\ UNCHANGED <<guestLink, issued, join, guests, expires>>
      BY <1>5 DEF Event!StartLesson
    <2>2. EventType' /\ JoinsAgree' /\ Event!SessionFollowsEvent'
      BY <2>1 DEF EventInv, EventType, JoinsAgree, Event!SessionFollowsEvent
    <2>3. QED
      BY <2>1, <2>2, PlacesKept DEF EventInv, Counted
  <1>6. ASSUME NEW end \in 1..Horizon, Event!RescheduleLesson(end)
        PROVE  EventInv' /\ guests' \subseteq guests
    <2>1. /\ event.status = "scheduled" /\ event' = [event EXCEPT !.end = end]
          /\ UNCHANGED <<guestLink, issued, join, guests>>
          /\ expires' = [g \in Guests |-> IF g \in guests /\ expires[g] # 0
                                          THEN end + Grace ELSE expires[g]]
          /\ \A r \in Requests : join[r].at \notin {"locked", "counted"}
      BY <1>6 DEF Event!RescheduleLesson, Event!Locked, Event!MovedSessions
    <2>2. end \in Nat
      BY RequestsAssumption DEF Event!GuestAssumption
    <2>3. EventType' /\ JoinsAgree' /\ Event!SessionFollowsEvent'
      BY <2>1, <2>2, EventFacts DEF EventInv, EventType, JoinsAgree, Event!SessionFollowsEvent
    <2>4. QED
      BY <2>1, <2>3, PlacesKept DEF EventInv, Counted
  <1>7. ASSUME NEW g \in Guests, Event!Cleanup(g) PROVE EventInv' /\ guests' \subseteq guests
    <2>1. /\ expires' = [expires EXCEPT ![g] = 0]
          /\ UNCHANGED <<event, guestLink, issued, join, guests>>
      BY <1>7 DEF Event!Cleanup
    <2>2. EventType' /\ JoinsAgree' /\ Event!SessionFollowsEvent'
      BY <2>1 DEF EventInv, EventType, JoinsAgree, Event!SessionFollowsEvent
    <2>3. QED
      BY <2>1, <2>2, PlacesKept DEF EventInv, Counted
  <1>8. QED
    BY <1>1, <1>2, <1>3, <1>4, <1>5, <1>6, <1>7

\* A join that goes on, or back, without finding a place.
LEMMA JoinMoves ==
    ASSUME EventInv, NEW r \in Requests, NEW x \in JoinType,
           join' = [join EXCEPT ![r] = x], x.at # "counted",
           x.at # "free" => x.link # 0,
           x.at = "locked" => x.link = guestLink /\ x.end = event.end,
           UNCHANGED <<event, guestLink, issued, guests, expires>>
    PROVE  EventInv'
  <1>1. join'[r] = x /\ \A q \in Requests : q # r => join'[q] = join[q]
    BY DEF EventInv, EventType
  <1>2. EventType'
    BY DEF EventInv, EventType
  <1>3. JoinsAgree' /\ Event!SessionFollowsEvent'
    BY <1>1 DEF EventInv, JoinsAgree, Event!SessionFollowsEvent
  <1>4. Counted' \subseteq Counted
    BY <1>1 DEF Counted
  <1>5. QED
    BY <1>2, <1>3, <1>4, PlacesKept DEF EventInv

LEMMA JoinSteps ==
    ASSUME EventInv, NEW r \in Requests,
           \/ \E n \in 1..issued : Event!Follow(r, n)
           \/ Event!LockLesson(r) \/ Event!CountGuests(r) \/ Event!Rollback(r)
    PROVE  EventInv' /\ guests' \subseteq guests
  <1>1. join[r] \in JoinType
    BY DEF EventInv, EventType
  <1>2. Event!Free \in JoinType /\ Event!Free.at = "free"
    BY DEF Event!Free, JoinType
  <1>3. ASSUME NEW n \in 1..issued, Event!Follow(r, n) PROVE EventInv' /\ guests' \subseteq guests
    <2>1. n \in Nat /\ n # 0
      BY DEF EventInv, EventType
    <2>2. [Event!Free EXCEPT !.at = "came", !.link = n] \in JoinType
      BY <2>1 DEF Event!Free, JoinType
    <2>3. QED
      BY <1>3, <2>1, <2>2, JoinMoves DEF Event!Follow, Event!Free
  <1>4. CASE Event!LockLesson(r)
    <2> DEFINE x == IF guestLink = join[r].link /\ event.end >= clock
                    THEN [join[r] EXCEPT !.at = "locked", !.end = event.end] ELSE Event!Free
    <2>1. /\ join[r].at = "came" /\ join' = [join EXCEPT ![r] = x]
          /\ UNCHANGED <<event, guestLink, issued, guests, expires>>
      BY <1>4 DEF Event!LockLesson
    <2>2. /\ x \in JoinType /\ x.at # "counted" /\ (x.at # "free" => x.link # 0)
          /\ x.at = "locked" => x.link = guestLink /\ x.end = event.end
      BY <1>1, <1>2, <2>1 DEF EventInv, EventType, JoinsAgree, JoinType
    <2> HIDE DEF x
    <2>3. QED
      BY <2>1, <2>2, JoinMoves
  <1>5. CASE Event!CountGuests(r)
    <2>1. CASE Event!Full(Event!Cardinality(guests))
      BY <1>2, <1>5, <2>1, JoinMoves DEF Event!CountGuests
    <2>2. CASE ~Event!Full(Event!Cardinality(guests))
      <3>1. /\ join[r].at = "locked" /\ join' = [join EXCEPT ![r] = [@ EXCEPT !.at = "counted"]]
            /\ UNCHANGED <<event, guestLink, issued, guests, expires>>
        BY <1>5, <2>2 DEF Event!CountGuests
      <3>2. /\ join'[r].at = "counted" /\ join'[r].link = join[r].link
            /\ join'[r].end = join[r].end
            /\ \A q \in Requests : q # r => join'[q] = join[q]
            /\ join' \in [Requests -> JoinType]
        BY <1>1, <3>1 DEF EventInv, EventType, JoinType
      <3>3. EventType'
        BY <3>1, <3>2 DEF EventInv, EventType
      <3>4. JoinsAgree' /\ Event!SessionFollowsEvent'
        BY <3>1, <3>2 DEF EventInv, JoinsAgree, Event!SessionFollowsEvent
      <3>5. Cardinality(guests) \in Nat /\ Cardinality(guests) < MaxGuestsPerEvent
        BY <2>2, FS_CardinalityType, EventFacts, EventCardinality
        DEF Event!Full, EventInv, EventType
      <3>6. Cardinality(Counted') \in Nat /\ Cardinality(Counted') <= Cardinality(Requests)
        <4>1. Counted' \subseteq Requests
          BY DEF Counted
        <4>2. QED
          BY <4>1, EventFacts, FS_Subset, FS_CardinalityType
      <3>7. RoomForJoins' /\ Event!SoftCap'
        BY <3>1, <3>5, <3>6, EventFacts, EventCardinality DEF RoomForJoins, Event!SoftCap
      <3>8. QED
        BY <3>1, <3>3, <3>4, <3>7 DEF EventInv
    <2>3. QED
      BY <2>1, <2>2
  <1>6. CASE Event!Rollback(r)
    BY <1>2, <1>6, JoinMoves DEF Event!Rollback
  <1>7. QED
    BY <1>3, <1>4, <1>5, <1>6

LEMMA CommitJoinStep ==
    ASSUME EventInv, NEW r \in Requests, NEW g \in Guests, Event!CommitJoin(r, g)
    PROVE  EventInv' /\ guests' = guests \cup {g}
  <1>1. /\ join[r].at = "counted" /\ g \notin guests /\ guests' = guests \cup {g}
        /\ expires' = [expires EXCEPT ![g] = join[r].end + Grace]
        /\ join' = [join EXCEPT ![r] = Event!Free]
        /\ UNCHANGED <<event, guestLink, issued>>
    BY DEF Event!CommitJoin
  <1>2. join[r] \in JoinType /\ join[r].end = event.end
    BY <1>1 DEF EventInv, EventType, JoinsAgree
  <1>3. join'[r].at = "free" /\ \A q \in Requests : q # r => join'[q] = join[q]
    BY <1>1 DEF EventInv, EventType, Event!Free
  <1>4. EventType'
    <2>1. IsFiniteSet(guests')
      BY <1>1, FS_AddElement DEF EventInv, EventType
    <2>2. join' \in [Requests -> JoinType]
      BY <1>1 DEF EventInv, EventType, Event!Free, JoinType
    <2>3. expires' \in [Guests -> Nat]
      BY <1>1, <1>2, EventFacts DEF EventInv, EventType, JoinType
    <2>4. QED
      BY <1>1, <2>1, <2>2, <2>3 DEF EventInv, EventType
  <1>5. JoinsAgree'
    BY <1>1, <1>3 DEF EventInv, JoinsAgree
  <1>6. Event!SessionFollowsEvent'
    BY <1>1, <1>2 DEF EventInv, EventType, Event!SessionFollowsEvent
  <1>7. Cardinality(guests') = Cardinality(guests) + 1 /\ Cardinality(guests) \in Nat
    BY <1>1, FS_AddElement, FS_CardinalityType DEF EventInv, EventType
  <1>8. Cardinality(Counted') = Cardinality(Counted) - 1
    <2>1. Counted' = Counted \ {r} /\ r \in Counted
      BY <1>1, <1>3 DEF Counted
    <2>2. QED
      BY <2>1, CountedFinite, FS_RemoveElement
  <1>9. RoomForJoins'
    BY <1>7, <1>8, CountedFinite, EventFacts DEF EventInv, RoomForJoins
  <1>10. Cardinality(Counted') \in Nat
    <2>1. Counted' \subseteq Requests
      BY DEF Counted
    <2>2. QED
      BY <2>1, EventFacts, FS_Subset, FS_CardinalityType
  <1>11. Event!SoftCap'
    BY <1>7, <1>9, <1>10, EventFacts, EventCardinality DEF RoomForJoins, Event!SoftCap
  <1>12. QED
    BY <1>1, <1>4, <1>5, <1>6, <1>9, <1>11 DEF EventInv

JoinedByValidLink ==
    \A g \in guests' \ guests :
        /\ event.status # "gone"
        /\ \E r \in Requests : join[r].at = "counted" /\ join[r].link = guestLink

LEMMA EventStep == ASSUME EventInv, EventNext PROVE EventInv' /\ JoinedByValidLink
  <1>1. ASSUME NEW r \in Requests, NEW g \in Guests, Event!CommitJoin(r, g)
        PROVE  EventInv' /\ JoinedByValidLink
    <2>1. EventInv' /\ guests' = guests \cup {g}
      BY <1>1, CommitJoinStep
    <2>2. join[r].at = "counted"
      BY <1>1 DEF Event!CommitJoin
    <2>3. join[r].link = guestLink /\ guestLink # 0 /\ event.status # "gone"
      BY <2>2 DEF EventInv, JoinsAgree
    <2>4. QED
      BY <2>1, <2>2, <2>3 DEF JoinedByValidLink
  <1>2. CASE guests' \subseteq guests /\ EventInv'
    BY <1>2 DEF JoinedByValidLink
  <1>3. QED
    BY <1>1, <1>2, TeacherSteps, JoinSteps DEF EventNext

LEMMA EventKept == EventInv /\ UNCHANGED eventState => EventInv' /\ JoinedByValidLink
  BY DEF eventState, EventInv, EventType, JoinsAgree, RoomForJoins, Counted,
         Event!SessionFollowsEvent, Event!SoftCap, JoinedByValidLink

RoomInv ==
    /\ phase \in 1..5 /\ status \in {"scheduled", "live", "processing"}
    /\ lostCalls \in Nat
    /\ {archived, token, inRoom, lateToken, margin, absent} \subseteq BOOLEAN
    /\ phase = 1 => ~token /\ ~inRoom
    /\ status = "processing" => phase = 5
    /\ Room!ArchivedOutOfLesson

\* The phases of the clock, by number.
LEMMA RoomPhases ==
    /\ Len(Room!Phases) = 5
    /\ \A p \in 1..5 : /\ Room!Phases[p] \in Room!Window <=> p \in 2..4
                       /\ Room!Phases[p] = "on" <=> p = 3
                       /\ Room!Phases[p] = "over" <=> p = 5
                       /\ Room!Phases[p] \in {"early", "late", "over"} <=> p \in {2, 4, 5}
  BY DEF Room!Phases, Room!Window

LEMMA RoomConstants == Room!RoomAssumption
  BY RequestsAssumption

LEMMA RoomInit == ASSUME Init PROVE RoomInv
  <1>1. Room!Init
    BY DEF Init
  <1>2. QED
    <2>1. ~token /\ ~inRoom /\ ~archived /\ ~lateToken /\ ~margin /\ ~absent
      BY <1>1 DEF Room!Init
    <2>2. {archived, token, inRoom, lateToken, margin, absent} \subseteq BOOLEAN
      BY <1>1 DEF Room!Init
    <2>3. phase = 1 /\ status = "scheduled" /\ lostCalls = 0
      BY <1>1 DEF Room!Init
    <2>4. QED
      BY <2>1, <2>2, <2>3 DEF RoomInv, Room!ArchivedOutOfLesson

LEMMA RoomStep == ASSUME RoomInv, RoomNext PROVE RoomInv'
  <1> USE RoomPhases, RoomConstants
      DEF RoomInv, Room!ArchivedOutOfLesson, Room!Archived, Room!person, Room!history
  <1>1. CASE Room!Tick
    BY <1>1 DEF Room!Tick
  <1>2. CASE Room!StartRecording
    BY <1>2 DEF Room!StartRecording
  <1>3. CASE Room!CloseLesson
    BY <1>3 DEF Room!CloseLesson
  <1>4. CASE Room!EnterRoom
    BY <1>4 DEF Room!EnterRoom
  <1>5. CASE Room!LeaveRoom
    BY <1>5 DEF Room!LeaveRoom
  <1>6. CASE Room!TokenExpires
    BY <1>6 DEF Room!TokenExpires
  <1>7. CASE Room!DeactivateUser
    BY <1>7 DEF Room!DeactivateUser
  <1>8. CASE Room!ListLessons
    BY <1>8 DEF Room!ListLessons, Room!LiveLessonsOf
  <1>9. CASE Room!RemoveParticipant
    BY <1>9 DEF Room!RemoveParticipant
  <1>10. CASE Room!RemovalFails
    BY <1>10 DEF Room!RemovalFails, Room!RoomAssumption
  <1>11. CASE Room!ReactivateUser
    BY <1>11 DEF Room!ReactivateUser
  <1>12. CASE Room!LoadSession
    BY <1>12 DEF Room!LoadSession
  <1>13. CASE Room!SignToken
    BY <1>13 DEF Room!SignToken
  <1>14. CASE Room!RefuseToken
    BY <1>14 DEF Room!RefuseToken
  <1>15. QED
    BY <1>1, <1>2, <1>3, <1>4, <1>5, <1>6, <1>7, <1>8, <1>9, <1>10, <1>11, <1>12, <1>13, <1>14 DEF RoomNext

LEMMA RoomKept == RoomInv /\ UNCHANGED roomState => RoomInv'
  BY DEF roomState, RoomInv, Room!ArchivedOutOfLesson, Room!Archived

LEMMA AccessInvariant == Spec => [](EventInv /\ RoomInv)
  <1>1. EventInv /\ RoomInv /\ [Next]_vars => (EventInv /\ RoomInv)'
    BY PartsAlone, EventStep, EventKept, RoomStep, RoomKept
  <1>2. QED
    BY EventInit, RoomInit, <1>1, PTL DEF Spec

\* Guests join by the link of the moment and keep their session as long as
\* their event lasts; those who join at once exceed the cap by one each at most;
\* who was archived is out of the room of a lesson under way: for any number of
\* guests, joins, links, archives and failures (store/guests.go,
\* httpapi/users.go, store/users.go).
THEOREM AccessCorrect == Spec => Access
  <1>1. Spec => [](Event!SessionFollowsEvent /\ Event!SoftCap /\ Room!ArchivedOutOfLesson)
    BY AccessInvariant, PTL DEF EventInv, RoomInv
  <1>2. EventInv /\ [Next]_vars => 
            [\A g \in guests' \ guests :
                 event.status # "gone"
                 /\ \E r \in Requests : join[r].at = "counted" /\ join[r].link = guestLink]_(Event!vars)
    BY PartsAlone, EventStep, EventKept DEF JoinedByValidLink
  <1>3. Spec => Event!JoinsByValidLink
    BY AccessInvariant, <1>2, PTL DEF Spec, Event!JoinsByValidLink
  <1>4. QED
    BY <1>1, <1>3, PTL DEF Access

-----------------------------------------------------------------------------
\* The words of a lesson

Known == [status : Nat, source : {"none", "this", "other"}]

AssigningType ==
    [at : {"free"}]
        \cup [at : {"deleting", "inserting", "committing"}, terms : SUBSET Terms,
              gone : SUBSET Terms, new : SUBSET Terms]
        \cup [at : {"assign", "assigned"}, students : SUBSET Students, terms : SUBSET Terms,
              left : SUBSET (Students \X Terms)]

LessonWordsType ==
    /\ candidates \subseteq Terms /\ confirmed \subseteq Terms
    /\ owned \in [Students -> [Terms -> Known]]
    /\ assigning \in [Requests -> AssigningType]

\* One list is saved at a time, unless they are mixed, and it is about to
\* replace the one there is.
SavesWhole ==
    ~mixed =>
        \A r \in List!At(List!Saving) :
            /\ \A q \in List!At(List!Saving) : q = r
            /\ assigning[r].at \in {"inserting", "committing"} =>
                   assigning[r].gone = confirmed \ assigning[r].terms
            /\ assigning[r].at = "committing" =>
                   assigning[r].new = assigning[r].terms \ confirmed

\* What an assignment has not left for later, the student has or removed.
AssignsAll ==
    \A r \in List!At({"assign"}) : \A s \in assigning[r].students, t \in assigning[r].terms :
        <<s, t>> \in assigning[r].left \/ owned[s][t].status # 0 \/ <<s, t>> \in removed

LessonWordsInv ==
    /\ LessonWordsType /\ SavesWhole /\ AssignsAll
    /\ List!OneWholeList /\ List!AssignedToAll

LEMMA LessonWordsInit == ASSUME Init PROVE LessonWordsInv
  <1>1. List!Init
    BY DEF Init
  <1>2. LessonWordsType
    BY <1>1 DEF List!Init, List!Free, List!NoWord, LessonWordsType, Known, AssigningType
  <1>3. \A r \in Requests : assigning[r].at = "free"
    BY <1>1 DEF List!Init, List!Free
  <1>4. List!OneWholeList
    BY <1>1 DEF List!Init, List!OneWholeList
  <1>5. QED
    BY <1>2, <1>3, <1>4
    DEF LessonWordsInv, SavesWhole, AssignsAll, List!At, List!Saving, List!AssignedToAll

\* The dictionaries and the removed words as a request that assigns nothing
\* leaves them.
LEMMA AssignsKept ==
    ASSUME LessonWordsInv, NEW r \in Requests, NEW x \in AssigningType,
           assigning' = [assigning EXCEPT ![r] = x], x.at \notin {"assign", "assigned"},
           UNCHANGED <<owned, removed>>
    PROVE  /\ AssignsAll' /\ List!AssignedToAll'
           /\ assigning' \in [Requests -> AssigningType]
           /\ assigning'[r] = x /\ \A q \in Requests : q # r => assigning'[q] = assigning[q]
  <1>1. /\ assigning' \in [Requests -> AssigningType]
        /\ assigning'[r] = x /\ \A q \in Requests : q # r => assigning'[q] = assigning[q]
    BY DEF LessonWordsInv, LessonWordsType
  <1>2. QED
    BY <1>1 DEF LessonWordsInv, AssignsAll, List!AssignedToAll, List!At

\* The list and who saves one as a request that saves nothing leaves them.
LEMMA SavesKept ==
    ASSUME LessonWordsInv, UNCHANGED <<confirmed, list, mixed>>,
           \A q \in Requests : assigning'[q] = assigning[q]
                             \/ assigning'[q].at \notin {"deleting", "inserting", "committing"}
    PROVE  SavesWhole' /\ List!OneWholeList'
  BY DEF LessonWordsInv, SavesWhole, List!OneWholeList, List!At, List!Saving

AssignKept ==
    \A s \in Students, t \in Terms :
        /\ owned[s][t].status = 5 => owned'[s][t].status \in {0, 5}
        /\ owned[s][t].source # "none" =>
               owned'[s][t] = List!NoWord \/ owned'[s][t].source = owned[s][t].source

LEMMA SetBeginsStep ==
    ASSUME LessonWordsInv, NEW r \in Requests, NEW ts \in SUBSET Terms, List!SetBegins(r, ts)
    PROVE  LessonWordsInv' /\ AssignKept
  <1> DEFINE x == [at |-> "deleting", terms |-> ts, gone |-> {}, new |-> {}]
  <1>1. /\ assigning[r] = List!Free /\ assigning' = [assigning EXCEPT ![r] = x]
        /\ mixed' <=> mixed \/ List!At(List!Saving) # {}
        /\ UNCHANGED <<candidates, confirmed, owned, list, removed>>
    BY DEF List!SetBegins
  <1>2. x \in AssigningType /\ x.at = "deleting"
    BY DEF AssigningType
  <1> HIDE DEF x
  <1>3. /\ AssignsAll' /\ List!AssignedToAll'
        /\ assigning' \in [Requests -> AssigningType]
        /\ assigning'[r] = x /\ \A q \in Requests : q # r => assigning'[q] = assigning[q]
    BY <1>1, <1>2, AssignsKept
  <1>4. SavesWhole'
    BY <1>1, <1>2, <1>3 DEF LessonWordsInv, SavesWhole, List!At, List!Saving
  <1>5. List!OneWholeList'
    BY <1>1 DEF LessonWordsInv, List!OneWholeList
  <1>6. AssignKept
    BY <1>1 DEF AssignKept
  <1>7. QED
    BY <1>1, <1>3, <1>4, <1>5, <1>6 DEF LessonWordsInv, LessonWordsType

LEMMA SavingRecord ==
    ASSUME LessonWordsInv, NEW r \in Requests,
           assigning[r].at \in {"deleting", "inserting", "committing"}
    PROVE  assigning[r] \in [at : {"deleting", "inserting", "committing"}, terms : SUBSET Terms,
                            gone : SUBSET Terms, new : SUBSET Terms]
  BY DEF LessonWordsInv, LessonWordsType, AssigningType

LEMMA SetDeletesStep ==
    ASSUME LessonWordsInv, NEW r \in Requests, List!SetDeletes(r)
    PROVE  LessonWordsInv' /\ AssignKept
  <1> DEFINE x == [assigning[r] EXCEPT !.gone = confirmed \ assigning[r].terms, !.at = "inserting"]
  <1>1. /\ assigning[r].at = "deleting"
        /\ UNCHANGED <<candidates, confirmed, owned, list, mixed, removed>>
    BY DEF List!SetDeletes
  <1>2. assigning' = [assigning EXCEPT ![r] = x]
    BY DEF List!SetDeletes, List!Dropped
  <1>3. /\ x \in AssigningType /\ x.at = "inserting" /\ x.terms = assigning[r].terms
        /\ x.gone = confirmed \ assigning[r].terms
    BY <1>1, SavingRecord DEF AssigningType, LessonWordsInv, LessonWordsType
  <1> HIDE DEF x
  <1>4. /\ AssignsAll' /\ List!AssignedToAll'
        /\ assigning' \in [Requests -> AssigningType]
        /\ assigning'[r] = x /\ \A q \in Requests : q # r => assigning'[q] = assigning[q]
    BY <1>1, <1>2, <1>3, AssignsKept
  <1>5. SavesWhole'
    BY <1>1, <1>3, <1>4 DEF LessonWordsInv, SavesWhole, List!At, List!Saving
  <1>6. List!OneWholeList' /\ AssignKept
    BY <1>1 DEF LessonWordsInv, List!OneWholeList, AssignKept
  <1>7. QED
    BY <1>1, <1>4, <1>5, <1>6 DEF LessonWordsInv, LessonWordsType

LEMMA SetInsertsStep ==
    ASSUME LessonWordsInv, NEW r \in Requests, List!SetInserts(r)
    PROVE  LessonWordsInv' /\ AssignKept
  <1> DEFINE x == [assigning[r] EXCEPT !.new = assigning[r].terms \ confirmed, !.at = "committing"]
  <1>1. /\ assigning[r].at = "inserting"
        /\ UNCHANGED <<candidates, confirmed, owned, list, mixed, removed>>
    BY DEF List!SetInserts
  <1>2. assigning' = [assigning EXCEPT ![r] = x]
    BY DEF List!SetInserts
  <1>3. /\ x \in AssigningType /\ x.at = "committing" /\ x.terms = assigning[r].terms
        /\ x.gone = assigning[r].gone /\ x.new = assigning[r].terms \ confirmed
    BY <1>1, SavingRecord DEF AssigningType
  <1> HIDE DEF x
  <1>4. /\ AssignsAll' /\ List!AssignedToAll'
        /\ assigning' \in [Requests -> AssigningType]
        /\ assigning'[r] = x /\ \A q \in Requests : q # r => assigning'[q] = assigning[q]
    BY <1>1, <1>2, <1>3, AssignsKept
  <1>5. SavesWhole'
    BY <1>1, <1>3, <1>4 DEF LessonWordsInv, SavesWhole, List!At, List!Saving
  <1>6. List!OneWholeList' /\ AssignKept
    BY <1>1 DEF LessonWordsInv, List!OneWholeList, AssignKept
  <1>7. QED
    BY <1>1, <1>4, <1>5, <1>6 DEF LessonWordsInv, LessonWordsType

LEMMA SetCommitsStep ==
    ASSUME LessonWordsInv, NEW r \in Requests, List!SetCommits(r)
    PROVE  LessonWordsInv' /\ AssignKept
  <1>1. /\ assigning[r].at = "committing"
        /\ confirmed' = (confirmed \ assigning[r].gone) \cup assigning[r].new
        /\ list' = assigning[r].terms /\ assigning' = [assigning EXCEPT ![r] = List!Free]
        /\ UNCHANGED <<candidates, owned, mixed, removed>>
    BY DEF List!SetCommits
  <1>2. List!Free \in AssigningType /\ List!Free.at = "free"
    BY DEF List!Free, AssigningType
  <1>3. /\ AssignsAll' /\ List!AssignedToAll'
        /\ assigning' \in [Requests -> AssigningType]
        /\ assigning'[r] = List!Free /\ \A q \in Requests : q # r => assigning'[q] = assigning[q]
    BY <1>1, <1>2, AssignsKept
  <1>4. confirmed' \subseteq Terms
    BY <1>1, SavingRecord DEF LessonWordsInv, LessonWordsType
  <1>5. ~mixed => confirmed' = assigning[r].terms
    BY <1>1 DEF LessonWordsInv, SavesWhole, List!At, List!Saving
  <1>6. SavesWhole'
    <2>1. ~mixed => \A q \in Requests : assigning'[q].at \notin List!Saving
      BY <1>1, <1>2, <1>3 DEF LessonWordsInv, SavesWhole, List!At, List!Saving
    <2>2. QED
      BY <1>1, <2>1 DEF SavesWhole, List!At
  <1>7. List!OneWholeList' /\ AssignKept
    BY <1>1, <1>5 DEF List!OneWholeList, AssignKept
  <1>8. QED
    BY <1>1, <1>3, <1>4, <1>6, <1>7 DEF LessonWordsInv, LessonWordsType

LEMMA AssignBeginsStep ==
    ASSUME LessonWordsInv, NEW r \in Requests, NEW ss \in SUBSET Students,
           List!AssignBegins(r, ss)
    PROVE  LessonWordsInv' /\ AssignKept
  <1> DEFINE x == [at |-> "assign", students |-> ss, terms |-> confirmed, left |-> ss \X confirmed]
  <1>1. /\ assigning[r] = List!Free /\ assigning' = [assigning EXCEPT ![r] = x]
        /\ removed' = IF List!At({"assign", "assigned"}) = {} THEN {} ELSE removed
        /\ UNCHANGED <<candidates, confirmed, owned, list, mixed>>
    BY DEF List!AssignBegins
  <1>2. /\ x \in AssigningType /\ x.at = "assign"
        /\ \A s \in x.students, t \in x.terms : <<s, t>> \in x.left
    BY DEF AssigningType, LessonWordsInv, LessonWordsType
  <1> HIDE DEF x
  <1>3. /\ assigning' \in [Requests -> AssigningType]
        /\ assigning'[r] = x /\ \A q \in Requests : q # r => assigning'[q] = assigning[q]
    BY <1>1, <1>2 DEF LessonWordsInv, LessonWordsType
  <1>4. SavesWhole' /\ List!OneWholeList'
    BY <1>1, <1>2, <1>3, SavesKept
  <1>5. CASE List!At({"assign", "assigned"}) = {}
    <2>1. \A q \in Requests : q # r => assigning'[q].at \notin {"assign", "assigned"}
      BY <1>3, <1>5 DEF List!At
    <2>2. AssignsAll' /\ List!AssignedToAll'
      BY <1>2, <1>3, <2>1 DEF AssignsAll, List!AssignedToAll, List!At
    <2>3. QED
      BY <1>1, <1>3, <1>4, <2>2 DEF LessonWordsInv, LessonWordsType, AssignKept
  <1>6. CASE List!At({"assign", "assigned"}) # {}
    <2>1. AssignsAll' /\ List!AssignedToAll'
      BY <1>1, <1>2, <1>3, <1>6 DEF LessonWordsInv, AssignsAll, List!AssignedToAll, List!At
    <2>2. QED
      BY <1>1, <1>3, <1>4, <2>1 DEF LessonWordsInv, LessonWordsType, AssignKept
  <1>7. QED
    BY <1>5, <1>6

LEMMA AssignOneStep ==
    ASSUME LessonWordsInv, NEW r \in Requests, NEW s \in Students, NEW t \in Terms,
           List!AssignOne(r, s, t)
    PROVE  LessonWordsInv' /\ AssignKept
  <1> DEFINE rest == assigning[r].left \ {<<s, t>>}
             x == [assigning[r] EXCEPT !.left = rest,
                                       !.at = IF rest = {} THEN "assigned" ELSE "assign"]
             w == List!Saved(owned[s][t], 0, "this")
  <1>1. /\ assigning[r].at = "assign" /\ <<s, t>> \in assigning[r].left
        /\ UNCHANGED <<candidates, confirmed, list, mixed, removed>>
    BY DEF List!AssignOne
  <1>2. assigning' = [assigning EXCEPT ![r] = x]
    BY DEF List!AssignOne, List!Rest
  <1>3. owned' = [owned EXCEPT ![s] = [owned[s] EXCEPT ![t] = w]]
    BY DEF List!AssignOne
  <1>4. assigning[r] \in [at : {"assign", "assigned"}, students : SUBSET Students,
                         terms : SUBSET Terms, left : SUBSET (Students \X Terms)]
    BY <1>1 DEF LessonWordsInv, LessonWordsType, AssigningType
  <1>5. /\ x \in AssigningType /\ x.students = assigning[r].students
        /\ x.terms = assigning[r].terms /\ x.left = rest
        /\ x.at = IF rest = {} THEN "assigned" ELSE "assign"
    BY <1>4 DEF AssigningType
  <1>6. owned[s] \in [Terms -> Known] /\ owned[s][t] \in Known
    BY DEF LessonWordsInv, LessonWordsType
  <1>7. /\ w \in Known /\ w.status # 0
        /\ owned[s][t].status # 0 => w.status = owned[s][t].status
        /\ owned[s][t].source # "none" => w.source = owned[s][t].source
    BY <1>6 DEF List!Saved, Known
  <1> HIDE DEF x, w
  <1>8. /\ owned' \in [Students -> [Terms -> Known]]
        /\ owned'[s][t] = w
        /\ \A ss \in Students, tt \in Terms : <<ss, tt>> # <<s, t>> => owned'[ss][tt] = owned[ss][tt]
    BY <1>3, <1>6, <1>7 DEF LessonWordsInv, LessonWordsType
  <1>9. /\ assigning' \in [Requests -> AssigningType]
        /\ assigning'[r] = x /\ \A q \in Requests : q # r => assigning'[q] = assigning[q]
    BY <1>2, <1>5 DEF LessonWordsInv, LessonWordsType
  <1>10. SavesWhole' /\ List!OneWholeList'
    BY <1>1, <1>5, <1>9, SavesKept
  <1>11. \A ss \in Students, tt \in Terms :
             owned[ss][tt].status # 0 \/ <<ss, tt>> = <<s, t>> => owned'[ss][tt].status # 0
    BY <1>7, <1>8
  <1>12. \A q \in Requests : assigning[q].at \in {"assign", "assigned"} =>
             assigning[q].students \subseteq Students /\ assigning[q].terms \subseteq Terms
    BY DEF LessonWordsInv, LessonWordsType, AssigningType
  <1>13. \A ss \in assigning[r].students, tt \in assigning[r].terms :
             <<ss, tt>> \in rest \/ owned'[ss][tt].status # 0 \/ <<ss, tt>> \in removed
    BY <1>1, <1>11, <1>12 DEF LessonWordsInv, AssignsAll, List!At
  <1>14. AssignsAll'
    BY <1>1, <1>5, <1>9, <1>11, <1>12, <1>13 DEF LessonWordsInv, AssignsAll, List!At
  <1>15. List!AssignedToAll'
    BY <1>1, <1>5, <1>9, <1>11, <1>12, <1>13 DEF LessonWordsInv, List!AssignedToAll, List!At
  <1>16. AssignKept
    BY <1>7, <1>8 DEF AssignKept
  <1>17. QED
    BY <1>1, <1>8, <1>9, <1>10, <1>14, <1>15, <1>16 DEF LessonWordsInv, LessonWordsType

LEMMA StudentSavesStep ==
    ASSUME LessonWordsInv, NEW s \in Students, NEW t \in Terms, NEW level \in {0, 5},
           NEW source \in {"none", "other"}, List!StudentSaves(s, t, level, source)
    PROVE  LessonWordsInv' /\ AssignKept
  <1> DEFINE w == List!Saved(owned[s][t], level, source)
  <1>1. /\ owned' = [owned EXCEPT ![s] = [owned[s] EXCEPT ![t] = w]]
        /\ UNCHANGED <<candidates, confirmed, assigning, list, mixed, removed>>
    BY DEF List!StudentSaves
  <1>2. owned[s] \in [Terms -> Known] /\ owned[s][t] \in Known
    BY DEF LessonWordsInv, LessonWordsType
  <1>3. /\ w \in Known /\ w.status # 0
        /\ owned[s][t].status = 5 => w.status = 5
        /\ owned[s][t].source # "none" => w.source = owned[s][t].source
    BY <1>2 DEF List!Saved, Known
  <1> HIDE DEF w
  <1>4. /\ owned' \in [Students -> [Terms -> Known]]
        /\ owned'[s][t] = w
        /\ \A ss \in Students, tt \in Terms : <<ss, tt>> # <<s, t>> => owned'[ss][tt] = owned[ss][tt]
    BY <1>1, <1>2, <1>3 DEF LessonWordsInv, LessonWordsType
  <1>5. SavesWhole' /\ List!OneWholeList'
    BY <1>1, SavesKept
  <1>6. \A ss \in Students, tt \in Terms : owned[ss][tt].status # 0 => owned'[ss][tt].status # 0
    BY <1>3, <1>4
  <1>7. \A q \in Requests : assigning[q].at \in {"assign", "assigned"} =>
            assigning[q].students \subseteq Students /\ assigning[q].terms \subseteq Terms
    BY DEF LessonWordsInv, LessonWordsType, AssigningType
  <1>8. AssignsAll' /\ List!AssignedToAll'
    BY <1>1, <1>6, <1>7 DEF LessonWordsInv, AssignsAll, List!AssignedToAll, List!At
  <1>9. AssignKept
    BY <1>3, <1>4 DEF AssignKept
  <1>10. QED
    BY <1>1, <1>4, <1>5, <1>8, <1>9 DEF LessonWordsInv, LessonWordsType

LEMMA StudentRemovesStep ==
    ASSUME LessonWordsInv, NEW s \in Students, NEW t \in Terms, List!StudentRemoves(s, t)
    PROVE  LessonWordsInv' /\ AssignKept
  <1>1. /\ owned' = [owned EXCEPT ![s] = [owned[s] EXCEPT ![t] = List!NoWord]]
        /\ removed' = IF List!At({"assign"}) = {} THEN removed ELSE removed \cup {<<s, t>>}
        /\ assigning' = [r \in Requests |-> IF assigning[r].at = "assigned" THEN List!Free
                                            ELSE assigning[r]]
        /\ UNCHANGED <<candidates, confirmed, list, mixed>>
    BY DEF List!StudentRemoves
  <1>2. owned[s] \in [Terms -> Known] /\ owned[s][t] \in Known /\ List!NoWord \in Known
    BY DEF LessonWordsInv, LessonWordsType, List!NoWord, Known
  <1>3. /\ owned' \in [Students -> [Terms -> Known]]
        /\ owned'[s][t] = List!NoWord
        /\ \A ss \in Students, tt \in Terms : <<ss, tt>> # <<s, t>> => owned'[ss][tt] = owned[ss][tt]
    BY <1>1, <1>2 DEF LessonWordsInv, LessonWordsType
  <1>4. /\ assigning' \in [Requests -> AssigningType]
        /\ \A q \in Requests : \/ assigning'[q] = assigning[q] /\ assigning[q].at # "assigned"
                               \/ assigning'[q].at = "free"
    BY <1>1 DEF LessonWordsInv, LessonWordsType, AssigningType, List!Free
  <1>5. SavesWhole' /\ List!OneWholeList'
    BY <1>1, <1>4, SavesKept
  <1>6. \A q \in Requests : assigning[q].at \in {"assign", "assigned"} =>
            assigning[q].students \subseteq Students /\ assigning[q].terms \subseteq Terms
    BY DEF LessonWordsInv, LessonWordsType, AssigningType
  <1>7. List!AssignedToAll'
    BY <1>4 DEF List!AssignedToAll, List!At
  <1>8. AssignsAll'
    <2>1. SUFFICES ASSUME NEW q \in Requests, assigning'[q].at = "assign",
                          NEW ss \in assigning'[q].students, NEW tt \in assigning'[q].terms
                   PROVE  \/ <<ss, tt>> \in assigning'[q].left
                          \/ owned'[ss][tt].status # 0 \/ <<ss, tt>> \in removed'
      BY DEF AssignsAll, List!At
    <2>2. assigning'[q] = assigning[q]
      BY <1>4, <2>1
    <2>3. ss \in Students /\ tt \in Terms
      BY <1>6, <2>1, <2>2
    <2>4. \/ <<ss, tt>> \in assigning[q].left
          \/ owned[ss][tt].status # 0 \/ <<ss, tt>> \in removed
      BY <2>1, <2>2 DEF LessonWordsInv, AssignsAll, List!At
    <2>5. removed' = removed \cup {<<s, t>>}
      BY <1>1, <2>1, <2>2 DEF List!At
    <2>6. QED
      BY <1>3, <2>2, <2>3, <2>4, <2>5
  <1>9. AssignKept
    BY <1>3 DEF AssignKept, List!NoWord
  <1>10. QED
    BY <1>1, <1>3, <1>4, <1>5, <1>7, <1>8, <1>9 DEF LessonWordsInv, LessonWordsType

LEMMA LessonWordsStep == ASSUME LessonWordsInv, ListNext PROVE LessonWordsInv' /\ AssignKept
  <1>1. ASSUME NEW t \in Terms, List!NewCandidate(t) PROVE LessonWordsInv' /\ AssignKept
    BY <1>1 DEF List!NewCandidate, LessonWordsInv, LessonWordsType, SavesWhole, AssignsAll,
                List!OneWholeList, List!AssignedToAll, List!At, AssignKept
  <1>2. ASSUME NEW s \in Students, NEW t \in Terms, NEW save \in Saves,
               List!StudentSaves(s, t, save[1], save[2])
        PROVE  LessonWordsInv' /\ AssignKept
    <2>1. save[1] \in {0, 5} /\ save[2] \in {"none", "other"}
      BY RequestsAssumption
    <2>2. QED
      BY <1>2, <2>1, StudentSavesStep
  <1>3. ASSUME NEW r \in Requests, List!Ends(r) PROVE LessonWordsInv' /\ AssignKept
    <2>1. /\ assigning' = [assigning EXCEPT ![r] = List!Free]
          /\ UNCHANGED <<candidates, confirmed, owned, list, mixed, removed>>
      BY <1>3 DEF List!Ends
    <2>2. List!Free \in AssigningType /\ List!Free.at = "free"
      BY DEF List!Free, AssigningType
    <2>3. /\ AssignsAll' /\ List!AssignedToAll'
          /\ assigning' \in [Requests -> AssigningType]
          /\ assigning'[r] = List!Free
          /\ \A q \in Requests : q # r => assigning'[q] = assigning[q]
      BY <2>1, <2>2, AssignsKept
    <2>4. SavesWhole' /\ List!OneWholeList'
      BY <2>1, <2>2, <2>3, SavesKept
    <2>5. QED
      BY <2>1, <2>3, <2>4 DEF LessonWordsInv, LessonWordsType, AssignKept
  <1>4. QED
    BY <1>1, <1>2, <1>3, StudentRemovesStep, AssignOneStep, SetBeginsStep, AssignBeginsStep,
       SetDeletesStep, SetInsertsStep, SetCommitsStep DEF ListNext

LEMMA LessonWordsKept ==
    LessonWordsInv /\ UNCHANGED listState => LessonWordsInv' /\ AssignKept
  BY DEF listState, LessonWordsInv, LessonWordsType, SavesWhole, AssignsAll, List!OneWholeList,
         List!AssignedToAll, List!At, AssignKept

LEMMA LessonWordsInvariant == Spec => []LessonWordsInv
  <1>1. LessonWordsInv /\ [Next]_vars => LessonWordsInv'
    BY PartsAlone, LessonWordsStep, LessonWordsKept
  <1>2. QED
    BY LessonWordsInit, <1>1, PTL DEF Spec

\* The words of a lesson are one list, an assignment that was answered has
\* reached every student and every word of it, and none takes away what a
\* student has learned, for any number of students, words and requests
\* (httpapi/lesson_terms.go, store/lesson_terms.go).
THEOREM LessonWordsCorrect == Spec => LessonWords
  <1>1. Spec => [](List!OneWholeList /\ List!AssignedToAll)
    BY LessonWordsInvariant, PTL DEF LessonWordsInv
  <1>2. LessonWordsInv /\ [Next]_vars =>
            [\A s \in Students, t \in Terms :
                 /\ owned[s][t].status = 5 => owned'[s][t].status \in {0, 5}
                 /\ owned[s][t].source # "none" =>
                        owned'[s][t] = List!NoWord
                        \/ owned'[s][t].source = owned[s][t].source]_(List!vars)
    BY PartsAlone, LessonWordsStep, LessonWordsKept DEF AssignKept
  <1>3. Spec => List!AssignKeeps
    BY LessonWordsInvariant, <1>2, PTL DEF Spec, List!AssignKeeps
  <1>4. QED
    BY <1>1, <1>3, PTL DEF LessonWords

-----------------------------------------------------------------------------
\* The options of cloze items

Kinds == {"GET", "POST"}

ChoosingType ==
    [at : {"free"}]
        \cup [at : {"reserve", "call"}, kind : Kinds, user : Learners, items : SUBSET Options!Items,
              list : SUBSET Options!Items, cached : SUBSET Options!Items,
              need : SUBSET Options!Items]
        \cup [at : {"pinLLM", "pinList", "show"}, kind : Kinds, user : Learners,
              items : SUBSET Options!Items, list : SUBSET Options!Items,
              cached : SUBSET Options!Items]
        \cup [at : {"save", "pinLLM", "pinList", "show"}, kind : Kinds, user : Learners,
              items : SUBSET Options!Items, list : SUBSET Options!Items,
              cached : SUBSET Options!Items, answer : Nat, unsaved : SUBSET Options!Items]

OptionsType ==
    /\ exists \subseteq Options!Items
    /\ pinned \in [Options!Items -> {"none", "list", "llm"}]
    /\ cache \in [Phrases -> Nat]
    /\ optionCalls \in [Learners -> Nat] /\ optionAnswers \in Nat
    /\ shown \in [Options!Items -> SUBSET Nat]
    /\ choosing \in [Requests -> ChoosingType]

\* What an item was shown with is what its pin stands for, and only an item with
\* a pin was shown: a set of the LLM is there for as long as items point at it.
PinnedSets ==
    \A i \in Options!Items :
        /\ pinned[i] # "none" => i \in exists
        /\ pinned[i] = "none" => shown[i] = {}
        /\ pinned[i] = "list" => shown[i] \subseteq {OptionCallLimit + 1}
        /\ pinned[i] = "llm" /\ i \notin stranded =>
               cache[i[2]] # 0 /\ shown[i] \subseteq {cache[i[2]]}

CallsOf(u) ==
    {r \in Requests : choosing[r].at \in {"call", "save"} /\ choosing[r].user = u}

CallsHavePlaces ==
    \A u \in Learners : optionCalls[u] <= OptionLimit /\ Cardinality(CallsOf(u)) <= optionCalls[u]

OptionsInv == OptionsType /\ PinnedSets /\ CallsHavePlaces /\ ~bare

LEMMA OptionsCardinality ==
    ASSUME NEW S
    PROVE  Options!Cardinality(S) = Cardinality(S) /\ (Options!IsFiniteSet(S) <=> IsFiniteSet(S))
  BY DEF Options!Cardinality, Cardinality, Options!IsFiniteSet, IsFiniteSet

LEMMA OptionsConstants ==
    IsFiniteSet(Requests) /\ OptionLimit \in Nat /\ OptionCallLimit \in Nat
  BY RequestsAssumption, OptionsCardinality DEF Options!OptionsAssumption

LEMMA CallsOfFinite ==
    ASSUME NEW u PROVE IsFiniteSet(CallsOf(u)) /\ Cardinality(CallsOf(u)) \in Nat
  <1>1. CallsOf(u) \subseteq Requests
    BY DEF CallsOf
  <1>2. QED
    BY <1>1, OptionsConstants, FS_Subset, FS_CardinalityType

LEMMA OptionsInit == ASSUME Init PROVE OptionsInv
  <1>1. Options!Init
    BY DEF Init
  <1>2. OptionsType
    BY <1>1 DEF Options!Init, Options!Free, OptionsType, ChoosingType
  <1>3. PinnedSets
    BY <1>1 DEF Options!Init, PinnedSets
  <1>4. CallsHavePlaces
    <2>1. \A u \in Learners : CallsOf(u) = {} /\ optionCalls[u] = 0
      BY <1>1 DEF Options!Init, Options!Free, CallsOf
    <2>2. QED
      BY <2>1, OptionsConstants, FS_EmptySet DEF CallsHavePlaces
  <1>5. ~bare
    BY <1>1 DEF Options!Init
  <1>6. QED
    BY <1>2, <1>3, <1>4, <1>5 DEF OptionsInv

\* A request that begins no call needs no place.
LEMMA NoNewCall ==
    ASSUME OptionsInv, UNCHANGED optionCalls, NEW r \in Requests,
           choosing' \in [Requests -> ChoosingType],
           \A q \in Requests : q # r => choosing'[q] = choosing[q],
           choosing'[r].at \in {"call", "save"} =>
               /\ choosing[r].at \in {"call", "save"}
               /\ choosing'[r].user = choosing[r].user
    PROVE  CallsHavePlaces'
  <1>1. SUFFICES ASSUME NEW u \in Learners PROVE Cardinality(CallsOf(u)') <= Cardinality(CallsOf(u))
    <2>1. \A u \in Learners : Cardinality(CallsOf(u)) \in Nat
      BY CallsOfFinite
    <2>2. \A u \in Learners : Cardinality(CallsOf(u)') \in Nat
      <3>1. \A u \in Learners : CallsOf(u)' \subseteq Requests
        BY DEF CallsOf
      <3>2. QED
        BY <3>1, OptionsConstants, FS_Subset, FS_CardinalityType
    <2>3. QED
      BY <1>1, <2>1, <2>2, OptionsConstants DEF CallsHavePlaces, OptionsInv, OptionsType
  <1>2. CallsOf(u)' \subseteq CallsOf(u)
    BY DEF CallsOf
  <1>3. Cardinality(CallsOf(u)') <= Cardinality(CallsOf(u))
    BY <1>2, CallsOfFinite, FS_Subset
  <1>4. QED
    BY <1>3

\* Showing items adds what their pins stand for, and nothing else.
LEMMA ShownByPin ==
    ASSUME OptionsInv, NEW is, Options!Show(is), UNCHANGED <<exists, pinned, cache, stranded>>
    PROVE  PinnedSets' /\ shown' \in [Options!Items -> SUBSET Nat]
  <1>1. \A i \in Options!Items : Options!Options(i) \in Nat
    BY OptionsConstants DEF OptionsInv, OptionsType, Options!Options, Options!Items
  <1>2. \A i \in Options!Items :
            shown'[i] = IF i \in is /\ pinned[i] # "none" THEN shown[i] \cup {Options!Options(i)}
                        ELSE shown[i]
    BY DEF Options!Show
  <1>3. shown' \in [Options!Items -> SUBSET Nat]
    BY <1>1 DEF Options!Show, OptionsInv, OptionsType
  <1>4. PinnedSets'
    <2>1. SUFFICES ASSUME NEW i \in Options!Items
                   PROVE  /\ pinned[i] # "none" => i \in exists
                          /\ pinned[i] = "none" => shown'[i] = {}
                          /\ pinned[i] = "list" => shown'[i] \subseteq {OptionCallLimit + 1}
                          /\ pinned[i] = "llm" /\ i \notin stranded =>
                                 cache[i[2]] # 0 /\ shown'[i] \subseteq {cache[i[2]]}
      BY DEF PinnedSets
    <2>2. /\ pinned[i] # "none" => i \in exists
          /\ pinned[i] = "none" => shown[i] = {}
          /\ pinned[i] = "list" => shown[i] \subseteq {OptionCallLimit + 1}
          /\ pinned[i] = "llm" /\ i \notin stranded =>
                 cache[i[2]] # 0 /\ shown[i] \subseteq {cache[i[2]]}
      BY DEF OptionsInv, PinnedSets
    <2>3. pinned[i] = "list" => Options!Options(i) = OptionCallLimit + 1
      BY DEF Options!Options
    <2>4. pinned[i] = "llm" => Options!Options(i) = cache[i[2]]
      BY DEF Options!Options
    <2>5. QED
      BY <1>2, <2>2, <2>3, <2>4
  <1>5. QED
    BY <1>3, <1>4

\* What follows the reading of the items.
LEMMA ProceedStep ==
    ASSUME OptionsInv, NEW r \in Requests, NEW u \in Learners, NEW kind \in Kinds,
           NEW is \in SUBSET Options!Items, NEW chosen \in SUBSET Options!Items,
           NEW need \in SUBSET Options!Items, choosing[r] = Options!Free,
           Options!Proceed(r, u, kind, is, chosen, need),
           UNCHANGED <<exists, pinned, cache, optionCalls, optionAnswers, stranded, bare>>
    PROVE  OptionsInv'
  <1> DEFINE asks == [at |-> "reserve", kind |-> kind, user |-> u, items |-> is, list |-> chosen,
                      cached |-> Options!Cached(is), need |-> need]
             pins == [at |-> "pinLLM", kind |-> kind, user |-> u, items |-> is, list |-> chosen,
                      cached |-> Options!Cached(is)]
  <1>1. Options!Cached(is) \in SUBSET Options!Items
    BY DEF Options!Cached, Options!Unpinned
  <1>2. CASE shown' = shown /\ choosing' = [choosing EXCEPT ![r] = asks]
    <2>1. asks \in ChoosingType /\ asks.at = "reserve"
      BY <1>1 DEF ChoosingType
    <2> HIDE DEF asks
    <2>2. /\ choosing' \in [Requests -> ChoosingType] /\ choosing'[r] = asks
          /\ \A q \in Requests : q # r => choosing'[q] = choosing[q]
      BY <1>2, <2>1 DEF OptionsInv, OptionsType
    <2>3. CallsHavePlaces'
      BY <2>1, <2>2, NoNewCall
    <2>4. QED
      BY <1>2, <2>2, <2>3 DEF OptionsInv, OptionsType, PinnedSets
  <1>3. CASE shown' = shown /\ choosing' = [choosing EXCEPT ![r] = pins]
    <2>1. pins \in ChoosingType /\ pins.at = "pinLLM"
      BY <1>1 DEF ChoosingType
    <2> HIDE DEF pins
    <2>2. /\ choosing' \in [Requests -> ChoosingType] /\ choosing'[r] = pins
          /\ \A q \in Requests : q # r => choosing'[q] = choosing[q]
      BY <1>3, <2>1 DEF OptionsInv, OptionsType
    <2>3. CallsHavePlaces'
      BY <2>1, <2>2, NoNewCall
    <2>4. QED
      BY <1>3, <2>2, <2>3 DEF OptionsInv, OptionsType, PinnedSets
  <1>4. CASE Options!Show(is) /\ choosing' = choosing
    <2>1. CallsHavePlaces'
      BY <1>4 DEF OptionsInv, CallsHavePlaces, CallsOf
    <2>2. QED
      BY <1>4, <2>1, ShownByPin DEF OptionsInv, OptionsType
  <1>5. QED
    BY <1>2, <1>3, <1>4 DEF Options!Proceed


\* A request that shows nothing moves on to its next query, pinning items that
\* have no pin and storing sets where there were none.
LEMMA MovesOn ==
    ASSUME OptionsInv, NEW r \in Requests, NEW next \in ChoosingType,
           choosing' = [choosing EXCEPT ![r] = next],
           next.at \in {"call", "save"} =>
               choosing[r].at \in {"call", "save"} /\ next.user = choosing[r].user,
           UNCHANGED <<exists, optionCalls, shown, stranded, bare>>,
           optionAnswers' \in Nat, cache' \in [Phrases -> Nat],
           pinned' \in [Options!Items -> {"none", "list", "llm"}],
           \A c \in Phrases : cache[c] # 0 => cache'[c] = cache[c],
           \A i \in Options!Items : pinned'[i] = pinned[i] \/
               /\ i \in exists /\ pinned[i] = "none"
               /\ pinned'[i] = "llm" => cache[i[2]] # 0
    PROVE  OptionsInv'
  <1>1. /\ choosing' \in [Requests -> ChoosingType] /\ choosing'[r] = next
        /\ \A q \in Requests : q # r => choosing'[q] = choosing[q]
    BY DEF OptionsInv, OptionsType
  <1>2. CallsHavePlaces'
    BY <1>1, NoNewCall
  <1>3. PinnedSets'
    <2>1. \A i \in Options!Items : i[2] \in Phrases
      BY DEF Options!Items
    <2>2. QED
      BY <2>1 DEF OptionsInv, OptionsType, PinnedSets
  <1>4. QED
    BY <1>1, <1>2, <1>3 DEF OptionsInv, OptionsType

LEMMA ReserveStep ==
    ASSUME OptionsInv, NEW r \in Requests, Options!Reserve(r)
    PROVE  OptionsInv'
  <1> DEFINE q == choosing[r]
             call == [at |-> "call", kind |-> q.kind, user |-> q.user, items |-> q.items,
                      list |-> q.list, cached |-> q.cached, need |-> q.need]
             pins == [at |-> "pinLLM", kind |-> q.kind, user |-> q.user, items |-> q.items,
                      list |-> q.list \cup q.need, cached |-> q.cached]
  <1>1. /\ q.at = "reserve" /\ q.kind \in Kinds /\ q.user \in Learners
        /\ q.items \subseteq Options!Items /\ q.list \subseteq Options!Items
        /\ q.cached \subseteq Options!Items /\ q.need \subseteq Options!Items
        /\ [q EXCEPT !.at = "call"] = call
    BY DEF OptionsInv, OptionsType, ChoosingType, Options!Reserve
  <1>2. call \in ChoosingType /\ pins \in ChoosingType
    BY <1>1 DEF ChoosingType
  <1>3. /\ call.at = "call" /\ call.user = q.user /\ pins.at = "pinLLM"
    OBVIOUS
  <1>4. UNCHANGED <<exists, pinned, cache, optionAnswers, shown, stranded, bare>>
    BY DEF Options!Reserve
  <1>5. CASE Options!MayReserve(q.user)
    <2>1. /\ optionCalls' = [optionCalls EXCEPT ![q.user] = @ + 1]
          /\ optionCalls[q.user] < OptionLimit
      BY <1>5 DEF Options!Reserve, Options!MayReserve
    <2>2. choosing' = [choosing EXCEPT ![r] = call]
      <3>1. choosing' = [choosing EXCEPT ![r].at = "call"]
        BY <1>5 DEF Options!Reserve
      <3>2. [choosing EXCEPT ![r].at = "call"] = [choosing EXCEPT ![r] = [q EXCEPT !.at = "call"]]
        OBVIOUS
      <3>3. QED
        BY <1>1, <3>1, <3>2
    <2> HIDE DEF call, pins
    <2>3. /\ choosing' \in [Requests -> ChoosingType] /\ choosing'[r] = call
          /\ \A o \in Requests : o # r => choosing'[o] = choosing[o]
      BY <1>2, <2>2 DEF OptionsInv, OptionsType
    <2>4. CallsHavePlaces'
      <3>1. SUFFICES ASSUME NEW u \in Learners
                     PROVE  optionCalls'[u] <= OptionLimit /\ Cardinality(CallsOf(u)') <= optionCalls'[u]
        BY DEF CallsHavePlaces
      <3>2. /\ Cardinality(CallsOf(u)) <= optionCalls[u] /\ optionCalls[u] \in Nat
            /\ optionCalls[u] <= OptionLimit
        BY DEF OptionsInv, OptionsType, CallsHavePlaces
      <3>3. CASE u = q.user
        <4>1. CallsOf(u)' = CallsOf(u) \cup {r} /\ r \notin CallsOf(u)
          BY <1>1, <1>3, <2>3, <3>3 DEF CallsOf
        <4>2. Cardinality(CallsOf(u)') = Cardinality(CallsOf(u)) + 1
          BY <4>1, CallsOfFinite, FS_AddElement
        <4>3. optionCalls'[u] = optionCalls[u] + 1
          BY <2>1, <3>3 DEF OptionsInv, OptionsType
        <4>4. QED
          BY <2>1, <3>2, <3>3, <4>2, <4>3, CallsOfFinite, OptionsConstants
      <3>4. CASE u # q.user
        <4>1. CallsOf(u)' = CallsOf(u)
          BY <1>1, <1>3, <2>3, <3>4 DEF CallsOf
        <4>2. optionCalls'[u] = optionCalls[u]
          BY <2>1, <3>4 DEF OptionsInv, OptionsType
        <4>3. QED
          BY <3>2, <4>1, <4>2
      <3>5. QED
        BY <3>3, <3>4
    <2>5. optionCalls' \in [Learners -> Nat]
      BY <1>1, <2>1 DEF OptionsInv, OptionsType
    <2>6. QED
      BY <1>4, <2>3, <2>4, <2>5 DEF OptionsInv, OptionsType, PinnedSets
  <1>6. CASE ~Options!MayReserve(q.user)
    <2>1. choosing' = [choosing EXCEPT ![r] = pins] /\ optionCalls' = optionCalls
      BY <1>6 DEF Options!Reserve
    <2> HIDE DEF call, pins
    <2>2. QED
      BY <1>2, <1>3, <1>4, <2>1, MovesOn DEF OptionsInv, OptionsType
  <1>7. QED
    BY <1>5, <1>6

LEMMA AnswerStep ==
    ASSUME OptionsInv, NEW r \in Requests, NEW got \in SUBSET Options!Items, Options!Answer(r, got)
    PROVE  OptionsInv'
  <1> DEFINE q == choosing[r]
             next == [at |-> IF got = {} THEN "pinLLM" ELSE "save", kind |-> q.kind,
                      user |-> q.user, items |-> q.items, list |-> q.list \cup (q.need \ got),
                      cached |-> q.cached \cup got, answer |-> optionAnswers + 1,
                      unsaved |-> got]
  <1>1. /\ q.at = "call" /\ q.kind \in Kinds /\ q.user \in Learners
        /\ q.items \subseteq Options!Items /\ q.list \subseteq Options!Items
        /\ q.cached \subseteq Options!Items /\ q.need \subseteq Options!Items
    BY DEF OptionsInv, OptionsType, ChoosingType, Options!Answer
  <1>2. /\ choosing' = [choosing EXCEPT ![r] = next] /\ optionAnswers' = optionAnswers + 1
        /\ UNCHANGED <<exists, pinned, cache, optionCalls, shown, stranded, bare>>
    BY DEF Options!Answer
  <1>3. next \in ChoosingType
    BY <1>1 DEF ChoosingType, OptionsInv, OptionsType
  <1>4. next.user = q.user
    OBVIOUS
  <1>5. /\ optionAnswers' \in Nat /\ cache' \in [Phrases -> Nat]
        /\ pinned' \in [Options!Items -> {"none", "list", "llm"}]
    BY <1>2 DEF OptionsInv, OptionsType
  <1>6. choosing[r].at \in {"call", "save"} /\ next.user = choosing[r].user
    BY <1>1, <1>4
  <1> HIDE DEF next
  <1>7. QED
    BY <1>2, <1>3, <1>5, <1>6, MovesOn

LEMMA SaveStep ==
    ASSUME OptionsInv, NEW r \in Requests, NEW i \in Options!Items, Options!Save(r, i)
    PROVE  OptionsInv'
  <1> DEFINE q == choosing[r]
             left == q.unsaved \ {i}
             at == IF left = {} THEN "pinLLM" ELSE "save"
             mid == [q EXCEPT !.unsaved = left]
             next == [mid EXCEPT !.at = at]
             Saving == [at : {"save"}, kind : Kinds, user : Learners, items : SUBSET Options!Items,
                        list : SUBSET Options!Items, cached : SUBSET Options!Items, answer : Nat,
                        unsaved : SUBSET Options!Items]
  <1>1. q \in Saving
    BY DEF OptionsInv, OptionsType, ChoosingType, Options!Save
  <1>2. mid \in Saving /\ mid.user = q.user
    BY <1>1
  <1>3. next \in ChoosingType /\ next.user = q.user
    <2> HIDE DEF mid
    <2>1. at \in {"save", "pinLLM"}
      OBVIOUS
    <2> HIDE DEF at
    <2>2. QED
      BY <1>2, <2>1 DEF ChoosingType
  <1>4. choosing' = [choosing EXCEPT ![r] = next]
    <2>1. choosing' = [choosing EXCEPT ![r].unsaved = left, ![r].at = at]
      BY DEF Options!Save
    <2> HIDE DEF left, at
    <2>2. QED
      BY <2>1 DEF OptionsInv, OptionsType
  <1>5. /\ cache' = [cache EXCEPT ![i[2]] = IF @ = 0 THEN q.answer ELSE @]
        /\ UNCHANGED <<exists, pinned, optionCalls, optionAnswers, shown, stranded, bare>>
    BY DEF Options!Save
  <1>6. cache' \in [Phrases -> Nat] /\ \A c \in Phrases : cache[c] # 0 => cache'[c] = cache[c]
    BY <1>1, <1>5 DEF OptionsInv, OptionsType
  <1>7. /\ optionAnswers' \in Nat /\ pinned' \in [Options!Items -> {"none", "list", "llm"}]
    BY <1>5 DEF OptionsInv, OptionsType
  <1>8. choosing[r].at \in {"call", "save"} /\ next.user = choosing[r].user
    BY <1>1, <1>3
  <1> HIDE DEF next
  <1>9. QED
    BY <1>3, <1>4, <1>5, <1>6, <1>7, <1>8, MovesOn

LEMMA PinStep ==
    ASSUME OptionsInv, NEW r \in Requests, Options!PinLLM(r) \/ Options!PinList(r)
    PROVE  OptionsInv'
  <1>1. PICK at \in {"pinList", "show"} : choosing' = [choosing EXCEPT ![r].at = at]
    BY DEF Options!PinLLM, Options!PinList
  <1>2. choosing[r].at \in {"pinLLM", "pinList"}
    BY DEF Options!PinLLM, Options!PinList
  <1>3. [choosing[r] EXCEPT !.at = at] \in ChoosingType /\ [choosing[r] EXCEPT !.at = at].at = at
    BY <1>2 DEF ChoosingType, OptionsInv, OptionsType
  <1>4. choosing' = [choosing EXCEPT ![r] = [choosing[r] EXCEPT !.at = at]]
    BY <1>1
  <1>5. UNCHANGED <<exists, cache, optionCalls, optionAnswers, shown, stranded, bare>>
    BY DEF Options!PinLLM, Options!PinList
  <1>6. /\ pinned' \in [Options!Items -> {"none", "list", "llm"}]
        /\ \A i \in Options!Items : pinned'[i] = pinned[i] \/
               /\ i \in exists /\ pinned[i] = "none"
               /\ pinned'[i] = "llm" => cache[i[2]] # 0
    <2>1. CASE Options!PinLLM(r)
      BY <2>1 DEF Options!PinLLM, Options!StillFree, OptionsInv, OptionsType
    <2>2. CASE Options!PinList(r)
      BY <2>2 DEF Options!PinList, Options!StillFree, OptionsInv, OptionsType
    <2>3. QED
      BY <2>1, <2>2
  <1> DEFINE next == [choosing[r] EXCEPT !.at = at]
  <1>7. next \in ChoosingType /\ next.at = at /\ choosing' = [choosing EXCEPT ![r] = next]
    BY <1>3, <1>4
  <1> HIDE DEF next
  <1>8. QED
    BY <1>5, <1>6, <1>7, MovesOn DEF OptionsInv, OptionsType

LEMMA RequestEnds ==
    ASSUME OptionsInv, NEW r \in Requests, Options!Reread(r) \/ Options!Fails(r)
    PROVE  OptionsInv'
  <1>1. /\ choosing' = [choosing EXCEPT ![r] = Options!Free]
        /\ UNCHANGED <<exists, pinned, cache, optionCalls, optionAnswers, stranded>>
    BY DEF Options!Reread, Options!Fails
  <1>2. /\ choosing' \in [Requests -> ChoosingType] /\ choosing'[r].at = "free"
        /\ \A q \in Requests : q # r => choosing'[q] = choosing[q]
    BY <1>1 DEF OptionsInv, OptionsType, ChoosingType, Options!Free
  <1>3. CallsHavePlaces'
    BY <1>1, <1>2, NoNewCall
  <1>4. ~bare' /\ (shown' = shown \/ \E is : Options!Show(is))
    <2>1. CASE Options!Fails(r)
      BY <2>1 DEF Options!Fails, OptionsInv
    <2>2. CASE Options!Reread(r)
      <3> DEFINE is == choosing[r].items \cap exists
      <3>1. CASE choosing[r].kind = "POST" /\ Options!Refuses(is)
        BY <2>2, <3>1 DEF Options!Reread, OptionsInv
      <3>2. CASE ~(choosing[r].kind = "POST" /\ Options!Refuses(is))
        <4>1. Options!Show(is) /\ bare' = (bare \/ (choosing[r].kind = "POST" /\ Options!Refuses(is)))
          BY <2>2, <3>2 DEF Options!Reread, Options!Refuses
        <4>2. QED
          BY <3>2, <4>1 DEF OptionsInv
      <3>3. QED
        BY <3>1, <3>2
    <2>3. QED
      BY <2>1, <2>2
  <1>5. PinnedSets' /\ shown' \in [Options!Items -> SUBSET Nat]
    <2>1. CASE shown' = shown
      BY <1>1, <2>1 DEF OptionsInv, OptionsType, PinnedSets
    <2>2. ASSUME NEW is, Options!Show(is) PROVE PinnedSets' /\ shown' \in [Options!Items -> SUBSET Nat]
      BY <1>1, <2>2, ShownByPin
    <2>3. QED
      BY <1>4, <2>1, <2>2
  <1>6. QED
    BY <1>1, <1>2, <1>3, <1>4, <1>5 DEF OptionsInv, OptionsType

\* The set goes together with the items that point at it, or strands them.
LEMMA RemoveCommitsStep == ASSUME OptionsInv, Options!RemoveCommits PROVE OptionsInv'
  <1> DEFINE c == removal.sentence
             gone == removal.items
  <1>1. /\ cache' = [cache EXCEPT ![c] = 0]
        /\ exists' = exists \ gone
        /\ pinned' = [i \in Options!Items |-> IF i \in gone THEN "none" ELSE pinned[i]]
        /\ shown' = [i \in Options!Items |-> IF i \in gone THEN {} ELSE shown[i]]
        /\ stranded' = (stranded \ gone) \cup {i \in exists \ gone : i[2] = c /\ pinned[i] = "llm"}
        /\ UNCHANGED <<optionCalls, optionAnswers, choosing, bare>>
    BY DEF Options!RemoveCommits
  <1> HIDE DEF c, gone
  <1>2. OptionsType'
    BY <1>1 DEF OptionsInv, OptionsType
  <1>3. PinnedSets'
    <2>1. SUFFICES ASSUME NEW i \in Options!Items
                   PROVE  /\ pinned'[i] # "none" => i \in exists'
                          /\ pinned'[i] = "none" => shown'[i] = {}
                          /\ pinned'[i] = "list" => shown'[i] \subseteq {OptionCallLimit + 1}
                          /\ pinned'[i] = "llm" /\ i \notin stranded' =>
                                 cache'[i[2]] # 0 /\ shown'[i] \subseteq {cache'[i[2]]}
      BY DEF PinnedSets
    <2>2. /\ pinned[i] # "none" => i \in exists
          /\ pinned[i] = "none" => shown[i] = {}
          /\ pinned[i] = "list" => shown[i] \subseteq {OptionCallLimit + 1}
          /\ pinned[i] = "llm" /\ i \notin stranded =>
                 cache[i[2]] # 0 /\ shown[i] \subseteq {cache[i[2]]}
      BY DEF OptionsInv, PinnedSets
    <2>3. i[2] \in Phrases
      BY DEF Options!Items
    <2>4. CASE i \in gone
      BY <1>1, <2>4
    <2>5. CASE i \notin gone
      <3>1. pinned'[i] = pinned[i] /\ shown'[i] = shown[i] /\ (i \in exists => i \in exists')
        BY <1>1, <2>5
      <3>2. i[2] # c => cache'[i[2]] = cache[i[2]]
        BY <1>1, <2>3 DEF OptionsInv, OptionsType
      <3>3. i \notin stranded' => i \notin stranded
        BY <1>1, <2>5
      <3>4. pinned[i] = "llm" /\ i \notin stranded' => i[2] # c
        BY <1>1, <2>2, <2>5
      <3>5. QED
        BY <2>2, <3>1, <3>2, <3>3, <3>4
    <2>6. QED
      BY <2>4, <2>5
  <1>4. CallsHavePlaces'
    BY <1>1 DEF OptionsInv, CallsHavePlaces, CallsOf
  <1>5. QED
    BY <1>1, <1>2, <1>3, <1>4 DEF OptionsInv

LEMMA OptionsStep == ASSUME OptionsInv, OptionsNext PROVE OptionsInv'
  <1>1. ASSUME NEW r \in Requests, NEW u \in Learners, NEW is \in SUBSET ({u} \X Phrases),
               NEW first \in is, Options!Feed(r, u, is, first)
        PROVE  OptionsInv'
    <2> DEFINE chosen == Options!Odd(is) \cup (IF configured THEN Options!Unknown(is) \cap {first}
                                               ELSE Options!Unknown(is))
    <2>1. Options!Proceed(r, u, "GET", is, chosen, {}) /\ choosing[r] = Options!Free
      BY <1>1 DEF Options!Feed
    <2>2. is \in SUBSET Options!Items /\ chosen \in SUBSET Options!Items
      BY DEF Options!Items, Options!Odd, Options!Unknown, Options!Unpinned
    <2>3. UNCHANGED <<exists, pinned, cache, optionCalls, optionAnswers, stranded, bare>>
      BY <1>1 DEF Options!Feed
    <2> HIDE DEF chosen
    <2>4. "GET" \in Kinds /\ {} \in SUBSET Options!Items
      BY DEF Kinds
    <2>5. QED
      BY <2>1, <2>2, <2>3, <2>4, ProceedStep
  <1>2. ASSUME NEW r \in Requests, NEW u \in Learners, NEW is \in SUBSET ({u} \X Phrases),
               Options!Distractors(r, u, is)
        PROVE  OptionsInv'
    <2> DEFINE chosen == Options!Odd(is)
               need == Options!Unknown(is)
    <2>1. Options!Proceed(r, u, "POST", is, chosen, need) /\ choosing[r] = Options!Free
      BY <1>2 DEF Options!Distractors
    <2>2. is \in SUBSET Options!Items /\ chosen \in SUBSET Options!Items
          /\ need \in SUBSET Options!Items
      BY DEF Options!Items, Options!Odd, Options!Unknown, Options!Unpinned
    <2>3. UNCHANGED <<exists, pinned, cache, optionCalls, optionAnswers, stranded, bare>>
      BY <1>2 DEF Options!Distractors
    <2>4. "POST" \in Kinds
      BY DEF Kinds
    <2> HIDE DEF chosen, need
    <2>5. QED
      BY <2>1, <2>2, <2>3, <2>4, ProceedStep
  <1>3. ASSUME NEW i \in Options!Items, Options!CreateClozeItem(i) PROVE OptionsInv'
    BY <1>3 DEF Options!CreateClozeItem, OptionsInv, OptionsType, PinnedSets, CallsHavePlaces,
                CallsOf
  <1>4. ASSUME NEW s \in Phrases, NEW whole \in BOOLEAN, Options!RemoveBegins(s, whole)
        PROVE  OptionsInv'
    BY <1>4 DEF Options!RemoveBegins, OptionsInv, OptionsType, PinnedSets, CallsHavePlaces,
                CallsOf
  <1>5. QED
    BY <1>1, <1>2, <1>3, <1>4, ReserveStep, AnswerStep, SaveStep, PinStep, RequestEnds,
       RemoveCommitsStep DEF OptionsNext

LEMMA OptionsKept == ASSUME OptionsInv, UNCHANGED optionsState PROVE OptionsInv'
  BY DEF optionsState, OptionsInv, OptionsType, PinnedSets, CallsHavePlaces, CallsOf

LEMMA OptionsInvariant == Spec => []OptionsInv
  <1>1. Init => OptionsInv
    BY OptionsInit
  <1>2. OptionsInv /\ [Next]_vars => OptionsInv'
    BY PartsAlone, OptionsStep, OptionsKept
  <1>3. QED
    BY <1>1, <1>2, PTL DEF Spec

\* A cloze item keeps one set of options for as long as it lives, whichever
\* requests and removals run at once, the answer is never shown alone on
\* request, and no call is made without a place of the day.
THEOREM OptionsCorrect == Spec => []OptionsOnce
  <1>1. OptionsInv => OptionsOnce
    <2> SUFFICES ASSUME OptionsInv PROVE OptionsOnce
      OBVIOUS
    <2>1. Options!OneSet
      <3>1. SUFFICES ASSUME NEW i \in Options!Items, i \notin stranded
                     PROVE  Options!Cardinality(shown[i]) <= 1
        BY DEF Options!OneSet
      <3>2. pinned[i] \in {"none", "list", "llm"}
        BY DEF OptionsInv, OptionsType
      <3>3. PICK x : shown[i] \subseteq {x}
        BY <3>1, <3>2 DEF OptionsInv, PinnedSets
      <3>4. Cardinality(shown[i]) <= Cardinality({x}) /\ Cardinality({x}) = 1
        BY <3>3, FS_Singleton, FS_Subset
      <3>5. QED
        BY <3>4, OptionsCardinality
    <2>2. Options!NoBareAnswer
      BY DEF OptionsInv, Options!NoBareAnswer
    <2>3. Options!WithinLimit
      BY OptionsCardinality DEF OptionsInv, CallsHavePlaces, CallsOf, Options!WithinLimit
    <2>4. QED
      BY <2>1, <2>2, <2>3 DEF OptionsOnce
  <1>2. QED
    BY <1>1, OptionsInvariant, PTL

-----------------------------------------------------------------------------
\* Filling the feed of cloze items

States == {"none", "new", "answered", "bare"}

ItemStates == [Terms \X Feed!Sentences -> States]

Filling ==
    [at : {"fill"}, todo : SUBSET Terms, checked : SUBSET Terms,
     batch : SUBSET (Terms \X Feed!Sentences), missed : SUBSET Terms, news : BOOLEAN,
     own : ItemStates, lesson : SUBSET Feed!Sentences, short : SUBSET Terms]

FeedRecord ==
    [at : {"free"}]
        \cup [at : {"refs"}, todo : SUBSET Terms, checked : SUBSET Terms,
              batch : SUBSET (Terms \X Feed!Sentences), missed : SUBSET Terms, news : BOOLEAN]
        \cup [at : {"texts"}, todo : SUBSET Terms, checked : SUBSET Terms,
              batch : SUBSET (Terms \X Feed!Sentences), missed : SUBSET Terms, news : BOOLEAN,
              own : ItemStates]
        \cup Filling

FeedType ==
    /\ dict \subseteq Terms /\ sources \subseteq Feed!Sentences /\ returned \subseteq Terms
    /\ items \in ItemStates
    /\ unfinished \subseteq sources \cap Tatoeba /\ losses \in 0..LossLimit
    /\ feeds \in [FeedRequests -> FeedRecord]

\* A word that is not in the dictionary has no note.
NotesOfWords == misses \subseteq dict /\ cut \subseteq misses

\* The pairs of a feed differ in their sentences.
BatchOnce(q) ==
    /\ IsFiniteSet(q.batch) /\ IsFiniteSet(Feed!Taken(q))
    /\ Cardinality(Feed!Taken(q)) = Cardinality(q.batch)

\* Unless a source came, the feed has read every sentence of a material; what it
\* has read as an item is one still, if its word stayed; and a word for which it
\* found no sentence in all the texts there were has none.
SeesSources(q) ==
    /\ q.at = "fill" /\ ~q.news => Feed!Lasting \cap MaterialTexts \subseteq q.lesson
    /\ q.at \in {"texts", "fill"} /\ ~q.news =>
           \A w \in dict \ returned, s \in Feed!Lasting :
               q.own[<<w, s>>] # "none" => items[<<w, s>>] # "none"
    /\ q.at = "fill" /\ ~q.news =>
           \A w \in q.missed \ q.short : w \in dict \ returned =>
               \A s \in Feed!Lasting : items[<<w, s>>] # "none"

FeedInv ==
    /\ FeedType
    /\ NotesOfWords
    /\ \A r \in FeedRequests : feeds[r].at # "free" => BatchOnce(feeds[r])
    /\ \A r \in FeedRequests : SeesSources(feeds[r])
    /\ Feed!NothingHidden

LEMMA FeedCardinality ==
    ASSUME NEW S PROVE Feed!Cardinality(S) = Cardinality(S)
  BY DEF Feed!Cardinality, Cardinality

LEMMA FeedConstants ==
    /\ LossLimit \in Nat
    /\ Tatoeba \cap (Speech \cup MaterialTexts \cup Generated) = {}
  BY RequestsAssumption DEF Feed!FeedAssumption

LEMMA FeedRunning ==
    ASSUME FeedType, NEW r \in FeedRequests
    PROVE  feeds[r] = Feed!Free <=> feeds[r].at = "free"
  BY DEF FeedType, FeedRecord, Filling, Feed!Free

LEMMA FeedInit == ASSUME Init PROVE FeedInv
  <1>1. Feed!Init
    BY DEF Init
  <1>2. FeedType
    BY <1>1, FeedConstants DEF Feed!Init, Feed!Free, FeedType, FeedRecord, ItemStates, States
  <1>3. \A r \in FeedRequests : feeds[r].at = "free"
    BY <1>1 DEF Feed!Init, Feed!Free
  <1>4. QED
    BY <1>1, <1>2, <1>3 DEF Feed!Init, FeedInv, NotesOfWords, SeesSources, Feed!NothingHidden, Feed!Exhausted

\* A word gets an item, or none: what both leave as it was.
LEMMA GivesStep ==
    ASSUME FeedInv, NEW r \in FeedRequests, NEW w \in Terms, feeds[r].at = "fill",
           NEW S \in SUBSET (Feed!Sentences \ Feed!Taken(feeds[r])),
           NEW missed \in SUBSET {w}, NEW short \in SUBSET {w},
           Feed!Gives(r, w, S, missed, short),
           w \in missed \ short /\ ~feeds[r].news /\ w \in dict \ returned =>
               \A s \in Feed!Lasting : items[<<w, s>>] # "none",
           items' \in ItemStates,
           \A v \in Terms, s \in Feed!Sentences :
               items[<<v, s>>] # "none" => items'[<<v, s>>] # "none",
           UNCHANGED <<dict, sources, misses, unfinished, returned, cut, losses>>
    PROVE  FeedInv'
  <1> DEFINE old == feeds[r]
             q == [old EXCEPT !.todo = @ \ {w}, !.missed = @ \cup missed, !.short = @ \cup short]
  <1>1. old \in Filling
    BY DEF FeedInv, FeedType, FeedRecord, Filling
  <1>2. /\ q \in Filling /\ q.at = "fill" /\ q.news = old.news /\ q.own = old.own
        /\ q.lesson = old.lesson /\ q.batch = old.batch /\ q.missed = old.missed \cup missed
        /\ q.short = old.short \cup short
    <2> DEFINE mid == [old EXCEPT !.todo = @ \ {w}]
    <2>1. /\ mid \in Filling /\ mid.at = "fill" /\ mid.news = old.news /\ mid.own = old.own
          /\ mid.lesson = old.lesson /\ mid.batch = old.batch /\ mid.missed = old.missed
          /\ mid.short = old.short
      BY <1>1 DEF Filling
    <2> DEFINE next == [mid EXCEPT !.missed = @ \cup missed]
    <2>2. q = [next EXCEPT !.short = @ \cup short]
      BY <1>1 DEF Filling
    <2> HIDE DEF mid
    <2>3. /\ next \in Filling /\ next.at = "fill" /\ next.news = old.news /\ next.own = old.own
          /\ next.lesson = old.lesson /\ next.batch = old.batch
          /\ next.missed = old.missed \cup missed /\ next.short = old.short
      BY <2>1 DEF Filling
    <2> HIDE DEF next, q
    <2>4. QED
      BY <2>2, <2>3 DEF Filling
  <1>3. BatchOnce(old) /\ SeesSources(old)
    BY <1>1 DEF FeedInv, Filling
  <1>4. PICK new \in Filling :
            /\ feeds' = [feeds EXCEPT ![r] = new]
            /\ new.at = "fill" /\ new.news = old.news /\ new.own = old.own
            /\ new.lesson = old.lesson /\ new.missed = old.missed \cup missed
            /\ new.short = old.short \cup short /\ BatchOnce(new)
    <2>1. CASE S = {}
      <3>1. feeds' = [feeds EXCEPT ![r] = q]
        BY <2>1 DEF Feed!Gives
      <3> HIDE DEF q
      <3>2. BatchOnce(q)
        BY <1>2, <1>3 DEF BatchOnce, Feed!Taken
      <3>3. QED
        BY <1>2, <3>1, <3>2
    <2>2. CASE S # {}
      <3>1. PICK s \in S : feeds' = [feeds EXCEPT ![r] = [q EXCEPT !.batch = @ \cup {<<w, s>>}]]
        BY <2>2, Zenon DEF Feed!Gives
      <3> HIDE DEF q
      <3> DEFINE new == [q EXCEPT !.batch = @ \cup {<<w, s>>}]
      <3>2. /\ new \in Filling /\ new.at = "fill" /\ new.news = q.news /\ new.own = q.own
            /\ new.lesson = q.lesson /\ new.missed = q.missed /\ new.short = q.short
            /\ new.batch = q.batch \cup {<<w, s>>}
        BY <1>2 DEF Filling
      <3>3. feeds' = [feeds EXCEPT ![r] = new]
        BY <3>1
      <3> HIDE DEF new
      <3>4. new.batch = old.batch \cup {<<w, s>>} /\ Feed!Taken(new) = Feed!Taken(old) \cup {s}
        <4>1. new.batch = old.batch \cup {<<w, s>>}
          BY <1>2, <3>2
        <4>2. {p[2] : p \in old.batch \cup {<<w, s>>}} = {p[2] : p \in old.batch} \cup {s}
          <5>1. <<w, s>>[2] = s
            OBVIOUS
          <5>2. \A p \in old.batch \cup {<<w, s>>} : p[2] \in {o[2] : o \in old.batch} \cup {s}
            BY <5>1
          <5>3. \A p \in old.batch : p[2] \in {o[2] : o \in old.batch \cup {<<w, s>>}}
            OBVIOUS
          <5>4. s \in {o[2] : o \in old.batch \cup {<<w, s>>}}
            BY <5>1
          <5>5. QED
            BY <5>2, <5>3, <5>4
        <4>3. QED
          BY <4>1, <4>2 DEF Feed!Taken
      <3>5. s \notin Feed!Taken(old) /\ <<w, s>> \notin old.batch
        BY DEF Feed!Taken
      <3>6. BatchOnce(new)
        <4>1. /\ IsFiniteSet(Feed!Taken(new))
              /\ Cardinality(Feed!Taken(new)) = Cardinality(Feed!Taken(old)) + 1
          BY <1>3, <3>4, <3>5, FS_AddElement DEF BatchOnce
        <4>2. /\ IsFiniteSet(new.batch)
              /\ Cardinality(new.batch) = Cardinality(old.batch) + 1
          <5>1. IsFiniteSet(old.batch) /\ <<w, s>> \notin old.batch
            BY <1>3, <3>5 DEF BatchOnce
          <5>2. /\ IsFiniteSet(old.batch \cup {<<w, s>>})
                /\ Cardinality(old.batch \cup {<<w, s>>}) = Cardinality(old.batch) + 1
            BY <5>1, FS_AddElement
          <5>3. QED
            BY <3>4, <5>2
        <4>3. QED
          BY <1>3, <4>1, <4>2 DEF BatchOnce
      <3>7. QED
        BY <1>2, <3>2, <3>3, <3>6
    <2>3. QED
      BY <2>1, <2>2
  <1> HIDE DEF q
  <1>5. /\ feeds' \in [FeedRequests -> FeedRecord] /\ feeds'[r] = new
        /\ \A o \in FeedRequests : o # r => feeds'[o] = feeds[o]
    BY <1>4 DEF FeedInv, FeedType, FeedRecord
  <1>6. FeedType' /\ NotesOfWords'
    BY <1>5 DEF FeedInv, FeedType, NotesOfWords
  <1>7. \A o \in FeedRequests : feeds'[o].at # "free" => BatchOnce(feeds'[o])
    BY <1>4, <1>5 DEF FeedInv
  <1>8. \A o \in FeedRequests : SeesSources(feeds[o])'
    <2>1. SUFFICES ASSUME NEW o \in FeedRequests PROVE SeesSources(feeds[o])'
      OBVIOUS
    <2>2. \A v \in dict, s \in Feed!Sentences : items[<<v, s>>] # "none" => items'[<<v, s>>] # "none"
      BY DEF FeedInv, FeedType
    <2>3. Feed!Lasting \subseteq Feed!Sentences /\ Feed!Lasting' = Feed!Lasting
      BY DEF FeedInv, FeedType, Feed!Lasting
    <2>4. CASE o # r
      <3>1. feeds'[o] = feeds[o] /\ SeesSources(feeds[o])
        BY <1>5, <2>4 DEF FeedInv
      <3>2. QED
        BY <2>2, <2>3, <3>1 DEF SeesSources
    <2>5. CASE o = r
      <3>1. new.at = "fill" /\ ~new.news => Feed!Lasting \cap MaterialTexts \subseteq new.lesson
        BY <1>1, <1>3, <1>4 DEF SeesSources
      <3>2. ~new.news =>
                \A v \in dict \ returned, s \in Feed!Lasting :
                    new.own[<<v, s>>] # "none" => items'[<<v, s>>] # "none"
        BY <1>1, <1>3, <1>4, <2>2, <2>3 DEF SeesSources, Filling
      <3>3. ~new.news =>
                \A v \in new.missed \ new.short : v \in dict \ returned =>
                    \A s \in Feed!Lasting : items'[<<v, s>>] # "none"
        <4>1. SUFFICES ASSUME ~old.news, NEW v \in old.missed \cup missed,
                              v \notin old.short \cup short, v \in dict \ returned,
                              NEW s \in Feed!Lasting
                       PROVE  items[<<v, s>>] # "none"
          BY <1>4, <2>2, <2>3
        <4>2. CASE v \in missed
          BY <4>1, <4>2
        <4>3. CASE v \in old.missed
          BY <1>1, <1>3, <4>1, <4>3 DEF SeesSources, Filling
        <4>4. QED
          BY <4>1, <4>2, <4>3
      <3>4. QED
        BY <1>5, <2>3, <2>5, <3>1, <3>2, <3>3 DEF SeesSources
    <2>6. QED
      BY <2>4, <2>5
  <1>9. Feed!NothingHidden'
    <2>1. Feed!Exhausted' = Feed!Exhausted /\ Feed!Exhausted \subseteq Terms
      BY DEF Feed!Exhausted, FeedInv, FeedType, NotesOfWords
    <2>2. Feed!Lasting' = Feed!Lasting /\ Feed!Lasting \subseteq Feed!Sentences
      BY DEF Feed!Lasting, FeedInv, FeedType
    <2>3. QED
      BY <2>1, <2>2 DEF FeedInv, Feed!NothingHidden
  <1>10. QED
    BY <1>6, <1>7, <1>8, <1>9 DEF FeedInv

LEMMA GivesAnsweredStep ==
    ASSUME FeedInv, NEW r \in FeedRequests, NEW w \in Terms, Feed!GivesAnswered(r, w)
    PROVE  FeedInv'
  <1> DEFINE q == feeds[r]
             S == Feed!Pickable(q, w, "answered")
             Missed(found) == {v \in {w} : w \notin q.checked /\ Feed!IsMiss(q, w, found)}
             Short(found) == {v \in Missed(found) : found # Feed!Whole(q)}
  <1>1. PICK found \in Feed!Searched(q) :
            /\ w \notin q.checked => Feed!FirstFree(q, w, found) = {}
            /\ Feed!Gives(r, w, S, Missed(found), Short(found))
    BY DEF Feed!GivesAnswered
  <1>2. q.at = "fill" /\ UNCHANGED <<dict, sources, items, misses, unfinished, returned, cut, losses>>
    BY DEF Feed!GivesAnswered, Feed!Turn
  <1> DEFINE missed == Missed(found)
             short == Short(found)
  <1>3. /\ S \in SUBSET (Feed!Sentences \ Feed!Taken(q))
        /\ missed \in SUBSET {w} /\ short \in SUBSET {w}
    BY DEF Feed!Pickable, Feed!Own
  <1>4. ASSUME w \in missed \ short, ~q.news, w \in dict \ returned, NEW s \in Feed!Lasting
        PROVE  items[<<w, s>>] # "none"
    <2>1. Feed!FirstFree(q, w, found) = {} /\ Feed!IsMiss(q, w, found) /\ found = Feed!Whole(q)
      BY <1>1, <1>4
    <2>2. Feed!Unused(q, w, found) = {}
      BY <2>1 DEF Feed!FirstFree, Feed!IsMiss
    <2>3. SeesSources(q)
      BY DEF FeedInv
    <2>4. s \in sources /\ s \in MaterialTexts \cup Generated \cup Tatoeba
      BY DEF FeedInv, FeedType, Feed!Sentences, Feed!Lasting
    <2>5. s \in found
      BY <1>2, <1>4, <2>1, <2>3, <2>4 DEF SeesSources, Feed!Whole
    <2>6. q.own[<<w, s>>] # "none"
      BY <2>2, <2>5 DEF Feed!Unused
    <2>7. QED
      BY <1>2, <1>4, <2>3, <2>6 DEF SeesSources
  <1>5. items' \in ItemStates
    BY <1>2 DEF FeedInv, FeedType
  <1>6. Feed!Gives(r, w, S, missed, short)
    BY <1>1
  <1> HIDE DEF S, missed, short
  <1>7. QED
    BY <1>2, <1>3, <1>4, <1>5, <1>6, GivesStep

\* A source with a time comes: notes are stale, and feeds under way know.
LEMMA StaleStep ==
    ASSUME FeedInv, Feed!Stale,
           sources' \subseteq Feed!Sentences, unfinished' \subseteq sources' \cap Tatoeba,
           items' \in ItemStates, UNCHANGED <<dict, returned, losses>>
    PROVE  FeedInv'
  <1>1. /\ misses' = {} /\ cut' = {}
        /\ feeds' = [r \in FeedRequests |->
               IF r \in Feed!Running THEN [feeds[r] EXCEPT !.news = TRUE] ELSE feeds[r]]
    BY DEF Feed!Stale
  <1>2. \A r \in FeedRequests :
            /\ feeds'[r] \in FeedRecord /\ feeds'[r].at = feeds[r].at
            /\ feeds[r].at # "free" => feeds'[r].news /\ feeds'[r].batch = feeds[r].batch
    <2>1. SUFFICES ASSUME NEW r \in FeedRequests
                   PROVE  /\ feeds'[r] \in FeedRecord /\ feeds'[r].at = feeds[r].at
                          /\ feeds[r].at # "free" =>
                                 feeds'[r].news /\ feeds'[r].batch = feeds[r].batch
      OBVIOUS
    <2>2. CASE feeds[r].at = "free"
      BY <1>1, <2>2, FeedRunning DEF Feed!Running, FeedInv, FeedType
    <2>3. CASE feeds[r].at # "free"
      <3>1. feeds'[r] = [feeds[r] EXCEPT !.news = TRUE]
        BY <1>1, <2>3, FeedRunning DEF Feed!Running, FeedInv
      <3>2. feeds[r] \in FeedRecord
        BY DEF FeedInv, FeedType
      <3>3. CASE feeds[r].at = "refs"
        BY <3>1, <3>2, <3>3 DEF FeedRecord, Filling
      <3>4. CASE feeds[r].at = "texts"
        BY <3>1, <3>2, <3>4 DEF FeedRecord, Filling
      <3>5. CASE feeds[r].at = "fill"
        BY <3>1, <3>2, <3>5 DEF FeedRecord, Filling
      <3>6. QED
        BY <2>3, <3>2, <3>3, <3>4, <3>5 DEF FeedRecord, Filling
    <2>4. QED
      BY <2>2, <2>3
  <1>3. FeedType' /\ NotesOfWords'
    BY <1>1, <1>2 DEF FeedInv, FeedType, NotesOfWords
  <1>4. \A r \in FeedRequests : feeds'[r].at # "free" => BatchOnce(feeds'[r])
    BY <1>2 DEF FeedInv, BatchOnce, Feed!Taken
  <1>5. \A r \in FeedRequests : SeesSources(feeds[r])'
    BY <1>2 DEF SeesSources
  <1>6. Feed!NothingHidden'
    BY <1>1 DEF Feed!NothingHidden, Feed!Exhausted
  <1>7. QED
    BY <1>3, <1>4, <1>5, <1>6 DEF FeedInv

LEMMA WithoutItems ==
    ASSUME FeedInv, NEW gone
    PROVE  /\ Feed!Without(gone) \in ItemStates
           /\ \A w \in Terms, s \in Feed!Sentences \ gone :
                  Feed!Without(gone)[<<w, s>>] = items[<<w, s>>]
  BY DEF FeedInv, FeedType, ItemStates, States, Feed!Without

LEMMA FeedStep == ASSUME FeedInv, FeedNext PROVE FeedInv'
  <1> USE FeedRunning
  <1>1. CASE Feed!HourPasses
    <2>1. UNCHANGED <<dict, sources, items, unfinished, feeds, returned, losses>>
      BY <1>1 DEF Feed!HourPasses
    <2>2. misses' = {} /\ cut' = {}
      BY <1>1 DEF Feed!HourPasses
    <2>3. QED
      BY <2>1, <2>2 DEF FeedInv, FeedType, NotesOfWords, Feed!Lasting, SeesSources, BatchOnce,
                        Feed!Taken, Feed!NothingHidden, Feed!Exhausted
  <1>2. ASSUME NEW r \in FeedRequests, Feed!Begins(r) PROVE FeedInv'
    <2> DEFINE new == [at |-> "refs", todo |-> Feed!ClozeTargets,
                       checked |-> misses,
                       batch |-> {}, missed |-> {}, news |-> FALSE]
    <2>1. /\ feeds' = [feeds EXCEPT ![r] = new]
          /\ UNCHANGED <<dict, sources, items, misses, unfinished, returned, cut, losses>>
      BY <1>2 DEF Feed!Begins
    <2>2. /\ new \in FeedRecord /\ new.at = "refs" /\ new.batch = {} /\ new.missed = {}
      BY DEF FeedRecord, Feed!ClozeTargets, FeedInv, FeedType, NotesOfWords
    <2> HIDE DEF new
    <2>3. /\ feeds' \in [FeedRequests -> FeedRecord] /\ feeds'[r] = new
          /\ \A o \in FeedRequests : o # r => feeds'[o] = feeds[o]
      BY <2>1, <2>2 DEF FeedInv, FeedType
    <2>4. Feed!Taken(new) = {}
      BY <2>2 DEF Feed!Taken
    <2>5. BatchOnce(new)
      BY <2>2, <2>4, FS_EmptySet DEF BatchOnce
    <2>6. \A o \in FeedRequests : feeds'[o].at # "free" => BatchOnce(feeds'[o])
      BY <2>3, <2>5 DEF FeedInv
    <2>7. \A o \in FeedRequests : SeesSources(feeds[o])'
      BY <2>1, <2>2, <2>3 DEF FeedInv, SeesSources, Feed!Lasting
    <2>8. Feed!NothingHidden'
      BY <2>1 DEF FeedInv, Feed!NothingHidden, Feed!Exhausted, Feed!Lasting
    <2>9. QED
      BY <2>1, <2>3, <2>6, <2>7, <2>8 DEF FeedInv, FeedType, NotesOfWords
  <1>3. ASSUME NEW r \in FeedRequests, Feed!ReadsItems(r) PROVE FeedInv'
    <2> DEFINE old == feeds[r]
               new == [at |-> "texts", todo |-> old.todo, checked |-> old.checked, batch |-> {},
                       missed |-> {}, news |-> old.news, own |-> items]
    <2>1. /\ feeds' = [feeds EXCEPT ![r] = new] /\ old.at = "refs"
          /\ UNCHANGED <<dict, sources, items, misses, unfinished, returned, cut, losses>>
      BY <1>3 DEF Feed!ReadsItems
    <2>2. /\ new \in FeedRecord /\ new.at = "texts" /\ new.batch = {} /\ new.missed = {}
          /\ new.own = items
      BY <2>1 DEF FeedRecord, Filling, FeedInv, FeedType
    <2> HIDE DEF new
    <2>3. /\ feeds' \in [FeedRequests -> FeedRecord] /\ feeds'[r] = new
          /\ \A o \in FeedRequests : o # r => feeds'[o] = feeds[o]
      BY <2>1, <2>2 DEF FeedInv, FeedType
    <2>4. Feed!Taken(new) = {}
      BY <2>2 DEF Feed!Taken
    <2>5. BatchOnce(new)
      BY <2>2, <2>4, FS_EmptySet DEF BatchOnce
    <2>6. \A o \in FeedRequests : feeds'[o].at # "free" => BatchOnce(feeds'[o])
      BY <2>3, <2>5 DEF FeedInv
    <2>7. \A o \in FeedRequests : SeesSources(feeds[o])'
      BY <2>1, <2>2, <2>3 DEF FeedInv, SeesSources, Feed!Lasting
    <2>8. Feed!NothingHidden'
      BY <2>1 DEF FeedInv, Feed!NothingHidden, Feed!Exhausted, Feed!Lasting
    <2>9. QED
      BY <2>1, <2>3, <2>6, <2>7, <2>8 DEF FeedInv, FeedType, NotesOfWords
  <1>4. ASSUME NEW r \in FeedRequests, Feed!ReadsTexts(r) PROVE FeedInv'
    <2> DEFINE old == feeds[r]
               new == [at |-> "fill", todo |-> old.todo, checked |-> old.checked, batch |-> {},
                       missed |-> {}, news |-> old.news, own |-> old.own,
                       lesson |-> sources \cap (Speech \cup MaterialTexts), short |-> {}]
    <2>1. /\ feeds' = [feeds EXCEPT ![r] = new] /\ old.at = "texts"
          /\ UNCHANGED <<dict, sources, items, misses, unfinished, returned, cut, losses>>
      BY <1>4 DEF Feed!ReadsTexts
    <2>2. /\ new \in FeedRecord /\ new.at = "fill" /\ new.batch = {} /\ new.missed = {}
          /\ new.news = old.news /\ new.own = old.own /\ new.lesson = sources \cap (Speech \cup MaterialTexts)
      BY <2>1 DEF FeedRecord, Filling, FeedInv, FeedType
    <2> HIDE DEF new
    <2>3. /\ feeds' \in [FeedRequests -> FeedRecord] /\ feeds'[r] = new
          /\ \A o \in FeedRequests : o # r => feeds'[o] = feeds[o]
      BY <2>1, <2>2 DEF FeedInv, FeedType
    <2>4. Feed!Taken(new) = {}
      BY <2>2 DEF Feed!Taken
    <2>5. BatchOnce(new)
      BY <2>2, <2>4, FS_EmptySet DEF BatchOnce
    <2>6. \A o \in FeedRequests : feeds'[o].at # "free" => BatchOnce(feeds'[o])
      BY <2>3, <2>5 DEF FeedInv
    <2>7. \A o \in FeedRequests : SeesSources(feeds[o])'
      <3>1. Feed!Lasting' = Feed!Lasting /\ Feed!Lasting \cap MaterialTexts \subseteq new.lesson
        BY <2>1, <2>2 DEF Feed!Lasting
      <3>2. \A o \in FeedRequests : SeesSources(feeds[o])
        BY DEF FeedInv
      <3>3. ASSUME NEW o \in FeedRequests, o # r PROVE SeesSources(feeds[o])'
        BY <2>1, <2>3, <3>1, <3>2, <3>3 DEF SeesSources
      <3>4. SeesSources(feeds[r])'
        BY <2>1, <2>2, <2>3, <3>1, <3>2 DEF SeesSources
      <3>5. QED
        BY <3>3, <3>4
    <2>8. Feed!NothingHidden'
      BY <2>1 DEF FeedInv, Feed!NothingHidden, Feed!Exhausted, Feed!Lasting
    <2>9. QED
      BY <2>1, <2>3, <2>6, <2>7, <2>8 DEF FeedInv, FeedType, NotesOfWords
  <1>5. ASSUME NEW r \in FeedRequests, Feed!Ends(r) PROVE FeedInv'
    <2> DEFINE q == feeds[r]
    <2>1. /\ q.at = "fill"
          /\ misses' = (misses \ q.missed) \cup Feed!Noted(q)
          /\ cut' = (cut \ q.missed) \cup (q.short \cap Feed!Noted(q))
          /\ feeds' = [feeds EXCEPT ![r] = Feed!Free]
          /\ UNCHANGED <<dict, sources, items, unfinished, returned, losses>>
      BY <1>5 DEF Feed!Ends
    <2>2. /\ feeds' \in [FeedRequests -> FeedRecord] /\ feeds'[r].at = "free"
          /\ \A o \in FeedRequests : o # r => feeds'[o] = feeds[o]
      BY <2>1 DEF FeedInv, FeedType, FeedRecord, Feed!Free
    <2>3. NotesOfWords'
      BY <2>1 DEF FeedInv, NotesOfWords, Feed!Noted
    <2>4. \A o \in FeedRequests : feeds'[o].at # "free" => BatchOnce(feeds'[o])
      BY <2>2 DEF FeedInv
    <2>5. \A o \in FeedRequests : SeesSources(feeds[o])'
      BY <2>1, <2>2 DEF FeedInv, SeesSources, Feed!Lasting
    <2>6. Feed!NothingHidden'
      <3>1. SUFFICES ASSUME NEW w \in Feed!Exhausted', NEW s \in Feed!Lasting
                     PROVE  items[<<w, s>>] # "none"
        <4>1. Feed!Lasting' = Feed!Lasting
          BY <2>1 DEF Feed!Lasting
        <4>2. QED
          BY <2>1, <4>1 DEF Feed!NothingHidden
      <3>2. CASE w \in q.missed
        <4>1. ~q.news /\ w \in dict \ returned /\ w \notin q.short
          BY <2>1, <3>1, <3>2 DEF Feed!Noted, Feed!Exhausted
        <4>2. QED
          BY <2>1, <3>2, <4>1 DEF FeedInv, SeesSources
      <3>3. CASE w \notin q.missed
        <4>1. w \in Feed!Exhausted
          BY <2>1, <3>1, <3>3 DEF Feed!Noted, Feed!Exhausted
        <4>2. w \in Terms
          BY <4>1 DEF Feed!Exhausted, FeedInv, FeedType, NotesOfWords
        <4>3. QED
          BY <3>1, <4>1, <4>2 DEF FeedInv, Feed!NothingHidden
      <3>4. QED
        BY <3>2, <3>3
    <2>7. QED
      BY <2>1, <2>2, <2>3, <2>4, <2>5, <2>6 DEF FeedInv, FeedType
  <1>6. ASSUME NEW r \in FeedRequests, Feed!Fails(r) PROVE FeedInv'
    <2>1. feeds' = [feeds EXCEPT ![r] = Feed!Free]
          /\ UNCHANGED <<dict, sources, items, misses, unfinished, returned, cut, losses>>
      BY <1>6 DEF Feed!Fails
    <2>2. /\ feeds' \in [FeedRequests -> FeedRecord] /\ feeds'[r].at = "free"
          /\ \A o \in FeedRequests : o # r => feeds'[o] = feeds[o]
      BY <2>1 DEF FeedInv, FeedType, FeedRecord, Feed!Free
    <2>3. \A o \in FeedRequests : feeds'[o].at # "free" => BatchOnce(feeds'[o])
      BY <2>2 DEF FeedInv
    <2>4. \A o \in FeedRequests : SeesSources(feeds[o])'
      BY <2>1, <2>2 DEF FeedInv, SeesSources, Feed!Lasting
    <2>5. Feed!NothingHidden'
      BY <2>1 DEF FeedInv, Feed!NothingHidden, Feed!Exhausted, Feed!Lasting
    <2>6. QED
      BY <2>1, <2>2, <2>3, <2>4, <2>5 DEF FeedInv, FeedType, NotesOfWords
  <1>7. ASSUME NEW s \in Feed!Sentences, Feed!NewText(s) PROVE FeedInv'
    <2>1. sources' = sources \cup {s} /\ UNCHANGED <<dict, items, unfinished, returned, losses>>
      BY <1>7 DEF Feed!NewText
    <2>2. CASE s \in Speech
      <3>1. UNCHANGED <<misses, feeds, cut>> /\ Feed!Lasting' = Feed!Lasting
        BY <1>7, <2>1, <2>2 DEF Feed!NewText, Feed!Lasting
      <3>2. FeedType' /\ NotesOfWords'
        BY <2>1, <3>1 DEF FeedInv, FeedType, NotesOfWords
      <3>3. Feed!NothingHidden'
        BY <2>1, <3>1 DEF FeedInv, Feed!NothingHidden, Feed!Exhausted
      <3>4. QED
        BY <2>1, <3>1, <3>2, <3>3 DEF FeedInv, BatchOnce, Feed!Taken, SeesSources
    <2>3. CASE s \notin Speech
      <3>1. Feed!Stale
        BY <1>7, <2>3 DEF Feed!NewText
      <3>2. sources' \subseteq Feed!Sentences /\ unfinished' \subseteq sources' \cap Tatoeba
            /\ items' \in ItemStates
        BY <2>1 DEF FeedInv, FeedType
      <3>3. QED
        BY <2>1, <3>1, <3>2, StaleStep
    <2>4. QED
      BY <2>2, <2>3
  <1>8. ASSUME NEW w \in Terms, Feed!RemoveWord(w) PROVE FeedInv'
    <2>1. /\ dict' = dict \ {w}
          /\ items' = [p \in DOMAIN items |-> IF p[1] = w THEN "none" ELSE items[p]]
          /\ misses' = misses \ {w} /\ cut' = cut \ {w}
          /\ losses < LossLimit /\ losses' = losses + 1
          /\ UNCHANGED <<sources, feeds, unfinished, returned>>
      BY <1>8 DEF Feed!RemoveWord
    <2>2. items' \in ItemStates
      BY <2>1 DEF FeedInv, FeedType, ItemStates, States
    <2>3. \A v \in dict', s \in Feed!Sentences : items'[<<v, s>>] = items[<<v, s>>]
      BY <2>1 DEF FeedInv, FeedType, ItemStates
    <2>4. Feed!Lasting' = Feed!Lasting /\ Feed!Lasting \subseteq Feed!Sentences
      BY <2>1 DEF Feed!Lasting, FeedInv, FeedType
    <2>5. FeedType' /\ NotesOfWords'
      BY <2>1, <2>2, FeedConstants DEF FeedInv, FeedType, NotesOfWords
    <2>6. \A r \in FeedRequests : SeesSources(feeds[r])'
      BY <2>1, <2>3, <2>4 DEF FeedInv, SeesSources
    <2>7. Feed!NothingHidden'
      <3>1. Feed!Exhausted' \subseteq Feed!Exhausted \cap dict'
        BY <2>1 DEF FeedInv, NotesOfWords, Feed!Exhausted
      <3>2. QED
        BY <2>3, <2>4, <3>1 DEF FeedInv, Feed!NothingHidden
    <2>8. QED
      BY <2>1, <2>5, <2>6, <2>7 DEF FeedInv, BatchOnce, Feed!Taken
  <1>9. ASSUME NEW w \in Terms, Feed!AddWord(w) PROVE FeedInv'
    <2>1. /\ w \notin dict /\ dict' = dict \cup {w}
          /\ UNCHANGED <<sources, items, misses, unfinished, feeds, cut, losses>>
          /\ returned' = IF Feed!Running = {} THEN returned \ {w} ELSE returned \cup {w}
      BY <1>9 DEF Feed!AddWord
    <2>2. w \notin misses
      BY <2>1 DEF FeedInv, NotesOfWords
    <2>3. \A r \in FeedRequests : feeds[r].at # "free" => w \in returned' /\ returned \subseteq returned'
      BY <2>1 DEF FeedInv, Feed!Running
    <2>4. \A r \in FeedRequests : feeds[r].at # "free" => dict' \ returned' \subseteq dict \ returned
      BY <2>1, <2>3
    <2>5. \A r \in FeedRequests : SeesSources(feeds[r])'
      BY <2>1, <2>4 DEF FeedInv, SeesSources, Feed!Lasting
    <2>6. Feed!NothingHidden'
      <3>1. Feed!Exhausted' \subseteq Feed!Exhausted /\ Feed!Lasting' = Feed!Lasting
        BY <2>1, <2>2 DEF Feed!Exhausted, Feed!Lasting
      <3>2. QED
        BY <2>1, <3>1 DEF FeedInv, Feed!NothingHidden
    <2>7. QED
      BY <2>1, <2>5, <2>6 DEF FeedInv, FeedType, NotesOfWords, BatchOnce, Feed!Taken
  <1>10. ASSUME NEW w \in Terms, NEW s \in Answerable, Feed!Answered(w, s) \/ Feed!OptionsLost(w, s)
         PROVE  FeedInv'
    <2>1. PICK state \in States \ {"none"} : items' = [items EXCEPT ![<<w, s>>] = state]
      BY <1>10 DEF Feed!Answered, Feed!OptionsLost, States
    <2>2. UNCHANGED <<dict, sources, misses, unfinished, feeds, returned, cut, losses>>
      BY <1>10 DEF Feed!Answered, Feed!OptionsLost
    <2>3. /\ items' \in ItemStates
          /\ \A v \in Terms, x \in Feed!Sentences :
                 items[<<v, x>>] # "none" => items'[<<v, x>>] # "none"
      BY <2>1 DEF FeedInv, FeedType, ItemStates
    <2>4. Feed!Lasting' = Feed!Lasting /\ Feed!Lasting \subseteq Feed!Sentences
      BY <2>2 DEF Feed!Lasting, FeedInv, FeedType
    <2>5. \A r \in FeedRequests : SeesSources(feeds[r])'
      BY <2>2, <2>3, <2>4 DEF FeedInv, FeedType, SeesSources
    <2>6. Feed!NothingHidden'
      <3>1. Feed!Exhausted' = Feed!Exhausted /\ Feed!Exhausted \subseteq Terms
        BY <2>2 DEF Feed!Exhausted, FeedInv, FeedType, NotesOfWords
      <3>2. QED
        BY <2>3, <2>4, <3>1 DEF FeedInv, Feed!NothingHidden
    <2>7. QED
      BY <2>2, <2>3, <2>5, <2>6 DEF FeedInv, FeedType, NotesOfWords, BatchOnce, Feed!Taken
  <1>11. ASSUME NEW r \in FeedRequests, NEW w \in Terms, Feed!GivesUnanswered(r, w) PROVE FeedInv'
    <2> DEFINE S == Feed!Pickable(feeds[r], w, "new")
    <2>1. /\ feeds[r].at = "fill" /\ Feed!Gives(r, w, S, {}, {})
          /\ UNCHANGED <<dict, sources, items, misses, unfinished, returned, cut, losses>>
      BY <1>11 DEF Feed!GivesUnanswered, Feed!Turn
    <2>2. S \in SUBSET (Feed!Sentences \ Feed!Taken(feeds[r]))
      BY DEF Feed!Pickable, Feed!Own
    <2>3. items' \in ItemStates /\ {} \in SUBSET {w}
      BY <2>1 DEF FeedInv, FeedType
    <2> HIDE DEF S
    <2>4. QED
      BY <2>1, <2>2, <2>3, GivesStep
  <1>12. ASSUME NEW r \in FeedRequests, NEW w \in Terms, Feed!GivesNew(r, w) PROVE FeedInv'
    <2>1. PICK found \in Feed!Searched(feeds[r]) :
              \E s \in Feed!FirstFree(feeds[r], w, found) \cap sources :
                  /\ items' = [items EXCEPT ![<<w, s>>] = IF @ = "none" THEN "new" ELSE @]
                  /\ Feed!Gives(r, w, {s}, {}, {})
      BY <1>12 DEF Feed!GivesNew
    <2>2. PICK s \in Feed!FirstFree(feeds[r], w, found) \cap sources :
              /\ items' = [items EXCEPT ![<<w, s>>] = IF @ = "none" THEN "new" ELSE @]
              /\ Feed!Gives(r, w, {s}, {}, {})
      BY <2>1
    <2>3. feeds[r].at = "fill"
          /\ UNCHANGED <<dict, sources, misses, unfinished, returned, cut, losses>>
      BY <1>12 DEF Feed!GivesNew, Feed!Turn
    <2>4. s \in Feed!Sentences \ Feed!Taken(feeds[r])
      BY DEF Feed!FirstFree, FeedInv, FeedType
    <2>5. /\ items' \in ItemStates
          /\ \A v \in Terms, x \in Feed!Sentences :
                 items[<<v, x>>] # "none" => items'[<<v, x>>] # "none"
      BY <2>2, <2>4 DEF FeedInv, FeedType, ItemStates, States
    <2>6. {s} \in SUBSET (Feed!Sentences \ Feed!Taken(feeds[r])) /\ {} \in SUBSET {w}
      BY <2>4
    <2>7. QED
      BY <2>2, <2>3, <2>5, <2>6, GivesStep
  <1>13. ASSUME NEW r \in FeedRequests, NEW w \in Terms, Feed!FindsGone(r, w) PROVE FeedInv'
    <2> DEFINE S == Feed!Pickable(feeds[r], w, "answered")
    <2>1. PICK missed \in SUBSET {w} : Feed!Gives(r, w, S, missed, missed)
      BY <1>13 DEF Feed!FindsGone
    <2>2. feeds[r].at = "fill"
          /\ UNCHANGED <<dict, sources, items, misses, unfinished, returned, cut, losses>>
      BY <1>13 DEF Feed!FindsGone, Feed!Turn
    <2>3. S \in SUBSET (Feed!Sentences \ Feed!Taken(feeds[r]))
      BY DEF Feed!Pickable, Feed!Own
    <2>4. items' \in ItemStates
      BY <2>2 DEF FeedInv, FeedType
    <2> HIDE DEF S
    <2>5. QED
      BY <2>1, <2>2, <2>3, <2>4, GivesStep
  <1>14. ASSUME NEW s \in MaterialTexts, Feed!DeleteMaterial(s) PROVE FeedInv'
    <2>1. /\ sources' = sources \ {s} /\ items' = Feed!Without({s})
          /\ losses < LossLimit /\ losses' = losses + 1
          /\ UNCHANGED <<dict, misses, feeds, returned, cut>>
          /\ unfinished' = unfinished
      BY <1>14 DEF Feed!DeleteMaterial
    <2>2. /\ items' \in ItemStates
          /\ \A w \in Terms, x \in Feed!Sentences \ {s} : items'[<<w, x>>] = items[<<w, x>>]
      BY <2>1, WithoutItems
    <2>3. Feed!Lasting' \subseteq Feed!Lasting \ {s} /\ Feed!Lasting \subseteq Feed!Sentences
      BY <2>1 DEF Feed!Lasting, FeedInv, FeedType
    <2>4. s \notin unfinished
      BY FeedConstants DEF FeedInv, FeedType
    <2>5. FeedType' /\ NotesOfWords'
      BY <2>1, <2>2, <2>4, FeedConstants DEF FeedInv, FeedType, NotesOfWords
    <2>6. \A r \in FeedRequests : SeesSources(feeds[r])'
      <3>1. SUFFICES ASSUME NEW r \in FeedRequests PROVE SeesSources(feeds[r])'
        OBVIOUS
      <3>2. SeesSources(feeds[r]) /\ dict \subseteq Terms
        BY DEF FeedInv, FeedType
      <3>3. feeds' = feeds /\ dict' = dict /\ returned' = returned
        BY <2>1
      <3>4. QED
        BY <2>2, <2>3, <3>2, <3>3 DEF SeesSources
    <2>7. Feed!NothingHidden'
      <3>1. Feed!Exhausted' = Feed!Exhausted /\ Feed!Exhausted \subseteq Terms
        BY <2>1 DEF Feed!Exhausted, FeedInv, FeedType, NotesOfWords
      <3>2. QED
        BY <2>2, <2>3, <3>1 DEF FeedInv, Feed!NothingHidden
    <2>8. QED
      BY <2>1, <2>5, <2>6, <2>7 DEF FeedInv, BatchOnce, Feed!Taken
  <1>15. ASSUME NEW s \in Tatoeba, Feed!ImportBatch(s) PROVE FeedInv'
    <2>1. /\ s \notin sources /\ sources' = sources \cup {s} /\ unfinished' = unfinished \cup {s}
          /\ UNCHANGED <<dict, items, misses, feeds, returned, cut, losses>>
      BY <1>15 DEF Feed!ImportBatch
    <2>2. Feed!Lasting' = Feed!Lasting
      BY <2>1 DEF Feed!Lasting
    <2>3. FeedType' /\ NotesOfWords'
      BY <2>1 DEF FeedInv, FeedType, NotesOfWords, Feed!Sentences
    <2>4. Feed!NothingHidden'
      BY <2>1, <2>2 DEF FeedInv, Feed!NothingHidden, Feed!Exhausted
    <2>5. QED
      BY <2>1, <2>2, <2>3, <2>4 DEF FeedInv, BatchOnce, Feed!Taken, SeesSources
  <1>16. ASSUME NEW gone \in SUBSET Tatoeba, Feed!ImportFinishes(gone) PROVE FeedInv'
    <2>1. /\ unfinished' = {} /\ sources' = sources \ gone /\ items' = Feed!Without(gone)
          /\ Feed!Stale /\ UNCHANGED <<dict, returned, losses>>
      BY <1>16 DEF Feed!ImportFinishes
    <2>2. items' \in ItemStates
      BY <2>1, WithoutItems
    <2>3. sources' \subseteq Feed!Sentences /\ unfinished' \subseteq sources' \cap Tatoeba
      BY <2>1 DEF FeedInv, FeedType
    <2>4. QED
      BY <2>1, <2>2, <2>3, StaleStep
  <1>17. QED
    BY <1>1, <1>2, <1>3, <1>4, <1>5, <1>6, <1>7, <1>8, <1>9, <1>10, <1>11, <1>12, <1>13, <1>14,
       <1>15, <1>16, GivesAnsweredStep DEF FeedNext

LEMMA FeedKept == ASSUME FeedInv, UNCHANGED feedState PROVE FeedInv'
  BY DEF feedState, FeedInv, FeedType, NotesOfWords, BatchOnce, Feed!Taken, SeesSources,
         Feed!Lasting, Feed!Exhausted, Feed!NothingHidden

LEMMA FeedInvariant == Spec => []FeedInv
  <1>1. Init => FeedInv
    BY FeedInit
  <1>2. FeedInv /\ [Next]_vars => FeedInv'
    BY PartsAlone, FeedStep, FeedKept
  <1>3. QED
    BY <1>1, <1>2, PTL DEF Spec

\* However many tabs fill their feeds while sources come and go, batches of a
\* corpus arrive, words go and answers come, and whatever the limits of a search:
\* no feed shows a sentence twice, and a word waits for the hour only if every
\* sentence with a time is an item of it, unless its search was cut short by a
\* limit or a deletion, the word came back, or the import has not finished.
THEOREM FeedCorrect == Spec => []FeedComplete
  <1>1. FeedInv => FeedComplete
    <2> SUFFICES ASSUME FeedInv PROVE FeedComplete
      OBVIOUS
    <2>1. ASSUME NEW r \in Feed!Running
          PROVE  Feed!Cardinality(Feed!Taken(feeds[r])) = Feed!Cardinality(feeds[r].batch)
      <3>1. r \in FeedRequests /\ feeds[r].at # "free"
        BY FeedRunning DEF FeedInv, Feed!Running
      <3>2. BatchOnce(feeds[r])
        BY <3>1 DEF FeedInv
      <3>3. QED
        BY <3>2, FeedCardinality DEF BatchOnce
    <2>2. Feed!SentenceOnce
      BY <2>1 DEF Feed!SentenceOnce
    <2>3. QED
      BY <2>2 DEF FeedInv, FeedComplete
  <1>2. QED
    BY <1>1, FeedInvariant, PTL

-----------------------------------------------------------------------------
\* Words, their cards and the journals

CardRecord ==
    [state : {"none", "new", "learning", "relearning", "review"}, days : Nat, due : Nat,
     reps : Nat, last : Nat]

Review == [id : Nat, term : Terms, rating : Card!Ratings, key : Keys \cup {"none"}]

Attempt == [term : Terms, item : Nat, key : Keys, rating : Card!Ratings, review : Nat]

Reviewing ==
    [at : {"free"}]
        \cup [at : {"came", "locked"}, kind : {"review", "attempt"}, term : Terms, item : Nat,
              key : Keys, rating : Card!Ratings, stamp : Nat]

CardsType ==
    /\ today \in Nat /\ written \in Nat /\ added \in Nat
    /\ words \in [Terms -> 0..5] /\ cards \in [Terms -> CardRecord] /\ itemOf \in [Terms -> Nat]
    /\ reviews \subseteq Review /\ attempts \subseteq Attempt
    /\ reviewing \in [Requests -> Reviewing]

\* Every row of a journal has a number of its own, every key one row, and a
\* counted answer its review.
Journals ==
    /\ IsFiniteSet(reviews)
    /\ \A v \in reviews : v.id <= written
    /\ \A v, o \in reviews : v.key = o.key /\ v.key # "none" => v = o
    /\ \A a \in attempts : a.review <= written
    /\ \A a, o \in attempts : a.key = o.key => a = o
    /\ \A a \in attempts : a.review # 0 =>
           \E v \in reviews : v.id = a.review /\ v.rating = a.rating /\ v.term = a.term
    /\ \A a, o \in attempts : a # o /\ a.review = o.review => a.review = 0

ReviewsOf(t) == {v \in reviews : v.term = t}

CardsFollowJournal == \A t \in Terms : cards[t].reps = Cardinality(ReviewsOf(t))

\* A word without a card has the status it came with.
BareWordsAreNew ==
    \A t \in Terms : words[t] # 0 /\ cards[t] = Card!NoCard /\ t \notin byHand => words[t] = 1

\* Whoever holds the lock found the word and its card, and was stamped before.
LockersHaveCards ==
    \A r \in Requests :
        /\ reviewing[r].at \in {"came", "locked"} => reviewing[r].stamp <= today
        /\ reviewing[r].at = "locked" =>
               words[reviewing[r].term] # 0 /\ cards[reviewing[r].term] # Card!NoCard

CardsInv ==
    /\ CardsType /\ Journals /\ CardsFollowJournal /\ BareWordsAreNew /\ LockersHaveCards
    /\ Card!CardPerWord /\ Card!StatusFollowsCard

LEMMA CardCardinality ==
    ASSUME NEW S PROVE Card!Cardinality(S) = Cardinality(S)
  BY DEF Card!Cardinality, Cardinality

LEMMA VocabularyFacts == Intervals \subseteq Nat /\ "none" \notin Keys
  BY RequestsAssumption DEF Card!VocabularyAssumption

LEMMA NoCardFacts == Card!NoCard \in CardRecord /\ Card!NoCard.reps = 0 /\ Card!NoCard.state = "none"
  BY DEF Card!NoCard, CardRecord

LEMMA StatusOfNew == ASSUME NEW c, c.state = "new", c.days = 0 PROVE Card!Status(c) = 1
  BY DEF Card!Status

LEMMA NewCardFacts ==
    ASSUME NEW at \in Nat
    PROVE  /\ Card!NewCard(at) \in CardRecord /\ Card!NewCard(at) # Card!NoCard
           /\ Card!NewCard(at).reps = 0 /\ Card!Status(Card!NewCard(at)) = 1
  <1>1. /\ Card!NewCard(at) \in CardRecord /\ Card!NewCard(at).state = "new"
        /\ Card!NewCard(at).reps = 0 /\ Card!NewCard(at).days = 0
    BY DEF Card!NewCard, Card!NoCard, CardRecord
  <1>2. Card!NewCard(at) # Card!NoCard
    BY <1>1, NoCardFacts
  <1>3. Card!Status(Card!NewCard(at)) = 1
    BY <1>1, StatusOfNew
  <1>4. QED
    BY <1>1, <1>2, <1>3

LEMMA StatusFacts == ASSUME NEW c PROVE Card!Status(c) \in 1..5
  BY DEF Card!Status

LEMMA ReviewedFacts ==
    ASSUME NEW c \in CardRecord, NEW rating, NEW at \in Nat, NEW d \in Card!Reviewed(c, rating, at)
    PROVE  d \in CardRecord /\ d.reps = c.reps + 1 /\ d # Card!NoCard
  <1>1. c.last <= at
    BY DEF Card!Reviewed, CardRecord
  <1>2. \E state \in {"new", "learning", "relearning", "review"}, days \in Nat, due \in Nat :
            d = [state |-> state, days |-> days, due |-> due, reps |-> c.reps + 1, last |-> at]
    BY <1>1, VocabularyFacts DEF Card!Reviewed, CardRecord
  <1>3. d \in CardRecord /\ d.reps = c.reps + 1 /\ d.state # "none"
    BY <1>2 DEF CardRecord
  <1>4. QED
    BY <1>3, NoCardFacts


LEMMA CardsInit == ASSUME Init PROVE CardsInv
  <1>1. Card!Init
    BY DEF Init
  <1>2. /\ today = 0 /\ words = [t \in Terms |-> 1]
        /\ cards = [t \in Terms |-> Card!NewCard(0)] /\ itemOf = [t \in Terms |-> 0]
        /\ reviews = {} /\ attempts = {} /\ written = 0 /\ added = 0
        /\ reviewing = [r \in Requests |-> [at |-> "free"]]
    BY <1>1 DEF Card!Init, Card!NoRequest
  <1>3. \A t \in Terms : /\ cards[t] \in CardRecord /\ cards[t] # Card!NoCard
                         /\ cards[t].reps = 0 /\ Card!Status(cards[t]) = 1
    BY <1>2, NewCardFacts
  <1>4. CardsType
    <2>1. cards \in [Terms -> CardRecord]
      BY <1>2, NewCardFacts
    <2>2. reviewing \in [Requests -> Reviewing]
      BY <1>2 DEF Reviewing
    <2>3. QED
      BY <1>2, <2>1, <2>2 DEF CardsType
  <1>5. Journals /\ CardsFollowJournal
    <2>1. \A t \in Terms : ReviewsOf(t) = {}
      BY <1>2 DEF ReviewsOf
    <2>2. QED
      BY <1>2, <1>3, <2>1, FS_EmptySet DEF Journals, CardsFollowJournal
  <1>6. BareWordsAreNew /\ LockersHaveCards
    BY <1>2, <1>3 DEF BareWordsAreNew, LockersHaveCards
  <1>7. Card!CardPerWord /\ Card!StatusFollowsCard
    BY <1>2, <1>3 DEF Card!CardPerWord, Card!StatusFollowsCard
  <1>8. QED
    BY <1>4, <1>5, <1>6, <1>7 DEF CardsInv

\* No journal row comes or goes.
LEMMA JournalsKept ==
    ASSUME CardsInv, UNCHANGED <<reviews, attempts, written>>,
           \A t \in Terms : cards'[t].reps = cards[t].reps
    PROVE  Journals' /\ CardsFollowJournal'
  BY DEF CardsInv, Journals, CardsFollowJournal, ReviewsOf

LEMMA SaveUserTermStep ==
    ASSUME CardsInv, NEW t \in Terms, NEW level \in {0, 3}, Card!SaveUserTerm(t, level)
    PROVE  CardsInv'
  <1>1. /\ ~Card!Locked(t) /\ UNCHANGED <<today, itemOf, reviews, attempts, reviewing, written, cardless>>
        /\ byHand' = IF level = 0 THEN byHand ELSE byHand \cup {t}
    BY DEF Card!SaveUserTerm
  <1>2. CASE words[t] = 0
    <2>1. /\ added' = added + 1
          /\ words' = [words EXCEPT ![t] = IF level = 0 THEN 1 ELSE level]
          /\ cards' = [cards EXCEPT ![t] = Card!NewCard(today)]
      BY <1>2 DEF Card!SaveUserTerm, Card!CardOf
    <2>2. cards[t] = Card!NoCard
      BY <1>2 DEF CardsInv, Card!CardPerWord
    <2>3. /\ CardsType' /\ cards'[t] = Card!NewCard(today) /\ words'[t] = IF level = 0 THEN 1 ELSE level
          /\ \A o \in Terms : o # t => cards'[o] = cards[o] /\ words'[o] = words[o]
      BY <1>1, <2>1, NewCardFacts DEF CardsInv, CardsType
    <2>4. Journals' /\ CardsFollowJournal'
      BY <1>1, <2>2, <2>3, NoCardFacts, NewCardFacts, JournalsKept DEF CardsInv, CardsType
    <2>5. BareWordsAreNew'
      BY <1>1, <2>3, NewCardFacts DEF CardsInv, CardsType, BareWordsAreNew
    <2>6. LockersHaveCards'
      <3>1. \A r \in Requests : reviewing[r].at = "locked" => reviewing[r].term # t /\ reviewing[r].term \in Terms
        BY <1>1 DEF Card!Locked, CardsInv, CardsType, Reviewing
      <3>2. QED
        BY <1>1, <2>3, <3>1 DEF CardsInv, LockersHaveCards
    <2>7. Card!CardPerWord'
      BY <1>1, <2>3, NewCardFacts DEF CardsInv, CardsType, Card!CardPerWord
    <2>8. Card!StatusFollowsCard'
      BY <1>1, <2>3, NewCardFacts DEF CardsInv, CardsType, Card!StatusFollowsCard
    <2>9. QED
      BY <2>3, <2>4, <2>5, <2>6, <2>7, <2>8 DEF CardsInv
  <1>3. CASE words[t] # 0
    <2>1. level = 3 /\ words' = [words EXCEPT ![t] = 3] /\ UNCHANGED <<cards, added>>
      BY <1>3 DEF Card!SaveUserTerm
    <2>2. /\ CardsType' /\ words'[t] = 3 /\ t \in byHand' /\ byHand \subseteq byHand'
          /\ \A o \in Terms : o # t => words'[o] = words[o]
      BY <1>1, <2>1 DEF CardsInv, CardsType
    <2>3. Journals' /\ CardsFollowJournal'
      BY <1>1, <2>1, JournalsKept
    <2>4. BareWordsAreNew' /\ Card!CardPerWord' /\ Card!StatusFollowsCard'
      BY <1>1, <1>3, <2>1, <2>2 DEF CardsInv, BareWordsAreNew, Card!CardPerWord, Card!StatusFollowsCard
    <2>5. LockersHaveCards'
      <3>1. \A r \in Requests : reviewing[r].at = "locked" => reviewing[r].term # t /\ reviewing[r].term \in Terms
        BY <1>1 DEF Card!Locked, CardsInv, CardsType, Reviewing
      <3>2. QED
        BY <1>1, <2>1, <2>2, <3>1 DEF CardsInv, LockersHaveCards
    <2>6. QED
      BY <2>2, <2>3, <2>4, <2>5 DEF CardsInv
  <1>4. QED
    BY <1>2, <1>3

LEMMA SaveByOldApiStep ==
    ASSUME CardsInv, NEW t \in Terms, Card!SaveByOldApi(t)
    PROVE  CardsInv'
  <1>1. /\ ~Card!Locked(t) /\ words[t] = 0
        /\ added' = added + 1 /\ words' = [words EXCEPT ![t] = 1] /\ cardless' = cardless \cup {t}
        /\ UNCHANGED <<today, cards, itemOf, reviews, attempts, reviewing, written, byHand>>
    BY DEF Card!SaveByOldApi
  <1>2. cards[t] = Card!NoCard
    BY <1>1 DEF CardsInv, Card!CardPerWord
  <1>3. /\ CardsType' /\ words'[t] = 1 /\ \A o \in Terms : o # t => words'[o] = words[o]
    BY <1>1 DEF CardsInv, CardsType
  <1>4. Journals' /\ CardsFollowJournal'
    BY <1>1, JournalsKept
  <1>5. LockersHaveCards'
    <2>1. \A r \in Requests : reviewing[r].at = "locked" => reviewing[r].term # t /\ reviewing[r].term \in Terms
      BY <1>1 DEF Card!Locked, CardsInv, CardsType, Reviewing
    <2>2. QED
      BY <1>1, <1>3, <2>1 DEF CardsInv, LockersHaveCards
  <1>6. BareWordsAreNew' /\ Card!CardPerWord' /\ Card!StatusFollowsCard'
    BY <1>1, <1>2, <1>3 DEF CardsInv, BareWordsAreNew, Card!CardPerWord, Card!StatusFollowsCard
  <1>7. QED
    BY <1>3, <1>4, <1>5, <1>6 DEF CardsInv

LEMMA BackfillStep == ASSUME CardsInv, Card!BackfillSRSCards PROVE CardsInv'
  <1>1. /\ cards' = [t \in Terms |-> IF words[t] # 0 /\ cards[t] = Card!NoCard THEN Card!NewCard(0)
                                     ELSE cards[t]]
        /\ cardless' = {}
        /\ UNCHANGED <<today, words, itemOf, reviews, attempts, reviewing, written, added, byHand>>
    BY DEF Card!BackfillSRSCards
  <1>2. \A t \in Terms :
            \/ cards'[t] = cards[t] /\ ~(words[t] # 0 /\ cards[t] = Card!NoCard)
            \/ words[t] # 0 /\ cards[t] = Card!NoCard /\ cards'[t] = Card!NewCard(0)
    BY <1>1
  <1>3. cards' \in [Terms -> CardRecord]
    BY <1>1, NewCardFacts DEF CardsInv, CardsType
  <1>4. CardsType'
    BY <1>1, <1>3 DEF CardsInv, CardsType
  <1>5. Journals' /\ CardsFollowJournal'
    BY <1>1, <1>2, NoCardFacts, NewCardFacts, JournalsKept
  <1>6. LockersHaveCards'
    <2>1. \A r \in Requests : reviewing[r].at = "locked" => reviewing[r].term \in Terms
      BY DEF CardsInv, CardsType, Reviewing
    <2>2. QED
      BY <1>1, <1>2, <2>1 DEF CardsInv, LockersHaveCards
  <1>7. BareWordsAreNew' /\ Card!CardPerWord'
    BY <1>1, <1>2, NewCardFacts DEF CardsInv, BareWordsAreNew, Card!CardPerWord
  <1>8. Card!StatusFollowsCard'
    BY <1>1, <1>2, NewCardFacts DEF CardsInv, BareWordsAreNew, Card!StatusFollowsCard
  <1>9. QED
    BY <1>4, <1>5, <1>6, <1>7, <1>8 DEF CardsInv

LEMMA DeleteUserTermStep ==
    ASSUME CardsInv, NEW t \in Terms, Card!DeleteUserTerm(t)
    PROVE  CardsInv'
  <1>1. /\ ~Card!Locked(t)
        /\ words' = [words EXCEPT ![t] = 0] /\ cards' = [cards EXCEPT ![t] = Card!NoCard]
        /\ itemOf' = [itemOf EXCEPT ![t] = 0]
        /\ reviews' = {v \in reviews : v.term # t} /\ attempts' = {a \in attempts : a.term # t}
        /\ byHand' = byHand \ {t} /\ cardless' = cardless \ {t}
        /\ UNCHANGED <<today, reviewing, written, added>>
    BY DEF Card!DeleteUserTerm, Card!KeptReviews
  <1>2. /\ CardsType' /\ words'[t] = 0 /\ cards'[t] = Card!NoCard
        /\ \A o \in Terms : o # t => words'[o] = words[o] /\ cards'[o] = cards[o]
    BY <1>1, NoCardFacts DEF CardsInv, CardsType
  <1>3. Journals'
    <2>1. IsFiniteSet(reviews')
      BY <1>1, FS_Subset DEF CardsInv, Journals
    <2>2. QED
      BY <1>1, <2>1 DEF CardsInv, Journals
  <1>4. CardsFollowJournal'
    <2>1. SUFFICES ASSUME NEW o \in Terms PROVE cards'[o].reps = Cardinality(ReviewsOf(o)')
      BY DEF CardsFollowJournal
    <2>2. CASE o = t
      <3>1. ReviewsOf(o)' = {}
        BY <1>1, <2>2 DEF ReviewsOf
      <3>2. QED
        BY <1>2, <2>2, <3>1, NoCardFacts, FS_EmptySet
    <2>3. CASE o # t
      <3>1. ReviewsOf(o)' = ReviewsOf(o)
        BY <1>1, <2>3 DEF ReviewsOf
      <3>2. QED
        BY <1>2, <2>3, <3>1 DEF CardsInv, CardsFollowJournal
    <2>4. QED
      BY <2>2, <2>3
  <1>5. LockersHaveCards'
    <2>1. \A r \in Requests : reviewing[r].at = "locked" => reviewing[r].term # t /\ reviewing[r].term \in Terms
      BY <1>1 DEF Card!Locked, CardsInv, CardsType, Reviewing
    <2>2. QED
      BY <1>1, <1>2, <2>1 DEF CardsInv, LockersHaveCards
  <1>6. BareWordsAreNew' /\ Card!CardPerWord' /\ Card!StatusFollowsCard'
    BY <1>1, <1>2 DEF CardsInv, BareWordsAreNew, Card!CardPerWord, Card!StatusFollowsCard
  <1>7. QED
    BY <1>2, <1>3, <1>4, <1>5, <1>6 DEF CardsInv

\* A request comes, is locked, or ends without a trace.
LEMMA ReviewingStep ==
    ASSUME CardsInv, NEW r \in Requests, NEW next \in Reviewing,
           reviewing' = [reviewing EXCEPT ![r] = next],
           next.at \in {"came", "locked"} => next.stamp <= today,
           next.at = "locked" => words[next.term] # 0 /\ cards[next.term] # Card!NoCard,
           UNCHANGED <<today, words, cards, itemOf, reviews, attempts, written, added, byHand, cardless>>
    PROVE  CardsInv'
  <1>1. /\ reviewing' \in [Requests -> Reviewing] /\ reviewing'[r] = next
        /\ \A o \in Requests : o # r => reviewing'[o] = reviewing[o]
    BY DEF CardsInv, CardsType
  <1>2. LockersHaveCards'
    BY <1>1 DEF CardsInv, LockersHaveCards
  <1>3. Journals' /\ CardsFollowJournal'
    BY JournalsKept
  <1>4. QED
    BY <1>1, <1>2, <1>3 DEF CardsInv, CardsType, BareWordsAreNew, Card!CardPerWord, Card!StatusFollowsCard

LEMMA AskStep ==
    ASSUME CardsInv, NEW r \in Requests, NEW t \in Terms, NEW key \in Keys, NEW ask \in Rated,
           Card!Ask(r, ask[1], t, key, ask[2])
    PROVE  CardsInv'
  <1> DEFINE next == [at |-> "came", kind |-> ask[1], term |-> t,
                      item |-> IF ask[1] = "attempt" THEN itemOf[t] ELSE 0,
                      key |-> key, rating |-> ask[2], stamp |-> today]
  <1>1. reviewing' = [reviewing EXCEPT ![r] = next]
        /\ UNCHANGED <<today, words, cards, itemOf, reviews, attempts, written, added, byHand, cardless>>
    BY DEF Card!Ask
  <1>2. ask[1] \in {"review", "attempt"} /\ ask[2] \in Card!Ratings
    BY RequestsAssumption
  <1>3. next \in Reviewing
    BY <1>2 DEF Reviewing, CardsInv, CardsType
  <1>4. next.at = "came" /\ next.stamp <= today
    BY DEF CardsInv, CardsType
  <1> HIDE DEF next
  <1>5. QED
    BY <1>1, <1>3, <1>4, ReviewingStep

LEMMA LockCardStep ==
    ASSUME CardsInv, NEW r \in Requests, Card!LockCard(r) \/ Card!Rollback(r)
    PROVE  CardsInv'
  <1>1. UNCHANGED <<today, words, cards, itemOf, reviews, attempts, written, added, byHand, cardless>>
    BY DEF Card!LockCard, Card!Rollback
  <1>2. CASE reviewing' = [reviewing EXCEPT ![r] = Card!NoRequest]
    <2>1. Card!NoRequest \in Reviewing /\ Card!NoRequest.at = "free"
      BY DEF Card!NoRequest, Reviewing
    <2>2. QED
      BY <1>1, <1>2, <2>1, ReviewingStep
  <1>3. CASE Card!LockCard(r) /\ reviewing' = [reviewing EXCEPT ![r].at = "locked"]
             /\ words[reviewing[r].term] # 0 /\ cards[reviewing[r].term] # Card!NoCard
    <2> DEFINE q == reviewing[r]
               next == [q EXCEPT !.at = "locked"]
    <2>1. q.at = "came"
      BY <1>3 DEF Card!LockCard
    <2>2. next \in Reviewing /\ next.at = "locked" /\ next.term = q.term /\ next.stamp = q.stamp
      BY <2>1 DEF Reviewing, CardsInv, CardsType
    <2>3. q.stamp <= today
      BY <2>1 DEF CardsInv, LockersHaveCards
    <2>4. reviewing' = [reviewing EXCEPT ![r] = next]
      BY <1>3
    <2> HIDE DEF next
    <2>5. QED
      BY <1>1, <1>3, <2>2, <2>3, <2>4, ReviewingStep
  <1>4. QED
    BY <1>2, <1>3 DEF Card!LockCard, Card!Rollback, Card!Answered


\* A review is written, or an answer with or without one.
LEMMA CommitStep ==
    ASSUME CardsInv, NEW r \in Requests, Card!Commit(r)
    PROVE  CardsInv'
  <1> DEFINE q == reviewing[r]
             t == q.term
             id == written + 1
             v0 == [id |-> id, term |-> t, rating |-> q.rating,
                    key |-> IF q.kind = "review" THEN q.key ELSE "none"]
             a0 == [term |-> t, item |-> q.item, key |-> q.key, rating |-> q.rating,
                    review |-> IF Card!Counts(cards[t], q) THEN id ELSE 0]
  <1>1. /\ q.at = "locked" /\ q.kind \in {"review", "attempt"} /\ t \in Terms /\ q.item \in Nat
        /\ q.key \in Keys /\ q.rating \in Card!Ratings /\ q.stamp \in Nat
    BY DEF Card!Commit, CardsInv, CardsType, Reviewing
  <1>2. /\ attempts' = IF q.kind = "review" THEN attempts ELSE attempts \cup {a0}
        /\ written' = id /\ reviewing' = [reviewing EXCEPT ![r] = Card!NoRequest]
        /\ UNCHANGED <<today, itemOf, added, cardless>>
        /\ ~Card!Taken(q)
    BY DEF Card!Commit, Card!Answered
  <1>3. written \in Nat /\ id \in Nat /\ id > written
    BY DEF CardsInv, CardsType
  <1>4. v0 \in Review /\ v0.id = id /\ v0.term = t /\ v0.rating = q.rating
        /\ v0.key = IF q.kind = "review" THEN q.key ELSE "none"
    BY <1>1, <1>3 DEF Review
  <1>5. a0 \in Attempt /\ a0.key = q.key /\ a0.term = t /\ a0.rating = q.rating
        /\ a0.review = IF Card!Counts(cards[t], q) THEN id ELSE 0
    BY <1>1, <1>3 DEF Attempt
  <1>6. q.kind = "attempt" => \A a \in attempts : a.key # q.key
    BY <1>2 DEF Card!Taken
  <1>7. q.kind = "review" => \A v \in reviews : v.key # q.key
    BY <1>2 DEF Card!Taken
  <1>8. /\ reviewing' \in [Requests -> Reviewing] /\ reviewing'[r].at = "free"
        /\ \A o \in Requests : o # r => reviewing'[o] = reviewing[o]
    BY <1>2 DEF CardsInv, CardsType, Reviewing, Card!NoRequest
  <1>9. words[t] # 0 /\ cards[t] # Card!NoCard /\ cards[t] \in CardRecord
    BY <1>1 DEF CardsInv, CardsType, LockersHaveCards
  <1>10. attempts' \subseteq Attempt
    BY <1>2, <1>5 DEF CardsInv, CardsType
  <1>11. CASE Card!Counts(cards[t], q)
    <2>1. PICK c \in Card!Reviewed(cards[t], q.rating, q.stamp) :
              /\ cards' = [cards EXCEPT ![t] = c]
              /\ words' = [words EXCEPT ![t] = Card!Status(c)] /\ byHand' = byHand \ {t}
              /\ reviews' = reviews \cup {v0}
      BY <1>11, Zenon DEF Card!Commit, Card!StatusAfter
    <2>2. c \in CardRecord /\ c.reps = cards[t].reps + 1 /\ c # Card!NoCard
      BY <1>1, <1>9, ReviewedFacts
    <2>3. Card!Status(c) \in 1..5
      BY StatusFacts
    <2> HIDE DEF v0, a0
    <2>4. /\ cards'[t] = c /\ words'[t] = Card!Status(c)
          /\ cards' \in [Terms -> CardRecord] /\ words' \in [Terms -> 0..5]
          /\ \A o \in Terms : o # t => cards'[o] = cards[o] /\ words'[o] = words[o]
      BY <1>1, <2>1, <2>2, <2>3 DEF CardsInv, CardsType
    <2>5. CardsType'
      BY <1>2, <1>3, <1>4, <1>8, <1>10, <2>1, <2>4 DEF CardsInv, CardsType
    <2>6. v0 \notin reviews
      BY <1>3, <1>4 DEF CardsInv, Journals, CardsType, Review
    <2>7. Journals'
      <3>1. IsFiniteSet(reviews')
        BY <2>1, FS_AddElement DEF CardsInv, Journals
      <3>2. /\ \A v \in reviews' : v.id <= written'
            /\ \A v, o \in reviews' : v.key = o.key /\ v.key # "none" => v = o
        <4>1. \A v \in reviews : v.id \in Nat /\ v.id <= written
          BY DEF CardsInv, CardsType, Journals, Review
        <4>2. \A v \in reviews : v0.key # "none" => v.key # v0.key
          BY <1>1, <1>4, <1>7
        <4>3. QED
          BY <1>2, <1>3, <1>4, <2>1, <4>1, <4>2 DEF CardsInv, Journals
      <3>3. \A a \in attempts : a.review \in Nat /\ a.review <= written
        BY DEF CardsInv, CardsType, Journals, Attempt
      <3>4. \A a \in attempts' : a.review <= written'
        BY <1>2, <1>3, <1>5, <1>11, <3>3
      <3>5. \A a, o \in attempts' : a.key = o.key => a = o
        BY <1>1, <1>2, <1>5, <1>6 DEF CardsInv, Journals
      <3>6. \A a \in attempts' : a.review # 0 =>
                \E v \in reviews' : v.id = a.review /\ v.rating = a.rating /\ v.term = a.term
        BY <1>2, <1>4, <1>5, <1>11, <2>1 DEF CardsInv, Journals
      <3>7. \A a, o \in attempts' : a # o /\ a.review = o.review => a.review = 0
        BY <1>2, <1>3, <1>5, <1>11, <3>3 DEF CardsInv, Journals
      <3>8. QED
        BY <3>1, <3>2, <3>4, <3>5, <3>6, <3>7 DEF Journals
    <2>8. CardsFollowJournal'
      <3>1. SUFFICES ASSUME NEW o \in Terms PROVE cards'[o].reps = Cardinality(ReviewsOf(o)')
        BY DEF CardsFollowJournal
      <3>2. cards[o].reps = Cardinality(ReviewsOf(o)) /\ IsFiniteSet(ReviewsOf(o))
        <4>1. ReviewsOf(o) \subseteq reviews
          BY DEF ReviewsOf
        <4>2. QED
          BY <4>1, FS_Subset DEF CardsInv, Journals, CardsFollowJournal
      <3>3. CASE o = t
        <4>1. ReviewsOf(o)' = ReviewsOf(o) \cup {v0} /\ v0 \notin ReviewsOf(o)
          BY <1>4, <2>1, <2>6, <3>3 DEF ReviewsOf
        <4>2. Cardinality(ReviewsOf(o)') = Cardinality(ReviewsOf(o)) + 1
          BY <3>2, <4>1, FS_AddElement
        <4>3. QED
          BY <2>2, <2>4, <3>2, <3>3, <4>2
      <3>4. CASE o # t
        <4>1. ReviewsOf(o)' = ReviewsOf(o)
          BY <1>4, <2>1, <3>4 DEF ReviewsOf
        <4>2. QED
          BY <2>4, <3>2, <3>4, <4>1
      <3>5. QED
        BY <3>3, <3>4
    <2>9. BareWordsAreNew'
      BY <2>1, <2>2, <2>4 DEF CardsInv, BareWordsAreNew
    <2>10. LockersHaveCards'
      <3>1. \A o \in Requests : reviewing[o].at = "locked" => reviewing[o].term \in Terms
        BY DEF CardsInv, CardsType, Reviewing
      <3>2. QED
        BY <1>2, <1>8, <2>2, <2>3, <2>4, <3>1 DEF CardsInv, LockersHaveCards
    <2>11. Card!CardPerWord'
      BY <1>2, <2>2, <2>3, <2>4 DEF CardsInv, Card!CardPerWord
    <2>12. Card!StatusFollowsCard'
      BY <2>1, <2>4 DEF CardsInv, Card!StatusFollowsCard
    <2>13. QED
      BY <2>5, <2>7, <2>8, <2>9, <2>10, <2>11, <2>12 DEF CardsInv
  <1>12. CASE ~Card!Counts(cards[t], q)
    <2>1. q.kind = "attempt" /\ UNCHANGED <<cards, words, byHand, reviews>>
      BY <1>12, Zenon DEF Card!Commit
    <2> HIDE DEF v0, a0
    <2>2. CardsType'
      BY <1>2, <1>3, <1>8, <1>10, <2>1 DEF CardsInv, CardsType
    <2>3. Journals'
      <3>1. \A v \in reviews : v.id \in Nat /\ v.id <= written
        BY DEF CardsInv, CardsType, Journals, Review
      <3>2. \A a \in attempts : a.review \in Nat /\ a.review <= written
        BY DEF CardsInv, CardsType, Journals, Attempt
      <3>3. attempts' = attempts \cup {a0} /\ a0.review = 0
        BY <1>2, <1>5, <1>12, <2>1
      <3>4. \A v \in reviews' : v.id <= written'
        BY <1>2, <1>3, <2>1, <3>1
      <3>5. \A a \in attempts' : a.review <= written'
        BY <1>2, <1>3, <3>2, <3>3
      <3>6. \A a, o \in attempts' : a.key = o.key => a = o
        BY <1>5, <1>6, <2>1, <3>3 DEF CardsInv, Journals
      <3>7. \A a \in attempts' : a.review # 0 =>
                \E v \in reviews' : v.id = a.review /\ v.rating = a.rating /\ v.term = a.term
        BY <2>1, <3>3 DEF CardsInv, Journals
      <3>8. \A a, o \in attempts' : a # o /\ a.review = o.review => a.review = 0
        BY <3>3 DEF CardsInv, Journals
      <3>9. QED
        BY <2>1, <3>4, <3>5, <3>6, <3>7, <3>8 DEF CardsInv, Journals
    <2>4. CardsFollowJournal'
      BY <2>1 DEF CardsInv, CardsFollowJournal, ReviewsOf
    <2>5. LockersHaveCards'
      BY <1>2, <1>8, <2>1 DEF CardsInv, LockersHaveCards
    <2>6. QED
      BY <1>2, <2>1, <2>2, <2>3, <2>4, <2>5
         DEF CardsInv, BareWordsAreNew, Card!CardPerWord, Card!StatusFollowsCard
  <1>13. QED
    BY <1>11, <1>12

LEMMA CardsStep == ASSUME CardsInv, CardNext PROVE CardsInv'
  <1>1. CASE Card!Tick
    <2>1. today' = today + 1
          /\ UNCHANGED <<words, cards, itemOf, reviews, attempts, reviewing, written, added, byHand, cardless>>
      BY <1>1 DEF Card!Tick
    <2>2. LockersHaveCards'
      <3>1. \A r \in Requests : reviewing[r].at \in {"came", "locked"} => reviewing[r].stamp \in Nat
        BY DEF CardsInv, CardsType, Reviewing
      <3>2. QED
        BY <2>1, <3>1 DEF CardsInv, CardsType, LockersHaveCards
    <2>3. Journals' /\ CardsFollowJournal'
      BY <2>1, JournalsKept
    <2>4. QED
      BY <2>1, <2>2, <2>3 DEF CardsInv, CardsType, BareWordsAreNew, Card!CardPerWord, Card!StatusFollowsCard
  <1>2. ASSUME NEW t \in Terms, Card!CreateClozeItem(t) PROVE CardsInv'
    <2>1. itemOf' = [itemOf EXCEPT ![t] = added + 1] /\ added' = added + 1
          /\ UNCHANGED <<today, words, cards, reviews, attempts, reviewing, written, byHand, cardless>>
      BY <1>2 DEF Card!CreateClozeItem
    <2>2. Journals' /\ CardsFollowJournal'
      BY <2>1, JournalsKept
    <2>3. CardsType'
      BY <2>1 DEF CardsInv, CardsType
    <2>4. QED
      BY <2>1, <2>2, <2>3 DEF CardsInv, BareWordsAreNew, LockersHaveCards, Card!CardPerWord, Card!StatusFollowsCard
  <1>3. QED
    BY <1>1, <1>2, SaveUserTermStep, SaveByOldApiStep, BackfillStep, DeleteUserTermStep, AskStep,
       LockCardStep, CommitStep DEF CardNext

LEMMA CardsKept == ASSUME CardsInv, UNCHANGED cardState PROVE CardsInv'
  BY DEF cardState, CardsInv, CardsType, Journals, CardsFollowJournal, ReviewsOf, BareWordsAreNew,
         LockersHaveCards, Card!CardPerWord, Card!StatusFollowsCard

LEMMA CardsInvariant == Spec => []CardsInv
  <1>1. Init => CardsInv
    BY CardsInit
  <1>2. CardsInv /\ [Next]_vars => CardsInv'
    BY PartsAlone, CardsStep, CardsKept
  <1>3. QED
    BY <1>1, <1>2, PTL DEF Spec

\* A card moves by a review, which is stamped when it is due, or by a miss.
LEMMA CardMoves ==
    ASSUME CardsInv, CardNext, NEW t \in Terms, cards'[t].reps > cards[t].reps, cards[t].due > today
    PROVE  \E a \in attempts' \ attempts : a.term = t /\ a.rating = "again"
  <1>1. cards[t] \in CardRecord
    BY DEF CardsInv, CardsType
  <1>2. ~UNCHANGED cards
    BY <1>1 DEF CardRecord
  <1>3. ASSUME NEW o \in Terms, NEW c, cards' = [cards EXCEPT ![o] = c], c.reps = 0 PROVE FALSE
    BY <1>1, <1>3 DEF CardRecord, CardsInv, CardsType
  <1>4. ASSUME NEW o \in Terms, NEW level \in {0, 3}, Card!SaveUserTerm(o, level) PROVE FALSE
    <2>1. cards' = [cards EXCEPT ![o] = Card!NewCard(today)]
      BY <1>2, <1>4 DEF Card!SaveUserTerm, Card!CardOf
    <2>2. Card!NewCard(today).reps = 0
      BY NewCardFacts DEF CardsInv, CardsType
    <2>3. QED
      BY <1>3, <2>1, <2>2
  <1>5. ASSUME NEW o \in Terms, Card!DeleteUserTerm(o) PROVE FALSE
    BY <1>3, <1>5, NoCardFacts DEF Card!DeleteUserTerm
  <1>6. ASSUME Card!BackfillSRSCards PROVE FALSE
    <2>1. cards'[t] = cards[t] \/ cards'[t] = Card!NewCard(0)
      BY <1>6 DEF Card!BackfillSRSCards
    <2>2. Card!NewCard(0).reps = 0
      BY NewCardFacts
    <2>3. QED
      BY <1>1, <2>1, <2>2 DEF CardRecord
  <1>7. ASSUME NEW r \in Requests, Card!Commit(r)
        PROVE  \E a \in attempts' \ attempts : a.term = t /\ a.rating = "again"
    <2> DEFINE q == reviewing[r]
               a0 == [term |-> q.term, item |-> q.item, key |-> q.key, rating |-> q.rating,
                      review |-> IF Card!Counts(cards[q.term], q) THEN written + 1 ELSE 0]
    <2>1. Card!Counts(cards[q.term], q)
      BY <1>2, <1>7 DEF Card!Commit
    <2>2. q.term = t
      <3>1. \E c : cards' = [cards EXCEPT ![q.term] = c]
        BY <1>7, <2>1 DEF Card!Commit
      <3>2. QED
        BY <1>1, <3>1 DEF CardRecord, CardsInv, CardsType
    <2>3. q.at = "locked"
      BY <1>7 DEF Card!Commit
    <2>4. q.stamp \in Nat /\ q.stamp <= today /\ today \in Nat
      BY <2>3 DEF CardsInv, CardsType, Reviewing, LockersHaveCards
    <2>5. q.kind = "attempt" /\ q.rating = "again"
      BY <1>1, <2>1, <2>2, <2>4 DEF Card!Counts, CardRecord
    <2>6. attempts' = attempts \cup {a0}
      BY <1>7, <2>5 DEF Card!Commit
    <2>7. \A a \in attempts : a.key # q.key
      BY <1>7, <2>5 DEF Card!Commit, Card!Taken
    <2>8. a0.term = t /\ a0.rating = "again" /\ a0.key = q.key
      BY <2>2, <2>5
    <2> HIDE DEF a0
    <2>9. QED
      BY <2>6, <2>7, <2>8
  <1>8. QED
    BY <1>2, <1>4, <1>5, <1>6, <1>7
       DEF CardNext, Card!Tick, Card!SaveByOldApi, Card!CreateClozeItem, Card!Ask, Card!LockCard,
           Card!Rollback

\* However often answers are sent, repeated and interleaved with removals and
\* backfills, for any number of words and requests: a word has one card, a key
\* counts once, a card has the reviews of its journal, the student sees the
\* status of the card, and only a miss moves a card that is not due.
THEOREM CardsCorrect == Spec => Cards
  <1>1. CardsInv => /\ Card!CardPerWord /\ Card!CountedOnce
                    /\ Card!CardMatchesJournal /\ Card!StatusFollowsCard
    <2> SUFFICES ASSUME CardsInv
                 PROVE  /\ Card!CardPerWord /\ Card!CountedOnce
                        /\ Card!CardMatchesJournal /\ Card!StatusFollowsCard
      OBVIOUS
    <2>1. ASSUME NEW S, \A x, y \in S : x = y PROVE Card!Cardinality(S) <= 1
      <3>1. PICK x : S \subseteq {x}
        BY <2>1
      <3>2. Cardinality(S) <= Cardinality({x}) /\ Cardinality({x}) = 1
        BY <3>1, FS_Singleton, FS_Subset
      <3>3. QED
        BY <3>2, CardCardinality
    <2>2. ASSUME NEW k \in Keys
          PROVE  /\ Card!Cardinality({v \in reviews : v.key = k}) <= 1
                 /\ Card!Cardinality({a \in attempts : a.key = k}) <= 1
      <3>1. \A v, o \in {w \in reviews : w.key = k} : v = o
        BY VocabularyFacts DEF CardsInv, Journals
      <3>2. \A a, o \in {w \in attempts : w.key = k} : a = o
        BY DEF CardsInv, Journals
      <3>3. QED
        BY <2>1, <3>1, <3>2
    <2>3. Card!CountedOnce
      BY <2>2 DEF Card!CountedOnce, CardsInv, Journals
    <2>4. Card!CardMatchesJournal
      BY CardCardinality DEF Card!CardMatchesJournal, CardsInv, CardsFollowJournal, ReviewsOf
    <2>5. QED
      BY <2>3, <2>4 DEF CardsInv
  <1>2. CardsInv /\ [Next]_vars =>
            [\A t \in Terms : cards'[t].reps > cards[t].reps /\ cards[t].due > today =>
                 \E a \in attempts' \ attempts : a.term = t /\ a.rating = "again"]_(Card!vars)
    BY PartsAlone, CardMoves DEF cardState, Card!vars
  <1>3. Spec => Card!MovesWhenDue
    BY <1>2, CardsInvariant, PTL DEF Spec, Card!MovesWhenDue
  <1>4. QED
    BY <1>1, <1>3, CardsInvariant, PTL DEF Cards

-----------------------------------------------------------------------------
\* Explanations of words

Places == [Learners -> [Explain!Days -> Nat]]

ExplainingType ==
    [step : {"idle"}]
        \cup [step : {"missed"}, user : Learners, key : Explainable]
        \cup [step : {"reserved"}, user : Learners, key : Explainable, day : Explain!Days]
        \cup [step : {"paid"}, user : Learners, key : Explainable, text : Explain!Texts]

ExplainType ==
    /\ day \in Explain!Days
    /\ cached \in [Explainable -> Explain!Texts \cup {Nothing}]
    /\ explainUsed \in Places
    /\ explainCalls \in [texts : 0..ExplainCallLimit, paid : Places]
    /\ explaining \in [Requests -> ExplainingType]

\* Who was shown a text was shown the cached one, which stays.
ShownIsCached ==
    \A a \in answered : a.key \in Explainable /\ cached[a.key] # Nothing /\ a.text = cached[a.key]

ReservedOf(u, d) ==
    {r \in Requests : explaining[r].step = "reserved" /\ explaining[r].user = u /\ explaining[r].day = d}

\* A place taken is paid for, reserved, or lost.
PaidOrReserved ==
    \A u \in Learners, d \in Explain!Days :
        /\ explainUsed[u][d] <= ExplainLimit
        /\ explainCalls.paid[u][d] + Cardinality(ReservedOf(u, d)) <= explainUsed[u][d]

ExplainInv == ExplainType /\ ShownIsCached /\ PaidOrReserved

LEMMA ExplainConstants ==
    /\ IsFiniteSet(Requests) /\ ExplainLimit \in Nat /\ LastDay \in Nat \ {0}
    /\ ExplainCallLimit \in Nat /\ Nothing \notin Explain!Texts
  <1>1. \A S : Explain!IsFiniteSet(S) <=> IsFiniteSet(S)
    BY DEF Explain!IsFiniteSet, IsFiniteSet
  <1>2. QED
    BY <1>1, RequestsAssumption DEF Explain!ExplanationsAssumption, Explain!Texts

LEMMA ReservedFinite ==
    ASSUME NEW u, NEW d
    PROVE  IsFiniteSet(ReservedOf(u, d)) /\ Cardinality(ReservedOf(u, d)) \in Nat
  <1>1. ReservedOf(u, d) \subseteq Requests
    BY DEF ReservedOf
  <1>2. QED
    BY <1>1, ExplainConstants, FS_Subset, FS_CardinalityType

LEMMA ExplainInit == ASSUME Init PROVE ExplainInv
  <1>1. Explain!Init
    BY DEF Init
  <1>2. /\ day = 1 /\ cached = [k \in Explainable |-> Nothing] /\ answered = {}
        /\ explainUsed = [u \in Learners |-> [d \in Explain!Days |-> 0]]
        /\ explainCalls = [texts |-> 0, paid |-> [u \in Learners |-> [d \in Explain!Days |-> 0]]]
        /\ explaining = [r \in Requests |-> [step |-> "idle"]]
    BY <1>1 DEF Explain!Init, Explain!Idle
  <1>3. ExplainType
    BY <1>2, ExplainConstants DEF ExplainType, ExplainingType, Places, Explain!Days
  <1>4. PaidOrReserved
    <2>1. \A u \in Learners, d \in Explain!Days : ReservedOf(u, d) = {}
      BY <1>2 DEF ReservedOf
    <2>2. \A u \in Learners, d \in Explain!Days : explainUsed[u][d] = 0 /\ explainCalls.paid[u][d] = 0
      BY <1>2
    <2>3. QED
      BY <2>1, <2>2, ExplainConstants, FS_EmptySet DEF PaidOrReserved
  <1>5. QED
    BY <1>2, <1>3, <1>4 DEF ExplainInv, ShownIsCached

\* A request moves on without a place taken or paid for.
LEMMA ExplainingMoves ==
    ASSUME ExplainInv, UNCHANGED <<explainUsed, explainCalls>>,
           \A r \in Requests : explaining'[r] = explaining[r] \/ explaining'[r].step # "reserved"
    PROVE  PaidOrReserved'
  <1>1. SUFFICES ASSUME NEW u \in Learners, NEW d \in Explain!Days
                 PROVE  Cardinality(ReservedOf(u, d)') <= Cardinality(ReservedOf(u, d))
                        /\ Cardinality(ReservedOf(u, d)') \in Nat
    <2>1. \A u \in Learners, d \in Explain!Days :
              /\ Cardinality(ReservedOf(u, d)') <= Cardinality(ReservedOf(u, d))
              /\ Cardinality(ReservedOf(u, d)') \in Nat /\ Cardinality(ReservedOf(u, d)) \in Nat
      BY <1>1, ReservedFinite
    <2>2. \A u \in Learners, d \in Explain!Days :
              explainUsed[u][d] \in Nat /\ explainCalls.paid[u][d] \in Nat
      BY DEF ExplainInv, ExplainType, Places
    <2>3. QED
      BY <2>1, <2>2 DEF ExplainInv, PaidOrReserved
  <1>2. ReservedOf(u, d)' \subseteq ReservedOf(u, d)
    BY DEF ReservedOf
  <1>3. QED
    BY <1>2, ReservedFinite, FS_Subset, FS_CardinalityType

LEMMA ExplainAskStep ==
    ASSUME ExplainInv, NEW r \in Requests, NEW u \in Learners, NEW k \in Explainable, Explain!Ask(r, u, k)
    PROVE  ExplainInv'
  <1>1. UNCHANGED <<day, cached, explainUsed, explainCalls>>
    BY DEF Explain!Ask
  <1>2. CASE cached[k] # Nothing
    <2>1. answered' = answered \cup {[key |-> k, text |-> cached[k]]} /\ explaining' = explaining
      BY <1>2 DEF Explain!Ask, Explain!Shown
    <2>2. ShownIsCached'
      BY <1>1, <1>2, <2>1 DEF ExplainInv, ShownIsCached
    <2>3. PaidOrReserved'
      BY <1>1, <2>1, ExplainingMoves
    <2>4. QED
      BY <1>1, <2>1, <2>2, <2>3 DEF ExplainInv, ExplainType
  <1>3. CASE cached[k] = Nothing
    <2> DEFINE next == [step |-> "missed", user |-> u, key |-> k]
    <2>1. explaining' = [explaining EXCEPT ![r] = next] /\ answered' = answered
      BY <1>3 DEF Explain!Ask
    <2>2. next \in ExplainingType /\ next.step = "missed"
      BY DEF ExplainingType
    <2> HIDE DEF next
    <2>3. explaining' \in [Requests -> ExplainingType]
          /\ \A o \in Requests : explaining'[o] = explaining[o] \/ explaining'[o].step # "reserved"
      BY <2>1, <2>2 DEF ExplainInv, ExplainType
    <2>4. PaidOrReserved'
      BY <1>1, <2>3, ExplainingMoves
    <2>5. QED
      BY <1>1, <2>1, <2>3, <2>4 DEF ExplainInv, ExplainType, ShownIsCached
  <1>4. QED
    BY <1>2, <1>3

LEMMA ExplainReserveStep ==
    ASSUME ExplainInv, NEW r \in Requests, Explain!Reserve(r)
    PROVE  ExplainInv'
  <1>1. PICK u \in Learners : u = explaining[r].user
    BY DEF Explain!Reserve, ExplainInv, ExplainType, ExplainingType
  <1>2. explaining[r].step = "missed" /\ explaining[r].key \in Explainable
        /\ UNCHANGED <<day, cached, explainCalls, answered>>
    BY DEF Explain!Reserve, ExplainInv, ExplainType, ExplainingType
  <1>3. CASE explainUsed[u][day] < ExplainLimit
    <2> DEFINE next == [step |-> "reserved", user |-> u, key |-> explaining[r].key, day |-> day]
    <2>1. /\ explainUsed' = [explainUsed EXCEPT ![u][day] = @ + 1]
          /\ explaining' = [explaining EXCEPT ![r] = next]
      BY <1>1, <1>3 DEF Explain!Reserve, ExplainInv, ExplainType
    <2>2. next \in ExplainingType /\ next.step = "reserved" /\ next.user = u /\ next.day = day
      BY <1>2 DEF ExplainingType, ExplainInv, ExplainType
    <2> HIDE DEF next
    <2>3. /\ explaining' \in [Requests -> ExplainingType] /\ explaining'[r] = next
          /\ \A o \in Requests : o # r => explaining'[o] = explaining[o]
      BY <2>1, <2>2 DEF ExplainInv, ExplainType
    <2>4. /\ explainUsed' \in Places /\ explainUsed'[u][day] = explainUsed[u][day] + 1
          /\ \A o \in Learners, d \in Explain!Days :
                 o # u \/ d # day => explainUsed'[o][d] = explainUsed[o][d]
      BY <2>1 DEF ExplainInv, ExplainType, Places
    <2>5. PaidOrReserved'
      <3>1. SUFFICES ASSUME NEW o \in Learners, NEW d \in Explain!Days
                     PROVE  /\ explainUsed'[o][d] <= ExplainLimit
                            /\ explainCalls.paid[o][d] + Cardinality(ReservedOf(o, d)')
                                   <= explainUsed'[o][d]
        BY <1>2 DEF PaidOrReserved
      <3>2. /\ explainUsed[o][d] <= ExplainLimit /\ explainUsed[o][d] \in Nat
            /\ explainCalls.paid[o][d] \in Nat
            /\ explainCalls.paid[o][d] + Cardinality(ReservedOf(o, d)) <= explainUsed[o][d]
        BY DEF ExplainInv, ExplainType, Places, PaidOrReserved
      <3>3. CASE o = u /\ d = day
        <4>1. ReservedOf(o, d)' = ReservedOf(o, d) \cup {r} /\ r \notin ReservedOf(o, d)
          BY <1>2, <2>2, <2>3, <3>3 DEF ReservedOf
        <4>2. Cardinality(ReservedOf(o, d)') = Cardinality(ReservedOf(o, d)) + 1
          BY <4>1, ReservedFinite, FS_AddElement
        <4>3. QED
          BY <1>3, <2>4, <3>2, <3>3, <4>2, ReservedFinite, ExplainConstants
      <3>4. CASE o # u \/ d # day
        <4>1. ReservedOf(o, d)' = ReservedOf(o, d)
          BY <1>2, <2>2, <2>3, <3>4 DEF ReservedOf
        <4>2. QED
          BY <2>4, <3>2, <3>4, <4>1
      <3>5. QED
        BY <3>3, <3>4
    <2>6. QED
      BY <1>2, <2>3, <2>4, <2>5 DEF ExplainInv, ExplainType, ShownIsCached
  <1>4. CASE ~(explainUsed[u][day] < ExplainLimit)
    <2>1. explainUsed' = explainUsed /\ explaining' = [explaining EXCEPT ![r] = Explain!Idle]
      BY <1>1, <1>4 DEF Explain!Reserve
    <2>2. explaining' \in [Requests -> ExplainingType]
          /\ \A o \in Requests : explaining'[o] = explaining[o] \/ explaining'[o].step # "reserved"
      BY <2>1 DEF ExplainInv, ExplainType, ExplainingType, Explain!Idle
    <2>3. PaidOrReserved'
      BY <1>2, <2>1, <2>2, ExplainingMoves
    <2>4. QED
      BY <1>2, <2>1, <2>2, <2>3 DEF ExplainInv, ExplainType, ShownIsCached
  <1>5. QED
    BY <1>3, <1>4

\* The model answers, or the call fails: the place is paid for.
LEMMA ExplainCallStep ==
    ASSUME ExplainInv, NEW r \in Requests, Explain!Call(r) \/ Explain!CallFails(r)
    PROVE  ExplainInv'
  <1>1. PICK u \in Learners : u = explaining[r].user
    BY DEF Explain!Call, Explain!CallFails, ExplainInv, ExplainType, ExplainingType
  <1>2. PICK d \in Explain!Days : d = explaining[r].day
    BY DEF Explain!Call, Explain!CallFails, ExplainInv, ExplainType, ExplainingType
  <1>3. /\ explaining[r].step = "reserved" /\ explaining[r].key \in Explainable
        /\ UNCHANGED <<day, cached, explainUsed, answered>>
    BY DEF Explain!Call, Explain!CallFails, ExplainInv, ExplainType, ExplainingType
  <1>4. PICK next \in ExplainingType :
            next.step # "reserved" /\ explaining' = [explaining EXCEPT ![r] = next]
    <2> DEFINE paid == [step |-> "paid", user |-> u, key |-> explaining[r].key,
                        text |-> explainCalls.texts + 1]
    <2>1. CASE Explain!Call(r)
      <3>1. explaining' = [explaining EXCEPT ![r] = paid] /\ explainCalls.texts < ExplainCallLimit
        BY <1>1, <2>1 DEF Explain!Call, ExplainInv, ExplainType
      <3>2. paid \in ExplainingType /\ paid.step = "paid"
        BY <1>3, <3>1, ExplainConstants DEF ExplainInv, ExplainType, ExplainingType, Explain!Texts
      <3> HIDE DEF paid
      <3>3. QED
        BY <3>1, <3>2
    <2>2. CASE Explain!CallFails(r)
      <3>1. explaining' = [explaining EXCEPT ![r] = Explain!Idle]
        BY <2>2 DEF Explain!CallFails
      <3>2. Explain!Idle \in ExplainingType /\ Explain!Idle.step = "idle"
        BY DEF Explain!Idle, ExplainingType
      <3>3. QED
        BY <3>1, <3>2
    <2>3. QED
      BY <2>1, <2>2
  <1>5. /\ explainCalls' \in [texts : 0..ExplainCallLimit, paid : Places]
        /\ explainCalls'.paid[u][d] = explainCalls.paid[u][d] + 1
        /\ \A o \in Learners, e \in Explain!Days :
               o # u \/ e # d => explainCalls'.paid[o][e] = explainCalls.paid[o][e]
    <2> DEFINE new == [explainCalls.paid EXCEPT ![u][d] = @ + 1]
    <2>1. /\ new \in Places /\ new[u][d] = explainCalls.paid[u][d] + 1
          /\ \A o \in Learners, e \in Explain!Days :
                 o # u \/ e # d => new[o][e] = explainCalls.paid[o][e]
      BY DEF ExplainInv, ExplainType, Places
    <2>2. Explain!Paid(r) = new
      BY <1>1, <1>2 DEF Explain!Paid
    <2> HIDE DEF new
    <2>3. CASE Explain!Call(r)
      BY <2>1, <2>2, <2>3, ExplainConstants DEF Explain!Call, ExplainInv, ExplainType
    <2>4. CASE Explain!CallFails(r)
      BY <2>1, <2>2, <2>4 DEF Explain!CallFails, ExplainInv, ExplainType
    <2>5. QED
      BY <2>3, <2>4
  <1>6. /\ explaining' \in [Requests -> ExplainingType] /\ explaining'[r] = next
        /\ \A o \in Requests : o # r => explaining'[o] = explaining[o]
    BY <1>4 DEF ExplainInv, ExplainType
  <1>7. PaidOrReserved'
    <2>1. SUFFICES ASSUME NEW o \in Learners, NEW e \in Explain!Days
                   PROVE  /\ explainUsed[o][e] <= ExplainLimit
                          /\ explainCalls'.paid[o][e] + Cardinality(ReservedOf(o, e)')
                                 <= explainUsed[o][e]
      BY <1>3 DEF PaidOrReserved
    <2>2. /\ explainUsed[o][e] <= ExplainLimit /\ explainUsed[o][e] \in Nat
          /\ explainCalls.paid[o][e] \in Nat
          /\ explainCalls.paid[o][e] + Cardinality(ReservedOf(o, e)) <= explainUsed[o][e]
      BY DEF ExplainInv, ExplainType, Places, PaidOrReserved
    <2>3. CASE o = u /\ e = d
      <3>1. ReservedOf(o, e)' = ReservedOf(o, e) \ {r} /\ r \in ReservedOf(o, e)
        BY <1>1, <1>2, <1>3, <1>4, <1>6, <2>3 DEF ReservedOf
      <3>2. Cardinality(ReservedOf(o, e)') = Cardinality(ReservedOf(o, e)) - 1
        BY <3>1, ReservedFinite, FS_RemoveElement
      <3>3. QED
        BY <1>5, <2>2, <2>3, <3>2, ReservedFinite
    <2>4. CASE o # u \/ e # d
      <3>1. ReservedOf(o, e)' = ReservedOf(o, e)
        BY <1>1, <1>2, <1>4, <1>6, <2>4 DEF ReservedOf
      <3>2. QED
        BY <1>5, <2>2, <2>4, <3>1
    <2>5. QED
      BY <2>3, <2>4
  <1>8. QED
    BY <1>3, <1>5, <1>6, <1>7 DEF ExplainInv, ExplainType, ShownIsCached

LEMMA ExplainSaveStep ==
    ASSUME ExplainInv, NEW r \in Requests, Explain!Save(r)
    PROVE  ExplainInv'
  <1>1. PICK k \in Explainable : k = explaining[r].key
    BY DEF Explain!Save, ExplainInv, ExplainType, ExplainingType
  <1>2. PICK own \in Explain!Texts : own = explaining[r].text
    BY DEF Explain!Save, ExplainInv, ExplainType, ExplainingType
  <1>3. PICK text \in Explain!Texts : text = IF cached[k] = Nothing THEN own ELSE cached[k]
    BY <1>2 DEF ExplainInv, ExplainType
  <1>4. /\ cached' = [cached EXCEPT ![k] = IF @ = Nothing THEN text ELSE @]
        /\ explaining' = [explaining EXCEPT ![r] = Explain!Idle]
        /\ UNCHANGED <<day, explainUsed, explainCalls>>
        /\ answered' = answered \cup {[key |-> k, text |-> text]} \/ answered' = answered
    BY <1>1, <1>2, <1>3 DEF Explain!Save, Explain!Stored, Explain!Shown
  <1>5. /\ cached' \in [Explainable -> Explain!Texts \cup {Nothing}] /\ cached'[k] = text
        /\ text # Nothing
        /\ \A key \in Explainable : cached[key] # Nothing => cached'[key] = cached[key]
    BY <1>3, <1>4, ExplainConstants DEF ExplainInv, ExplainType
  <1>6. ShownIsCached'
    BY <1>4, <1>5 DEF ExplainInv, ShownIsCached
  <1>7. explaining' \in [Requests -> ExplainingType]
        /\ \A o \in Requests : explaining'[o] = explaining[o] \/ explaining'[o].step # "reserved"
    BY <1>4 DEF ExplainInv, ExplainType, ExplainingType, Explain!Idle
  <1>8. PaidOrReserved'
    BY <1>4, <1>7, ExplainingMoves
  <1>9. QED
    BY <1>4, <1>5, <1>6, <1>7, <1>8 DEF ExplainInv, ExplainType

LEMMA ExplainStep == ASSUME ExplainInv, ExplainNext PROVE ExplainInv'
  <1>1. CASE Explain!Crash
    <2>1. explaining' = [r \in Requests |-> [step |-> "idle"]]
          /\ UNCHANGED <<day, cached, explainUsed, explainCalls, answered>>
      BY <1>1 DEF Explain!Crash, Explain!Idle
    <2>2. explaining' \in [Requests -> ExplainingType]
          /\ \A r \in Requests : explaining'[r].step # "reserved"
      BY <2>1 DEF ExplainingType
    <2>3. PaidOrReserved'
      BY <2>1, <2>2, ExplainingMoves
    <2>4. QED
      BY <2>1, <2>2, <2>3 DEF ExplainInv, ExplainType, ShownIsCached
  <1>2. CASE Explain!Midnight
    <2>1. day' \in Explain!Days /\ UNCHANGED <<cached, explainUsed, explaining, explainCalls, answered>>
      BY <1>2, ExplainConstants DEF Explain!Midnight, Explain!Days, ExplainInv, ExplainType
    <2>2. PaidOrReserved'
      BY <2>1, ExplainingMoves
    <2>3. QED
      BY <2>1, <2>2 DEF ExplainInv, ExplainType, ShownIsCached
  <1>3. QED
    BY <1>1, <1>2, ExplainAskStep, ExplainReserveStep, ExplainCallStep, ExplainSaveStep
       DEF ExplainNext

LEMMA ExplainKept == ASSUME ExplainInv, UNCHANGED explainState PROVE ExplainInv'
  BY DEF explainState, ExplainInv, ExplainType, ShownIsCached, PaidOrReserved, ReservedOf

LEMMA ExplainInvariant == Spec => []ExplainInv
  <1>1. Init => ExplainInv
    BY ExplainInit
  <1>2. ExplainInv /\ [Next]_vars => ExplainInv'
    BY PartsAlone, ExplainStep, ExplainKept
  <1>3. QED
    BY <1>1, <1>2, PTL DEF Spec

LEMMA OneExplanationHolds == ASSUME ExplainInv PROVE Explain!OneExplanation
  <1>1. ASSUME NEW u \in Learners, NEW d \in Explain!Days
        PROVE  explainCalls.paid[u][d] <= explainUsed[u][d] /\ explainUsed[u][d] <= ExplainLimit
    <2>1. /\ explainUsed[u][d] \in Nat /\ explainCalls.paid[u][d] \in Nat
          /\ Cardinality(ReservedOf(u, d)) \in Nat
      BY ReservedFinite DEF ExplainInv, ExplainType, Places
    <2>2. QED
      BY <2>1 DEF ExplainInv, PaidOrReserved
  <1>2. QED
    BY <1>1 DEF ExplainInv, ShownIsCached, Explain!OneExplanation

-----------------------------------------------------------------------------
\* Texts to practise with

DraftType ==
    [step : {"idle"}]
        \cup [step : {"call"}, words : SUBSET Lemmas, attempt : {1, 2}]
        \cup [step : {"passed"}, words : SUBSET Lemmas]

PracticeType ==
    /\ learning \in SUBSET Lemmas /\ corpus \in Corpora
    /\ generations \in Nat /\ drafts \in Nat
    /\ IsFiniteSet(ownTexts) /\ ownTexts \subseteq Practice!Text
    /\ generating \in [Requests -> DraftType]

CallsAt(n) == {r \in Requests : generating[r].step = "call" /\ generating[r].attempt = n}

\* A generation before its first draft has two calls left, before its second one.
CallsLeft == drafts + 2 * Cardinality(CallsAt(1)) + Cardinality(CallsAt(2)) <= 2 * generations

IsKey(k) == \A i \in 1..4 : k[i] \in Int

Matching(t, wanted) == t.lemmas \cap wanted # {}

\* The text comes after the pages read so far.
NotReached(r, t) ==
    r.cursor = Practice!Start \/ Practice!Before(r.cursor, Practice!Key(t, r.words))

\* What was shown lies before the cursor, and what was not, after it.
BetweenPages(r) ==
    /\ r.words \in SUBSET Lemmas /\ r.given \in SUBSET Lemmas
    /\ r.cursor # Practice!Start => IsKey(r.cursor)
    /\ r.shown \subseteq Practice!Text /\ r.had \subseteq Practice!Text
    /\ r.steady =>
          /\ ~r.twice
          /\ \A t \in r.shown : ~NotReached(r, t)
          /\ \A t \in r.had : Matching(t, r.words) => t \in r.shown \/ NotReached(r, t)

AllRead(r) ==
    r.steady => ~r.twice /\ \A t \in r.had : Matching(t, r.words) => t \in r.shown

ReaderInv ==
    \/ reader = Practice!Away
    \/ reader.step = "next" /\ BetweenPages(reader)
    \/ reader.step = "done" /\ AllRead(reader)

PracticeInv == PracticeType /\ CallsLeft /\ ReaderInv

LEMMA PracticeCardinality ==
    ASSUME NEW S
    PROVE  Practice!Cardinality(S) = Cardinality(S) /\ (Practice!IsFiniteSet(S) <=> IsFiniteSet(S))
  BY DEF Practice!Cardinality, Cardinality, Practice!IsFiniteSet, IsFiniteSet

LEMMA PracticeConstants ==
    /\ IsFiniteSet(Requests) /\ IsFiniteSet(Lemmas)
    /\ \A c \in Corpora : c \subseteq Practice!Text
  BY RequestsAssumption, PracticeCardinality DEF Practice!PracticeAssumption

LEMMA CallsAtFinite ==
    ASSUME NEW n PROVE IsFiniteSet(CallsAt(n)) /\ Cardinality(CallsAt(n)) \in Nat
  <1>1. CallsAt(n) \subseteq Requests
    BY DEF CallsAt
  <1>2. QED
    BY <1>1, PracticeConstants, FS_Subset, FS_CardinalityType

\* The order of the rows, by which the search pages.
LEMMA BeforeTransitive ==
    ASSUME NEW k, NEW l, NEW m, IsKey(k), IsKey(l), IsKey(m),
           Practice!Before(k, l), Practice!Before(l, m)
    PROVE  Practice!Before(k, m)
  <1>1. PICK i \in 1..4 : k[i] < l[i] /\ \A n \in 1..i - 1 : k[n] = l[n]
    BY DEF Practice!Before
  <1>2. PICK j \in 1..4 : l[j] < m[j] /\ \A n \in 1..j - 1 : l[n] = m[n]
    BY DEF Practice!Before
  <1>3. CASE i <= j
    <2>1. k[i] < m[i]
      BY <1>1, <1>2, <1>3 DEF IsKey
    <2>2. \A n \in 1..i - 1 : k[n] = m[n]
      BY <1>1, <1>2, <1>3
    <2>3. QED
      BY <2>1, <2>2 DEF Practice!Before
  <1>4. CASE j < i
    <2>1. k[j] < m[j]
      BY <1>1, <1>2, <1>4 DEF IsKey
    <2>2. \A n \in 1..j - 1 : k[n] = m[n]
      BY <1>1, <1>2, <1>4
    <2>3. QED
      BY <2>1, <2>2 DEF Practice!Before
  <1>5. QED
    BY <1>3, <1>4

LEMMA KeyOfText ==
    ASSUME NEW t \in Practice!Text, NEW wanted \in SUBSET Lemmas
    PROVE  IsKey(Practice!Key(t, wanted)) /\ Practice!Key(t, wanted) # Practice!Start
  <1> DEFINE common == t.lemmas \cap wanted
  <1>1. Practice!Cardinality(common) \in Nat
    BY PracticeConstants, PracticeCardinality, FS_Subset, FS_CardinalityType
  <1>2. t.src \in Int /\ t.id \in Int /\ t.ord \in Int
    BY DEF Practice!Text
  <1> DEFINE covered == Practice!Cardinality(common)
  <1>3. Practice!Key(t, wanted) = <<-covered, t.src, t.ord, t.id>>
    BY DEF Practice!Key
  <1> HIDE DEF covered
  <1>4. -covered \in Int
    BY <1>1 DEF covered
  <1>5. QED
    BY <1>2, <1>3, <1>4 DEF IsKey, Practice!Start

\* Whatever sentences a search takes, it reads what it is sure to read.
LEMMA CandidatesKeepSure ==
    ASSUME PracticeType, NEW wanted \in SUBSET Lemmas, NEW sample \in Practice!Candidates(wanted)
    PROVE  /\ sample \subseteq corpus
           /\ Practice!ReadForSure(wanted) \subseteq ownTexts \cup sample
  <1>1. PICK pick \in [wanted -> SUBSET corpus] :
            /\ \A w \in wanted : pick[w] \in Practice!Limited(Practice!WithWord(w), CandidateLimit)
            /\ sample = UNION {pick[w] : w \in wanted}
    BY DEF Practice!Candidates
  <1>2. sample \subseteq corpus
    BY <1>1
  <1>3. ASSUME NEW t \in Practice!ReadForSure(wanted), t \notin ownTexts PROVE t \in sample
    <2>1. PICK w \in wanted : /\ t \in corpus /\ w \in t.lemmas
                               /\ Practice!Cardinality(Practice!WithWord(w)) <= CandidateLimit
      BY <1>3 DEF Practice!ReadForSure
    <2>2. Practice!Limited(Practice!WithWord(w), CandidateLimit) = {Practice!WithWord(w)}
      BY <2>1 DEF Practice!Limited
    <2>3. t \in pick[w]
      BY <1>1, <2>1, <2>2 DEF Practice!WithWord
    <2>4. QED
      BY <1>1, <2>3
  <1>4. QED
    BY <1>2, <1>3

\* A page read, the first or the next.
LEMMA PageRead ==
    ASSUME PracticeInv, NEW old, BetweenPages(old),
           NEW wanted \in SUBSET Lemmas, Practice!Read(old, wanted)
    PROVE  ReaderInv'
  <1> DEFINE had == old.had \cap Practice!ReadForSure(wanted)
  <1>0. PICK sample \in Practice!Candidates(wanted) :
            LET found == Practice!Found(wanted, old.cursor, sample) IN
            IF Practice!Cardinality(found) <= PageSize
            THEN reader' = [step |-> "done", given |-> old.given, words |-> wanted,
                            cursor |-> Practice!Start, shown |-> old.shown \cup found,
                            twice |-> old.twice \/ found \cap old.shown # {},
                            had |-> had, steady |-> old.steady /\ wanted = old.words]
            ELSE \E page \in Practice!Pages(found, wanted) :
                     \E last \in Practice!Last(page, found, wanted) :
                         reader' = [step |-> "next", given |-> old.given, words |-> wanted,
                                    cursor |-> Practice!Key(last, wanted),
                                    shown |-> old.shown \cup page,
                                    twice |-> old.twice \/ page \cap old.shown # {},
                                    had |-> had, steady |-> old.steady /\ wanted = old.words]
    BY DEF Practice!Read
  <1> DEFINE found == Practice!Found(wanted, old.cursor, sample)
  <1>1. /\ found \subseteq ownTexts \cup sample /\ ownTexts \cup sample \subseteq Practice!Text
        /\ had \subseteq ownTexts \cup sample /\ had \subseteq old.had
    BY PracticeConstants, CandidatesKeepSure DEF Practice!Found, PracticeInv, PracticeType
  <1>2. \A t \in found : old.cursor = Practice!Start
                         \/ Practice!Before(old.cursor, Practice!Key(t, wanted))
    BY DEF Practice!Found
  <1>3. ASSUME old.steady, wanted = old.words
        PROVE  /\ ~old.twice /\ found \cap old.shown = {}
               /\ \A t \in had : Matching(t, wanted) => t \in old.shown \/ t \in found
    <2>1. \A t \in ownTexts \cup sample : t \in found <=> Matching(t, wanted) /\ NotReached(old, t)
      BY <1>3 DEF Practice!Found, NotReached, Matching
    <2>2. \A t \in old.shown : t \notin found
      BY <1>1, <1>3, <2>1 DEF BetweenPages
    <2>3. QED
      BY <1>1, <1>3, <2>1, <2>2 DEF BetweenPages
  <1> HIDE DEF had
  <1>5. CASE Practice!Cardinality(found) <= PageSize
    <2>1. reader' = [step |-> "done", given |-> old.given, words |-> wanted, cursor |-> Practice!Start,
                     shown |-> old.shown \cup found,
                     twice |-> old.twice \/ found \cap old.shown # {},
                     had |-> had, steady |-> old.steady /\ wanted = old.words]
      BY <1>0, <1>5
    <2>2. /\ reader'.step = "done" /\ reader'.words = wanted /\ reader'.had = had
          /\ reader'.shown = old.shown \cup found
          /\ reader'.twice = (old.twice \/ found \cap old.shown # {})
          /\ reader'.steady = (old.steady /\ wanted = old.words)
      BY <2>1
    <2>3. AllRead(reader')
      BY <1>3, <2>2 DEF AllRead
    <2>4. QED
      BY <2>2, <2>3 DEF ReaderInv, AllRead, Matching
  <1>6. CASE ~(Practice!Cardinality(found) <= PageSize)
    <2>1. PICK page \in Practice!Pages(found, wanted) :
              \E last \in Practice!Last(page, found, wanted) :
                  reader' = [step |-> "next", given |-> old.given, words |-> wanted,
                             cursor |-> Practice!Key(last, wanted), shown |-> old.shown \cup page,
                             twice |-> old.twice \/ page \cap old.shown # {},
                             had |-> had, steady |-> old.steady /\ wanted = old.words]
      BY <1>0, <1>6
    <2>2. PICK last \in Practice!Last(page, found, wanted) :
              reader' = [step |-> "next", given |-> old.given, words |-> wanted,
                         cursor |-> Practice!Key(last, wanted), shown |-> old.shown \cup page,
                         twice |-> old.twice \/ page \cap old.shown # {},
                         had |-> had, steady |-> old.steady /\ wanted = old.words]
      BY <2>1
    <2> DEFINE key == Practice!Key(last, wanted)
    <2>3. /\ page \subseteq found /\ last \in page
          /\ \A t \in page : ~Practice!Before(key, Practice!Key(t, wanted))
          /\ \A t \in found \ page : Practice!Before(key, Practice!Key(t, wanted))
      BY DEF Practice!Pages, Practice!Last
    <2>4. IsKey(key) /\ key # Practice!Start
      BY <1>1, <2>3, KeyOfText
    <2>5. /\ reader'.step = "next" /\ reader'.given = old.given /\ reader'.words = wanted
          /\ reader'.cursor = key /\ reader'.had = had
          /\ reader'.shown = old.shown \cup page
          /\ reader'.twice = (old.twice \/ page \cap old.shown # {})
          /\ reader'.steady = (old.steady /\ wanted = old.words)
      BY <2>2
    <2> HIDE DEF key
    <2>6. ASSUME old.steady, wanted = old.words, NEW t \in old.shown
          PROVE  ~Practice!Before(key, Practice!Key(t, wanted))
      <3>1. /\ t \in Practice!Text /\ old.cursor # Practice!Start /\ IsKey(old.cursor)
            /\ ~Practice!Before(old.cursor, Practice!Key(t, wanted))
        BY <2>6 DEF BetweenPages, NotReached
      <3>2. Practice!Before(old.cursor, key)
        BY <1>2, <2>3, <3>1 DEF key
      <3>3. QED
        BY <2>4, <3>1, <3>2, KeyOfText, BeforeTransitive
    <2>7. /\ reader'.steady => ~reader'.twice
          /\ reader'.steady => \A t \in reader'.shown : ~NotReached(reader', t)
          /\ reader'.steady => \A t \in reader'.had :
                 Matching(t, reader'.words) => t \in reader'.shown \/ NotReached(reader', t)
      <3>1. SUFFICES ASSUME old.steady, wanted = old.words
                     PROVE  /\ ~reader'.twice
                            /\ \A t \in reader'.shown : ~NotReached(reader', t)
                            /\ \A t \in reader'.had : Matching(t, reader'.words) =>
                                   t \in reader'.shown \/ NotReached(reader', t)
        BY <2>5
      <3>2. ~reader'.twice
        BY <1>3, <2>3, <2>5, <3>1
      <3>3. \A t : NotReached(reader', t) <=> Practice!Before(key, Practice!Key(t, wanted))
        BY <2>4, <2>5 DEF NotReached
      <3>4. \A t \in reader'.shown : ~NotReached(reader', t)
        BY <2>3, <2>5, <2>6, <3>1, <3>3
      <3>5. \A t \in reader'.had :
                Matching(t, reader'.words) => t \in reader'.shown \/ NotReached(reader', t)
        BY <1>3, <2>3, <2>5, <3>1, <3>3
      <3>6. QED
        BY <3>2, <3>4, <3>5
    <2>8. /\ reader'.words \in SUBSET Lemmas /\ reader'.given \in SUBSET Lemmas
          /\ IsKey(reader'.cursor)
          /\ reader'.shown \subseteq Practice!Text /\ reader'.had \subseteq Practice!Text
      BY <1>1, <2>3, <2>4, <2>5 DEF BetweenPages
    <2>9. QED
      BY <2>5, <2>7, <2>8 DEF ReaderInv, BetweenPages, NotReached, Matching
  <1>7. QED
    BY <1>5, <1>6


\* Generations

LEMMA CallsAtNext ==
    ASSUME PracticeInv, NEW r \in Requests, NEW next \in DraftType,
           generating' = [generating EXCEPT ![r] = next]
    PROVE  /\ generating' \in [Requests -> DraftType]
           /\ \A n : next.step = "call" /\ next.attempt = n => CallsAt(n)' = CallsAt(n) \cup {r}
           /\ \A n : next.step # "call" \/ next.attempt # n => CallsAt(n)' = CallsAt(n) \ {r}
  <1>1. /\ generating' \in [Requests -> DraftType] /\ generating'[r] = next
        /\ \A o \in Requests : o # r => generating'[o] = generating[o]
    BY DEF PracticeInv, PracticeType
  <1>2. QED
    BY <1>1 DEF CallsAt

\* The reader is where he was.
LEMMA ReaderKept == ASSUME ReaderInv, reader' = reader PROVE ReaderInv'
  BY DEF ReaderInv, BetweenPages, AllRead, NotReached, Matching

LEMMA PracticeReserveStep ==
    ASSUME PracticeInv, NEW r \in Requests, NEW wanted \in SUBSET Lemmas, Practice!Reserve(r, wanted)
    PROVE  PracticeInv'
  <1> DEFINE next == [step |-> "call", words |-> wanted, attempt |-> 1]
  <1>1. /\ generating[r] = Practice!Idle /\ generating' = [generating EXCEPT ![r] = next]
        /\ generations' = generations + 1 /\ UNCHANGED <<learning, corpus, ownTexts, drafts, reader>>
    BY DEF Practice!Reserve
  <1>2. next \in DraftType /\ next.step = "call" /\ next.attempt = 1
    BY DEF DraftType
  <1> HIDE DEF next
  <1>3. generating' \in [Requests -> DraftType]
        /\ CallsAt(1)' = CallsAt(1) \cup {r} /\ CallsAt(2)' = CallsAt(2) \ {r}
    <2>1. next.attempt # 2
      BY <1>2
    <2>2. QED
      BY <1>1, <1>2, <2>1, CallsAtNext
  <1>4. r \notin CallsAt(1) /\ r \notin CallsAt(2)
    BY <1>1 DEF CallsAt, Practice!Idle
  <1>5. Cardinality(CallsAt(1)') = Cardinality(CallsAt(1)) + 1 /\ CallsAt(2)' = CallsAt(2)
    <2>1. CallsAt(2)' = CallsAt(2)
      BY <1>3, <1>4
    <2>2. Cardinality(CallsAt(1) \cup {r}) = Cardinality(CallsAt(1)) + 1
      BY <1>4, CallsAtFinite, FS_AddElement
    <2>3. QED
      BY <1>3, <2>1, <2>2
  <1>6. CallsLeft'
    BY <1>1, <1>5, CallsAtFinite DEF PracticeInv, PracticeType, CallsLeft
  <1>7. QED
    BY <1>1, <1>3, <1>6, ReaderKept DEF PracticeInv, PracticeType

\* A call of the model: the draft passes, is tried once more or is given up.
LEMMA CalledStep ==
    ASSUME PracticeInv, NEW r \in Requests,
           Practice!Passes(r) \/ Practice!Misses(r) \/ Practice!Fails(r)
    PROVE  PracticeInv'
  <1>1. /\ generating[r].step = "call" /\ drafts' = drafts + 1
        /\ UNCHANGED <<learning, corpus, ownTexts, generations, reader>>
    BY DEF Practice!Passes, Practice!Misses, Practice!Fails, Practice!Called
  <1>2. generating[r].words \in SUBSET Lemmas
        /\ (generating[r].attempt = 1 \/ generating[r].attempt = 2)
    BY <1>1 DEF PracticeInv, PracticeType, DraftType
  <1> DEFINE again == [step |-> "call", words |-> generating[r].words, attempt |-> 2]
  <1>3. PICK next \in DraftType :
            /\ generating' = [generating EXCEPT ![r] = next]
            /\ \/ next.step # "call"
               \/ next.step = "call" /\ next.attempt = 2 /\ generating[r].attempt = 1
    <2>1. CASE Practice!Passes(r)
      <3> DEFINE passed == [step |-> "passed", words |-> generating[r].words]
      <3>1. generating' = [generating EXCEPT ![r] = passed]
        BY <2>1 DEF Practice!Passes, Practice!Called
      <3>2. passed \in DraftType /\ passed.step = "passed"
        BY <1>2 DEF DraftType
      <3> HIDE DEF passed
      <3>3. QED
        BY <3>1, <3>2
    <2>2. CASE (Practice!Misses(r) /\ generating[r].attempt = 2) \/ Practice!Fails(r)
      <3>1. generating' = [generating EXCEPT ![r] = Practice!Idle]
        BY <2>2 DEF Practice!Misses, Practice!Fails, Practice!Called, Practice!MaxAttempts
      <3>2. Practice!Idle \in DraftType /\ Practice!Idle.step = "idle"
        BY DEF DraftType, Practice!Idle
      <3>3. QED
        BY <3>1, <3>2
    <2>3. CASE Practice!Misses(r) /\ generating[r].attempt = 1
      <3>1. generating' = [generating EXCEPT ![r] = [generating[r] EXCEPT !.attempt = 2]]
        BY <2>3 DEF Practice!Misses, Practice!Called, Practice!MaxAttempts
      <3>2. [generating[r] EXCEPT !.attempt = 2] = again
        BY <1>1 DEF PracticeInv, PracticeType, DraftType
      <3>3. again \in DraftType /\ again.step = "call" /\ again.attempt = 2
        BY <1>2 DEF DraftType
      <3> HIDE DEF again
      <3>4. QED
        BY <2>3, <3>1, <3>2, <3>3
    <2>4. QED
      BY <1>2, <2>1, <2>2, <2>3
  <1>4. generating' \in [Requests -> DraftType]
        /\ CallsAt(1)' = CallsAt(1) \ {r}
        /\ \/ next.step = "call" /\ CallsAt(2)' = CallsAt(2) \cup {r}
           \/ next.step # "call" /\ CallsAt(2)' = CallsAt(2) \ {r}
    <2>1. CASE next.step # "call"
      BY <1>3, <2>1, CallsAtNext
    <2>2. CASE next.step = "call"
      <3>1. next.attempt = 2 /\ next.attempt # 1
        BY <1>3, <2>2
      <3>2. QED
        BY <1>3, <2>2, <3>1, CallsAtNext
    <2>3. QED
      BY <2>1, <2>2
  <1>5. CASE generating[r].attempt = 1
    <2>1. r \in CallsAt(1) /\ r \notin CallsAt(2)
      BY <1>1, <1>5 DEF CallsAt
    <2>2. Cardinality(CallsAt(1)') = Cardinality(CallsAt(1)) - 1
      BY <1>4, <2>1, CallsAtFinite, FS_RemoveElement
    <2>3. \/ Cardinality(CallsAt(2)') = Cardinality(CallsAt(2)) + 1
          \/ CallsAt(2)' = CallsAt(2)
      <3>1. CASE CallsAt(2)' = CallsAt(2) \cup {r}
        BY <2>1, <3>1, CallsAtFinite, FS_AddElement
      <3>2. CASE CallsAt(2)' = CallsAt(2) \ {r}
        BY <2>1, <3>2
      <3>3. QED
        BY <1>4, <3>1, <3>2
    <2>4. CallsLeft'
      BY <1>1, <2>2, <2>3, CallsAtFinite DEF PracticeInv, PracticeType, CallsLeft
    <2>5. QED
      BY <1>1, <1>4, <2>4, ReaderKept DEF PracticeInv, PracticeType
  <1>6. CASE generating[r].attempt = 2
    <2>1. r \notin CallsAt(1) /\ r \in CallsAt(2) /\ next.step # "call"
      BY <1>1, <1>3, <1>6 DEF CallsAt
    <2>2. CallsAt(1)' = CallsAt(1) /\ CallsAt(2)' = CallsAt(2) \ {r}
      BY <1>4, <2>1
    <2>3. Cardinality(CallsAt(2)') = Cardinality(CallsAt(2)) - 1
      BY <2>1, <2>2, CallsAtFinite, FS_RemoveElement
    <2>4. CallsLeft'
      BY <1>1, <2>2, <2>3, CallsAtFinite DEF PracticeInv, PracticeType, CallsLeft
    <2>5. QED
      BY <1>1, <1>4, <2>4, ReaderKept DEF PracticeInv, PracticeType
  <1>7. QED
    BY <1>2, <1>5, <1>6

LEMMA PracticeSaveStep ==
    ASSUME PracticeInv, NEW r \in Requests, Practice!Save(r)
    PROVE  PracticeInv'
  <1> DEFINE new == Practice!NewText(generating[r].words)
  <1>1. /\ generating[r].step = "passed" /\ generating' = [generating EXCEPT ![r] = Practice!Idle]
        /\ ownTexts' = ownTexts \cup {new} /\ UNCHANGED <<learning, corpus, generations, drafts, reader>>
    BY DEF Practice!Save
  <1>2. generating[r].words \in SUBSET Lemmas
    BY <1>1 DEF PracticeInv, PracticeType, DraftType
  <1>3. new \in Practice!Text
    <2> DEFINE id == Practice!Cardinality(ownTexts) + 1
    <2>1. new = [src |-> 0, id |-> id, ord |-> -id, lemmas |-> generating[r].words]
      BY DEF Practice!NewText
    <2>2. id \in Int /\ -id \in Int
      BY PracticeCardinality, FS_CardinalityType DEF PracticeInv, PracticeType
    <2> HIDE DEF id, new
    <2>3. QED
      BY <1>2, <2>1, <2>2 DEF Practice!Text
  <1> HIDE DEF new
  <1>4. IsFiniteSet(ownTexts') /\ ownTexts' \subseteq Practice!Text
    BY <1>1, <1>3, FS_AddElement DEF PracticeInv, PracticeType
  <1>5. Practice!Idle \in DraftType /\ Practice!Idle.step = "idle"
    BY DEF DraftType, Practice!Idle
  <1>6. /\ generating' \in [Requests -> DraftType]
        /\ CallsAt(1)' = CallsAt(1) \ {r} /\ CallsAt(2)' = CallsAt(2) \ {r}
    BY <1>1, <1>5, CallsAtNext
  <1>7. r \notin CallsAt(1) /\ r \notin CallsAt(2)
    BY <1>1 DEF CallsAt
  <1>8. CallsLeft'
    BY <1>1, <1>6, <1>7 DEF PracticeInv, CallsLeft
  <1>9. QED
    BY <1>1, <1>4, <1>6, <1>8, ReaderKept DEF PracticeInv, PracticeType

LEMMA PracticeInit == ASSUME Init PROVE PracticeInv
  <1>1. Practice!Init
    BY DEF Init
  <1>2. /\ learning \in SUBSET Lemmas /\ corpus \in Corpora /\ ownTexts = {} /\ generations = 0 /\ drafts = 0
        /\ generating = [r \in Requests |-> [step |-> "idle"]] /\ reader = Practice!Away
    BY <1>1 DEF Practice!Init, Practice!Idle
  <1>3. PracticeType
    BY <1>2, FS_EmptySet DEF PracticeType, DraftType
  <1>4. CallsAt(1) = {} /\ CallsAt(2) = {}
    BY <1>2 DEF CallsAt
  <1>5. CallsLeft
    BY <1>2, <1>4, FS_EmptySet DEF CallsLeft
  <1>6. QED
    BY <1>2, <1>3, <1>5 DEF PracticeInv, ReaderInv

LEMMA PracticeStep == ASSUME PracticeInv, PracticeNext PROVE PracticeInv'
  <1>1. CASE \E w \in Lemmas : Practice!Learn(w)
    <2>1. learning' \in SUBSET Lemmas
          /\ UNCHANGED <<corpus, ownTexts, generations, drafts, generating, reader>>
      BY <1>1 DEF Practice!Learn, PracticeInv, PracticeType
    <2>2. CallsLeft'
      BY <2>1 DEF PracticeInv, CallsLeft, CallsAt
    <2>3. QED
      BY <2>1, <2>2, ReaderKept DEF PracticeInv, PracticeType
  <1>2. ASSUME UNCHANGED <<learning, corpus, ownTexts, generations, drafts, generating>>, ReaderInv'
        PROVE  PracticeInv'
    BY <1>2 DEF PracticeInv, PracticeType, CallsLeft, CallsAt
  <1>3. CASE Practice!Leave
    BY <1>2, <1>3 DEF Practice!Leave, ReaderInv
  <1>4. ASSUME NEW given \in SUBSET Lemmas PROVE Practice!WordsOf(given) \in SUBSET Lemmas
    BY DEF Practice!WordsOf, PracticeInv, PracticeType
  <1>5. CASE Practice!NextPage
    <2>1. /\ reader.step = "next" /\ Practice!Read(reader, Practice!WordsOf(reader.given))
          /\ UNCHANGED <<learning, corpus, ownTexts, generations, drafts, generating>>
      BY <1>5 DEF Practice!NextPage, Practice!Read
    <2>2. BetweenPages(reader)
      BY <2>1 DEF PracticeInv, ReaderInv, Practice!Away
    <2>3. Practice!WordsOf(reader.given) \in SUBSET Lemmas
      BY <1>4, <2>2 DEF BetweenPages
    <2>4. ReaderInv'
      BY <2>1, <2>2, <2>3, PageRead
    <2>5. QED
      BY <1>2, <2>1, <2>4
  <1>6. CASE \E given \in SUBSET Lemmas : Practice!FirstPage(given)
    <2>1. PICK given \in SUBSET Lemmas : Practice!FirstPage(given)
      BY <1>6
    <2> DEFINE wanted == Practice!WordsOf(given)
    <2> DEFINE opened == [given |-> given, words |-> wanted, cursor |-> Practice!Start,
                          shown |-> {}, twice |-> FALSE, had |-> ownTexts \cup corpus,
                          steady |-> TRUE]
    <2>2. Practice!Read(opened, wanted)
          /\ UNCHANGED <<learning, corpus, ownTexts, generations, drafts, generating>>
      BY <2>1 DEF Practice!FirstPage, Practice!Read
    <2>3. wanted \in SUBSET Lemmas
      BY <1>4
    <2> HIDE DEF wanted
    <2>4. /\ opened.words \in SUBSET Lemmas /\ opened.given \in SUBSET Lemmas
          /\ opened.cursor = Practice!Start /\ opened.shown = {} /\ ~opened.twice
          /\ opened.had = ownTexts \cup corpus
      BY <2>3
    <2> HIDE DEF opened
    <2>5. ownTexts \cup corpus \subseteq Practice!Text
      BY PracticeConstants DEF PracticeInv, PracticeType
    <2>6. BetweenPages(opened)
      BY <2>4, <2>5 DEF BetweenPages, NotReached
    <2>7. ReaderInv'
      BY <2>2, <2>3, <2>6, PageRead
    <2>8. QED
      BY <1>2, <2>2, <2>7
  <1>7. CASE \E r \in Requests, wanted \in {learning} \cup {{w} : w \in Lemmas} :
                 Practice!Reserve(r, wanted)
    <2>1. {learning} \cup {{w} : w \in Lemmas} \subseteq SUBSET Lemmas
      BY DEF PracticeInv, PracticeType
    <2>2. QED
      BY <1>7, <2>1, PracticeReserveStep
  <1>8. CASE Practice!Import
    <2>1. corpus' \in Corpora
          /\ UNCHANGED <<learning, ownTexts, generations, drafts, generating, reader>>
      BY <1>8 DEF Practice!Import
    <2>2. CallsLeft'
      BY <2>1 DEF PracticeInv, CallsLeft, CallsAt
    <2>3. QED
      BY <2>1, <2>2, ReaderKept DEF PracticeInv, PracticeType
  <1>9. QED
    BY <1>1, <1>3, <1>5, <1>6, <1>7, <1>8, CalledStep, PracticeSaveStep DEF PracticeNext

LEMMA PracticeKept == ASSUME PracticeInv, UNCHANGED practiceState PROVE PracticeInv'
  <1>1. UNCHANGED <<learning, corpus, ownTexts, generations, drafts, generating, reader>>
    BY DEF practiceState
  <1>2. CallsLeft'
    BY <1>1 DEF PracticeInv, CallsLeft, CallsAt
  <1>3. QED
    BY <1>1, <1>2, ReaderKept DEF PracticeInv, PracticeType

LEMMA PracticeInvariant == Spec => []PracticeInv
  <1>1. Init => PracticeInv
    BY PracticeInit
  <1>2. PracticeInv /\ [Next]_vars => PracticeInv'
    BY PartsAlone, PracticeStep, PracticeKept
  <1>3. QED
    BY <1>1, <1>2, PTL DEF Spec

\* One explanation for everybody who asks about a word in its sentence, and no
\* user paid for beyond the day's limit; a reader who turns the pages of texts
\* while new ones are generated and the corpus is imported sees no text twice,
\* and at the end has seen all his own texts that were there at the first page
\* and every sentence that no search could leave out by its limit, as long as
\* the words stay; and the model is called at most twice for each place taken
\* (httpapi/explain.go, httpapi/practice.go, store/practice.go).
THEOREM PractisingCorrect == Spec => []Practising
  <1>1. ASSUME PracticeInv PROVE Practice!EveryTextOnce
    <2>1. drafts <= Practice!MaxAttempts * generations
      BY <1>1, CallsAtFinite DEF PracticeInv, PracticeType, CallsLeft, Practice!MaxAttempts
    <2>2. ASSUME reader # Practice!Away, reader.steady
          PROVE  /\ ~reader.twice
                 /\ reader.step = "done" =>
                        \A t \in reader.had : Matching(t, reader.words) => t \in reader.shown
      BY <1>1, <2>2 DEF PracticeInv, ReaderInv, BetweenPages, AllRead
    <2>3. QED
      BY <2>1, <2>2 DEF Practice!EveryTextOnce, Matching
  <1>2. PracticeInv /\ ExplainInv => Practising
    BY <1>1, OneExplanationHolds DEF Practising
  <1>3. QED
    BY <1>2, PracticeInvariant, ExplainInvariant, PTL

-----------------------------------------------------------------------------
\* The merge of scenes

LEMMA BoardConstants ==
    /\ Elements \subseteq Board!Element /\ Nothing \notin Elements
    /\ MaxElements \in Nat \ {0} /\ Drawings \subseteq Seq(Elements)
  BY RequestsAssumption DEF Board!WhiteboardAssumption

LEMMA BoardCardinality == ASSUME NEW S PROVE Board!Cardinality(S) = Cardinality(S)
  BY DEF Board!Cardinality, Cardinality

LEMMA BoardBijection ==
    ASSUME NEW S, NEW T, NEW at \in Board!Bijection(S, T)
    PROVE  /\ at \in [S -> T]
           /\ \A k, l \in S : at[k] = at[l] => k = l
           /\ \A i \in T : \E k \in S : at[k] = i
  BY DEF Board!Bijection, Board!Injection, Board!Surjection, Board!IsInjective

LEMMA HeaderIsThere ==
    ASSUME NEW s \in Seq(Elements), Board!WellFormed(s), NEW i \in DOMAIN s
    PROVE  Board!HeaderOf(s, s[i].id) = s[i]
  BY DEF Board!HeaderOf, Board!WellFormed

LEMMA HeaderIsElement ==
    ASSUME NEW s \in Seq(Elements), NEW id
    PROVE  \/ Board!HeaderOf(s, id) = Nothing /\ \A i \in DOMAIN s : s[i].id # id
           \/ \E i \in DOMAIN s : Board!HeaderOf(s, id) = s[i] /\ s[i].id = id
  BY DEF Board!HeaderOf

\* What one scene has of another: elements at different places are from
\* different places.
DrawnFrom(t, s, positions) ==
    /\ t \in Seq(Elements)
    /\ \A k \in DOMAIN t : \E i \in positions : t[k] = s[i]
    /\ \A i \in positions : \E k \in DOMAIN t : t[k] = s[i]
    /\ Board!WellFormed(s) => Board!WellFormed(t)

LEMMA Arranged ==
    ASSUME NEW s \in Seq(Elements), NEW positions \in SUBSET DOMAIN s, NEW n \in Nat,
           NEW at \in Board!Bijection(1..n, positions), NEW t, t = [k \in 1..n |-> s[at[k]]]
    PROVE  DrawnFrom(t, s, positions) /\ Len(t) = n
  <1>1. at \in [1..n -> positions] /\ (\A k, l \in 1..n : at[k] = at[l] => k = l)
        /\ \A i \in positions : \E k \in 1..n : at[k] = i
    BY BoardBijection
  <1>2. DOMAIN s = 1..Len(s) /\ \A i \in DOMAIN s : s[i] \in Elements
    OBVIOUS
  <1>3. t \in Seq(Elements) /\ Len(t) = n /\ DOMAIN t = 1..n
    BY <1>1, <1>2
  <1>4. \A k \in 1..n : t[k] = s[at[k]] /\ at[k] \in positions
    BY <1>1
  <1>5. Board!WellFormed(s) => Board!WellFormed(t)
    BY <1>1, <1>3, <1>4 DEF Board!WellFormed
  <1>6. QED
    BY <1>1, <1>3, <1>4, <1>5 DEF DrawnFrom

LEMMA PickedFrom ==
    ASSUME NEW s \in Seq(Elements), NEW positions \in SUBSET DOMAIN s,
           NEW t \in Board!Picked(s, positions)
    PROVE  DrawnFrom(t, s, positions) /\ Len(t) = Cardinality(positions)
  <1>1. IsFiniteSet(DOMAIN s)
    BY FS_Interval
  <1>2. Cardinality(positions) \in Nat
    BY <1>1, FS_Subset, FS_CardinalityType
  <1> DEFINE n == Cardinality(positions)
  <1>3. PICK at \in Board!Bijection(1..n, positions) : t = [k \in 1..n |-> s[at[k]]]
    BY BoardCardinality DEF Board!Picked
  <1> HIDE DEF n
  <1>4. QED
    BY <1>2, <1>3, Arranged DEF n

LEMMA OrderedFrom ==
    ASSUME NEW s \in Seq(Elements), NEW t \in Board!Ordered(s)
    PROVE  DrawnFrom(t, s, DOMAIN s)
  <1>1. CASE t = s
    BY <1>1 DEF DrawnFrom
  <1>2. CASE t # s
    <2>1. PICK at \in Board!Bijection(DOMAIN s, DOMAIN s) : t = [k \in DOMAIN s |-> s[at[k]]]
      BY <1>2 DEF Board!Ordered
    <2>2. DOMAIN s = 1..Len(s) /\ Len(s) \in Nat
      OBVIOUS
    <2>3. QED
      BY <2>1, <2>2, Arranged
  <1>3. QED
    BY <1>1, <1>2

\* An element of a merge is the stored one or a newer one; none is lost.
LEMMA MergeGoesForward ==
    ASSUME NEW stored \in Seq(Elements), Board!WellFormed(stored),
           NEW incoming \in Seq(Elements), Board!WellFormed(incoming),
           NEW merged \in Board!Merge(stored, incoming)
    PROVE  /\ merged \in Seq(Elements) /\ Board!WellFormed(merged)
           /\ \A i \in DOMAIN stored : \E k \in DOMAIN merged :
                  /\ merged[k].id = stored[i].id
                  /\ merged[k] = stored[i] \/ Board!Newer(stored[i], merged[k])
  <1> DEFINE others == {i \in DOMAIN stored : Board!HeaderOf(incoming, stored[i].id) = Nothing}
  <1> DEFINE Sent(i) == LET old == Board!HeaderOf(stored, incoming[i].id)
                        IN  IF Board!KeepsStored(old, incoming[i]) THEN old ELSE incoming[i]
  <1> DEFINE sent == [i \in DOMAIN incoming |-> Sent(i)]
  <1>1. PICK rest \in Board!Picked(stored, others) : merged \in Board!Ordered(sent \o rest)
    BY DEF Board!Merge
  <1>2. ASSUME NEW i \in DOMAIN incoming
        PROVE  /\ sent[i] = Sent(i) /\ Sent(i) \in Elements /\ Sent(i).id = incoming[i].id
               /\ \A j \in DOMAIN stored : stored[j].id = incoming[i].id =>
                      Sent(i) = stored[j] \/ Board!Newer(stored[j], Sent(i))
    <2>1. incoming[i] \in Elements
      OBVIOUS
    <2>2. CASE \A j \in DOMAIN stored : stored[j].id # incoming[i].id
      <3>1. Board!HeaderOf(stored, incoming[i].id) = Nothing
        BY <2>2, HeaderIsElement
      <3>2. Sent(i) = incoming[i]
        BY <3>1 DEF Board!KeepsStored
      <3>3. QED
        BY <2>1, <2>2, <3>2
    <2>3. ASSUME NEW j \in DOMAIN stored, stored[j].id = incoming[i].id
          PROVE  /\ Sent(i) \in Elements /\ Sent(i).id = incoming[i].id
                 /\ Sent(i) = stored[j] \/ Board!Newer(stored[j], Sent(i))
                 /\ \A l \in DOMAIN stored : stored[l].id = incoming[i].id => l = j
      <3>1. Board!HeaderOf(stored, incoming[i].id) = stored[j] /\ stored[j] \in Elements
        BY <2>3, HeaderIsThere
      <3>2. stored[j] # Nothing /\ stored[j] \in Board!Element /\ incoming[i] \in Board!Element
        BY <2>1, <3>1, BoardConstants
      <3>3. stored[j].version \in Nat /\ stored[j].nonce \in Nat
            /\ incoming[i].version \in Nat /\ incoming[i].nonce \in Nat
        BY <3>2 DEF Board!Element
      <3>4. \A l \in DOMAIN stored : stored[l].id = incoming[i].id => l = j
        BY <2>3 DEF Board!WellFormed
      <3>5. CASE Board!KeepsStored(stored[j], incoming[i])
        BY <2>3, <3>1, <3>4, <3>5
      <3>6. CASE ~Board!KeepsStored(stored[j], incoming[i])
        <4>1. Sent(i) = incoming[i]
          BY <3>1, <3>6
        <4>2. Board!Newer(stored[j], incoming[i])
          BY <3>2, <3>3, <3>6 DEF Board!KeepsStored, Board!Newer
        <4>3. QED
          BY <2>1, <3>4, <4>1, <4>2
      <3>7. QED
        BY <3>5, <3>6
    <2>4. QED
      BY <2>2, <2>3
  <1> HIDE DEF Sent
  <1>3. sent \in Seq(Elements) /\ DOMAIN sent = DOMAIN incoming
        /\ \A i \in DOMAIN sent : sent[i] \in Elements /\ sent[i].id = incoming[i].id
    BY <1>2
  <1> HIDE DEF sent
  <1>4. DrawnFrom(rest, stored, others)
    BY <1>1, PickedFrom
  <1>5. rest \in Seq(Elements) /\ Board!WellFormed(rest)
    BY <1>4 DEF DrawnFrom
  <1>6. \A k \in DOMAIN rest, i \in DOMAIN incoming : rest[k].id # incoming[i].id
    <2>1. SUFFICES ASSUME NEW k \in DOMAIN rest, NEW i \in DOMAIN incoming, rest[k].id = incoming[i].id
                   PROVE  FALSE
      OBVIOUS
    <2>2. PICK j \in others : rest[k] = stored[j]
      BY <1>4 DEF DrawnFrom
    <2>3. Board!HeaderOf(incoming, incoming[i].id) = Nothing
      BY <2>1, <2>2
    <2>4. incoming[i] = Nothing /\ incoming[i] \in Elements
      BY <2>3, HeaderIsThere
    <2>5. QED
      BY <2>4, BoardConstants
  <1> DEFINE all == sent \o rest
  <1>7. /\ all \in Seq(Elements) /\ DOMAIN all = 1..Len(sent) + Len(rest)
        /\ Len(sent) \in Nat /\ Len(rest) \in Nat
        /\ DOMAIN sent = 1..Len(sent) /\ DOMAIN rest = 1..Len(rest)
        /\ \A k \in DOMAIN all : all[k] = IF k <= Len(sent) THEN sent[k] ELSE rest[k - Len(sent)]
    BY <1>3, <1>5
  <1> HIDE DEF all
  <1>8. Board!WellFormed(all)
    <2>1. SUFFICES ASSUME NEW k \in DOMAIN all, NEW l \in DOMAIN all, all[k].id = all[l].id
                   PROVE  k = l
      BY DEF Board!WellFormed
    <2>2. CASE k <= Len(sent) /\ l <= Len(sent)
      BY <1>3, <1>7, <2>1, <2>2 DEF Board!WellFormed
    <2>3. CASE k > Len(sent) /\ l > Len(sent)
      <3>1. k - Len(sent) \in DOMAIN rest /\ l - Len(sent) \in DOMAIN rest
            /\ rest[k - Len(sent)].id = rest[l - Len(sent)].id
        BY <1>7, <2>1, <2>3
      <3>2. k - Len(sent) = l - Len(sent)
        BY <1>5, <3>1 DEF Board!WellFormed
      <3>3. QED
        BY <1>7, <3>2
    <2>4. CASE k <= Len(sent) /\ l > Len(sent)
      <3>1. k \in DOMAIN incoming /\ l - Len(sent) \in DOMAIN rest
            /\ rest[l - Len(sent)].id = incoming[k].id
        BY <1>3, <1>7, <2>1, <2>4
      <3>2. QED
        BY <1>6, <3>1
    <2>5. CASE k > Len(sent) /\ l <= Len(sent)
      <3>1. l \in DOMAIN incoming /\ k - Len(sent) \in DOMAIN rest
            /\ rest[k - Len(sent)].id = incoming[l].id
        BY <1>3, <1>7, <2>1, <2>5
      <3>2. QED
        BY <1>6, <3>1
    <2>6. QED
      BY <1>7, <2>2, <2>3, <2>4, <2>5
  <1>9. DrawnFrom(merged, all, DOMAIN all)
    BY <1>1, <1>7, OrderedFrom DEF all
  <1>10. ASSUME NEW i \in DOMAIN stored
         PROVE  \E k \in DOMAIN all : /\ all[k].id = stored[i].id
                                      /\ all[k] = stored[i] \/ Board!Newer(stored[i], all[k])
    <2>1. CASE i \in others
      <3>1. PICK k \in DOMAIN rest : rest[k] = stored[i]
        BY <1>4, <2>1 DEF DrawnFrom
      <3>2. Len(sent) + k \in DOMAIN all /\ all[Len(sent) + k] = rest[k]
        BY <1>7
      <3>3. QED
        BY <3>1, <3>2
    <2>2. CASE i \notin others
      <3>1. Board!HeaderOf(incoming, stored[i].id) # Nothing
        BY <2>2
      <3>2. PICK k \in DOMAIN incoming : incoming[k].id = stored[i].id
        BY <3>1, HeaderIsElement
      <3>3. sent[k].id = stored[i].id /\ (sent[k] = stored[i] \/ Board!Newer(stored[i], sent[k]))
        BY <1>2, <1>3, <3>2
      <3>4. k \in DOMAIN all /\ all[k] = sent[k]
        BY <1>3, <1>7
      <3>5. QED
        BY <3>3, <3>4
    <2>3. QED
      BY <2>1, <2>2
  <1>11. QED
    BY <1>8, <1>9, <1>10 DEF DrawnFrom

\* Only tombstones are dropped, and only from a scene that is full without them.
LEMMA FitDropsTombstones ==
    ASSUME NEW s \in Seq(Elements), Board!WellFormed(s), NEW t \in Board!Fit(s)
    PROVE  /\ t \in Seq(Elements) /\ Board!WellFormed(t) /\ Len(t) <= MaxElements
           /\ \A k \in DOMAIN t : \E i \in DOMAIN s : t[k] = s[i]
           /\ \A i \in DOMAIN s :
                  \/ \E k \in DOMAIN t : t[k] = s[i]
                  \/ s[i].deleted /\ Len(t) = MaxElements /\ \A k \in DOMAIN t : t[k] # s[i]
  <1> DEFINE excess == IF Len(s) > MaxElements THEN Len(s) - MaxElements ELSE 0
  <1>1. PICK some \in SUBSET Board!Droppable(s) :
            Cardinality(some) = excess /\ t \in Board!Picked(s, DOMAIN s \ some)
    BY BoardCardinality DEF Board!Fit
  <1>2. DOMAIN s = 1..Len(s) /\ Len(s) \in Nat /\ some \subseteq DOMAIN s
    BY DEF Board!Droppable
  <1>3. IsFiniteSet(DOMAIN s) /\ Cardinality(DOMAIN s) = Len(s)
    <2>1. 1 \in Int /\ Len(s) \in Int
      BY <1>2
    <2>2. IsFiniteSet(1..Len(s)) /\ Cardinality(1..Len(s)) = IF 1 > Len(s) THEN 0 ELSE Len(s) - 1 + 1
      BY <2>1, FS_Interval, Zenon
    <2>3. QED
      BY <1>2, <2>2
  <1>4. Cardinality(DOMAIN s \ some) = Len(s) - excess
    <2>1. Cardinality(DOMAIN s \ some) = Cardinality(DOMAIN s) - Cardinality(DOMAIN s \cap some)
      BY <1>3, FS_Difference
    <2>2. DOMAIN s \cap some = some
      BY <1>2
    <2>3. QED
      BY <1>1, <1>3, <2>1, <2>2
  <1>5. DrawnFrom(t, s, DOMAIN s \ some) /\ Len(t) = Len(s) - excess
    BY <1>1, <1>4, PickedFrom
  <1>6. Len(t) <= MaxElements /\ (excess > 0 => Len(t) = MaxElements)
    BY <1>2, <1>5, BoardConstants
  <1>7. ASSUME NEW i \in DOMAIN s
        PROVE  \/ \E k \in DOMAIN t : t[k] = s[i]
               \/ s[i].deleted /\ Len(t) = MaxElements /\ \A k \in DOMAIN t : t[k] # s[i]
    <2>1. CASE i \notin some
      BY <1>5, <2>1 DEF DrawnFrom
    <2>2. CASE i \in some
      <3>1. s[i].deleted
        BY <2>2 DEF Board!Droppable
      <3>2. excess > 0
        <4>1. IsFiniteSet(some) /\ some # {}
          BY <1>2, <1>3, <2>2, FS_Subset
        <4>2. Cardinality(some) # 0 /\ Cardinality(some) \in Nat
          BY <4>1, FS_EmptySet, FS_CardinalityType
        <4>3. QED
          BY <1>1, <4>2
      <3>3. QED
        BY <1>6, <3>1, <3>2
    <2>3. QED
      BY <2>1, <2>2
  <1>8. QED
    BY <1>5, <1>6, <1>7 DEF DrawnFrom

\* The whiteboard, its snapshots and its object

BoardRow == [exists : BOOLEAN, scene : Seq(Elements), version : Nat, marked : Nat, key : BOOLEAN]

HandRow ==
    [stage : {"idle", "claimed", "read", "put"}, version : Nat, owns : BOOLEAN]

BoardType ==
    /\ boardLesson \in {"scheduled", "live", "over", "gone"}
    /\ board \in BoardRow
    /\ snapshots \in Nat /\ object \in Nat
    /\ hand \in [Workers -> HandRow]
    /\ boardLapsed \in BOOLEAN

Holds(w) == hand[w].stage \in {"read", "put"}

SceneInv == Board!WellFormed(board.scene)

\* A cancelled lesson has no board and only then an object is deleted.
GoneInv ==
    /\ ~board.exists => board.version = 0 /\ board.marked = 0 /\ ~board.key
    /\ boardLesson = "gone" => ~board.exists
    /\ deletion => boardLesson = "gone"
    /\ boardLesson # "gone" => \A w \in Workers : Holds(w) => board.exists

\* An object in storage is known by its key, to be deleted or about to be marked.
ObjectInv ==
    object # 0 /\ ~lostPut => board.key \/ deletion \/ \E w \in Workers : hand[w].stage = "put"

\* While no two snapshots were under way at once: one that is says that the mark
\* is behind, and what it has put is what storage has.
SnapshotInv ==
    ~boardOverlap =>
        /\ \A v, w \in Workers : Holds(v) /\ Holds(w) => v = w
        /\ board.exists =>
              /\ board.marked <= board.version
              /\ \A w \in Workers : Holds(w) => hand[w].version <= board.version /\ ~Board!UpToDate(board)
              /\ \A w \in Workers : hand[w].stage = "put" => object = hand[w].version
              /\ Board!UpToDate(board) => object = board.version

\* A board behind has a snapshot that waits, begins or has read its last scene,
\* unless one is dead.
PendingInv ==
    ~boardOverlap /\ ~boardLapsed /\ board.exists /\ board.version > 0 /\ ~Board!UpToDate(board) =>
        \/ snapshots > 0
        \/ \E w \in Workers : /\ hand[w].owns
                              /\ \/ hand[w].stage = "claimed"
                                 \/ Holds(w) /\ hand[w].version = board.version

BoardInv == BoardType /\ SceneInv /\ GoneInv /\ ObjectInv /\ SnapshotInv /\ PendingInv

LEMMA BoardInit == ASSUME Init PROVE BoardInv
  <1>1. Board!Init
    BY DEF Init
  <1>2. /\ boardLesson = "scheduled" /\ board = Board!NoBoard /\ snapshots = 0 /\ object = 0
        /\ hand = [w \in Workers |-> Board!Idle] /\ deletion = FALSE /\ boardLapsed = FALSE
    BY <1>1 DEF Board!Init
  <1> boardLapsed \in BOOLEAN
    BY <1>2
  <1>3. BoardType
    BY <1>2 DEF BoardType, BoardRow, HandRow, Board!NoBoard, Board!Idle
  <1>4. SceneInv
    BY <1>2 DEF SceneInv, Board!WellFormed, Board!NoBoard
  <1>5. board.version = 0 /\ board.marked = 0 /\ ~board.key /\ ~board.exists /\ \A w \in Workers : ~Holds(w)
    BY <1>2 DEF Holds, Board!NoBoard, Board!Idle
  <1>6. GoneInv /\ ObjectInv /\ SnapshotInv /\ PendingInv
    BY <1>2, <1>5 DEF GoneInv, ObjectInv, SnapshotInv, PendingInv
  <1>7. QED
    BY <1>3, <1>4, <1>6 DEF BoardInv

\* The lesson starts, ends, is cancelled; its object is deleted.
LEMMA BoardLessonStep ==
    ASSUME BoardInv, Board!Start \/ Board!Close \/ Board!CancelLesson \/ Board!DeleteObject
    PROVE  BoardInv'
  <1>1. CASE Board!Start \/ Board!Close
    <2>1. /\ boardLesson \in {"scheduled", "live"} /\ boardLesson' \in {"live", "over"}
          /\ UNCHANGED <<board, snapshots, hand, object, deletion, lostPut, boardOverlap, boardLapsed>>
      BY <1>1 DEF Board!Start, Board!Close
    <2>2. GoneInv'
      BY <2>1 DEF BoardInv, GoneInv, Holds
    <2>3. BoardType' /\ SceneInv'
      BY <2>1 DEF BoardInv, BoardType, SceneInv
    <2>4. ObjectInv' /\ SnapshotInv' /\ PendingInv'
      BY <2>1 DEF BoardInv, ObjectInv, SnapshotInv, PendingInv, Holds, Board!UpToDate
    <2>5. QED
      BY <2>2, <2>3, <2>4 DEF BoardInv
  <1>2. CASE Board!CancelLesson
    <2>1. /\ boardLesson' = "gone" /\ board' = Board!NoBoard /\ deletion' = (deletion \/ board.key)
          /\ UNCHANGED <<snapshots, hand, object, lostPut, boardOverlap, boardLapsed>>
      BY <1>2 DEF Board!CancelLesson, Board!QueuedDeletion
    <2>2. /\ board' \in BoardRow /\ Board!WellFormed(board'.scene)
          /\ ~board'.exists /\ board'.version = 0 /\ board'.marked = 0 /\ ~board'.key
      BY <2>1 DEF Board!NoBoard, BoardRow, Board!WellFormed
    <2>3. BoardType' /\ SceneInv'
      BY <2>1, <2>2 DEF BoardInv, BoardType, SceneInv
    <2>4. GoneInv'
      BY <2>1, <2>2 DEF GoneInv
    <2>5. ObjectInv'
      BY <2>1 DEF BoardInv, ObjectInv
    <2>6. SnapshotInv' /\ PendingInv'
      BY <2>1, <2>2 DEF BoardInv, SnapshotInv, PendingInv, Holds
    <2>7. QED
      BY <2>3, <2>4, <2>5, <2>6 DEF BoardInv
  <1>3. CASE Board!DeleteObject
    <2>1. /\ deletion /\ object' = 0 /\ ~deletion'
          /\ UNCHANGED <<boardLesson, board, snapshots, hand, lostPut, boardOverlap, boardLapsed>>
      BY <1>3 DEF Board!DeleteObject
    <2>2. ~board.exists
      BY <2>1 DEF BoardInv, GoneInv
    <2>3. BoardType' /\ SceneInv' /\ GoneInv' /\ ObjectInv'
      BY <2>1 DEF BoardInv, BoardType, SceneInv, GoneInv, ObjectInv, Holds
    <2>4. SnapshotInv' /\ PendingInv'
      BY <2>1, <2>2 DEF BoardInv, SnapshotInv, PendingInv, Holds
    <2>5. QED
      BY <2>3, <2>4 DEF BoardInv
  <1>4. QED
    BY <1>1, <1>2, <1>3

\* The board is opened, or a snapshot is asked for.
LEMMA BoardOpenStep ==
    ASSUME BoardInv,
           Board!RoomFinished
             \/ \E r \in BoardRequests : Board!Admit(r) \/ Board!OpenWhiteboard(r) \/ Board!Refuse(r)
    PROVE  BoardInv'
  <1>1. CASE Board!RoomFinished
    <2>1. /\ snapshots' \in Nat /\ snapshots' > 0
          /\ UNCHANGED <<boardLesson, board, hand, object, deletion, lostPut, boardOverlap, boardLapsed>>
      BY <1>1 DEF Board!RoomFinished, Board!Enqueued, BoardInv, BoardType
    <2>2. BoardType' /\ SceneInv' /\ GoneInv' /\ ObjectInv'
      BY <2>1 DEF BoardInv, BoardType, SceneInv, GoneInv, ObjectInv, Holds
    <2>3. SnapshotInv' /\ PendingInv'
      BY <2>1 DEF BoardInv, SnapshotInv, PendingInv, Holds, Board!UpToDate
    <2>4. QED
      BY <2>2, <2>3 DEF BoardInv
  <1>2. CASE \E r \in BoardRequests : Board!Admit(r) \/ Board!Refuse(r)
    <2>1. UNCHANGED <<boardLesson, board, snapshots, hand, object, deletion, lostPut, boardOverlap, boardLapsed>>
      BY <1>2 DEF Board!Admit, Board!Refuse
    <2>2. BoardType' /\ SceneInv' /\ GoneInv' /\ ObjectInv'
      BY <2>1 DEF BoardInv, BoardType, SceneInv, GoneInv, ObjectInv, Holds
    <2>3. SnapshotInv' /\ PendingInv'
      BY <2>1 DEF BoardInv, SnapshotInv, PendingInv, Holds, Board!UpToDate
    <2>4. QED
      BY <2>2, <2>3 DEF BoardInv
  <1>3. CASE \E r \in BoardRequests : Board!OpenWhiteboard(r)
    <2>1. /\ boardLesson # "gone" /\ board' = [board EXCEPT !.exists = TRUE]
          /\ UNCHANGED <<boardLesson, snapshots, hand, object, deletion, lostPut, boardOverlap, boardLapsed>>
      BY <1>3 DEF Board!OpenWhiteboard
    <2>2. /\ board' \in BoardRow /\ board'.exists /\ board'.scene = board.scene
          /\ board'.version = board.version /\ board'.marked = board.marked
          /\ board'.key = board.key
      BY <2>1 DEF BoardInv, BoardType, BoardRow
    <2>3. BoardType' /\ SceneInv' /\ GoneInv'
      BY <2>1, <2>2 DEF BoardInv, BoardType, SceneInv, GoneInv
    <2>4. ObjectInv'
      BY <2>1, <2>2 DEF BoardInv, ObjectInv
    <2>5. CASE board.exists
      <3>1. Board!UpToDate(board') <=> Board!UpToDate(board)
        BY <2>2 DEF Board!UpToDate
      <3>2. SnapshotInv'
        BY <2>1, <2>2, <2>5, <3>1 DEF BoardInv, SnapshotInv, Holds
      <3>3. PendingInv'
        BY <2>1, <2>2, <2>5, <3>1 DEF BoardInv, PendingInv, Holds
      <3>4. QED
        BY <2>3, <2>4, <3>2, <3>3 DEF BoardInv
    <2>6. CASE ~board.exists
      <3>1. /\ board.version = 0 /\ board.marked = 0 /\ ~board.key
            /\ \A w \in Workers : ~Holds(w) /\ hand[w].stage # "put"
        BY <2>1, <2>6 DEF BoardInv, GoneInv, Holds
      <3>2. SnapshotInv' /\ PendingInv'
        BY <2>1, <2>2, <3>1 DEF SnapshotInv, PendingInv, Holds, Board!UpToDate
      <3>3. QED
        BY <2>3, <2>4, <3>2 DEF BoardInv
    <2>7. QED
      BY <2>3, <2>4, <2>5, <2>6 DEF BoardInv
  <1>4. QED
    BY <1>1, <1>2, <1>3

\* A scene is saved and a snapshot is asked for.
LEMMA SaveSceneStep ==
    ASSUME BoardInv, NEW r \in BoardRequests, NEW incoming \in Drawings, Board!SaveScene(r, incoming)
    PROVE  BoardInv'
  <1>1. PICK merged \in Board!Merge(board.scene, incoming) :
            \E drawn \in Board!Fit(merged) :
                board' = [board EXCEPT !.scene = drawn, !.version = board.version + 1]
    BY Zenon DEF Board!SaveScene
  <1>2. PICK fitted \in Board!Fit(merged) :
            board' = [board EXCEPT !.scene = fitted, !.version = board.version + 1]
    BY <1>1, Zenon
  <1>3. fitted \in Seq(Elements) /\ Board!WellFormed(fitted)
    <2>1. merged \in Seq(Elements) /\ Board!WellFormed(merged)
      BY MergeGoesForward, BoardConstants DEF BoardInv, BoardType, BoardRow, SceneInv, Board!SaveScene
    <2>2. QED
      BY <2>1, FitDropsTombstones
  <1>4. /\ board' \in BoardRow /\ board'.scene = fitted /\ board'.version = board.version + 1
        /\ board'.exists = board.exists /\ board'.marked = board.marked /\ board'.key = board.key
    <2> DEFINE mid == [board EXCEPT !.scene = fitted]
    <2>1. /\ mid \in BoardRow /\ mid.scene = fitted /\ mid.version = board.version
          /\ mid.exists = board.exists /\ mid.marked = board.marked /\ mid.key = board.key
      BY <1>3 DEF BoardInv, BoardType, BoardRow
    <2>2. board' = [mid EXCEPT !.version = board.version + 1]
      BY <1>2
    <2>3. board.version + 1 \in Nat
      BY DEF BoardInv, BoardType, BoardRow
    <2> HIDE DEF mid
    <2>4. QED
      BY <2>1, <2>2, <2>3 DEF BoardRow
  <1>5. /\ board.exists /\ snapshots' \in Nat /\ snapshots' > 0
        /\ UNCHANGED <<boardLesson, hand, object, deletion, lostPut, boardOverlap, boardLapsed>>
    BY DEF Board!SaveScene, Board!Enqueued, BoardInv, BoardType
  <1>6. BoardType' /\ SceneInv' /\ GoneInv' /\ ObjectInv'
    BY <1>3, <1>4, <1>5 DEF BoardInv, BoardType, SceneInv, GoneInv, ObjectInv, Holds
  <1>7. board.version \in Nat /\ board.marked \in Nat /\ \A w \in Workers : hand[w].version \in Nat
    BY DEF BoardInv, BoardType, BoardRow, HandRow
  <1>8. SnapshotInv'
    BY <1>4, <1>5, <1>7 DEF BoardInv, SnapshotInv, Holds, Board!UpToDate
  <1>9. PendingInv'
    BY <1>5 DEF PendingInv
  <1>10. QED
    BY <1>6, <1>8, <1>9 DEF BoardInv

\* What a worker holds, next to what the others do.
LEMMA HandNext ==
    ASSUME BoardType, NEW w \in Workers, NEW next \in HandRow, hand' = [hand EXCEPT ![w] = next]
    PROVE  /\ hand' \in [Workers -> HandRow] /\ hand'[w] = next
           /\ \A v \in Workers : v # w => hand'[v] = hand[v]
  BY DEF BoardType

LEMMA ClaimStep ==
    ASSUME BoardInv, NEW w \in Workers, Board!Claim(w)
    PROVE  BoardInv'
  <1> DEFINE mid == [Board!Idle EXCEPT !.stage = "claimed"]
             next == [mid EXCEPT !.owns = TRUE]
  <1>1. /\ snapshots > 0 /\ snapshots' = snapshots - 1 /\ hand[w].stage = "idle"
        /\ hand' = [hand EXCEPT ![w] = next]
        /\ UNCHANGED <<boardLesson, board, object, deletion, lostPut, boardOverlap, boardLapsed>>
    BY DEF Board!Claim
  <1>2. next \in HandRow /\ next.stage = "claimed" /\ next.owns
    <2>1. Board!Idle \in HandRow
      BY DEF HandRow, Board!Idle
    <2>2. mid \in HandRow /\ mid.stage = "claimed"
      BY <2>1 DEF HandRow
    <2> HIDE DEF mid
    <2>3. QED
      BY <2>2 DEF HandRow
  <1> HIDE DEF next
  <1>3. /\ hand' \in [Workers -> HandRow] /\ hand'[w] = next
        /\ \A v \in Workers : v # w => hand'[v] = hand[v]
    BY <1>1, <1>2, HandNext DEF BoardInv
  <1>4. BoardType' /\ SceneInv'
    BY <1>1, <1>3 DEF BoardInv, BoardType, SceneInv
  <1>5. \A v \in Workers : hand'[v] = hand[v] \/ (v = w /\ ~Holds(w) /\ hand'[w] = next)
    BY <1>1, <1>3 DEF Holds
  <1>6. GoneInv'
    BY <1>1, <1>2, <1>5 DEF BoardInv, GoneInv, Holds
  <1>7. ObjectInv'
    BY <1>1, <1>3 DEF BoardInv, ObjectInv
  <1>8. SnapshotInv'
    BY <1>1, <1>2, <1>5 DEF BoardInv, SnapshotInv, Holds, Board!UpToDate
  <1>9. PendingInv'
    BY <1>2, <1>3 DEF PendingInv
  <1>10. QED
    BY <1>4, <1>6, <1>7, <1>8, <1>9 DEF BoardInv

LEMMA ReadStep ==
    ASSUME BoardInv, NEW w \in Workers, Board!Read(w)
    PROVE  BoardInv'
  <1>1. /\ hand[w].stage = "claimed"
        /\ boardLapsed' = (boardLapsed /\ ~hand[w].owns)
        /\ UNCHANGED <<boardLesson, board, snapshots, object, deletion, lostPut>>
    BY DEF Board!Read
  <1> boardLapsed' \in BOOLEAN
    BY <1>1
  <1>2. CASE ~board.exists \/ Board!UpToDate(board)
    <2>1. hand' = [hand EXCEPT ![w] = Board!Idle] /\ (boardOverlap' <=> boardOverlap)
      <3>1. hand' = [hand EXCEPT ![w] = Board!Idle]
        BY <1>2 DEF Board!Read
      <3>2. boardOverlap' <=> boardOverlap
        BY <1>2, Zenon DEF Board!Read
      <3>3. QED
        BY <3>1, <3>2
    <2>2. Board!Idle \in HandRow /\ Board!Idle.stage = "idle"
      BY DEF HandRow, Board!Idle
    <2>3. /\ hand' \in [Workers -> HandRow] /\ hand'[w] = Board!Idle
          /\ \A v \in Workers : v # w => hand'[v] = hand[v]
      BY <2>1, <2>2, HandNext DEF BoardInv
    <2>4. BoardType' /\ SceneInv' /\ GoneInv' /\ ObjectInv'
      BY <1>1, <2>2, <2>3 DEF BoardInv, BoardType, SceneInv, GoneInv, ObjectInv, Holds
    <2>5. SnapshotInv'
      BY <1>1, <2>1, <2>2, <2>3 DEF BoardInv, SnapshotInv, Holds, Board!UpToDate
    <2>6. PendingInv'
      BY <1>1, <1>2, <2>1 DEF PendingInv, Board!UpToDate
    <2>7. QED
      BY <2>4, <2>5, <2>6 DEF BoardInv
  <1>3. CASE board.exists /\ ~Board!UpToDate(board)
    <2> DEFINE next == [stage |-> "read", version |-> board.version, owns |-> hand[w].owns]
    <2>1. hand' = [hand EXCEPT ![w] = next]
      <3>1. hand' = [hand EXCEPT ![w] = [hand[w] EXCEPT !.stage = "read", !.version = board.version]]
        BY <1>3 DEF Board!Read
      <3>2. [hand[w] EXCEPT !.stage = "read", !.version = board.version] = next
        <4> DEFINE mid == [hand[w] EXCEPT !.stage = "read"]
        <4>1. [hand[w] EXCEPT !.stage = "read", !.version = board.version]
                  = [mid EXCEPT !.version = board.version]
          OBVIOUS
        <4>2. mid = [stage |-> "read", version |-> hand[w].version, owns |-> hand[w].owns]
          BY DEF BoardInv, BoardType, HandRow
        <4> HIDE DEF mid
        <4>3. QED
          BY <4>1, <4>2
      <3>3. QED
        BY <3>1, <3>2
    <2>2. /\ next \in HandRow /\ next.stage = "read" /\ next.version = board.version
          /\ next.owns = hand[w].owns
      BY DEF BoardInv, BoardType, BoardRow, HandRow
    <2> HIDE DEF next
    <2>3. /\ hand' \in [Workers -> HandRow] /\ hand'[w] = next
          /\ \A v \in Workers : v # w => hand'[v] = hand[v]
      BY <2>1, <2>2, HandNext DEF BoardInv
    <2>4. ~boardOverlap' => ~boardOverlap /\ \A v \in Workers : ~Holds(v)
      BY <1>3 DEF Board!Read, Board!Busy, Holds
    <2>5. BoardType' /\ SceneInv'
      BY <1>1, <2>3 DEF BoardInv, BoardType, SceneInv
    <2>6. GoneInv'
      BY <1>1, <1>3, <2>3 DEF BoardInv, GoneInv
    <2>7. ObjectInv'
      BY <1>1, <2>3 DEF BoardInv, ObjectInv
    <2>8. board.version \in Nat
      BY DEF BoardInv, BoardType, BoardRow
    <2>9. SnapshotInv'
      BY <1>1, <1>3, <2>2, <2>3, <2>4, <2>8 DEF BoardInv, SnapshotInv, Holds, Board!UpToDate
    <2>10. PendingInv'
      <3>1. SUFFICES ASSUME ~boardOverlap', ~boardLapsed', board.version > 0, ~(snapshots > 0)
                     PROVE  \E v \in Workers : /\ hand'[v].owns
                                               /\ \/ hand'[v].stage = "claimed"
                                                  \/ Holds(v)' /\ hand'[v].version = board.version
        BY <1>1 DEF PendingInv
      <3>2. PICK v \in Workers : hand[v].owns /\ hand[v].stage = "claimed"
        <4>1. CASE boardLapsed
          <5>1. hand[w].owns
            BY <1>1, <3>1, <4>1
          <5>2. QED
            BY <1>1, <5>1
        <4>2. CASE ~boardLapsed
          BY <1>3, <2>4, <3>1, <4>2 DEF BoardInv, PendingInv
        <4>3. QED
          BY <4>1, <4>2
      <3>3. CASE v = w
        BY <2>2, <2>3, <3>2, <3>3 DEF Holds
      <3>4. CASE v # w
        BY <2>3, <3>2, <3>4
      <3>5. QED
        BY <3>3, <3>4
    <2>11. QED
      BY <2>5, <2>6, <2>7, <2>9, <2>10 DEF BoardInv
  <1>4. QED
    BY <1>2, <1>3

LEMMA PutObjectStep ==
    ASSUME BoardInv, NEW w \in Workers, Board!PutObject(w)
    PROVE  BoardInv'
  <1> DEFINE next == [hand[w] EXCEPT !.stage = "put"]
  <1>1. /\ hand[w].stage = "read" /\ object' = hand[w].version /\ hand' = [hand EXCEPT ![w] = next]
        /\ UNCHANGED <<boardLesson, board, snapshots, deletion, lostPut, boardOverlap, boardLapsed>>
    BY DEF Board!PutObject, BoardInv, BoardType
  <1>2. /\ next \in HandRow /\ next.stage = "put" /\ next.version = hand[w].version
        /\ next.owns = hand[w].owns /\ hand[w].version \in Nat /\ Holds(w)
    BY <1>1 DEF BoardInv, BoardType, HandRow, Holds
  <1> HIDE DEF next
  <1>3. /\ hand' \in [Workers -> HandRow] /\ hand'[w] = next
        /\ \A v \in Workers : v # w => hand'[v] = hand[v]
    BY <1>1, <1>2, HandNext DEF BoardInv
  <1>4. BoardType' /\ SceneInv'
    BY <1>1, <1>2, <1>3 DEF BoardInv, BoardType, SceneInv
  <1>5. \A v \in Workers : /\ Holds(v)' <=> Holds(v)
                           /\ hand'[v].version = hand[v].version
                           /\ hand'[v].owns = hand[v].owns
                           /\ hand'[v].stage = "claimed" <=> hand[v].stage = "claimed"
    BY <1>1, <1>2, <1>3 DEF Holds
  <1>6. GoneInv'
    BY <1>1, <1>5 DEF BoardInv, GoneInv
  <1>7. ObjectInv'
    BY <1>2, <1>3 DEF ObjectInv
  <1>8. SnapshotInv'
    <2>1. SUFFICES ASSUME ~boardOverlap PROVE SnapshotInv'
      BY <1>1 DEF SnapshotInv
    <2>2. \A v \in Workers : hand'[v].stage = "put" => v = w
      BY <1>2, <1>3, <2>1 DEF BoardInv, SnapshotInv, Holds
    <2>3. QED
      BY <1>1, <1>2, <1>3, <1>5, <2>1, <2>2 DEF BoardInv, SnapshotInv, Board!UpToDate
  <1>9. PendingInv'
    BY <1>1, <1>5 DEF BoardInv, PendingInv, Board!UpToDate
  <1>10. QED
    BY <1>4, <1>6, <1>7, <1>8, <1>9 DEF BoardInv

LEMMA MarkSnapshotStep ==
    ASSUME BoardInv, NEW w \in Workers, Board!MarkSnapshot(w)
    PROVE  BoardInv'
  <1>1. /\ hand[w].stage = "put" /\ hand' = [hand EXCEPT ![w] = Board!Idle]
        /\ UNCHANGED <<boardLesson, snapshots, object, lostPut, boardOverlap, boardLapsed>>
    BY DEF Board!MarkSnapshot
  <1>2. Board!Idle \in HandRow /\ Board!Idle.stage = "idle" /\ Holds(w) /\ hand[w].version \in Nat
    BY <1>1 DEF HandRow, Board!Idle, Holds, BoardInv, BoardType
  <1>3. /\ hand' \in [Workers -> HandRow] /\ hand'[w] = Board!Idle
        /\ \A v \in Workers : v # w => hand'[v] = hand[v]
    BY <1>1, <1>2, HandNext DEF BoardInv
  <1>4. \A v \in Workers : Holds(v)' <=> Holds(v) /\ v # w
    BY <1>2, <1>3 DEF Holds
  <1>5. CASE board.exists
    <2>1. board' = [board EXCEPT !.key = TRUE, !.marked = hand[w].version] /\ deletion' = deletion
      BY <1>5 DEF Board!MarkSnapshot
    <2>2. /\ board' \in BoardRow /\ board'.exists /\ board'.key /\ board'.marked = hand[w].version
          /\ board'.version = board.version /\ board'.scene = board.scene
      BY <1>2, <1>5, <2>1 DEF BoardInv, BoardType, BoardRow
    <2>3. BoardType' /\ SceneInv'
      BY <1>1, <1>3, <2>2 DEF BoardInv, BoardType, SceneInv
    <2>4. GoneInv'
      BY <1>1, <1>5, <2>1, <2>2 DEF BoardInv, GoneInv
    <2>5. ObjectInv'
      BY <2>2 DEF ObjectInv
    <2>6. board.version \in Nat
      BY DEF BoardInv, BoardType, BoardRow
    <2>7. ASSUME ~boardOverlap
          PROVE  /\ \A v \in Workers : ~Holds(v)' /\ hand[w].version <= board.version
                 /\ object = hand[w].version /\ ~Board!UpToDate(board)
      BY <1>1, <1>2, <1>4, <1>5, <2>7 DEF BoardInv, SnapshotInv
    <2>8. SnapshotInv'
      <3>1. SUFFICES ASSUME ~boardOverlap PROVE SnapshotInv'
        BY <1>1 DEF SnapshotInv
      <3>2. \A v \in Workers : hand'[v].stage # "put"
        BY <2>7, <3>1 DEF Holds
      <3>3. Board!UpToDate(board)' => object' = board'.version
        BY <1>1, <1>2, <2>2, <2>6, <2>7, <3>1 DEF Board!UpToDate
      <3>4. QED
        BY <1>2, <2>2, <2>6, <2>7, <3>1, <3>2, <3>3 DEF SnapshotInv
    <2>9. PendingInv'
      <3>1. SUFFICES ASSUME ~boardOverlap, ~boardLapsed, board.version > 0,
                            ~Board!UpToDate(board)'
                     PROVE  PendingInv'
        BY <1>1, <2>2 DEF PendingInv
      <3>2. hand[w].version # board.version
        BY <1>2, <2>2, <2>6, <3>1 DEF Board!UpToDate
      <3>3. \/ snapshots > 0
            \/ \E v \in Workers : hand[v].owns /\ hand[v].stage = "claimed"
        BY <1>2, <1>5, <2>7, <3>1, <3>2 DEF BoardInv, PendingInv, SnapshotInv
      <3>4. \A v \in Workers : hand[v].stage = "claimed" => v # w /\ hand'[v] = hand[v]
        BY <1>1, <1>3
      <3>5. QED
        BY <1>1, <3>3, <3>4 DEF PendingInv
    <2>10. QED
      BY <2>3, <2>4, <2>5, <2>8, <2>9 DEF BoardInv
  <1>6. CASE ~board.exists
    <2>1. deletion' /\ board' = board
      BY <1>6 DEF Board!MarkSnapshot
    <2>2. boardLesson = "gone"
      BY <1>2, <1>6 DEF BoardInv, GoneInv
    <2>3. BoardType' /\ SceneInv' /\ GoneInv' /\ ObjectInv'
      BY <1>1, <1>3, <2>1, <2>2 DEF BoardInv, BoardType, SceneInv, GoneInv, ObjectInv
    <2>4. SnapshotInv' /\ PendingInv'
      BY <1>1, <1>4, <1>6, <2>1 DEF BoardInv, SnapshotInv, PendingInv
    <2>5. QED
      BY <2>3, <2>4 DEF BoardInv
  <1>7. QED
    BY <1>5, <1>6

SnapshotUnsettled ==
    \/ snapshots' = snapshots + 1 /\ boardLapsed' = boardLapsed
    \/ snapshots' = snapshots /\ boardLapsed' = TRUE

LEMMA UnsettledRow ==
    ASSUME snapshots \in Nat, boardLapsed \in BOOLEAN, SnapshotUnsettled
    PROVE  /\ snapshots' \in Nat /\ boardLapsed' \in BOOLEAN
           /\ snapshots' > 0 \/ boardLapsed'
           /\ snapshots > 0 => snapshots' > 0
           /\ ~boardLapsed' => ~boardLapsed
  <1>1. CASE snapshots' = snapshots + 1 /\ boardLapsed' = boardLapsed
    BY <1>1
  <1>2. CASE snapshots' = snapshots /\ boardLapsed' = TRUE
    BY <1>2
  <1>3. QED
    BY <1>1, <1>2 DEF SnapshotUnsettled

\* A worker fails, or its lock expires: its row waits again or is dead.
LEMMA SnapshotFaultStep ==
    ASSUME BoardInv, NEW w \in Workers, Board!Fail(w) \/ Board!LockExpires(w)
    PROVE  BoardInv'
  <1>1. CASE Board!Fail(w)
    <2>1. /\ hand' = [hand EXCEPT ![w] = Board!Idle]
          /\ \/ hand[w].owns /\ SnapshotUnsettled
             \/ ~hand[w].owns /\ snapshots' = snapshots /\ boardLapsed' = boardLapsed
          /\ lostPut' = (lostPut \/ hand[w].stage = "put")
          /\ UNCHANGED <<boardLesson, board, object, deletion, boardOverlap>>
      BY <1>1 DEF Board!Fail, Board!Unsettled, SnapshotUnsettled
    <2>2. Board!Idle \in HandRow /\ Board!Idle.stage = "idle"
      BY DEF HandRow, Board!Idle
    <2>3. /\ hand' \in [Workers -> HandRow] /\ hand'[w] = Board!Idle
          /\ \A v \in Workers : v # w => hand'[v] = hand[v]
      BY <2>1, <2>2, HandNext DEF BoardInv
    <2>4. /\ snapshots' \in Nat /\ boardLapsed' \in BOOLEAN /\ (~boardLapsed' => ~boardLapsed)
          /\ hand[w].owns => snapshots' > 0 \/ boardLapsed'
          /\ snapshots > 0 => snapshots' > 0
      <3>1. snapshots \in Nat /\ boardLapsed \in BOOLEAN
        BY DEF BoardInv, BoardType
      <3>2. CASE hand[w].owns
        BY <2>1, <3>1, <3>2, UnsettledRow
      <3>3. CASE ~hand[w].owns
        BY <2>1, <3>1, <3>3
      <3>4. QED
        BY <3>2, <3>3
    <2>5. BoardType' /\ SceneInv' /\ GoneInv'
      BY <2>1, <2>2, <2>3, <2>4 DEF BoardInv, BoardType, SceneInv, GoneInv, Holds
    <2>6. ObjectInv'
      BY <2>1, <2>3 DEF BoardInv, ObjectInv
    <2>7. SnapshotInv'
      BY <2>1, <2>2, <2>3 DEF BoardInv, SnapshotInv, Holds, Board!UpToDate
    <2>8. PendingInv'
      BY <2>1, <2>3, <2>4 DEF BoardInv, PendingInv, Holds, Board!UpToDate
    <2>9. QED
      BY <2>5, <2>6, <2>7, <2>8 DEF BoardInv
  <1>2. CASE Board!LockExpires(w)
    <2> DEFINE next == [hand[w] EXCEPT !.owns = FALSE]
    <2>1. /\ hand' = [hand EXCEPT ![w] = next] /\ SnapshotUnsettled
          /\ UNCHANGED <<boardLesson, board, object, deletion, lostPut, boardOverlap>>
      BY <1>2 DEF Board!LockExpires, Board!Unsettled, SnapshotUnsettled, BoardInv, BoardType
    <2>2. next \in HandRow /\ next.stage = hand[w].stage /\ next.version = hand[w].version
      BY DEF BoardInv, BoardType, HandRow
    <2> HIDE DEF next
    <2>3. /\ hand' \in [Workers -> HandRow] /\ hand'[w] = next
          /\ \A v \in Workers : v # w => hand'[v] = hand[v]
      BY <2>1, <2>2, HandNext DEF BoardInv
    <2>4. \A v \in Workers : /\ hand'[v].stage = hand[v].stage /\ hand'[v].version = hand[v].version
                             /\ Holds(v)' <=> Holds(v)
      BY <2>2, <2>3 DEF Holds
    <2>5. snapshots' \in Nat /\ boardLapsed' \in BOOLEAN /\ (snapshots' > 0 \/ boardLapsed')
      BY <2>1, UnsettledRow DEF BoardInv, BoardType
    <2>6. BoardType' /\ SceneInv' /\ GoneInv'
      BY <2>1, <2>3, <2>4, <2>5 DEF BoardInv, BoardType, SceneInv, GoneInv
    <2>7. ObjectInv' /\ SnapshotInv' /\ PendingInv'
      BY <2>1, <2>4, <2>5 DEF BoardInv, ObjectInv, SnapshotInv, PendingInv, Board!UpToDate
    <2>8. QED
      BY <2>6, <2>7 DEF BoardInv
  <1>3. QED
    BY <1>1, <1>2

LEMMA BoardStep == ASSUME BoardInv, BoardNext PROVE BoardInv'
  BY BoardLessonStep, BoardOpenStep, SaveSceneStep, ClaimStep, ReadStep, PutObjectStep,
     MarkSnapshotStep, SnapshotFaultStep
     DEF BoardNext

LEMMA BoardKept == ASSUME BoardInv, UNCHANGED boardState PROVE BoardInv'
  <1>1. UNCHANGED <<boardLesson, board, snapshots, hand, object, deletion, lostPut, boardOverlap, boardLapsed>>
    BY DEF boardState
  <1>2. BoardType' /\ SceneInv' /\ GoneInv' /\ ObjectInv'
    BY <1>1 DEF BoardInv, BoardType, SceneInv, GoneInv, ObjectInv, Holds
  <1>3. SnapshotInv' /\ PendingInv'
    BY <1>1 DEF BoardInv, SnapshotInv, PendingInv, Holds, Board!UpToDate
  <1>4. QED
    BY <1>2, <1>3 DEF BoardInv

LEMMA BoardInvariant == Spec => []BoardInv
  <1>1. Init => BoardInv
    BY BoardInit
  <1>2. BoardInv /\ [Next]_vars => BoardInv'
    BY PartsAlone, BoardStep, BoardKept
  <1>3. QED
    BY <1>1, <1>2, PTL DEF Spec

\* An element of the board goes forward with every save.
LEMMA SceneGoesForward ==
    ASSUME BoardInv, BoardNext, boardLesson' # "gone", NEW i \in DOMAIN board.scene
    PROVE  LET old == board.scene[i]
               new == Board!HeaderOf(board'.scene, old.id)
           IN  IF new = Nothing
               THEN /\ Len(board'.scene) = MaxElements
                    /\ \E e \in Elements : e.id = old.id /\ e.deleted
                                           /\ (e = old \/ Board!Newer(old, e))
               ELSE new = old \/ Board!Newer(old, new)
  <1> DEFINE old == board.scene[i]
  <1>1. board.scene \in Seq(Elements) /\ Board!WellFormed(board.scene) /\ old \in Elements
    BY DEF BoardInv, BoardType, BoardRow, SceneInv
  <1>2. CASE board'.scene = board.scene
    <2>1. Board!HeaderOf(board'.scene, old.id) = old
      BY <1>1, <1>2, HeaderIsThere
    <2>2. QED
      BY <1>1, <2>1, BoardConstants
  <1>3. ASSUME NEW r \in BoardRequests, NEW incoming \in Drawings, Board!SaveScene(r, incoming)
        PROVE  LET new == Board!HeaderOf(board'.scene, old.id)
               IN  IF new = Nothing
                   THEN /\ Len(board'.scene) = MaxElements
                        /\ \E e \in Elements : e.id = old.id /\ e.deleted
                                               /\ (e = old \/ Board!Newer(old, e))
                   ELSE new = old \/ Board!Newer(old, new)
    <2>1. PICK merged \in Board!Merge(board.scene, incoming) :
              \E drawn \in Board!Fit(merged) :
                  board' = [board EXCEPT !.scene = drawn, !.version = board.version + 1]
      BY <1>3, Zenon DEF Board!SaveScene
    <2>2. PICK fitted \in Board!Fit(merged) :
              board' = [board EXCEPT !.scene = fitted, !.version = board.version + 1]
      BY <2>1, Zenon
    <2>3. board'.scene = fitted
      BY <2>2 DEF BoardInv, BoardType, BoardRow
    <2>4. incoming \in Seq(Elements) /\ Board!WellFormed(incoming)
      BY <1>3, BoardConstants DEF Board!SaveScene
    <2>5. merged \in Seq(Elements) /\ Board!WellFormed(merged)
      BY <1>1, <2>4, MergeGoesForward
    <2>6. PICK k \in DOMAIN merged : merged[k].id = old.id
                                     /\ (merged[k] = old \/ Board!Newer(old, merged[k]))
      BY <1>1, <2>4, MergeGoesForward
    <2>7. /\ fitted \in Seq(Elements) /\ Board!WellFormed(fitted)
          /\ \A l \in DOMAIN fitted : \E j \in DOMAIN merged : fitted[l] = merged[j]
          /\ \/ \E l \in DOMAIN fitted : fitted[l] = merged[k]
             \/ /\ merged[k].deleted /\ Len(fitted) = MaxElements
                /\ \A l \in DOMAIN fitted : fitted[l] # merged[k]
      BY <2>5, FitDropsTombstones
    <2>8. merged[k] \in Elements
      BY <2>5
    <2>9. CASE \E l \in DOMAIN fitted : fitted[l] = merged[k]
      <3>1. Board!HeaderOf(fitted, old.id) = merged[k]
        BY <2>6, <2>7, <2>9, HeaderIsThere
      <3>2. QED
        BY <2>3, <2>6, <2>8, <3>1, BoardConstants
    <2>10. CASE \A l \in DOMAIN fitted : fitted[l] # merged[k]
      <3>1. \A l \in DOMAIN fitted : fitted[l].id # old.id
        <4>1. SUFFICES ASSUME NEW l \in DOMAIN fitted, fitted[l].id = old.id PROVE FALSE
          OBVIOUS
        <4>2. PICK j \in DOMAIN merged : fitted[l] = merged[j]
          BY <2>7
        <4>3. j = k
          BY <2>5, <2>6, <4>1, <4>2 DEF Board!WellFormed
        <4>4. QED
          BY <2>10, <4>2, <4>3
      <3>2. Board!HeaderOf(fitted, old.id) = Nothing
        BY <2>7, <3>1, HeaderIsElement
      <3>3. QED
        BY <2>3, <2>6, <2>7, <2>8, <2>10, <3>2
    <2>11. QED
      BY <2>9, <2>10
  <1>4. ASSUME \A r \in BoardRequests, incoming \in Drawings : ~Board!SaveScene(r, incoming)
        PROVE  board'.scene = board.scene
    <2>1. CASE Board!CancelLesson
      BY <2>1 DEF Board!CancelLesson
    <2>2. CASE \E r \in BoardRequests : Board!OpenWhiteboard(r)
      BY <2>2 DEF Board!OpenWhiteboard, BoardInv, BoardType, BoardRow
    <2>3. CASE \E w \in Workers : Board!MarkSnapshot(w)
      BY <2>3 DEF Board!MarkSnapshot, BoardInv, BoardType, BoardRow
    <2>4. CASE Board!Start \/ Board!Close \/ Board!RoomFinished \/ Board!DeleteObject
      BY <2>4 DEF Board!Start, Board!Close, Board!RoomFinished, Board!DeleteObject
    <2>5. CASE \E r \in BoardRequests : Board!Admit(r) \/ Board!Refuse(r)
      BY <2>5 DEF Board!Admit, Board!Refuse
    <2>6. CASE \E w \in Workers : \/ Board!Claim(w) \/ Board!Read(w) \/ Board!PutObject(w)
                                 \/ Board!Fail(w) \/ Board!LockExpires(w)
      BY <2>6 DEF Board!Claim, Board!Read, Board!PutObject, Board!Fail, Board!LockExpires
    <2>7. QED
      BY <1>4, <2>1, <2>2, <2>3, <2>4, <2>5, <2>6 DEF BoardNext
  <1>5. QED
    BY <1>2, <1>3, <1>4

\* However saves, snapshots, faults and the end of the lesson interleave: an
\* element of the board never goes back and leaves only as a tombstone for which
\* there is no room; the object of a cancelled lesson is on its way out; and when
\* no snapshot waits or runs and none is dead, storage has the last scene
\* (store/whiteboards.go, worker/whiteboard.go).
THEOREM BoardsCorrect == Spec => Boards
  <1>1. BoardInv => Board!NoOrphan
    BY DEF BoardInv, GoneInv, ObjectInv, Board!NoOrphan
  <1>2. BoardInv => Board!QuiescentIsFresh
    <2>1. SUFFICES ASSUME BoardInv, snapshots = 0, \A w \in Workers : hand[w].stage = "idle",
                          ~boardOverlap, ~boardLapsed, board.exists, board.version > 0
                   PROVE  object = board.version /\ board.key /\ board.marked = board.version
      BY DEF Board!QuiescentIsFresh
    <2>2. \A w \in Workers : hand[w].stage # "claimed" /\ ~Holds(w)
      BY <2>1 DEF Holds
    <2>3. Board!UpToDate(board)
      BY <2>1, <2>2 DEF BoardInv, PendingInv
    <2>4. board.version \in Nat /\ board.marked \in Nat
      BY <2>1 DEF BoardInv, BoardType, BoardRow
    <2>5. QED
      BY <2>1, <2>3, <2>4 DEF BoardInv, SnapshotInv, Board!UpToDate
  <1>3. BoardInv /\ [Next]_vars =>
            [boardLesson' # "gone" =>
                \A i \in DOMAIN board.scene :
                    LET old == board.scene[i]
                        new == Board!HeaderOf(board'.scene, old.id)
                    IN  IF new = Nothing
                        THEN /\ Len(board'.scene) = MaxElements
                             /\ \E e \in Elements : e.id = old.id /\ e.deleted
                                                    /\ (e = old \/ Board!Newer(old, e))
                        ELSE new = old \/ Board!Newer(old, new)]_(Board!vars)
    <2>1. SUFFICES ASSUME BoardInv, [Next]_vars
                   PROVE  \/ boardLesson' # "gone" =>
                                \A i \in DOMAIN board.scene :
                                    LET old == board.scene[i]
                                        new == Board!HeaderOf(board'.scene, old.id)
                                    IN  IF new = Nothing
                                        THEN /\ Len(board'.scene) = MaxElements
                                             /\ \E e \in Elements :
                                                    /\ e.id = old.id /\ e.deleted
                                                    /\ (e = old \/ Board!Newer(old, e))
                                        ELSE new = old \/ Board!Newer(old, new)
                          \/ UNCHANGED Board!vars
      OBVIOUS
    <2>2. CASE BoardNext
      BY <2>1, <2>2, SceneGoesForward
    <2>3. CASE UNCHANGED boardState
      BY <2>3 DEF boardState, Board!vars
    <2>4. QED
      BY <2>1, <2>2, <2>3, PartsAlone
  <1>4. QED
    BY <1>1, <1>2, <1>3, BoardInvariant, PTL DEF Spec, Boards, Board!SceneForward

-----------------------------------------------------------------------------
\* The types, with the bounds of what is counted

BoardBounds ==
    /\ Len(board.scene) <= MaxElements
    /\ board.version <= SaveLimit /\ board.marked <= SaveLimit /\ object <= SaveLimit
    /\ \A w \in Workers : hand[w].version <= SaveLimit
    /\ admitted \subseteq BoardRequests

LEMMA BoardBoundsInit == ASSUME Init PROVE BoardBounds
  <1>1. /\ board = Board!NoBoard /\ object = 0 /\ admitted = {}
        /\ hand = [w \in Workers |-> Board!Idle]
    BY DEF Init, Board!Init
  <1>2. SaveLimit \in Nat /\ MaxElements \in Nat
    BY RequestsAssumption DEF Board!WhiteboardAssumption
  <1>3. QED
    BY <1>1, <1>2 DEF BoardBounds, Board!NoBoard, Board!Idle

LEMMA BoardBoundsStep == ASSUME BoardInv, BoardBounds, BoardNext PROVE BoardBounds'
  <1>1. /\ SaveLimit \in Nat /\ MaxElements \in Nat
        /\ Drawings \subseteq Seq(Elements)
    BY RequestsAssumption DEF Board!WhiteboardAssumption
  <1>2. /\ board \in BoardRow /\ object \in Nat /\ hand \in [Workers -> HandRow]
        /\ Board!WellFormed(board.scene)
    BY DEF BoardInv, BoardType, SceneInv
  <1>3. CASE Board!Start \/ Board!Close \/ Board!RoomFinished
    BY <1>3 DEF Board!Start, Board!Close, Board!RoomFinished, BoardBounds
  <1>4. CASE Board!CancelLesson
    BY <1>1, <1>4 DEF Board!CancelLesson, Board!NoBoard, BoardBounds
  <1>5. CASE Board!DeleteObject
    BY <1>1, <1>5 DEF Board!DeleteObject, BoardBounds
  <1>6. CASE \E r \in BoardRequests : Board!Admit(r) \/ Board!Refuse(r)
    BY <1>6 DEF Board!Admit, Board!Refuse, BoardBounds
  <1>7. CASE \E r \in BoardRequests : Board!OpenWhiteboard(r)
    <2>1. /\ board' = [board EXCEPT !.exists = TRUE] /\ admitted' \subseteq admitted
          /\ UNCHANGED <<hand, object>>
      BY <1>7 DEF Board!OpenWhiteboard
    <2>2. board'.scene = board.scene /\ board'.version = board.version /\ board'.marked = board.marked
      BY <1>2, <2>1 DEF BoardRow
    <2>3. QED
      BY <2>1, <2>2 DEF BoardBounds
  <1>8. ASSUME NEW r \in BoardRequests, NEW incoming \in Drawings, Board!SaveScene(r, incoming)
        PROVE  BoardBounds'
    <2>1. PICK merged \in Board!Merge(board.scene, incoming) :
              \E drawn \in Board!Fit(merged) :
                  board' = [board EXCEPT !.scene = drawn, !.version = board.version + 1]
      BY <1>8, Zenon DEF Board!SaveScene
    <2>2. PICK fitted \in Board!Fit(merged) :
              board' = [board EXCEPT !.scene = fitted, !.version = board.version + 1]
      BY <2>1, Zenon
    <2>3. merged \in Seq(Elements) /\ Board!WellFormed(merged)
      BY <1>2, <1>8, MergeGoesForward, BoardConstants DEF BoardRow, Board!SaveScene
    <2>4. Len(fitted) <= MaxElements
      BY <2>3, FitDropsTombstones
    <2>5. board'.scene = fitted /\ board'.version = board.version + 1 /\ board'.marked = board.marked
      BY <1>2, <2>2 DEF BoardRow
    <2>6. board.version < SaveLimit /\ admitted' \subseteq admitted /\ UNCHANGED <<hand, object>>
      BY <1>8 DEF Board!SaveScene
    <2>7. board.version \in Nat
      BY <1>2 DEF BoardRow
    <2>8. QED
      BY <1>1, <2>4, <2>5, <2>6, <2>7 DEF BoardBounds
  <1>9. ASSUME NEW w \in Workers, Board!Claim(w) PROVE BoardBounds'
    <2> DEFINE mid == [Board!Idle EXCEPT !.stage = "claimed"]
               next == [mid EXCEPT !.owns = TRUE]
    <2>1. hand' = [hand EXCEPT ![w] = next] /\ UNCHANGED <<board, object, admitted>>
      BY <1>9 DEF Board!Claim
    <2>2. next.version = 0
      BY DEF Board!Idle
    <2> HIDE DEF next
    <2>3. \A v \in Workers : hand'[v].version <= SaveLimit
      BY <1>1, <1>2, <2>1, <2>2 DEF BoardBounds
    <2>4. QED
      BY <2>1, <2>3 DEF BoardBounds
  <1>10. ASSUME NEW w \in Workers, Board!Read(w) PROVE BoardBounds'
    <2> DEFINE was == hand[w]
               mid == [was EXCEPT !.stage = "read"]
               next == [mid EXCEPT !.version = board.version]
    <2>1. /\ hand' = [hand EXCEPT ![w] = Board!Idle] \/ hand' = [hand EXCEPT ![w] = next]
          /\ UNCHANGED <<board, object, admitted>>
      BY <1>10 DEF Board!Read
    <2>2. next.version = board.version /\ Board!Idle.version = 0
      BY <1>2 DEF HandRow, Board!Idle
    <2> HIDE DEF next
    <2>3. \A v \in Workers : hand'[v].version <= SaveLimit
      BY <1>1, <1>2, <2>1, <2>2 DEF BoardBounds
    <2>4. QED
      BY <2>1, <2>3 DEF BoardBounds
  <1>11. ASSUME NEW w \in Workers, Board!PutObject(w) PROVE BoardBounds'
    <2>1. /\ object' = hand[w].version /\ hand' = [hand EXCEPT ![w].stage = "put"]
          /\ UNCHANGED <<board, admitted>>
      BY <1>11 DEF Board!PutObject
    <2>2. \A v \in Workers : hand'[v].version = hand[v].version
      BY <1>2, <2>1 DEF HandRow
    <2>3. QED
      BY <2>1, <2>2 DEF BoardBounds
  <1>12. ASSUME NEW w \in Workers, Board!MarkSnapshot(w) PROVE BoardBounds'
    <2>1. /\ board' = [board EXCEPT !.key = TRUE, !.marked = hand[w].version] \/ board' = board
          /\ hand' = [hand EXCEPT ![w] = Board!Idle] /\ UNCHANGED <<object, admitted>>
      BY <1>12 DEF Board!MarkSnapshot
    <2>2. /\ board'.scene = board.scene /\ board'.version = board.version
          /\ board'.marked \in {board.marked, hand[w].version}
      BY <1>2, <2>1 DEF BoardRow
    <2>3. \A v \in Workers : hand'[v].version \in {0, hand[v].version}
      BY <1>2, <2>1 DEF Board!Idle
    <2>4. QED
      BY <1>1, <2>1, <2>2, <2>3 DEF BoardBounds
  <1>13. ASSUME NEW w \in Workers, Board!Fail(w) \/ Board!LockExpires(w) PROVE BoardBounds'
    <2>1. /\ hand' = [hand EXCEPT ![w] = Board!Idle] \/ hand' = [hand EXCEPT ![w].owns = FALSE]
          /\ UNCHANGED <<board, object, admitted>>
      BY <1>13 DEF Board!Fail, Board!LockExpires
    <2>2. \A v \in Workers : hand'[v].version \in {0, hand[v].version}
      BY <1>2, <2>1 DEF Board!Idle, HandRow
    <2>3. QED
      BY <1>1, <2>1, <2>2 DEF BoardBounds
  <1>14. QED
    BY <1>3, <1>4, <1>5, <1>6, <1>7, <1>8, <1>9, <1>10, <1>11, <1>12, <1>13 DEF BoardNext

LEMMA BoardTypes == Spec => []Board!TypeOK
  <1>1. BoardBounds /\ UNCHANGED boardState => BoardBounds'
    BY DEF boardState, BoardBounds
  <1>2. BoardInv /\ BoardBounds /\ [Next]_vars => BoardBounds'
    BY <1>1, BoardBoundsStep, PartsAlone
  <1>3. BoardInv /\ BoardBounds => Board!TypeOK
    BY RequestsAssumption
       DEF Board!WhiteboardAssumption, BoardInv, BoardType, BoardRow, HandRow, BoardBounds, Board!TypeOK
  <1>4. QED
    BY BoardBoundsInit, BoardInvariant, <1>2, <1>3, PTL DEF Spec


MaterialBounds ==
    /\ {etag, upload, file} \subseteq Material!Contents \cup {Nothing}
    /\ fileFaults \in 0..FileFaults

LEMMA MaterialBoundsStep == ASSUME MaterialType, MaterialBounds, MaterialNext PROVE MaterialBounds'
  <1> USE FilesConstants DEF Material!MaterialsAssumption, MaterialBounds
  <1>1. CASE Material!Create \/ Material!StartLesson \/ Material!CancelLesson \/ Material!LinkExpires
    BY <1>1 DEF Material!Create, Material!StartLesson, Material!CancelLesson, Material!LinkExpires,
           Material!objects
  <1>2. CASE Material!LifecycleDropsUpload \/ Material!JobDropsUpload
    BY <1>2 DEF Material!LifecycleDropsUpload, Material!JobDropsUpload
  <1>3. CASE Material!JobDropsFile \/ Material!JobRetries
    BY <1>3 DEF Material!JobDropsFile, Material!JobRetries, Material!objects
  <1>4. CASE \E c \in Material!Contents : Material!Put(c)
    BY <1>4 DEF Material!Put
  <1>5. CASE \E r \in Requests : \/ Material!LoadToConfirm(r) \/ Material!CheckUpload(r)
                                 \/ Material!CheckFile(r) \/ Material!LoadToRemove(r)
                                 \/ Material!DeleteRow(r)
    BY <1>5 DEF Material!LoadToConfirm, Material!CheckUpload, Material!CheckFile,
           Material!LoadToRemove, Material!DeleteRow, Material!objects
  <1>6. CASE \E r \in Requests : \/ Material!CopyUpload(r) \/ Material!DropConfirmedUpload(r)
                                 \/ Material!RemoveUpload(r) \/ Material!RemoveFile(r)
    BY <1>6 DEF Material!CopyUpload, Material!DropConfirmedUpload, Material!RemoveUpload,
           Material!RemoveFile
  <1>7. CASE \E r \in Requests : Material!ConfirmRow(r)
    <2>1. PICK r \in Requests : Material!ConfirmRow(r)
      BY <1>7
    <2>2. /\ etag' \in {etag, transfer[r].tag} /\ UNCHANGED <<upload, file, fileFaults>>
      BY <2>1 DEF Material!ConfirmRow, Material!objects
    <2>3. transfer[r].tag \in Declared \cup {Nothing}
      BY DEF MaterialType, TransferType
    <2>4. QED
      BY <2>2, <2>3 DEF Material!Contents
  <1>8. CASE \E r \in Requests : Material!RemovalFails(r) \/ Material!Abort(r)
    BY <1>8 DEF Material!RemovalFails, Material!Abort, Material!objects
  <1>9. QED
    BY <1>1, <1>2, <1>3, <1>4, <1>5, <1>6, <1>7, <1>8 DEF MaterialNext

LEMMA MaterialTypes == Spec => []Material!TypeOK
  <1>1. Init => MaterialBounds
    BY FilesConstants DEF Init, Material!Init, MaterialBounds, Material!MaterialsAssumption
  <1>2. MaterialBounds /\ UNCHANGED materialState => MaterialBounds'
    BY DEF materialState, MaterialBounds
  <1>3. FilesInv /\ MaterialBounds /\ [Next]_vars => MaterialBounds'
    BY <1>2, MaterialBoundsStep, PartsAlone DEF FilesInv
  <1>4. FilesInv /\ MaterialBounds => Material!TypeOK
    BY DEF FilesInv, MaterialType, TransferType, MaterialBounds, Material!TypeOK
  <1>5. QED
    BY <1>1, FilesInvariant, <1>3, <1>4, PTL DEF Spec


AccountBounds ==
    /\ edits \in 0..EditLimit
    /\ \A u \in Account!Users : user[u].epoch <= edits
    /\ members \subseteq Account!Users

LEMMA AccountBoundsStep == ASSUME AccountType, AccountBounds, AccountNext PROVE AccountBounds'
  <1>1. EditLimit \in Nat /\ Grouped \subseteq Account!Users
    BY AccountConstants DEF Account!AccountsAssumption
  <1>2. /\ user \in [Account!Users -> UserRow] /\ edits \in Nat
        /\ \A u \in Account!Users : user[u].epoch \in Nat
        /\ \A r \in Requests : entry[r].target \in Account!Users /\ entry[r].role \in Account!Roles
    BY <1>1 DEF AccountType, UserRow, AccountBounds
  <1>3. ASSUME UNCHANGED user, members' \subseteq Account!Users,
               \/ edits' = edits
               \/ edits < EditLimit /\ edits' = edits + 1
        PROVE  AccountBounds'
    BY <1>1, <1>2, <1>3 DEF AccountBounds
  <1>4. CASE Account!InviteEnds \/ \E s \in sessions : Account!SessionEnds(s)
    BY <1>3, <1>4 DEF AccountBounds, Account!InviteEnds, Account!SessionEnds, Account!bounds
  <1>5. CASE \E r \in Requests : \/ Account!Authorize(r) \/ Account!OpenSession(r)
                                 \/ Account!GivesUp(r) \/ Account!CheckLogin(r, Invitee)
    BY <1>3, <1>5 DEF AccountBounds, Account!Authorize, Account!OpenSession, Account!GivesUp,
           Account!CheckLogin, Account!bounds
  <1>6. CASE \E r \in Requests, u, target \in Account!Users, ask \in Asked :
                 Account!Enter(r, u, ask[1], target, ask[2])
    BY <1>3, <1>6 DEF AccountBounds, Account!Enter, Account!bounds
  <1>7. CASE \E u \in {Owner, Colleague}, role \in InvitedRoles, joins \in BOOLEAN :
                 Account!CreateInvite(u, role, joins)
    BY <1>3, <1>7 DEF AccountBounds, Account!CreateInvite, Account!Edits
  <1>8. CASE \E u \in {Owner, Colleague}, target \in Grouped : Account!ChangeGroup(u, target)
    BY <1>1, <1>3, <1>8 DEF AccountBounds, Account!ChangeGroup, Account!Edits
  <1>9. ASSUME NEW t \in Account!Users, NEW next, user' = [user EXCEPT ![t] = next],
               next.epoch \in {user[t].epoch, user[t].epoch + 1}, members' \subseteq Account!Users,
               \/ edits' = edits /\ next.epoch = user[t].epoch
               \/ edits < EditLimit /\ edits' = edits + 1
        PROVE  AccountBounds'
    <2>1. user'[t] = next /\ \A u \in Account!Users : u # t => user'[u] = user[u]
      BY <1>2, <1>9
    <2>2. QED
      BY <1>1, <1>2, <1>9, <2>1 DEF AccountBounds
  <1>10. CASE Account!AcceptInvite
    <2> DEFINE mid == [user[Invitee] EXCEPT !.exists = TRUE]
               next == [mid EXCEPT !.role = invite.role]
    <2>1. /\ user' = [user EXCEPT ![Invitee] = next] /\ edits' = edits
          /\ members' \subseteq members \cup {Invitee} /\ Invitee \in Account!Users
      BY <1>2, <1>10 DEF Account!AcceptInvite, Account!bounds, Account!Users
    <2>2. next.epoch = user[Invitee].epoch
      BY <1>2, <2>1 DEF UserRow
    <2> HIDE DEF next
    <2>3. QED
      BY <1>9, <2>1, <2>2 DEF AccountBounds
  <1>11. CASE \E u \in {Owner, Colleague}, role \in NewRoles : Account!CreateUser(u, role)
    <2>1. PICK u \in {Owner, Colleague}, role \in NewRoles : Account!CreateUser(u, role)
      BY <1>11
    <2> DEFINE mid == [user[Invitee] EXCEPT !.exists = TRUE]
               next == [mid EXCEPT !.role = role]
    <2>2. /\ user' = [user EXCEPT ![Invitee] = next] /\ edits < EditLimit /\ edits' = edits + 1
          /\ members' = members /\ Invitee \in Account!Users
      BY <1>2, <2>1 DEF Account!CreateUser, Account!Edits, Account!Users
    <2>3. next.epoch = user[Invitee].epoch
      BY <1>2, <2>2 DEF UserRow
    <2> HIDE DEF next
    <2>4. QED
      BY <1>9, <2>2, <2>3 DEF AccountBounds
  <1>12. ASSUME NEW r \in Requests, Account!SetPassword(r) PROVE AccountBounds'
    <2> DEFINE t == entry[r].target
               next == [user[t] EXCEPT !.epoch = user[t].epoch + 1]
    <2>1. /\ user' = [user EXCEPT ![t] = next] /\ edits < EditLimit /\ edits' = edits + 1
          /\ members' = members /\ t \in Account!Users
      BY <1>2, <1>12 DEF Account!SetPassword, Account!Writes
    <2>2. next.epoch = user[t].epoch + 1
      BY <1>2, <2>1 DEF UserRow
    <2> HIDE DEF next
    <2>3. QED
      BY <1>9, <2>1, <2>2 DEF AccountBounds
  <1>13. ASSUME NEW r \in Requests, Account!UpdateUserProfile(r) PROVE AccountBounds'
    <2> DEFINE t == entry[r].target
               next == [user[t] EXCEPT !.role = entry[r].role]
    <2>1. /\ user' = [user EXCEPT ![t] = next] /\ edits < EditLimit /\ edits' = edits + 1
          /\ members' = members /\ t \in Account!Users
      BY <1>2, <1>13 DEF Account!UpdateUserProfile, Account!Writes
    <2>2. next.epoch = user[t].epoch
      BY <1>2, <2>1 DEF UserRow
    <2> HIDE DEF next
    <2>3. QED
      BY <1>9, <2>1, <2>2 DEF AccountBounds
  <1>14. ASSUME NEW r \in Requests, Account!DeactivateUser(r) PROVE AccountBounds'
    <2> DEFINE t == entry[r].target
               mid == [user[t] EXCEPT !.archived = TRUE]
               next == [mid EXCEPT !.epoch = user[t].epoch + 1]
    <2>1. /\ user' = [user EXCEPT ![t].archived = TRUE, ![t].epoch = @ + 1]
          /\ edits < EditLimit /\ edits' = edits + 1
          /\ members' = members /\ t \in Account!Users
      BY <1>2, <1>14 DEF Account!DeactivateUser, Account!Writes
    <2>2. /\ \A u \in Account!Users : u # t => user'[u] = user[u]
          /\ user'[t].epoch = user[t].epoch + 1
      BY <1>2, <2>1 DEF UserRow
    <2>3. QED
      BY <1>1, <1>2, <2>1, <2>2 DEF AccountBounds
  <1>15. ASSUME NEW r \in Requests, Account!ReactivateUser(r) PROVE AccountBounds'
    <2> DEFINE t == entry[r].target
               next == [user[t] EXCEPT !.archived = FALSE]
    <2>1. /\ user' = [user EXCEPT ![t] = next] /\ edits < EditLimit /\ edits' = edits + 1
          /\ members' = members /\ t \in Account!Users
      BY <1>2, <1>15 DEF Account!ReactivateUser, Account!Writes
    <2>2. next.epoch = user[t].epoch
      BY <1>2, <2>1 DEF UserRow
    <2> HIDE DEF next
    <2>3. QED
      BY <1>9, <2>1, <2>2 DEF AccountBounds
  <1>16. QED
    BY <1>4, <1>5, <1>6, <1>7, <1>8, <1>10, <1>11, <1>12, <1>13, <1>14, <1>15 DEF AccountNext

LEMMA AccountTypes == Spec => []Account!TypeOK
  <1>1. ASSUME Init PROVE AccountBounds
    <2>1. Account!Init
      BY <1>1 DEF Init
    <2>2. PICK colleague \in {"admin", "teacher"}, enrolled \in BOOLEAN :
              /\ user = [u \in Account!Users |->
                     [Account!Absent EXCEPT !.exists = u # Invitee \/ enrolled,
                         !.role = IF u = Owner THEN "admin"
                                  ELSE IF u = Colleague THEN colleague ELSE @]]
              /\ members = {u \in Account!Users : user[u].exists /\ user[u].role # "admin"}
      BY <2>1, Zenon DEF Account!Init
    <2>3. \A u \in Account!Users : user[u].epoch = 0
      BY <2>2, AccountConstants DEF Account!AccountsAssumption, Account!Absent, Account!Users
    <2>4. members \subseteq Account!Users /\ edits = 0
      <3>1. members \subseteq Account!Users
        BY <2>2, Zenon
      <3>2. edits = 0
        BY <2>1, Zenon DEF Account!Init
      <3>3. QED
        BY <3>1, <3>2
    <2>5. QED
      BY <2>3, <2>4, AccountConstants DEF AccountBounds, Account!AccountsAssumption
  <1>2. AccountBounds /\ UNCHANGED accountState => AccountBounds'
    BY DEF accountState, AccountBounds
  <1>3. LoginsInv /\ AccountBounds /\ [Next]_vars => AccountBounds'
    BY <1>2, AccountBoundsStep, PartsAlone DEF LoginsInv
  <1>4. LoginsInv /\ AccountBounds => Account!TypeOK
    BY AccountConstants
       DEF Account!AccountsAssumption, LoginsInv, AccountType, UserRow, AccountBounds, Account!TypeOK
  <1>5. QED
    BY <1>1, LoginsInvariant, <1>3, <1>4, PTL DEF Spec


EventBounds ==
    /\ clock \in 0..Horizon + Grace /\ event.end \in 1..Horizon
    /\ guestLink <= issued
    /\ \A r \in Requests : join[r].end <= Horizon
    /\ \A g \in Guests : expires[g] <= Horizon + Grace

LEMMA EventBoundsStep == ASSUME EventType, EventBounds, EventNext PROVE EventBounds'
  <1>1. Horizon \in Nat \ {0} /\ Grace \in Nat
    BY RequestsAssumption DEF Event!GuestAssumption
  <1>2. /\ event \in [status : {"scheduled", "live", "gone"}, end : Nat]
        /\ guestLink \in Nat /\ issued \in Nat
        /\ join \in [Requests -> JoinType] /\ expires \in [Guests -> Nat]
    BY DEF EventType
  <1>3. CASE Event!Tick \/ Event!IssueLink \/ Event!RevokeLink
    BY <1>1, <1>2, <1>3 DEF Event!Tick, Event!IssueLink, Event!RevokeLink, EventBounds
  <1>4. CASE Event!CancelLesson \/ Event!StartLesson
    BY <1>1, <1>2, <1>4 DEF Event!CancelLesson, Event!StartLesson, EventBounds
  <1>5. ASSUME NEW end \in 1..Horizon, Event!RescheduleLesson(end) PROVE EventBounds'
    <2>1. /\ event'.end = end /\ UNCHANGED <<clock, guestLink, issued, join>>
          /\ expires' = [g \in Guests |-> IF g \in guests /\ expires[g] # 0 THEN end + Grace ELSE expires[g]]
      BY <1>2, <1>5 DEF Event!RescheduleLesson, Event!MovedSessions
    <2>2. \A g \in Guests : expires'[g] \in {end + Grace, expires[g]}
      BY <2>1
    <2>3. QED
      BY <1>1, <1>5, <2>1, <2>2 DEF EventBounds
  <1>6. ASSUME NEW g \in Guests, Event!Cleanup(g) PROVE EventBounds'
    BY <1>1, <1>2, <1>6 DEF Event!Cleanup, EventBounds
  <1>7. ASSUME NEW r \in Requests, NEW end \in 0..Horizon,
               \A q \in Requests : join'[q].end \in {end, join[q].end},
               UNCHANGED <<clock, event, guestLink, issued, expires>>
        PROVE  EventBounds'
    BY <1>1, <1>7 DEF EventBounds
  <1>8. ASSUME NEW r \in Requests, NEW n \in 1..issued, Event!Follow(r, n) PROVE EventBounds'
    <2> DEFINE mid == [Event!Free EXCEPT !.at = "came"]
               next == [mid EXCEPT !.link = n]
    <2>1. join' = [join EXCEPT ![r] = next] /\ UNCHANGED <<clock, event, guestLink, issued, expires>>
      BY <1>8 DEF Event!Follow
    <2>2. next.end = 0
      BY DEF Event!Free
    <2> HIDE DEF next
    <2>3. \A q \in Requests : join'[q].end \in {0, join[q].end}
      BY <1>2, <2>1, <2>2
    <2>4. QED
      BY <1>1, <1>7, <2>1, <2>3
  <1>9. ASSUME NEW r \in Requests, Event!LockLesson(r) PROVE EventBounds'
    <2> DEFINE was == join[r]
               mid == [was EXCEPT !.at = "locked"]
               next == [mid EXCEPT !.end = event.end]
    <2>1. /\ join' = [join EXCEPT ![r] = next] \/ join' = [join EXCEPT ![r] = Event!Free]
          /\ UNCHANGED <<clock, event, guestLink, issued, expires>>
      BY <1>9 DEF Event!LockLesson
    <2>2. next.end = event.end /\ Event!Free.end = 0
      BY <1>2 DEF JoinType, Event!Free
    <2> HIDE DEF next
    <2>3. /\ \A q \in Requests : join'[q].end \in {event.end, join[q].end}
          \/ \A q \in Requests : join'[q].end \in {0, join[q].end}
      BY <1>2, <2>1, <2>2
    <2>4. QED
      BY <1>1, <1>7, <2>1, <2>3 DEF EventBounds
  <1>10. ASSUME NEW r \in Requests, Event!CountGuests(r) \/ Event!Rollback(r) PROVE EventBounds'
    <2> DEFINE was == join[r]
               next == [was EXCEPT !.at = "counted"]
    <2>1. /\ join' = [join EXCEPT ![r] = next] \/ join' = [join EXCEPT ![r] = Event!Free]
          /\ UNCHANGED <<clock, event, guestLink, issued, expires>>
      BY <1>10 DEF Event!CountGuests, Event!Rollback
    <2>2. next.end = join[r].end /\ Event!Free.end = 0
      BY <1>2 DEF JoinType, Event!Free
    <2> HIDE DEF next
    <2>3. \A q \in Requests : join'[q].end \in {0, join[q].end}
      BY <1>2, <2>1, <2>2
    <2>4. QED
      BY <1>1, <1>7, <2>1, <2>3
  <1>11. ASSUME NEW r \in Requests, NEW g \in Guests, Event!CommitJoin(r, g) PROVE EventBounds'
    <2>1. /\ expires' = [expires EXCEPT ![g] = join[r].end + Grace]
          /\ join' = [join EXCEPT ![r] = Event!Free]
          /\ UNCHANGED <<clock, event, guestLink, issued>>
      BY <1>11 DEF Event!CommitJoin
    <2>2. /\ \A q \in Requests : join'[q].end \in {0, join[q].end}
          /\ \A h \in Guests : expires'[h] \in {join[r].end + Grace, expires[h]}
      BY <1>2, <2>1 DEF Event!Free
    <2>3. join[r].end \in Nat
      BY <1>2 DEF JoinType
    <2>4. QED
      BY <1>1, <2>1, <2>2, <2>3 DEF EventBounds
  <1>12. QED
    BY <1>3, <1>4, <1>5, <1>6, <1>8, <1>9, <1>10, <1>11 DEF EventNext

LEMMA EventTypes == Spec => []Event!TypeOK
  <1>1. Init => EventBounds
    BY RequestsAssumption DEF Event!GuestAssumption, Init, Event!Init, Event!Free, EventBounds
  <1>2. EventBounds /\ UNCHANGED eventState => EventBounds'
    BY DEF eventState, EventBounds
  <1>3. EventInv /\ EventBounds /\ [Next]_vars => EventBounds'
    BY <1>2, EventBoundsStep, PartsAlone DEF EventInv
  <1>4. EventInv /\ EventBounds => Event!TypeOK
    BY RequestsAssumption DEF Event!GuestAssumption, EventInv, EventType, EventBounds, Event!TypeOK
  <1>5. QED
    BY <1>1, AccessInvariant, <1>3, <1>4, PTL DEF Spec

RoomBounds ==
    /\ archiving \in {"none", "listing", "removing"}
    /\ archives \in 0..ArchiveLimit /\ lostCalls \in 0..RoomFaults

LEMMA RoomBoundsStep == ASSUME RoomBounds, RoomNext PROVE RoomBounds'
  <1> USE RoomConstants DEF RoomBounds, Room!RoomAssumption, Room!person, Room!history
  <1>1. CASE Room!Tick \/ Room!StartRecording \/ Room!CloseLesson \/ Room!EnterRoom \/ Room!LeaveRoom
    BY <1>1 DEF Room!Tick, Room!StartRecording, Room!CloseLesson, Room!EnterRoom, Room!LeaveRoom
  <1>2. CASE Room!TokenExpires \/ Room!LoadSession \/ Room!SignToken \/ Room!RefuseToken
    BY <1>2 DEF Room!TokenExpires, Room!LoadSession, Room!SignToken, Room!RefuseToken
  <1>3. CASE Room!DeactivateUser \/ Room!ListLessons \/ Room!RemovalFails \/ Room!ReactivateUser
    BY <1>3 DEF Room!DeactivateUser, Room!ListLessons, Room!RemovalFails, Room!ReactivateUser
  <1>4. CASE Room!RemoveParticipant
    <2>1. archiving' = "none" /\ UNCHANGED <<archives, lostCalls>>
      BY <1>4 DEF Room!RemoveParticipant
    <2>2. QED
      BY <2>1
  <1>5. QED
    BY <1>1, <1>2, <1>3, <1>4 DEF RoomNext

LEMMA RoomTypes == Spec => []Room!TypeOK
  <1>1. Init => RoomBounds
    BY RoomConstants DEF Room!RoomAssumption, Init, Room!Init, RoomBounds
  <1>2. RoomBounds /\ UNCHANGED roomState => RoomBounds'
    BY DEF roomState, RoomBounds
  <1>3. RoomBounds /\ [Next]_vars => RoomBounds'
    BY <1>2, RoomBoundsStep, PartsAlone
  <1>4. RoomInv /\ RoomBounds => Room!TypeOK
    BY RoomPhases DEF RoomInv, RoomBounds, Room!TypeOK
  <1>5. QED
    BY <1>1, AccessInvariant, <1>3, <1>4, PTL DEF Spec


CardBounds ==
    /\ today <= CardHorizon /\ written <= ReviewLimit /\ added <= AddLimit
    /\ \A t \in Terms : itemOf[t] <= added
    /\ \A v \in reviews : v.id >= 1

LEMMA CardLimits == CardHorizon \in Nat /\ ReviewLimit \in Nat /\ AddLimit \in Nat
  BY RequestsAssumption DEF Card!VocabularyAssumption

LEMMA CardBoundsStep == ASSUME CardsType, CardBounds, CardNext PROVE CardBounds'
  <1>1. /\ today \in Nat /\ written \in Nat /\ added \in Nat /\ itemOf \in [Terms -> Nat]
        /\ \A v \in reviews : v.id \in Nat
    BY DEF CardsType, Review
  <1>2. CASE Card!Tick \/ Card!BackfillSRSCards
    BY <1>1, <1>2, CardLimits DEF Card!Tick, Card!BackfillSRSCards, CardBounds
  <1>3. CASE \E t \in Terms : Card!SaveByOldApi(t) \/ \E level \in {0, 3} : Card!SaveUserTerm(t, level)
    <2>1. /\ UNCHANGED <<today, written, itemOf, reviews>>
          /\ added' = added \/ (added < AddLimit /\ added' = added + 1)
      BY <1>3 DEF Card!SaveUserTerm, Card!SaveByOldApi
    <2>2. QED
      BY <1>1, <2>1, CardLimits DEF CardBounds
  <1>4. CASE \E t \in Terms : Card!DeleteUserTerm(t)
    <2>1. PICK t \in Terms : Card!DeleteUserTerm(t)
      BY <1>4
    <2>2. /\ UNCHANGED <<today, written, added>> /\ itemOf' = [itemOf EXCEPT ![t] = 0]
          /\ reviews' \subseteq reviews
      BY <2>1 DEF Card!DeleteUserTerm, Card!KeptReviews
    <2>3. QED
      BY <1>1, <2>2 DEF CardBounds
  <1>5. CASE \E t \in Terms : Card!CreateClozeItem(t)
    <2>1. PICK t \in Terms : Card!CreateClozeItem(t)
      BY <1>5
    <2>2. /\ UNCHANGED <<today, written, reviews>> /\ itemOf' = [itemOf EXCEPT ![t] = added + 1]
          /\ added < AddLimit /\ added' = added + 1
      BY <2>1 DEF Card!CreateClozeItem
    <2>3. QED
      BY <1>1, <2>2, CardLimits DEF CardBounds
  <1>6. CASE \E r \in Requests : \/ Card!LockCard(r) \/ Card!Rollback(r)
                                 \/ \E t \in Terms, key \in Keys, ask \in Rated :
                                        Card!Ask(r, ask[1], t, key, ask[2])
    <2>1. UNCHANGED <<today, written, added, itemOf, reviews>>
      BY <1>6 DEF Card!LockCard, Card!Rollback, Card!Ask
    <2>2. QED
      BY <2>1 DEF CardBounds
  <1>7. CASE \E r \in Requests : Card!Commit(r)
    <2>1. PICK r \in Requests : Card!Commit(r)
      BY <1>7
    <2>2. /\ UNCHANGED <<today, added, itemOf>> /\ written < ReviewLimit /\ written' = written + 1
      BY <2>1 DEF Card!Commit
    <2>3. \A v \in reviews' \ reviews : v.id = written + 1
      BY <2>1 DEF Card!Commit
    <2>4. QED
      BY <1>1, <2>2, <2>3, CardLimits DEF CardBounds
  <1>8. QED
    BY <1>2, <1>3, <1>4, <1>5, <1>6, <1>7 DEF CardNext

LEMMA CardTypes == Spec => []Card!TypeOK
  <1>1. Init => CardBounds
    BY CardLimits DEF Init, Card!Init, CardBounds
  <1>2. CardBounds /\ UNCHANGED cardState => CardBounds'
    BY DEF cardState, CardBounds
  <1>3. CardsInv /\ CardBounds /\ [Next]_vars => CardBounds'
    BY <1>2, CardBoundsStep, PartsAlone DEF CardsInv
  <1>4. ASSUME CardsInv, CardBounds PROVE Card!TypeOK
    <2>1. /\ today \in Nat /\ written \in Nat /\ added \in Nat /\ itemOf \in [Terms -> Nat]
          /\ words \in [Terms -> 0..5]
          /\ \A v \in reviews : v.id \in Nat /\ v.rating \in Card!Ratings
          /\ \A a \in attempts : a.review \in Nat /\ a.key \in Keys
      BY <1>4 DEF CardsInv, CardsType, Review, Attempt
    <2>2. /\ \A v \in reviews : v.id <= written
          /\ \A a \in attempts : a.review <= written
      BY <1>4 DEF CardsInv, Journals
    <2>3. QED
      BY <1>4, <2>1, <2>2, CardLimits DEF CardBounds, Card!TypeOK
  <1>5. QED
    BY <1>1, CardsInvariant, <1>3, <1>4, PTL DEF Spec


AtMostTwo == [Clickable -> 0..2]

ClickBounds ==
    /\ window \in {"open", "closed"} /\ draws <= DrawLimit /\ manual \subseteq Clickable
    /\ scene \in AtMostTwo /\ onBoard \in AtMostTwo
    /\ \A r \in Requests : clicking[r].at = "collect" => clicking[r].scene \in AtMostTwo

LEMMA ClickBoundsStep == ASSUME CandidatesType, ClickBounds, ClickNext PROVE ClickBounds'
  <1>1. DrawLimit \in Nat /\ draws \in Nat /\ Drawable \subseteq Clickable
    BY RequestsAssumption DEF Click!CandidatesAssumption, CandidatesType
  <1>2. clicking \in [Requests -> ClickingType]
    BY DEF CandidatesType
  <1>3. CASE Click!CloseWindow \/ \E t \in Drawable : Click!AddManualCandidates(t)
    BY <1>1, <1>3 DEF Click!CloseWindow, Click!AddManualCandidates, ClickBounds
  <1>4. CASE \E t \in Drawable, n \in 0..2 : Click!Draw(t, n)
    <2>1. PICK t \in Drawable, n \in 0..2 : Click!Draw(t, n)
      BY <1>4
    <2>2. scene' \in AtMostTwo
      BY <1>1, <2>1 DEF Click!Draw, ClickBounds, AtMostTwo
    <2>3. draws < DrawLimit /\ draws' = draws + 1 /\ UNCHANGED <<window, manual, onBoard, clicking>>
      BY <2>1 DEF Click!Draw
    <2>4. QED
      BY <1>1, <2>2, <2>3 DEF ClickBounds
  <1>5. ASSUME NEW r \in Requests, NEW next, clicking' = [clicking EXCEPT ![r] = next],
               next.at = "collect" => next.scene \in AtMostTwo, onBoard' \in AtMostTwo,
               UNCHANGED <<window, draws, manual, scene>>
        PROVE  ClickBounds'
    <2>1. clicking'[r] = next /\ \A q \in Requests : q # r => clicking'[q] = clicking[q]
      BY <1>2, <1>5
    <2>2. QED
      BY <1>5, <2>1 DEF ClickBounds
  <1>6. ASSUME NEW r \in Requests, NEW s \in Clickers, NEW t \in Clickable, Click!ClickBegins(r, s, t)
        PROVE  ClickBounds'
    <2> DEFINE next == [at |-> "click", student |-> s, term |-> t]
    <2>1. /\ clicking' = [clicking EXCEPT ![r] = next] /\ next.at # "collect"
          /\ UNCHANGED <<window, draws, manual, scene, onBoard>>
      BY <1>6 DEF Click!ClickBegins
    <2> HIDE DEF next
    <2>2. QED
      BY <1>5, <2>1 DEF ClickBounds
  <1>7. ASSUME NEW r \in Requests, Click!ClickEnds(r) \/ Click!Fails(r) PROVE ClickBounds'
    <2>1. /\ clicking' = [clicking EXCEPT ![r] = Click!Free] /\ Click!Free.at # "collect"
          /\ UNCHANGED <<window, draws, manual, scene, onBoard>>
      BY <1>7 DEF Click!ClickEnds, Click!Fails, Click!Free
    <2>2. QED
      BY <1>5, <2>1 DEF ClickBounds
  <1>8. ASSUME NEW r \in Requests, Click!CollectReads(r) PROVE ClickBounds'
    <2> DEFINE next == [at |-> "collect", scene |-> scene, draws |-> draws]
    <2>1. /\ clicking' = [clicking EXCEPT ![r] = next] /\ next.scene = scene
          /\ UNCHANGED <<window, draws, manual, scene, onBoard>>
      BY <1>8 DEF Click!CollectReads
    <2> HIDE DEF next
    <2>2. QED
      BY <1>5, <2>1 DEF ClickBounds
  <1>9. ASSUME NEW r \in Requests, Click!SaveWhiteboardCandidates(r) PROVE ClickBounds'
    <2>1. /\ clicking[r].at = "collect"
          /\ onBoard' = [t \in Clickable |-> Click!Counted(t, clicking[r].scene[t])]
          /\ clicking' = [clicking EXCEPT ![r] = Click!Free] /\ Click!Free.at # "collect"
          /\ UNCHANGED <<window, draws, manual, scene>>
      BY <1>9 DEF Click!SaveWhiteboardCandidates, Click!Free
    <2>2. onBoard' \in AtMostTwo
      BY <2>1 DEF ClickBounds, AtMostTwo, Click!Counted
    <2>3. QED
      BY <1>5, <2>1, <2>2
  <1>10. QED
    BY <1>3, <1>4, <1>6, <1>7, <1>8, <1>9 DEF ClickNext

LEMMA ClickTypes == Spec => []Click!TypeOK
  <1>1. ASSUME Init PROVE ClickBounds
    BY <1>1, RequestsAssumption
       DEF Click!CandidatesAssumption, Init, Click!Init, Click!Blank, Click!Free, ClickBounds, AtMostTwo
  <1>2. ClickBounds /\ UNCHANGED clickState => ClickBounds'
    BY DEF clickState, ClickBounds
  <1>3. CandidatesInv /\ ClickBounds /\ [Next]_vars => ClickBounds'
    BY <1>2, ClickBoundsStep, PartsAlone DEF CandidatesInv
  <1>4. ASSUME CandidatesInv, ClickBounds PROVE Click!TypeOK
    <2>1. ASSUME NEW t \in Clickable PROVE clicked[t] \in 0..Click!Cardinality(Clickers)
      <3>1. clicked[t] = Cardinality(ClickersOf(t))
        BY <1>4, ClickCardinality DEF CandidatesInv, Candidates, Click!CountIsClickers, ClickersOf
      <3>2. ClickersOf(t) \subseteq Clickers \X {t}
        BY <1>4 DEF ClickersOf, CandidatesInv, CandidatesType
      <3>3. IsFiniteSet(Clickers \X {t}) /\ Cardinality(Clickers \X {t}) = Cardinality(Clickers)
        <4>1. IsFiniteSet({t}) /\ Cardinality({t}) = 1
          BY FS_Singleton
        <4>2. /\ IsFiniteSet(Clickers \X {t})
              /\ Cardinality(Clickers \X {t}) = Cardinality(Clickers) * 1
          BY <4>1, ClickFinite, FS_Product
        <4>3. QED
          BY <4>2, ClickFinite, FS_CardinalityType
      <3>4. /\ Cardinality(ClickersOf(t)) <= Cardinality(Clickers)
            /\ Cardinality(ClickersOf(t)) \in Nat /\ Cardinality(Clickers) \in Nat
        BY <3>2, <3>3, ClickFinite, FS_Subset, FS_CardinalityType
      <3>5. QED
        BY <3>1, <3>4, ClickCardinality
    <2>2. draws \in Nat /\ DrawLimit \in Nat /\ clicks \subseteq Clickers \X Clickable
      BY <1>4, RequestsAssumption DEF Click!CandidatesAssumption, CandidatesInv, CandidatesType
    <2>3. QED
      BY <1>4, <2>1, <2>2 DEF ClickBounds, AtMostTwo, Click!TypeOK
  <1>5. QED
    BY <1>1, CandidatesInvariant, <1>3, <1>4, PTL DEF Spec


ListBounds ==
    /\ confirmed \subseteq candidates
    /\ \A r \in Requests : assigning[r].at \in List!Saving =>
           assigning[r].terms \subseteq candidates /\ assigning[r].new \subseteq candidates
    /\ \A s \in Students, t \in Terms : owned[s][t].status \in {0, 1, 5}

LEMMA ListBoundsStep == ASSUME LessonWordsInv, ListBounds, ListNext PROVE ListBounds'
  <1>1. /\ assigning \in [Requests -> AssigningType] /\ owned \in [Students -> [Terms -> Known]]
    BY DEF LessonWordsInv, LessonWordsType
  <1>2. ASSUME NEW r \in Requests, NEW x, assigning' = [assigning EXCEPT ![r] = x],
               x.at \in List!Saving => x.terms \subseteq candidates /\ x.new \subseteq candidates,
               confirmed' \subseteq candidates, UNCHANGED <<candidates, owned>>
        PROVE  ListBounds'
    <2>1. assigning'[r] = x /\ \A q \in Requests : q # r => assigning'[q] = assigning[q]
      BY <1>1, <1>2
    <2>2. QED
      BY <1>2, <2>1 DEF ListBounds
  <1>3. ASSUME NEW s \in Students, NEW t \in Terms, NEW w,
               owned' = [owned EXCEPT ![s] = [owned[s] EXCEPT ![t] = w]], w.status \in {0, 1, 5}
        PROVE  \A ss \in Students, tt \in Terms : owned'[ss][tt].status \in {0, 1, 5}
    <2>1. owned[s] \in [Terms -> Known]
      BY <1>1
    <2>2. /\ owned'[s][t] = w
          /\ \A ss \in Students, tt \in Terms : <<ss, tt>> # <<s, t>> => owned'[ss][tt] = owned[ss][tt]
      BY <1>1, <1>3, <2>1
    <2>3. QED
      BY <1>3, <2>2 DEF ListBounds
  <1>4. ASSUME NEW t \in Terms, List!NewCandidate(t) PROVE ListBounds'
    BY <1>4 DEF List!NewCandidate, ListBounds
  <1>5. ASSUME NEW s \in Students, NEW t \in Terms, NEW save \in Saves,
               List!StudentSaves(s, t, save[1], save[2])
        PROVE  ListBounds'
    <2> DEFINE w == List!Saved(owned[s][t], save[1], save[2])
    <2>1. save[1] \in {0, 5}
      BY RequestsAssumption
    <2>2. /\ owned' = [owned EXCEPT ![s] = [owned[s] EXCEPT ![t] = w]]
          /\ UNCHANGED <<candidates, confirmed, assigning>>
      BY <1>5 DEF List!StudentSaves
    <2>3. w.status \in {0, 1, 5}
      BY <2>1 DEF List!Saved, ListBounds
    <2> HIDE DEF w
    <2>4. QED
      BY <1>3, <2>2, <2>3 DEF ListBounds
  <1>6. ASSUME NEW s \in Students, NEW t \in Terms, List!StudentRemoves(s, t) PROVE ListBounds'
    <2>1. /\ owned' = [owned EXCEPT ![s] = [owned[s] EXCEPT ![t] = List!NoWord]]
          /\ assigning' = [r \in Requests |-> IF assigning[r].at = "assigned" THEN List!Free
                                              ELSE assigning[r]]
          /\ UNCHANGED <<candidates, confirmed>>
      BY <1>6 DEF List!StudentRemoves
    <2>2. List!NoWord.status = 0 /\ List!Free.at \notin List!Saving
      BY DEF List!NoWord, List!Free, List!Saving
    <2>3. QED
      BY <1>3, <2>1, <2>2 DEF ListBounds
  <1>7. ASSUME NEW r \in Requests, NEW s \in Students, NEW t \in Terms, List!AssignOne(r, s, t)
        PROVE  ListBounds'
    <2> DEFINE rest == assigning[r].left \ {<<s, t>>}
               mid == [assigning[r] EXCEPT !.left = rest]
               x == [mid EXCEPT !.at = IF rest = {} THEN "assigned" ELSE "assign"]
               w == List!Saved(owned[s][t], 0, "this")
    <2>1. /\ assigning[r].at = "assign" /\ UNCHANGED <<candidates, confirmed>>
          /\ owned' = [owned EXCEPT ![s] = [owned[s] EXCEPT ![t] = w]]
      BY <1>7 DEF List!AssignOne
    <2>2. assigning' = [assigning EXCEPT ![r] = x]
      BY <1>7 DEF List!AssignOne, List!Rest
    <2>3. assigning[r] \in [at : {"assign", "assigned"}, students : SUBSET Students,
                           terms : SUBSET Terms, left : SUBSET (Students \X Terms)]
      BY <1>1, <2>1 DEF AssigningType
    <2>4. x.at \notin List!Saving
      BY <2>3 DEF List!Saving
    <2>5. w.status \in {0, 1, 5}
      BY DEF List!Saved, ListBounds
    <2> HIDE DEF x, w
    <2>6. assigning'[r] = x /\ \A q \in Requests : q # r => assigning'[q] = assigning[q]
      BY <1>1, <2>2
    <2>7. QED
      BY <1>3, <2>1, <2>4, <2>5, <2>6 DEF ListBounds
  <1>8. ASSUME NEW r \in Requests, NEW ts \in SUBSET Terms, List!SetBegins(r, ts) PROVE ListBounds'
    <2> DEFINE x == [at |-> "deleting", terms |-> ts, gone |-> {}, new |-> {}]
    <2>1. /\ assigning' = [assigning EXCEPT ![r] = x] /\ x.terms \subseteq candidates /\ x.new = {}
          /\ UNCHANGED <<candidates, confirmed, owned>>
      BY <1>8 DEF List!SetBegins
    <2> HIDE DEF x
    <2>2. QED
      BY <1>2, <2>1 DEF ListBounds
  <1>9. ASSUME NEW r \in Requests, NEW ss \in SUBSET Students, List!AssignBegins(r, ss)
        PROVE  ListBounds'
    <2> DEFINE x == [at |-> "assign", students |-> ss, terms |-> confirmed, left |-> ss \X confirmed]
    <2>1. /\ assigning' = [assigning EXCEPT ![r] = x] /\ x.at \notin List!Saving
          /\ UNCHANGED <<candidates, confirmed, owned>>
      BY <1>9 DEF List!AssignBegins, List!Saving
    <2> HIDE DEF x
    <2>2. QED
      BY <1>2, <2>1 DEF ListBounds
  <1>10. ASSUME NEW r \in Requests, List!SetDeletes(r) PROVE ListBounds'
    <2> DEFINE mid == [assigning[r] EXCEPT !.gone = confirmed \ assigning[r].terms]
               x == [mid EXCEPT !.at = "inserting"]
    <2>1. assigning[r].at = "deleting" /\ UNCHANGED <<candidates, confirmed, owned>>
      BY <1>10 DEF List!SetDeletes
    <2>2. assigning' = [assigning EXCEPT ![r] = x]
      BY <1>10 DEF List!SetDeletes, List!Dropped
    <2>3. x.terms = assigning[r].terms /\ x.new = assigning[r].new
      BY <2>1, SavingRecord
    <2>4. assigning[r].terms \subseteq candidates /\ assigning[r].new \subseteq candidates
      BY <2>1 DEF ListBounds, List!Saving
    <2> HIDE DEF x
    <2>5. QED
      BY <1>2, <2>1, <2>2, <2>3, <2>4 DEF ListBounds
  <1>11. ASSUME NEW r \in Requests, List!SetInserts(r) PROVE ListBounds'
    <2> DEFINE mid == [assigning[r] EXCEPT !.new = assigning[r].terms \ confirmed]
               x == [mid EXCEPT !.at = "committing"]
    <2>1. assigning[r].at = "inserting" /\ UNCHANGED <<candidates, confirmed, owned>>
      BY <1>11 DEF List!SetInserts
    <2>2. assigning' = [assigning EXCEPT ![r] = x]
      BY <1>11 DEF List!SetInserts
    <2>3. x.terms = assigning[r].terms /\ x.new \subseteq assigning[r].terms
      BY <2>1, SavingRecord
    <2>4. assigning[r].terms \subseteq candidates
      BY <2>1 DEF ListBounds, List!Saving
    <2> HIDE DEF x
    <2>5. QED
      BY <1>2, <2>1, <2>2, <2>3, <2>4 DEF ListBounds
  <1>12. ASSUME NEW r \in Requests, List!SetCommits(r) \/ List!Ends(r) PROVE ListBounds'
    <2>1. /\ assigning' = [assigning EXCEPT ![r] = List!Free] /\ UNCHANGED <<candidates, owned>>
          /\ \/ confirmed' = confirmed
             \/ /\ assigning[r].at = "committing"
                /\ confirmed' = (confirmed \ assigning[r].gone) \cup assigning[r].new
      BY <1>12 DEF List!SetCommits, List!Ends
    <2>2. confirmed' \subseteq candidates
      BY <2>1 DEF ListBounds, List!Saving
    <2>3. List!Free.at \notin List!Saving
      BY DEF List!Free, List!Saving
    <2>4. QED
      BY <1>2, <2>1, <2>2, <2>3
  <1>13. QED
    BY <1>4, <1>5, <1>6, <1>7, <1>8, <1>9, <1>10, <1>11, <1>12 DEF ListNext

LEMMA ListTypes == Spec => []List!TypeOK
  <1>1. Init => ListBounds
    BY DEF Init, List!Init, List!Free, List!NoWord, List!Saving, ListBounds
  <1>2. ListBounds /\ UNCHANGED listState => ListBounds'
    BY DEF listState, ListBounds
  <1>3. LessonWordsInv /\ ListBounds /\ [Next]_vars => ListBounds'
    BY <1>2, ListBoundsStep, PartsAlone
  <1>4. LessonWordsInv /\ ListBounds => List!TypeOK
    BY DEF LessonWordsInv, LessonWordsType, Known, ListBounds, List!TypeOK
  <1>5. QED
    BY <1>1, LessonWordsInvariant, <1>3, <1>4, PTL DEF Spec


OptionsBounds ==
    /\ stranded \subseteq Options!Items
    /\ optionAnswers <= OptionCallLimit
    /\ \A c \in Phrases : cache[c] <= OptionCallLimit
    /\ \A i \in Options!Items : shown[i] \subseteq 0..(OptionCallLimit + 1)
    /\ \A r \in Requests : choosing[r].at = "save" => choosing[r].answer <= OptionCallLimit

\* The sets of options an item may be shown with.
LEMMA ShownBounds ==
    ASSUME OptionsType, OptionsBounds, NEW is, Options!Show(is)
    PROVE  \A i \in Options!Items : shown'[i] \subseteq 0..(OptionCallLimit + 1)
  <1>1. \A i \in Options!Items : i[2] \in Phrases
    BY DEF Options!Items
  <1>2. \A i \in Options!Items : Options!Options(i) \in 0..(OptionCallLimit + 1)
    BY <1>1, OptionsConstants DEF OptionsType, OptionsBounds, Options!Options
  <1>3. \A i \in Options!Items :
            shown'[i] = IF i \in is /\ pinned[i] # "none" THEN shown[i] \cup {Options!Options(i)}
                        ELSE shown[i]
    BY DEF Options!Show
  <1>4. QED
    BY <1>2, <1>3 DEF OptionsBounds

LEMMA OptionsBoundsStep == ASSUME OptionsType, OptionsBounds, OptionsNext PROVE OptionsBounds'
  <1>1. /\ OptionCallLimit \in Nat /\ optionAnswers \in Nat /\ cache \in [Phrases -> Nat]
        /\ choosing \in [Requests -> ChoosingType] /\ exists \subseteq Options!Items
        /\ shown \in [Options!Items -> SUBSET Nat]
    BY OptionsConstants DEF OptionsType
  <1>2. ASSUME NEW r \in Requests, NEW next, choosing' = [choosing EXCEPT ![r] = next],
               next.at = "save" => next.answer <= OptionCallLimit,
               UNCHANGED <<stranded, optionAnswers, cache, shown>>
        PROVE  OptionsBounds'
    <2>1. choosing'[r] = next /\ \A q \in Requests : q # r => choosing'[q] = choosing[q]
      BY <1>1, <1>2
    <2>2. QED
      BY <1>2, <2>1 DEF OptionsBounds
  <1>3. ASSUME NEW r \in Requests, NEW u, NEW kind, NEW is, NEW chosen, NEW need,
               Options!Proceed(r, u, kind, is, chosen, need),
               UNCHANGED <<stranded, optionAnswers, cache>>
        PROVE  OptionsBounds'
    <2> DEFINE asks == [at |-> "reserve", kind |-> kind, user |-> u, items |-> is, list |-> chosen,
                        cached |-> Options!Cached(is), need |-> need]
               pins == [at |-> "pinLLM", kind |-> kind, user |-> u, items |-> is, list |-> chosen,
                        cached |-> Options!Cached(is)]
    <2>1. asks.at = "reserve" /\ pins.at = "pinLLM"
      OBVIOUS
    <2>2. \/ shown' = shown /\ choosing' = [choosing EXCEPT ![r] = asks]
          \/ shown' = shown /\ choosing' = [choosing EXCEPT ![r] = pins]
          \/ Options!Show(is) /\ choosing' = choosing
      BY <1>3 DEF Options!Proceed
    <2> HIDE DEF asks, pins
    <2>3. CASE Options!Show(is) /\ choosing' = choosing
      BY <1>3, <2>3, ShownBounds DEF OptionsBounds
    <2>4. QED
      BY <1>2, <1>3, <2>1, <2>2, <2>3
  <1>4. ASSUME NEW r \in Requests, NEW u \in Learners, NEW is \in SUBSET ({u} \X Phrases),
               \/ \E first \in is : Options!Feed(r, u, is, first)
               \/ Options!Distractors(r, u, is)
        PROVE  OptionsBounds'
    <2>1. /\ \E kind, chosen, need : Options!Proceed(r, u, kind, is, chosen, need)
          /\ UNCHANGED <<stranded, optionAnswers, cache>>
      BY <1>4 DEF Options!Feed, Options!Distractors
    <2>2. QED
      BY <1>3, <2>1
  <1>5. ASSUME NEW r \in Requests, Options!Reserve(r) PROVE OptionsBounds'
    <2> DEFINE q == choosing[r]
               call == [q EXCEPT !.at = "call"]
               pins == [at |-> "pinLLM", kind |-> q.kind, user |-> q.user, items |-> q.items,
                        list |-> q.list \cup q.need, cached |-> q.cached]
    <2>1. /\ choosing' = [choosing EXCEPT ![r] = call] \/ choosing' = [choosing EXCEPT ![r] = pins]
          /\ UNCHANGED <<stranded, optionAnswers, cache, shown>> /\ q.at = "reserve"
      BY <1>5 DEF Options!Reserve
    <2>2. pins.at = "pinLLM" /\ call.at = "call"
      BY <1>1, <2>1 DEF ChoosingType
    <2> HIDE DEF call, pins
    <2>3. QED
      BY <1>2, <2>1, <2>2
  <1>6. ASSUME NEW r \in Requests, NEW got \in SUBSET Options!Items, Options!Answer(r, got)
        PROVE  OptionsBounds'
    <2> DEFINE q == choosing[r]
               next == [at |-> IF got = {} THEN "pinLLM" ELSE "save", kind |-> q.kind,
                        user |-> q.user, items |-> q.items, list |-> q.list \cup (q.need \ got),
                        cached |-> q.cached \cup got, answer |-> optionAnswers + 1,
                        unsaved |-> got]
    <2>1. /\ choosing' = [choosing EXCEPT ![r] = next] /\ next.answer = optionAnswers + 1
          /\ optionAnswers < OptionCallLimit /\ optionAnswers' = optionAnswers + 1
          /\ UNCHANGED <<stranded, cache, shown>>
      BY <1>6 DEF Options!Answer
    <2> HIDE DEF next
    <2>2. choosing'[r] = next /\ \A o \in Requests : o # r => choosing'[o] = choosing[o]
      BY <1>1, <2>1
    <2>3. QED
      BY <1>1, <2>1, <2>2 DEF OptionsBounds
  <1>7. ASSUME NEW r \in Requests, NEW i \in Options!Items, Options!Save(r, i) PROVE OptionsBounds'
    <2> DEFINE q == choosing[r]
               left == q.unsaved \ {i}
               at == IF left = {} THEN "pinLLM" ELSE "save"
    <2>1. /\ q.at = "save" /\ cache' = [cache EXCEPT ![i[2]] = IF @ = 0 THEN q.answer ELSE @]
          /\ choosing' = [choosing EXCEPT ![r].unsaved = left, ![r].at = at]
          /\ UNCHANGED <<stranded, optionAnswers, shown>>
      BY <1>7 DEF Options!Save
    <2>2. q.answer \in Nat /\ q.answer <= OptionCallLimit
      BY <1>1, <2>1 DEF ChoosingType, OptionsBounds
    <2>3. i[2] \in Phrases /\ \A c \in Phrases : cache'[c] \in {cache[c], q.answer}
      BY <1>1, <2>1 DEF Options!Items
    <2>4. /\ choosing'[r].answer = q.answer
          /\ \A o \in Requests : o # r => choosing'[o] = choosing[o]
      <3> HIDE DEF left, at
      <3>1. QED
        BY <1>1, <2>1 DEF ChoosingType
    <2>5. QED
      BY <1>1, <2>1, <2>2, <2>3, <2>4 DEF OptionsBounds
  <1>8. ASSUME NEW r \in Requests, Options!PinLLM(r) \/ Options!PinList(r) PROVE OptionsBounds'
    <2>1. PICK at \in {"pinList", "show"} : choosing' = [choosing EXCEPT ![r].at = at]
      BY <1>8 DEF Options!PinLLM, Options!PinList
    <2> DEFINE next == [choosing[r] EXCEPT !.at = at]
    <2>2. choosing[r].at \in {"pinLLM", "pinList"}
      BY <1>8 DEF Options!PinLLM, Options!PinList
    <2>3. choosing' = [choosing EXCEPT ![r] = next]
      BY <2>1
    <2>4. next.at = at
      BY <1>1, <2>2 DEF ChoosingType
    <2> HIDE DEF next
    <2>5. UNCHANGED <<stranded, optionAnswers, cache, shown>>
      BY <1>8 DEF Options!PinLLM, Options!PinList
    <2>6. QED
      BY <1>2, <2>3, <2>4, <2>5
  <1>9. ASSUME NEW r \in Requests, Options!Reread(r) \/ Options!Fails(r) PROVE OptionsBounds'
    <2>1. /\ choosing' = [choosing EXCEPT ![r] = Options!Free]
          /\ UNCHANGED <<stranded, optionAnswers, cache>>
          /\ shown' = shown \/ \E is : Options!Show(is)
      BY <1>9 DEF Options!Reread, Options!Fails
    <2>2. Options!Free.at = "free"
      BY DEF Options!Free
    <2>3. /\ choosing'[r] = Options!Free /\ \A o \in Requests : o # r => choosing'[o] = choosing[o]
      BY <1>1, <2>1
    <2>4. \A i \in Options!Items : shown'[i] \subseteq 0..(OptionCallLimit + 1)
      BY <2>1, ShownBounds DEF OptionsBounds
    <2>5. QED
      BY <2>1, <2>2, <2>3, <2>4 DEF OptionsBounds
  <1>10. CASE \/ \E i \in Options!Items : Options!CreateClozeItem(i)
              \/ \E c \in Phrases, whole \in BOOLEAN : Options!RemoveBegins(c, whole)
    BY <1>10 DEF Options!CreateClozeItem, Options!RemoveBegins, OptionsBounds
  <1>11. CASE Options!RemoveCommits
    <2> DEFINE c == removal.sentence
               gone == removal.items
    <2>1. /\ cache' = [cache EXCEPT ![c] = 0]
          /\ shown' = [i \in Options!Items |-> IF i \in gone THEN {} ELSE shown[i]]
          /\ stranded' = (stranded \ gone) \cup {i \in exists \ gone : i[2] = c /\ pinned[i] = "llm"}
          /\ UNCHANGED <<optionAnswers, choosing>>
      BY <1>11 DEF Options!RemoveCommits
    <2> HIDE DEF c, gone
    <2>2. \A p \in Phrases : cache'[p] \in {0, cache[p]}
      BY <1>1, <2>1
    <2>3. \A i \in Options!Items : shown'[i] \subseteq shown[i]
      BY <2>1
    <2>4. QED
      BY <1>1, <2>1, <2>2, <2>3 DEF OptionsBounds
  <1>12. QED
    BY <1>4, <1>5, <1>6, <1>7, <1>8, <1>9, <1>10, <1>11 DEF OptionsNext

LEMMA OptionsTypes == Spec => []Options!TypeOK
  <1>1. Init => OptionsBounds
    BY OptionsConstants DEF Init, Options!Init, Options!Free, OptionsBounds
  <1>2. OptionsBounds /\ UNCHANGED optionsState => OptionsBounds'
    BY DEF optionsState, OptionsBounds
  <1>3. OptionsInv /\ OptionsBounds /\ [Next]_vars => OptionsBounds'
    BY <1>2, OptionsBoundsStep, PartsAlone DEF OptionsInv
  <1>4. OptionsInv /\ OptionsBounds => Options!TypeOK
    BY OptionsConstants DEF OptionsInv, OptionsType, OptionsBounds, Options!TypeOK
  <1>5. QED
    BY <1>1, OptionsInvariant, <1>3, <1>4, PTL DEF Spec


LEMMA FeedTypes == Spec => []Feed!TypeOK
  <1>1. FeedInv => Feed!TypeOK
    BY DEF FeedInv, FeedType, NotesOfWords, ItemStates, States, Feed!TypeOK
  <1>2. QED
    BY <1>1, FeedInvariant, PTL

ExplainBounds == answered \subseteq [key : Explainable, text : Explain!Texts]

LEMMA ExplainBoundsStep == ASSUME ExplainType, ExplainBounds, ExplainNext PROVE ExplainBounds'
  <1>1. ASSUME NEW key \in Explainable, NEW text \in Explain!Texts, Explain!Shown(key, text)
        PROVE  ExplainBounds'
    BY <1>1 DEF Explain!Shown, ExplainBounds
  <1>2. ASSUME answered' = answered PROVE ExplainBounds'
    BY <1>2 DEF ExplainBounds
  <1>3. ASSUME NEW r \in Requests, NEW u \in Learners, NEW key \in Explainable,
               Explain!Ask(r, u, key)
        PROVE  ExplainBounds'
    <2>1. CASE cached[key] # Nothing
      <3>1. cached[key] \in Explain!Texts /\ Explain!Shown(key, cached[key])
        BY <1>3, <2>1 DEF Explain!Ask, ExplainType
      <3>2. QED
        BY <1>1, <3>1
    <2>2. CASE cached[key] = Nothing
      BY <1>2, <1>3, <2>2 DEF Explain!Ask
    <2>3. QED
      BY <2>1, <2>2
  <1>4. ASSUME NEW r \in Requests, Explain!Save(r) PROVE ExplainBounds'
    <2> DEFINE key == explaining[r].key
               text == Explain!Stored(key, explaining[r].text)
    <2>1. explaining[r].step = "paid" /\ (Explain!Shown(key, text) \/ answered' = answered)
      BY <1>4 DEF Explain!Save
    <2>2. key \in Explainable /\ explaining[r].text \in Explain!Texts
      BY <2>1 DEF ExplainType, ExplainingType
    <2>3. text \in Explain!Texts
      BY <2>2 DEF ExplainType, Explain!Stored
    <2> HIDE DEF key, text
    <2>4. QED
      BY <1>1, <1>2, <2>1, <2>2, <2>3
  <1>5. CASE \/ Explain!Crash \/ Explain!Midnight
             \/ \E r \in Requests : Explain!Reserve(r) \/ Explain!Call(r) \/ Explain!CallFails(r)
    BY <1>2, <1>5
       DEF Explain!Crash, Explain!Midnight, Explain!Reserve, Explain!Call, Explain!CallFails
  <1>6. QED
    BY <1>3, <1>4, <1>5 DEF ExplainNext

LEMMA ExplainTypes == Spec => []Explain!TypeOK
  <1>1. Init => ExplainBounds
    BY DEF Init, Explain!Init, ExplainBounds
  <1>2. ExplainBounds /\ UNCHANGED explainState => ExplainBounds'
    BY DEF explainState, ExplainBounds
  <1>3. ExplainInv /\ ExplainBounds /\ [Next]_vars => ExplainBounds'
    BY <1>2, ExplainBoundsStep, PartsAlone DEF ExplainInv
  <1>4. ASSUME ExplainInv, ExplainBounds PROVE Explain!TypeOK
    <2>1. explainUsed \in [Learners -> [Explain!Days -> 0..ExplainLimit]]
      BY <1>4, ExplainConstants DEF ExplainInv, ExplainType, Places, PaidOrReserved
    <2>2. \A r \in Requests : explaining[r].step \in {"idle", "missed", "reserved", "paid"}
      BY <1>4 DEF ExplainInv, ExplainType, ExplainingType
    <2>3. QED
      BY <1>4, <2>1, <2>2 DEF ExplainInv, ExplainType, ExplainBounds, Explain!TypeOK
  <1>5. QED
    BY <1>1, ExplainInvariant, <1>3, <1>4, PTL DEF Spec

PracticeBounds ==
    /\ changes \in 0..LearnLimit /\ generations <= TextLimit
    /\ \A t \in ownTexts : t.src = 0

LEMMA PracticeBoundsStep == ASSUME PracticeType, PracticeBounds, PracticeNext PROVE PracticeBounds'
  <1>1. TextLimit \in Nat /\ LearnLimit \in Nat
    BY RequestsAssumption DEF Practice!PracticeAssumption
  <1>2. CASE \E w \in Lemmas : Practice!Learn(w)
    BY <1>1, <1>2 DEF Practice!Learn, PracticeBounds
  <1>3. CASE \E r \in Requests, wanted \in {learning} \cup {{w} : w \in Lemmas} :
                 Practice!Reserve(r, wanted)
    <2>1. UNCHANGED <<changes, ownTexts>> /\ generations < TextLimit /\ generations' = generations + 1
      BY <1>3 DEF Practice!Reserve
    <2>2. QED
      BY <1>1, <2>1 DEF PracticeType, PracticeBounds
  <1>4. CASE \E r \in Requests : Practice!Passes(r) \/ Practice!Misses(r) \/ Practice!Fails(r)
    BY <1>4 DEF Practice!Passes, Practice!Misses, Practice!Fails, Practice!Called, PracticeBounds
  <1>5. CASE \E r \in Requests : Practice!Save(r)
    <2>1. PICK r \in Requests : Practice!Save(r)
      BY <1>5
    <2> DEFINE new == Practice!NewText(generating[r].words)
    <2>2. UNCHANGED <<changes, generations>> /\ ownTexts' = ownTexts \cup {new}
      BY <2>1 DEF Practice!Save
    <2>3. new.src = 0
      BY DEF Practice!NewText
    <2> HIDE DEF new
    <2>4. QED
      BY <2>2, <2>3 DEF PracticeBounds
  <1>6. CASE \/ Practice!NextPage \/ Practice!Leave
             \/ \E given \in SUBSET Lemmas : Practice!FirstPage(given)
    <2>1. UNCHANGED <<changes, generations, ownTexts>>
      BY <1>6 DEF Practice!NextPage, Practice!Leave, Practice!FirstPage, Practice!Read
    <2>2. QED
      BY <2>1 DEF PracticeBounds
  <1>7. CASE Practice!Import
    BY <1>1, <1>7 DEF Practice!Import, PracticeBounds
  <1>8. QED
    BY <1>2, <1>3, <1>4, <1>5, <1>6, <1>7 DEF PracticeNext

LEMMA PracticeTypes == Spec => []Practice!TypeOK
  <1>1. Init => PracticeBounds
    BY RequestsAssumption DEF Practice!PracticeAssumption, Init, Practice!Init, PracticeBounds
  <1>2. PracticeBounds /\ UNCHANGED practiceState => PracticeBounds'
    BY DEF practiceState, PracticeBounds
  <1>3. PracticeInv /\ PracticeBounds /\ [Next]_vars => PracticeBounds'
    BY <1>2, PracticeBoundsStep, PartsAlone DEF PracticeInv
  <1>4. ASSUME PracticeInv, PracticeBounds PROVE Practice!TypeOK
    <2>1. \A t \in ownTexts : t.src = 0 /\ t.lemmas \subseteq Lemmas
      BY <1>4 DEF PracticeInv, PracticeType, Practice!Text, PracticeBounds
    <2>2. \A r \in Requests : generating[r].step \in {"idle", "call", "passed"}
      BY <1>4 DEF PracticeInv, PracticeType, DraftType
    <2>3. reader.step \in {"away", "next", "done"}
      BY <1>4 DEF PracticeInv, ReaderInv, Practice!Away
    <2>4. generations \in 0..TextLimit
      BY <1>4, RequestsAssumption
         DEF Practice!PracticeAssumption, PracticeInv, PracticeType, PracticeBounds
    <2>5. QED
      BY <1>4, <2>1, <2>2, <2>3, <2>4
         DEF PracticeInv, PracticeType, PracticeBounds, Practice!TypeOK
  <1>5. QED
    BY <1>1, PracticeInvariant, <1>3, <1>4, PTL DEF Spec

\* The state of every part keeps its type: the places taken and the elements of
\* a board stay within their limits, what refers to a link, a version, an item
\* or an answer refers to one there has been, and a request is at a step of its
\* handler (httpapi, store and the jobs of worker).
THEOREM TypeCorrect == Spec => []TypeOK
  BY BoardTypes, MaterialTypes, AccountTypes, EventTypes, RoomTypes, CardTypes, ClickTypes,
     ListTypes, OptionsTypes, FeedTypes, ExplainTypes, PracticeTypes, PTL DEF TypeOK

=============================================================================
