----------------------------- MODULE Materials -----------------------------
(***************************************************************************)
(* The file of one lesson material.  The browser uploads it to a key of    *)
(* its own (materials-pending/), the confirm handler checks the object,    *)
(* copies it to the permanent key and marks the row; a removal deletes     *)
(* both objects and then the row.  Every call to storage or the database   *)
(* is a step, so two requests of the teacher, the browser, a cancelled     *)
(* lesson and the worker interleave between them.                          *)
(***************************************************************************)
EXTENDS Naturals, FiniteSets

CONSTANTS
    Declared,     \* contents of the declared size and type
    Undeclared,   \* other contents
    NoObject,     \* no object under a key
    Requests,     \* requests of the teacher in flight
    FaultLimit    \* bound: crashes of the api, errors of storage

Contents == Declared \cup Undeclared

\* Assumed of the constants wherever the module is instantiated.
MaterialsAssumption ==
    /\ Declared \cap Undeclared = {} /\ NoObject \notin Contents
    /\ FaultLimit \in Nat

VARIABLES
    row,       \* the row of materials: absent, pending, ready or gone
    etag,      \* file_etag, NoObject for NULL
    lesson,    \* scheduled, started or gone
    link,      \* the presigned upload link has not expired
    upload,    \* the object under the pending key
    file,      \* the object under the permanent key
    request,   \* what each request has done
    waiting,   \* material_files_delete jobs waiting
    worker,    \* how far the worker is with one: idle or upload (dropped)
    faults,    \* bound used up
    overlap,   \* history: two confirms were under way at once
    late,      \* history: a confirm marked a row whose file was being removed
    lost       \* history: a request died with a copied or removed file

vars == <<row, etag, lesson, link, upload, file, request, waiting, worker,
          faults, overlap, late, lost>>

Idle == [at |-> "idle", tag |-> NoObject, left |-> FALSE]

Confirming == {r \in Requests : request[r].at \in {"loaded", "uploaded", "copied", "checked"}}
Removing == {r \in Requests : request[r].at \in {"dropUpload", "dropFile", "dropRow"}}

Init ==
    /\ row = "absent" /\ etag = NoObject /\ lesson = "scheduled"
    /\ link = FALSE /\ upload = NoObject /\ file = NoObject
    /\ request = [r \in Requests |-> Idle]
    /\ waiting = 0 /\ worker = "idle" /\ faults = 0
    /\ overlap = FALSE /\ late = FALSE /\ lost = FALSE

Exists == row \in {"pending", "ready"}

\* matchesDeclared.
Matches(content) == content \in Declared

At(r, stage) == request[r].at = stage
Goes(r, stage) == request' = [request EXCEPT ![r].at = stage]
Ends(r) == request' = [request EXCEPT ![r] = Idle]

history == <<overlap, late, lost>>
objects == <<upload, file>>
jobs == <<waiting, worker>>

-----------------------------------------------------------------------------
\* The material and its lesson

\* handleCreateMaterial: the row and the signed upload link of its file.
Create ==
    /\ row = "absent" /\ lesson # "gone"
    /\ row' = "pending" /\ link' = TRUE
    /\ UNCHANGED <<etag, lesson, objects, request, jobs, faults, history>>

StartLesson ==
    /\ lesson = "scheduled" /\ lesson' = "started"
    /\ UNCHANGED <<row, etag, link, objects, request, jobs, faults, history>>

\* CancelLesson queues the key of every row with a file, confirmed or not.
QueuedKeys == Exists

CancelLesson ==
    /\ lesson = "scheduled" /\ lesson' = "gone"
    /\ row' = IF Exists THEN "gone" ELSE row
    /\ waiting' = IF QueuedKeys THEN waiting + 1 ELSE waiting
    /\ UNCHANGED <<etag, link, objects, request, worker, faults, history>>

-----------------------------------------------------------------------------
\* The browser and the bucket

\* The link may be used again until it expires.
Put(content) ==
    /\ link /\ upload' = content
    /\ UNCHANGED <<row, etag, lesson, link, file, request, jobs, faults, history>>

LinkExpires ==
    /\ link /\ link' = FALSE
    /\ UNCHANGED <<row, etag, lesson, objects, request, jobs, faults, history>>

\* The bucket's lifecycle rule outlives the link.
LifecycleDropsUpload ==
    /\ ~link /\ upload # NoObject /\ upload' = NoObject
    /\ UNCHANGED <<row, etag, lesson, link, file, request, jobs, faults, history>>

-----------------------------------------------------------------------------
\* handleConfirmMaterialFile

\* A row already confirmed is answered at once.
LoadToConfirm(r) ==
    /\ At(r, "idle") /\ row = "pending"
    /\ Goes(r, "loaded")
    /\ overlap' = (overlap \/ Confirming # {})
    /\ UNCHANGED <<row, etag, lesson, link, objects, jobs, faults, late, lost>>

\* Stat of the upload: a missing one is a conflict, a wrong one is rejected.
CheckUpload(r) ==
    /\ At(r, "loaded")
    /\ Goes(r, IF upload = NoObject THEN "idle"
               ELSE IF Matches(upload) THEN "uploaded" ELSE "dropUpload")
    /\ UNCHANGED <<row, etag, lesson, link, objects, jobs, faults, history>>

\* Copy of whatever lies under the pending key by now.
CopyUpload(r) ==
    /\ At(r, "uploaded")
    /\ IF upload = NoObject THEN Ends(r) /\ UNCHANGED file
       ELSE Goes(r, "copied") /\ file' = upload
    /\ UNCHANGED <<row, etag, lesson, link, upload, jobs, faults, history>>

CheckFileMutantTrusted(r) ==
    /\ At(r, "copied")
    /\ IF file = NoObject THEN Ends(r)
       ELSE request' = [request EXCEPT ![r].at = "checked", ![r].tag = file]
    /\ UNCHANGED <<row, etag, lesson, link, objects, jobs, faults, history>>

\* Stat of the copy, whose ETag is kept; the upload may have changed since
\* it was checked.
CheckFile(r) ==
    /\ At(r, "copied")
    /\ IF file = NoObject THEN Ends(r)
       ELSE IF Matches(file)
       THEN request' = [request EXCEPT ![r].at = "checked", ![r].tag = file]
       ELSE Goes(r, "dropUpload")
    /\ UNCHANGED <<row, etag, lesson, link, objects, jobs, faults, history>>

ConfirmRowMutantSilent(r) ==
    /\ At(r, "checked")
    /\ IF Exists
       THEN /\ row' = "ready" /\ Goes(r, "confirmed")
            /\ etag' = IF etag = NoObject THEN request[r].tag ELSE etag
            /\ late' = (late \/ \E q \in Removing : request[q].at = "dropRow")
       ELSE Ends(r) /\ UNCHANGED <<row, etag, late>>
    /\ UNCHANGED <<lesson, link, objects, jobs, faults, overlap, lost>>

\* ConfirmMaterialFile keeps the first mark; without a row the copy goes to a
\* job.
ConfirmRow(r) ==
    /\ At(r, "checked")
    /\ IF Exists
       THEN /\ row' = "ready" /\ Goes(r, "confirmed")
            /\ etag' = IF etag = NoObject THEN request[r].tag ELSE etag
            /\ late' = (late \/ \E q \in Removing : request[q].at = "dropRow")
            /\ UNCHANGED waiting
       ELSE Ends(r) /\ waiting' = waiting + 1 /\ UNCHANGED <<row, etag, late>>
    /\ UNCHANGED <<lesson, link, objects, worker, faults, overlap, lost>>

DropConfirmedUpload(r) ==
    /\ At(r, "confirmed") /\ Ends(r)
    /\ upload' = NoObject
    /\ UNCHANGED <<row, etag, lesson, link, file, jobs, faults, history>>

-----------------------------------------------------------------------------
\* removeMaterial, for handleDeleteMaterial and rejectUpload

LoadToRemove(r) ==
    /\ At(r, "idle") /\ Exists
    /\ Goes(r, "dropUpload")
    /\ UNCHANGED <<row, etag, lesson, link, objects, jobs, faults, history>>

RemoveUpload(r) ==
    /\ At(r, "dropUpload") /\ Goes(r, "dropFile")
    /\ upload' = NoObject
    /\ UNCHANGED <<row, etag, lesson, link, file, jobs, faults, history>>

RemoveFile(r) ==
    /\ At(r, "dropFile") /\ Goes(r, "dropRow")
    /\ file' = NoObject
    /\ UNCHANGED <<row, etag, lesson, link, upload, jobs, faults, history>>

\* Storage did not answer: the key is left to a job.
RemovalFails(r) ==
    /\ request[r].at \in {"dropUpload", "dropFile"} /\ faults < FaultLimit
    /\ faults' = faults + 1
    /\ request' = [request EXCEPT ![r].at = "dropRow", ![r].left = TRUE]
    /\ UNCHANGED <<row, etag, lesson, link, objects, jobs, history>>

\* DeleteMaterial: the row, and the job for what is left, in one transaction.
\* Without a row it queues nothing, so what is left then is lost.
DeleteRow(r) ==
    /\ At(r, "dropRow") /\ Ends(r)
    /\ row' = "gone"
    /\ waiting' = IF Exists /\ request[r].left THEN waiting + 1 ELSE waiting
    /\ lost' = (lost \/ (~Exists /\ request[r].left))
    /\ UNCHANGED <<etag, lesson, link, objects, worker, faults, overlap, late>>

\* The api dies or a call fails in the middle of a request.
Abort(r) ==
    /\ request[r].at # "idle" /\ faults < FaultLimit /\ Ends(r)
    /\ faults' = faults + 1
    /\ lost' = (lost \/ request[r].at \notin {"loaded", "uploaded", "confirmed"})
    /\ UNCHANGED <<row, etag, lesson, link, objects, jobs, overlap, late>>

-----------------------------------------------------------------------------
\* materialFilesDelete: both objects in turn, the whole job again on failure

JobDropsUpload ==
    /\ waiting > 0 /\ worker = "idle" /\ worker' = "upload"
    /\ waiting' = waiting - 1 /\ upload' = NoObject
    /\ UNCHANGED <<row, etag, lesson, link, file, request, faults, history>>

JobDropsFile ==
    /\ worker = "upload" /\ worker' = "idle"
    /\ file' = NoObject
    /\ UNCHANGED <<row, etag, lesson, link, upload, request, waiting, faults, history>>

JobRetries ==
    /\ worker = "upload" /\ worker' = "idle" /\ faults < FaultLimit
    /\ faults' = faults + 1 /\ waiting' = waiting + 1
    /\ UNCHANGED <<row, etag, lesson, link, objects, request, history>>

-----------------------------------------------------------------------------

Confirm(r) ==
    \/ LoadToConfirm(r) \/ CheckUpload(r) \/ CopyUpload(r) \/ CheckFile(r)
    \/ ConfirmRow(r) \/ DropConfirmedUpload(r)

Remove(r) ==
    \/ LoadToRemove(r) \/ RemoveUpload(r) \/ RemoveFile(r) \/ RemovalFails(r)
    \/ DeleteRow(r)

DeleteJob == JobDropsUpload \/ JobDropsFile \/ JobRetries

Next ==
    \/ Create \/ StartLesson \/ CancelLesson
    \/ LinkExpires \/ LifecycleDropsUpload \/ \E content \in Contents : Put(content)
    \/ \E r \in Requests : Confirm(r) \/ Remove(r) \/ Abort(r)
    \/ DeleteJob

Spec == Init /\ [][Next]_vars

-----------------------------------------------------------------------------

TypeOK ==
    /\ row \in {"absent", "pending", "ready", "gone"}
    /\ {etag, upload, file} \subseteq Contents \cup {NoObject}
    /\ \A r \in Requests : request[r].tag \in Declared \cup {NoObject}
    /\ waiting \in Nat /\ faults \in 0..FaultLimit

\* A material shown to participants has the declared file that was confirmed,
\* unless it is being removed: whatever the browser uploads over what api has
\* already checked, and whichever request is slow.  Excused: two confirms
\* under way at once (the later copy replaces the confirmed file) and a
\* removal that died half way.
ReadyHasFile ==
    row = "ready" /\ Removing = {} /\ ~overlap /\ ~lost =>
        file = etag /\ file \in Declared

\* No file outlives its row: a request that still has to look at it, or a
\* job, will delete it.  Excused: a request that died with it, a failed
\* removal that finds no row to queue the job with, and a confirm that marked
\* the row between the removal of the file and of the row.
NoOrphanFile ==
    row = "gone" /\ file # NoObject /\ ~late /\ ~lost =>
        \/ waiting > 0 \/ worker # "idle"
        \/ \E r \in Requests : request[r].at \in {"copied", "checked", "dropUpload", "dropFile"}
                                \/ (request[r].at = "dropRow" /\ request[r].left)
=============================================================================
