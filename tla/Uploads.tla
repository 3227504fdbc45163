------------------------------- MODULE Uploads -------------------------------
(***************************************************************************)
(* From an upload to a video: chunks, assembly, publication, deletion and  *)
(* the cleanup of abandoned uploads (video.go, application/video).         *)
(*                                                                         *)
(* MySQL and the data directory change in separate steps, requests overlap *)
(* and may die between any two steps.  One user uploads one file as many   *)
(* times as there are uploads.  The Redis copies of cacheUpload answer     *)
(* status requests only and are left out.                                  *)
(***************************************************************************)
EXTENDS Integers, FiniteSets, FiniteSetsExt

CONSTANTS
    Upload,     \* upload ids
    Caller,     \* requests under way at once
    Chunks,     \* number of chunks of the file
    Name,       \* names a published file may get (uuids)
    Capacity,   \* MaxMediaBytes, in files of this size
    MaxFaults   \* bound: failed transactions and renames, requests that die

ASSUME UploadConstants ==
    /\ IsFiniteSet(Upload) /\ IsFiniteSet(Name)
    /\ Chunks \in Nat \ {0}
    /\ {Capacity, MaxFaults} \subseteq Nat

VARIABLES
    row,        \* the table uploads
    parts,      \* tmp/<id>/: the chunks
    ready,      \* tmp/<id>.mp4
    shelf,      \* media/videos/: the upload each file came from
    video,      \* the table video, by the name of its file
    cover,      \* where the user's cover image is
    call,       \* requests
    sweep,      \* cleanupUploads: the uploads it has listed, and whose files it has removed
    faults,
    assembled,  \* history: how many times the file of an upload was put in place
    stranded,   \* history: uploads whose publication died after the file was moved
    disowned,   \* history: videos whose publication was taken back after it had committed
    removed     \* history: videos whose author was told that they are deleted

uploadVars == <<row, parts, ready, shelf, video, cover, call, sweep, faults, assembled,
                stranded, disowned, removed>>

-----------------------------------------------------------------------------
Part == 1..Chunks

\* A chunk that is missing, right, or not the one of the file with this MD5.
PartState == {"none", "good", "bad"}

\* No row yet, or not any more.
NoRow == [age |-> "none"]

GoneRow == [age |-> "gone"]

\* Younger than 24 hours, than 48 hours, or older.
UploadRow == [age: {"fresh", "old", "stale"}, completed: BOOLEAN, published: BOOLEAN]

\* A file that is not there; whole: its MD5 is the one of initUpload.
FileState == {"none", "whole", "broken"}

NoVideo == [status |-> "none"]

VideoRow == [status: {"published", "offline", "deleted"}, upload: Upload, covered: BOOLEAN]

IdleCall == [pc |-> "idle"]

ReqState ==
    [pc: {"create"}]
    \cup [pc: {"chunk"}, upload: Upload, part: Part, data: PartState \ {"none"}]
    \cup [pc: {"assemble"}, upload: Upload, next: 1..Chunks + 1, sound: BOOLEAN]
    \cup [pc: {"record", "tidy"}, upload: Upload]
    \cup [pc: {"move"}, upload: Upload, covered: BOOLEAN]
    \cup [pc: {"cover", "commit"}, upload: Upload, covered: BOOLEAN, name: Name]
    \cup [pc: {"delete"}, name: Name]

NotSwept == [u \in Upload |-> "none"]

UploadsTypeOK ==
    /\ row \in [Upload -> UploadRow \cup {NoRow, GoneRow}]
    /\ parts \in [Upload -> [Part -> PartState]]
    /\ ready \in [Upload -> FileState]
    /\ shelf \in [Name -> FileState]
    /\ video \in [Name -> VideoRow \cup {NoVideo}]
    /\ cover \in {"none", "tmp", "media"}
    /\ call \in [Caller -> ReqState \cup {IdleCall}]
    /\ sweep \in [Upload -> {"none", "listed", "emptied"}]
    /\ faults \in 0..MaxFaults
    /\ assembled \in [Upload -> Nat]
    /\ stranded \in SUBSET Upload
    /\ disowned \in SUBSET Name
    /\ removed \in SUBSET Name

UploadsInit ==
    /\ row = [u \in Upload |-> NoRow]
    /\ parts = [u \in Upload |-> [i \in Part |-> "none"]]
    /\ ready = [u \in Upload |-> "none"]
    /\ shelf = [n \in Name |-> "none"]
    /\ video = [n \in Name |-> NoVideo]
    /\ cover = "none"
    /\ call = [c \in Caller |-> IdleCall]
    /\ sweep = NotSwept
    /\ faults = 0
    /\ assembled = [u \in Upload |-> 0]
    /\ stranded = {}
    /\ disowned = {}
    /\ removed = {}

Alive(u) == row[u].age \in {"fresh", "old", "stale"}

Goto(c, state) == call' = [call EXCEPT ![c] = state]

Done(c) == Goto(c, IdleCall)

Fault ==
    /\ faults < MaxFaults
    /\ faults' = faults + 1

-----------------------------------------------------------------------------
(* initUpload, uploadChunk and completeUpload.                             *)

\* The uploads initUpload resumes.
Reusable == {u \in Upload : row[u].age = "fresh" /\ ~row[u].published}

\* SUM(size) over the view of published videos.
Used == Cardinality({n \in Name : video[n].status = "published"})

\* Nothing to resume and room for the file; what is being uploaded does not count.
InitUpload(c) ==
    /\ call[c] = IdleCall
    /\ Reusable = {}
    /\ Used < Capacity
    /\ Goto(c, [pc |-> "create"])
    /\ UNCHANGED <<row, parts, ready, shelf, video, cover, sweep, faults, assembled,
                   stranded, disowned, removed>>

CreateUpload(c, u) ==
    /\ call[c].pc = "create"
    /\ row[u] = NoRow
    /\ row' = [row EXCEPT ![u] = [age |-> "fresh", completed |-> FALSE, published |-> FALSE]]
    /\ Done(c)
    /\ UNCHANGED <<parts, ready, shelf, video, cover, sweep, faults, assembled, stranded,
                   disowned, removed>>

\* uploadFor on a request that writes, and the check of Completed.
OpenFor(u) == row[u].age = "fresh" /\ ~row[u].completed

ChunkBegin(c, u, i, data) ==
    /\ call[c] = IdleCall
    /\ OpenFor(u)
    /\ Goto(c, [pc |-> "chunk", upload |-> u, part |-> i, data |-> data])
    /\ UNCHANGED <<row, parts, ready, shelf, video, cover, sweep, faults, assembled,
                   stranded, disowned, removed>>

\* The rename of the chunk, or an error: a bad checksum, or no directory any more.
ChunkStore(c) ==
    /\ call[c].pc = "chunk"
    /\ \/ parts' = [parts EXCEPT ![call[c].upload][call[c].part] = call[c].data]
       \/ UNCHANGED parts
    /\ Done(c)
    /\ UNCHANGED <<row, ready, shelf, video, cover, sweep, faults, assembled, stranded,
                   disowned, removed>>

CompleteBegin(c, u) ==
    /\ call[c] = IdleCall
    /\ OpenFor(u)
    /\ Goto(c, [pc |-> "assemble", upload |-> u, next |-> 1, sound |-> TRUE])
    /\ UNCHANGED <<row, parts, ready, shelf, video, cover, sweep, faults, assembled,
                   stranded, disowned, removed>>

\* One chunk after the other, as it is now; a missing one ends the request.
CompletePart(c) ==
    LET r == call[c]
        data == parts[r.upload][r.next]
    IN
    /\ r.pc = "assemble"
    /\ r.next <= Chunks
    /\ IF data = "none"
       THEN Done(c)
       ELSE Goto(c, [r EXCEPT !.next = @ + 1, !.sound = @ /\ data = "good"])
    /\ UNCHANGED <<row, parts, ready, shelf, video, cover, sweep, faults, assembled,
                   stranded, disowned, removed>>

\* Size and MD5 of what was read, and the header of an MP4.
Checksum(r) == r.sound

\* The checks, then the rename to tmp/<id>.mp4.
CompletePlace(c) ==
    LET r == call[c] IN
    /\ r.pc = "assemble"
    /\ r.next = Chunks + 1
    /\ IF Checksum(r)
       THEN /\ ready' = [ready EXCEPT ![r.upload] = IF r.sound THEN "whole" ELSE "broken"]
            /\ assembled' = [assembled EXCEPT ![r.upload] = @ + 1]
            /\ Goto(c, [pc |-> "record", upload |-> r.upload])
       ELSE Done(c) /\ UNCHANGED <<ready, assembled>>
    /\ UNCHANGED <<row, parts, shelf, video, cover, sweep, faults, stranded, disowned,
                   removed>>

\* The update of completed and stored_path, whatever the row says by now.
CompleteRecord(c) ==
    LET u == call[c].upload IN
    /\ call[c].pc = "record"
    /\ row' = IF Alive(u) THEN [row EXCEPT ![u].completed = TRUE] ELSE row
    /\ Goto(c, [pc |-> "tidy", upload |-> u])
    /\ UNCHANGED <<parts, ready, shelf, video, cover, sweep, faults, assembled, stranded,
                   disowned, removed>>

\* RemoveAll of the chunks.
CompleteTidy(c) ==
    /\ call[c].pc = "tidy"
    /\ parts' = [parts EXCEPT ![call[c].upload] = [i \in Part |-> "none"]]
    /\ Done(c)
    /\ UNCHANGED <<row, ready, shelf, video, cover, sweep, faults, assembled, stranded,
                   disowned, removed>>

-----------------------------------------------------------------------------
(* uploadCover and publishVideo.                                           *)

UploadCover ==
    /\ cover = "none"
    /\ cover' = "tmp"
    /\ UNCHANGED <<row, parts, ready, shelf, video, call, sweep, faults, assembled,
                   stranded, disowned, removed>>

\* The row, the file and the cover as they are now.  No age is too old.
PublishRead(c, u, covered) ==
    /\ call[c] = IdleCall
    /\ Alive(u)
    /\ row[u].completed /\ ~row[u].published
    /\ ready[u] # "none"
    /\ covered => cover = "tmp"
    /\ Goto(c, [pc |-> "move", upload |-> u, covered |-> covered])
    /\ UNCHANGED <<row, parts, ready, shelf, video, cover, sweep, faults, assembled,
                   stranded, disowned, removed>>

\* Mutant: the file is copied, not renamed.
LeftBehindCopy(u) == ready[u]

\* The rename leaves nothing under the old name.
LeftBehind(u) == "none"

\* The rename to a new name under media; it fails when the file is gone.
PublishMove(c, n) ==
    LET r == call[c]
        step == [pc |-> IF r.covered THEN "cover" ELSE "commit", upload |-> r.upload,
                 covered |-> r.covered, name |-> n]
    IN
    /\ r.pc = "move"
    /\ shelf[n] = "none" /\ video[n] = NoVideo
    /\ \A d \in Caller : call[d].pc \in {"cover", "commit"} => call[d].name # n
    /\ IF ready[r.upload] = "none"
       THEN Done(c) /\ UNCHANGED <<ready, shelf>>
       ELSE /\ shelf' = [shelf EXCEPT ![n] = ready[r.upload]]
            /\ ready' = [ready EXCEPT ![r.upload] = LeftBehind(r.upload)]
            /\ Goto(c, step)
    /\ UNCHANGED <<row, parts, video, cover, sweep, faults, assembled, stranded, disowned,
                   removed>>

\* Mutant: a publication that fails does not give the file back.
MovedBackNever(r) == UNCHANGED <<ready, shelf>>

\* The file is renamed back to StoredPath.
MovedBack(r) ==
    /\ ready' = [ready EXCEPT ![r.upload] = shelf[r.name]]
    /\ shelf' = [shelf EXCEPT ![r.name] = "none"]

\* The rename of the cover; when it fails the file goes back.
PublishCover(c) ==
    LET r == call[c] IN
    /\ r.pc = "cover"
    /\ \/ /\ cover = "tmp"
          /\ cover' = "media"
          /\ Goto(c, [r EXCEPT !.pc = "commit"])
          /\ UNCHANGED <<ready, shelf>>
       \/ /\ cover # "tmp"
          /\ MovedBack(r)
          /\ Done(c)
          /\ UNCHANGED cover
    /\ UNCHANGED <<row, parts, video, sweep, faults, assembled, stranded, disowned,
                   removed>>

\* The transaction: the video, published if it is not yet, and the event
\* (OutboxRelay).  That no row may have matched is not looked at.
Committed(r) ==
    /\ video' = [video EXCEPT ![r.name] =
           [status |-> "published", upload |-> r.upload, covered |-> r.covered]]
    /\ row' = IF Alive(r.upload) THEN [row EXCEPT ![r.upload].published = TRUE] ELSE row

PublishCommit(c) ==
    /\ call[c].pc = "commit"
    /\ Committed(call[c])
    /\ Done(c)
    /\ UNCHANGED <<parts, ready, shelf, cover, sweep, faults, assembled, stranded,
                   disowned, removed>>

\* The chmod or the rename of the cover fails, or the transaction is rolled back:
\* the file goes back, a cover that was moved stays under media.
PublishFails(c) ==
    /\ call[c].pc \in {"cover", "commit"}
    /\ Fault
    /\ MovedBack(call[c])
    /\ Done(c)
    /\ UNCHANGED <<row, parts, video, cover, sweep, assembled, stranded, disowned, removed>>

\* The COMMIT takes effect and its answer is lost.  Transaction returns an error
\* like any other, and the file of a video that is published goes back.
PublishUnanswered(c) ==
    /\ call[c].pc = "commit"
    /\ Fault
    /\ Committed(call[c])
    /\ MovedBack(call[c])
    /\ disowned' = disowned \cup {call[c].name}
    /\ Done(c)
    /\ UNCHANGED <<parts, cover, sweep, assembled, stranded, removed>>

\* The process dies, or an error ends the request where nothing is undone.
CallDies(c) ==
    /\ call[c] # IdleCall
    /\ Fault
    /\ stranded' = IF call[c].pc \in {"cover", "commit"}
                   THEN stranded \cup {call[c].upload} ELSE stranded
    /\ Done(c)
    /\ UNCHANGED <<row, parts, ready, shelf, video, cover, sweep, assembled, disowned,
                   removed>>

-----------------------------------------------------------------------------
(* Time, and cleanupUploads.                                               *)

\* 24 or 48 hours have passed; no request of the upload's first day lasts a day.
Age(u) ==
    /\ row[u].age \in {"fresh", "old"}
    /\ row[u].age = "old" => \A c \in Caller :
           call[c].pc \in {"chunk", "assemble", "record", "tidy"} => call[c].upload # u
    /\ row' = [row EXCEPT ![u].age = IF @ = "fresh" THEN "old" ELSE "stale"]
    /\ UNCHANGED <<parts, ready, shelf, video, cover, call, sweep, faults, assembled,
                   stranded, disowned, removed>>

\* The query for unpublished uploads older than 48 hours.
CleanupList ==
    /\ sweep = NotSwept
    /\ sweep' = [u \in Upload |->
           IF row[u].age = "stale" /\ ~row[u].published THEN "listed" ELSE "none"]
    /\ sweep' # sweep
    /\ UNCHANGED <<row, parts, ready, shelf, video, cover, call, faults, assembled,
                   stranded, disowned, removed>>

\* RemoveAll of the chunks, and of StoredPath if there is one.
CleanupFiles(u) ==
    /\ sweep[u] = "listed"
    /\ sweep' = [sweep EXCEPT ![u] = "emptied"]
    /\ parts' = [parts EXCEPT ![u] = [i \in Part |-> "none"]]
    /\ ready' = IF row[u].completed THEN [ready EXCEPT ![u] = "none"] ELSE ready
    /\ UNCHANGED <<row, shelf, video, cover, call, faults, assembled, stranded, disowned,
                   removed>>

\* The row goes, whatever it says by now.
CleanupRow(u) ==
    /\ sweep[u] = "emptied"
    /\ row' = [row EXCEPT ![u] = GoneRow]
    /\ sweep' = [sweep EXCEPT ![u] = "none"]
    /\ UNCHANGED <<parts, ready, shelf, video, cover, call, faults, assembled, stranded,
                   disowned, removed>>

\* An error or the end of the process stops the cleanup where it is.
CleanupStops ==
    /\ sweep # NotSwept
    /\ Fault
    /\ sweep' = NotSwept
    /\ UNCHANGED <<row, parts, ready, shelf, video, cover, call, assembled, stranded,
                   disowned, removed>>

-----------------------------------------------------------------------------
(* Service.Delete and adminUpdateVideo.                                    *)

\* The row is read without a lock; deleting twice is a success.
DeleteRead(c, n) ==
    /\ call[c] = IdleCall
    /\ video[n].status \in {"published", "offline"}
    /\ Goto(c, [pc |-> "delete", name |-> n])
    /\ UNCHANGED <<row, parts, ready, shelf, video, cover, sweep, faults, assembled,
                   stranded, disowned, removed>>

\* Video.DeleteBy, for the author.
DeleteBy(v) == [v EXCEPT !.status = "deleted"]

\* The column alone, whatever it says by now.
UpdateStatus(n, v) == video' = [video EXCEPT ![n].status = v.status]

DeleteWrite(c) ==
    LET n == call[c].name IN
    /\ call[c].pc = "delete"
    /\ UpdateStatus(n, DeleteBy(video[n]))
    /\ removed' = removed \cup {n}
    /\ Done(c)
    /\ UNCHANGED <<row, parts, ready, shelf, cover, sweep, faults, assembled, stranded,
                   disowned>>

\* The locked row, unless it is deleted: status 2 or 3.
Moderate(n) ==
    /\ video[n].status \in {"published", "offline"}
    /\ video' = [video EXCEPT ![n].status = IF @ = "published" THEN "offline" ELSE "published"]
    /\ UNCHANGED <<row, parts, ready, shelf, cover, call, sweep, faults, assembled,
                   stranded, disowned, removed>>

UploadsNext ==
    \/ \E c \in Caller :
          \/ InitUpload(c) \/ ChunkStore(c) \/ CompletePart(c) \/ CompletePlace(c)
          \/ CompleteRecord(c) \/ CompleteTidy(c) \/ PublishCover(c) \/ PublishCommit(c)
          \/ PublishFails(c) \/ PublishUnanswered(c) \/ CallDies(c) \/ DeleteWrite(c)
    \/ \E c \in Caller, u \in Upload :
          \/ CreateUpload(c, u) \/ CompleteBegin(c, u)
          \/ \E i \in Part, data \in {"good", "bad"} : ChunkBegin(c, u, i, data)
          \/ \E covered \in BOOLEAN : PublishRead(c, u, covered)
    \/ \E c \in Caller, n \in Name : PublishMove(c, n) \/ DeleteRead(c, n)
    \/ \E u \in Upload : Age(u) \/ CleanupFiles(u) \/ CleanupRow(u)
    \/ \E n \in Name : Moderate(n)
    \/ UploadCover \/ CleanupList \/ CleanupStops

UploadsSpec == UploadsInit /\ [][UploadsNext]_uploadVars

-----------------------------------------------------------------------------
Videos == {n \in Name : video[n] # NoVideo}

\* What a video plays is there and is what the user uploaded, unless publishVideo
\* took the file back from a publication whose COMMIT it believed to have failed.
FilesWhole ==
    \A n \in Videos : /\ shelf[n] = "whole" \/ n \in disowned
                      /\ video[n].covered => cover = "media"

\* Publications of one upload exclude each other by renaming its file: every
\* video that keeps its file has one that a completeUpload has put in place.
OneVideoPerFile ==
    \A u \in Upload :
        Cardinality({n \in Videos \ disowned : video[n].upload = u}) <= assembled[u]

\* No moderation brings a deleted video back.
DeletedStays == \A n \in removed : video[n].status = "deleted"

\* The library is sound whatever overlaps, is rolled back or dies: every video has
\* the whole file and the cover it was published with and shares its file with no
\* other, although publishVideo moves files before its transaction and does not
\* look at RowsAffected, and a video deleted by its author stays deleted, although
\* Delete reads and writes without a lock.  The exception is a publication whose
\* COMMIT took effect without an answer: publishVideo takes that video's file back.
LibrarySound == FilesWhole /\ OneVideoPerFile /\ DeletedStays

\* An upload that was completed can be published until it is 48 hours old: its
\* file waits under tmp, or a publication that is under way has it and will give
\* it back when it fails.  The exception is a publication that died after moving
\* the file (publishVideo, completeUpload, cleanupUploads).
Publishable ==
    \A u \in Upload :
        row[u].age \in {"fresh", "old"} /\ row[u].completed /\ ~row[u].published =>
            \/ ready[u] = "whole"
            \/ u \in stranded
            \/ \E c \in Caller : call[c].pc \in {"cover", "commit"} /\ call[c].upload = u
=============================================================================
