----------------------------- MODULE FileLifecycle -----------------------------
(***************************************************************************)
(* Uploading and deleting files, over the tables files and file_objects    *)
(* and the object store.  There is no transaction: every call is a step of *)
(* its own, may fail, and may fail after it took effect; a request may die *)
(* with its process between any two of them.                               *)
(*                                                                         *)
(* A file is listed, and can be deleted, from its first row on, while it   *)
(* is still being uploaded.                                                *)
(***************************************************************************)
CONSTANTS
  Files,     \* files that may be uploaded, each by one request
  Deleters,  \* requests to delete a file, as many as may overlap
  NoFile     \* the file of a request that has none

ASSUME FileAssumption == NoFile \notin Files

VARIABLES
  row,      \* status in the table files, "none" where there is no row
  objects,  \* files with a row in file_objects
  store,    \* files whose object is in the object store
  up,       \* where the upload of a file is
  deleter,       \* where a request to delete is
  fileOf,   \* the file it deletes
  found,    \* the requests that found the file's row in file_objects
  \* history
  lossyFiles,    \* files with an error that may have left their object behind
  raced,    \* files a deletion looked up while their upload was under way
  askedFiles,    \* files somebody asked to delete
  removed,  \* files whose deletion was reported as done
  published \* files that were downloadable

fileTables  == <<row, objects, store>>
deletion == <<deleter, fileOf, found>>
fileHistory == <<lossyFiles, raced, askedFiles, removed, published>>
filesVars    == <<fileTables, up, deletion, fileHistory>>

-----------------------------------------------------------------------------
Statuses == {"none", "uploading", "uploaded", "failed", "deleted"}

(* A download finds the row, the object's row and the object.              *)
DownloadableIn(r, o, s, f) == r[f] = "uploaded" /\ f \in o /\ f \in s
Downloadable(f) == DownloadableIn(row, objects, store, f)

InFlight(f) == up[f] \in {"put", "markFailed", "mark", "object", "unmark", "drop"}

UploadAt(f, here, next) == up[f] = here /\ up' = [up EXCEPT ![f] = next]
DeleterAt(q, here, next) == deleter[q] = here /\ deleter' = [deleter EXCEPT ![q] = next]

(* FileRepo.Update writes the whole row back, whatever it says by now.     *)
Put(f, status) == row' = [row EXCEPT ![f] = status]

(* A call that failed took effect or it did not.                           *)
MaybePut(f, status) == Put(f, status) \/ UNCHANGED row

(* DeleteObject, best effort.                                              *)
TryDrop(f) == \/ store' = store \ {f} /\ UNCHANGED lossyFiles
              \/ UNCHANGED store /\ lossyFiles' = lossyFiles \cup {f}

-----------------------------------------------------------------------------
(* Upload.                                                                 *)

CreateFile(f) ==
  /\ UploadAt(f, "idle", "put")
  /\ Put(f, "uploading")
  /\ UNCHANGED <<objects, store, deletion, fileHistory>>

(* Mutant of CreateFileError: the object is stored all the same.            *)
CreateFileErrorIgnored(f) ==
  /\ UploadAt(f, "idle", "put")
  /\ MaybePut(f, "uploading")
  /\ UNCHANGED <<objects, store, deletion, fileHistory>>

CreateFileError(f) ==
  /\ UploadAt(f, "idle", "failed")
  /\ MaybePut(f, "uploading")
  /\ UNCHANGED <<objects, store, deletion, fileHistory>>

PutObject(f) ==
  /\ UploadAt(f, "put", "mark")
  /\ store' = store \cup {f}
  /\ UNCHANGED <<row, objects, deletion, fileHistory>>

PutObjectError(f) ==
  /\ UploadAt(f, "put", "markFailed")
  /\ store' \in {store, store \cup {f}}
  /\ lossyFiles' = lossyFiles \cup {f}
  /\ UNCHANGED <<row, objects, deletion, raced, askedFiles, removed, published>>

(* The upload failed: the row is marked, best effort.                      *)
MarkFailed(f) ==
  /\ UploadAt(f, "markFailed", "failed")
  /\ MaybePut(f, "failed")
  /\ UNCHANGED <<objects, store, deletion, fileHistory>>

MarkUploaded(f) ==
  /\ UploadAt(f, "mark", "object")
  /\ Put(f, "uploaded")
  /\ UNCHANGED <<objects, store, deletion, fileHistory>>

MarkUploadedError(f) ==
  /\ UploadAt(f, "mark", "drop")
  /\ MaybePut(f, "uploaded")
  /\ UNCHANGED <<objects, store, deletion, fileHistory>>

(* Who published a file: the step after which one can download it.         *)
Publishes == published' = published \cup {f \in Files :
                 DownloadableIn(row', objects', store', f)}

CreateObject(f) ==
  /\ UploadAt(f, "object", "done")
  /\ objects' = objects \cup {f}
  /\ UNCHANGED <<row, store, deletion, lossyFiles, raced, askedFiles, removed>>
  /\ Publishes

(* Mutant of CreateObjectError: the upload is reported as done.             *)
CreateObjectErrorIgnored(f) ==
  /\ UploadAt(f, "object", "done")
  /\ objects' \in {objects, objects \cup {f}}
  /\ UNCHANGED <<row, store, deletion, lossyFiles, raced, askedFiles, removed>>
  /\ Publishes

CreateObjectError(f) ==
  /\ UploadAt(f, "object", "unmark")
  /\ objects' \in {objects, objects \cup {f}}
  /\ UNCHANGED <<row, store, deletion, lossyFiles, raced, askedFiles, removed>>
  /\ Publishes

(* Mutant of Unmark: the upload starts over instead of giving up.           *)
UnmarkAndRetry(f) ==
  /\ UploadAt(f, "unmark", "mark")
  /\ MaybePut(f, "failed")
  /\ UNCHANGED <<objects, store, deletion, fileHistory>>

(* Mutant of Unmark: the object is left in the store.                       *)
UnmarkOnly(f) ==
  /\ UploadAt(f, "unmark", "failed")
  /\ MaybePut(f, "failed")
  /\ UNCHANGED <<objects, store, deletion, fileHistory>>

Unmark(f) ==
  /\ UploadAt(f, "unmark", "drop")
  /\ MaybePut(f, "failed")
  /\ UNCHANGED <<objects, store, deletion, fileHistory>>

Drop(f) ==
  /\ UploadAt(f, "drop", "failed")
  /\ TryDrop(f)
  /\ UNCHANGED <<row, objects, deletion, raced, askedFiles, removed, published>>

-----------------------------------------------------------------------------
(* Delete.                                                                 *)

LoadVisibleFile(q, f) ==
  /\ row[f] \notin {"none", "deleted"}
  /\ DeleterAt(q, "idle", "lookup")
  /\ fileOf' = [fileOf EXCEPT ![q] = f]
  /\ askedFiles' = askedFiles \cup {f}
  /\ UNCHANGED <<fileTables, up, found, lossyFiles, raced, removed, published>>

(* An error is taken for "no object".                                      *)
GetObjectRow(q) ==
  LET f == fileOf[q] IN
  /\ DeleterAt(q, "lookup", "mark")
  /\ \/ f \in objects /\ found' = found \cup {q} /\ UNCHANGED lossyFiles
     \/ f \notin objects /\ found' = found \ {q} /\ UNCHANGED lossyFiles
     \/ found' = found \ {q} /\ lossyFiles' = lossyFiles \cup {f}
  /\ raced' = raced \cup {g \in {f} : InFlight(g)}
  /\ UNCHANGED <<fileTables, up, fileOf, askedFiles, removed, published>>

MarkDeleted(q) ==
  LET f == fileOf[q] IN
  /\ DeleterAt(q, "mark", IF q \in found THEN "drop" ELSE "idle")
  /\ Put(f, "deleted")
  /\ removed' = IF q \in found THEN removed ELSE removed \cup {f}
  /\ UNCHANGED <<objects, store, up, fileOf, found, lossyFiles, raced, askedFiles, published>>

(* The request fails.  Had the row been written, the object stays.         *)
MarkDeletedError(q) ==
  LET f == fileOf[q] IN
  /\ DeleterAt(q, "mark", "idle")
  /\ MaybePut(f, "deleted")
  /\ lossyFiles' = lossyFiles \cup {f}
  /\ UNCHANGED <<objects, store, up, fileOf, found, raced, askedFiles, removed, published>>

(* Mutant of DropObject: the file comes back when its object stays.         *)
DropObjectOrRestore(q) ==
  LET f == fileOf[q] IN
  /\ DeleterAt(q, "drop", "idle")
  /\ removed' = removed \cup {f}
  /\ \/ store' = store \ {f} /\ UNCHANGED <<row, lossyFiles>>
     \/ Put(f, "uploaded") /\ lossyFiles' = lossyFiles \cup {f} /\ UNCHANGED store
  /\ UNCHANGED <<objects, up, fileOf, found, raced, askedFiles, published>>

DropObject(q) ==
  LET f == fileOf[q] IN
  /\ DeleterAt(q, "drop", "idle")
  /\ TryDrop(f)
  /\ removed' = removed \cup {f}
  /\ UNCHANGED <<row, objects, up, fileOf, found, raced, askedFiles, published>>

-----------------------------------------------------------------------------
(* The process of a request dies.                                          *)

CrashUpload(f) ==
  /\ InFlight(f)
  /\ up' = [up EXCEPT ![f] = "dead"]
  /\ lossyFiles' = lossyFiles \cup {f}
  /\ UNCHANGED <<fileTables, deletion, raced, askedFiles, removed, published>>

CrashDelete(q) ==
  /\ deleter[q] # "idle"
  /\ deleter' = [deleter EXCEPT ![q] = "idle"]
  /\ lossyFiles' = lossyFiles \cup {fileOf[q]}
  /\ UNCHANGED <<fileTables, up, fileOf, found, raced, askedFiles, removed, published>>

-----------------------------------------------------------------------------
FilesInit ==
  /\ row = [f \in Files |-> "none"]
  /\ objects = {} /\ store = {}
  /\ up = [f \in Files |-> "idle"]
  /\ deleter = [q \in Deleters |-> "idle"]
  /\ fileOf = [q \in Deleters |-> NoFile]
  /\ found = {}
  /\ lossyFiles = {} /\ raced = {} /\ askedFiles = {} /\ removed = {} /\ published = {}

Upload(f) ==
  \/ CreateFile(f) \/ CreateFileError(f) \/ PutObject(f) \/ PutObjectError(f)
  \/ MarkFailed(f) \/ MarkUploaded(f) \/ MarkUploadedError(f)
  \/ CreateObject(f) \/ CreateObjectError(f) \/ Unmark(f) \/ Drop(f)

DeleteFile(q) ==
  \/ \E f \in Files : LoadVisibleFile(q, f)
  \/ GetObjectRow(q) \/ MarkDeleted(q) \/ MarkDeletedError(q) \/ DropObject(q)

FilesNext == \/ \E f \in Files : Upload(f) \/ CrashUpload(f)
        \/ \E q \in Deleters : DeleteFile(q) \/ CrashDelete(q)

FilesSpec == FilesInit /\ [][FilesNext]_filesVars
=============================================================================
