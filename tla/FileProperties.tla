---------------------------- MODULE FileProperties ----------------------------
(* What uploads and deletions guarantee, and what they do not.             *)
EXTENDS FileLifecycle

FileStages == {"idle", "put", "markFailed", "mark", "object", "unmark", "drop",
           "done", "failed", "dead"}

(* Every variable has its type; nothing is in the object store or in       *)
(* file_objects that has no row in files: the row is created first, so     *)
(* that every failure leaves a trace (service.go:135).                     *)
FilesTypeOK ==
  /\ row \in [Files -> Statuses]
  /\ up \in [Files -> FileStages]
  /\ deleter \in [Deleters -> {"idle", "lookup", "mark", "drop"}]
  /\ fileOf \in [Deleters -> Files \cup {NoFile}]
  /\ found \subseteq Deleters
  /\ objects \cup store \subseteq {f \in Files : row[f] # "none"}
  /\ lossyFiles \subseteq Files /\ raced \subseteq Files /\ askedFiles \subseteq Files
  /\ removed \subseteq Files /\ published \subseteq Files

(* An upload that was reported as done and is shown as uploaded can be     *)
(* downloaded, whoever tries to delete it and fails (service.go:227-248).  *)
UploadedIsDownloadable ==
  \A f \in Files : up[f] = "done" /\ row[f] = "uploaded" => Downloadable(f)

(* A deletion that was reported as done, and met no upload, stays: nobody  *)
(* writes the row back (service.go:237-241).                               *)
DeletionSticks == \A f \in removed \ raced : row[f] = "deleted"

(* An object in the store is in use, or somebody is about to delete it,    *)
(* unless a call failed or a process died, or a deletion looked for the    *)
(* object before its row was there (service.go:159, 175, 244).             *)
NoStrayObject ==
  \A f \in store \ (lossyFiles \cup raced) :
    \/ InFlight(f)
    \/ Downloadable(f)
    \/ \E q \in Deleters : fileOf[q] = f /\ deleter[q] = "drop"

(* The downloadable files are a register: FileRegister's promise.          *)
FilePromise == INSTANCE FileRegister WITH
  asked    <- askedFiles,
  avail    <- {f \in Files : Downloadable(f)},
  gone     <- {f \in published : ~Downloadable(f)},
  reported <- {f \in Files : up[f] = "done"}

RefinesRegister == FilePromise!RegSpec

-----------------------------------------------------------------------------
(* The inductive strengthening of the safety properties.                   *)
Settled(f) == up[f] \in {"done", "failed", "dead"}

(* What the stage of an upload says of the tables and the store.           *)
StageInv ==
  \A f \in Files :
    /\ InFlight(f) \/ up[f] = "done" => row[f] # "none"
    /\ up[f] = "idle" => row[f] = "none"
    /\ up[f] \in {"mark", "object"} => f \in store
    /\ up[f] = "object" => row[f] \in {"uploaded", "deleted"}
    /\ up[f] = "markFailed" => f \in lossyFiles
    /\ InFlight(f) /\ row[f] = "deleted" => f \in raced
    /\ row[f] = "deleted" => f \in askedFiles
    /\ f \in objects => Settled(f) \/ up[f] \in {"unmark", "drop"}
    /\ up[f] = "done" => f \in objects /\ row[f] \in {"uploaded", "deleted"}
    /\ up[f] = "done" /\ row[f] = "uploaded" => f \in store
    /\ up[f] \in {"failed", "dead"} /\ f \in store => f \in lossyFiles

(* What a request to delete knows of its file.                             *)
DeleteInv ==
  \A q \in Deleters :
    LET f == fileOf[q] IN
    deleter[q] # "idle" =>
      /\ f \in askedFiles /\ row[f] # "none"
      /\ deleter[q] = "drop" => q \in found /\ row[f] \in {"deleted", "failed"}
      /\ deleter[q] = "drop" /\ f \notin raced => row[f] = "deleted"
      /\ deleter[q] \in {"mark", "drop"} /\ q \in found => f \in objects
      /\ deleter[q] \in {"mark", "drop"} /\ f \notin raced => Settled(f)
      /\ deleter[q] = "mark" /\ f \notin raced \cup lossyFiles /\ f \in objects => q \in found

(* A deletion that met no upload came after it.                            *)
RemovedInv == \A f \in removed \ raced : Settled(f) /\ row[f] = "deleted"

(* Only what is in file_objects was ever published, and nothing else is    *)
(* downloadable.                                                           *)
PublishedInv ==
  /\ published \subseteq objects
  /\ \A f \in Files : Downloadable(f) => f \in published

FileInv == FilesTypeOK /\ StageInv /\ DeleteInv /\ RemovedInv /\ PublishedInv
=============================================================================
