------------------------------ MODULE FileProofs ------------------------------
(***************************************************************************)
(* The safety of uploads and deletions, for any number of files and of     *)
(* overlapping requests, whatever fails and whoever dies.                  *)
(***************************************************************************)
EXTENDS FileProperties, TLAPS

(* At the start nothing is there.                                          *)
LEMMA InitInv == FilesInit => FileInv /\ NoStrayObject
BY FileAssumption
   DEF FilesInit, FileInv, FilesTypeOK, StageInv, DeleteInv, RemovedInv, PublishedInv,
       NoStrayObject, Downloadable, DownloadableIn, InFlight, Settled, FileStages, Statuses

-----------------------------------------------------------------------------
(* Every variable keeps its type.                                          *)
LEMMA UploadType ==
  ASSUME FileInv, NoStrayObject, NEW f \in Files, Upload(f) \/ CrashUpload(f)
  PROVE  FilesTypeOK'
<1> USE DEF FileInv, UploadAt, Put, MaybePut, InFlight, fileTables, deletion, fileHistory,
            FilesTypeOK, StageInv, DeleteInv, FileStages, Statuses
<1>1. CASE CreateFile(f) BY <1>1 DEF CreateFile
<1>2. CASE CreateFileError(f) BY <1>2 DEF CreateFileError
<1>3. CASE PutObject(f) BY <1>3 DEF PutObject
<1>4. CASE PutObjectError(f) BY <1>4 DEF PutObjectError
<1>5. CASE MarkFailed(f) BY <1>5 DEF MarkFailed
<1>6. CASE MarkUploaded(f) BY <1>6 DEF MarkUploaded
<1>7. CASE MarkUploadedError(f) BY <1>7 DEF MarkUploadedError
<1>8. CASE CreateObject(f) BY <1>8 DEF CreateObject, Publishes
<1>9. CASE CreateObjectError(f) BY <1>9 DEF CreateObjectError, Publishes
<1>10. CASE Unmark(f) BY <1>10 DEF Unmark
<1>11. CASE Drop(f) BY <1>11 DEF Drop, TryDrop
<1>12. CASE CrashUpload(f) BY <1>12 DEF CrashUpload
<1> QED
  BY <1>1, <1>2, <1>3, <1>4, <1>5, <1>6, <1>7, <1>8, <1>9, <1>10, <1>11, <1>12
     DEF Upload

LEMMA DeleteType ==
  ASSUME FileInv, NoStrayObject, NEW q \in Deleters, DeleteFile(q) \/ CrashDelete(q)
  PROVE  FilesTypeOK'
<1> USE FileAssumption
    DEF FileInv, DeleterAt, Put, MaybePut, InFlight, fileTables,
        FilesTypeOK, StageInv, DeleteInv, FileStages, Statuses
<1>1. CASE \E f \in Files : LoadVisibleFile(q, f) BY <1>1 DEF LoadVisibleFile
<1>2. CASE GetObjectRow(q) BY <1>2 DEF GetObjectRow
<1>3. CASE MarkDeleted(q) BY <1>3 DEF MarkDeleted
<1>4. CASE MarkDeletedError(q) BY <1>4 DEF MarkDeletedError
<1>5. CASE DropObject(q) BY <1>5 DEF DropObject, TryDrop
<1>6. CASE CrashDelete(q) BY <1>6 DEF CrashDelete
<1> QED BY <1>1, <1>2, <1>3, <1>4, <1>5, <1>6 DEF DeleteFile

-----------------------------------------------------------------------------
(* The stage of an upload agrees with the tables and the store.            *)
LEMMA UploadStage ==
  ASSUME FileInv, NoStrayObject, NEW f \in Files, Upload(f) \/ CrashUpload(f)
  PROVE  StageInv'
<1> USE DEF FileInv, UploadAt, Put, MaybePut, InFlight, fileTables, deletion, fileHistory,
            FilesTypeOK, StageInv, DeleteInv, Settled, FileStages,
        Statuses
<1>1. CASE CreateFile(f) BY <1>1 DEF CreateFile
<1>2. CASE CreateFileError(f) BY <1>2 DEF CreateFileError
<1>3. CASE PutObject(f) BY <1>3 DEF PutObject
<1>4. CASE PutObjectError(f) BY <1>4 DEF PutObjectError
<1>5. CASE MarkFailed(f) BY <1>5 DEF MarkFailed
<1>6. CASE MarkUploaded(f) BY <1>6 DEF MarkUploaded
<1>7. CASE MarkUploadedError(f) BY <1>7 DEF MarkUploadedError
<1>8. CASE CreateObject(f) BY <1>8 DEF CreateObject, Publishes
<1>9. CASE CreateObjectError(f) BY <1>9 DEF CreateObjectError, Publishes
<1>10. CASE Unmark(f) BY <1>10 DEF Unmark
<1>11. CASE Drop(f) BY <1>11 DEF Drop, TryDrop
<1>12. CASE CrashUpload(f) BY <1>12 DEF CrashUpload
<1> QED
  BY <1>1, <1>2, <1>3, <1>4, <1>5, <1>6, <1>7, <1>8, <1>9, <1>10, <1>11, <1>12
     DEF Upload

LEMMA DeleteStage ==
  ASSUME FileInv, NoStrayObject, NEW q \in Deleters, DeleteFile(q) \/ CrashDelete(q)
  PROVE  StageInv'
<1> USE FileAssumption
    DEF FileInv, DeleterAt, Put, MaybePut, InFlight, fileTables,
        FilesTypeOK, StageInv, DeleteInv, Settled, FileStages,
        Statuses
<1>1. CASE \E f \in Files : LoadVisibleFile(q, f) BY <1>1 DEF LoadVisibleFile
<1>2. CASE GetObjectRow(q) BY <1>2 DEF GetObjectRow
<1>3. CASE MarkDeleted(q) BY <1>3 DEF MarkDeleted
<1>4. CASE MarkDeletedError(q) BY <1>4 DEF MarkDeletedError
<1>5. CASE DropObject(q) BY <1>5 DEF DropObject, TryDrop
<1>6. CASE CrashDelete(q) BY <1>6 DEF CrashDelete
<1> QED BY <1>1, <1>2, <1>3, <1>4, <1>5, <1>6 DEF DeleteFile

-----------------------------------------------------------------------------
(* What a deletion has seen stays true until it ends.                      *)
LEMMA UploadDelete ==
  ASSUME FileInv, NoStrayObject, NEW f \in Files, Upload(f) \/ CrashUpload(f)
  PROVE  DeleteInv'
<1> USE DEF FileInv, UploadAt, Put, MaybePut, InFlight, fileTables, deletion, fileHistory,
            FilesTypeOK, StageInv, DeleteInv, Settled, FileStages,
        Statuses
<1>1. CASE CreateFile(f) BY <1>1 DEF CreateFile
<1>2. CASE CreateFileError(f) BY <1>2 DEF CreateFileError
<1>3. CASE PutObject(f) BY <1>3 DEF PutObject
<1>4. CASE PutObjectError(f) BY <1>4 DEF PutObjectError
<1>5. CASE MarkFailed(f) BY <1>5 DEF MarkFailed
<1>6. CASE MarkUploaded(f) BY <1>6 DEF MarkUploaded
<1>7. CASE MarkUploadedError(f) BY <1>7 DEF MarkUploadedError
<1>8. CASE CreateObject(f) BY <1>8 DEF CreateObject, Publishes
<1>9. CASE CreateObjectError(f) BY <1>9 DEF CreateObjectError, Publishes
<1>10. CASE Unmark(f) BY <1>10 DEF Unmark
<1>11. CASE Drop(f) BY <1>11 DEF Drop, TryDrop
<1>12. CASE CrashUpload(f) BY <1>12 DEF CrashUpload
<1> QED
  BY <1>1, <1>2, <1>3, <1>4, <1>5, <1>6, <1>7, <1>8, <1>9, <1>10, <1>11, <1>12
     DEF Upload

LEMMA DeleteDelete ==
  ASSUME FileInv, NoStrayObject, NEW q \in Deleters, DeleteFile(q) \/ CrashDelete(q)
  PROVE  DeleteInv'
<1> USE FileAssumption
    DEF FileInv, DeleterAt, Put, MaybePut, InFlight, fileTables,
        FilesTypeOK, StageInv, DeleteInv, Settled, FileStages,
        Statuses
<1>1. CASE \E f \in Files : LoadVisibleFile(q, f) BY <1>1 DEF LoadVisibleFile
<1>2. CASE GetObjectRow(q) BY <1>2 DEF GetObjectRow
<1>3. CASE MarkDeleted(q) BY <1>3 DEF MarkDeleted
<1>4. CASE MarkDeletedError(q) BY <1>4 DEF MarkDeletedError
<1>5. CASE DropObject(q) BY <1>5 DEF DropObject, TryDrop
<1>6. CASE CrashDelete(q) BY <1>6 DEF CrashDelete
<1> QED BY <1>1, <1>2, <1>3, <1>4, <1>5, <1>6 DEF DeleteFile

-----------------------------------------------------------------------------
(* A deletion that met no upload is not overwritten.                       *)
LEMMA UploadRemoved ==
  ASSUME FileInv, NoStrayObject, NEW f \in Files, Upload(f) \/ CrashUpload(f)
  PROVE  RemovedInv'
<1> USE DEF FileInv, UploadAt, Put, MaybePut, InFlight, fileTables, deletion, fileHistory,
            FilesTypeOK, StageInv, DeleteInv, RemovedInv, Settled
<1>1. CASE CreateFile(f) BY <1>1 DEF CreateFile
<1>2. CASE CreateFileError(f) BY <1>2 DEF CreateFileError
<1>3. CASE PutObject(f) BY <1>3 DEF PutObject
<1>4. CASE PutObjectError(f) BY <1>4 DEF PutObjectError
<1>5. CASE MarkFailed(f) BY <1>5 DEF MarkFailed
<1>6. CASE MarkUploaded(f) BY <1>6 DEF MarkUploaded
<1>7. CASE MarkUploadedError(f) BY <1>7 DEF MarkUploadedError
<1>8. CASE CreateObject(f) BY <1>8 DEF CreateObject, Publishes
<1>9. CASE CreateObjectError(f) BY <1>9 DEF CreateObjectError, Publishes
<1>10. CASE Unmark(f) BY <1>10 DEF Unmark
<1>11. CASE Drop(f) BY <1>11 DEF Drop, TryDrop
<1>12. CASE CrashUpload(f) BY <1>12 DEF CrashUpload
<1> QED
  BY <1>1, <1>2, <1>3, <1>4, <1>5, <1>6, <1>7, <1>8, <1>9, <1>10, <1>11, <1>12
     DEF Upload

LEMMA DeleteRemoved ==
  ASSUME FileInv, NoStrayObject, NEW q \in Deleters, DeleteFile(q) \/ CrashDelete(q)
  PROVE  RemovedInv'
<1> USE FileAssumption
    DEF FileInv, DeleterAt, Put, MaybePut, InFlight, fileTables,
        FilesTypeOK, StageInv, DeleteInv, RemovedInv, Settled
<1>1. CASE \E f \in Files : LoadVisibleFile(q, f) BY <1>1 DEF LoadVisibleFile
<1>2. CASE GetObjectRow(q) BY <1>2 DEF GetObjectRow
<1>3. CASE MarkDeleted(q) BY <1>3 DEF MarkDeleted
<1>4. CASE MarkDeletedError(q) BY <1>4 DEF MarkDeletedError
<1>5. CASE DropObject(q) BY <1>5 DEF DropObject, TryDrop
<1>6. CASE CrashDelete(q) BY <1>6 DEF CrashDelete
<1> QED BY <1>1, <1>2, <1>3, <1>4, <1>5, <1>6 DEF DeleteFile

-----------------------------------------------------------------------------
(* What is downloadable was published.                                     *)
LEMMA UploadPublished ==
  ASSUME FileInv, NoStrayObject, NEW f \in Files, Upload(f) \/ CrashUpload(f)
  PROVE  PublishedInv'
<1> USE DEF FileInv, UploadAt, Put, MaybePut, InFlight, fileTables, deletion, fileHistory,
            FilesTypeOK, StageInv, DeleteInv, PublishedInv, Downloadable,
            DownloadableIn, Settled
<1>1. CASE CreateFile(f) BY <1>1 DEF CreateFile
<1>2. CASE CreateFileError(f) BY <1>2 DEF CreateFileError
<1>3. CASE PutObject(f) BY <1>3 DEF PutObject
<1>4. CASE PutObjectError(f) BY <1>4 DEF PutObjectError
<1>5. CASE MarkFailed(f) BY <1>5 DEF MarkFailed
<1>6. CASE MarkUploaded(f) BY <1>6 DEF MarkUploaded
<1>7. CASE MarkUploadedError(f) BY <1>7 DEF MarkUploadedError
<1>8. CASE CreateObject(f) BY <1>8 DEF CreateObject, Publishes
<1>9. CASE CreateObjectError(f) BY <1>9 DEF CreateObjectError, Publishes
<1>10. CASE Unmark(f) BY <1>10 DEF Unmark
<1>11. CASE Drop(f) BY <1>11 DEF Drop, TryDrop
<1>12. CASE CrashUpload(f) BY <1>12 DEF CrashUpload
<1> QED
  BY <1>1, <1>2, <1>3, <1>4, <1>5, <1>6, <1>7, <1>8, <1>9, <1>10, <1>11, <1>12
     DEF Upload

LEMMA DeletePublished ==
  ASSUME FileInv, NoStrayObject, NEW q \in Deleters, DeleteFile(q) \/ CrashDelete(q)
  PROVE  PublishedInv'
<1> USE FileAssumption
    DEF FileInv, DeleterAt, Put, MaybePut, InFlight, fileTables,
        FilesTypeOK, StageInv, DeleteInv, PublishedInv, Downloadable,
        DownloadableIn, Settled
<1>1. CASE \E f \in Files : LoadVisibleFile(q, f) BY <1>1 DEF LoadVisibleFile
<1>2. CASE GetObjectRow(q) BY <1>2 DEF GetObjectRow
<1>3. CASE MarkDeleted(q) BY <1>3 DEF MarkDeleted
<1>4. CASE MarkDeletedError(q) BY <1>4 DEF MarkDeletedError
<1>5. CASE DropObject(q) BY <1>5 DEF DropObject, TryDrop
<1>6. CASE CrashDelete(q) BY <1>6 DEF CrashDelete
<1> QED BY <1>1, <1>2, <1>3, <1>4, <1>5, <1>6 DEF DeleteFile

-----------------------------------------------------------------------------
(* No object is left behind.                                               *)
LEMMA UploadStray ==
  ASSUME FileInv, NoStrayObject, NEW f \in Files, Upload(f) \/ CrashUpload(f)
  PROVE  NoStrayObject'
<1> USE DEF FileInv, UploadAt, Put, MaybePut, InFlight, fileTables, deletion, fileHistory,
            FilesTypeOK, StageInv, DeleteInv, NoStrayObject, Downloadable,
            DownloadableIn, Settled
<1>1. CASE CreateFile(f) BY <1>1 DEF CreateFile
<1>2. CASE CreateFileError(f) BY <1>2 DEF CreateFileError
<1>3. CASE PutObject(f) BY <1>3 DEF PutObject
<1>4. CASE PutObjectError(f) BY <1>4 DEF PutObjectError
<1>5. CASE MarkFailed(f) BY <1>5 DEF MarkFailed
<1>6. CASE MarkUploaded(f) BY <1>6 DEF MarkUploaded
<1>7. CASE MarkUploadedError(f) BY <1>7 DEF MarkUploadedError
<1>8. CASE CreateObject(f) BY <1>8 DEF CreateObject, Publishes
<1>9. CASE CreateObjectError(f) BY <1>9 DEF CreateObjectError, Publishes
<1>10. CASE Unmark(f) BY <1>10 DEF Unmark
<1>11. CASE Drop(f) BY <1>11 DEF Drop, TryDrop
<1>12. CASE CrashUpload(f) BY <1>12 DEF CrashUpload
<1> QED
  BY <1>1, <1>2, <1>3, <1>4, <1>5, <1>6, <1>7, <1>8, <1>9, <1>10, <1>11, <1>12
     DEF Upload

LEMMA DeleteStray ==
  ASSUME FileInv, NoStrayObject, NEW q \in Deleters, DeleteFile(q) \/ CrashDelete(q)
  PROVE  NoStrayObject'
<1> USE FileAssumption
    DEF FileInv, DeleterAt, Put, MaybePut, InFlight, fileTables,
        FilesTypeOK, StageInv, DeleteInv, NoStrayObject, Downloadable,
        DownloadableIn, Settled
<1>1. CASE \E f \in Files : LoadVisibleFile(q, f) BY <1>1 DEF LoadVisibleFile
<1>2. CASE GetObjectRow(q) BY <1>2 DEF GetObjectRow
<1>3. CASE MarkDeleted(q) BY <1>3 DEF MarkDeleted
<1>4. CASE MarkDeletedError(q) BY <1>4 DEF MarkDeletedError
<1>5. CASE DropObject(q) BY <1>5 DEF DropObject, TryDrop
<1>6. CASE CrashDelete(q) BY <1>6 DEF CrashDelete
<1> QED BY <1>1, <1>2, <1>3, <1>4, <1>5, <1>6 DEF DeleteFile

-----------------------------------------------------------------------------
LEMMA NextInv ==
  FileInv /\ NoStrayObject /\ [FilesNext]_filesVars => FileInv' /\ NoStrayObject'
<1> SUFFICES ASSUME FileInv, NoStrayObject, [FilesNext]_filesVars PROVE FileInv' /\ NoStrayObject'
  OBVIOUS
<1>1. CASE \E f \in Files : Upload(f) \/ CrashUpload(f)
  BY <1>1, UploadType, UploadStage, UploadDelete, UploadRemoved, UploadPublished, UploadStray
     DEF FileInv
<1>2. CASE \E q \in Deleters : DeleteFile(q) \/ CrashDelete(q)
  BY <1>2, DeleteType, DeleteStage, DeleteDelete, DeleteRemoved, DeletePublished, DeleteStray
     DEF FileInv
<1>3. CASE UNCHANGED filesVars
  BY <1>3 DEF filesVars, fileTables, deletion, fileHistory, FileInv, FilesTypeOK, StageInv, DeleteInv,
              RemovedInv, PublishedInv, NoStrayObject, Downloadable, DownloadableIn,
              InFlight, Settled
<1> QED BY <1>1, <1>2, <1>3 DEF FilesNext

LEMMA Invariance == FilesSpec => [](FileInv /\ NoStrayObject)
BY InitInv, NextInv, PTL DEF FilesSpec

(* Every variable keeps its type; nothing is stored that has no row        *)
(* (service.go:135-138).                                                   *)
THEOREM FileTypeCorrect == FilesSpec => []FilesTypeOK
<1>1. FileInv => FilesTypeOK
  BY DEF FileInv
<1> QED BY <1>1, Invariance, PTL

(* What was reported as uploaded, and is shown so, can be downloaded       *)
(* (service.go:210-248).                                                   *)
THEOREM UploadedMeansDownloadable == FilesSpec => []UploadedIsDownloadable
<1>1. FileInv => UploadedIsDownloadable
  BY DEF FileInv, StageInv, UploadedIsDownloadable, Downloadable, DownloadableIn
<1> QED BY <1>1, Invariance, PTL

(* A deletion that met no upload is final (service.go:227-248).            *)
THEOREM FileDeletionIsFinal == FilesSpec => []DeletionSticks
<1>1. FileInv => DeletionSticks
  BY DEF FileInv, RemovedInv, DeletionSticks
<1> QED BY <1>1, Invariance, PTL

(* No object is left behind but by a failure, a crash or the race of a     *)
(* deletion with an upload (service.go:159, 175, 244).                     *)
THEOREM NoObjectIsLeftBehind == FilesSpec => []NoStrayObject
BY Invariance, PTL

-----------------------------------------------------------------------------
(* The refinement: most steps leave the register alone.                    *)
Avail == {f \in Files : Downloadable(f)}
Gone == {f \in published : ~Downloadable(f)}
Reported == {f \in Files : up[f] = "done"}

LEMMA RegisterStutters ==
  ASSUME Avail' = Avail, published' = published, published \subseteq Files,
         Reported' = Reported, askedFiles' = askedFiles
  PROVE  UNCHANGED FilePromise!regVars
<1>1. \A f \in Files : Downloadable(f)' <=> Downloadable(f)
  BY DEF Avail
<1>2. Gone' = Gone
  BY <1>1 DEF Gone
<1> QED BY <1>2 DEF FilePromise!regVars, Avail, Gone, Reported

(* A step that may take one file away.                                     *)
LEMMA RegisterLoses ==
  ASSUME NEW f \in Files, Avail' = Avail \/ Avail' = Avail \ {f},
         published' = published, published \subseteq Files, Avail \subseteq published,
         Reported' = Reported, askedFiles' = askedFiles, f \in askedFiles \/ f \notin Reported
  PROVE  [FilePromise!RegNext]_(FilePromise!regVars)
<1>1. CASE Avail' = Avail
  BY <1>1, RegisterStutters
<1>2. CASE Avail' = Avail \ {f} /\ f \in Avail
  <2>1. \A g \in Files : Downloadable(g)' <=> Downloadable(g) /\ g # f
    BY <1>2 DEF Avail
  <2>2. Gone' = Gone \cup {f}
    BY <1>2, <2>1 DEF Gone, Avail
  <2>3. FilePromise!Withdraw(f)
    BY <1>2, <2>2 DEF FilePromise!Withdraw, Avail, Gone, Reported
  <2> QED BY <2>3 DEF FilePromise!RegNext
<1>3. CASE f \notin Avail
  BY <1>1, <1>3
<1> QED BY <1>1, <1>2, <1>3

LEMMA RegisterUpload ==
  ASSUME FileInv, FileInv', NEW f \in Files, Upload(f) \/ CrashUpload(f)
  PROVE  [FilePromise!RegNext]_(FilePromise!regVars)
<1>0. /\ published \subseteq Files /\ Avail \subseteq published
      /\ f \in objects => Settled(f) \/ up[f] \in {"unmark", "drop"}
      /\ row \in [Files -> Statuses] /\ up \in [Files -> FileStages]
  BY DEF FileInv, FilesTypeOK, StageInv, PublishedInv, Avail
<1>1. CASE \/ CreateFile(f) \/ CreateFileError(f) \/ PutObject(f) \/ PutObjectError(f)
           \/ MarkFailed(f) \/ MarkUploaded(f) \/ MarkUploadedError(f)
           \/ Unmark(f) \/ Drop(f) \/ CrashUpload(f)
  <2>1. published' = published /\ objects' = objects /\ askedFiles' = askedFiles
    BY <1>1 DEF CreateFile, CreateFileError, PutObject, PutObjectError, MarkFailed, MarkUploaded,
         MarkUploadedError, Unmark, Drop, CrashUpload, TryDrop, fileTables, fileHistory
  <2>2. up[f] # "done" /\ Reported' = Reported
    BY <1>0, <1>1 DEF CreateFile, CreateFileError, PutObject, PutObjectError, MarkFailed,
         MarkUploaded, MarkUploadedError, Unmark, Drop, CrashUpload, UploadAt, InFlight, Reported
  <2>3. \A g \in Files \ {f} : row'[g] = row[g] /\ (g \in store' <=> g \in store)
    BY <1>0, <1>1 DEF CreateFile, CreateFileError, PutObject, PutObjectError, MarkFailed,
         MarkUploaded, MarkUploadedError, Unmark, Drop, CrashUpload, TryDrop, Put, MaybePut,
         fileTables
  <2>4. Avail' = Avail \/ Avail' = Avail \ {f}
    <3>1. CASE f \notin objects
      BY <2>1, <2>3, <3>1 DEF Avail, Downloadable, DownloadableIn
    <3>2. CASE Unmark(f) \/ Drop(f) \/ CrashUpload(f)
      <4>1. row'[f] \in {row[f], "failed"} /\ store' \subseteq store
        BY <1>0, <3>2 DEF Unmark, Drop, CrashUpload, TryDrop, Put, MaybePut, fileTables
      <4> QED BY <2>1, <2>3, <4>1 DEF Avail, Downloadable, DownloadableIn
    <3> QED BY <1>0, <1>1, <3>1, <3>2
            DEF CreateFile, CreateFileError, PutObject, PutObjectError, MarkFailed,
                MarkUploaded, MarkUploadedError, UploadAt, Settled
  <2> QED BY <1>0, <2>1, <2>2, <2>4, RegisterLoses DEF Reported
<1>2. CASE CreateObject(f) \/ CreateObjectError(f)
  <2>1. /\ up[f] = "object" /\ row' = row /\ store' = store /\ askedFiles' = askedFiles
        /\ objects' = objects \cup {f} \/ objects' = objects
        /\ published' = published \cup Avail'
    BY <1>2 DEF CreateObject, CreateObjectError, UploadAt, Publishes, Avail, Downloadable
  <2>2. f \notin objects /\ f \notin Avail /\ f \notin published
    BY <1>0, <2>1 DEF FileInv, PublishedInv, Settled, Avail, Downloadable, DownloadableIn
  <2>3. Reported' = Reported \/ (Reported' = Reported \cup {f} /\ CreateObject(f))
    BY <1>0, <1>2 DEF CreateObject, CreateObjectError, UploadAt, Reported
  <2>4. CASE f \notin Avail'
    <3>1. Avail' = Avail
      BY <2>1, <2>2, <2>4 DEF Avail, Downloadable, DownloadableIn
    <3>2. published' = published
      BY <1>0, <2>1, <3>1
    <3>3. CASE Reported' = Reported
      BY <1>0, <2>1, <3>1, <3>2, <3>3, RegisterStutters
    <3>4. CASE Reported' = Reported \cup {f} /\ CreateObject(f)
      <4>1. row[f] = "deleted"
        BY <2>1, <2>4, <3>4
           DEF CreateObject, FileInv, StageInv, Avail, Downloadable, DownloadableIn
      <4>2. f \in askedFiles
        BY <4>1 DEF FileInv, StageInv
      <4>3. \A g \in Files : Downloadable(g)' <=> Downloadable(g)
        BY <3>1 DEF Avail
      <4>4. Gone' = Gone
        BY <1>0, <3>2, <4>3 DEF Gone
      <4>5. FilePromise!Overtaken(f)
        BY <2>1, <3>1, <3>4, <4>2, <4>4 DEF FilePromise!Overtaken, Avail, Gone, Reported
      <4> QED BY <4>5 DEF FilePromise!RegNext
    <3> QED BY <2>3, <3>3, <3>4
  <2>5. CASE f \in Avail'
    <3>1. Avail' = Avail \cup {f}
      BY <2>1, <2>2, <2>5 DEF Avail, Downloadable, DownloadableIn
    <3>2. \A g \in Files : Downloadable(g)' <=> Downloadable(g) \/ g = f
      BY <3>1 DEF Avail
    <3>3. Gone' = Gone
      <4>1. published' = published \cup {f}
        BY <1>0, <2>1, <3>1
      <4>2. \A g \in published : g \in Files /\ g # f
        BY <1>0, <2>2
      <4> QED BY <3>2, <4>1, <4>2 DEF Gone
    <3>4. f \notin Avail \cup Gone
      BY <2>2 DEF Gone
    <3>5. FilePromise!Publish(f)
      BY <2>1, <2>3, <3>1, <3>3, <3>4 DEF FilePromise!Publish, Avail, Gone, Reported
    <3> QED BY <3>5 DEF FilePromise!RegNext
  <2> QED BY <2>4, <2>5
<1> QED BY <1>1, <1>2 DEF Upload

LEMMA RegisterDelete ==
  ASSUME FileInv, NEW q \in Deleters, DeleteFile(q) \/ CrashDelete(q)
  PROVE  [FilePromise!RegNext]_(FilePromise!regVars)
<1>0. /\ published \subseteq Files /\ Avail \subseteq published
      /\ row \in [Files -> Statuses] /\ askedFiles \subseteq Files
      /\ deleter[q] # "idle" => fileOf[q] \in askedFiles
  BY DEF FileInv, FilesTypeOK, DeleteInv, PublishedInv, Avail
<1>1. ASSUME NEW f \in Files, LoadVisibleFile(q, f)
      PROVE  FilePromise!RegNext
  <2>1. Avail' = Avail /\ Gone' = Gone /\ Reported' = Reported
    BY <1>1 DEF LoadVisibleFile, fileTables, Avail, Gone, Reported, Downloadable, DownloadableIn
  <2>2. FilePromise!Ask(f)
    BY <1>1, <2>1 DEF LoadVisibleFile, FilePromise!Ask, Avail, Gone, Reported
  <2> QED BY <2>2 DEF FilePromise!RegNext
<1>2. CASE GetObjectRow(q) \/ MarkDeleted(q) \/ MarkDeletedError(q) \/ DropObject(q)
           \/ CrashDelete(q)
  <2> DEFINE f == fileOf[q]
  <2>1. f \in askedFiles /\ f \in Files
    BY <1>0, <1>2 DEF GetObjectRow, MarkDeleted, MarkDeletedError, DropObject, CrashDelete, DeleterAt
  <2>2. /\ published' = published /\ objects' = objects /\ askedFiles' = askedFiles /\ up' = up
        /\ store' \subseteq store
    BY <1>2 DEF GetObjectRow, MarkDeleted, MarkDeletedError, DropObject, CrashDelete, TryDrop,
                fileTables
  <2>3. /\ \A g \in Files \ {f} : row'[g] = row[g] /\ (g \in store' <=> g \in store)
        /\ row'[f] \in {row[f], "deleted"}
    BY <1>0, <1>2, <2>1 DEF GetObjectRow, MarkDeleted, MarkDeletedError, DropObject,
         CrashDelete, TryDrop, Put, MaybePut, fileTables
  <2>4. Avail' = Avail \/ Avail' = Avail \ {f}
    BY <2>2, <2>3 DEF Avail, Downloadable, DownloadableIn
  <2>5. Reported' = Reported
    BY <2>2 DEF Reported
  <2> HIDE DEF f
  <2> QED BY <1>0, <2>1, <2>2, <2>4, <2>5, RegisterLoses
<1> QED BY <1>1, <1>2 DEF DeleteFile

(* What can be downloaded is a register in which each file appears and     *)
(* disappears at most once, and a reported upload disappears only when it  *)
(* is deleted.                                                             *)
THEOREM ImplementsRegister == FilesSpec => RefinesRegister
<1>1. FilesInit => FilePromise!RegInit
  BY DEF FilesInit, FilePromise!RegInit, Downloadable, DownloadableIn
<1>2. FileInv /\ FileInv' /\ [FilesNext]_filesVars => [FilePromise!RegNext]_(FilePromise!regVars)
  <2>1. ASSUME FileInv, UNCHANGED filesVars PROVE UNCHANGED FilePromise!regVars
    BY <2>1 DEF filesVars, fileTables, fileHistory, FilePromise!regVars, Downloadable, DownloadableIn
  <2> QED BY <2>1, RegisterUpload, RegisterDelete DEF FilesNext
<1> QED BY <1>1, <1>2, Invariance, PTL DEF FilesSpec, RefinesRegister, FilePromise!RegSpec
=============================================================================
