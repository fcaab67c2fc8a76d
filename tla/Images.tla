------------------------------- MODULE Images -------------------------------
(***************************************************************************)
(* The life of image rows (internal/image/factory.go, handlers/images.go,  *)
(* tus.go and resume.go, internal/server/reconcile.go and                  *)
(* reconcile_image.go): builds that run in goroutines behind a semaphore,  *)
(* uploads, cancels, resumes, archives and deletes that write the same     *)
(* row, a restart that finds builds cut short, and the reconciler that     *)
(* compares rows with the blobs on disk.                                   *)
(*                                                                         *)
(* A file is known by who wrote it: whose bytes are in it, and which of    *)
(* them have not written their last one.  Its checksum is as telling as    *)
(* its content.  Initramfs rows and nodes that refer to an image are left  *)
(* out, and so is the reconciler's cache, which only saves a pass: the     *)
(* guard of a deployment either makes a pass or changes nothing.           *)
(***************************************************************************)
EXTENDS Integers, FiniteSets

CONSTANTS
    Images,         \* image ids; one is never used again
    BuildKinds,     \* kinds of builds in play
    MaxWorks,       \* bound: builds, uploads and resumes
    BuildCap,       \* CLUSTR_MAX_CONCURRENT_BUILDS
    MaxImageFaults, \* bound: refused statements and damage to blobs
    MaxStops        \* bound: ends of the server

\* download is PullImage and BuildFromISO, import ImportISO, capture CaptureNode.
ASSUME ImagesAssumption ==
    /\ BuildKinds \subseteq {"download", "import", "capture"}
    /\ MaxWorks \in Nat /\ BuildCap \in Nat /\ MaxImageFaults \in Nat /\ MaxStops \in Nat
    /\ "none" \notin Images

Works == 1..MaxWorks

VARIABLES
    imageRow, \* [Images -> ImageRow], table base_images
    disk,     \* [Images -> Disk], <ImageDir>/<id>/ and <id>.blob
    work,     \* [Works -> Work]: goroutines and requests that write an image
    pass,     \* the reconcile pass that holds reconcileMu
    canceling,\* images whose CancelBuild has found them building
    serving,  \* serverd: "up", "stopping" (its context is canceled) or "down"
    lost,     \* images whose last status was refused since serverd started
    imageFaults, stops

imageVars == <<imageRow, disk, work, pass, canceling, serving, lost, imageFaults, stops>>

Damage  == 0
Writers == Works \cup {Damage}
Content == [by : SUBSET Writers, open : SUBSET Writers]
NoFile  == [by |-> {}, open |-> {}]
Torn    == [by |-> {Damage}, open |-> {Damage}]

Judged == {"ready", "corrupt", "blob_missing"}
Gone   == {"absent", "deleted"}
Paths  == {"none", "tar", "blob"}
\* The phases a resume tells apart; "again" is any it restarts from the download.
ResumePhases == {"finalizing", "again"}
ImageRow == [kind : {"none", "download", "import", "capture", "upload", "created"},
             status : Judged \cup Gone \cup {"building", "interrupted", "error", "archived"},
             path : Paths, sum : Content, resume : ResumePhases \cup {"no"}]
Disk == [rootfs : {"none", "partial", "whole"}, phase : ResumePhases \cup {"none", "failed"},
         tar : Content, blob : Content, meta : Content]
EmptyDisk == [rootfs |-> "none", phase |-> "none", tar |-> NoFile, blob |-> NoFile, meta |-> NoFile]

\* rebuild and refinalize are the two ways of ResumeFromPhase, blob an UploadBlob request.
Work == [kind : {"none", "download", "import", "capture", "rebuild", "refinalize", "upload", "blob"},
         image : Images \cup {"none"},
         at : {"unused", "checked", "queued", "fetching", "extracting", "unpacked", "baking", "doomed",
               "streaming", "placed", "measured", "hashed", "located", "finalized", "over"},
         sum : Content]
NoWork(at) == [kind |-> "none", image |-> "none", at |-> at, sum |-> NoFile]

Verdicts == {"missing", "ok", "heal", "corrupt", "force"}
Pass == [at : {"idle", "fetched", "found", "read", "judged"}, image : Images \cup {"none"}, status : Judged \cup {"none"},
         sum : Content, path : Paths, force : BOOLEAN, verdict : Verdicts \cup {"none"}, content : Content]
NoPass == [at |-> "idle", image |-> "none", status |-> "none", sum |-> NoFile, path |-> "none",
           force |-> FALSE, verdict |-> "none", content |-> NoFile]

Exists(i) == imageRow[i].status \notin Gone
Alive(w) == work[w].at \notin {"unused", "over"}
\* Goroutines under the factory's context, which is the server's; one with nothing to download fails
\* before it is.
Bound(w) == work[w].kind \in {"download", "import", "capture", "rebuild"} /\ work[w].at # "doomed"
HasHandle(w) == work[w].kind \in {"download", "rebuild", "refinalize"}  \* has a BuildHandle
HoldsSlot(w) == Bound(w) /\ work[w].at \in {"fetching", "extracting", "unpacked", "baking", "hashed",
                                            "located", "finalized"}
Finalizing(w) == work[w].at \in {"unpacked", "baking", "hashed", "located"}
\* A statement that a goroutine sends is refused once its context is canceled, or when the row is gone.
Accepts(w) == Exists(work[w].image) /\ ~(serving = "stopping" /\ Bound(w))
ImageFault == imageFaults < MaxImageFaults /\ imageFaults' = imageFaults + 1

Becomes(w, at) == work' = [work EXCEPT ![w] = IF at = "over" THEN NoWork("over") ELSE [@ EXCEPT !.at = at]]
SetImageStatus(i, s) == imageRow' = [imageRow EXCEPT ![i].status = s]
SetDisk(i, field, value) == disk' = [disk EXCEPT ![i][field] = value]

\* What BuildProgressStore.persistState leaves in build-state.json.
Phase(w, phase) == IF HasHandle(w) THEN phase ELSE disk[work[w].image].phase

\* A file opened for writing from its start while others write it in their own time.
Opened(c, w) ==
    LET writers == {v \in c.open \ {Damage} : Alive(v)} \cup {w}
    IN [by |-> writers, open |-> writers]
Closed(c, w) == [c EXCEPT !.open = @ \ {w}]

\* defaultBlobPath: the path of the format, where nothing is written for the block images of uploads.
DefaultPath(i) == IF imageRow[i].kind = "upload" THEN "none" ELSE "tar"
FileAt(i, path) == CASE path = "tar" -> disk[i].tar [] path = "blob" -> disk[i].blob [] OTHER -> NoFile

ImagesInit ==
    /\ imageRow = [i \in Images |-> [kind |-> "none", status |-> "absent", path |-> "none",
                                     sum |-> NoFile, resume |-> "no"]]
    /\ disk = [i \in Images |-> EmptyDisk]
    /\ work = [w \in Works |-> NoWork("unused")]
    /\ pass = NoPass
    /\ canceling = {}
    /\ serving = "up"
    /\ lost = {}
    /\ imageFaults = 0 /\ stops = 0
-----------------------------------------------------------------------------
(* Starting.                                                               *)

\* The next piece of work, on an image.
Takes(w, kind, i, at) ==
    /\ work[w].at = "unused"
    /\ \A v \in Works : v < w => work[v].at # "unused"
    /\ work' = [work EXCEPT ![w] = [kind |-> kind, image |-> i, at |-> at, sum |-> NoFile]]

Inserts(i, kind) ==
    /\ serving # "down"
    /\ imageRow[i].status = "absent"
    /\ imageRow' = [imageRow EXCEPT ![i].kind = kind, ![i].status = "building"]

\* PullImage, BuildFromISO, ImportISO, CaptureNode: a row and a goroutine.
StartsBuild(i, kind, w) ==
    /\ Inserts(i, kind)
    /\ Takes(w, kind, i, "queued")
    /\ UNCHANGED <<disk, pass, canceling, serving, lost, imageFaults, stops>>

\* CreateImage: a row that waits for its blob; it may name a source.
CreatesImage(i) ==
    /\ Inserts(i, "created")
    /\ UNCHANGED <<disk, work, pass, canceling, serving, lost, imageFaults, stops>>

\* FromUpload moves an upload that is complete, then inserts the row and starts finalizeUpload.
FromUpload(i, w) ==
    /\ Inserts(i, "upload")
    /\ Takes(w, "upload", i, "placed")
    /\ SetDisk(i, "blob", [by |-> {w}, open |-> {}])
    /\ UNCHANGED <<pass, canceling, serving, lost, imageFaults, stops>>

\* UploadBlob opens the blob file of an image, whatever else is at work on it.
UploadBlob(i, w) ==
    /\ serving # "down" /\ Exists(i) /\ imageRow[i].status # "archived"
    /\ Takes(w, "blob", i, "streaming")
    /\ SetDisk(i, "blob", Opened(disk[i].blob, w))
    /\ UNCHANGED <<imageRow, pass, canceling, serving, lost, imageFaults, stops>>

\* ResumeImageBuild, up to its checks; the phase decides what ResumeFromPhase does.  No build leaves a
\* disk.raw where the "extracting" phase looks for it, so that phase restarts like the others.
ResumeChecks(i, w) ==
    /\ serving # "down"
    /\ imageRow[i].status \in {"interrupted", "error"} /\ imageRow[i].resume # "no"
    /\ Takes(w, IF imageRow[i].resume = "finalizing" THEN "refinalize" ELSE "rebuild", i, "checked")
    /\ UNCHANGED <<imageRow, disk, pass, canceling, serving, lost, imageFaults, stops>>

\* Its writes, of which the second may fail, and the goroutine: one that rebuilds needs a source_url.
ResumeWrites(w) ==
    LET i == work[w].image IN
    /\ work[w].at = "checked"
    /\ \/ /\ Exists(i)
          /\ \/ /\ imageRow' = [imageRow EXCEPT ![i].status = "building", ![i].resume = "no"]
                /\ UNCHANGED imageFaults
             \/ SetImageStatus(i, "building") /\ ImageFault
          /\ \E at \in IF work[w].kind = "refinalize"
                       THEN {IF disk[i].rootfs = "none" THEN "doomed" ELSE "unpacked"}
                       ELSE (IF imageRow[i].kind \in {"download", "created"} THEN {"queued"} ELSE {})
                            \cup (IF imageRow[i].kind = "download" THEN {} ELSE {"doomed"}) :
                Becomes(w, at)
       \/ ~Exists(i) /\ Becomes(w, "over") /\ UNCHANGED <<imageRow, imageFaults>>
       \/ ImageFault /\ Becomes(w, "over") /\ UNCHANGED imageRow
    /\ UNCHANGED <<disk, pass, canceling, serving, lost, stops>>
-----------------------------------------------------------------------------
(* Working.                                                                *)

Steps(w, from, to) == work[w].at = from /\ Becomes(w, to)

OnDiskOnly == UNCHANGED <<imageRow, pass, canceling, serving, lost, imageFaults, stops>>

\* acquireSem, which a canceled context stops only when it waits; a download is announced by SetPhase,
\* the others write the rootfs directory at once.
Acquires(w) ==
    LET i == work[w].image IN
    /\ Cardinality({v \in Works : HoldsSlot(v)}) < BuildCap
    /\ \/ /\ HasHandle(w)
          /\ Steps(w, "queued", "fetching")
          /\ SetDisk(i, "phase", "again")
       \/ /\ ~HasHandle(w)
          /\ Steps(w, "queued", "extracting")
          /\ SetDisk(i, "rootfs", "partial")
    /\ OnDiskOnly

\* The download, and the installer for an ISO, are done.
Extracts(w) ==
    /\ Steps(w, "fetching", "extracting")
    /\ disk' = [disk EXCEPT ![work[w].image].rootfs = "partial", ![work[w].image].phase = "again"]
    /\ OnDiskOnly

\* rsync and tar fail when the directory has been removed under them.
Unpacks(w) ==
    /\ Steps(w, "extracting", "unpacked")
    /\ disk[work[w].image].rootfs # "none"
    /\ SetDisk(work[w].image, "rootfs", "whole")
    /\ OnDiskOnly

\* finalizeImageFromRootfs: bakeDeterministicTar, over whatever the rootfs directory holds, ...
Bakes(w) ==
    LET i == work[w].image IN
    /\ Steps(w, "unpacked", "baking")
    /\ disk[i].rootfs # "none"
    /\ disk' = [disk EXCEPT ![i].phase = Phase(w, "finalizing"), ![i].tar = Opened(@, w)]
    /\ OnDiskOnly

\* Mutant: the row is finalized without SetBlobPath.
Hashes_Unlocated(w) ==
    LET c == Closed(disk[work[w].image].tar, w) IN
    /\ work[w].at = "baking" /\ c # NoFile
    /\ work' = [work EXCEPT ![w].at = "located", ![w].sum = c]
    /\ SetDisk(work[w].image, "tar", c)
    /\ OnDiskOnly
\* ... and the checksum of the file that is then at its path.
Hashes(w) ==
    LET c == Closed(disk[work[w].image].tar, w) IN
    /\ work[w].at = "baking"
    /\ c # NoFile
    /\ work' = [work EXCEPT ![w].at = "hashed", ![w].sum = c]
    /\ SetDisk(work[w].image, "tar", c)
    /\ OnDiskOnly

\* UploadBlob has read the body: its checksum is of what went by.
Streams(w) ==
    /\ work[w].at = "streaming"
    /\ work' = [work EXCEPT ![w].at = "hashed", ![w].sum = [by |-> {w}, open |-> {}]]
    /\ SetDisk(work[w].image, "blob", Closed(disk[work[w].image].blob, w))
    /\ OnDiskOnly

\* finalizeUpload reads the file, after it has set blob_path.
Measures(w) ==
    /\ work[w].at = "measured"
    /\ disk[work[w].image].blob # NoFile
    /\ work' = [work EXCEPT ![w].at = "located", ![w].sum = disk[work[w].image].blob]
    /\ UNCHANGED disk
    /\ OnDiskOnly

\* SetBlobPath.
Locates(w) ==
    /\ work[w].at \in {"hashed", "placed"} /\ Accepts(w)
    /\ imageRow' = [imageRow EXCEPT ![work[w].image].path =
                        IF work[w].kind \in {"upload", "blob"} THEN "blob" ELSE "tar"]
    /\ Becomes(w, IF work[w].at = "placed" THEN "measured" ELSE "located")
    /\ UNCHANGED <<disk, pass, canceling, serving, lost, imageFaults, stops>>

\* FinalizeBaseImage: the row becomes ready whatever it says.
Finalizes(w) ==
    /\ work[w].at = "located" /\ Accepts(w)
    /\ imageRow' = [imageRow EXCEPT ![work[w].image].sum = work[w].sum, ![work[w].image].status = "ready"]
    /\ Becomes(w, IF work[w].kind \in {"upload", "blob"} THEN "over" ELSE "finalized")
    /\ UNCHANGED <<disk, pass, canceling, serving, lost, imageFaults, stops>>

\* The metadata sidecar, which may fail, and the end of the build.
Seals(w) ==
    LET i == work[w].image IN
    /\ Steps(w, "finalized", "over")
    /\ \/ /\ disk' = [disk EXCEPT ![i].meta = work[w].sum, ![i].phase = Phase(w, "again")]
          /\ UNCHANGED imageFaults
       \/ SetDisk(i, "phase", Phase(w, "again")) /\ ImageFault
    /\ UNCHANGED <<imageRow, pass, canceling, serving, lost, stops>>

\* The status a goroutine leaves on failure, unless the statement is refused.
WritesError(w) ==
    LET i == work[w].image IN
    \/ Accepts(w) /\ SetImageStatus(i, "error") /\ UNCHANGED <<lost, imageFaults>>
    \/ ~Accepts(w) /\ lost' = lost \cup {i} /\ UNCHANGED <<imageRow, imageFaults>>
    \/ Accepts(w) /\ ImageFault /\ lost' = lost \cup {i} /\ UNCHANGED imageRow

\* Mutant: the error is logged and returned, the row is left as it is.
Fails_Silent(w) ==
    /\ work[w].at \in {"fetching", "extracting", "unpacked", "baking"}
    /\ Becomes(w, "over")
    /\ SetDisk(work[w].image, "phase", Phase(w, "failed"))
    /\ OnDiskOnly
\* A step of a build fails: captureAsync removes its rootfs, and pullAsync reports no failure of
\* finalizeImageFromRootfs to its BuildHandle.  In the queue only the end of serverd does it, and then
\* nothing is reported.
Fails(w) ==
    LET i == work[w].image
        queued == work[w].at = "queued" IN
    /\ \/ work[w].at \in {"fetching", "extracting", "unpacked", "baking", "doomed", "placed", "measured"}
       \/ work[w].at \in {"hashed", "located"} /\ work[w].kind # "blob"
       \/ queued /\ serving = "stopping"
    /\ Becomes(w, "over")
    /\ WritesError(w)
    /\ \E phase \in {IF queued THEN disk[i].phase ELSE Phase(w, "failed")}
                     \cup (IF work[w].kind = "download" /\ Finalizing(w) THEN {"finalizing"} ELSE {}) :
          disk' = [disk EXCEPT ![i].phase = phase,
                               ![i].rootfs = IF work[w].kind = "capture" /\ ~queued THEN "none" ELSE @]
    /\ UNCHANGED <<pass, canceling, serving, stops>>

\* finalizeUpload finds another checksum than the client announced.
Mismatches(w) ==
    /\ Steps(w, "measured", "over")
    /\ WritesError(w)
    /\ SetDisk(work[w].image, "blob", NoFile)
    /\ UNCHANGED <<pass, canceling, serving, stops>>

\* UploadBlob gives up: the body ends early, or its checksum is not the client's, and the file goes;
\* or a statement is refused, and the file stays.  The row says what it said.
Aborts(w) ==
    /\ work[w].kind = "blob" /\ Alive(w)
    /\ Becomes(w, "over")
    /\ IF work[w].at = "streaming" THEN SetDisk(work[w].image, "blob", NoFile) ELSE UNCHANGED disk
    /\ OnDiskOnly
-----------------------------------------------------------------------------
(* Operators.                                                              *)

\* CancelBuild reads the row, ...
CancelChecks(i) ==
    /\ serving # "down" /\ imageRow[i].status = "building"
    /\ canceling' = canceling \cup {i}
    /\ UNCHANGED <<imageRow, disk, work, pass, serving, lost, imageFaults, stops>>

\* ... and writes it; the goroutine goes on.
Cancels(i) ==
    /\ i \in canceling
    /\ canceling' = canceling \ {i}
    /\ IF Exists(i) THEN SetImageStatus(i, "error") ELSE UNCHANGED imageRow
    /\ UNCHANGED <<disk, work, pass, serving, lost, imageFaults, stops>>

\* ArchiveImage
Archives(i) ==
    /\ serving # "down" /\ Exists(i)
    /\ SetImageStatus(i, "archived")
    /\ UNCHANGED <<disk, work, pass, canceling, serving, lost, imageFaults, stops>>

\* DeleteImage: the files, then the row, unless that statement is refused.
Deletes(i) ==
    /\ serving # "down" /\ Exists(i)
    /\ disk' = [disk EXCEPT ![i] = EmptyDisk]
    /\ \/ SetImageStatus(i, "deleted") /\ UNCHANGED imageFaults
       \/ ImageFault /\ UNCHANGED imageRow
    /\ UNCHANGED <<work, pass, canceling, serving, lost, stops>>
-----------------------------------------------------------------------------
(* The reconciler.                                                         *)

\* A pass for one image: of ReconcileAllImages, of the deployment guard, or of an operator, who may
\* force.  It reads the row, ...
PassReads(i, force) ==
    /\ serving # "down" /\ pass.at = "idle"
    /\ imageRow[i].status \in Judged
    /\ pass' = [NoPass EXCEPT !.at = "fetched", !.image = i, !.force = force,
                              !.status = imageRow[i].status, !.sum = imageRow[i].sum]
    /\ UNCHANGED <<imageRow, disk, work, canceling, serving, lost, imageFaults, stops>>

\* ... then blob_path (resolveBlobPath): the file it names, else the one at the default path, where it
\* looks too when the statement fails.
PassResolves ==
    LET i == pass.image
        path == imageRow[i].path
        default == DefaultPath(i) IN
    /\ pass.at = "fetched"
    /\ \/ /\ FileAt(i, path) # NoFile
          /\ pass' = [pass EXCEPT !.at = "read", !.path = path]
          /\ UNCHANGED imageFaults
       \/ /\ pass' = IF FileAt(i, default) = NoFile THEN [pass EXCEPT !.at = "judged", !.verdict = "missing"]
                                                   ELSE [pass EXCEPT !.at = "found", !.path = default]
          /\ (FileAt(i, path) = NoFile /\ UNCHANGED imageFaults) \/ ImageFault
    /\ UNCHANGED <<imageRow, disk, work, canceling, serving, lost, stops>>

\* A file found at the default path makes it correct blob_path, as the row is by then (F6).
PassHeals ==
    LET i == pass.image IN
    /\ pass.at = "found"
    /\ \/ /\ pass' = [pass EXCEPT !.at = "read"]
          /\ \/ Exists(i) /\ imageRow' = [imageRow EXCEPT ![i].path = pass.path] /\ UNCHANGED imageFaults
             \/ ~Exists(i) /\ UNCHANGED <<imageRow, imageFaults>>
             \/ ImageFault /\ UNCHANGED imageRow
       \/ /\ FileAt(i, pass.path) = NoFile
          /\ pass' = NoPass
          /\ UNCHANGED <<imageRow, imageFaults>>
    /\ UNCHANGED <<disk, work, canceling, serving, lost, stops>>

\* The matrix F1-F5 for a file that differs from the row: a size that differs stops it early.
Drift(i, c) ==
    {"corrupt"} \cup (IF pass.force THEN {"force"} ELSE IF disk[i].meta = c THEN {"heal"} ELSE {})

\* It hashes the file, or gives up when the file has gone.
PassHashes ==
    LET i == pass.image
        c == FileAt(i, pass.path) IN
    /\ pass.at = "read"
    /\ \/ c = NoFile /\ pass' = NoPass
       \/ /\ c # NoFile
          /\ \E v \in IF c = pass.sum THEN {"ok"} ELSE Drift(i, c) :
                pass' = [pass EXCEPT !.at = "judged", !.verdict = v, !.content = c]
    /\ UNCHANGED <<imageRow, disk, work, canceling, serving, lost, imageFaults, stops>>

Quarantine == [missing |-> "blob_missing", corrupt |-> "corrupt"]

\* Mutant: only an operator releases a quarantined image.
Ruling_Sticks(row) ==
    CASE pass.verdict \in {"missing", "corrupt"} -> [row EXCEPT !.status = Quarantine[pass.verdict]]
      [] pass.verdict = "ok" -> row
      [] OTHER -> [row EXCEPT !.status = "ready", !.sum = pass.content]
\* What a verdict makes of the row, which may have changed since it was read; of the row as read it
\* knows whether there is something to write.
Ruling(row) ==
    CASE pass.verdict \in {"missing", "corrupt"} ->
             IF pass.status = Quarantine[pass.verdict] THEN row
             ELSE [row EXCEPT !.status = Quarantine[pass.verdict]]
      [] pass.verdict = "ok" -> IF pass.status = "ready" THEN row ELSE [row EXCEPT !.status = "ready"]
      [] OTHER -> [row EXCEPT !.status = "ready", !.sum = pass.content]

\* An operator who forces has the sidecar rewritten first.
PassWrites ==
    LET i == pass.image IN
    /\ pass.at = "judged"
    /\ pass' = NoPass
    /\ IF pass.verdict = "force" THEN SetDisk(i, "meta", pass.content) ELSE UNCHANGED disk
    /\ \/ /\ IF Exists(i) THEN imageRow' = [imageRow EXCEPT ![i] = Ruling(@)] ELSE UNCHANGED imageRow
          /\ UNCHANGED imageFaults
       \/ Ruling(imageRow[i]) # imageRow[i] /\ ImageFault /\ UNCHANGED imageRow
    /\ UNCHANGED <<work, canceling, serving, lost, stops>>

\* Disks fail and administrators move files.
Damages(i) ==
    /\ imageRow[i].status \in Judged
    /\ FileAt(i, imageRow[i].path) # NoFile
    /\ ImageFault
    /\ \E c \in {NoFile, Torn} : SetDisk(i, imageRow[i].path, c)
    /\ UNCHANGED <<imageRow, work, pass, canceling, serving, lost, stops>>
-----------------------------------------------------------------------------
(* The server.                                                             *)

\* A signal cancels the context of builds at once.
ShutsDown ==
    /\ serving = "up" /\ stops < MaxStops
    /\ serving' = "stopping"
    /\ UNCHANGED <<imageRow, disk, work, pass, canceling, lost, imageFaults, stops>>

\* The process ends, after a signal or without one: goroutines and requests end where they are, files
\* stay as they are.
Dies ==
    /\ serving # "down" /\ stops < MaxStops
    /\ serving' = "down"
    /\ stops' = stops + 1
    /\ work' = [w \in Works |-> IF Alive(w) THEN NoWork("over") ELSE work[w]]
    /\ pass' = NoPass
    /\ canceling' = {}
    /\ UNCHANGED <<imageRow, disk, lost, imageFaults>>

\* classifyStuckPhase
StuckPhase(i) ==
    CASE disk[i].phase \in ResumePhases -> disk[i].phase
      [] disk[i].rootfs # "none" -> "finalizing"
      [] OTHER -> "again"

\* Mutant: ReconcileStuckBuilds is not called.
Starts_AsItWas ==
    /\ serving = "down" /\ serving' = "up"
    /\ lost' = {}
    /\ UNCHANGED <<imageRow, disk, work, pass, canceling, imageFaults, stops>>
\* The next start, before it listens: ReconcileStuckBuilds marks every building row interrupted, and
\* its BuildHandle.Fail writes the state file.
Starts ==
    /\ serving = "down"
    /\ serving' = "up"
    /\ LET stuck == {i \in Images : imageRow[i].status = "building"} IN
       \E refused \in SUBSET stuck :
          /\ IF refused = {} THEN UNCHANGED imageFaults ELSE ImageFault
          /\ lost' = refused
          /\ imageRow' = [i \in Images |->
                IF i \in stuck \ refused
                THEN [imageRow[i] EXCEPT !.status = "interrupted", !.resume = StuckPhase(i)]
                ELSE imageRow[i]]
          /\ disk' = [i \in Images |-> IF i \in stuck \ refused THEN [disk[i] EXCEPT !.phase = "failed"]
                                                                ELSE disk[i]]
    /\ UNCHANGED <<work, pass, canceling, stops>>
-----------------------------------------------------------------------------
WorkStep(w) ==
    \/ ResumeWrites(w) \/ Acquires(w) \/ Extracts(w) \/ Unpacks(w) \/ Bakes(w) \/ Hashes(w)
    \/ Streams(w) \/ Measures(w) \/ Locates(w) \/ Finalizes(w) \/ Seals(w)
    \/ Fails(w) \/ Mismatches(w) \/ Aborts(w)

Requests(i) ==
    \/ \E w \in Works : \/ \E kind \in BuildKinds : StartsBuild(i, kind, w)
                        \/ FromUpload(i, w) \/ UploadBlob(i, w) \/ ResumeChecks(i, w)
    \/ CreatesImage(i)
    \/ CancelChecks(i) \/ Cancels(i) \/ Archives(i) \/ Deletes(i)

ImagesNext ==
    \/ \E w \in Works : WorkStep(w)
    \/ \E i \in Images : Requests(i) \/ Damages(i) \/ \E force \in BOOLEAN : PassReads(i, force)
    \/ PassResolves \/ PassHeals \/ PassHashes \/ PassWrites
    \/ ShutsDown \/ Dies \/ Starts

ImagesSpec == ImagesInit /\ [][ImagesNext]_imageVars

\* Builds have timeouts or end with their connection, uploads end when the client does; systemd starts
\* serverd again, and ends it TimeoutStopSec after a signal; the reconciler goes round every
\* CLUSTR_RECONCILE_INTERVAL, and sync.Mutex lets each waiter in.
ImagesFair ==
    /\ \A w \in Works : WF_imageVars(work[w].kind # "blob" /\ WorkStep(w))
    /\ WF_imageVars(Starts \/ (serving = "stopping" /\ Dies))
    /\ \A i \in Images : SF_imageVars(PassReads(i, FALSE))
    /\ WF_imageVars(PassResolves \/ PassHeals \/ PassHashes \/ PassWrites)

ImagesFairSpec == ImagesSpec /\ ImagesFair
-----------------------------------------------------------------------------
(* Properties.                                                             *)

ImagesTypeOK ==
    /\ imageRow \in [Images -> ImageRow]
    /\ disk \in [Images -> Disk]
    /\ work \in [Works -> Work]
    /\ pass \in Pass
    /\ canceling \in SUBSET Images
    /\ serving \in {"up", "stopping", "down"}
    /\ lost \in SUBSET Images
    /\ imageFaults \in 0..MaxImageFaults /\ stops \in 0..MaxStops

\* A goroutine that will still write the status of an image.
HasBuilder(i) == \E w \in Works : /\ work[w].image = i /\ work[w].kind # "blob"
                                  /\ work[w].at \notin {"checked", "finalized"}
AwaitsBlob(i) == /\ imageRow[i].kind = "created"
                 /\ \A w \in Works : work[w].image = i => work[w].kind = "blob"

\* While serverd is up an image that says building is being built, waits for the upload of its blob, or
\* lost a status to a refused statement; and one that says interrupted can be resumed: no cancel, resume,
\* failure or restart strands it (ReconcileStuckBuilds, ResumeImageBuild).
NotStranded ==
    \A i \in Images :
        /\ (imageRow[i].status = "building" /\ serving # "down") =>
               HasBuilder(i) \/ AwaitsBlob(i) \/ i \in lost
        /\ imageRow[i].status = "interrupted" => imageRow[i].resume # "no"

\* An image that can be deployed, or that the reconciler judges, names a blob and its checksum,
\* whichever of a build, an upload, a resume or a stale pass wrote its row last (SetBlobPath,
\* FinalizeBaseImage, RepairBaseImageChecksum).
JudgedHasBlob ==
    \A i \in Images : imageRow[i].status \in Judged => imageRow[i].path # "none" /\ imageRow[i].sum # NoFile

\* A build ends: its row does not say building for ever, unless the statement that says so is refused
\* (acquireSem and releaseSem on every path, ReconcileStuckBuilds after a crash).
BuildsEnd ==
    \A i \in Images : (imageRow[i].status = "building" /\ ~AwaitsBlob(i)) ~>
                          (imageRow[i].status # "building" \/ i \in lost)

Truthful(i) ==
    LET c == FileAt(i, imageRow[i].path) IN
    CASE imageRow[i].status = "ready"        -> c = imageRow[i].sum
      [] imageRow[i].status = "corrupt"      -> c # imageRow[i].sum /\ c # NoFile
      [] imageRow[i].status = "blob_missing" -> c = NoFile
      [] OTHER -> TRUE

\* A row that misjudges its blob does not go on doing so: the reconciler finds damage and torn uploads,
\* and clears what a pass that read too early has quarantined (reconcileImageLocked).
RowFollowsBlob == \A i \in Images : ~Truthful(i) ~> Truthful(i)

\* reconcile.go:26 says that a rootfs that is there and not empty is one the installer finished: a build
\* resumed from it would not make ready an image whose extraction was cut short.
ReadyIsWhole ==
    \A i \in Images : (imageRow[i].status = "ready" /\ imageRow[i].path = "tar") => disk[i].rootfs # "partial"
=============================================================================
