---------------------------- MODULE ImagesProofs ----------------------------
(***************************************************************************)
(* Theorems about Images, for any set of images, any number of builds,     *)
(* uploads, resumes and slots, and any number of faults and restarts.      *)
(***************************************************************************)
EXTENDS Images, TLAPS

(* Work that is under way is on an image that has a row; what it is about to write there is *)
(* the checksum of a file, and the row names the file before it is finalized.               *)
WorkOK(w) ==
    /\ IF Alive(w) THEN work[w].image \in Images /\ imageRow[work[w].image].status # "absent"
                   ELSE work[w].image = "none"
    /\ work[w].at \in {"hashed", "located", "finalized"} => work[w].sum # NoFile
    /\ work[w].at \in {"measured", "located"} => imageRow[work[w].image].path # "none"
    /\ work[w].at = "checked" => work[w].kind # "blob"

(* A pass is over a row that names a blob and its checksum, and has one to write; what it    *)
(* found at the default path is a file.                                                     *)
PassOK ==
    /\ pass.at # "idle" => /\ pass.image \in Images
                           /\ imageRow[pass.image].path # "none" /\ imageRow[pass.image].sum # NoFile
    /\ pass.at = "found" => pass.path # "none"
    /\ pass.at = "judged" => pass.verdict \in Verdicts
    /\ pass.verdict \in {"heal", "force"} => pass.content # NoFile

ImagesInv ==
    /\ ImagesTypeOK
    /\ \A w \in Works : WorkOK(w)
    /\ PassOK
    /\ JudgedHasBlob
    /\ NotStranded

(* What a step may do to a row: it stays in the table, with a path and a checksum once it   *)
(* has them; it is judged from a blob it names; interrupted, it says how to resume.         *)
RowStep(i) ==
    /\ imageRow[i].status # "absent" => imageRow'[i].status # "absent"
    /\ imageRow[i].path # "none" => imageRow'[i].path # "none"
    /\ imageRow[i].sum # NoFile => imageRow'[i].sum # NoFile
    /\ imageRow'[i].status \in Judged =>
           \/ imageRow[i].status \in Judged
           \/ imageRow'[i].path # "none" /\ imageRow'[i].sum # NoFile
    /\ imageRow'[i].status = "interrupted" =>
           \/ imageRow[i].status = "interrupted" /\ imageRow'[i].resume = imageRow[i].resume
           \/ imageRow'[i].resume # "no"

RowStatuses == Judged \cup Gone \cup {"building", "interrupted", "error", "archived"}
WorkKinds == {"download", "import", "capture", "rebuild", "refinalize", "upload", "blob"}
Stages == {"unused", "checked", "queued", "fetching", "extracting", "unpacked", "baking", "doomed",
           "streaming", "placed", "measured", "hashed", "located", "finalized", "over"}
DiskPhases == ResumePhases \cup {"none", "failed"}

(* What files hold.                                                                         *)
LEMMA Contents ==
    /\ NoFile \in Content /\ Torn \in Content
    /\ \A w \in Works : [by |-> {w}, open |-> {}] \in Content
    /\ \A w \in Works, c \in Content : Opened(c, w) \in Content /\ Closed(c, w) \in Content
<1>1. Works \subseteq Writers /\ Damage \in Writers
  BY DEF Writers
<1>2. NoFile \in Content /\ Torn \in Content
  BY <1>1 DEF NoFile, Torn, Content
<1>3. ASSUME NEW w \in Works PROVE [by |-> {w}, open |-> {}] \in Content
  BY <1>1 DEF Content
<1>4. ASSUME NEW w \in Works, NEW c \in Content PROVE Opened(c, w) \in Content
  <2> DEFINE writers == {v \in c.open \ {Damage} : Alive(v)} \cup {w}
  <2>1. c.open \subseteq Writers
    BY DEF Content
  <2>2. writers \subseteq Writers
    BY <1>1, <2>1
  <2>3. [by |-> writers, open |-> writers] \in Content
    BY <2>2 DEF Content
  <2> QED
    BY <2>3 DEF Opened
<1>5. ASSUME NEW w \in Works, NEW c \in Content PROVE Closed(c, w) \in Content
  BY DEF Content, Closed
<1> QED
  BY <1>2, <1>3, <1>4, <1>5

(* Writing a column of a row, a file of an image or the stage of a piece of work keeps the  *)
(* types.                                                                                   *)
LEMMA RowTyped ==
    ASSUME ImagesTypeOK, NEW i \in Images
    PROVE  /\ \A s \in RowStatuses : [imageRow EXCEPT ![i].status = s] \in [Images -> ImageRow]
           /\ \A p \in Paths : [imageRow EXCEPT ![i].path = p] \in [Images -> ImageRow]
<1>1. imageRow \in [Images -> ImageRow]
  BY DEF ImagesTypeOK
<1>2. ASSUME NEW s \in RowStatuses PROVE [imageRow EXCEPT ![i].status = s] \in [Images -> ImageRow]
  BY <1>1 DEF ImageRow, RowStatuses
<1>3. ASSUME NEW q \in Paths PROVE [imageRow EXCEPT ![i].path = q] \in [Images -> ImageRow]
  BY <1>1 DEF ImageRow
<1> QED
  BY <1>2, <1>3

(* The writes to an image's files keep the type of the disk.                                  *)
LEMMA DiskTyped ==
    ASSUME ImagesTypeOK, NEW i \in Images
    PROVE  /\ \A c \in Content : [disk EXCEPT ![i].tar = c] \in [Images -> Disk]
           /\ \A c \in Content : [disk EXCEPT ![i].blob = c] \in [Images -> Disk]
           /\ \A c \in Content : [disk EXCEPT ![i].meta = c] \in [Images -> Disk]
           /\ \A p \in DiskPhases : [disk EXCEPT ![i].phase = p] \in [Images -> Disk]
           /\ \A r \in {"none", "partial", "whole"} : [disk EXCEPT ![i].rootfs = r] \in [Images -> Disk]
           /\ \A p \in DiskPhases, c \in Content : [disk EXCEPT ![i].phase = p, ![i].tar = c] \in [Images -> Disk]
           /\ \A p \in DiskPhases, c \in Content : [disk EXCEPT ![i].meta = c, ![i].phase = p] \in [Images -> Disk]
           /\ \A p \in DiskPhases, r \in {"none", "partial", "whole"} :
                  /\ [disk EXCEPT ![i].rootfs = r, ![i].phase = p] \in [Images -> Disk]
                  /\ [disk EXCEPT ![i].phase = p, ![i].rootfs = r] \in [Images -> Disk]
           /\ [disk EXCEPT ![i] = EmptyDisk] \in [Images -> Disk]
<1>1. disk \in [Images -> Disk]
  BY DEF ImagesTypeOK
<1>2. disk[i] \in Disk
  BY <1>1
<1> USE <1>1, <1>2 DEF Disk, DiskPhases
<1>3. \A c \in Content : [disk EXCEPT ![i].tar = c] \in [Images -> Disk]
  OBVIOUS
<1>4. \A c \in Content : [disk EXCEPT ![i].blob = c] \in [Images -> Disk]
  OBVIOUS
<1>5. \A c \in Content : [disk EXCEPT ![i].meta = c] \in [Images -> Disk]
  OBVIOUS
<1>6. \A p \in DiskPhases : [disk EXCEPT ![i].phase = p] \in [Images -> Disk]
  OBVIOUS
<1>7. \A r \in {"none", "partial", "whole"} : [disk EXCEPT ![i].rootfs = r] \in [Images -> Disk]
  OBVIOUS
<1>8. \A p \in DiskPhases, c \in Content : [disk EXCEPT ![i].phase = p, ![i].tar = c] \in [Images -> Disk]
  OBVIOUS
<1>9. \A p \in DiskPhases, c \in Content : [disk EXCEPT ![i].meta = c, ![i].phase = p] \in [Images -> Disk]
  OBVIOUS
<1>10. \A p \in DiskPhases, r \in {"none", "partial", "whole"} :
          /\ [disk EXCEPT ![i].rootfs = r, ![i].phase = p] \in [Images -> Disk]
          /\ [disk EXCEPT ![i].phase = p, ![i].rootfs = r] \in [Images -> Disk]
  OBVIOUS
<1>11. EmptyDisk \in Disk
  BY Contents DEF EmptyDisk
<1>12. [disk EXCEPT ![i] = EmptyDisk] \in [Images -> Disk]
  BY <1>11
<1> QED
  BY <1>3, <1>4, <1>5, <1>6, <1>7, <1>8, <1>9, <1>10, <1>12

(* A work that starts, goes on or takes a sum keeps its type.                                 *)
LEMMA WorkTyped ==
    ASSUME ImagesTypeOK, NEW w \in Works
    PROVE  /\ \A at \in Stages : Becomes(w, at) => work' \in [Works -> Work]
           /\ \A at \in Stages, c \in Content :
                  [work EXCEPT ![w].at = at, ![w].sum = c] \in [Works -> Work]
           /\ \A kind \in WorkKinds, i \in Images, at \in Stages : Takes(w, kind, i, at) => work' \in [Works -> Work]
<1>1. work \in [Works -> Work] /\ work[w] \in Work
  BY DEF ImagesTypeOK
<1>2. NoWork("over") \in Work
  BY Contents DEF NoWork, Work
<1>3. ASSUME NEW at \in Stages PROVE [work[w] EXCEPT !.at = at] \in Work
  BY <1>1 DEF Work, Stages
<1>4. ASSUME NEW at \in Stages, Becomes(w, at) PROVE work' \in [Works -> Work]
  BY <1>1, <1>2, <1>3, <1>4 DEF Becomes
<1>5. ASSUME NEW at \in Stages, NEW c \in Content
      PROVE  [work EXCEPT ![w].at = at, ![w].sum = c] \in [Works -> Work]
  BY <1>1 DEF Work, Stages
<1>6. ASSUME NEW kind \in WorkKinds, NEW i \in Images, NEW at \in Stages, Takes(w, kind, i, at)
      PROVE  work' \in [Works -> Work]
  <2>1. [kind |-> kind, image |-> i, at |-> at, sum |-> NoFile] \in Work
    BY Contents DEF Work, WorkKinds, Stages
  <2> QED
    BY <1>1, <1>6, <2>1 DEF Takes
<1> QED
  BY <1>4, <1>5, <1>6

(* In the initial state there is no row, no work and no pass.                               *)
LEMMA InitImages == ImagesInit => ImagesInv
<1> SUFFICES ASSUME ImagesInit PROVE ImagesInv
  OBVIOUS
<1> USE ImagesAssumption
<1>1. imageRow \in [Images -> ImageRow]
  BY Contents DEF ImagesInit, ImageRow, Gone, Paths
<1>2. disk \in [Images -> Disk]
  BY Contents DEF ImagesInit, Disk, EmptyDisk
<1>3. work \in [Works -> Work]
  BY Contents DEF ImagesInit, Work, NoWork
<1>4. pass \in Pass
  BY Contents DEF ImagesInit, Pass, NoPass, Paths
<1>5. ImagesTypeOK
  BY <1>1, <1>2, <1>3, <1>4 DEF ImagesInit, ImagesTypeOK
<1>6. \A w \in Works : WorkOK(w)
  BY DEF ImagesInit, WorkOK, NoWork, Alive
<1>7. PassOK
  BY DEF ImagesInit, PassOK, NoPass
<1>8. JudgedHasBlob /\ NotStranded
  BY DEF ImagesInit, JudgedHasBlob, NotStranded, Judged
<1> QED
  BY <1>5, <1>6, <1>7, <1>8 DEF ImagesInv

(* A step of a piece of work is one of work under way.                                      *)
LEMMA StepsAlive ==
    ASSUME ImagesTypeOK, \A v \in Works : WorkOK(v), NEW w \in Works, WorkStep(w)
    PROVE  work[w].image \in Images /\ Alive(w)
<1>1. Alive(w)
  BY DEF WorkStep, Alive, ResumeWrites, Acquires, Extracts, Unpacks, Bakes, Hashes, Streams, Measures,
         Locates, Finalizes, Seals, Fails, Mismatches, Aborts, Steps
<1> QED
  BY <1>1 DEF WorkOK

(* Every step keeps the types: the work, ...                                                *)
LEMMA WorkStepTyped ==
    ASSUME ImagesTypeOK, \A v \in Works : WorkOK(v), NEW w \in Works, WorkStep(w)
    PROVE  ImagesTypeOK'
<1> DEFINE i == work[w].image
<1>1. i \in Images
  BY StepsAlive
<1>2. imageRow \in [Images -> ImageRow] /\ disk \in [Images -> Disk] /\ work \in [Works -> Work]
  BY DEF ImagesTypeOK
<1>3. imageRow[i] \in ImageRow /\ disk[i] \in Disk /\ work[w] \in Work
  BY <1>1, <1>2
<1>4. /\ disk[i].tar \in Content /\ disk[i].blob \in Content /\ work[w].sum \in Content
      /\ disk[i].phase \in DiskPhases
  BY <1>3 DEF Disk, Work, DiskPhases
<1>5. \A p \in DiskPhases : Phase(w, p) \in DiskPhases
  BY <1>4 DEF Phase
<1>6. /\ \A at \in Stages : Becomes(w, at) => work' \in [Works -> Work]
      /\ \A at \in Stages, c \in Content : [work EXCEPT ![w].at = at, ![w].sum = c] \in [Works -> Work]
  BY WorkTyped
<1>7. ImageFault => imageFaults' \in 0..MaxImageFaults
  BY ImagesAssumption DEF ImageFault, ImagesTypeOK
<1>8. /\ {"queued", "fetching", "extracting", "unpacked", "baking", "doomed", "measured", "hashed",
          "located", "finalized", "over"} \subseteq Stages
      /\ {"again", "finalizing", "failed"} \subseteq DiskPhases
      /\ "error" \in RowStatuses
  BY DEF Stages, DiskPhases, ResumePhases, RowStatuses
<1>9. CASE ResumeWrites(w)
  <2>1. imageRow' \in [Images -> ImageRow]
    <3>1. /\ [imageRow EXCEPT ![i].status = "building", ![i].resume = "no"] \in [Images -> ImageRow]
          /\ [imageRow EXCEPT ![i].status = "building"] \in [Images -> ImageRow]
      BY <1>1, <1>2 DEF ImageRow
    <3>2. \/ UNCHANGED imageRow \/ SetImageStatus(i, "building")
          \/ imageRow' = [imageRow EXCEPT ![i].status = "building", ![i].resume = "no"]
      BY <1>9 DEF ResumeWrites
    <3> QED
      BY <1>2, <3>1, <3>2 DEF SetImageStatus
  <2>2. work' \in [Works -> Work]
    BY <1>6, <1>8, <1>9 DEF ResumeWrites
  <2> QED
    BY <1>7, <1>9, <2>1, <2>2 DEF ResumeWrites, ImagesTypeOK
<1>10. CASE Acquires(w)
  <2>1. disk' \in [Images -> Disk]
    <3>1. \/ disk' = [disk EXCEPT ![i].phase = "again"]
          \/ disk' = [disk EXCEPT ![i].rootfs = "partial"]
      BY <1>10 DEF Acquires, SetDisk
    <3>2. [disk EXCEPT ![i].phase = "again"] \in [Images -> Disk]
      BY <1>1, <1>8, DiskTyped
    <3>3. [disk EXCEPT ![i].rootfs = "partial"] \in [Images -> Disk]
      BY <1>1, DiskTyped
    <3> QED
      BY <3>1, <3>2, <3>3
  <2>2. work' \in [Works -> Work]
    BY <1>6, <1>8, <1>10 DEF Acquires, Steps
  <2> QED
    BY <1>10, <2>1, <2>2 DEF Acquires, OnDiskOnly, ImagesTypeOK
<1>11. CASE Extracts(w) \/ Unpacks(w) \/ Bakes(w)
  <2>1. disk' \in [Images -> Disk]
    <3>1. Opened(disk[i].tar, w) \in Content
      BY <1>4, Contents
    <3>2. CASE Extracts(w)
      BY <1>1, <1>8, <3>2, DiskTyped DEF Extracts
    <3>3. CASE Unpacks(w)
      BY <1>1, <3>3, DiskTyped DEF Unpacks, SetDisk
    <3>4. CASE Bakes(w)
      <4>1. Phase(w, "finalizing") \in DiskPhases
        BY <1>5, <1>8
      <4>2. disk' = [disk EXCEPT ![i].phase = Phase(w, "finalizing"), ![i].tar = Opened(disk[i].tar, w)]
        BY <3>4 DEF Bakes
      <4> QED
        BY <1>1, <3>1, <4>1, <4>2, DiskTyped
    <3> QED
      BY <1>11, <3>2, <3>3, <3>4
  <2>2. work' \in [Works -> Work]
    BY <1>6, <1>8, <1>11 DEF Extracts, Unpacks, Bakes, Steps
  <2> QED
    BY <1>11, <2>1, <2>2 DEF Extracts, Unpacks, Bakes, OnDiskOnly, ImagesTypeOK
<1>12. CASE Hashes(w)
  <2>1. Closed(disk[i].tar, w) \in Content
    BY <1>4, Contents
  <2>2. disk' \in [Images -> Disk]
    BY <1>1, <1>12, <2>1, DiskTyped DEF Hashes, SetDisk
  <2>3. work' \in [Works -> Work]
    BY <1>6, <1>8, <1>12, <2>1 DEF Hashes
  <2> QED
    BY <1>12, <2>2, <2>3 DEF Hashes, OnDiskOnly, ImagesTypeOK
<1>13. CASE Streams(w)
  <2>1. Closed(disk[i].blob, w) \in Content /\ [by |-> {w}, open |-> {}] \in Content
    BY <1>4, Contents
  <2>2. disk' \in [Images -> Disk]
    BY <1>1, <1>13, <2>1, DiskTyped DEF Streams, SetDisk
  <2>3. work' \in [Works -> Work]
    BY <1>6, <1>8, <1>13, <2>1 DEF Streams
  <2> QED
    BY <1>13, <2>2, <2>3 DEF Streams, OnDiskOnly, ImagesTypeOK
<1>14. CASE Measures(w)
  <2>1. work' \in [Works -> Work]
    BY <1>4, <1>6, <1>8, <1>14 DEF Measures
  <2> QED
    BY <1>14, <2>1 DEF Measures, OnDiskOnly, ImagesTypeOK
<1>15. CASE Locates(w)
  <2>1. imageRow' \in [Images -> ImageRow]
    BY <1>1, <1>15, RowTyped DEF Locates, Paths
  <2>2. work' \in [Works -> Work]
    BY <1>6, <1>8, <1>15 DEF Locates
  <2> QED
    BY <1>15, <2>1, <2>2 DEF Locates, ImagesTypeOK
<1>16. CASE Finalizes(w)
  <2>1. imageRow' \in [Images -> ImageRow]
    BY <1>1, <1>2, <1>4, <1>16 DEF Finalizes, ImageRow, Judged
  <2>2. work' \in [Works -> Work]
    BY <1>6, <1>8, <1>16 DEF Finalizes
  <2> QED
    BY <1>16, <2>1, <2>2 DEF Finalizes, ImagesTypeOK
<1>17. CASE Seals(w)
  <2>1. disk' \in [Images -> Disk]
    <3>1. Phase(w, "again") \in DiskPhases
      BY <1>5, <1>8
    <3>2. \/ disk' = [disk EXCEPT ![i].meta = work[w].sum, ![i].phase = Phase(w, "again")]
          \/ disk' = [disk EXCEPT ![i].phase = Phase(w, "again")]
      BY <1>17 DEF Seals, SetDisk
    <3>3. [disk EXCEPT ![i].meta = work[w].sum, ![i].phase = Phase(w, "again")] \in [Images -> Disk]
      BY <1>1, <1>4, <3>1, DiskTyped
    <3>4. [disk EXCEPT ![i].phase = Phase(w, "again")] \in [Images -> Disk]
      BY <1>1, <3>1, DiskTyped
    <3> QED
      BY <3>2, <3>3, <3>4
  <2>2. work' \in [Works -> Work]
    BY <1>6, <1>8, <1>17 DEF Seals, Steps
  <2> QED
    BY <1>7, <1>17, <2>1, <2>2 DEF Seals, ImagesTypeOK
<1>18. ASSUME WritesError(w)
       PROVE  imageRow' \in [Images -> ImageRow] /\ lost' \in SUBSET Images /\ imageFaults' \in 0..MaxImageFaults
  BY <1>1, <1>2, <1>7, <1>8, <1>18, RowTyped DEF WritesError, SetImageStatus, ImagesTypeOK
<1>19. CASE Fails(w)
  <2>1. disk' \in [Images -> Disk]
    <3> DEFINE rootfs == IF work[w].kind = "capture" /\ ~(work[w].at = "queued") THEN "none" ELSE disk[i].rootfs
    <3>1. PICK phase \in {disk[i].phase, Phase(w, "failed"), "finalizing"} :
              disk' = [disk EXCEPT ![i].phase = phase, ![i].rootfs = rootfs]
      BY <1>19 DEF Fails
    <3>2. phase \in DiskPhases /\ rootfs \in {"none", "partial", "whole"}
      BY <1>3, <1>4, <1>5, <1>8, <3>1 DEF Disk
    <3> HIDE DEF rootfs
    <3> QED
      BY <1>1, <3>1, <3>2, DiskTyped
  <2>2. work' \in [Works -> Work]
    BY <1>6, <1>8, <1>19 DEF Fails
  <2> QED
    BY <1>18, <1>19, <2>1, <2>2 DEF Fails, ImagesTypeOK
<1>20. CASE Mismatches(w)
  <2>1. disk' \in [Images -> Disk]
    BY <1>1, <1>20, DiskTyped, Contents DEF Mismatches, SetDisk
  <2>2. work' \in [Works -> Work]
    BY <1>6, <1>8, <1>20 DEF Mismatches, Steps
  <2> QED
    BY <1>18, <1>20, <2>1, <2>2 DEF Mismatches, ImagesTypeOK
<1>21. CASE Aborts(w)
  <2>1. disk' \in [Images -> Disk]
    <3>1. disk' = [disk EXCEPT ![i].blob = NoFile] \/ UNCHANGED disk
      BY <1>21 DEF Aborts, SetDisk
    <3>2. [disk EXCEPT ![i].blob = NoFile] \in [Images -> Disk]
      BY <1>1, DiskTyped, Contents
    <3> QED
      BY <1>2, <3>1, <3>2
  <2>2. work' \in [Works -> Work]
    BY <1>6, <1>8, <1>21 DEF Aborts
  <2> QED
    BY <1>21, <2>1, <2>2 DEF Aborts, OnDiskOnly, ImagesTypeOK
<1> QED
  BY <1>9, <1>10, <1>11, <1>12, <1>13, <1>14, <1>15, <1>16, <1>17, <1>19, <1>20, <1>21 DEF WorkStep

(* ... the requests, ...                                                                    *)
LEMMA RequestTyped ==
    ASSUME ImagesTypeOK, NEW i \in Images, Requests(i)
    PROVE  ImagesTypeOK'
<1>1. imageRow \in [Images -> ImageRow] /\ disk \in [Images -> Disk]
  BY DEF ImagesTypeOK
<1>2. ImageFault => imageFaults' \in 0..MaxImageFaults
  BY ImagesAssumption DEF ImageFault, ImagesTypeOK
<1>3. ASSUME NEW kind \in {"download", "import", "capture", "upload", "created"}, Inserts(i, kind)
      PROVE  imageRow' \in [Images -> ImageRow]
  BY <1>1, <1>3 DEF Inserts, ImageRow
<1>4. ASSUME NEW s \in RowStatuses, SetImageStatus(i, s) PROVE imageRow' \in [Images -> ImageRow]
  BY <1>4, RowTyped DEF SetImageStatus
<1>5. ASSUME NEW kind \in BuildKinds, NEW w \in Works, StartsBuild(i, kind, w) PROVE ImagesTypeOK'
  <2>1. kind \in {"download", "import", "capture", "upload", "created"} /\ kind \in WorkKinds /\ "queued" \in Stages
    BY ImagesAssumption DEF WorkKinds, Stages
  <2>2. work' \in [Works -> Work]
    BY <1>5, <2>1, WorkTyped DEF StartsBuild
  <2>3. imageRow' \in [Images -> ImageRow]
    BY <1>3, <1>5, <2>1 DEF StartsBuild
  <2> QED
    BY <1>5, <2>2, <2>3 DEF StartsBuild, ImagesTypeOK
<1>6. ASSUME NEW w \in Works, FromUpload(i, w) PROVE ImagesTypeOK'
  <2>1. "upload" \in WorkKinds /\ "placed" \in Stages
    BY DEF WorkKinds, Stages
  <2>2. work' \in [Works -> Work]
    BY <1>6, <2>1, WorkTyped DEF FromUpload
  <2>3. imageRow' \in [Images -> ImageRow]
    BY <1>3, <1>6 DEF FromUpload
  <2>4. [by |-> {w}, open |-> {}] \in Content
    BY Contents
  <2>5. disk' \in [Images -> Disk]
    BY <1>6, <2>4, DiskTyped DEF FromUpload, SetDisk
  <2> QED
    BY <1>6, <2>2, <2>3, <2>5 DEF FromUpload, ImagesTypeOK
<1>7. ASSUME NEW w \in Works, UploadBlob(i, w) PROVE ImagesTypeOK'
  <2>1. "blob" \in WorkKinds /\ "streaming" \in Stages
    BY DEF WorkKinds, Stages
  <2>2. work' \in [Works -> Work]
    BY <1>7, <2>1, WorkTyped DEF UploadBlob
  <2>3. Opened(disk[i].blob, w) \in Content
    BY <1>1, Contents DEF Disk
  <2>4. disk' \in [Images -> Disk]
    BY <1>7, <2>3, DiskTyped DEF UploadBlob, SetDisk
  <2> QED
    BY <1>7, <2>2, <2>4 DEF UploadBlob, ImagesTypeOK
<1>8. ASSUME NEW w \in Works, ResumeChecks(i, w) PROVE ImagesTypeOK'
  <2>1. "rebuild" \in WorkKinds /\ "refinalize" \in WorkKinds /\ "checked" \in Stages
    BY DEF WorkKinds, Stages
  <2>2. work' \in [Works -> Work]
    BY <1>8, <2>1, WorkTyped DEF ResumeChecks
  <2> QED
    BY <1>8, <2>2 DEF ResumeChecks, ImagesTypeOK
<1>9. CASE CreatesImage(i)
  <2>1. imageRow' \in [Images -> ImageRow]
    BY <1>3, <1>9 DEF CreatesImage
  <2> QED
    BY <1>9, <2>1 DEF CreatesImage, ImagesTypeOK
<1>10. CASE CancelChecks(i)
  BY <1>10 DEF CancelChecks, ImagesTypeOK
<1>11. "error" \in RowStatuses /\ "archived" \in RowStatuses /\ "deleted" \in RowStatuses
  BY DEF RowStatuses, Gone
<1>12. CASE Cancels(i) \/ Archives(i)
  <2>1. imageRow' \in [Images -> ImageRow]
    BY <1>1, <1>4, <1>11, <1>12 DEF Cancels, Archives
  <2> QED
    BY <1>12, <2>1 DEF Cancels, Archives, ImagesTypeOK
<1>13. CASE Deletes(i)
  <2>1. imageRow' \in [Images -> ImageRow]
    BY <1>1, <1>4, <1>11, <1>13 DEF Deletes
  <2>2. disk' \in [Images -> Disk]
    BY <1>13, DiskTyped DEF Deletes
  <2>3. imageFaults' \in 0..MaxImageFaults
    BY <1>2, <1>13 DEF Deletes, ImagesTypeOK
  <2> QED
    BY <1>13, <2>1, <2>2, <2>3 DEF Deletes, ImagesTypeOK
<1> QED
  BY <1>5, <1>6, <1>7, <1>8, <1>9, <1>10, <1>12, <1>13 DEF Requests

(* ... the passes and damage, ...                                                           *)
LEMMA FilesTyped ==
    ASSUME ImagesTypeOK, NEW i \in Images
    PROVE  /\ \A p \in Paths : FileAt(i, p) \in Content
           /\ DefaultPath(i) \in Paths /\ imageRow[i].path \in Paths
           /\ FileAt(i, "none") = NoFile
<1>1. imageRow[i] \in ImageRow /\ disk[i] \in Disk
  BY DEF ImagesTypeOK
<1>2. \A p \in Paths : FileAt(i, p) \in Content
  BY <1>1, Contents DEF FileAt, Disk, Paths
<1>3. DefaultPath(i) \in Paths /\ imageRow[i].path \in Paths
  BY <1>1 DEF DefaultPath, Paths, ImageRow
<1>4. FileAt(i, "none") = NoFile
  BY DEF FileAt
<1> QED
  BY <1>2, <1>3, <1>4

(* The steps of the metadata pass, and damage to the files, keep the type.                    *)
LEMMA PassTyped ==
    ASSUME ImagesTypeOK, PassOK,
           \/ \E i \in Images : Damages(i) \/ \E force \in BOOLEAN : PassReads(i, force)
           \/ PassResolves \/ PassHeals \/ PassHashes \/ PassWrites
    PROVE  ImagesTypeOK'
<1>1. imageRow \in [Images -> ImageRow] /\ disk \in [Images -> Disk] /\ pass \in Pass
  BY DEF ImagesTypeOK
<1>2. ImageFault => imageFaults' \in 0..MaxImageFaults
  BY ImagesAssumption DEF ImageFault, ImagesTypeOK
<1>3. NoPass \in Pass
  BY Contents DEF NoPass, Pass, Paths
<1>4. ASSUME NEW i \in Images, Damages(i) PROVE ImagesTypeOK'
  <2>1. imageRow[i].path \in {"tar", "blob"}
    <3>1. imageRow[i].path \in Paths
      BY <1>1 DEF ImageRow
    <3>2. FileAt(i, imageRow[i].path) # NoFile
      BY <1>4 DEF Damages
    <3> QED
      BY <3>1, <3>2 DEF Paths, FileAt
  <2>2. ASSUME NEW c \in {NoFile, Torn}, SetDisk(i, imageRow[i].path, c) PROVE disk' \in [Images -> Disk]
    <3>1. c \in Content
      BY <2>2, Contents
    <3>2. [disk EXCEPT ![i].tar = c] \in [Images -> Disk] /\ [disk EXCEPT ![i].blob = c] \in [Images -> Disk]
      BY <3>1, DiskTyped
    <3>3. CASE imageRow[i].path = "tar"
      BY <2>2, <3>2, <3>3 DEF SetDisk
    <3>4. CASE imageRow[i].path = "blob"
      BY <2>2, <3>2, <3>4 DEF SetDisk
    <3> QED
      BY <2>1, <3>3, <3>4
  <2>3. disk' \in [Images -> Disk]
    BY <1>4, <2>2 DEF Damages
  <2> QED
    BY <1>2, <1>4, <2>3 DEF Damages, ImagesTypeOK
<1>5. ASSUME NEW i \in Images, NEW force \in BOOLEAN, PassReads(i, force) PROVE ImagesTypeOK'
  <2>1. imageRow[i].status \in Judged /\ imageRow[i].sum \in Content
    BY <1>1, <1>5 DEF PassReads, ImageRow
  <2>2. pass' \in Pass
    BY <1>3, <1>5, <2>1 DEF PassReads, Pass
  <2> QED
    BY <1>5, <2>2 DEF PassReads, ImagesTypeOK
<1>6. CASE PassResolves
  <2>1. pass.image \in Images
    BY <1>6 DEF PassResolves, PassOK
  <2>2. DefaultPath(pass.image) \in Paths /\ imageRow[pass.image].path \in Paths
    BY <2>1, FilesTyped
  <2>3. pass' \in Pass
    <3>1. ASSUME NEW p \in Paths, NEW at \in {"found", "read"} PROVE [pass EXCEPT !.at = at, !.path = p] \in Pass
      BY <1>1 DEF Pass
    <3>2. [pass EXCEPT !.at = "judged", !.verdict = "missing"] \in Pass
      BY <1>1 DEF Pass, Verdicts
    <3> QED
      BY <1>6, <2>2, <3>1, <3>2 DEF PassResolves
  <2>4. imageFaults' \in 0..MaxImageFaults
    BY <1>2, <1>6 DEF PassResolves, ImagesTypeOK
  <2> QED
    BY <1>6, <2>3, <2>4 DEF PassResolves, ImagesTypeOK
<1>7. CASE PassHeals
  <2>1. pass.image \in Images /\ pass.path \in Paths
    BY <1>1, <1>7 DEF PassHeals, PassOK, Pass
  <2>2. imageRow' \in [Images -> ImageRow]
    <3>1. [imageRow EXCEPT ![pass.image].path = pass.path] \in [Images -> ImageRow]
      BY <2>1, RowTyped
    <3> QED
      BY <1>1, <1>7, <3>1 DEF PassHeals
  <2>3. pass' \in Pass
    <3>1. [pass EXCEPT !.at = "read"] \in Pass
      BY <1>1 DEF Pass
    <3> QED
      BY <1>3, <1>7, <3>1 DEF PassHeals
  <2>4. imageFaults' \in 0..MaxImageFaults
    BY <1>2, <1>7 DEF PassHeals, ImagesTypeOK
  <2> QED
    BY <1>7, <2>2, <2>3, <2>4 DEF PassHeals, ImagesTypeOK
<1>8. CASE PassHashes
  <2>1. pass.path \in Paths
    BY <1>1 DEF Pass
  <2>2. pass.image \in Images
    BY <1>8 DEF PassHashes, PassOK
  <2>3. FileAt(pass.image, pass.path) \in Content
    BY <2>1, <2>2, FilesTyped
  <2>4. pass' \in Pass
    <3>1. ASSUME NEW v \in Verdicts, NEW c \in Content
          PROVE  [pass EXCEPT !.at = "judged", !.verdict = v, !.content = c] \in Pass
      BY <1>1 DEF Pass
    <3>2. \A c : Drift(pass.image, c) \subseteq Verdicts
      BY DEF Drift, Verdicts
    <3>3. "ok" \in Verdicts
      BY DEF Verdicts
    <3> QED
      <4>1. CASE pass' = NoPass
        BY <1>3, <4>1
      <4>2. CASE ~(pass' = NoPass)
        <5> DEFINE c == FileAt(pass.image, pass.path)
        <5>1. PICK v \in IF c = pass.sum THEN {"ok"} ELSE Drift(pass.image, c) :
                  pass' = [pass EXCEPT !.at = "judged", !.verdict = v, !.content = c]
          BY <1>8, <4>2 DEF PassHashes
        <5>2. v \in Verdicts
          BY <3>2, <3>3, <5>1
        <5> QED
          BY <2>3, <3>1, <5>1, <5>2
      <4> QED
        BY <4>1, <4>2
  <2> QED
    BY <1>8, <2>4 DEF PassHashes, ImagesTypeOK
<1>9. CASE PassWrites
  <2>1. pass.image \in Images /\ pass.content \in Content
    BY <1>1, <1>9 DEF PassWrites, PassOK, Pass
  <2>2. disk' \in [Images -> Disk]
    <3>1. [disk EXCEPT ![pass.image].meta = pass.content] \in [Images -> Disk]
      BY <2>1, DiskTyped
    <3> QED
      BY <1>1, <1>9, <3>1 DEF PassWrites, SetDisk
  <2>3. imageRow' \in [Images -> ImageRow]
    <3>1. ASSUME NEW row \in ImageRow PROVE Ruling(row) \in ImageRow
      <4>1. \A v \in {"missing", "corrupt"} : Quarantine[v] \in Judged
        BY DEF Quarantine, Judged
      <4>2. ASSUME NEW q \in Judged PROVE [row EXCEPT !.status = q] \in ImageRow
        BY DEF ImageRow
      <4>3. [row EXCEPT !.status = "ready", !.sum = pass.content] \in ImageRow
        BY <2>1 DEF ImageRow, Judged
      <4>4. "ready" \in Judged
        BY DEF Judged
      <4> QED
        BY <4>1, <4>2, <4>3, <4>4 DEF Ruling
    <3> QED
      BY <1>1, <1>9, <2>1, <3>1 DEF PassWrites
  <2>4. imageFaults' \in 0..MaxImageFaults
    BY <1>2, <1>9 DEF PassWrites, ImagesTypeOK
  <2> QED
    BY <1>3, <1>9, <2>2, <2>3, <2>4 DEF PassWrites, ImagesTypeOK
<1> QED
  BY <1>4, <1>5, <1>6, <1>7, <1>8, <1>9

(* ... and the ends and starts of serverd.                                                  *)
LEMMA ServerTyped ==
    ASSUME ImagesTypeOK, ShutsDown \/ Dies \/ Starts
    PROVE  ImagesTypeOK'
<1>1. CASE ShutsDown
  BY <1>1 DEF ShutsDown, ImagesTypeOK
<1>2. CASE Dies
  <2>1. NoWork("over") \in Work /\ NoPass \in Pass
    BY Contents DEF NoWork, Work, NoPass, Pass, Paths
  <2>2. work' \in [Works -> Work]
    BY <1>2, <2>1 DEF Dies, ImagesTypeOK
  <2>3. stops' \in 0..MaxStops
    BY <1>2, ImagesAssumption DEF Dies, ImagesTypeOK
  <2> QED
    BY <1>2, <2>1, <2>2, <2>3 DEF Dies, ImagesTypeOK
<1>3. CASE Starts
  <2> DEFINE stuck == {i \in Images : imageRow[i].status = "building"}
  <2>1. PICK refused \in SUBSET stuck :
            /\ UNCHANGED imageFaults \/ ImageFault
            /\ lost' = refused
            /\ imageRow' = [i \in Images |->
                  IF i \in stuck \ refused
                  THEN [imageRow[i] EXCEPT !.status = "interrupted", !.resume = StuckPhase(i)]
                  ELSE imageRow[i]]
            /\ disk' = [i \in Images |-> IF i \in stuck \ refused THEN [disk[i] EXCEPT !.phase = "failed"]
                                                                  ELSE disk[i]]
    BY <1>3 DEF Starts
  <2>2. \A i \in Images : StuckPhase(i) \in ResumePhases
    BY DEF StuckPhase, ResumePhases
  <2>3. imageRow' \in [Images -> ImageRow]
    <3>1. ASSUME NEW i \in Images
          PROVE  [imageRow[i] EXCEPT !.status = "interrupted", !.resume = StuckPhase(i)] \in ImageRow
      <4>1. imageRow[i] \in ImageRow /\ StuckPhase(i) \in ResumePhases
        BY <2>2 DEF ImagesTypeOK
      <4> QED
        BY <4>1 DEF ImageRow
    <3> QED
      BY <2>1, <3>1 DEF ImagesTypeOK
  <2>4. disk' \in [Images -> Disk]
    <3>1. ASSUME NEW i \in Images PROVE [disk[i] EXCEPT !.phase = "failed"] \in Disk
      BY DEF ImagesTypeOK, Disk
    <3> QED
      BY <2>1, <3>1 DEF ImagesTypeOK
  <2>5. imageFaults' \in 0..MaxImageFaults
    <3>1. ImageFault => imageFaults' \in 0..MaxImageFaults
      BY ImagesAssumption DEF ImageFault, ImagesTypeOK
    <3>2. imageFaults \in 0..MaxImageFaults
      BY DEF ImagesTypeOK
    <3>3. UNCHANGED imageFaults \/ ImageFault
      BY <2>1
    <3> QED
      BY <3>1, <3>2, <3>3
  <2> QED
    BY <1>3, <2>1, <2>3, <2>4, <2>5 DEF Starts, ImagesTypeOK
<1> QED
  BY <1>1, <1>2, <1>3

(* Every step does to rows what RowStep says.                                               *)
LEMMA RowSteps ==
    ASSUME ImagesInv, ImagesNext
    PROVE  \A j \in Images : RowStep(j)
<1>1. ImagesTypeOK /\ PassOK /\ \A w \in Works : WorkOK(w)
  BY DEF ImagesInv
<1>2. imageRow \in [Images -> ImageRow]
  BY <1>1 DEF ImagesTypeOK
<1>3. UNCHANGED imageRow => \A j \in Images : RowStep(j)
  BY DEF RowStep
<1>4. ASSUME NEW i \in Images, imageRow[i].status # "absent",
             NEW s \in {"error", "archived", "deleted"}, SetImageStatus(i, s)
      PROVE  \A j \in Images : RowStep(j)
  BY <1>2, <1>4 DEF SetImageStatus, RowStep, Judged, ImageRow
<1>5. ASSUME NEW w \in Works, WorkStep(w) PROVE \A j \in Images : RowStep(j)
  <2> DEFINE i == work[w].image
  <2>1. i \in Images /\ imageRow[i].status # "absent"
    BY <1>1, <1>5, StepsAlive DEF WorkOK
  <2>2. CASE UNCHANGED imageRow
    BY <1>3, <2>2
  <2>3. CASE WritesError(w)
    BY <1>3, <1>4, <2>1, <2>3 DEF WritesError
  <2>4. CASE ResumeWrites(w)
    <3>1. CASE imageRow' = [imageRow EXCEPT ![i].status = "building", ![i].resume = "no"]
      BY <1>2, <2>1, <3>1 DEF RowStep, Judged, ImageRow
    <3>2. CASE SetImageStatus(i, "building")
      BY <1>2, <2>1, <3>2 DEF SetImageStatus, RowStep, Judged, ImageRow
    <3> QED
      BY <1>3, <2>4, <3>1, <3>2 DEF ResumeWrites
  <2>5. CASE Locates(w)
    <3>1. PICK q \in {"blob", "tar"} : imageRow' = [imageRow EXCEPT ![i].path = q]
      BY <2>5 DEF Locates
    <3> QED
      BY <1>2, <2>1, <3>1 DEF RowStep, Judged, ImageRow
  <2>6. CASE Finalizes(w)
    <3>1. work[w].sum # NoFile /\ imageRow[i].path # "none"
      BY <1>1, <2>6 DEF Finalizes, WorkOK
    <3>2. imageRow' = [imageRow EXCEPT ![i].sum = work[w].sum, ![i].status = "ready"]
      BY <2>6 DEF Finalizes
    <3> QED
      BY <1>2, <2>1, <3>1, <3>2 DEF RowStep, Judged, ImageRow
  <2>7. Fails(w) \/ Mismatches(w) => WritesError(w)
    BY DEF Fails, Mismatches
  <2>8. UNCHANGED imageRow \/ WritesError(w) \/ ResumeWrites(w) \/ Locates(w) \/ Finalizes(w)
    BY <1>5, <2>7 DEF WorkStep, Acquires, Extracts, Unpacks, Bakes, Hashes, Streams, Measures, Seals, Aborts,
                      OnDiskOnly
  <2> QED
    BY <2>2, <2>3, <2>4, <2>5, <2>6, <2>8
<1>6. ASSUME NEW i \in Images, Requests(i) PROVE \A j \in Images : RowStep(j)
  <2>1. ASSUME NEW kind, Inserts(i, kind) PROVE \A j \in Images : RowStep(j)
    BY <1>2, <2>1 DEF Inserts, RowStep, Judged, ImageRow
  <2>2. CASE UNCHANGED imageRow
    BY <1>3, <2>2
  <2>3. Exists(i) => imageRow[i].status # "absent"
    BY DEF Exists, Gone
  <2>4. Cancels(i) \/ Archives(i) \/ Deletes(i) =>
            UNCHANGED imageRow \/ (Exists(i) /\ \E s \in {"error", "archived", "deleted"} : SetImageStatus(i, s))
    BY DEF Cancels, Archives, Deletes
  <2>5. \/ UNCHANGED imageRow \/ Cancels(i) \/ Archives(i) \/ Deletes(i)
        \/ \E kind \in BuildKinds \cup {"upload", "created"} : Inserts(i, kind)
    BY <1>6 DEF Requests, StartsBuild, FromUpload, UploadBlob, ResumeChecks, CreatesImage, CancelChecks
  <2> QED
    BY <1>4, <2>1, <2>2, <2>3, <2>4, <2>5
<1>7. CASE PassHeals
  <2>1. pass.image \in Images /\ pass.path # "none"
    BY <1>1, <1>7 DEF PassHeals, PassOK
  <2>2. CASE imageRow' = [imageRow EXCEPT ![pass.image].path = pass.path]
    BY <1>2, <2>1, <2>2 DEF RowStep, Judged, ImageRow
  <2> QED
    BY <1>3, <1>7, <2>2 DEF PassHeals
<1>8. CASE PassWrites
  <2> DEFINE i == pass.image
  <2>1. /\ i \in Images /\ imageRow[i].path # "none" /\ imageRow[i].sum # NoFile /\ pass.verdict \in Verdicts
        /\ pass.verdict \in {"heal", "force"} => pass.content # NoFile
    BY <1>1, <1>8 DEF PassOK, PassWrites
  <2>2. CASE UNCHANGED imageRow
    BY <1>3, <2>2
  <2>3. CASE Exists(i) /\ imageRow' = [imageRow EXCEPT ![i] = Ruling(@)]
    <3>1. \/ imageRow'[i] = imageRow[i]
          \/ \E q \in Judged : imageRow'[i] = [imageRow[i] EXCEPT !.status = q]
          \/ pass.content # NoFile /\ imageRow'[i] = [imageRow[i] EXCEPT !.status = "ready", !.sum = pass.content]
      <4>1. imageRow'[i] = Ruling(imageRow[i])
        BY <1>2, <2>1, <2>3
      <4>2. CASE pass.verdict \in {"missing", "corrupt"}
        <5>1. Quarantine[pass.verdict] \in Judged
          BY <4>2 DEF Quarantine, Judged
        <5>2. \/ Ruling(imageRow[i]) = imageRow[i]
              \/ Ruling(imageRow[i]) = [imageRow[i] EXCEPT !.status = Quarantine[pass.verdict]]
          BY <4>2 DEF Ruling
        <5> QED
          BY <4>1, <5>1, <5>2
      <4>3. CASE pass.verdict = "ok"
        BY <4>1, <4>3 DEF Ruling, Judged
      <4>4. CASE pass.verdict \in {"heal", "force"}
        BY <2>1, <4>1, <4>4 DEF Ruling
      <4> QED
        BY <2>1, <4>2, <4>3, <4>4 DEF Verdicts
    <3>2. \A j \in Images : j # i => imageRow'[j] = imageRow[j]
      BY <1>2, <2>3
    <3>3. imageRow[i] \in ImageRow
      BY <1>2, <2>1
    <3>4. \A j \in Images : j # i => RowStep(j)
      BY <3>2 DEF RowStep
    <3>5. RowStep(i)
      BY <2>1, <3>1, <3>3 DEF RowStep, Judged, ImageRow
    <3> QED
      BY <3>4, <3>5
  <2> QED
    BY <1>8, <2>2, <2>3 DEF PassWrites
<1>9. CASE Starts
  <2>1. ASSUME NEW i \in Images PROVE RowStep(i)
    <3>1. \/ imageRow'[i] = imageRow[i]
          \/ /\ imageRow[i].status = "building"
             /\ imageRow'[i] = [imageRow[i] EXCEPT !.status = "interrupted", !.resume = StuckPhase(i)]
      BY <1>9 DEF Starts
    <3>2. StuckPhase(i) # "no" /\ imageRow[i] \in ImageRow
      BY <1>2 DEF StuckPhase, ResumePhases
    <3> QED
      BY <3>1, <3>2 DEF RowStep, Judged, ImageRow
  <2> QED
    BY <2>1
<1>10. CASE \/ PassResolves \/ PassHashes \/ ShutsDown \/ Dies
            \/ \E i \in Images : Damages(i) \/ \E force \in BOOLEAN : PassReads(i, force)
  BY <1>3, <1>10 DEF PassReads, PassResolves, PassHashes, ShutsDown, Dies, Damages
<1> QED
  BY <1>5, <1>6, <1>7, <1>8, <1>9, <1>10 DEF ImagesNext

(* Every step keeps what is known of work under way.                                        *)
LEMMA WorkKept ==
    ASSUME ImagesInv, ImagesNext
    PROVE  \A v \in Works : WorkOK(v)'
<1>1. ImagesTypeOK /\ \A v \in Works : WorkOK(v)
  BY DEF ImagesInv
<1>2. work \in [Works -> Work] /\ imageRow \in [Images -> ImageRow]
  BY <1>1 DEF ImagesTypeOK
<1>3. \A j \in Images : RowStep(j)
  BY RowSteps
<1>4. ASSUME NEW v \in Works, work'[v] = work[v] PROVE WorkOK(v)'
  <2>1. WorkOK(v)
    BY <1>1
  <2>2. CASE Alive(v)
    <3>1. work[v].image \in Images /\ RowStep(work[v].image)
      BY <1>3, <2>1, <2>2 DEF WorkOK
    <3> QED
      BY <1>4, <2>1, <2>2, <3>1 DEF WorkOK, RowStep, Alive
  <2>3. CASE ~Alive(v)
    BY <1>4, <2>1, <2>3 DEF WorkOK, Alive
  <2> QED
    BY <2>2, <2>3
<1>5. UNCHANGED work => \A v \in Works : WorkOK(v)'
  BY <1>4
<1>6. ASSUME NEW w \in Works, NEW kind, NEW i \in Images, NEW at \in {"queued", "placed", "streaming", "checked"},
             Takes(w, kind, i, at), imageRow'[i].status # "absent", at = "checked" => kind # "blob"
      PROVE  \A v \in Works : WorkOK(v)'
  <2>1. work'[w] = [kind |-> kind, image |-> i, at |-> at, sum |-> NoFile]
    BY <1>2, <1>6 DEF Takes
  <2>2. WorkOK(w)'
    BY <1>6, <2>1 DEF WorkOK, Alive
  <2>3. \A v \in Works : v # w => work'[v] = work[v]
    BY <1>2, <1>6 DEF Takes
  <2> QED
    BY <1>4, <2>2, <2>3
<1>7. ASSUME NEW w \in Works, WorkStep(w) PROVE \A v \in Works : WorkOK(v)'
  <2> DEFINE i == work[w].image
  <2>1. i \in Images /\ Alive(w) /\ WorkOK(w) /\ RowStep(i) /\ work[w] \in Work
    BY <1>1, <1>2, <1>3, <1>7, StepsAlive
  <2>2. imageRow'[i].status # "absent"
    BY <2>1 DEF WorkOK, RowStep
  <2>3. ASSUME NEW at, Becomes(w, at),
               at \in {"hashed", "finalized"} => work[w].sum # NoFile,
               at = "measured" => imageRow'[i].path # "none",
               at = "located" => work[w].sum # NoFile /\ imageRow'[i].path # "none",
               at \notin {"unused", "checked"}
        PROVE  \A v \in Works : WorkOK(v)'
    <3>1. \A v \in Works : v # w => work'[v] = work[v]
      BY <1>2, <2>3 DEF Becomes
    <3>2. CASE at = "over"
      <4>1. work'[w] = NoWork("over")
        BY <1>2, <2>3, <3>2 DEF Becomes
      <4>2. WorkOK(w)'
        BY <4>1 DEF NoWork, WorkOK, Alive
      <4> QED
        BY <1>4, <3>1, <4>2
    <3>3. CASE at # "over"
      <4>1. work'[w] = [work[w] EXCEPT !.at = at]
        BY <1>2, <2>3, <3>3 DEF Becomes
      <4>2. work'[w].at = at /\ work'[w].image = i /\ work'[w].sum = work[w].sum
        BY <2>1, <4>1 DEF Work
      <4>3. WorkOK(w)'
        BY <2>1, <2>2, <2>3, <3>3, <4>2 DEF WorkOK, Alive
      <4> QED
        BY <1>4, <3>1, <4>3
    <3> QED
      BY <3>2, <3>3
  <2>4. ASSUME NEW at \in {"hashed", "located"}, NEW c, c # NoFile,
               work' = [work EXCEPT ![w].at = at, ![w].sum = c],
               at = "located" => imageRow'[i].path # "none"
        PROVE  \A v \in Works : WorkOK(v)'
    <3>1. work'[w].at = at /\ work'[w].image = i /\ work'[w].sum = c
      BY <1>2, <2>1, <2>4 DEF Work
    <3>2. WorkOK(w)'
      BY <2>1, <2>2, <2>4, <3>1 DEF WorkOK, Alive
    <3>3. \A v \in Works : v # w => work'[v] = work[v]
      BY <1>2, <2>4
    <3> QED
      BY <1>4, <3>2, <3>3
  <2>5. CASE \E at \in {"queued", "fetching", "extracting", "unpacked", "baking", "doomed", "over"} : Becomes(w, at)
    BY <2>3, <2>5
  <2>6. CASE Locates(w)
    <3>1. imageRow'[i].path # "none"
      BY <1>2, <2>1, <2>6 DEF Locates
    <3>2. CASE work[w].at = "placed"
      BY <2>3, <2>6, <3>1, <3>2 DEF Locates
    <3>3. CASE work[w].at = "hashed"
      BY <2>1, <2>3, <2>6, <3>1, <3>3 DEF Locates, WorkOK
    <3> QED
      BY <2>6, <3>2, <3>3 DEF Locates
  <2>7. CASE Finalizes(w)
    <3>1. work[w].sum # NoFile
      BY <2>1, <2>7 DEF Finalizes, WorkOK
    <3> QED
      BY <2>3, <2>7, <3>1 DEF Finalizes
  <2>8. CASE Hashes(w)
    BY <2>4, <2>8 DEF Hashes
  <2>9. CASE Streams(w)
    <3>1. [by |-> {w}, open |-> {}] # NoFile
      BY DEF NoFile
    <3> QED
      BY <2>4, <2>9, <3>1 DEF Streams
  <2>10. CASE Measures(w)
    <3>1. imageRow'[i].path # "none"
      BY <2>1, <2>10 DEF Measures, WorkOK, RowStep
    <3> QED
      BY <2>4, <2>10, <3>1 DEF Measures
  <2>11. \/ \E at \in {"queued", "fetching", "extracting", "unpacked", "baking", "doomed", "over"} : Becomes(w, at)
         \/ Locates(w) \/ Finalizes(w) \/ Hashes(w) \/ Streams(w) \/ Measures(w)
    <3>1. ResumeWrites(w) => \E at \in {"queued", "unpacked", "doomed", "over"} : Becomes(w, at)
      BY DEF ResumeWrites
    <3>2. Acquires(w) \/ Extracts(w) \/ Unpacks(w) \/ Bakes(w) =>
              \E at \in {"fetching", "extracting", "unpacked", "baking"} : Becomes(w, at)
      BY DEF Acquires, Extracts, Unpacks, Bakes, Steps
    <3>3. Seals(w) \/ Fails(w) \/ Mismatches(w) \/ Aborts(w) => Becomes(w, "over")
      BY DEF Seals, Fails, Mismatches, Aborts, Steps
    <3> QED
      BY <1>7, <3>1, <3>2, <3>3 DEF WorkStep
  <2> QED
    BY <2>5, <2>6, <2>7, <2>8, <2>9, <2>10, <2>11
<1>8. ASSUME NEW i \in Images, Requests(i) PROVE \A v \in Works : WorkOK(v)'
  <2>1. \A kind : Inserts(i, kind) => imageRow'[i].status # "absent"
    BY <1>2 DEF Inserts
  <2>2. Exists(i) \/ imageRow[i].status \in {"interrupted", "error"} => imageRow'[i].status # "absent"
    BY <1>3 DEF Exists, Gone, RowStep
  <2>3. ASSUME NEW w \in Works, NEW kind \in BuildKinds, StartsBuild(i, kind, w) PROVE \A v \in Works : WorkOK(v)'
    BY <1>6, <2>1, <2>3 DEF StartsBuild
  <2>4. ASSUME NEW w \in Works, FromUpload(i, w) PROVE \A v \in Works : WorkOK(v)'
    BY <1>6, <2>1, <2>4 DEF FromUpload
  <2>5. ASSUME NEW w \in Works, UploadBlob(i, w) PROVE \A v \in Works : WorkOK(v)'
    BY <1>6, <2>2, <2>5 DEF UploadBlob
  <2>6. ASSUME NEW w \in Works, ResumeChecks(i, w) PROVE \A v \in Works : WorkOK(v)'
    BY <1>6, <2>2, <2>6 DEF ResumeChecks
  <2>7. CASE UNCHANGED work
    BY <1>5, <2>7
  <2> QED
    BY <1>8, <2>3, <2>4, <2>5, <2>6, <2>7 DEF Requests, CreatesImage, CancelChecks, Cancels, Archives, Deletes
<1>9. CASE Dies
  <2>1. ASSUME NEW v \in Works PROVE WorkOK(v)'
    <3>1. CASE Alive(v)
      <4>1. work'[v] = NoWork("over")
        BY <1>9, <3>1 DEF Dies
      <4> QED
        BY <4>1 DEF NoWork, WorkOK, Alive
    <3>2. CASE ~Alive(v)
      BY <1>4, <1>9, <3>2 DEF Dies
    <3> QED
      BY <3>1, <3>2
  <2> QED
    BY <2>1
<1>10. CASE \/ \E i \in Images : Damages(i) \/ \E force \in BOOLEAN : PassReads(i, force)
            \/ PassResolves \/ PassHeals \/ PassHashes \/ PassWrites \/ ShutsDown \/ Starts
  BY <1>5, <1>10 DEF Damages, PassReads, PassResolves, PassHeals, PassHashes, PassWrites, ShutsDown, Starts
<1> QED
  BY <1>7, <1>8, <1>9, <1>10 DEF ImagesNext

(* ... and of the pass.                                                                     *)
LEMMA PassKept ==
    ASSUME ImagesInv, ImagesNext
    PROVE  PassOK'
<1>1. ImagesTypeOK /\ PassOK /\ JudgedHasBlob
  BY DEF ImagesInv
<1>2. \A j \in Images : RowStep(j)
  BY RowSteps
<1>3. imageRow \in [Images -> ImageRow] /\ pass \in Pass
  BY <1>1 DEF ImagesTypeOK
<1>4. CASE UNCHANGED pass
  BY <1>1, <1>2, <1>4 DEF PassOK, RowStep
<1>5. CASE pass' = NoPass
  BY <1>5 DEF PassOK, NoPass
<1>6. ASSUME NEW i \in Images, NEW force \in BOOLEAN, PassReads(i, force) PROVE PassOK'
  <2>1. imageRow[i].path # "none" /\ imageRow[i].sum # NoFile
    BY <1>1, <1>6 DEF PassReads, JudgedHasBlob
  <2>2. imageRow'[i].path # "none" /\ imageRow'[i].sum # NoFile
    BY <1>2, <2>1 DEF RowStep
  <2> QED
    BY <1>6, <2>2 DEF PassReads, PassOK, NoPass
<1>7. CASE PassResolves
  <2>1. /\ pass.image \in Images /\ imageRow[pass.image].path # "none" /\ imageRow[pass.image].sum # NoFile
        /\ UNCHANGED imageRow
    BY <1>1, <1>7 DEF PassOK, PassResolves
  <2>2. FileAt(pass.image, "none") = NoFile
    BY <1>1, <2>1, FilesTyped
  <2>3. pass'.image = pass.image /\ pass'.content = pass.content
    BY <1>3, <1>7 DEF PassResolves, Pass
  <2>4. CASE pass' = [pass EXCEPT !.at = "judged", !.verdict = "missing"]
    BY <1>3, <2>1, <2>3, <2>4 DEF PassOK, Pass, Verdicts
  <2>5. ASSUME NEW at \in {"read", "found"}, NEW p, pass' = [pass EXCEPT !.at = at, !.path = p],
               at = "found" => p # "none"
        PROVE  PassOK'
    BY <1>1, <1>3, <2>1, <2>3, <2>5 DEF PassOK, Pass
  <2> QED
    BY <1>7, <2>2, <2>4, <2>5 DEF PassResolves
<1>8. CASE PassHeals /\ ~(pass' = NoPass)
  <2>1. pass' = [pass EXCEPT !.at = "read"]
    BY <1>8 DEF PassHeals
  <2>2. imageRow'[pass.image].path # "none" /\ imageRow'[pass.image].sum # NoFile /\ pass.image \in Images
    BY <1>1, <1>2, <1>8 DEF PassOK, PassHeals, RowStep
  <2> QED
    BY <1>1, <1>3, <2>1, <2>2 DEF PassOK, Pass
<1>9. CASE PassHashes /\ ~(pass' = NoPass)
  <2> DEFINE c == FileAt(pass.image, pass.path)
  <2>1. PICK v \in IF c = pass.sum THEN {"ok"} ELSE Drift(pass.image, c) :
            c # NoFile /\ pass' = [pass EXCEPT !.at = "judged", !.verdict = v, !.content = c]
    BY <1>9 DEF PassHashes
  <2>2. v \in Verdicts
    BY <2>1 DEF Drift, Verdicts
  <2>3. pass'.image = pass.image /\ pass'.verdict = v /\ pass'.content = c
    BY <1>3, <2>1 DEF Pass
  <2>4. /\ pass.image \in Images /\ imageRow[pass.image].path # "none" /\ imageRow[pass.image].sum # NoFile
        /\ UNCHANGED imageRow
    BY <1>1, <1>9 DEF PassOK, PassHashes
  <2> QED
    BY <2>1, <2>2, <2>3, <2>4 DEF PassOK
<1>10. ASSUME NEW i \in Images, Requests(i) PROVE UNCHANGED pass
  BY <1>10 DEF Requests, StartsBuild, FromUpload, UploadBlob, ResumeChecks, CreatesImage, CancelChecks, Cancels,
              Archives, Deletes
<1>11. ASSUME NEW w \in Works, WorkStep(w) PROVE UNCHANGED pass
  BY <1>11 DEF WorkStep, ResumeWrites, Acquires, Extracts, Unpacks, Bakes, Hashes, Streams, Measures, Locates,
              Finalizes, Seals, Fails, Mismatches, Aborts, OnDiskOnly
<1>12. PassWrites \/ Dies => pass' = NoPass
  BY DEF PassWrites, Dies
<1>13. ShutsDown \/ Starts \/ (\E i \in Images : Damages(i)) => UNCHANGED pass
  BY DEF ShutsDown, Starts, Damages
<1> QED
  BY <1>4, <1>5, <1>6, <1>7, <1>8, <1>9, <1>10, <1>11, <1>12, <1>13 DEF ImagesNext

(* What NotStranded says of an image that is building, and of a piece of work that builds.  *)
Served(i) == HasBuilder(i) \/ AwaitsBlob(i) \/ i \in lost
Builds(w, i) == work[w].image = i /\ work[w].kind # "blob" /\ work[w].at \notin {"checked", "finalized"}

(* An image stays served while its builder goes on and nothing but a blob comes to it.      *)
LEMMA StaysServed ==
    ASSUME NEW i \in Images, Served(i),
           imageRow'[i].kind = imageRow[i].kind, i \in lost => i \in lost',
           \A v \in Works : Builds(v, i) => Builds(v, i)',
           \A v \in Works : work'[v].image = i =>
               work'[v].kind = "blob" \/ (work[v].image = i /\ work'[v].kind = work[v].kind)
    PROVE  Served(i)'
<1>1. CASE HasBuilder(i)
  <2>1. PICK v \in Works : Builds(v, i)
    BY <1>1 DEF HasBuilder, Builds
  <2>2. Builds(v, i)'
    BY <2>1
  <2> QED
    BY <2>2 DEF Served, HasBuilder, Builds
<1>2. CASE AwaitsBlob(i)
  BY <1>2 DEF Served, AwaitsBlob
<1> QED
  BY <1>1, <1>2 DEF Served

(* No step strands an image.                                                                *)
LEMMA StrandsNone ==
    ASSUME ImagesInv, ImagesNext
    PROVE  NotStranded'
<1>1. ImagesTypeOK /\ NotStranded /\ \A v \in Works : WorkOK(v)
  BY DEF ImagesInv
<1>2. work \in [Works -> Work] /\ imageRow \in [Images -> ImageRow] /\ "none" \notin Images
  BY <1>1, ImagesAssumption DEF ImagesTypeOK
<1>3. ASSUME NEW i \in Images, imageRow'[i].status = "interrupted" PROVE imageRow'[i].resume # "no"
  BY <1>1, <1>3, RowSteps DEF RowStep, NotStranded
<1>4. ASSUME NEW i \in Images, imageRow[i].status = "building", serving # "down" PROVE Served(i)
  BY <1>1, <1>4 DEF NotStranded, Served
<1>5. ASSUME NEW i \in Images, imageRow'[i].status = "building", serving' # "down", imageRow'[i] = imageRow[i],
             UNCHANGED <<work, serving>>, lost' = lost
      PROVE  Served(i)'
  BY <1>4, <1>5 DEF Served, HasBuilder, AwaitsBlob
<1>6. ASSUME NEW i \in Images, NEW w \in Works, WorkStep(w), imageRow'[i].status = "building", serving' # "down"
      PROVE  Served(i)'
  <2> DEFINE j == work[w].image
  <2>1. j \in Images /\ work[w] \in Work /\ UNCHANGED serving
    BY <1>1, <1>2, <1>6, StepsAlive
    DEF WorkStep, ResumeWrites, Acquires, Extracts, Unpacks, Bakes, Hashes, Streams, Measures, Locates,
        Finalizes, Seals, Fails, Mismatches, Aborts, OnDiskOnly
  <2>2. ASSUME NEW at, Becomes(w, at) PROVE
            /\ \A v \in Works : v # w => work'[v] = work[v]
            /\ at # "over" => work'[w].image = j /\ work'[w].kind = work[w].kind /\ work'[w].at = at
            /\ at = "over" => work'[w].image = "none"
    <3>1. \A v \in Works : v # w => work'[v] = work[v]
      BY <1>2, <2>2 DEF Becomes
    <3>2. ASSUME at # "over" PROVE work'[w].image = j /\ work'[w].kind = work[w].kind /\ work'[w].at = at
      <4>1. work'[w] = [work[w] EXCEPT !.at = at]
        BY <1>2, <2>2, <3>2 DEF Becomes
      <4> QED
        BY <2>1, <4>1 DEF Work
    <3>3. at = "over" => work'[w].image = "none"
      BY <1>2, <2>2 DEF Becomes, NoWork
    <3> QED
      BY <3>1, <3>2, <3>3
  \* A step that leaves the status and the builder as they were.
  <2>3. ASSUME imageRow'[i].status = imageRow[i].status, imageRow'[i].kind = imageRow[i].kind, i \in lost => i \in lost',
               \A v \in Works : v # w => work'[v] = work[v],
               Builds(w, i) => Builds(w, i)',
               work'[w].image # "none" => work'[w].image = j /\ work'[w].kind = work[w].kind
        PROVE  Served(i)'
    <3>1. Served(i)
      BY <1>4, <1>6, <2>1, <2>3
    <3>2. \A v \in Works : Builds(v, i) => Builds(v, i)'
      BY <2>3 DEF Builds
    <3>3. \A v \in Works : work'[v].image = i =>
              work'[v].kind = "blob" \/ (work[v].image = i /\ work'[v].kind = work[v].kind)
      BY <1>2, <2>3
    <3> QED
      BY <2>3, <3>1, <3>2, <3>3, StaysServed
  <2>4. ASSUME imageRow'[i].status = imageRow[i].status, imageRow'[i].kind = imageRow[i].kind, i \in lost => i \in lost',
               NEW at \in {"fetching", "extracting", "unpacked", "baking", "measured", "located"}, Becomes(w, at)
        PROVE  Served(i)'
    <3>1. Builds(w, i) => Builds(w, i)'
      BY <2>2, <2>4 DEF Builds
    <3> QED
      BY <2>2, <2>3, <2>4, <3>1
  <2>5. ASSUME imageRow'[i].status = imageRow[i].status, imageRow'[i].kind = imageRow[i].kind, i \in lost => i \in lost',
               Becomes(w, "over"), ~Builds(w, i)
        PROVE  Served(i)'
    BY <2>2, <2>3, <2>5
  <2>6. CASE ResumeWrites(w)
    <3>1. ~Builds(w, i) /\ work[w].kind # "blob" /\ lost' = lost
      BY <1>1, <2>6 DEF ResumeWrites, Builds, WorkOK
    <3>2. CASE Becomes(w, "over") /\ UNCHANGED imageRow
      BY <2>5, <3>1, <3>2
    <3>3. ASSUME NEW at \in {"queued", "unpacked", "doomed"}, Becomes(w, at),
                 \A k \in Images : k # j => imageRow'[k] = imageRow[k]
          PROVE  Served(i)'
      <4>1. CASE i = j
        <5>1. Builds(w, i)'
          BY <2>2, <3>1, <3>3, <4>1 DEF Builds
        <5>2. work'[w].image = i /\ work'[w].kind # "blob" /\ work'[w].at \notin {"checked", "finalized"}
          BY <5>1 DEF Builds
        <5> QED
          BY <5>2 DEF Served, HasBuilder
      <4>2. CASE i # j
        <5>1. imageRow'[i] = imageRow[i]
          BY <3>3, <4>2
        <5> QED
          BY <2>2, <2>3, <3>1, <3>3, <5>1
      <4> QED
        BY <4>1, <4>2
    <3>4. \A k \in Images : k # j => imageRow'[k] = imageRow[k]
      BY <1>2, <2>6 DEF ResumeWrites, SetImageStatus
    <3>5. \/ Becomes(w, "over") /\ UNCHANGED imageRow
          \/ \E at \in {"queued", "unpacked", "doomed"} : Becomes(w, at)
      BY <2>6 DEF ResumeWrites
    <3> QED
      BY <3>2, <3>3, <3>4, <3>5
  <2>7. CASE Acquires(w) \/ Extracts(w) \/ Unpacks(w) \/ Bakes(w)
    <3>1. UNCHANGED <<imageRow, lost>>
      BY <2>7 DEF Acquires, Extracts, Unpacks, Bakes, OnDiskOnly
    <3>2. \E at \in {"fetching", "extracting", "unpacked", "baking"} : Becomes(w, at)
      BY <2>7 DEF Acquires, Extracts, Unpacks, Bakes, Steps
    <3> QED
      BY <2>4, <3>1, <3>2
  <2>8. CASE Hashes(w) \/ Streams(w) \/ Measures(w)
    <3>1. UNCHANGED <<imageRow, lost>>
      BY <2>8 DEF Hashes, Streams, Measures, OnDiskOnly
    <3>2. PICK at \in {"hashed", "located"} : \E c : work' = [work EXCEPT ![w].at = at, ![w].sum = c]
      BY <2>8 DEF Hashes, Streams, Measures
    <3>3. /\ \A v \in Works : v # w => work'[v] = work[v]
          /\ work'[w].image = j /\ work'[w].kind = work[w].kind /\ work'[w].at = at
      BY <1>2, <2>1, <3>2 DEF Work
    <3>4. Builds(w, i) => Builds(w, i)'
      BY <3>3 DEF Builds
    <3> QED
      BY <2>3, <3>1, <3>3, <3>4
  <2>9. CASE Locates(w)
    <3>1. /\ imageRow'[i].status = imageRow[i].status /\ imageRow'[i].kind = imageRow[i].kind
          /\ lost' = lost
      BY <1>2, <2>9 DEF Locates, ImageRow
    <3>2. \E at \in {"measured", "located"} : Becomes(w, at)
      BY <2>9 DEF Locates
    <3> QED
      BY <2>4, <3>1, <3>2
  <2>10. CASE Finalizes(w)
    <3>1. i # j
      BY <1>2, <1>6, <2>1, <2>10 DEF Finalizes, ImageRow
    <3>2. imageRow'[i] = imageRow[i] /\ lost' = lost
      BY <1>2, <2>10, <3>1 DEF Finalizes
    <3>3. \E at \in {"over", "finalized"} : Becomes(w, at)
      BY <2>10 DEF Finalizes
    <3>4. ~Builds(w, i)
      BY <3>1 DEF Builds
    <3> QED
      BY <2>2, <2>3, <3>2, <3>3, <3>4
  <2>11. CASE Seals(w) \/ Aborts(w)
    <3>1. ~Builds(w, i) /\ UNCHANGED <<imageRow, lost>> /\ Becomes(w, "over")
      BY <2>11 DEF Seals, Aborts, Steps, Builds, OnDiskOnly
    <3> QED
      BY <2>5, <3>1
  <2>12. CASE Fails(w) \/ Mismatches(w)
    <3>1. WritesError(w) /\ Becomes(w, "over")
      BY <2>12 DEF Fails, Mismatches, Steps
    <3>2. CASE i = j
      <4>1. i \in lost'
        BY <1>2, <1>6, <3>1, <3>2 DEF WritesError, SetImageStatus, ImageRow
      <4> QED
        BY <4>1 DEF Served
    <3>3. CASE i # j
      <4>1. imageRow'[i] = imageRow[i] /\ (i \in lost => i \in lost')
        BY <1>2, <3>1, <3>3 DEF WritesError, SetImageStatus
      <4>2. ~Builds(w, i)
        BY <3>3 DEF Builds
      <4> QED
        BY <2>5, <3>1, <4>1, <4>2
    <3> QED
      BY <3>2, <3>3
  <2> QED
    BY <1>6, <2>6, <2>7, <2>8, <2>9, <2>10, <2>11, <2>12 DEF WorkStep
<1>7. ASSUME NEW i \in Images, NEW j \in Images, Requests(j), imageRow'[i].status = "building", serving' # "down"
      PROVE  Served(i)'
  <2>1. serving # "down" /\ UNCHANGED lost
    BY <1>7 DEF Requests, StartsBuild, FromUpload, UploadBlob, ResumeChecks, CreatesImage, CancelChecks, Cancels,
                Archives, Deletes, Inserts
  <2>2. ASSUME NEW w \in Works, NEW kind, NEW at \in Stages, Takes(w, kind, j, at), imageRow'[i] = imageRow[i],
               kind = "blob" \/ i # j
        PROVE  Served(i)'
    <3>1. Served(i)
      BY <1>4, <1>7, <2>1, <2>2
    <3>2. work'[w] = [kind |-> kind, image |-> j, at |-> at, sum |-> NoFile] /\ \A v \in Works : v # w => work'[v] = work[v]
      BY <1>2, <2>2 DEF Takes
    <3>3. work[w].image # i
      BY <1>1, <1>2, <2>2 DEF Takes, WorkOK, Alive
    <3>4. \A v \in Works : Builds(v, i) => Builds(v, i)'
      BY <3>2, <3>3 DEF Builds
    <3>5. \A v \in Works : work'[v].image = i =>
              work'[v].kind = "blob" \/ (work[v].image = i /\ work'[v].kind = work[v].kind)
      BY <2>2, <3>2
    <3> QED
      BY <2>1, <2>2, <3>1, <3>4, <3>5, StaysServed
  <2>3. ASSUME NEW w \in Works, NEW kind \in BuildKinds \cup {"upload"}, NEW at \in {"queued", "placed"},
               Inserts(j, kind), Takes(w, kind, j, at)
        PROVE  Served(i)'
    <3>1. CASE i = j
      <4>1. work'[w].image = i /\ work'[w].kind # "blob" /\ work'[w].at \notin {"checked", "finalized"}
        BY <1>2, <2>3, <3>1, ImagesAssumption DEF Takes
      <4> QED
        BY <4>1 DEF Served, HasBuilder
    <3>2. CASE i # j
      <4>1. imageRow'[i] = imageRow[i] /\ at \in Stages
        BY <1>2, <2>3, <3>2 DEF Inserts, Stages
      <4> QED
        BY <2>2, <2>3, <3>2, <4>1
    <3> QED
      BY <3>1, <3>2
  <2>4. ASSUME NEW w \in Works, NEW kind \in BuildKinds, StartsBuild(j, kind, w) PROVE Served(i)'
    BY <2>3, <2>4 DEF StartsBuild
  <2>5. ASSUME NEW w \in Works, FromUpload(j, w) PROVE Served(i)'
    BY <2>3, <2>5 DEF FromUpload
  <2>6. ASSUME NEW w \in Works, UploadBlob(j, w) PROVE Served(i)'
    BY <2>2, <2>6 DEF UploadBlob, Stages
  <2>7. ASSUME NEW w \in Works, ResumeChecks(j, w) PROVE Served(i)'
    <3>1. i # j
      BY <1>7, <2>7 DEF ResumeChecks
    <3> QED
      BY <2>2, <2>7, <3>1 DEF ResumeChecks, Stages
  <2>8. CASE CreatesImage(j)
    <3>1. CASE i = j
      <4>1. \A v \in Works : work[v].image # i
        BY <1>1, <1>2, <2>8, <3>1 DEF CreatesImage, Inserts, WorkOK
      <4>2. imageRow'[i].kind = "created"
        BY <1>2, <2>8, <3>1 DEF CreatesImage, Inserts, ImageRow
      <4> QED
        BY <2>8, <4>1, <4>2 DEF CreatesImage, Served, AwaitsBlob
    <3>2. CASE i # j
      <4>1. imageRow'[i] = imageRow[i]
        BY <1>2, <2>8, <3>2 DEF CreatesImage, Inserts
      <4> QED
        BY <1>5, <1>7, <2>8, <4>1 DEF CreatesImage
    <3> QED
      BY <3>1, <3>2
  <2>9. CASE CancelChecks(j) \/ Cancels(j) \/ Archives(j) \/ Deletes(j)
    <3>1. imageRow'[i] = imageRow[i]
      <4>1. UNCHANGED imageRow \/ \E s \in {"error", "archived", "deleted"} : SetImageStatus(j, s)
        BY <2>9 DEF CancelChecks, Cancels, Archives, Deletes
      <4> QED
        BY <1>2, <1>7, <4>1 DEF SetImageStatus, ImageRow
    <3> QED
      BY <1>5, <1>7, <2>9, <3>1 DEF CancelChecks, Cancels, Archives, Deletes
  <2> QED
    BY <1>7, <2>4, <2>5, <2>6, <2>7, <2>8, <2>9 DEF Requests
<1>8. ASSUME NEW i \in Images, PassHeals, imageRow'[i].status = "building", serving' # "down" PROVE Served(i)'
  <2>1. imageRow'[i].status = imageRow[i].status /\ imageRow'[i].kind = imageRow[i].kind
    BY <1>2, <1>8 DEF PassHeals, ImageRow
  <2> QED
    BY <1>4, <1>8, <2>1 DEF PassHeals, Served, HasBuilder, AwaitsBlob
<1>9. ASSUME NEW i \in Images, PassWrites, imageRow'[i].status = "building", serving' # "down"
      PROVE  Served(i)'
  <2>1. imageRow'[i] = imageRow[i]
    <3>1. \/ UNCHANGED imageRow
          \/ imageRow' = [imageRow EXCEPT ![pass.image] = Ruling(@)]
      BY <1>9 DEF PassWrites
    <3>2. pass.verdict \in Verdicts
      BY <1>9 DEF ImagesInv, PassOK, PassWrites
    <3>3. imageRow[i] \in ImageRow
      BY <1>2
    <3>4. Ruling(imageRow[i]) = imageRow[i] \/ Ruling(imageRow[i]).status \in Judged
      BY <3>2, <3>3 DEF Ruling, Verdicts, Judged, Quarantine, ImageRow
    <3>5. "building" \notin Judged
      BY DEF Judged
    <3> QED
      BY <1>2, <1>9, <3>1, <3>4, <3>5
  <2> QED
    BY <1>5, <1>9, <2>1 DEF PassWrites
<1>10. ASSUME NEW i \in Images, Starts, imageRow'[i].status = "building" PROVE Served(i)'
  <2>1. i \in lost'
    <3> DEFINE stuck == {k \in Images : imageRow[k].status = "building"}
    <3>1. PICK refused \in SUBSET stuck :
              /\ lost' = refused
              /\ imageRow' = [k \in Images |->
                    IF k \in stuck \ refused
                    THEN [imageRow[k] EXCEPT !.status = "interrupted", !.resume = StuckPhase(k)]
                    ELSE imageRow[k]]
      BY <1>10 DEF Starts
    <3>2. i \in stuck \ refused => imageRow'[i].status = "interrupted"
      BY <1>2, <3>1 DEF ImageRow
    <3>3. i \notin stuck => imageRow'[i] = imageRow[i]
      BY <3>1
    <3> QED
      BY <1>10, <3>1, <3>2, <3>3
  <2> QED
    BY <2>1 DEF Served
<1>11. ASSUME NEW i \in Images,
              \/ PassResolves \/ PassHashes \/ ShutsDown
              \/ \E j \in Images : Damages(j) \/ \E force \in BOOLEAN : PassReads(j, force),
              imageRow'[i].status = "building", serving' # "down"
       PROVE  Served(i)'
  <2>1. /\ UNCHANGED <<imageRow, work, lost>> /\ serving # "down"
    BY <1>11 DEF PassReads, PassResolves, PassHashes, ShutsDown, Damages
  <2> QED
    BY <1>4, <1>11, <2>1 DEF Served, HasBuilder, AwaitsBlob
<1>12. Dies => serving' = "down"
  BY DEF Dies
<1>13. ASSUME NEW i \in Images, imageRow'[i].status = "building", serving' # "down" PROVE Served(i)'
  BY <1>6, <1>7, <1>8, <1>9, <1>10, <1>11, <1>12, <1>13 DEF ImagesNext
<1> QED
  BY <1>3, <1>13 DEF NotStranded, Served

(* Every step keeps the invariant, and so does a step that changes nothing.                 *)
LEMMA ImagesStep == ImagesInv /\ [ImagesNext]_imageVars => ImagesInv'
<1>1. ASSUME ImagesInv, ImagesNext PROVE ImagesInv'
  <2>1. ImagesTypeOK /\ PassOK /\ JudgedHasBlob /\ \A w \in Works : WorkOK(w)
    BY <1>1 DEF ImagesInv
  <2>2. ImagesTypeOK'
    <3>1. \A w \in Works : WorkStep(w) => ImagesTypeOK'
      BY <2>1, WorkStepTyped
    <3>2. \A i \in Images : Requests(i) => ImagesTypeOK'
      BY <2>1, RequestTyped
    <3> QED
      BY <1>1, <2>1, <3>1, <3>2, PassTyped, ServerTyped DEF ImagesNext
  <2>3. JudgedHasBlob'
    BY <1>1, <2>1, RowSteps DEF JudgedHasBlob, RowStep
  <2> QED
    BY <1>1, <2>2, <2>3, WorkKept, PassKept, StrandsNone DEF ImagesInv
<1>2. ASSUME ImagesInv, UNCHANGED imageVars PROVE ImagesInv'
  BY <1>2 DEF ImagesInv, ImagesTypeOK, WorkOK, PassOK, JudgedHasBlob, NotStranded, HasBuilder, AwaitsBlob, Alive,
              imageVars
<1> QED
  BY <1>1, <1>2

(* The invariant holds of every state.                                                      *)
THEOREM ImagesInvariant == ImagesSpec => []ImagesInv
<1> QED
  BY InitImages, ImagesStep, PTL DEF ImagesSpec

(* Rows, files, work and passes keep their types.                                           *)
THEOREM ImagesTyped == ImagesSpec => []ImagesTypeOK
<1>1. ImagesInv => ImagesTypeOK
  BY DEF ImagesInv
<1> QED
  BY <1>1, ImagesInvariant, PTL

(* No cancel, resume, failure, upload or restart strands an image that says building or     *)
(* interrupted (ReconcileStuckBuilds, ResumeImageBuild).                                    *)
THEOREM NoneStranded == ImagesSpec => []NotStranded
<1>1. ImagesInv => NotStranded
  BY DEF ImagesInv
<1> QED
  BY <1>1, ImagesInvariant, PTL

(* Whatever writes a row last, an image that can be deployed, or that the reconciler        *)
(* judges, names a blob and a checksum (FinalizeBaseImage, reconcileImageLocked).           *)
THEOREM JudgedImagesHaveBlobs == ImagesSpec => []JudgedHasBlob
<1>1. ImagesInv => JudgedHasBlob
  BY DEF ImagesInv
<1> QED
  BY <1>1, ImagesInvariant, PTL
=============================================================================
