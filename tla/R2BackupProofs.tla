--------------------------- MODULE R2BackupProofs ---------------------------
(***************************************************************************)
(* Proofs about R2Backup: with retained deletes, the bucket and every      *)
(* replica of its tables find their blobs, across any number of restarts,  *)
(* replacements of the machine and restores of the replica.                *)
(***************************************************************************)
EXTENDS R2Backup, R2BucketProofs

(* The tables of the replica, as the tables of a bucket.                   *)
Past == INSTANCE R2Bucket WITH
    objects <- backup.objects, uploads <- backup.uploads, parts <- backup.parts

(* The replica has the type and the consistency of a bucket's tables.      *)
BackupTables ==
    /\ backup.objects \in [Keys -> ObjectRow]
    /\ backup.uploads \in [Uploads -> UploadRow]
    /\ backup.parts \subseteq PartRow
    /\ Past!NoSharedBlobs /\ Past!ObjectsIntact /\ Past!UploadsAndPartsAgree

(* The bucket keeps its invariant, the replica that of tables, and both    *)
(* the replica and single-part reads name stored blobs only.               *)
BackupInv ==
    IInv /\ BackupTables /\ BackupsResolve /\ SingleReadsFindTheirBlob

(* With retained deletes no step takes a blob from the store.              *)
LEMMA StoreGrows ==
    ASSUME RetainDeleted, TypeOK, [BackupNext]_backupVars
    PROVE  stored \subseteq stored'
<1>1. CASE RestoreBackup
  BY <1>1 DEF RestoreBackup, StoresAfterCrash
<1>2. CASE Restart
  BY <1>2 DEF Restart, StoresAfterCrash
<1>3. CASE Next /\ ~ Restart
  BY <1>3
  DEF Next, StartPut, StartUploadPart, BlobStored, BlobPutRejected, CommitPut,
      FailCondition, RefusePut, CommitPart, FailPart, BlobDeleted, StoreAfterDelete,
      BlobDeleteFailed, Delete, CreateMultipartUpload, AbortMultipartUpload,
      CompleteMultipartUpload, GetSingle, SingleAnswered, GetMultipart, OpenPart,
      PartPiped, StreamAborted
<1>4. CASE UNCHANGED vars
  BY <1>4 DEF vars
<1> QED BY <1>1, <1>2, <1>3, <1>4 DEF BackupNext, Replicate, backupVars

(* Only a new single-part read names blobs: those of the present row.      *)
LEMMA SingleReads ==
    ASSUME IInv, [Next]_vars, NEW r \in Readers, reader'[r].phase = "single",
           NEW n \in reader'[r].need
    PROVE  \/ reader[r].phase = "single" /\ n \in reader[r].need
           \/ ObjectReferences(n.blob)
<1> USE DEF IInv, TypeOK
<1>1. ASSUME NEW s \in Readers, NEW k \in Keys, GetSingle(s, k), r = s
      PROVE  ObjectReferences(n.blob)
  BY <1>1 DEF GetSingle, ObjectReferences
<1>2. ASSUME NEW s \in Readers,
             \/ SingleAnswered(s)
             \/ \E k \in Keys, lo, hi \in PartNumbers : GetMultipart(s, k, lo, hi)
             \/ OpenPart(s)
             \/ PartPiped(s)
             \/ StreamAborted(s)
      PROVE  reader'[r] = reader[r]
  <2>1. reader'[s].phase # "single"
    <3>1. reader[s] \in ReaderState
      OBVIOUS
    <3>2. CASE OpenPart(s)
      BY <3>1, <3>2 DEF OpenPart, ReaderState
    <3>3. CASE PartPiped(s)
      BY <3>3 DEF PartPiped, IdleReader
    <3>4. CASE SingleAnswered(s) \/ StreamAborted(s)
      BY <3>4 DEF SingleAnswered, StreamAborted, IdleReader
    <3>5. CASE \E k \in Keys, lo, hi \in PartNumbers : GetMultipart(s, k, lo, hi)
      BY <3>5 DEF GetMultipart
    <3> QED BY <1>2, <3>2, <3>3, <3>4, <3>5
  <2>2. r # s => reader'[r] = reader[r]
    BY <1>2 DEF SingleAnswered, GetMultipart, OpenPart, PartPiped, StreamAborted
  <2> QED BY <2>1, <2>2
<1>3. ASSUME NEW s \in Readers, NEW k \in Keys, GetSingle(s, k), r # s
      PROVE  reader'[r] = reader[r]
  BY <1>3 DEF GetSingle
<1>4. ~ Restart
  BY DEF Restart, IdleReader
<1>5. ASSUME Next, \A s \in Readers :
               /\ \A k \in Keys : ~ GetSingle(s, k)
               /\ ~ SingleAnswered(s)
               /\ \A k \in Keys, lo, hi \in PartNumbers : ~ GetMultipart(s, k, lo, hi)
               /\ ~ OpenPart(s) /\ ~ PartPiped(s) /\ ~ StreamAborted(s)
      PROVE  reader' = reader
  BY <1>4, <1>5
  DEF Next, StartPut, StartUploadPart, BlobStored, BlobPutRejected, CommitPut,
      FailCondition, RefusePut, CommitPart, FailPart, BlobDeleted, BlobDeleteFailed,
      Delete, CreateMultipartUpload, AbortMultipartUpload, CompleteMultipartUpload
<1> QED BY <1>1, <1>2, <1>3, <1>5 DEF vars

(* A restored bucket is consistent: its tables are those of the replica,   *)
(* whose blobs are committed again, and nobody reads.                      *)
LEMMA RestoreStep ==
    ASSUME BackupInv, RestoreBackup, stored \subseteq stored'
    PROVE  IInv'
<1>1. \A b : Referenced(b)' <=> BackupRefers(b)
  BY DEF RestoreBackup, Referenced, ObjectReferences, PartReferences, BackupRefers
<1>2. TablesInv'
  BY DEF BackupInv, BackupTables, RestoreBackup, TablesInv,
         NoSharedBlobs, ObjectsIntact, UploadsAndPartsAgree,
         Past!NoSharedBlobs, Past!ObjectsIntact, Past!UploadsAndPartsAgree,
         ObjectReferences, PartReferences, BlobsOf, LinkedTo,
         Past!ObjectReferences, Past!PartReferences, Past!BlobsOf, Past!LinkedTo
<1>3. ASSUME NEW b \in Blobs
      PROVE  /\ life'[b] = "committed" <=> BackupRefers(b)
             /\ life'[b] \in Phases \ {"uploaded", "waiting"}
  BY DEF RestoreBackup, RestoredLife, InFlight, Phases, BackupInv, IInv, TypeOK
<1>4. BlobsInv'
  BY <1>1, <1>3
  DEF BlobsInv, LifeMatchesTables, KeptBlobsAreStored, WaitingBlobsAreInUse,
      BackupInv, BackupsResolve
<1>5. \A r \in Readers : reader'[r] = IdleReader
  BY DEF RestoreBackup
<1>6. \A b : Holders(b)' = {}
  BY <1>5 DEF Holders, Streaming, IdleReader
<1>7. ReadersInv'
  BY <1>5, <1>6, FS_EmptySet
  DEF RestoreBackup, ReadersInv, WaitGroupsCountReaders, NeedsAreDistinct,
      HeldBlobsAreLive, Streaming, IdleReader
<1>8. TypeOK'
  <2>1. stored' \subseteq Blobs
    BY DEF RestoreBackup, StoresAfterCrash, BackupInv, IInv, TypeOK
  <2>2. life' \in [Blobs -> Phases]
    BY <1>3 DEF RestoreBackup
  <2> QED
    BY <2>1, <2>2
    DEF RestoreBackup, BackupInv, BackupTables, TypeOK, ReaderState, IdleReader
<1> QED BY <1>2, <1>4, <1>7, <1>8 DEF IInv

(* The replica takes the consistent tables, whose blobs are stored.        *)
LEMMA ReplicateStep ==
    ASSUME BackupInv, Replicate
    PROVE  BackupTables' /\ BackupsResolve'
<1>1. /\ backup'.objects = objects /\ backup'.uploads = uploads
      /\ backup'.parts = parts
      /\ UNCHANGED <<objects, uploads, parts, stored>>
  BY DEF Replicate, Tables, vars
<1>2. BackupTables'
  BY <1>1
  DEF BackupInv, BackupTables, IInv, TypeOK, TablesInv,
      NoSharedBlobs, ObjectsIntact, UploadsAndPartsAgree,
      Past!NoSharedBlobs, Past!ObjectsIntact, Past!UploadsAndPartsAgree,
      ObjectReferences, PartReferences, BlobsOf, LinkedTo,
      Past!ObjectReferences, Past!PartReferences, Past!BlobsOf, Past!LinkedTo
<1>3. \A b : BackupRefers(b)' => Referenced(b)
  BY <1>1 DEF BackupRefers, Referenced, ObjectReferences, PartReferences
<1>4. \A b \in Blobs : Referenced(b) => b \in stored
  BY DEF BackupInv, IInv, BlobsInv, LifeMatchesTables, KeptBlobsAreStored
<1> QED BY <1>1, <1>2, <1>3, <1>4 DEF BackupsResolve

(* A replica that does not change keeps its consistency.                   *)
LEMMA SameBackup ==
    ASSUME BackupInv, UNCHANGED backup, stored \subseteq stored'
    PROVE  BackupTables' /\ BackupsResolve'
BY DEF BackupInv, BackupTables, BackupsResolve, BackupRefers,
       Past!NoSharedBlobs, Past!ObjectsIntact, Past!UploadsAndPartsAgree,
       Past!ObjectReferences, Past!PartReferences, Past!BlobsOf, Past!LinkedTo

(* Every step keeps the invariant.                                         *)
LEMMA BackupStep ==
    ASSUME RetainDeleted, BackupInv, [BackupNext]_backupVars
    PROVE  BackupInv'
<1>1. stored \subseteq stored'
  BY StoreGrows DEF BackupInv, IInv
<1>2. CASE RestoreBackup
  <2>1. IInv'
    BY <1>1, <1>2, RestoreStep
  <2>2. BackupTables' /\ BackupsResolve'
    BY <1>1, <1>2, SameBackup DEF RestoreBackup
  <2>3. SingleReadsFindTheirBlob'
    BY <1>2 DEF RestoreBackup, SingleReadsFindTheirBlob, IdleReader
  <2> QED BY <2>1, <2>2, <2>3 DEF BackupInv
<1>3. CASE [Next]_vars
  <2>1. IInv'
    BY <1>3, NextInv DEF BackupInv
  <2>2. SingleReadsFindTheirBlob'
    <3> SUFFICES ASSUME NEW r \in Readers, reader'[r].phase = "single",
                        NEW n \in reader'[r].need
                 PROVE  n.blob \in stored'
      BY DEF SingleReadsFindTheirBlob
    <3>1. n.blob \in Blobs
      BY <2>1 DEF IInv, TypeOK, ReaderState, Needed
    <3>2. ObjectReferences(n.blob) => n.blob \in stored
      BY <3>1 DEF BackupInv, IInv, BlobsInv, LifeMatchesTables, KeptBlobsAreStored,
                  Referenced
    <3> QED
      BY <1>1, <1>3, <3>2, SingleReads DEF BackupInv, SingleReadsFindTheirBlob
  <2>3. Replicate \/ UNCHANGED backup => BackupTables' /\ BackupsResolve'
    BY <1>1, SameBackup, ReplicateStep
  <2> QED BY <2>1, <2>2, <2>3, <1>2 DEF BackupInv, BackupNext, backupVars
<1>4. Replicate => UNCHANGED vars
  BY DEF Replicate
<1> QED BY <1>2, <1>3, <1>4 DEF BackupNext, backupVars

(* The invariant holds in every reachable state.                           *)
LEMMA BackupInvCorrect ==
    ASSUME RetainDeleted PROVE BackupSpec => []BackupInv
<1>1. BackupInit => BackupInv
  <2> SUFFICES ASSUME BackupInit PROVE BackupInv
    OBVIOUS
  <2>1. IInv
    BY InitInv DEF BackupInit
  <2>2. /\ backup.objects = objects /\ backup.uploads = uploads
        /\ backup.parts = parts
    BY DEF BackupInit, Tables
  <2>3. BackupTables
    BY <2>1, <2>2
    DEF BackupTables, IInv, TypeOK, TablesInv,
        NoSharedBlobs, ObjectsIntact, UploadsAndPartsAgree,
        Past!NoSharedBlobs, Past!ObjectsIntact, Past!UploadsAndPartsAgree,
        ObjectReferences, PartReferences, BlobsOf, LinkedTo,
        Past!ObjectReferences, Past!PartReferences, Past!BlobsOf, Past!LinkedTo
  <2>4. BackupsResolve /\ SingleReadsFindTheirBlob
    BY <2>2
    DEF BackupInit, Init, BackupsResolve, BackupRefers, Absent,
        SingleReadsFindTheirBlob, IdleReader
  <2> QED BY <2>1, <2>3, <2>4 DEF BackupInv
<1>2. BackupInv /\ [BackupNext]_backupVars => BackupInv'
  BY BackupStep
<1> QED BY <1>1, <1>2, PTL DEF BackupSpec

-----------------------------------------------------------------------------
(* What an operator of a remote storage relies on.                         *)

(* Every blob that the replicated tables name is in the store, whatever    *)
(* was overwritten, deleted or aborted since they were taken.              *)
THEOREM BackupsCorrect ==
    ASSUME RetainDeleted PROVE BackupSpec => []BackupsResolve
<1>1. BackupInv => BackupsResolve
  BY DEF BackupInv
<1> QED BY <1>1, BackupInvCorrect, PTL

(* A single-part read, which holds no wait group, finds its blob.          *)
THEOREM SingleReadsCorrect ==
    ASSUME RetainDeleted PROVE BackupSpec => []SingleReadsFindTheirBlob
<1>1. BackupInv => SingleReadsFindTheirBlob
  BY DEF BackupInv
<1> QED BY <1>1, BackupInvCorrect, PTL

(* A bucket that is restored from a replica, and works on, has no row that *)
(* dangles and no object that is torn, as one that never was.              *)
THEOREM RestoredBucketsCorrect ==
    ASSUME RetainDeleted
    PROVE  BackupSpec => [](ReferencedBlobsSurvive /\ ObjectsIntact)
<1>1. BackupInv => ReferencedBlobsSurvive /\ ObjectsIntact
  BY DEF BackupInv, IInv, TablesInv, BlobsInv, LifeMatchesTables, KeptBlobsAreStored,
         ReferencedBlobsSurvive
<1> QED BY <1>1, BackupInvCorrect, PTL
=============================================================================
