------------------------------ MODULE R2Backup ------------------------------
(***************************************************************************)
(* The bucket of R2Bucket on Smolflare's remote storage: its SQLite tables *)
(* are replicated at an interval (packages/smolflare/src/sqlite.ts), its   *)
(* blobs are put to and deleted from a remote store at once                *)
(* (packages/smolflare/src/fetcher.ts).  A machine that is replaced, or a  *)
(* point-in-time restore, starts from the tables that were replicated and  *)
(* from the blobs as they are.                                             *)
(***************************************************************************)
EXTENDS R2Bucket

VARIABLE backup  \* the tables as they were last replicated

backupVars == <<vars, backup>>

Tables == [objects |-> objects, uploads |-> uploads, parts |-> parts]

BackupInit == Init /\ backup = Tables

(* The replica takes the committed tables, every syncInterval.             *)
Replicate ==
    /\ backup' = Tables
    /\ UNCHANGED vars

BackupRefers(b) ==
    \/ \E k \in Keys : /\ backup.objects[k].kind = "single"
                       /\ b \in backup.objects[k].etag
    \/ \E p \in backup.parts : p.blob = b

(* The process ends and starts again from the replica.  A blob that a      *)
(* restored row refers to is live again, one that only a lost row referred *)
(* to is left behind.                                                      *)
RestoredLife(b) ==
    IF BackupRefers(b) THEN "committed"
    ELSE IF life[b] \in InFlight \cup {"committed"} THEN "leaked"
    ELSE life[b]

RestoreBackup ==
    /\ objects' = backup.objects
    /\ uploads' = backup.uploads
    /\ parts' = backup.parts
    /\ life' = [b \in Blobs |-> RestoredLife(b)]
    /\ reader' = [r \in Readers |-> IdleReader]
    /\ inUse' = [b \in Blobs |-> 0]
    /\ intent' = [b \in Blobs |-> NoRequest]
    /\ stored' \in StoresAfterCrash
    /\ UNCHANGED backup

BackupNext ==
    \/ Next /\ UNCHANGED backup
    \/ Replicate
    \/ RestoreBackup

BackupSpec == BackupInit /\ [][BackupNext]_backupVars

(* Retained blobs let an older backup resolve (README of smolflare, lines  *)
(* 172-174): every blob that the replica refers to is in the store,        *)
(* whatever was overwritten or deleted since.                              *)
BackupsResolve ==
    \A b \in Blobs : BackupRefers(b) => b \in stored
=============================================================================
