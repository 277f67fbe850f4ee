--------------------------- MODULE R2BucketProofs ---------------------------
(***************************************************************************)
(* Proofs about R2Bucket, for every set of keys, blobs, uploads, part      *)
(* numbers, sizes and selections and every finite set of readers.          *)
(***************************************************************************)
EXTENDS R2Bucket, FiniteSetTheorems, TLAPS

-----------------------------------------------------------------------------
(* Type correctness.                                                       *)

(* Phases after a background delete are phases.                            *)
LEMMA BackgroundDeleteType ==
    ASSUME TypeOK, NEW bs
    PROVE  BackgroundDelete(bs) \in [Blobs -> Phases]
BY DEF TypeOK, BackgroundDelete, DeletePhase, Phases

(* Releasing blobs never counts below zero.                                *)
LEMMA ReleaseType ==
    ASSUME TypeOK, NEW bs, ReleaseBlobs(bs)
    PROVE  inUse' \in [Blobs -> Nat] /\ life' \in [Blobs -> Phases]
BY DEF TypeOK, ReleaseBlobs, Phases

(* The handler of an operation holds the arguments of that operation.      *)
LEMMA RequestTypes ==
    ASSUME TypeOK, NEW b \in Blobs
    PROVE  /\ intent[b].op = "put" => intent[b] \in PutRequest
           /\ intent[b].op = "uploadPart" => intent[b] \in PartRequest
BY DEF TypeOK, PutRequest, PartRequest, NoRequest

(* Finalising an upload that is in progress keeps its row well typed.      *)
LEMMA FinalisedType ==
    ASSUME TypeOK, NEW u \in Uploads, NotFinalised(u),
           NEW s \in {"completed", "aborted"}
    PROVE  /\ uploads[u].key \in Keys
           /\ [uploads EXCEPT ![u].state = s] \in [Uploads -> UploadRow]
<1>1. uploads[u] \in [key : Keys, state : {"inProgress", "completed", "aborted"}]
  BY DEF TypeOK, NotFinalised, UploadRow, NoUpload
<1>2. [uploads[u] EXCEPT !.state = s] \in UploadRow
  BY <1>1 DEF UploadRow
<1>3. [uploads EXCEPT ![u].state = s]
        = [uploads EXCEPT ![u] = [uploads[u] EXCEPT !.state = s]]
  BY DEF TypeOK
<1> QED BY <1>1, <1>2, <1>3 DEF TypeOK

(* Linking a part to a key changes its link only.                          *)
LEMMA LinkedRow ==
    ASSUME NEW p \in PartRow, NEW k \in Keys
    PROVE  LET q == [p EXCEPT !.object = k] IN
             /\ q \in PartRow
             /\ q.upload = p.upload /\ q.part = p.part /\ q.blob = p.blob
             /\ q.size = p.size /\ q.object = k
BY DEF PartRow

(* The empty database is well typed.                                       *)
THEOREM InitType == Init => TypeOK
BY DEF Init, TypeOK, Absent, ObjectRow, NoUpload, UploadRow, Phases, NoRequest,
       IdleReader, ReaderState

(* Every step keeps the types.                                             *)
THEOREM NextType == TypeOK /\ [Next]_vars => TypeOK'
<1> SUFFICES ASSUME TypeOK, [Next]_vars PROVE TypeOK'
  OBVIOUS
<1> USE PartAssumption, KeyAssumption
<1>1. ASSUME NEW b \in Blobs, NEW k \in Keys, NEW c \in Conditions(k),
             StartPut(b, k, c)
      PROVE  TypeOK'
  <2>1. c \in Condition
    BY <1>1 DEF Conditions, Condition, NoCondition, Absent, ObjectRow, TypeOK
  <2>2. [op |-> "put", key |-> k, onlyIf |-> c] \in PutRequest
    BY <2>1 DEF PutRequest
  <2> QED BY <1>1, <2>2 DEF StartPut, TypeOK, Phases, tables
<1>2. ASSUME NEW b \in Blobs, NEW k \in Keys, NEW u \in Uploads,
             NEW n \in PartNumbers, NEW s \in Sizes,
             StartUploadPart(b, k, u, n, s)
      PROVE  TypeOK'
  <2>1. [op |-> "uploadPart", key |-> k, upload |-> u, part |-> n, size |-> s]
            \in PartRequest
    BY DEF PartRequest
  <2> QED BY <1>2, <2>1 DEF StartUploadPart, TypeOK, Phases, tables
<1>3. ASSUME NEW b \in Blobs, BlobStored(b) PROVE TypeOK'
  BY <1>3 DEF BlobStored, TypeOK, Phases, tables
<1>4. ASSUME NEW b \in Blobs, BlobPutRejected(b) PROVE TypeOK'
  BY <1>4 DEF BlobPutRejected, TypeOK, Phases, tables
<1>5. ASSUME NEW b \in Blobs, CommitPut(b) PROVE TypeOK'
  <2> DEFINE k == intent[b].key
  <2>1. k \in Keys
    BY <1>5, RequestTypes DEF CommitPut, Written, PutRequest
  <2>2. objects' \in [Keys -> ObjectRow]
    BY <1>5, <2>1 DEF CommitPut, TypeOK, ObjectRow
  <2>3. life' \in [Blobs -> Phases]
    BY <1>5, BackgroundDeleteType DEF CommitPut, Phases
  <2>4. parts' \subseteq PartRow
    BY <1>5 DEF CommitPut, TypeOK
  <2> QED BY <1>5, <2>2, <2>3, <2>4 DEF CommitPut, TypeOK
<1>6. ASSUME NEW b \in Blobs, FailCondition(b) PROVE TypeOK'
  BY <1>6, BackgroundDeleteType DEF FailCondition, TypeOK, tables
<1>7. ASSUME NEW b \in Blobs, RefusePut(b) PROVE TypeOK'
  BY <1>7 DEF RefusePut, TypeOK, Phases, tables
<1>8. ASSUME NEW b \in Blobs, CommitPart(b) PROVE TypeOK'
  <2> DEFINE i == intent[b]
             new == [upload |-> i.upload, part |-> i.part, blob |-> b,
                     size |-> i.size, object |-> NoKey]
  <2>1. new \in PartRow
    BY <1>8, RequestTypes DEF CommitPart, Written, PartRequest, PartRow
  <2>2. parts' \subseteq PartRow
    BY <1>8, <2>1 DEF CommitPart, TypeOK
  <2>3. life' \in [Blobs -> Phases]
    BY <1>8, BackgroundDeleteType DEF CommitPart, Phases
  <2> QED BY <1>8, <2>2, <2>3 DEF CommitPart, TypeOK
<1>9. ASSUME NEW b \in Blobs, FailPart(b) PROVE TypeOK'
  BY <1>9, BackgroundDeleteType DEF FailPart, TypeOK, tables
<1>10. ASSUME NEW b \in Blobs, BlobDeleted(b) PROVE TypeOK'
  BY <1>10 DEF BlobDeleted, StoreAfterDelete, TypeOK, Phases, tables
<1>11. ASSUME NEW b \in Blobs, BlobDeleteFailed(b) PROVE TypeOK'
  BY <1>11 DEF BlobDeleteFailed, TypeOK, Phases, tables
<1>12. ASSUME NEW ks \in SUBSET Keys, Delete(ks) PROVE TypeOK'
  <2>1. objects' \in [Keys -> ObjectRow]
    BY <1>12 DEF Delete, TypeOK, ObjectRow, Absent
  <2>2. life' \in [Blobs -> Phases]
    BY <1>12, BackgroundDeleteType DEF Delete
  <2> QED BY <1>12, <2>1, <2>2 DEF Delete, TypeOK
<1>13. ASSUME NEW u \in Uploads, NEW k \in Keys, CreateMultipartUpload(u, k)
       PROVE  TypeOK'
  BY <1>13 DEF CreateMultipartUpload, TypeOK, UploadRow
<1>14. ASSUME NEW u \in Uploads, AbortMultipartUpload(u) PROVE TypeOK'
  <2>1. uploads' \in [Uploads -> UploadRow]
    BY <1>14, FinalisedType DEF AbortMultipartUpload
  <2> QED
    BY <1>14, <2>1, BackgroundDeleteType DEF AbortMultipartUpload, TypeOK
<1>15. ASSUME NEW u \in Uploads, NEW sel \in Selections,
              CompleteMultipartUpload(u, sel)
       PROVE  TypeOK'
  <2> DEFINE k == uploads[u].key
  <2>1. k \in Keys
    BY <1>15, FinalisedType DEF CompleteMultipartUpload
  <2>2. Chosen(u, sel) \subseteq parts
    BY DEF Chosen, Matches, PartsOf
  <2>3. BlobsOf(Chosen(u, sel)) \in SUBSET Blobs
    BY <2>2 DEF BlobsOf, TypeOK, PartRow
  <2>4. objects' \in [Keys -> ObjectRow]
    BY <1>15, <2>1, <2>3 DEF CompleteMultipartUpload, TypeOK, ObjectRow
  <2>5. \A p \in Chosen(u, sel) : [p EXCEPT !.object = k] \in PartRow
    <3> SUFFICES ASSUME NEW p \in Chosen(u, sel)
                 PROVE  [p EXCEPT !.object = k] \in PartRow
      OBVIOUS
    <3>1. p \in PartRow
      BY <2>2 DEF TypeOK
    <3> QED BY <2>1, <3>1, LinkedRow
  <2>6. parts' \subseteq PartRow
    <3> DEFINE linked == {[p EXCEPT !.object = k] : p \in Chosen(u, sel)}
    <3>1. linked \subseteq PartRow
      BY <2>5
    <3>2. parts' \subseteq parts \cup linked
      BY <1>15 DEF CompleteMultipartUpload
    <3> QED BY <3>1, <3>2 DEF TypeOK
  <2>7. uploads' \in [Uploads -> UploadRow]
    BY <1>15, FinalisedType DEF CompleteMultipartUpload
  <2> QED
    BY <1>15, <2>4, <2>6, <2>7, BackgroundDeleteType
    DEF CompleteMultipartUpload, TypeOK
<1>16. ASSUME NEW r \in Readers, NEW k \in Keys, GetSingle(r, k) PROVE TypeOK'
  <2>1. {[part |-> 0, blob |-> b] : b \in objects[k].etag} \in SUBSET Needed
    BY DEF Needed, TypeOK, ObjectRow
  <2> QED BY <1>16, <2>1 DEF GetSingle, TypeOK, ReaderState, tables
<1>17. ASSUME NEW r \in Readers, SingleAnswered(r) PROVE TypeOK'
  BY <1>17 DEF SingleAnswered, TypeOK, ReaderState, IdleReader, tables
<1>18. ASSUME NEW r \in Readers, NEW k \in Keys,
              NEW lo \in PartNumbers, NEW hi \in PartNumbers,
              GetMultipart(r, k, lo, hi)
       PROVE  TypeOK'
  <2> DEFINE need == {[part |-> p.part, blob |-> p.blob] :
                         p \in RequiredParts(k, lo, hi)}
  <2>1. need \in SUBSET Needed
    BY DEF RequiredParts, LinkedTo, Needed, TypeOK, PartRow
  <2>2. reader' \in [Readers -> ReaderState]
    BY <1>18, <2>1 DEF GetMultipart, TypeOK, ReaderState
  <2>3. inUse' \in [Blobs -> Nat]
    BY <1>18 DEF GetMultipart, AcquireBlobs, TypeOK
  <2> QED BY <1>18, <2>2, <2>3 DEF GetMultipart, TypeOK, tables
<1>19. ASSUME NEW r \in Readers, OpenPart(r) PROVE TypeOK'
  BY <1>19 DEF OpenPart, TypeOK, ReaderState, tables
<1>20. ASSUME NEW r \in Readers, PartPiped(r) PROVE TypeOK'
  <2>1. reader' \in [Readers -> ReaderState]
    BY <1>20 DEF PartPiped, TypeOK, ReaderState, IdleReader
  <2>2. inUse' \in [Blobs -> Nat] /\ life' \in [Blobs -> Phases]
    BY <1>20, ReleaseType DEF PartPiped
  <2> QED BY <1>20, <2>1, <2>2 DEF PartPiped, TypeOK, tables
<1>21. ASSUME NEW r \in Readers, StreamAborted(r) PROVE TypeOK'
  <2>1. inUse' \in [Blobs -> Nat] /\ life' \in [Blobs -> Phases]
    BY <1>21, ReleaseType DEF StreamAborted
  <2> QED BY <1>21, <2>1 DEF StreamAborted, TypeOK, ReaderState, IdleReader, tables
<1>22. CASE Restart
  <2>1. stored' \subseteq Blobs
    BY <1>22 DEF Restart, StoresAfterCrash, TypeOK
  <2>2. life' \in [Blobs -> Phases]
    BY <1>22 DEF Restart, TypeOK, Phases
  <2> QED
    BY <1>22, <2>1, <2>2 DEF Restart, TypeOK, ReaderState, IdleReader, tables
<1>23. CASE UNCHANGED vars
  BY <1>23 DEF vars, TypeOK
<1> QED
  BY <1>1, <1>2, <1>3, <1>4, <1>5, <1>6, <1>7, <1>8, <1>9, <1>10, <1>11, <1>12,
     <1>13, <1>14, <1>15, <1>16, <1>17, <1>18, <1>19, <1>20, <1>21, <1>22, <1>23
  DEF Next

(* Every reachable state is well typed.                                    *)
THEOREM TypeCorrect == Spec => []TypeOK
BY InitType, NextType, PTL DEF Spec

-----------------------------------------------------------------------------
(* Wait groups.                                                            *)

(* The wait group of a blob that a reader holds is not empty.              *)
LEMMA HeldInUse ==
    ASSUME WaitGroupsCountReaders, NEW r \in Readers, NEW b \in Blobs,
           Streaming(r), Needs(r, b)
    PROVE  inUse[b] # 0
<1>1. Holders(b) \subseteq Readers /\ r \in Holders(b)
  BY DEF Holders
<1>2. IsFiniteSet(Holders(b))
  BY <1>1, FS_Subset, ReaderAssumption
<1>3. Cardinality(Holders(b)) # 0
  BY <1>1, <1>2, FS_EmptySet
<1> QED BY <1>3 DEF WaitGroupsCountReaders

(* Readers that do not move keep their part of the invariant, as far as    *)
(* the blobs they hold stay live.                                          *)
LEMMA IdleReaders ==
    ASSUME ReadersInv, UNCHANGED <<inUse, reader>>,
           \A b \in Blobs : life[b] \in {"committed", "waiting"} /\ inUse[b] # 0
                            => life'[b] \in {"committed", "waiting"}
    PROVE  ReadersInv'
<1>1. \A b : Holders(b)' = Holders(b)
  BY DEF Holders, Streaming, Needs
<1>2. WaitGroupsCountReaders'
  BY <1>1 DEF ReadersInv, WaitGroupsCountReaders
<1>3. NeedsAreDistinct'
  BY DEF ReadersInv, NeedsAreDistinct
<1>4. HeldBlobsAreLive'
  <2> SUFFICES ASSUME NEW r \in Readers, NEW b \in Blobs,
                      Streaming(r), Needs(r, b)
               PROVE  life'[b] \in {"committed", "waiting"}
    BY DEF HeldBlobsAreLive, Streaming, Needs
  <2>1. inUse[b] # 0
    BY HeldInUse DEF ReadersInv
  <2>2. life[b] \in {"committed", "waiting"}
    BY DEF ReadersInv, HeldBlobsAreLive
  <2> QED BY <2>1, <2>2
<1> QED BY <1>2, <1>3, <1>4 DEF ReadersInv

(* The blobs handed to #backgroundDelete leave the committed ones, stay    *)
(* stored while they wait, and wait exactly if they are in use.            *)
LEMMA BackgroundDeletePhases ==
    ASSUME TypeOK, BlobsInv, NEW bs,
           \A b \in Blobs \cap bs : life[b] \in {"uploaded", "committed"}
    PROVE  LET L == BackgroundDelete(bs) IN
           \A b \in Blobs :
             /\ L[b] = "committed" <=> life[b] = "committed" /\ b \notin bs
             /\ L[b] \in {"uploaded", "committed", "waiting"} => b \in stored
             /\ L[b] = "waiting" => inUse[b] > 0
             /\ life[b] \in {"committed", "waiting"} /\ inUse[b] # 0
                  => L[b] \in {"committed", "waiting"}
<1> SUFFICES ASSUME NEW b \in Blobs
             PROVE  LET L == BackgroundDelete(bs) IN
               /\ L[b] = "committed" <=> life[b] = "committed" /\ b \notin bs
               /\ L[b] \in {"uploaded", "committed", "waiting"} => b \in stored
               /\ L[b] = "waiting" => inUse[b] > 0
               /\ life[b] \in {"committed", "waiting"} /\ inUse[b] # 0
                    => L[b] \in {"committed", "waiting"}
  OBVIOUS
<1>1. inUse[b] \in Nat
  BY DEF TypeOK
<1>2. CASE b \in bs
  BY <1>1, <1>2 DEF BackgroundDelete, DeletePhase, BlobsInv, KeptBlobsAreStored
<1>3. CASE b \notin bs
  BY <1>3 DEF BackgroundDelete, BlobsInv, KeptBlobsAreStored, WaitingBlobsAreInUse
<1> QED BY <1>2, <1>3

-----------------------------------------------------------------------------
(* The inductive step.                                                     *)

(* Tables that do not change keep their part of the invariant.             *)
LEMMA SameTables ==
    ASSUME TablesInv, UNCHANGED tables
    PROVE  TablesInv' /\ \A b : Referenced(b)' <=> Referenced(b)
BY DEF TablesInv, tables, NoSharedBlobs, ObjectsIntact, UploadsAndPartsAgree,
       Referenced, ObjectReferences, PartReferences, LinkedTo, BlobsOf

(* Steps of a handler that writes, loses or deletes a blob no row refers   *)
(* to: the phase of one blob and its presence in the store change.         *)
LEMMA UnreferencedBlobSteps ==
    ASSUME IInv, TypeOK', NEW b \in Blobs,
           UNCHANGED <<objects, uploads, parts, inUse, reader>>,
           life[b] \notin {"committed", "waiting"},
           life'[b] \notin {"committed", "waiting"},
           life'[b] = "uploaded" => b \in stored',
           \A c \in Blobs \ {b} : life'[c] = life[c] /\ (c \in stored' <=> c \in stored)
    PROVE  IInv'
<1>1. TablesInv' /\ \A c : Referenced(c)' <=> Referenced(c)
  BY SameTables DEF IInv, tables
<1>2. LifeMatchesTables'
  BY <1>1 DEF IInv, BlobsInv, LifeMatchesTables
<1>3. KeptBlobsAreStored'
  BY DEF IInv, BlobsInv, KeptBlobsAreStored
<1>4. WaitingBlobsAreInUse'
  BY DEF IInv, BlobsInv, WaitingBlobsAreInUse
<1>5. ReadersInv'
  BY IdleReaders DEF IInv
<1> QED BY <1>1, <1>2, <1>3, <1>4, <1>5 DEF IInv, BlobsInv

(* A handler that fails gives its new blob to #backgroundDelete.           *)
LEMMA FailedHandlerStep ==
    ASSUME IInv, TypeOK', NEW b \in Blobs, life[b] = "uploaded",
           life' = BackgroundDelete({b}),
           UNCHANGED <<objects, uploads, parts, stored, inUse, reader>>
    PROVE  IInv'
<1>1. TablesInv' /\ \A c : Referenced(c)' <=> Referenced(c)
  BY SameTables DEF IInv, tables
<1>2. \A c \in Blobs :
        /\ life'[c] = "committed" <=> life[c] = "committed" /\ c \notin {b}
        /\ life'[c] \in {"uploaded", "committed", "waiting"} => c \in stored
        /\ life'[c] = "waiting" => inUse[c] > 0
        /\ life[c] \in {"committed", "waiting"} /\ inUse[c] # 0
             => life'[c] \in {"committed", "waiting"}
  BY BackgroundDeletePhases DEF IInv
<1>3. BlobsInv'
  BY <1>1, <1>2
  DEF IInv, BlobsInv, LifeMatchesTables, KeptBlobsAreStored, WaitingBlobsAreInUse
<1>4. ReadersInv'
  BY <1>2, IdleReaders DEF IInv
<1> QED BY <1>1, <1>3, <1>4 DEF IInv

(* A transaction that keeps the tables consistent, refers to the blobs new *)
(* and gives the blobs old, which it no longer refers to, to               *)
(* #backgroundDelete, keeps the invariant.                                 *)
LEMMA TransactionStep ==
    ASSUME IInv, TypeOK', NEW new, NEW old, TablesInv',
           \A c \in Blobs \cap new : life[c] = "uploaded",
           \A c \in Blobs \cap old : life[c] = "committed",
           \A c \in Blobs : Referenced(c)' <=> c \in new \/ (Referenced(c) /\ c \notin old),
           \A c \in Blobs : life'[c] = IF c \in new THEN "committed"
                                      ELSE BackgroundDelete(old)[c],
           UNCHANGED <<stored, inUse, reader>>
    PROVE  IInv'
<1>1. \A c \in Blobs :
        LET L == BackgroundDelete(old) IN
        /\ L[c] = "committed" <=> life[c] = "committed" /\ c \notin old
        /\ L[c] \in {"uploaded", "committed", "waiting"} => c \in stored
        /\ L[c] = "waiting" => inUse[c] > 0
        /\ life[c] \in {"committed", "waiting"} /\ inUse[c] # 0
             => L[c] \in {"committed", "waiting"}
  BY BackgroundDeletePhases DEF IInv
<1>2. \A c \in Blobs \cap new : c \in stored
  BY DEF IInv, BlobsInv, KeptBlobsAreStored
<1>3. LifeMatchesTables'
  BY <1>1 DEF IInv, BlobsInv, LifeMatchesTables
<1>4. KeptBlobsAreStored' /\ WaitingBlobsAreInUse'
  BY <1>1, <1>2 DEF KeptBlobsAreStored, WaitingBlobsAreInUse
<1>5. ReadersInv'
  BY <1>1, IdleReaders DEF IInv
<1> QED BY <1>3, <1>4, <1>5 DEF IInv, BlobsInv

(* Blobs of the object at a key belong to it alone.                        *)
LEMMA OldBlobsAreCommitted ==
    ASSUME IInv, NEW k \in Keys
    PROVE  /\ OldBlobs(k) \subseteq Blobs
           /\ \A c \in OldBlobs(k) : Referenced(c) /\ life[c] = "committed"
<1>1. ASSUME objects[k].kind = "single"
      PROVE  /\ OldBlobs(k) \subseteq Blobs
             /\ \A c \in OldBlobs(k) : Referenced(c)
  BY <1>1 DEF OldBlobs, IInv, TypeOK, ObjectRow, Referenced, ObjectReferences
<1>2. ASSUME objects[k].kind # "single"
      PROVE  /\ OldBlobs(k) \subseteq Blobs
             /\ \A c \in OldBlobs(k) : Referenced(c)
  BY <1>2 DEF OldBlobs, BlobsOf, PartsDroppedWith, LinkedTo, IInv, TypeOK, PartRow,
              Referenced, PartReferences
<1> QED BY <1>1, <1>2 DEF IInv, BlobsInv, LifeMatchesTables

(* All parts linked to a key go when its object does.                      *)
LEMMA AllLinkedPartsDrop ==
    ASSUME ObjectsIntact, NEW k \in Keys
    PROVE  PartsDroppedWith(k) = LinkedTo(k)
BY DEF ObjectsIntact, PartsDroppedWith, BlobsOf

(* The transaction of a put replaces the object of its key: the blobs of   *)
(* that object are the ones handed to #backgroundDelete.                   *)
LEMMA CommitPutStep ==
    ASSUME IInv, TypeOK', NEW b \in Blobs, CommitPut(b)
    PROVE  IInv'
<1> DEFINE k == intent[b].key
           row == [kind |-> "single", etag |-> {b}]
<1>1. k \in Keys
  BY RequestTypes DEF CommitPut, Written, PutRequest, IInv
<1>2. /\ objects' = [objects EXCEPT ![k] = row]
      /\ parts' = parts \ LinkedTo(k)
      /\ life' = [BackgroundDelete(OldBlobs(k)) EXCEPT ![b] = "committed"]
      /\ UNCHANGED <<uploads, stored, inUse, reader>>
      /\ life[b] = "uploaded"
  BY <1>1, AllLinkedPartsDrop DEF CommitPut, Written, IInv, TablesInv
<1>3. ~ Referenced(b)
  BY <1>2 DEF IInv, BlobsInv, LifeMatchesTables
<1>4. /\ objects'[k] = row
      /\ \A l \in Keys \ {k} : objects'[l] = objects[l]
  BY <1>1, <1>2 DEF IInv, TypeOK
<1>5. NoSharedBlobs'
  <2> SUFFICES ASSUME NEW c \in Blobs
               PROVE  /\ \A p, q \in parts' : p.blob = c /\ q.blob = c => p = q
                      /\ \A l, m \in Keys :
                           /\ objects'[l].kind = "single" /\ c \in objects'[l].etag
                           /\ objects'[m].kind = "single" /\ c \in objects'[m].etag
                           => l = m
                      /\ ~ (ObjectReferences(c)' /\ PartReferences(c)')
    BY DEF NoSharedBlobs
  <2>1. PartReferences(c)' => PartReferences(c)
    BY <1>2 DEF PartReferences
  <2>2. \A l \in Keys : objects'[l].kind = "single" /\ c \in objects'[l].etag
          => \/ l = k /\ c = b
             \/ l # k /\ objects[l].kind = "single" /\ c \in objects[l].etag
    BY <1>4
  <2>3. c = b => \A l \in Keys : ~ (objects[l].kind = "single" /\ c \in objects[l].etag)
    BY <1>3 DEF Referenced, ObjectReferences
  <2>4. c = b => ~ PartReferences(c)
    BY <1>3 DEF Referenced
  <2>5. ObjectReferences(c)' => c = b \/ ObjectReferences(c)
    BY <2>2 DEF ObjectReferences
  <2> QED
    BY <1>2, <2>1, <2>2, <2>3, <2>4, <2>5 DEF IInv, TablesInv, NoSharedBlobs
<1>6. ObjectsIntact'
  <2> SUFFICES ASSUME NEW l \in Keys
               PROVE  BlobsOf(LinkedTo(l))' =
                        IF objects'[l].kind = "multipart" THEN objects'[l].etag ELSE {}
    BY DEF ObjectsIntact
  <2>1. CASE l = k
    <3>1. LinkedTo(l)' = {}
      BY <1>2, <2>1 DEF LinkedTo
    <3> QED BY <1>4, <2>1, <3>1 DEF BlobsOf
  <2>2. CASE l # k
    <3>1. LinkedTo(l)' = LinkedTo(l)
      BY <1>2, <2>2 DEF LinkedTo
    <3> QED BY <1>4, <2>2, <3>1 DEF BlobsOf, IInv, TablesInv, ObjectsIntact
  <2> QED BY <2>1, <2>2
<1>7. UploadsAndPartsAgree'
  BY <1>2 DEF IInv, TablesInv, UploadsAndPartsAgree
<1>8. \A c \in OldBlobs(k) : c \in Blobs /\ Referenced(c) /\ life[c] = "committed"
  BY <1>1, OldBlobsAreCommitted
<1>9. ASSUME NEW c \in Blobs
      PROVE  Referenced(c)' <=> c \in {b} \/ (Referenced(c) /\ c \notin OldBlobs(k))
  <2>1. ObjectReferences(c)' <=> c = b \/ \E l \in Keys \ {k} :
                                   objects[l].kind = "single" /\ c \in objects[l].etag
    BY <1>1, <1>4 DEF ObjectReferences
  <2>2. PartReferences(c)' <=> \E p \in parts \ LinkedTo(k) : p.blob = c
    BY <1>2 DEF PartReferences
  <2>3. CASE objects[k].kind = "single"
    <3>1. OldBlobs(k) = objects[k].etag /\ LinkedTo(k) = {}
      BY <1>1, <2>3, AllLinkedPartsDrop DEF OldBlobs, PartsDroppedWith, IInv, TablesInv
    <3> QED
      BY <1>1, <2>1, <2>2, <2>3, <3>1
      DEF Referenced, ObjectReferences, PartReferences, IInv, TablesInv, NoSharedBlobs
  <2>4. CASE objects[k].kind # "single"
    <3>1. OldBlobs(k) = BlobsOf(LinkedTo(k))
      BY <1>1, <2>4, AllLinkedPartsDrop DEF OldBlobs, IInv, TablesInv
    <3>2. c \in OldBlobs(k) => PartReferences(c)
      BY <3>1 DEF BlobsOf, LinkedTo, PartReferences
    <3>3. PartReferences(c)' <=> PartReferences(c) /\ c \notin OldBlobs(k)
      BY <2>2, <3>1
      DEF BlobsOf, LinkedTo, PartReferences, IInv, TablesInv, NoSharedBlobs
    <3>4. ObjectReferences(c)' <=> c = b \/ ObjectReferences(c)
      BY <1>1, <2>1, <2>4 DEF ObjectReferences
    <3> QED
      BY <3>2, <3>3, <3>4 DEF Referenced, IInv, TablesInv, NoSharedBlobs
  <2> QED BY <2>3, <2>4
<1>10. \A c \in Blobs : life'[c] = IF c \in {b} THEN "committed"
                                   ELSE BackgroundDelete(OldBlobs(k))[c]
  BY <1>2 DEF BackgroundDelete
<1>11. TablesInv'
  BY <1>5, <1>6, <1>7 DEF TablesInv
<1>12. PICK new, old : new = {b} /\ old = OldBlobs(k)
  OBVIOUS
<1>13. /\ \A c \in Blobs \cap new : life[c] = "uploaded"
       /\ \A c \in Blobs \cap old : life[c] = "committed"
       /\ \A c \in Blobs : Referenced(c)' <=> c \in new \/ (Referenced(c) /\ c \notin old)
  BY <1>2, <1>8, <1>9, <1>12
<1>14. \A c \in Blobs : life'[c] = IF c \in new THEN "committed"
                                   ELSE BackgroundDelete(old)[c]
  BY <1>10, <1>12
<1>15. UNCHANGED <<stored, inUse, reader>>
  BY <1>2
<1> HIDE DEF k, row
<1> QED BY <1>11, <1>13, <1>14, <1>15, TransactionStep

(* The transaction of uploadPart replaces a part of an upload that is in   *)
(* progress, whose parts no object has.                                    *)
LEMMA CommitPartStep ==
    ASSUME IInv, TypeOK', NEW b \in Blobs, CommitPart(b)
    PROVE  IInv'
<1> DEFINE i == intent[b]
           gone == SamePart(i.upload, i.part)
           row == [upload |-> i.upload, part |-> i.part, blob |-> b,
                   size |-> i.size, object |-> NoKey]
<1>1. /\ uploads[i.upload].state = "inProgress"
      /\ parts' = (parts \ gone) \cup {row}
      /\ life' = [BackgroundDelete(BlobsOf(gone)) EXCEPT ![b] = "committed"]
      /\ UNCHANGED <<objects, uploads, stored, inUse, reader>>
      /\ life[b] = "uploaded"
  BY DEF CommitPart, Written, InProgress
<1>2. /\ row.upload = i.upload
      /\ row.blob = b
      /\ row.object = NoKey
  OBVIOUS
<1>3. ~ Referenced(b)
  BY <1>1 DEF IInv, BlobsInv, LifeMatchesTables
<1>4. gone \subseteq parts /\ \A p \in gone : p.upload = i.upload
  BY DEF SamePart, PartsOf
<1>5. \A p \in gone : p.object = NoKey
  BY <1>1, <1>4 DEF IInv, TablesInv, UploadsAndPartsAgree
<1> HIDE DEF gone, row
<1>6. \A c : ObjectReferences(c)' <=> ObjectReferences(c)
  BY <1>1 DEF ObjectReferences
<1>7. ASSUME NEW c \in Blobs
      PROVE  PartReferences(c)' <=> c = b \/ (PartReferences(c) /\ c \notin BlobsOf(gone))
  BY <1>1, <1>2, <1>4
  DEF PartReferences, BlobsOf, IInv, TablesInv, NoSharedBlobs
<1>8. NoSharedBlobs'
  <2> SUFFICES ASSUME NEW c \in Blobs
               PROVE  /\ \A p, q \in parts' : p.blob = c /\ q.blob = c => p = q
                      /\ \A l, m \in Keys :
                           /\ objects'[l].kind = "single" /\ c \in objects'[l].etag
                           /\ objects'[m].kind = "single" /\ c \in objects'[m].etag
                           => l = m
                      /\ ~ (ObjectReferences(c)' /\ PartReferences(c)')
    BY DEF NoSharedBlobs
  <2>1. c = b => ~ ObjectReferences(c) /\ \A p \in parts : p.blob # c
    BY <1>3 DEF Referenced, PartReferences
  <2>2. \A p, q \in parts' : p.blob = c /\ q.blob = c => p = q
    BY <1>1, <1>2, <2>1 DEF IInv, TablesInv, NoSharedBlobs
  <2>3. ~ (ObjectReferences(c)' /\ PartReferences(c)')
    BY <1>6, <1>7, <2>1 DEF IInv, TablesInv, NoSharedBlobs
  <2> QED BY <1>1, <2>2, <2>3 DEF IInv, TablesInv, NoSharedBlobs
<1>9. ObjectsIntact'
  <2>1. \A l \in Keys : LinkedTo(l)' = LinkedTo(l)
    BY <1>1, <1>2, <1>5, KeyAssumption DEF LinkedTo
  <2> QED BY <1>1, <2>1 DEF ObjectsIntact, BlobsOf, IInv, TablesInv
<1>10. UploadsAndPartsAgree'
  BY <1>1, <1>2 DEF UploadsAndPartsAgree, IInv, TablesInv
<1>11. TablesInv'
  BY <1>8, <1>9, <1>10 DEF TablesInv
<1>12. ASSUME NEW c \in Blobs
       PROVE  Referenced(c)' <=> c = b \/ (Referenced(c) /\ c \notin BlobsOf(gone))
  <2>1. c \in BlobsOf(gone) => PartReferences(c)
    BY <1>4 DEF BlobsOf, PartReferences
  <2> QED
    BY <1>6, <1>7, <2>1 DEF Referenced, IInv, TablesInv, NoSharedBlobs
<1>13. \A c \in Blobs \cap BlobsOf(gone) : life[c] = "committed"
  BY <1>4 DEF BlobsOf, Referenced, PartReferences, IInv, BlobsInv, LifeMatchesTables
<1>14. PICK new, old : new = {b} /\ old = BlobsOf(gone)
  OBVIOUS
<1>15. /\ \A c \in Blobs \cap new : life[c] = "uploaded"
       /\ \A c \in Blobs \cap old : life[c] = "committed"
       /\ \A c \in Blobs : Referenced(c)' <=> c \in new \/ (Referenced(c) /\ c \notin old)
  BY <1>1, <1>12, <1>13, <1>14
<1>16. \A c \in Blobs : life'[c] = IF c \in new THEN "committed"
                                   ELSE BackgroundDelete(old)[c]
  BY <1>1, <1>14 DEF BackgroundDelete
<1>17. UNCHANGED <<stored, inUse, reader>>
  BY <1>1
<1> QED BY <1>11, <1>15, <1>16, <1>17, TransactionStep

(* A delete removes the objects of its keys with all that belongs to them. *)
LEMMA DeleteStep ==
    ASSUME IInv, TypeOK', NEW ks \in SUBSET Keys, Delete(ks)
    PROVE  IInv'
<1> DEFINE gone == UNION {OldBlobs(k) : k \in ks}
<1>1. /\ \A l \in Keys : objects'[l] = IF l \in ks THEN Absent ELSE objects[l]
      /\ parts' = parts \ UNION {PartsDroppedWith(k) : k \in ks}
      /\ life' = BackgroundDelete(gone)
      /\ UNCHANGED <<uploads, stored, inUse, reader>>
  BY DEF Delete
<1>2. \A p : p \in parts' <=> p \in parts /\ p.object \notin ks
  BY <1>1, AllLinkedPartsDrop DEF LinkedTo, IInv, TablesInv
<1>3. \A c : c \in gone <=> \E k \in ks : c \in OldBlobs(k)
  OBVIOUS
<1> HIDE DEF gone
<1>4. ObjectsIntact'
  <2> SUFFICES ASSUME NEW l \in Keys
               PROVE  BlobsOf(LinkedTo(l))' =
                        IF objects'[l].kind = "multipart" THEN objects'[l].etag ELSE {}
    BY DEF ObjectsIntact
  <2>1. CASE l \in ks
    <3>1. LinkedTo(l)' = {}
      BY <1>2, <2>1 DEF LinkedTo
    <3> QED BY <1>1, <2>1, <3>1 DEF BlobsOf, Absent
  <2>2. CASE l \notin ks
    <3>1. LinkedTo(l)' = LinkedTo(l)
      BY <1>2, <2>2 DEF LinkedTo
    <3> QED BY <1>1, <2>2, <3>1 DEF BlobsOf, IInv, TablesInv, ObjectsIntact
  <2> QED BY <2>1, <2>2
<1>5. UploadsAndPartsAgree'
  BY <1>1, <1>2 DEF UploadsAndPartsAgree, IInv, TablesInv
<1>6. ASSUME NEW c \in Blobs
      PROVE  ObjectReferences(c)' <=> \E l \in Keys \ ks :
                objects[l].kind = "single" /\ c \in objects[l].etag
  BY <1>1 DEF ObjectReferences, Absent
<1>7. ASSUME NEW c \in Blobs
      PROVE  PartReferences(c)' <=> \E p \in parts : p.object \notin ks /\ p.blob = c
  BY <1>2 DEF PartReferences
<1>8. NoSharedBlobs'
  <2> SUFFICES ASSUME NEW c \in Blobs
               PROVE  /\ \A p, q \in parts' : p.blob = c /\ q.blob = c => p = q
                      /\ \A l, m \in Keys :
                           /\ objects'[l].kind = "single" /\ c \in objects'[l].etag
                           /\ objects'[m].kind = "single" /\ c \in objects'[m].etag
                           => l = m
                      /\ ~ (ObjectReferences(c)' /\ PartReferences(c)')
    BY DEF NoSharedBlobs
  <2>1. \A p, q \in parts' : p.blob = c /\ q.blob = c => p = q
    BY <1>2 DEF IInv, TablesInv, NoSharedBlobs
  <2>2. \A l \in Keys : objects'[l].kind = "single" /\ c \in objects'[l].etag
          => objects[l].kind = "single" /\ c \in objects[l].etag
    BY <1>1 DEF Absent
  <2>3. ~ (ObjectReferences(c)' /\ PartReferences(c)')
    BY <1>6, <1>7
    DEF ObjectReferences, PartReferences, IInv, TablesInv, NoSharedBlobs
  <2> QED BY <2>1, <2>2, <2>3 DEF IInv, TablesInv, NoSharedBlobs
<1>9. TablesInv'
  BY <1>4, <1>5, <1>8 DEF TablesInv
<1>10. \A c : c \in gone <=>
         \/ \E l \in ks : objects[l].kind = "single" /\ c \in objects[l].etag
         \/ \E p \in parts : p.object \in ks /\ p.blob = c
  <2>1. ASSUME NEW l \in ks, objects[l].kind = "single"
        PROVE  OldBlobs(l) = objects[l].etag /\ LinkedTo(l) = {}
    BY <2>1, AllLinkedPartsDrop DEF OldBlobs, PartsDroppedWith, IInv, TablesInv
  <2>2. ASSUME NEW l \in ks, objects[l].kind # "single"
        PROVE  OldBlobs(l) = BlobsOf(LinkedTo(l))
    BY <2>2, AllLinkedPartsDrop DEF OldBlobs, IInv, TablesInv
  <2>3. \A l \in ks : \A c : c \in OldBlobs(l) <=>
          \/ objects[l].kind = "single" /\ c \in objects[l].etag
          \/ \E p \in parts : p.object = l /\ p.blob = c
    BY <2>1, <2>2 DEF BlobsOf, LinkedTo
  <2> QED BY <1>3, <2>3
<1>11. ASSUME NEW c \in Blobs
       PROVE  Referenced(c)' <=> Referenced(c) /\ c \notin gone
  <2>1. PartReferences(c) /\ c \notin gone => PartReferences(c)'
    BY <1>7, <1>10 DEF PartReferences
  <2>2. ObjectReferences(c) /\ c \notin gone => ObjectReferences(c)'
    BY <1>6, <1>10 DEF ObjectReferences
  <2>3. ObjectReferences(c)' => ObjectReferences(c) /\ c \notin gone
    <3>1. SUFFICES ASSUME NEW l \in Keys \ ks,
                          objects[l].kind = "single", c \in objects[l].etag
                   PROVE  ObjectReferences(c) /\ c \notin gone
      BY <1>6
    <3>2. ObjectReferences(c)
      BY <3>1 DEF ObjectReferences
    <3>3. ~ PartReferences(c)
      BY <3>2 DEF IInv, TablesInv, NoSharedBlobs
    <3>4. \A m \in ks : ~ (objects[m].kind = "single" /\ c \in objects[m].etag)
      BY <3>1 DEF IInv, TablesInv, NoSharedBlobs
    <3> QED BY <1>10, <3>2, <3>3, <3>4 DEF PartReferences
  <2>4. PartReferences(c)' => PartReferences(c) /\ c \notin gone
    <3>1. SUFFICES ASSUME NEW p \in parts, p.object \notin ks, p.blob = c
                   PROVE  PartReferences(c) /\ c \notin gone
      BY <1>7
    <3>2. PartReferences(c)
      BY <3>1 DEF PartReferences
    <3>3. ~ ObjectReferences(c)
      BY <3>2 DEF IInv, TablesInv, NoSharedBlobs
    <3>4. \A q \in parts : q.blob = c => q.object \notin ks
      BY <3>1 DEF IInv, TablesInv, NoSharedBlobs
    <3> QED BY <1>10, <3>2, <3>3, <3>4 DEF ObjectReferences
  <2> QED BY <2>1, <2>2, <2>3, <2>4 DEF Referenced
<1>12. \A c \in Blobs \cap gone : life[c] = "committed"
  BY <1>3, OldBlobsAreCommitted
<1>13. PICK new, old : new = {} /\ old = gone
  OBVIOUS
<1>14. /\ \A c \in Blobs \cap new : life[c] = "uploaded"
       /\ \A c \in Blobs \cap old : life[c] = "committed"
       /\ \A c \in Blobs : Referenced(c)' <=> c \in new \/ (Referenced(c) /\ c \notin old)
  BY <1>11, <1>12, <1>13
<1>15. \A c \in Blobs : life'[c] = IF c \in new THEN "committed"
                                   ELSE BackgroundDelete(old)[c]
  BY <1>1, <1>13
<1>16. UNCHANGED <<stored, inUse, reader>>
  BY <1>1
<1> QED BY <1>9, <1>14, <1>15, <1>16, TransactionStep

(* A new upload has no parts.                                              *)
LEMMA CreateStep ==
    ASSUME IInv, TypeOK', NEW u \in Uploads, NEW k \in Keys,
           CreateMultipartUpload(u, k)
    PROVE  IInv'
<1>1. /\ uploads[u].state = "none"
      /\ \A v \in Uploads \ {u} : uploads'[v] = uploads[v]
      /\ UNCHANGED <<objects, parts, stored, life, inUse, reader>>
  BY DEF CreateMultipartUpload, NoUpload
<1>2. \A p \in parts : p.upload \in Uploads
  BY DEF IInv, TypeOK, PartRow
<1>3. UploadsAndPartsAgree'
  BY <1>1, <1>2 DEF UploadsAndPartsAgree, IInv, TablesInv
<1>4. /\ NoSharedBlobs' /\ ObjectsIntact'
      /\ \A b : Referenced(b)' <=> Referenced(b)
  BY <1>1 DEF IInv, TablesInv, NoSharedBlobs, ObjectsIntact, Referenced,
              ObjectReferences, PartReferences, LinkedTo, BlobsOf
<1>5. BlobsInv'
  BY <1>1, <1>4
  DEF IInv, BlobsInv, LifeMatchesTables, KeptBlobsAreStored, WaitingBlobsAreInUse
<1>6. ReadersInv'
  BY <1>1, IdleReaders DEF IInv
<1> QED BY <1>3, <1>4, <1>5, <1>6 DEF IInv, TablesInv

(* The parts of an upload that is in progress are linked to no object.     *)
LEMMA PartsInProgress ==
    ASSUME IInv, NEW u \in Uploads, NotFinalised(u), NEW p \in PartsOf(u)
    PROVE  p.upload = u /\ p.object = NoKey /\ p \in parts
BY DEF PartsOf, NotFinalised, IInv, TablesInv, UploadsAndPartsAgree

(* Aborting an upload drops its parts, which no object has.                *)
LEMMA AbortStep ==
    ASSUME IInv, TypeOK', NEW u \in Uploads, AbortMultipartUpload(u)
    PROVE  IInv'
<1> DEFINE gone == BlobsOf(PartsOf(u))
<1>1. /\ NotFinalised(u)
      /\ parts' = parts \ PartsOf(u)
      /\ \A v \in Uploads \ {u} : uploads'[v] = uploads[v]
      /\ life' = BackgroundDelete(gone)
      /\ UNCHANGED <<objects, stored, inUse, reader>>
  BY DEF AbortMultipartUpload, IInv, TypeOK
<1>2. \A p : p \in parts' <=> p \in parts /\ p.upload # u
  BY <1>1 DEF PartsOf
<1>3. \A p \in parts : p.upload = u => p.object = NoKey
  BY <1>1, PartsInProgress DEF PartsOf
<1>4. \A c : c \in gone <=> \E p \in parts : p.upload = u /\ p.blob = c
  BY DEF BlobsOf, PartsOf
<1> HIDE DEF gone
<1>5. UploadsAndPartsAgree'
  <2>1. \A p \in parts : p.upload \in Uploads
    BY DEF IInv, TypeOK, PartRow
  <2> QED BY <1>1, <1>2, <2>1 DEF UploadsAndPartsAgree, IInv, TablesInv
<1>6. ObjectsIntact'
  <2>1. \A l \in Keys : LinkedTo(l)' = LinkedTo(l)
    BY <1>2, <1>3, KeyAssumption DEF LinkedTo
  <2> QED BY <1>1, <2>1 DEF ObjectsIntact, BlobsOf, IInv, TablesInv
<1>7. \A c : ObjectReferences(c)' <=> ObjectReferences(c)
  BY <1>1 DEF ObjectReferences
<1>8. ASSUME NEW c \in Blobs
      PROVE  PartReferences(c)' <=> PartReferences(c) /\ c \notin gone
  BY <1>2, <1>4 DEF PartReferences, IInv, TablesInv, NoSharedBlobs
<1>9. NoSharedBlobs'
  BY <1>1, <1>2, <1>7, <1>8 DEF NoSharedBlobs, IInv, TablesInv
<1>10. TablesInv'
  BY <1>5, <1>6, <1>9 DEF TablesInv
<1>11. ASSUME NEW c \in Blobs
       PROVE  /\ Referenced(c)' <=> Referenced(c) /\ c \notin gone
              /\ c \in gone => life[c] = "committed"
  <2>1. c \in gone => PartReferences(c)
    BY <1>4 DEF PartReferences
  <2> QED
    BY <1>7, <1>8, <2>1
    DEF Referenced, IInv, TablesInv, NoSharedBlobs, BlobsInv, LifeMatchesTables
<1>12. PICK new, old : new = {} /\ old = gone
  OBVIOUS
<1>13. /\ \A c \in Blobs \cap new : life[c] = "uploaded"
       /\ \A c \in Blobs \cap old : life[c] = "committed"
       /\ \A c \in Blobs : Referenced(c)' <=> c \in new \/ (Referenced(c) /\ c \notin old)
  BY <1>11, <1>12
<1>14. \A c \in Blobs : life'[c] = IF c \in new THEN "committed"
                                   ELSE BackgroundDelete(old)[c]
  BY <1>1, <1>12
<1>15. UNCHANGED <<stored, inUse, reader>>
  BY <1>1
<1> QED BY <1>10, <1>13, <1>14, <1>15, TransactionStep

(* Completing an upload links the chosen parts and drops the others and    *)
(* the object that was at the key: no blob becomes newly referred to.      *)
LEMMA CompleteStep ==
    ASSUME IInv, TypeOK', NEW u \in Uploads, NEW sel \in Selections,
           CompleteMultipartUpload(u, sel)
    PROVE  IInv'
<1> DEFINE k == uploads[u].key
           chosen == Chosen(u, sel)
           unused == {p \in PartsOf(u) \ chosen : p.object = NoKey}
           gone == OldBlobs(k) \cup BlobsOf(unused)
           link(p) == [p EXCEPT !.object = k]
           row == [kind |-> "multipart", etag |-> BlobsOf(chosen)]
<1>1. NotFinalised(u) /\ k \in Keys
  BY FinalisedType DEF CompleteMultipartUpload, IInv
<1>2. /\ objects'[k] = row
      /\ \A l \in Keys \ {k} : objects'[l] = objects[l]
      /\ uploads'[u] = [key |-> k, state |-> "completed"]
      /\ \A v \in Uploads \ {u} : uploads'[v] = uploads[v]
      /\ life' = BackgroundDelete(gone)
      /\ UNCHANGED <<stored, inUse, reader>>
  <2>1. uploads[u] \in [key : Keys, state : {"inProgress", "completed", "aborted"}]
    BY <1>1 DEF IInv, TypeOK, NotFinalised, UploadRow, NoUpload
  <2> QED BY <1>1, <2>1 DEF CompleteMultipartUpload, IInv, TypeOK
<1>3. chosen \subseteq PartsOf(u)
  BY DEF Chosen, Matches
<1>4. \A p \in PartsOf(u) : p.upload = u /\ p.object = NoKey /\ p \in parts
  BY <1>1, PartsInProgress
<1>5. ASSUME NEW p \in chosen
      PROVE  link(p).blob = p.blob /\ link(p).upload = u /\ link(p).object = k
  <2>1. p \in PartRow /\ p.upload = u
    BY <1>3, <1>4 DEF IInv, TypeOK
  <2> QED BY <1>1, <2>1, LinkedRow
<1>6. \A p : p \in parts' <=>
         \/ p \in parts /\ p.object # k /\ p.upload # u
         \/ \E q \in chosen : p = link(q)
  <2>1. PartsDroppedWith(k) = LinkedTo(k)
    BY <1>1, AllLinkedPartsDrop DEF IInv, TablesInv
  <2>2. unused = PartsOf(u) \ chosen
    BY <1>4
  <2>3. parts' = (parts \ (LinkedTo(k) \cup unused \cup chosen))
                    \cup {link(p) : p \in chosen}
    BY <2>1 DEF CompleteMultipartUpload
  <2> HIDE DEF link, chosen, unused
  <2> QED BY <1>3, <2>2, <2>3 DEF LinkedTo, PartsOf
<1>7. \A c : c \in gone <=>
         \/ objects[k].kind = "single" /\ c \in objects[k].etag
         \/ \E p \in parts : /\ p.object = k \/ (p.upload = u /\ p \notin chosen)
                             /\ p.blob = c
  <2>1. unused = PartsOf(u) \ chosen
    BY <1>4
  <2>2. \A c : c \in BlobsOf(unused) <=>
           \E p \in parts : p.upload = u /\ p \notin chosen /\ p.blob = c
    BY <2>1 DEF BlobsOf, PartsOf
  <2>3. LinkedTo(k) = IF objects[k].kind = "multipart" THEN LinkedTo(k) ELSE {}
    BY <1>1, AllLinkedPartsDrop DEF PartsDroppedWith, IInv, TablesInv
  <2>4. \A c : c \in OldBlobs(k) <=>
           \/ objects[k].kind = "single" /\ c \in objects[k].etag
           \/ \E p \in parts : p.object = k /\ p.blob = c
    <3>1. CASE objects[k].kind = "single"
      <4>1. LinkedTo(k) = {}
        BY <2>3, <3>1
      <4> QED BY <3>1, <4>1 DEF OldBlobs, LinkedTo
    <3>2. CASE objects[k].kind # "single"
      <4>1. OldBlobs(k) = BlobsOf(LinkedTo(k))
        BY <1>1, <3>2, AllLinkedPartsDrop DEF OldBlobs, IInv, TablesInv
      <4> QED BY <3>2, <4>1 DEF BlobsOf, LinkedTo
    <3> QED BY <3>1, <3>2
  <2> QED BY <2>2, <2>4
<1>8. \A p \in chosen : p \in parts /\ p.upload = u /\ p.object = NoKey
  BY <1>3, <1>4
<1>9. \A p \in parts : p.upload = u => p.object = NoKey
  BY <1>4 DEF PartsOf
<1>10. \A c : c \in BlobsOf(chosen) <=> \E p \in chosen : p.blob = c
  BY DEF BlobsOf
<1> HIDE DEF chosen, unused, gone, link
<1>11. \A c : PartReferences(c)' <=>
         \/ \E p \in parts : p.object # k /\ p.upload # u /\ p.blob = c
         \/ \E p \in chosen : p.blob = c
  BY <1>5, <1>6 DEF PartReferences
<1>12. \A c : ObjectReferences(c)' <=> \E l \in Keys \ {k} :
                objects[l].kind = "single" /\ c \in objects[l].etag
  BY <1>1, <1>2 DEF ObjectReferences
<1>13. NoSharedBlobs'
  <2> SUFFICES ASSUME NEW c \in Blobs
               PROVE  /\ \A p, q \in parts' : p.blob = c /\ q.blob = c => p = q
                      /\ \A l, m \in Keys :
                           /\ objects'[l].kind = "single" /\ c \in objects'[l].etag
                           /\ objects'[m].kind = "single" /\ c \in objects'[m].etag
                           => l = m
                      /\ ~ (ObjectReferences(c)' /\ PartReferences(c)')
    BY DEF NoSharedBlobs
  <2>1. \A p, q \in parts : p.blob = c /\ q.blob = c => p = q
    BY DEF IInv, TablesInv, NoSharedBlobs
  <2>2. ASSUME NEW p \in parts', NEW q \in parts', p.blob = c, q.blob = c
        PROVE  p = q
    <3>1. CASE \E x \in chosen, y \in chosen : p = link(x) /\ q = link(y)
      BY <1>5, <1>8, <2>1, <2>2, <3>1
    <3>2. CASE p \in parts /\ p.upload # u /\ \E y \in chosen : q = link(y)
      BY <1>5, <1>8, <2>1, <2>2, <3>2
    <3>3. CASE q \in parts /\ q.upload # u /\ \E x \in chosen : p = link(x)
      BY <1>5, <1>8, <2>1, <2>2, <3>3
    <3>4. CASE p \in parts /\ q \in parts
      BY <2>1, <2>2, <3>4
    <3> QED BY <1>6, <3>1, <3>2, <3>3, <3>4
  <2>3. \A l \in Keys : objects'[l].kind = "single" /\ c \in objects'[l].etag
          => objects[l].kind = "single" /\ c \in objects[l].etag
    BY <1>2
  <2>4. PartReferences(c)' => PartReferences(c)
    BY <1>8, <1>11 DEF PartReferences
  <2>5. ObjectReferences(c)' => ObjectReferences(c)
    BY <1>12 DEF ObjectReferences
  <2> QED BY <2>2, <2>3, <2>4, <2>5 DEF IInv, TablesInv, NoSharedBlobs
<1>14. ObjectsIntact'
  <2> SUFFICES ASSUME NEW l \in Keys
               PROVE  BlobsOf(LinkedTo(l))' =
                        IF objects'[l].kind = "multipart" THEN objects'[l].etag ELSE {}
    BY DEF ObjectsIntact
  <2>1. CASE l = k
    <3>1. \A p : p \in LinkedTo(l)' <=> \E q \in chosen : p = link(q)
      BY <1>5, <1>6, <2>1 DEF LinkedTo
    <3>2. \A c : c \in BlobsOf(LinkedTo(l))' <=> \E q \in chosen : q.blob = c
      BY <1>5, <3>1 DEF BlobsOf
    <3> QED BY <1>2, <1>10, <2>1, <3>2
  <2>2. CASE l # k
    <3>1. LinkedTo(l)' = LinkedTo(l)
      BY <1>5, <1>6, <1>9, <2>2, KeyAssumption DEF LinkedTo
    <3> QED BY <1>2, <2>2, <3>1 DEF BlobsOf, IInv, TablesInv, ObjectsIntact
  <2> QED BY <2>1, <2>2
<1>15. UploadsAndPartsAgree'
  <2> SUFFICES ASSUME NEW p \in parts'
               PROVE  \/ uploads'[p.upload].state = "inProgress" /\ p.object = NoKey
                      \/ /\ uploads'[p.upload].state = "completed"
                         /\ p.object = uploads'[p.upload].key
    BY DEF UploadsAndPartsAgree
  <2>1. CASE p \in parts /\ p.upload # u
    <3>1. p.upload \in Uploads
      BY <2>1 DEF IInv, TypeOK, PartRow
    <3> QED BY <1>2, <2>1, <3>1 DEF IInv, TablesInv, UploadsAndPartsAgree
  <2>2. CASE \E q \in chosen : p = link(q)
    BY <1>2, <1>5, <2>2
  <2> QED BY <1>6, <2>1, <2>2
<1>16. TablesInv'
  BY <1>13, <1>14, <1>15 DEF TablesInv
<1>17. ASSUME NEW c \in Blobs
       PROVE  /\ Referenced(c)' <=> Referenced(c) /\ c \notin gone
              /\ c \in gone => life[c] = "committed"
  <2>1. c \in gone => Referenced(c)
    BY <1>1, <1>7 DEF Referenced, ObjectReferences, PartReferences
  <2>2. PartReferences(c)' => PartReferences(c) /\ c \notin gone
    <3>1. SUFFICES ASSUME NEW p \in parts, p.blob = c,
                          p \in chosen \/ (p.object # k /\ p.upload # u)
                   PROVE  PartReferences(c) /\ c \notin gone
      BY <1>8, <1>11
    <3>2. PartReferences(c) /\ ~ ObjectReferences(c)
      BY <3>1 DEF PartReferences, IInv, TablesInv, NoSharedBlobs
    <3>3. \A q \in parts : q.blob = c => q = p
      BY <3>1 DEF IInv, TablesInv, NoSharedBlobs
    <3>4. p.object # k
      BY <1>1, <1>8, <3>1, KeyAssumption
    <3> QED BY <1>1, <1>7, <3>1, <3>2, <3>3, <3>4 DEF ObjectReferences
  <2>3. ObjectReferences(c)' => ObjectReferences(c) /\ c \notin gone
    <3>1. SUFFICES ASSUME NEW l \in Keys \ {k},
                          objects[l].kind = "single", c \in objects[l].etag
                   PROVE  ObjectReferences(c) /\ c \notin gone
      BY <1>12
    <3>2. ObjectReferences(c) /\ ~ PartReferences(c)
      BY <3>1 DEF ObjectReferences, IInv, TablesInv, NoSharedBlobs
    <3>3. ~ (objects[k].kind = "single" /\ c \in objects[k].etag)
      BY <1>1, <3>1 DEF IInv, TablesInv, NoSharedBlobs
    <3> QED BY <1>7, <3>2, <3>3 DEF PartReferences
  <2>4. PartReferences(c) /\ c \notin gone => PartReferences(c)'
    BY <1>7, <1>11 DEF PartReferences
  <2>5. ObjectReferences(c) /\ c \notin gone => ObjectReferences(c)'
    BY <1>7, <1>12 DEF ObjectReferences
  <2>6. c \in gone => life[c] = "committed"
    BY <2>1 DEF IInv, BlobsInv, LifeMatchesTables
  <2> QED BY <2>2, <2>3, <2>4, <2>5, <2>6 DEF Referenced
<1>18. PICK new, old : new = {} /\ old = gone
  OBVIOUS
<1>19. /\ \A c \in Blobs \cap new : life[c] = "uploaded"
       /\ \A c \in Blobs \cap old : life[c] = "committed"
       /\ \A c \in Blobs : Referenced(c)' <=> c \in new \/ (Referenced(c) /\ c \notin old)
  BY <1>17, <1>18
<1>20. \A c \in Blobs : life'[c] = IF c \in new THEN "committed"
                                   ELSE BackgroundDelete(old)[c]
  BY <1>2, <1>18
<1>21. UNCHANGED <<stored, inUse, reader>>
  BY <1>2
<1> QED BY <1>16, <1>19, <1>20, <1>21, TransactionStep

-----------------------------------------------------------------------------
(* Steps of readers.                                                       *)

(* Readers that start or end no stream leave the wait groups as they are.  *)
LEMMA QuietReaderStep ==
    ASSUME IInv, TypeOK', NEW r \in Readers,
           \A s \in Readers \ {r} : reader'[s] = reader[s],
           Streaming(r)' <=> Streaming(r),
           Streaming(r) => reader'[r].need = reader[r].need,
           \A m, n \in reader'[r].need : m.blob = n.blob => m = n,
           UNCHANGED <<objects, uploads, parts, stored, life, inUse>>
    PROVE  IInv'
<1>1. \A s \in Readers : Streaming(s)' <=> Streaming(s)
  BY DEF Streaming
<1>2. \A s \in Readers : \A b : Streaming(s) => (Needs(s, b)' <=> Needs(s, b))
  BY DEF Needs
<1>3. \A b : Holders(b)' = Holders(b)
  BY <1>1, <1>2 DEF Holders
<1>4. WaitGroupsCountReaders'
  BY <1>3 DEF WaitGroupsCountReaders, IInv, ReadersInv
<1>5. NeedsAreDistinct'
  BY DEF NeedsAreDistinct, IInv, ReadersInv
<1>6. HeldBlobsAreLive'
  BY <1>1, <1>2 DEF HeldBlobsAreLive, IInv, ReadersInv
<1>7. TablesInv' /\ \A b : Referenced(b)' <=> Referenced(b)
  BY SameTables DEF IInv, tables
<1>8. BlobsInv'
  BY <1>7
  DEF IInv, BlobsInv, LifeMatchesTables, KeptBlobsAreStored, WaitingBlobsAreInUse
<1> QED BY <1>4, <1>5, <1>6, <1>7, <1>8 DEF IInv, ReadersInv

(* The readers that hold a blob are finitely many.                         *)
LEMMA HoldersFinite ==
    ASSUME NEW b
    PROVE  IsFiniteSet(Holders(b)) /\ Cardinality(Holders(b)) \in Nat
<1>1. Holders(b) \subseteq Readers
  BY DEF Holders
<1> QED BY <1>1, FS_Subset, FS_CardinalityType, ReaderAssumption

(* A multipart read adds its reader to those of each blob it will stream,  *)
(* all of which the object refers to.                                      *)
LEMMA GetMultipartStep ==
    ASSUME IInv, TypeOK', NEW r \in Readers, NEW k \in Keys,
           NEW lo \in PartNumbers, NEW hi \in PartNumbers,
           GetMultipart(r, k, lo, hi)
    PROVE  IInv'
<1> DEFINE need == {[part |-> p.part, blob |-> p.blob] :
                       p \in RequiredParts(k, lo, hi)}
           bs == {n.blob : n \in need}
<1>1. /\ ~ Streaming(r)
      /\ reader'[r].phase = "open" /\ reader'[r].need = need
      /\ \A s \in Readers \ {r} : reader'[s] = reader[s]
      /\ \A b \in Blobs : inUse'[b] = IF b \in bs THEN inUse[b] + 1 ELSE inUse[b]
      /\ UNCHANGED <<objects, uploads, parts, stored, life>>
  BY DEF GetMultipart, AcquireBlobs, Streaming, IdleReader, tables, IInv, TypeOK
<1>2. ASSUME NEW m \in need, NEW n \in need, m.blob = n.blob
      PROVE  m = n
  <2>1. PICK p \in parts : m = [part |-> p.part, blob |-> p.blob]
    BY DEF RequiredParts, LinkedTo
  <2>2. PICK q \in parts : n = [part |-> q.part, blob |-> q.blob]
    BY DEF RequiredParts, LinkedTo
  <2>3. p.blob = q.blob /\ p.blob \in Blobs
    BY <1>2, <2>1, <2>2 DEF IInv, TypeOK, PartRow
  <2>4. p = q
    BY <2>3 DEF IInv, TablesInv, NoSharedBlobs
  <2> QED BY <2>1, <2>2, <2>4
<1>3. \A b \in Blobs : b \in bs => life[b] = "committed"
  BY DEF RequiredParts, LinkedTo, Referenced, PartReferences,
         IInv, BlobsInv, LifeMatchesTables
<1>4. \A b : b \in bs <=> \E n \in need : n.blob = b
  OBVIOUS
<1> HIDE DEF need, bs
<1>5. /\ Streaming(r)'
      /\ \A b : Needs(r, b)' <=> b \in bs
      /\ \A s \in Readers \ {r} : Streaming(s)' <=> Streaming(s)
      /\ \A s \in Readers \ {r} : \A b : Needs(s, b)' <=> Needs(s, b)
  BY <1>1, <1>4 DEF Streaming, Needs
<1>6. \A b : Holders(b)' = IF b \in bs THEN Holders(b) \cup {r} ELSE Holders(b)
  BY <1>1, <1>5 DEF Holders
<1>7. \A b : r \notin Holders(b)
  BY <1>1 DEF Holders
<1>8. WaitGroupsCountReaders'
  <2> SUFFICES ASSUME NEW b \in Blobs
               PROVE  inUse'[b] = Cardinality(Holders(b)')
    BY DEF WaitGroupsCountReaders
  <2>1. Cardinality(Holders(b) \cup {r}) = Cardinality(Holders(b)) + 1
    BY <1>7, HoldersFinite, FS_AddElement
  <2> QED BY <1>1, <1>6, <2>1 DEF WaitGroupsCountReaders, IInv, ReadersInv
<1>9. NeedsAreDistinct'
  BY <1>1, <1>2 DEF NeedsAreDistinct, IInv, ReadersInv
<1>10. HeldBlobsAreLive'
  BY <1>1, <1>3, <1>5 DEF HeldBlobsAreLive, IInv, ReadersInv
<1>11. TablesInv' /\ \A b : Referenced(b)' <=> Referenced(b)
  BY <1>1, SameTables DEF IInv, tables
<1>12. LifeMatchesTables' /\ KeptBlobsAreStored'
  BY <1>1, <1>11 DEF IInv, BlobsInv, LifeMatchesTables, KeptBlobsAreStored
<1>13. WaitingBlobsAreInUse'
  BY <1>1 DEF IInv, BlobsInv, WaitingBlobsAreInUse, TypeOK
<1> QED BY <1>8, <1>9, <1>10, <1>11, <1>12, <1>13 DEF IInv, BlobsInv, ReadersInv

(* A reader that is done with some of its blobs releases them: a delete    *)
(* that awaited it goes on only if no other reader holds the blob.         *)
LEMMA ReleaseStep ==
    ASSUME IInv, TypeOK', NEW r \in Readers, NEW done \in SUBSET reader[r].need,
           Streaming(r),
           \A s \in Readers \ {r} : reader'[s] = reader[s],
           reader'[r].need = reader[r].need \ done,
           Streaming(r)' \/ reader'[r].need = {},
           ReleaseBlobs({n.blob : n \in done}),
           UNCHANGED <<objects, uploads, parts, stored>>
    PROVE  IInv'
<1> DEFINE bs == {n.blob : n \in done}
<1>1. /\ \A b \in Blobs : inUse'[b] = IF b \in bs /\ inUse[b] > 0
                                      THEN inUse[b] - 1 ELSE inUse[b]
      /\ \A b \in Blobs : life'[b] =
            IF b \in bs /\ inUse[b] = 1 /\ life[b] = "waiting"
            THEN "issued" ELSE life[b]
  BY DEF ReleaseBlobs
<1>2. \A b : b \in bs <=> \E n \in done : n.blob = b
  OBVIOUS
<1> HIDE DEF bs
<1>3. \A m, n \in reader[r].need : m.blob = n.blob => m = n
  BY DEF IInv, ReadersInv, NeedsAreDistinct
<1>4. \A b : Streaming(r)' /\ Needs(r, b)' <=> Needs(r, b) /\ b \notin bs
  BY <1>2, <1>3 DEF Needs
<1>5. \A s \in Readers \ {r} : /\ Streaming(s)' <=> Streaming(s)
                               /\ \A b : Needs(s, b)' <=> Needs(s, b)
  BY DEF Streaming, Needs
<1>6. \A b : Holders(b)' = IF b \in bs THEN Holders(b) \ {r} ELSE Holders(b)
  BY <1>4, <1>5 DEF Holders
<1>7. \A b \in bs : r \in Holders(b)
  BY <1>2 DEF Holders, Needs
<1>8. ASSUME NEW b \in Blobs, b \in bs
      PROVE  /\ inUse[b] > 0
             /\ Cardinality(Holders(b) \ {r}) = inUse[b] - 1
  <2>1. inUse[b] = Cardinality(Holders(b))
    BY DEF WaitGroupsCountReaders, IInv, ReadersInv
  <2>2. inUse[b] # 0
    BY <1>2, <1>8, HeldInUse DEF Needs, IInv, ReadersInv
  <2>3. Cardinality(Holders(b) \ {r}) = Cardinality(Holders(b)) - 1
    BY <1>7, <1>8, HoldersFinite, FS_RemoveElement
  <2> QED BY <2>1, <2>2, <2>3 DEF IInv, TypeOK
<1>9. WaitGroupsCountReaders'
  <2> SUFFICES ASSUME NEW b \in Blobs
               PROVE  inUse'[b] = Cardinality(Holders(b)')
    BY DEF WaitGroupsCountReaders
  <2> QED BY <1>1, <1>6, <1>8 DEF WaitGroupsCountReaders, IInv, ReadersInv
<1>10. NeedsAreDistinct'
  BY <1>3 DEF NeedsAreDistinct, IInv, ReadersInv
<1>11. HeldBlobsAreLive'
  <2> SUFFICES ASSUME NEW s \in Readers, NEW b \in Blobs,
                      Streaming(s)', Needs(s, b)'
               PROVE  life'[b] \in {"committed", "waiting"}
    BY DEF HeldBlobsAreLive
  <2>1. Streaming(s) /\ Needs(s, b)
    BY <1>4, <1>5
  <2>2. life[b] \in {"committed", "waiting"}
    BY <2>1 DEF HeldBlobsAreLive, IInv, ReadersInv
  <2>3. ASSUME b \in bs, inUse[b] = 1
        PROVE  FALSE
    <3>1. s \in Holders(b) \ {r}
      BY <1>4, <2>1, <2>3 DEF Holders
    <3>2. Cardinality(Holders(b) \ {r}) = 0
      BY <1>8, <2>3
    <3>3. IsFiniteSet(Holders(b) \ {r})
      BY HoldersFinite, FS_Subset
    <3> QED BY <3>1, <3>2, <3>3, FS_EmptySet
  <2> QED BY <1>1, <2>2, <2>3
<1>12. TablesInv' /\ \A b : Referenced(b)' <=> Referenced(b)
  BY SameTables DEF IInv, tables
<1>13. LifeMatchesTables' /\ KeptBlobsAreStored'
  BY <1>1, <1>12 DEF IInv, BlobsInv, LifeMatchesTables, KeptBlobsAreStored
<1>14. WaitingBlobsAreInUse'
  <2> SUFFICES ASSUME NEW b \in Blobs, life'[b] = "waiting"
               PROVE  inUse'[b] > 0
    BY DEF WaitingBlobsAreInUse
  <2>1. inUse[b] \in Nat /\ inUse[b] > 0
    BY <1>1 DEF IInv, TypeOK, BlobsInv, WaitingBlobsAreInUse
  <2> QED BY <1>1, <2>1
<1> QED BY <1>9, <1>10, <1>11, <1>12, <1>13, <1>14 DEF IInv, BlobsInv, ReadersInv

(* A restart forgets readers and deletes; what the tables refer to stays.  *)
LEMMA RestartStep ==
    ASSUME IInv, TypeOK', Restart
    PROVE  IInv'
<1>1. /\ \A r \in Readers : reader'[r] = IdleReader
      /\ \A b \in Blobs : inUse'[b] = 0
      /\ \A b \in Blobs : life'[b] = IF life[b] \in InFlight THEN "leaked" ELSE life[b]
      /\ UNCHANGED tables
  BY DEF Restart
<1>2. \A b \in stored : life[b] = "committed" => b \in stored'
  BY DEF Restart, StoresAfterCrash
<1>3. TablesInv' /\ \A b : Referenced(b)' <=> Referenced(b)
  BY <1>1, SameTables DEF IInv
<1>4. BlobsInv'
  BY <1>1, <1>2, <1>3
  DEF IInv, BlobsInv, LifeMatchesTables, KeptBlobsAreStored, WaitingBlobsAreInUse,
      InFlight
<1>5. \A r \in Readers : ~ Streaming(r)' /\ reader'[r].need = {}
  BY <1>1 DEF Streaming, IdleReader
<1>6. \A b : Holders(b)' = {}
  BY <1>5 DEF Holders
<1>7. WaitGroupsCountReaders'
  BY <1>1, <1>6, FS_EmptySet DEF WaitGroupsCountReaders
<1>8. NeedsAreDistinct' /\ HeldBlobsAreLive'
  BY <1>5 DEF NeedsAreDistinct, HeldBlobsAreLive
<1> QED BY <1>3, <1>4, <1>7, <1>8 DEF IInv, ReadersInv

-----------------------------------------------------------------------------
(* The invariant.                                                          *)

(* The empty bucket satisfies the invariant.                               *)
THEOREM InitInv == Init => IInv
<1> SUFFICES ASSUME Init PROVE IInv
  OBVIOUS
<1>1. TypeOK
  BY InitType
<1>2. TablesInv
  BY DEF Init, Absent, TablesInv, NoSharedBlobs, ObjectsIntact, UploadsAndPartsAgree,
         ObjectReferences, PartReferences, BlobsOf, LinkedTo
<1>3. BlobsInv
  BY DEF Init, Absent, BlobsInv, LifeMatchesTables, KeptBlobsAreStored,
         WaitingBlobsAreInUse, Referenced, ObjectReferences, PartReferences
<1>4. \A b : Holders(b) = {}
  BY DEF Init, Holders, Streaming, IdleReader
<1>5. ReadersInv
  BY <1>4, FS_EmptySet
  DEF Init, IdleReader, Streaming, ReadersInv, WaitGroupsCountReaders, NeedsAreDistinct,
      HeldBlobsAreLive
<1> QED BY <1>1, <1>2, <1>3, <1>5 DEF IInv

(* Every step keeps the invariant.                                         *)
THEOREM NextInv == IInv /\ [Next]_vars => IInv'
<1> SUFFICES ASSUME IInv, [Next]_vars PROVE IInv'
  OBVIOUS
<1>0. TypeOK'
  BY NextType DEF IInv
<1> USE <1>0
<1>1. ASSUME NEW b \in Blobs, NEW k \in Keys, NEW c \in Conditions(k),
             StartPut(b, k, c)
      PROVE  IInv'
  BY <1>1, UnreferencedBlobSteps DEF StartPut, Fresh, tables, IInv, TypeOK
<1>2. ASSUME NEW b \in Blobs, NEW k \in Keys, NEW u \in Uploads,
             NEW n \in PartNumbers, NEW s \in Sizes,
             StartUploadPart(b, k, u, n, s)
      PROVE  IInv'
  BY <1>2, UnreferencedBlobSteps DEF StartUploadPart, Fresh, tables, IInv, TypeOK
<1>3. ASSUME NEW b \in Blobs, BlobStored(b) PROVE IInv'
  BY <1>3, UnreferencedBlobSteps DEF BlobStored, tables, IInv, TypeOK
<1>4. ASSUME NEW b \in Blobs, BlobPutRejected(b) PROVE IInv'
  BY <1>4, UnreferencedBlobSteps DEF BlobPutRejected, tables, IInv, TypeOK
<1>5. ASSUME NEW b \in Blobs, CommitPut(b) PROVE IInv'
  BY <1>5, CommitPutStep
<1>6. ASSUME NEW b \in Blobs, FailCondition(b) PROVE IInv'
  BY <1>6, FailedHandlerStep DEF FailCondition, Written, tables
<1>7. ASSUME NEW b \in Blobs, RefusePut(b) PROVE IInv'
  BY <1>7, UnreferencedBlobSteps DEF RefusePut, Written, tables, IInv, TypeOK
<1>8. ASSUME NEW b \in Blobs, CommitPart(b) PROVE IInv'
  BY <1>8, CommitPartStep
<1>9. ASSUME NEW b \in Blobs, FailPart(b) PROVE IInv'
  BY <1>9, FailedHandlerStep DEF FailPart, Written, tables
<1>10. ASSUME NEW b \in Blobs, BlobDeleted(b) PROVE IInv'
  BY <1>10, UnreferencedBlobSteps
  DEF BlobDeleted, StoreAfterDelete, tables, IInv, TypeOK
<1>11. ASSUME NEW b \in Blobs, BlobDeleteFailed(b) PROVE IInv'
  BY <1>11, UnreferencedBlobSteps DEF BlobDeleteFailed, tables, IInv, TypeOK
<1>12. ASSUME NEW ks \in SUBSET Keys, Delete(ks) PROVE IInv'
  BY <1>12, DeleteStep
<1>13. ASSUME NEW u \in Uploads, NEW k \in Keys, CreateMultipartUpload(u, k)
       PROVE  IInv'
  BY <1>13, CreateStep
<1>14. ASSUME NEW u \in Uploads, AbortMultipartUpload(u) PROVE IInv'
  BY <1>14, AbortStep
<1>15. ASSUME NEW u \in Uploads, NEW sel \in Selections,
              CompleteMultipartUpload(u, sel)
       PROVE  IInv'
  BY <1>15, CompleteStep
<1>16. ASSUME NEW r \in Readers, NEW k \in Keys, GetSingle(r, k) PROVE IInv'
  <2>1. /\ ~ Streaming(r) /\ ~ Streaming(r)'
        /\ \A s \in Readers \ {r} : reader'[s] = reader[s]
        /\ reader'[r].need = {[part |-> 0, blob |-> b] : b \in objects[k].etag}
        /\ UNCHANGED <<objects, uploads, parts, stored, life, inUse>>
    BY <1>16 DEF GetSingle, Streaming, IdleReader, tables, IInv, TypeOK
  <2>2. \A m, n \in reader'[r].need : m.blob = n.blob => m = n
    BY <2>1
  <2> QED BY <2>1, <2>2, QuietReaderStep
<1>17. ASSUME NEW r \in Readers, SingleAnswered(r) PROVE IInv'
  BY <1>17, QuietReaderStep
  DEF SingleAnswered, Streaming, IdleReader, tables, IInv, TypeOK
<1>18. ASSUME NEW r \in Readers, NEW k \in Keys,
              NEW lo \in PartNumbers, NEW hi \in PartNumbers,
              GetMultipart(r, k, lo, hi)
       PROVE  IInv'
  BY <1>18, GetMultipartStep
<1>19. ASSUME NEW r \in Readers, OpenPart(r) PROVE IInv'
  <2>1. reader[r] \in ReaderState
    BY DEF IInv, TypeOK
  <2>2. /\ Streaming(r) /\ Streaming(r)'
        /\ \A s \in Readers \ {r} : reader'[s] = reader[s]
        /\ reader'[r].need = reader[r].need
        /\ UNCHANGED <<objects, uploads, parts, stored, life, inUse>>
    BY <1>19, <2>1 DEF OpenPart, Streaming, ReaderState, tables, IInv, TypeOK
  <2>3. \A m, n \in reader'[r].need : m.blob = n.blob => m = n
    BY <2>2 DEF IInv, ReadersInv, NeedsAreDistinct
  <2> QED BY <2>2, <2>3, QuietReaderStep
<1>20. ASSUME NEW r \in Readers, PartPiped(r) PROVE IInv'
  <2>1. /\ Streaming(r)
        /\ NextPart(r) \in SUBSET reader[r].need
        /\ \A s \in Readers \ {r} : reader'[s] = reader[s]
        /\ reader'[r].need = reader[r].need \ NextPart(r)
        /\ Streaming(r)' \/ reader'[r].need = {}
        /\ ReleaseBlobs({n.blob : n \in NextPart(r)})
        /\ UNCHANGED <<objects, uploads, parts, stored>>
    BY <1>20 DEF PartPiped, NextPart, Streaming, IdleReader, tables, IInv, TypeOK
  <2> QED BY <2>1, ReleaseStep
<1>21. ASSUME NEW r \in Readers, StreamAborted(r) PROVE IInv'
  <2>1. /\ Streaming(r)
        /\ \A s \in Readers \ {r} : reader'[s] = reader[s]
        /\ reader'[r].need = {}
        /\ ReleaseBlobs({n.blob : n \in reader[r].need})
        /\ UNCHANGED <<objects, uploads, parts, stored>>
    BY <1>21 DEF StreamAborted, BlobsHeld, IdleReader, tables, IInv, TypeOK
  <2>2. PICK done \in SUBSET reader[r].need : done = reader[r].need
    OBVIOUS
  <2> QED BY <2>1, <2>2, ReleaseStep
<1>22. CASE Restart
  BY <1>22, RestartStep
<1>23. CASE UNCHANGED vars
  <2>1. TablesInv' /\ \A b : Referenced(b)' <=> Referenced(b)
    BY <1>23, SameTables DEF vars, IInv, tables
  <2>2. BlobsInv'
    BY <1>23, <2>1
    DEF vars, IInv, BlobsInv, LifeMatchesTables, KeptBlobsAreStored,
        WaitingBlobsAreInUse
  <2>3. ReadersInv'
    BY <1>23, IdleReaders DEF vars, IInv
  <2> QED BY <2>1, <2>2, <2>3 DEF IInv
<1> QED
  BY <1>1, <1>2, <1>3, <1>4, <1>5, <1>6, <1>7, <1>8, <1>9, <1>10, <1>11, <1>12,
     <1>13, <1>14, <1>15, <1>16, <1>17, <1>18, <1>19, <1>20, <1>21, <1>22, <1>23
  DEF Next

(* The inductive invariant holds in every reachable state.                 *)
THEOREM InvCorrect == Spec => []IInv
BY InitInv, NextInv, PTL DEF Spec

-----------------------------------------------------------------------------
(* What a client of the bucket relies on.                                  *)

(* No row ever names a blob that is gone or about to go.                   *)
THEOREM ReferencedBlobsCorrect == Spec => []ReferencedBlobsSurvive
<1>1. IInv => ReferencedBlobsSurvive
  BY DEF IInv, BlobsInv, LifeMatchesTables, KeptBlobsAreStored, ReferencedBlobsSurvive
<1> QED BY <1>1, InvCorrect, PTL

(* No delete takes a blob from a stream that has still to send it.         *)
THEOREM StreamedBlobsCorrect == Spec => []StreamedBlobsSurvive
<1>1. IInv => StreamedBlobsSurvive
  <2> SUFFICES ASSUME IInv, NEW r \in Readers, Streaming(r), NEW n \in reader[r].need
               PROVE  n.blob \in stored
    BY DEF StreamedBlobsSurvive
  <2>1. n.blob \in Blobs
    BY DEF IInv, TypeOK, ReaderState, Needed
  <2>2. life[n.blob] \in {"committed", "waiting"}
    BY <2>1 DEF Needs, IInv, ReadersInv, HeldBlobsAreLive
  <2> QED BY <2>1, <2>2 DEF IInv, BlobsInv, KeptBlobsAreStored
<1> QED BY <1>1, InvCorrect, PTL

(* A blob has one row: no delete of a row's blobs takes another's.         *)
THEOREM OneRowPerBlob == Spec => []NoSharedBlobs
<1>1. IInv => NoSharedBlobs
  BY DEF IInv, TablesInv
<1> QED BY <1>1, InvCorrect, PTL

(* An object has exactly the parts it was completed with.                  *)
THEOREM ObjectsCorrect == Spec => []ObjectsIntact
<1>1. IInv => ObjectsIntact
  BY DEF IInv, TablesInv
<1> QED BY <1>1, InvCorrect, PTL

(* The states of uploads and the links of their parts agree.               *)
THEOREM UploadsCorrect == Spec => []UploadsAndPartsAgree
<1>1. IInv => UploadsAndPartsAgree
  BY DEF IInv, TablesInv
<1> QED BY <1>1, InvCorrect, PTL

(* The wait group of a blob counts the readers that stream it.             *)
THEOREM WaitGroupsCorrect == Spec => []WaitGroupsCountReaders
<1>1. IInv => WaitGroupsCountReaders
  BY DEF IInv, ReadersInv
<1> QED BY <1>1, InvCorrect, PTL

-----------------------------------------------------------------------------
(* What a step does to rows, parts and blobs, and the properties of        *)
(* conditional puts, uploads in progress, finalised uploads and the        *)
(* contents of the store that follow.                                      *)

(* An object is left, removed, put by the handler of a written blob whose  *)
(* condition holds of the present row, or completed from parts.            *)
ObjectEffect(k) ==
    \/ objects'[k] = objects[k]
    \/ objects'[k] = Absent
    \/ \E b \in Blobs : /\ objects'[k] = [kind |-> "single", etag |-> {b}]
                        /\ life[b] = "uploaded"
                        /\ ConditionHolds(intent[b].onlyIf, objects[k])
    \/ \E bs \in SUBSET Blobs :
          /\ objects'[k] = [kind |-> "multipart", etag |-> bs]
          /\ \A b \in bs : PartReferences(b)

(* An upload is finalised once.                                            *)
UploadEffect(u) ==
    uploads[u].state \in {"completed", "aborted"} => uploads'[u] = uploads[u]

(* A part goes with the object it is linked to; one that is not linked is  *)
(* replaced, or its upload is finalised.                                   *)
GoneEffect(p) ==
    \/ p.object \in Keys /\ objects'[p.object] # objects[p.object]
    \/ /\ p.object = NoKey
       /\ \/ uploads'[p.upload].state # "inProgress"
          \/ \E q \in parts' : q.upload = p.upload /\ q.part = p.part
                               /\ q.object = NoKey

(* The blob of a part was a part's before or is one just written.          *)
PartEffect(q) == PartReferences(q.blob) \/ life[q.blob] = "uploaded"

TableEffects ==
    /\ \A k \in Keys : ObjectEffect(k)
    /\ \A u \in Uploads : UploadEffect(u)
    /\ \A p \in parts \ parts' : GoneEffect(p)
    /\ \A q \in parts' : PartEffect(q)

(* A blob that was referred to is never new again; only handlers that      *)
(* write it put it in the store; a deleted one stays only where deleted    *)
(* blobs are retained.                                                     *)
LifeEffect(b) ==
    /\ life'[b] \in NeverReferenced => life[b] \in NeverReferenced
    /\ b \in stored' /\ life'[b] \notin {"uploaded", "leaked"} => b \in stored
    /\ life'[b] \in {"unused", "storing"} => life[b] \in {"unused", "storing"}
    /\ life'[b] = "deleted" /\ b \in stored' => life[b] = "deleted" \/ RetainDeleted

(* A handler that goes on has the condition it began with, which named the *)
(* present version of an object.                                           *)
IntentEffect(b) ==
    \/ intent'[b] = intent[b]
    \/ intent'[b].op # "put"
    \/ intent'[b].onlyIf.test # "ifMatch"
    \/ \E k \in Keys : objects[k] # Absent /\ intent'[b].onlyIf.row = objects[k]

BlobEffects == \A b \in Blobs : LifeEffect(b) /\ IntentEffect(b)

(* Steps that write no table.                                              *)
LEMMA SameTablesEffects ==
    ASSUME UNCHANGED tables
    PROVE  TableEffects
BY DEF tables, TableEffects, ObjectEffect, UploadEffect, GoneEffect, PartEffect,
       PartReferences

(* Blobs handed to #backgroundDelete are not new and not yet deleted.      *)
LEMMA BackgroundDeleteEffects ==
    ASSUME TypeOK, NEW bs, NEW b \in Blobs
    PROVE  LET L == BackgroundDelete(bs) IN
           L[b] = life[b] \/ L[b] \in {"waiting", "issued"}
BY DEF BackgroundDelete, DeletePhase

(* A committing or a failing handler ends; other blobs are at most handed  *)
(* to #backgroundDelete.                                                   *)
LEMMA HandlerEffects ==
    ASSUME TypeOK, NEW bs,
           \A b \in Blobs : \/ life'[b] = "committed"
                            \/ life'[b] = BackgroundDelete(bs)[b],
           \A b \in Blobs : intent'[b] = intent[b] \/ intent'[b] = NoRequest,
           stored' = stored
    PROVE  BlobEffects
<1> SUFFICES ASSUME NEW b \in Blobs PROVE LifeEffect(b) /\ IntentEffect(b)
  BY DEF BlobEffects
<1>1. life'[b] = life[b] \/ life'[b] \in {"committed", "waiting", "issued"}
  BY BackgroundDeleteEffects
<1>2. LifeEffect(b)
  BY <1>1 DEF LifeEffect, NeverReferenced
<1>3. IntentEffect(b)
  BY DEF IntentEffect, NoRequest
<1> QED BY <1>2, <1>3

-----------------------------------------------------------------------------
(* The transactions.                                                       *)

LEMMA CommitPutEffects ==
    ASSUME IInv, NEW b \in Blobs, CommitPut(b)
    PROVE  TableEffects
<1> DEFINE k == intent[b].key
           row == [kind |-> "single", etag |-> {b}]
<1>1. k \in Keys
  BY RequestTypes DEF CommitPut, Written, PutRequest, IInv
<1>2. /\ objects' = [objects EXCEPT ![k] = row]
      /\ parts' = parts \ LinkedTo(k)
      /\ uploads' = uploads
      /\ life[b] = "uploaded"
      /\ ConditionHolds(intent[b].onlyIf, objects[k])
  BY <1>1, AllLinkedPartsDrop DEF CommitPut, Written, IInv, TablesInv
<1>3. ASSUME NEW l \in Keys PROVE ObjectEffect(l)
  BY <1>1, <1>2 DEF ObjectEffect, IInv, TypeOK
<1>4. ASSUME NEW p \in parts \ parts' PROVE GoneEffect(p)
  <2>1. p.object = k
    BY <1>2 DEF LinkedTo
  <2>2. objects'[k] = row
    BY <1>1, <1>2 DEF IInv, TypeOK
  <2>3. p.blob \in objects[k].etag /\ objects[k].kind = "multipart"
    BY <1>1, <2>1 DEF IInv, TablesInv, ObjectsIntact, BlobsOf, LinkedTo
  <2> QED BY <1>1, <2>1, <2>2, <2>3 DEF GoneEffect
<1> QED
  BY <1>2, <1>3, <1>4 DEF TableEffects, UploadEffect, PartEffect, PartReferences

LEMMA CommitPartEffects ==
    ASSUME IInv, NEW b \in Blobs, CommitPart(b)
    PROVE  TableEffects
<1> DEFINE i == intent[b]
           new == [upload |-> i.upload, part |-> i.part, blob |-> b,
                   size |-> i.size, object |-> NoKey]
<1>1. /\ InProgress(i.upload, i.key)
      /\ parts' = (parts \ SamePart(i.upload, i.part)) \cup {new}
      /\ UNCHANGED <<objects, uploads>>
      /\ life[b] = "uploaded"
  BY DEF CommitPart, Written
<1>2. ASSUME NEW p \in parts \ parts' PROVE GoneEffect(p)
  <2>1. p.upload = i.upload /\ p.part = i.part
    BY <1>1 DEF SamePart, PartsOf
  <2>2. p.object = NoKey
    BY <1>1, <2>1 DEF InProgress, IInv, TablesInv, UploadsAndPartsAgree
  <2>3. /\ new \in parts'
        /\ new.upload = p.upload /\ new.part = p.part /\ new.object = NoKey
    BY <1>1, <2>1
  <2> QED BY <2>2, <2>3 DEF GoneEffect
<1>3. ASSUME NEW q \in parts' PROVE PartEffect(q)
  BY <1>1 DEF PartEffect, PartReferences
<1> QED BY <1>1, <1>2, <1>3 DEF TableEffects, ObjectEffect, UploadEffect

LEMMA DeleteEffects ==
    ASSUME IInv, NEW ks \in SUBSET Keys, Delete(ks)
    PROVE  TableEffects
<1>1. ASSUME NEW k \in Keys PROVE ObjectEffect(k)
  BY DEF Delete, ObjectEffect
<1>2. ASSUME NEW p \in parts \ parts' PROVE GoneEffect(p)
  <2>1. PICK k \in ks : p.object = k /\ objects[k].kind = "multipart"
    BY DEF Delete, PartsDroppedWith, LinkedTo
  <2>2. objects'[k] = Absent
    BY <2>1 DEF Delete
  <2> QED BY <2>1, <2>2 DEF GoneEffect, Absent
<1>3. UNCHANGED uploads /\ parts' \subseteq parts
  BY DEF Delete
<1> QED
  BY <1>1, <1>2, <1>3 DEF TableEffects, UploadEffect, PartEffect, PartReferences

LEMMA CreateEffects ==
    ASSUME IInv, NEW u \in Uploads, NEW k \in Keys, CreateMultipartUpload(u, k)
    PROVE  TableEffects
<1>1. ASSUME NEW v \in Uploads PROVE UploadEffect(v)
  BY DEF CreateMultipartUpload, UploadEffect, NoUpload, IInv, TypeOK
<1>2. UNCHANGED <<objects, parts>>
  BY DEF CreateMultipartUpload
<1> QED
  BY <1>1, <1>2 DEF TableEffects, ObjectEffect, GoneEffect, PartEffect, PartReferences

LEMMA AbortEffects ==
    ASSUME IInv, NEW u \in Uploads, AbortMultipartUpload(u)
    PROVE  TableEffects
<1>1. ASSUME NEW v \in Uploads PROVE UploadEffect(v)
  BY DEF AbortMultipartUpload, UploadEffect, NotFinalised, IInv, TypeOK
<1>2. ASSUME NEW p \in parts \ parts' PROVE GoneEffect(p)
  <2>1. p.upload = u /\ uploads[u].state = "inProgress"
    BY DEF AbortMultipartUpload, PartsOf, NotFinalised
  <2>2. p.object = NoKey
    BY <2>1, PartsInProgress DEF IInv, TablesInv, UploadsAndPartsAgree
  <2>3. uploads'[u].state = "aborted"
    BY FinalisedType DEF AbortMultipartUpload, IInv, TypeOK, UploadRow
  <2> QED BY <2>1, <2>2, <2>3 DEF GoneEffect
<1>3. UNCHANGED objects /\ parts' \subseteq parts
  BY DEF AbortMultipartUpload
<1> QED
  BY <1>1, <1>2, <1>3 DEF TableEffects, ObjectEffect, PartEffect, PartReferences

LEMMA CompleteEffects ==
    ASSUME IInv, NEW u \in Uploads, NEW sel \in Selections,
           CompleteMultipartUpload(u, sel)
    PROVE  TableEffects
<1> DEFINE k == uploads[u].key
           chosen == Chosen(u, sel)
           row == [kind |-> "multipart", etag |-> BlobsOf(chosen)]
<1>1. k \in Keys /\ NotFinalised(u)
  BY FinalisedType DEF CompleteMultipartUpload, IInv
<1>2. chosen \subseteq PartsOf(u)
  BY DEF Chosen, Matches
<1>3. objects' = [objects EXCEPT ![k] = row]
  BY DEF CompleteMultipartUpload
<1>4. BlobsOf(chosen) \in SUBSET Blobs /\ \A b \in BlobsOf(chosen) : PartReferences(b)
  BY <1>2 DEF BlobsOf, PartsOf, PartReferences, IInv, TypeOK, PartRow
<1>5. ASSUME NEW l \in Keys PROVE ObjectEffect(l)
  BY <1>1, <1>3, <1>4 DEF ObjectEffect, IInv, TypeOK
<1>6. ASSUME NEW v \in Uploads PROVE UploadEffect(v)
  BY <1>1 DEF CompleteMultipartUpload, UploadEffect, NotFinalised, IInv, TypeOK
<1>7. uploads'[u].state = "completed"
  BY <1>1 DEF CompleteMultipartUpload, IInv, TypeOK, UploadRow, NoUpload
<1>8. ASSUME NEW p \in PartsOf(u) PROVE p \in parts /\ p.object = NoKey
  BY <1>1, PartsInProgress
  DEF PartsOf, NotFinalised, IInv, TablesInv, UploadsAndPartsAgree
<1>9. ASSUME NEW p \in parts \ parts' PROVE GoneEffect(p)
  <2>1. p \in PartsOf(u) \/ p \in LinkedTo(k)
    BY <1>1, <1>2, AllLinkedPartsDrop
    DEF CompleteMultipartUpload, IInv, TablesInv
  <2>2. CASE p \in PartsOf(u)
    BY <2>2, <1>7, <1>8 DEF GoneEffect, PartsOf
  <2>3. CASE p \in LinkedTo(k)
    <3>1. p.object = k /\ p.blob \in objects[k].etag
      BY <1>1, <2>3 DEF LinkedTo, BlobsOf, IInv, TablesInv, ObjectsIntact
    <3>2. p.blob \notin BlobsOf(chosen)
      <4> SUFFICES ASSUME NEW q \in chosen, q.blob = p.blob PROVE FALSE
        BY DEF BlobsOf
      <4>1. q \in parts /\ q.object = NoKey
        BY <1>2, <1>8
      <4>2. p.blob \in Blobs
        BY DEF IInv, TypeOK, PartRow
      <4>3. p = q
        BY <4>1, <4>2 DEF IInv, TablesInv, NoSharedBlobs
      <4> QED BY <4>1, <4>3, <3>1, <1>1, KeyAssumption
    <3>3. objects'[k].etag = BlobsOf(chosen)
      BY <1>1, <1>3 DEF IInv, TypeOK
    <3> QED BY <1>1, <3>1, <3>2, <3>3 DEF GoneEffect
  <2> QED BY <2>1, <2>2, <2>3
<1>10. ASSUME NEW q \in parts' PROVE PartEffect(q)
  <2>1. CASE q \in parts
    BY <2>1 DEF PartEffect, PartReferences
  <2>2. CASE q \notin parts
    <3>1. PICK p \in chosen : q = [p EXCEPT !.object = k]
      BY <2>2 DEF CompleteMultipartUpload
    <3>2. p \in parts /\ p \in PartRow
      BY <1>2, <1>8 DEF IInv, TypeOK
    <3> QED BY <3>1, <3>2, <1>1, LinkedRow DEF PartEffect, PartReferences
  <2> QED BY <2>1, <2>2
<1> QED BY <1>5, <1>6, <1>9, <1>10 DEF TableEffects

-----------------------------------------------------------------------------
(* Every step.                                                             *)

(* Steps that touch no blob.                                               *)
LEMMA SameBlobsEffects ==
    ASSUME UNCHANGED <<stored, life, intent>>
    PROVE  BlobEffects
BY DEF BlobEffects, LifeEffect, IntentEffect

(* Readers that release blobs let the background deletes that await them   *)
(* go on.                                                                  *)
LEMMA ReleaseEffects ==
    ASSUME TypeOK, NEW bs, ReleaseBlobs(bs), UNCHANGED <<stored, intent>>
    PROVE  BlobEffects
<1>1. \A b \in Blobs : life'[b] = life[b] \/ life'[b] = "issued"
  BY DEF ReleaseBlobs
<1> QED BY <1>1 DEF BlobEffects, LifeEffect, IntentEffect, NeverReferenced

(* The steps of the handler that writes blob b, and of its delete.         *)
LEMMA BlobStepEffects ==
    ASSUME IInv, NEW b \in Blobs,
           \/ \E k \in Keys : \E c \in Conditions(k) : StartPut(b, k, c)
           \/ \E k \in Keys, u \in Uploads, n \in PartNumbers, s \in Sizes :
                 StartUploadPart(b, k, u, n, s)
           \/ BlobStored(b)
           \/ BlobPutRejected(b)
           \/ CommitPut(b)
           \/ FailCondition(b)
           \/ RefusePut(b)
           \/ CommitPart(b)
           \/ FailPart(b)
           \/ BlobDeleted(b)
           \/ BlobDeleteFailed(b)
    PROVE  TableEffects /\ BlobEffects
<1>0. TypeOK
  BY DEF IInv
<1> USE <1>0
<1>1. ASSUME NEW k \in Keys, NEW c \in Conditions(k), StartPut(b, k, c)
      PROVE  TableEffects /\ BlobEffects
  <2> DEFINE request == [op |-> "put", key |-> k, onlyIf |-> c]
  <2>1. \A a \in Blobs : LifeEffect(a)
    BY <1>1 DEF StartPut, Fresh, LifeEffect, NeverReferenced, TypeOK
  <2>2. \/ c.test # "ifMatch"
        \/ objects[k] # Absent /\ c.row = objects[k]
    BY DEF Conditions, NoCondition
  <2>3. ASSUME NEW a \in Blobs PROVE IntentEffect(a)
    <3>1. intent'[a] = intent[a] \/ intent'[a] = request
      BY <1>1 DEF StartPut, TypeOK
    <3> QED BY <2>2, <3>1 DEF IntentEffect
  <2> QED BY <1>1, <2>1, <2>3, SameTablesEffects DEF StartPut, BlobEffects
<1>2. ASSUME NEW k \in Keys, NEW u \in Uploads, NEW n \in PartNumbers,
             NEW s \in Sizes, StartUploadPart(b, k, u, n, s)
      PROVE  TableEffects /\ BlobEffects
  <2>1. \A a \in Blobs : LifeEffect(a)
    BY <1>2 DEF StartUploadPart, Fresh, LifeEffect, NeverReferenced, TypeOK
  <2>2. ASSUME NEW a \in Blobs PROVE IntentEffect(a)
    <3>1. intent'[a] = intent[a] \/ intent'[a].op = "uploadPart"
      BY <1>2 DEF StartUploadPart, TypeOK
    <3> QED BY <3>1 DEF IntentEffect
  <2> QED BY <1>2, <2>1, <2>2, SameTablesEffects DEF StartUploadPart, BlobEffects
<1>3. CASE BlobStored(b)
  BY <1>3, SameTablesEffects
  DEF BlobStored, BlobEffects, LifeEffect, IntentEffect, NeverReferenced, TypeOK
<1>4. CASE BlobPutRejected(b)
  BY <1>4, SameTablesEffects
  DEF BlobPutRejected, BlobEffects, LifeEffect, IntentEffect, NeverReferenced,
      NoRequest, TypeOK
<1>5. CASE CommitPut(b)
  <2> DEFINE old == OldBlobs(intent[b].key)
  <2>1. \A a \in Blobs : life'[a] = "committed" \/ life'[a] = BackgroundDelete(old)[a]
    BY <1>5, BackgroundDeleteType DEF CommitPut
  <2>2. \A a \in Blobs : intent'[a] = intent[a] \/ intent'[a] = NoRequest
    BY <1>5 DEF CommitPut, TypeOK
  <2>3. BlobEffects
    BY <1>5, <2>1, <2>2, HandlerEffects DEF CommitPut
  <2> QED BY <1>5, <2>3, CommitPutEffects
<1>6. CASE FailCondition(b)
  BY <1>6, HandlerEffects, SameTablesEffects DEF FailCondition, TypeOK
<1>7. CASE RefusePut(b)
  BY <1>7, SameTablesEffects
  DEF RefusePut, BlobEffects, LifeEffect, IntentEffect, NeverReferenced, NoRequest,
      TypeOK
<1>8. CASE CommitPart(b)
  <2> DEFINE old == BlobsOf(SamePart(intent[b].upload, intent[b].part))
  <2>1. \A a \in Blobs : life'[a] = "committed" \/ life'[a] = BackgroundDelete(old)[a]
    BY <1>8, BackgroundDeleteType DEF CommitPart
  <2>2. \A a \in Blobs : intent'[a] = intent[a] \/ intent'[a] = NoRequest
    BY <1>8 DEF CommitPart, TypeOK
  <2>3. BlobEffects
    BY <1>8, <2>1, <2>2, HandlerEffects DEF CommitPart
  <2> QED BY <1>8, <2>3, CommitPartEffects
<1>9. CASE FailPart(b)
  BY <1>9, HandlerEffects, SameTablesEffects DEF FailPart, TypeOK
<1>10. CASE BlobDeleted(b)
  BY <1>10, SameTablesEffects
  DEF BlobDeleted, StoreAfterDelete, BlobEffects, LifeEffect, IntentEffect,
      NeverReferenced, TypeOK
<1>11. CASE BlobDeleteFailed(b)
  BY <1>11, SameTablesEffects
  DEF BlobDeleteFailed, BlobEffects, LifeEffect, IntentEffect, NeverReferenced, TypeOK
<1> QED
  BY <1>1, <1>2, <1>3, <1>4, <1>5, <1>6, <1>7, <1>8, <1>9, <1>10, <1>11

(* The requests that are one transaction.                                  *)
LEMMA RequestEffects ==
    ASSUME IInv,
           \/ \E ks \in SUBSET Keys : Delete(ks)
           \/ \E u \in Uploads :
                 \/ \E k \in Keys : CreateMultipartUpload(u, k)
                 \/ AbortMultipartUpload(u)
                 \/ \E sel \in Selections : CompleteMultipartUpload(u, sel)
    PROVE  TableEffects /\ BlobEffects
<1>0. TypeOK
  BY DEF IInv
<1>1. ASSUME NEW ks \in SUBSET Keys, Delete(ks) PROVE BlobEffects
  BY <1>0, <1>1, HandlerEffects DEF Delete
<1>2. ASSUME NEW u \in Uploads, NEW k \in Keys, CreateMultipartUpload(u, k)
      PROVE  BlobEffects
  BY <1>2, SameBlobsEffects DEF CreateMultipartUpload
<1>3. ASSUME NEW u \in Uploads, AbortMultipartUpload(u) PROVE BlobEffects
  BY <1>0, <1>3, HandlerEffects DEF AbortMultipartUpload
<1>4. ASSUME NEW u \in Uploads, NEW sel \in Selections,
             CompleteMultipartUpload(u, sel)
      PROVE  BlobEffects
  BY <1>0, <1>4, HandlerEffects DEF CompleteMultipartUpload
<1> QED
  BY <1>1, <1>2, <1>3, <1>4, DeleteEffects, CreateEffects, AbortEffects,
     CompleteEffects

(* Reads write no table and at most let a delete go on.                    *)
LEMMA ReadEffects ==
    ASSUME IInv, NEW r \in Readers,
           \/ \E k \in Keys : GetSingle(r, k)
           \/ SingleAnswered(r)
           \/ \E k \in Keys, lo, hi \in PartNumbers : GetMultipart(r, k, lo, hi)
           \/ OpenPart(r)
           \/ PartPiped(r)
           \/ StreamAborted(r)
    PROVE  TableEffects /\ BlobEffects
<1>1. UNCHANGED tables
  BY DEF GetSingle, SingleAnswered, GetMultipart, OpenPart, PartPiped, StreamAborted
<1>2. CASE PartPiped(r)
  <2>1. ReleaseBlobs({n.blob : n \in NextPart(r)}) /\ UNCHANGED <<stored, intent>>
    BY <1>2 DEF PartPiped
  <2> QED BY <1>1, <2>1, ReleaseEffects, SameTablesEffects DEF IInv
<1>3. CASE StreamAborted(r)
  <2>1. ReleaseBlobs(BlobsHeld(r)) /\ UNCHANGED <<stored, intent>>
    BY <1>3 DEF StreamAborted
  <2> QED BY <1>1, <2>1, ReleaseEffects, SameTablesEffects DEF IInv
<1>4. CASE ~ PartPiped(r) /\ ~ StreamAborted(r)
  <2>1. UNCHANGED <<stored, life, intent>>
    BY <1>4 DEF GetSingle, SingleAnswered, GetMultipart, OpenPart
  <2> QED BY <1>1, <2>1, SameBlobsEffects, SameTablesEffects
<1> QED BY <1>2, <1>3, <1>4

(* A restart ends the handlers and loses the blobs they were writing.      *)
LEMMA RestartEffects ==
    ASSUME IInv, Restart
    PROVE  TableEffects /\ BlobEffects
<1>1. ASSUME NEW b \in Blobs PROVE LifeEffect(b)
  BY DEF Restart, StoresAfterCrash, InFlight, LifeEffect, NeverReferenced
<1>2. ASSUME NEW b \in Blobs PROVE IntentEffect(b)
  BY DEF Restart, IntentEffect, NoRequest
<1> QED BY <1>1, <1>2, SameTablesEffects DEF Restart, BlobEffects

(* What any step does.                                                     *)
LEMMA NextEffects == IInv /\ [Next]_vars => TableEffects /\ BlobEffects
<1> SUFFICES ASSUME IInv, [Next]_vars PROVE TableEffects /\ BlobEffects
  OBVIOUS
<1> DEFINE Requests ==
             \/ \E ks \in SUBSET Keys : Delete(ks)
             \/ \E u \in Uploads :
                   \/ \E k \in Keys : CreateMultipartUpload(u, k)
                   \/ AbortMultipartUpload(u)
                   \/ \E sel \in Selections : CompleteMultipartUpload(u, sel)
           Reads(r) ==
             \/ \E k \in Keys : GetSingle(r, k)
             \/ SingleAnswered(r)
             \/ \E k \in Keys, lo, hi \in PartNumbers : GetMultipart(r, k, lo, hi)
             \/ OpenPart(r)
             \/ PartPiped(r)
             \/ StreamAborted(r)
<1>1. CASE Requests
  BY <1>1, RequestEffects
<1>2. ASSUME NEW r \in Readers, Reads(r) PROVE TableEffects /\ BlobEffects
  BY <1>2, ReadEffects
<1>3. CASE Restart
  BY <1>3, RestartEffects
<1>4. CASE UNCHANGED vars
  BY <1>4, SameTablesEffects, SameBlobsEffects DEF vars, tables
<1>5. ASSUME Next, ~ Requests, \A r \in Readers : ~ Reads(r), ~ Restart
      PROVE  TableEffects /\ BlobEffects
  BY <1>5, BlobStepEffects DEF Next
<1> QED BY <1>1, <1>2, <1>3, <1>4, <1>5

-----------------------------------------------------------------------------
(* The invariant of the store's contents and of conditional puts.          *)

(* An object that is there was committed, and its etag is that of no       *)
(* other version: no other row has its blobs.                              *)
LEMMA PresentObjects ==
    ASSUME FullInv, NEW k \in Keys, objects[k] # Absent
    PROVE  WasAnObject(objects[k])
<1> DEFINE row == objects[k]
<1>1. /\ row \in ObjectRow
      /\ \A l \in Keys : objects[l] \in ObjectRow
  BY DEF FullInv, IInv, TypeOK
<1>2. row.kind \in {"single", "multipart"}
  BY <1>1 DEF ObjectRow, FullInv, HistoryInv, RowsHaveTheirShape
<1>3. row.kind = "single" => row.etag # {}
  BY DEF FullInv, HistoryInv, RowsHaveTheirShape
<1>4. ASSUME NEW l \in Keys, NEW b \in objects[l].etag, objects[l].kind = "multipart"
      PROVE  b \in Blobs /\ PartReferences(b)
  BY <1>1, <1>4
  DEF ObjectRow, FullInv, IInv, TablesInv, ObjectsIntact, BlobsOf, LinkedTo, PartReferences
<1>5. ASSUME NEW l \in Keys, NEW b \in objects[l].etag, objects[l].kind = "single"
      PROVE  b \in Blobs /\ ObjectReferences(b) /\ ~ PartReferences(b)
  BY <1>1, <1>5
  DEF ObjectRow, FullInv, IInv, TablesInv, NoSharedBlobs, ObjectReferences
<1>6. ASSUME NEW b \in row.etag
      PROVE  /\ life[b] \notin NeverReferenced
             /\ row.kind = "single" => ~ PartReferences(b)
  <2>1. b \in Blobs /\ Referenced(b)
    BY <1>2, <1>4, <1>5 DEF Referenced
  <2>2. life[b] = "committed"
    BY <2>1 DEF FullInv, IInv, BlobsInv, LifeMatchesTables
  <2> QED BY <1>5, <2>2 DEF NeverReferenced
<1>7. ASSUME NEW l \in Keys, objects[l] # Absent, objects[l].etag = row.etag
      PROVE  objects[l] = row
  <2>1. objects[l].kind \in {"single", "multipart"}
    BY <1>1, <1>7 DEF ObjectRow, FullInv, HistoryInv, RowsHaveTheirShape
  <2>2. objects[l].kind = "single" => objects[l].etag # {}
    BY DEF FullInv, HistoryInv, RowsHaveTheirShape
  <2>3. objects[l].kind = row.kind
    BY <1>2, <1>3, <1>4, <1>5, <1>7, <2>1, <2>2
  <2> QED BY <1>1, <1>7, <2>3 DEF ObjectRow
<1> QED BY <1>2, <1>3, <1>6, <1>7 DEF WasAnObject

(* What was an object stays one: its blobs are not written again, parts    *)
(* and objects are made of other blobs.                                    *)
LEMMA PastObjects ==
    ASSUME TypeOK, TableEffects, BlobEffects,
           NEW row \in ObjectRow, WasAnObject(row)
    PROVE  WasAnObject(row)'
<1>0. row.etag \in SUBSET Blobs
  BY DEF ObjectRow
<1>1. \A b \in row.etag : b \in Blobs /\ life[b] \notin NeverReferenced
  BY <1>0 DEF WasAnObject
<1>2. ASSUME NEW b \in row.etag PROVE life'[b] \notin NeverReferenced
  BY <1>1 DEF BlobEffects, LifeEffect
<1>3. ASSUME NEW b \in row.etag, row.kind = "single" PROVE ~ PartReferences(b)'
  <2> SUFFICES ASSUME NEW q \in parts', q.blob = b PROVE FALSE
    BY DEF PartReferences
  <2>1. PartReferences(b) \/ life[b] = "uploaded"
    BY DEF TableEffects, PartEffect
  <2> QED BY <1>1, <1>3, <2>1 DEF WasAnObject, NeverReferenced
<1>4. ASSUME NEW k \in Keys, objects'[k] # Absent, objects'[k].etag = row.etag
      PROVE  objects'[k] = row
  <2>1. ObjectEffect(k)
    BY DEF TableEffects
  <2>2. CASE objects'[k] = objects[k]
    BY <1>4, <2>2 DEF WasAnObject
  <2>3. ASSUME NEW b \in Blobs, objects'[k] = [kind |-> "single", etag |-> {b}],
               life[b] = "uploaded"
        PROVE  FALSE
    BY <1>1, <1>4, <2>3 DEF NeverReferenced
  <2>4. ASSUME NEW bs \in SUBSET Blobs, \A b \in bs : PartReferences(b),
               objects'[k] = [kind |-> "multipart", etag |-> bs]
        PROVE  objects'[k] = row
    <3>1. row.etag = bs
      BY <1>4, <2>4
    <3>2. row.kind \in {"single", "multipart"} /\ (row.kind = "single" => row.etag # {})
      BY DEF WasAnObject
    <3>3. \A b \in row.etag : row.kind = "single" => ~ PartReferences(b)
      BY DEF WasAnObject
    <3>4. row.kind = "multipart"
      BY <3>1, <3>2, <3>3, <2>4
    <3> QED BY <3>1, <3>4, <2>4 DEF ObjectRow
  <2> QED BY <1>4, <2>1, <2>2, <2>3, <2>4 DEF ObjectEffect
<1> QED BY <1>2, <1>3, <1>4 DEF WasAnObject

(* Every step keeps the invariant.                                         *)
LEMMA NextHistory == FullInv /\ [Next]_vars => HistoryInv'
<1> SUFFICES ASSUME FullInv, [Next]_vars PROVE HistoryInv'
  OBVIOUS
<1>1. /\ TableEffects /\ BlobEffects
      /\ IInv /\ TypeOK /\ TypeOK'
  BY NextEffects, NextType DEF FullInv, IInv
<1>2. StoredBlobsAreKnown'
  <2> SUFFICES ASSUME NEW b \in stored'
               PROVE  /\ life'[b] \notin {"unused", "storing"}
                      /\ life'[b] = "deleted" => RetainDeleted
    BY DEF StoredBlobsAreKnown
  <2>1. b \in Blobs /\ LifeEffect(b)
    BY <1>1 DEF TypeOK, BlobEffects
  <2> QED BY <2>1 DEF LifeEffect, FullInv, HistoryInv, StoredBlobsAreKnown
<1>3. RowsHaveTheirShape'
  <2> SUFFICES ASSUME NEW k \in Keys
               PROVE  /\ objects'[k].kind = "absent" => objects'[k] = Absent
                      /\ objects'[k].kind = "single"
                           => \E b \in Blobs : objects'[k].etag = {b}
    BY DEF RowsHaveTheirShape
  <2>1. ObjectEffect(k)
    BY <1>1 DEF TableEffects
  <2>2. ASSUME NEW bs, objects'[k] = [kind |-> "multipart", etag |-> bs]
        PROVE  objects'[k].kind = "multipart"
    BY <2>2
  <2>3. CASE objects'[k] = objects[k]
    BY <2>3 DEF FullInv, HistoryInv, RowsHaveTheirShape
  <2>4. CASE objects'[k] = Absent
    BY <2>4 DEF Absent
  <2>5. ASSUME NEW b \in Blobs, objects'[k] = [kind |-> "single", etag |-> {b}]
        PROVE  objects'[k].kind = "single" /\ objects'[k].etag = {b}
    BY <2>5
  <2> QED BY <2>1, <2>2, <2>3, <2>4, <2>5 DEF ObjectEffect
<1>4. AskedRowsWereObjects'
  <2>1. ASSUME NEW b \in Blobs, NEW row,
               intent'[b].op = "put", intent'[b].onlyIf.test = "ifMatch",
               row = intent'[b].onlyIf.row
        PROVE  WasAnObject(row)'
    <3>1. row \in ObjectRow
      BY <1>1, <2>1 DEF TypeOK, PutRequest, PartRequest, NoRequest, Condition
    <3>2. IntentEffect(b)
      BY <1>1 DEF BlobEffects
    <3>3. CASE intent'[b] = intent[b]
      BY <1>1, <2>1, <3>1, <3>3, PastObjects
      DEF FullInv, HistoryInv, AskedRowsWereObjects
    <3>4. CASE \E k \in Keys : objects[k] # Absent /\ row = objects[k]
      BY <1>1, <3>1, <3>4, PresentObjects, PastObjects
    <3> QED BY <2>1, <3>2, <3>3, <3>4 DEF IntentEffect
  <2> QED BY <2>1 DEF AskedRowsWereObjects, WasAnObject
<1> QED BY <1>2, <1>3, <1>4 DEF HistoryInv

(* The invariant holds in every reachable state.                           *)
THEOREM FullInvCorrect == Spec => []FullInv
<1>1. Init => FullInv
  <2>1. Init => HistoryInv
    BY DEF Init, HistoryInv, StoredBlobsAreKnown, RowsHaveTheirShape, Absent,
           AskedRowsWereObjects, NoRequest
  <2> QED BY <2>1, InitInv DEF FullInv
<1>2. FullInv /\ [Next]_vars => FullInv'
  BY NextInv, NextHistory DEF FullInv
<1> QED BY <1>1, <1>2, PTL DEF Spec

-----------------------------------------------------------------------------
(* What a client of the bucket relies on.                                  *)

(* Every blob in the store is being written, referred to, about to be      *)
(* deleted, retained on purpose or lost by a failure: failed handlers,     *)
(* overwrites, deletes and aborts forget none.                             *)
THEOREM GarbageCorrect == Spec => []GarbageIsCollected
<1>1. FullInv => GarbageIsCollected
  <2> SUFFICES ASSUME FullInv, NEW b \in stored
               PROVE  \/ life[b] \in {"uploaded", "waiting", "issued", "refused", "leaked"}
                      \/ Referenced(b)
                      \/ RetainDeleted /\ life[b] = "deleted"
    BY DEF GarbageIsCollected
  <2>1. b \in Blobs /\ life[b] \in Phases
    BY DEF FullInv, IInv, TypeOK
  <2>2. life[b] = "committed" => Referenced(b)
    BY <2>1 DEF FullInv, IInv, BlobsInv, LifeMatchesTables
  <2> QED BY <2>1, <2>2 DEF FullInv, HistoryInv, StoredBlobsAreKnown, Phases
<1> QED BY <1>1, FullInvCorrect, PTL

(* A conditional put overwrites nothing but the version it asked for, for  *)
(* any number of concurrent puts, completions and deletes.                 *)
THEOREM ConditionalPutsCorrect == Spec => ConditionalPutsAreAtomic
<1> DEFINE Atomic(b, k) ==
             LET asked == intent[b].onlyIf IN
             /\ intent[b] # NoRequest /\ intent[b].op = "put"
             /\ objects'[k] = [kind |-> "single", etag |-> {b}]
             /\ objects[k] # objects'[k]
             => /\ asked.test = "ifAbsent" => objects[k] = Absent
                /\ asked.test = "ifMatch" => objects[k] = asked.row
<1>1. ASSUME FullInv, [Next]_vars, NEW b \in Blobs, NEW k \in Keys
      PROVE  Atomic(b, k)
  <2> SUFFICES ASSUME intent[b].op = "put",
                      objects'[k] = [kind |-> "single", etag |-> {b}],
                      objects[k] # objects'[k]
               PROVE  /\ intent[b].onlyIf.test = "ifAbsent" => objects[k] = Absent
                      /\ intent[b].onlyIf.test = "ifMatch"
                           => objects[k] = intent[b].onlyIf.row
    OBVIOUS
  <2>1. ObjectEffect(k)
    BY <1>1, NextEffects DEF FullInv, TableEffects
  <2>2. ConditionHolds(intent[b].onlyIf, objects[k])
    <3>1. ASSUME NEW c \in Blobs, objects'[k] = [kind |-> "single", etag |-> {c}]
          PROVE  c = b
      BY <3>1
    <3>2. objects'[k] # Absent
      BY DEF Absent
    <3>3. ASSUME NEW bs, objects'[k] = [kind |-> "multipart", etag |-> bs] PROVE FALSE
      BY <3>3
    <3> QED BY <2>1, <3>1, <3>2, <3>3 DEF ObjectEffect
  <2>3. intent[b].onlyIf.test = "ifMatch" => WasAnObject(intent[b].onlyIf.row)
    BY <1>1 DEF FullInv, HistoryInv, AskedRowsWereObjects
  <2> QED BY <2>2, <2>3 DEF ConditionHolds, WasAnObject
<1>2. FullInv /\ [Next]_vars => [\A b \in Blobs, k \in Keys : Atomic(b, k)]_vars
  BY <1>1
<1> QED BY <1>2, FullInvCorrect, PTL DEF Spec, ConditionalPutsAreAtomic

(* A part of an upload in progress stays until it is uploaded again.       *)
THEOREM InProgressPartsCorrect == Spec => InProgressPartsKept
<1> DEFINE Kept(p) ==
             uploads[p.upload].state = "inProgress"
               /\ uploads'[p.upload].state = "inProgress"
             => \E q \in parts' : q.upload = p.upload /\ q.part = p.part
                                  /\ q.object = NoKey
<1>1. ASSUME IInv, [Next]_vars, NEW p \in parts
      PROVE  Kept(p)
  <2> SUFFICES ASSUME uploads[p.upload].state = "inProgress",
                      uploads'[p.upload].state = "inProgress"
               PROVE  \E q \in parts' : q.upload = p.upload /\ q.part = p.part
                                        /\ q.object = NoKey
    OBVIOUS
  <2>1. p.object = NoKey
    BY <1>1 DEF IInv, TablesInv, UploadsAndPartsAgree
  <2>2. CASE p \in parts'
    BY <2>1, <2>2
  <2>3. CASE p \notin parts'
    <3>1. GoneEffect(p)
      BY <1>1, <2>3, NextEffects DEF TableEffects
    <3> QED BY <2>1, <3>1, KeyAssumption DEF GoneEffect
  <2> QED BY <2>2, <2>3
<1>2. IInv /\ [Next]_vars => [\A p \in parts : Kept(p)]_vars
  BY <1>1
<1> QED BY <1>2, InvCorrect, PTL DEF Spec, InProgressPartsKept

(* A finalised upload stays as it is, and a linked part goes only with the *)
(* object it belongs to.                                                   *)
THEOREM FinalisedUploadsCorrect == Spec => FinalisedUploadsStay
<1> DEFINE Stay ==
             /\ \A u \in Uploads : uploads[u].state \in {"completed", "aborted"} =>
                   uploads'[u] = uploads[u]
             /\ \A p \in parts : p.object # NoKey /\ p \notin parts' =>
                   objects'[p.object] # objects[p.object]
<1>1. ASSUME IInv, [Next]_vars PROVE Stay
  <2>1. TableEffects
    BY <1>1, NextEffects
  <2> QED BY <2>1 DEF TableEffects, UploadEffect, GoneEffect
<1>2. IInv /\ [Next]_vars => [Stay]_vars
  BY <1>1
<1> QED BY <1>2, InvCorrect, PTL DEF Spec, FinalisedUploadsStay
=============================================================================
