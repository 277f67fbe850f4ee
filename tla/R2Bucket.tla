------------------------------ MODULE R2Bucket ------------------------------
(***************************************************************************)
(* The R2 bucket object of Miniflare, the part of Smolflare that stores    *)
(* objects (packages/miniflare/src/workers/r2/bucket.worker.ts).           *)
(*                                                                         *)
(* An object is a row of a SQLite table that names blobs of a separate     *)
(* blob store.  A row changes in one synchronous transaction; the blobs    *)
(* are written before it and deleted after it, by asynchronous calls that  *)
(* requests, readers, failures and restarts interleave with.               *)
(*                                                                         *)
(* One action is what the code runs without an interruption: up to the     *)
(* next await, with the microtasks it queued.  A read request runs from    *)
(* its arrival to its first await in one turn of the event loop, so no     *)
(* read starts between the release of a blob and the removal of its wait   *)
(* group.  A transaction is durable when it returns: the runtime holds     *)
(* back outgoing calls until it is.                                        *)
(***************************************************************************)
EXTENDS Naturals, FiniteSets, Sequences

CONSTANTS
    Keys,          \* object keys
    Blobs,         \* blob ids, each generated once
    Uploads,       \* multipart upload ids, each generated once
    PartNumbers,   \* part numbers a client uploads
    Sizes,         \* sizes of uploaded parts
    MinPartSize,   \* R2Limits.MIN_MULTIPART_PART_SIZE
    Selections,    \* lists of parts a client completes an upload with
    Readers,       \* concurrent get requests
    NoKey,         \* SQL NULL in object_key
    RetainDeleted  \* RemoteR2Options.retainDeleted, TRUE unless set to false

(* A selected part names a part number and the etag of an uploadPart       *)
(* response.  The etag is a fresh random id made beside the blob id of the *)
(* same call, so the blob id stands for it.                                *)
SelectedPart == [part : PartNumbers, etag : Blobs]

ASSUME PartAssumption ==
    /\ PartNumbers \subseteq Nat \ {0}
    /\ Sizes \subseteq Nat
    /\ MinPartSize \in Nat
    /\ Selections \subseteq Seq(SelectedPart)
ASSUME KeyAssumption == NoKey \notin Keys
ASSUME ReaderAssumption == IsFiniteSet(Readers)
ASSUME RetainAssumption == RetainDeleted \in BOOLEAN

VARIABLES
    objects,    \* table _mf_objects, by key
    uploads,    \* table _mf_multipart_uploads, by upload_id
    parts,      \* table _mf_multipart_parts, a set of rows
    stored,     \* blobs the blob store holds
    life,       \* where the handler responsible for each blob stands
    intent,     \* what the handler writing each blob was asked to do
    inUse,      \* counters of the wait groups of #inUseBlobs
    reader      \* get requests that wait for the blob store or stream

vars == <<objects, uploads, parts, stored, life, intent, inUse, reader>>
tables == <<objects, uploads, parts>>

-----------------------------------------------------------------------------
(* State.                                                                  *)

(* A row of _mf_objects.  "single" has a blob_id, "multipart" has NULL     *)
(* there.  The etag digests the contents: it stands for the blobs the row  *)
(* was written with, whose single element is the blob_id of a single row.  *)
ObjectRow ==
    [kind : {"absent", "single", "multipart"}, etag : SUBSET Blobs]
Absent == [kind |-> "absent", etag |-> {}]

NoUpload == [key |-> NoKey, state |-> "none"]
UploadRow ==
    [key : Keys, state : {"inProgress", "completed", "aborted"}] \cup {NoUpload}

PartRow ==
    [upload : Uploads, part : PartNumbers, blob : Blobs, size : Sizes,
     object : Keys \cup {NoKey}]

(* onlyIf of a put: none, etagDoesNotMatch a wildcard, or etagMatches the  *)
(* etag of a version.                                                      *)
Condition == [test : {"none", "ifAbsent", "ifMatch"}, row : ObjectRow]
NoCondition == [test |-> "none", row |-> Absent]

PutRequest == [op : {"put"}, key : Keys, onlyIf : Condition]
PartRequest ==
    [op : {"uploadPart"}, key : Keys, upload : Uploads, part : PartNumbers,
     size : Sizes]
NoRequest == [op |-> "none"]

(* unused: not generated; storing: BlobStore.put is in flight; uploaded:   *)
(* it returned, the transaction is next; committed: a row refers to it;    *)
(* waiting: #backgroundDelete awaits the wait group; issued: the DELETE is *)
(* in flight; deleted: it was answered; refused: validation threw after    *)
(* the blob was written; leaked: a failure or a restart lost its handler.  *)
Phases == {"unused", "storing", "uploaded", "committed", "waiting", "issued",
           "deleted", "refused", "leaked"}

(* A part of a value that a reader has still to stream; part 0 is the      *)
(* whole value of a single-part object.                                    *)
Needed == [part : PartNumbers \cup {0}, blob : Blobs]
ReaderState ==
    [phase : {"idle", "single", "open", "pipe"}, need : SUBSET Needed]
IdleReader == [phase |-> "idle", need |-> {}]
Streaming(r) == reader[r].phase \in {"open", "pipe"}
Needs(r, b) == \E n \in reader[r].need : n.blob = b

(* The readers that hold a blob for a multipart value.                     *)
Holders(b) == {r \in Readers : Streaming(r) /\ Needs(r, b)}

LinkedTo(k) == {p \in parts : p.object = k}
PartsOf(u) == {p \in parts : p.upload = u}
BlobsOf(rows) == {p.blob : p \in rows}
PartReferences(b) == \E p \in parts : p.blob = b
ObjectReferences(b) ==
    \E k \in Keys : objects[k].kind = "single" /\ b \in objects[k].etag
Referenced(b) == ObjectReferences(b) \/ PartReferences(b)

Init ==
    /\ objects = [k \in Keys |-> Absent]
    /\ uploads = [u \in Uploads |-> NoUpload]
    /\ parts = {}
    /\ stored = {}
    /\ life = [b \in Blobs |-> "unused"]
    /\ intent = [b \in Blobs |-> NoRequest]
    /\ inUse = [b \in Blobs |-> 0]
    /\ reader = [r \in Readers |-> IdleReader]

-----------------------------------------------------------------------------
(* Blobs in use and background deletes.                                    *)

AcquireBlobs(bs) ==
    inUse' = [b \in Blobs |-> IF b \in bs THEN inUse[b] + 1 ELSE inUse[b]]

(* Releasing the last hold of a blob resolves its wait group: a background *)
(* delete that awaits it goes on.                                          *)
ReleaseBlobs(bs) ==
    /\ inUse' = [b \in Blobs |-> IF b \in bs /\ inUse[b] > 0
                                 THEN inUse[b] - 1 ELSE inUse[b]]
    /\ life' = [b \in Blobs |->
                  IF b \in bs /\ inUse[b] = 1 /\ life[b] = "waiting"
                  THEN "issued" ELSE life[b]]

(* Mutated: the background delete does not look for a wait group.          *)
DeleteAtOnce(b) == "issued"

(* #backgroundDelete awaits the wait group found when it runs, if any.     *)
DeletePhase(b) == IF inUse[b] > 0 THEN "waiting" ELSE "issued"

(* The phases after the blobs bs were handed to #backgroundDelete.         *)
BackgroundDelete(bs) ==
    [b \in Blobs |-> IF b \in bs THEN DeletePhase(b) ELSE life[b]]

(* Mutated: retainDeleted is not consulted.                                *)
StoreAlwaysDeletes(b) == stored \ {b}

(* The DELETE reaches the blob store, which keeps the blob when it is told *)
(* to retain deleted ones.                                                 *)
StoreAfterDelete(b) == IF RetainDeleted THEN stored ELSE stored \ {b}

BlobDeleted(b) ==
    /\ life[b] = "issued"
    /\ stored' = StoreAfterDelete(b)
    /\ life' = [life EXCEPT ![b] = "deleted"]
    /\ UNCHANGED <<tables, intent, inUse, reader>>

(* A DELETE that fails is logged and not tried again.                      *)
BlobDeleteFailed(b) ==
    /\ life[b] = "issued"
    /\ life' = [life EXCEPT ![b] = "leaked"]
    /\ UNCHANGED <<tables, stored, intent, inUse, reader>>

-----------------------------------------------------------------------------
(* Writing a blob: the first half of #put and #uploadPart.                 *)

(* Mutated: ids are derived from contents, so one is generated again.      *)
FreshOrStored(b) == life[b] \in {"unused", "committed"}

Fresh(b) == life[b] = "unused"

StartPut(b, k, c) ==
    /\ Fresh(b)
    /\ life' = [life EXCEPT ![b] = "storing"]
    /\ intent' = [intent EXCEPT ![b] = [op |-> "put", key |-> k, onlyIf |-> c]]
    /\ UNCHANGED <<tables, stored, inUse, reader>>

StartUploadPart(b, k, u, n, s) ==
    /\ Fresh(b)
    /\ uploads[u] # NoUpload
    /\ life' = [life EXCEPT ![b] = "storing"]
    /\ intent' = [intent EXCEPT ![b] = [op |-> "uploadPart", key |-> k,
                                        upload |-> u, part |-> n, size |-> s]]
    /\ UNCHANGED <<tables, stored, inUse, reader>>

BlobStored(b) ==
    /\ life[b] = "storing"
    /\ stored' = stored \cup {b}
    /\ life' = [life EXCEPT ![b] = "uploaded"]
    /\ UNCHANGED <<tables, intent, inUse, reader>>

(* The call rejects: the connection broke, or the service in front of a    *)
(* remote store threw because the store refused the upload.  The handler   *)
(* ends and the id is forgotten with it, whether the blob arrived or not.  *)
BlobPutRejected(b) ==
    /\ life[b] = "storing"
    /\ life' = [life EXCEPT ![b] = "leaked"]
    /\ intent' = [intent EXCEPT ![b] = NoRequest]
    /\ \/ stored' = stored \cup {b}
       \/ stored' = stored
    /\ UNCHANGED <<tables, inUse, reader>>

-----------------------------------------------------------------------------
(* The transactions: the second half of #put and #uploadPart.              *)

(* Mutated: the transaction starts before BlobStore.put has returned.      *)
WrittenOrStoring(b, op) ==
    life[b] \in {"storing", "uploaded"} /\ intent[b].op = op

(* The handler of operation op has its blob id and its digests.            *)
Written(b, op) == life[b] = "uploaded" /\ intent[b].op = op

(* Mutated: the condition was tested when the request arrived.             *)
ConditionTestedBefore(c, row) == TRUE

(* validate.condition over the row that the transaction reads.             *)
ConditionHolds(c, row) ==
    \/ c.test = "none"
    \/ c.test = "ifAbsent" /\ row = Absent
    \/ c.test = "ifMatch" /\ row # Absent /\ row.etag = c.row.etag

(* Mutated: parts are found by the key of their upload, whatever the       *)
(* present object is.                                                      *)
PartsOfUploadsTo(k) == {p \in parts : uploads[p.upload].key = k}

(* Mutated: the parts of a replaced multipart object are left in place.    *)
PartsLeft(k) == {}

(* Rows of parts that go with the object row of key k: all that are linked *)
(* to it if it is a multipart object.                                      *)
PartsDroppedWith(k) == IF objects[k].kind = "multipart" THEN LinkedTo(k) ELSE {}

(* Mutated: the blobs of the parts of a multipart object are forgotten.    *)
OldBlobsOfSingle(k) ==
    IF objects[k].kind = "single" THEN objects[k].etag ELSE {}

(* Blobs of the object that a write to key k replaces or removes.          *)
OldBlobs(k) ==
    IF objects[k].kind = "single" THEN objects[k].etag
                                  ELSE BlobsOf(PartsDroppedWith(k))

CommitPut(b) ==
    /\ Written(b, "put")
    /\ LET k == intent[b].key IN
         /\ ConditionHolds(intent[b].onlyIf, objects[k])
         /\ objects' = [objects EXCEPT ![k] = [kind |-> "single", etag |-> {b}]]
         /\ parts' = parts \ PartsDroppedWith(k)
         /\ life' = [BackgroundDelete(OldBlobs(k)) EXCEPT ![b] = "committed"]
    /\ intent' = [intent EXCEPT ![b] = NoRequest]
    /\ UNCHANGED <<uploads, stored, inUse, reader>>

(* PreconditionFailed: the catch clause deletes the new blob.              *)
FailCondition(b) ==
    /\ Written(b, "put")
    /\ ~ ConditionHolds(intent[b].onlyIf, objects[intent[b].key])
    /\ life' = BackgroundDelete({b})
    /\ intent' = [intent EXCEPT ![b] = NoRequest]
    /\ UNCHANGED <<tables, stored, inUse, reader>>

(* BadDigest, EntityTooLarge, MetadataTooLarge or a bad key: validate      *)
(* throws outside the try statement, with the blob already written.        *)
RefusePut(b) ==
    /\ Written(b, "put")
    /\ life' = [life EXCEPT ![b] = "refused"]
    /\ intent' = [intent EXCEPT ![b] = NoRequest]
    /\ UNCHANGED <<tables, stored, inUse, reader>>

(* Mutated: any upload to the key will do, in whatever state it is.        *)
KnownUpload(u, k) == uploads[u].key = k

InProgress(u, k) == uploads[u] = [key |-> k, state |-> "inProgress"]

(* The row that an upserted part replaces.                                 *)
SamePart(u, n) == {p \in PartsOf(u) : p.part = n}

CommitPart(b) ==
    /\ Written(b, "uploadPart")
    /\ LET i == intent[b]
           old == SamePart(i.upload, i.part)
           new == [upload |-> i.upload, part |-> i.part, blob |-> b,
                   size |-> i.size, object |-> NoKey]
       IN /\ InProgress(i.upload, i.key)
          /\ parts' = (parts \ old) \cup {new}
          /\ life' = [BackgroundDelete(BlobsOf(old)) EXCEPT ![b] = "committed"]
    /\ intent' = [intent EXCEPT ![b] = NoRequest]
    /\ UNCHANGED <<objects, uploads, stored, inUse, reader>>

(* NoSuchUpload: the catch clause deletes the new blob.                    *)
FailPart(b) ==
    /\ Written(b, "uploadPart")
    /\ ~ InProgress(intent[b].upload, intent[b].key)
    /\ life' = BackgroundDelete({b})
    /\ intent' = [intent EXCEPT ![b] = NoRequest]
    /\ UNCHANGED <<tables, stored, inUse, reader>>

-----------------------------------------------------------------------------
(* Requests that are one transaction.                                      *)

Delete(ks) ==
    LET dropped == UNION {PartsDroppedWith(k) : k \in ks}
        old == UNION {OldBlobs(k) : k \in ks}
    IN /\ ks # {}
       /\ objects' = [k \in Keys |-> IF k \in ks THEN Absent ELSE objects[k]]
       /\ parts' = parts \ dropped
       /\ life' = BackgroundDelete(old)
       /\ UNCHANGED <<uploads, stored, intent, inUse, reader>>

CreateMultipartUpload(u, k) ==
    /\ uploads[u] = NoUpload
    /\ uploads' = [uploads EXCEPT ![u] = [key |-> k, state |-> "inProgress"]]
    /\ UNCHANGED <<objects, parts, stored, life, intent, inUse,
                   reader>>

(* Mutated: an upload that is already finalised is aborted again.          *)
Created(u) == uploads[u] # NoUpload

NotFinalised(u) == uploads[u].state = "inProgress"

AbortMultipartUpload(u) ==
    /\ NotFinalised(u)
    /\ parts' = parts \ PartsOf(u)
    /\ uploads' = [uploads EXCEPT ![u].state = "aborted"]
    /\ life' = BackgroundDelete(BlobsOf(PartsOf(u)))
    /\ UNCHANGED <<objects, stored, intent, inUse, reader>>

(* The uploaded row that a selected part names.                            *)
Matches(u, s) == {p \in PartsOf(u) : p.part = s.part /\ p.blob = s.etag}
Chosen(u, sel) == UNION {Matches(u, sel[i]) : i \in DOMAIN sel}

(* InvalidPart and the InternalError for a part number that occurs twice.  *)
SelectionExists(u, sel) ==
    /\ \A i, j \in DOMAIN sel : sel[i].part = sel[j].part => i = j
    /\ \A i \in DOMAIN sel : Matches(u, sel[i]) # {}

IsLastOf(p, rows) == \A q \in rows : q.part <= p.part

(* EntityTooSmall, over the parts in the order of the argument.            *)
LargeInOrder(u, sel) ==
    \A i \in DOMAIN sel : i < Len(sel) =>
        \A p \in Matches(u, sel[i]) : p.size >= MinPartSize

(* BadUpload, over the parts in the order of their numbers: all but the    *)
(* last are large and of one size, and the last is no larger.              *)
UniformSizes(rows) ==
    \A p, q \in rows : ~ IsLastOf(p, rows) =>
        /\ p.size >= MinPartSize
        /\ IF IsLastOf(q, rows) THEN q.size <= p.size ELSE q.size = p.size

CompleteMultipartUpload(u, sel) ==
    LET k == uploads[u].key
        chosen == Chosen(u, sel)
        unused == {p \in PartsOf(u) \ chosen : p.object = NoKey}
        linked == {[p EXCEPT !.object = k] : p \in chosen}
        kept == parts \ (PartsDroppedWith(k) \cup unused \cup chosen)
    IN /\ NotFinalised(u)
       /\ SelectionExists(u, sel)
       /\ LargeInOrder(u, sel)
       /\ UniformSizes(chosen)
       /\ objects' = [objects EXCEPT ![k] =
                        [kind |-> "multipart", etag |-> BlobsOf(chosen)]]
       /\ parts' = kept \cup linked
       /\ uploads' = [uploads EXCEPT ![u].state = "completed"]
       /\ life' = BackgroundDelete(OldBlobs(k) \cup BlobsOf(unused))
       /\ UNCHANGED <<stored, intent, inUse, reader>>

-----------------------------------------------------------------------------
(* Reads.  The row and its parts are read in one transaction.              *)

(* A single-part value is fetched without holding its blob.                *)
GetSingle(r, k) ==
    /\ reader[r] = IdleReader
    /\ objects[k].kind = "single"
    /\ reader' = [reader EXCEPT ![r] =
                    [phase |-> "single",
                     need |-> {[part |-> 0, blob |-> b] : b \in objects[k].etag}]]
    /\ UNCHANGED <<tables, stored, life, intent, inUse>>

(* The blob store answers: a body, or nothing and the read fails with      *)
(* NoSuchKey.  From here on an open handle serves the body.                *)
SingleAnswered(r) ==
    /\ reader[r].phase = "single"
    /\ reader' = [reader EXCEPT ![r] = IdleReader]
    /\ UNCHANGED <<tables, stored, life, intent, inUse>>

(* #assembleMultipartValue holds the blobs of all parts that overlap the   *)
(* requested range, which are consecutive, before it streams the first.    *)
RequiredParts(k, lo, hi) ==
    {p \in LinkedTo(k) : p.part >= lo /\ p.part <= hi /\ p.size > 0}

GetMultipart(r, k, lo, hi) ==
    LET need == {[part |-> p.part, blob |-> p.blob] :
                    p \in RequiredParts(k, lo, hi)}
    IN /\ reader[r] = IdleReader
       /\ objects[k].kind = "multipart"
       /\ need # {}
       /\ reader' = [reader EXCEPT ![r] = [phase |-> "open", need |-> need]]
       /\ AcquireBlobs({n.blob : n \in need})
       /\ UNCHANGED <<tables, stored, life, intent>>

(* Parts are streamed in the order of their numbers.                       *)
NextPart(r) ==
    {n \in reader[r].need : \A m \in reader[r].need : n.part <= m.part}

OpenPart(r) ==
    /\ reader[r].phase = "open"
    /\ \A n \in NextPart(r) : n.blob \in stored
    /\ reader' = [reader EXCEPT ![r].phase = "pipe"]
    /\ UNCHANGED <<tables, stored, life, intent, inUse>>

(* The part is piped to the client, then its blob is released.             *)
PartPiped(r) ==
    LET rest == reader[r].need \ NextPart(r)
    IN /\ reader[r].phase = "pipe"
       /\ reader' = [reader EXCEPT ![r] =
                       IF rest = {} THEN IdleReader
                                    ELSE [phase |-> "open", need |-> rest]]
       /\ ReleaseBlobs({n.blob : n \in NextPart(r)})
       /\ UNCHANGED <<tables, stored, intent>>

(* Mutated: the finally clause releases the current part only.             *)
CurrentBlob(r) == {n.blob : n \in NextPart(r)}

BlobsHeld(r) == {n.blob : n \in reader[r].need}

(* A missing blob, a failed fetch or a client that goes away: the finally  *)
(* clause releases the blob of the current part and of those after it.     *)
StreamAborted(r) ==
    /\ Streaming(r)
    /\ reader' = [reader EXCEPT ![r] = IdleReader]
    /\ ReleaseBlobs(BlobsHeld(r))
    /\ UNCHANGED <<tables, stored, intent>>

-----------------------------------------------------------------------------
(* The process ends, is restarted and finds its tables and its blob store. *)
(* Handlers, readers, wait groups and background deletes are gone; a call  *)
(* that was in flight may or may not have reached the blob store.          *)

InFlight == {"storing", "uploaded", "waiting", "issued"}

StoresAfterCrash ==
    {(stored \cup arrived) \ deleted :
        arrived \in SUBSET {b \in Blobs : life[b] = "storing"},
        deleted \in SUBSET {b \in Blobs : life[b] = "issued"
                                           /\ ~ RetainDeleted}}

Restart ==
    /\ reader' = [r \in Readers |-> IdleReader]
    /\ inUse' = [b \in Blobs |-> 0]
    /\ intent' = [b \in Blobs |-> NoRequest]
    /\ life' = [b \in Blobs |->
                  IF life[b] \in InFlight THEN "leaked" ELSE life[b]]
    /\ stored' \in StoresAfterCrash
    /\ UNCHANGED <<tables>>

-----------------------------------------------------------------------------
(* The conditions a client can name: the etag it saw is the present one,   *)
(* which may be replaced before the transaction reads it.                  *)
Conditions(k) ==
    {NoCondition, [test |-> "ifAbsent", row |-> Absent]}
        \cup {[test |-> "ifMatch", row |-> objects[k]] :
                  x \in {y \in {k} : objects[y] # Absent}}

Next ==
    \/ \E b \in Blobs :
          \/ \E k \in Keys : \E c \in Conditions(k) : StartPut(b, k, c)
          \/ \E k \in Keys, u \in Uploads, n \in PartNumbers, s \in Sizes :
                StartUploadPart(b, k, u, n, s)
          \/ BlobStored(b)
          \/ BlobPutRejected(b)
          \/ CommitPut(b)
          \/ FailCondition(b)
          \/ RefusePut(b)
          \/ CommitPart(b)
          \/ FailPart(b)
          \/ BlobDeleted(b)
          \/ BlobDeleteFailed(b)
    \/ \E ks \in SUBSET Keys : Delete(ks)
    \/ \E u \in Uploads :
          \/ \E k \in Keys : CreateMultipartUpload(u, k)
          \/ AbortMultipartUpload(u)
          \/ \E sel \in Selections : CompleteMultipartUpload(u, sel)
    \/ \E r \in Readers :
          \/ \E k \in Keys : GetSingle(r, k)
          \/ SingleAnswered(r)
          \/ \E k \in Keys, lo, hi \in PartNumbers : GetMultipart(r, k, lo, hi)
          \/ OpenPart(r)
          \/ PartPiped(r)
          \/ StreamAborted(r)
    \/ Restart

Spec == Init /\ [][Next]_vars

-----------------------------------------------------------------------------
(* A reader that is served or gone answers in the end, and so does every   *)
(* DELETE: the client reads its response or closes it, the blob store      *)
(* answers calls.  Nothing else is assumed to happen.                      *)
Fairness ==
    /\ \A r \in Readers : /\ WF_vars(OpenPart(r) \/ StreamAborted(r))
                           /\ WF_vars(PartPiped(r))
    /\ \A b \in Blobs : WF_vars(BlobDeleted(b) \/ BlobDeleteFailed(b))
FairSpec == Spec /\ Fairness

-----------------------------------------------------------------------------
(* Properties.                                                             *)

(* Every variable has its type; no upload names a key without existing.    *)
TypeOK ==
    /\ objects \in [Keys -> ObjectRow]
    /\ uploads \in [Uploads -> UploadRow]
    /\ parts \subseteq PartRow
    /\ stored \subseteq Blobs
    /\ life \in [Blobs -> Phases]
    /\ intent \in [Blobs -> PutRequest \cup PartRequest \cup {NoRequest}]
    /\ inUse \in [Blobs -> Nat]
    /\ reader \in [Readers -> ReaderState]

(* No row dangles: a blob that an object or a part refers to is in the     *)
(* store, across failed uploads, overwrites, deletes, completions, aborts  *)
(* and restarts, and no delete of it is pending (#backgroundDelete is only *)
(* given blobs that no row refers to).                                     *)
ReferencedBlobsSurvive ==
    \A b \in Blobs : Referenced(b) =>
        /\ b \in stored
        /\ life[b] = "committed"

(* A blob belongs to one row, so that deleting the blobs of a row takes    *)
(* nothing from another: two objects, two parts, or an object and a part   *)
(* never share one.                                                        *)
NoSharedBlobs ==
    \A b \in Blobs :
        /\ \A p, q \in parts : p.blob = b /\ q.blob = b => p = q
        /\ \A k, l \in Keys :
              /\ objects[k].kind = "single" /\ b \in objects[k].etag
              /\ objects[l].kind = "single" /\ b \in objects[l].etag
              => k = l
        /\ ~ (ObjectReferences(b) /\ PartReferences(b))

(* No torn object: the parts linked to a key are those its present row     *)
(* was completed with, and only a multipart row has any.  This is what a   *)
(* get of a multipart object joins by object_key alone.                    *)
ObjectsIntact ==
    \A k \in Keys : BlobsOf(LinkedTo(k)) =
        IF objects[k].kind = "multipart" THEN objects[k].etag ELSE {}

(* The states of uploads and the links of parts agree: an in-progress      *)
(* upload has unlinked parts only, so no read sees them; a completed one   *)
(* has none that is unlinked; an aborted one has none at all.              *)
UploadsAndPartsAgree ==
    \A p \in parts :
        \/ uploads[p.upload].state = "inProgress" /\ p.object = NoKey
        \/ /\ uploads[p.upload].state = "completed"
           /\ p.object = uploads[p.upload].key

(* A multipart read is never cut short by a delete: every blob that a      *)
(* reader has still to stream is in the store until the reader releases    *)
(* it, whatever happened to the object since the read began.  This is what *)
(* the assertion of the streaming loop asks (bucket.worker.ts:713).        *)
StreamedBlobsSurvive ==
    \A r \in Readers : Streaming(r) =>
        \A n \in reader[r].need : n.blob \in stored

(* The wait group of a blob counts the readers that hold it, no more (a    *)
(* background delete would wait for ever) and no less (it would not wait). *)
WaitGroupsCountReaders ==
    \A b \in Blobs : inUse[b] = Cardinality(Holders(b))

(* Nothing is left behind: a stored blob is being written, referred to,    *)
(* about to be deleted or retained on purpose, unless a failure of the     *)
(* store, a restart or a refused put lost it.                              *)
GarbageIsCollected ==
    \A b \in stored :
        \/ life[b] \in {"uploaded", "waiting", "issued", "refused", "leaked"}
        \/ Referenced(b)
        \/ RetainDeleted /\ life[b] = "deleted"

(* A single-part read, which holds nothing, finds the blob its row named:  *)
(* no delete overtakes it.  Only a store that retains deleted blobs keeps  *)
(* this.                                                                   *)
SingleReadsFindTheirBlob ==
    \A r \in Readers : reader[r].phase = "single" =>
        \A n \in reader[r].need : n.blob \in stored

(* "if we put a blob in the store, then fail to insert the blob ID into    *)
(* the SQLite database for some reason ... (we'll just background-delete   *)
(* the blob in this case)" (blob.worker.ts:188-191): a put that is refused *)
(* leaves no blob behind.                                                  *)
RefusedPutsAreCollected ==
    \A b \in stored : life[b] # "refused"

(* "will never delete parts for in-progress uploads"                       *)
(* (bucket.worker.ts:81): a part of an upload that stays in progress goes  *)
(* only when the same part is uploaded again.                              *)
InProgressPartsKept ==
    [][\A p \in parts :
         uploads[p.upload].state = "inProgress"
           /\ uploads'[p.upload].state = "inProgress"
         => \E q \in parts' : q.upload = p.upload /\ q.part = p.part
                              /\ q.object = NoKey]_vars

(* An upload is finalised once, and a part that is linked to an object     *)
(* goes only when that object is replaced or deleted: aborting a completed *)
(* upload, or completing it again, takes nothing from the object.          *)
FinalisedUploadsStay ==
    [][/\ \A u \in Uploads : uploads[u].state \in {"completed", "aborted"} =>
              uploads'[u] = uploads[u]
       /\ \A p \in parts : p.object # NoKey /\ p \notin parts' =>
              objects'[p.object] # objects[p.object]]_vars

(* A conditional put decides on the row it replaces: a put that asked for  *)
(* no object, or for one version, never overwrites another object, however *)
(* long its body took to arrive.                                           *)
ConditionalPutsAreAtomic ==
    [][\A b \in Blobs, k \in Keys :
         LET asked == intent[b].onlyIf IN
         /\ intent[b] # NoRequest /\ intent[b].op = "put"
         /\ objects'[k] = [kind |-> "single", etag |-> {b}]
         /\ objects[k] # objects'[k]
         => /\ asked.test = "ifAbsent" => objects[k] = Absent
            /\ asked.test = "ifMatch" => objects[k] = asked.row]_vars

(* A background delete that awaits the readers of its blob is issued in    *)
(* the end, unless a restart loses it.                                     *)
WaitingDeletesGoOn ==
    \A b \in Blobs : life[b] = "waiting" ~> life[b] # "waiting"

-----------------------------------------------------------------------------
(* The inductive invariant, which R2BucketProofs proves.                   *)

(* A row refers to a blob exactly while the blob is committed.             *)
LifeMatchesTables ==
    \A b \in Blobs : Referenced(b) <=> life[b] = "committed"

(* A blob that was written and is not yet handed to a DELETE is stored.    *)
KeptBlobsAreStored ==
    \A b \in Blobs : life[b] \in {"uploaded", "committed", "waiting"} => b \in stored

(* A delete awaits only a wait group that someone will resolve.            *)
WaitingBlobsAreInUse ==
    \A b \in Blobs : life[b] = "waiting" => inUse[b] > 0

(* A reader needs each blob once, so it holds and releases it once.        *)
NeedsAreDistinct ==
    \A r \in Readers : \A m, n \in reader[r].need : m.blob = n.blob => m = n

(* No DELETE was issued for a blob that a reader holds.                    *)
HeldBlobsAreLive ==
    \A r \in Readers, b \in Blobs :
        Streaming(r) /\ Needs(r, b) => life[b] \in {"committed", "waiting"}

TablesInv == NoSharedBlobs /\ ObjectsIntact /\ UploadsAndPartsAgree
BlobsInv == LifeMatchesTables /\ KeptBlobsAreStored /\ WaitingBlobsAreInUse
ReadersInv == WaitGroupsCountReaders /\ NeedsAreDistinct /\ HeldBlobsAreLive

(* What every step keeps: the tables are consistent, the phases of blobs   *)
(* agree with the tables, the store and the wait groups, and readers hold  *)
(* blobs that no DELETE was issued for.                                    *)
IInv == TypeOK /\ TablesInv /\ BlobsInv /\ ReadersInv

(* A blob arrives in the store once its handler wrote it, and only a store *)
(* that retains deleted blobs has it after its DELETE was answered.        *)
StoredBlobsAreKnown ==
    \A b \in stored :
        /\ life[b] \notin {"unused", "storing"}
        /\ life[b] = "deleted" => RetainDeleted

(* A row that is not there has no etag, a single-part one has one blob.    *)
RowsHaveTheirShape ==
    \A k \in Keys :
        /\ objects[k].kind = "absent" => objects[k] = Absent
        /\ objects[k].kind = "single" => \E b \in Blobs : objects[k].etag = {b}

(* The phases of a blob that no row has referred to yet.                   *)
NeverReferenced == {"unused", "storing", "uploaded"}

(* The version that a conditional put asks for was an object: its blobs    *)
(* were committed then, those of a single-part one never were a part's,    *)
(* and an object with its etag is that version again.                      *)
WasAnObject(row) ==
    /\ row.kind \in {"single", "multipart"}
    /\ row.kind = "single" => row.etag # {}
    /\ \A b \in row.etag : /\ life[b] \notin NeverReferenced
                           /\ row.kind = "single" => ~ PartReferences(b)
    /\ \A k \in Keys : objects[k] # Absent /\ objects[k].etag = row.etag
                          => objects[k] = row

AskedRowsWereObjects ==
    \A b \in Blobs :
        intent[b].op = "put" /\ intent[b].onlyIf.test = "ifMatch"
        => WasAnObject(intent[b].onlyIf.row)

HistoryInv == StoredBlobsAreKnown /\ RowsHaveTheirShape /\ AskedRowsWereObjects

(* What the properties of the store's contents and of conditional puts     *)
(* rest on besides.                                                        *)
FullInv == IInv /\ HistoryInv
=============================================================================
