-------------------------- MODULE KeyValueStorage --------------------------
(***************************************************************************)
(* The storage under the KV namespaces and caches of Miniflare             *)
(* (packages/miniflare/src/workers/shared/keyvalue.worker.ts): a SQLite    *)
(* table of entries that expire, each naming a blob of the blob store.     *)
(*                                                                         *)
(* One action is what runs up to the next await.  Expired entries go when  *)
(* a get or a list meets them.  A list comes in pages; requests run        *)
(* between two pages.                                                      *)
(***************************************************************************)
EXTENDS Naturals, FiniteSets

CONSTANTS
    Keys,       \* keys, in the order the table sorts them by
    Prefixed,   \* those that begin with the prefix of the list request
    Blobs,      \* blob ids, each generated once
    NoBlob,     \* no row
    Lifetimes,  \* how long from now entries are asked to live
    Never,      \* SQL NULL in expiration
    Limit,      \* limit of the list request
    Readers,    \* concurrent gets
    MaxTime     \* bound: the last moment of the clock

ASSUME KeyAssumption ==
    /\ Keys \subseteq Nat \ {0}
    /\ IsFiniteSet(Keys)
    /\ Prefixed \subseteq Keys
    /\ NoBlob \notin Blobs
ASSUME TimeAssumption ==
    /\ MaxTime \in Nat
    /\ Lifetimes \subseteq Nat
    /\ Never \notin Nat
ASSUME LimitAssumption == Limit \in Nat \ {0}

VARIABLES
    entries,  \* table _mf_entries, by key
    stored,   \* blobs the blob store holds
    life,     \* where the handler responsible for each blob stands
    intent,   \* key and expiration of the put that writes each blob
    now,      \* the clock
    reader,   \* gets that await the blob store
    pages,    \* the list request, as its client sees it
    steady    \* history: keys that have been there since its first page

vars == <<entries, stored, life, intent, now, reader, pages, steady>>

Expirations == Nat \cup {Never}
NoEntry == [blob |-> NoBlob, expiration |-> Never]
Entry == [blob : Blobs, expiration : Expirations] \cup {NoEntry}

NoRequest == [key |-> 0, expiration |-> Never]
PutRequest == [key : Keys, expiration : Expirations] \cup {NoRequest}

(* As in R2Bucket: storing and uploaded before the row is written,         *)
(* committed while it is there, issued when the DELETE was sent.           *)
Phases == {"unused", "storing", "uploaded", "committed", "issued", "deleted",
           "leaked"}

IdleReader == [key |-> 0, blob |-> NoBlob]
ReaderState == [key : Keys, blob : Blobs] \cup {IdleReader}

(* after: the cursor, the last key of the page before; seen: keys listed.  *)
PagesState ==
    [phase : {"idle", "open", "done"}, after : Nat, seen : SUBSET Keys]
NoPages == [phase |-> "idle", after |-> 0, seen |-> {}]

Present(k) == entries[k] # NoEntry
Referenced(b) == \E k \in Keys : entries[k].blob = b

Init ==
    /\ entries = [k \in Keys |-> NoEntry]
    /\ stored = {}
    /\ life = [b \in Blobs |-> "unused"]
    /\ intent = [b \in Blobs |-> NoRequest]
    /\ now = 0
    /\ reader = [r \in Readers |-> IdleReader]
    /\ pages = NoPages
    /\ steady = {}

-----------------------------------------------------------------------------
(* Time.                                                                   *)

(* #hasExpired, which get and delete use.                                  *)
HasExpired(e) == e.expiration # Never /\ e.expiration <= now

(* WHERE expiration IS NULL OR expiration >= :now, which list uses.        *)
Listable(k) ==
    /\ k \in Prefixed
    /\ Present(k)
    /\ entries[k].expiration = Never \/ entries[k].expiration >= now

(* Mutated: a NULL is compared as if it were 0.                            *)
OutdatedOrNever(k) ==
    Present(k) /\ (entries[k].expiration = Never \/ entries[k].expiration < now)

(* DELETE ... WHERE expiration < :now, which list uses.                    *)
Outdated(k) ==
    Present(k) /\ entries[k].expiration # Never /\ entries[k].expiration < now

Tick ==
    /\ now < MaxTime
    /\ now' = now + 1
    /\ UNCHANGED <<entries, stored, life, intent, reader, pages>>

-----------------------------------------------------------------------------
(* put.                                                                    *)

BlobsOf(ks) == {entries[k].blob : k \in {l \in ks : Present(l)}}

(* The phases after the blobs bs were handed to #backgroundDelete.         *)
BackgroundDelete(bs) ==
    [b \in Blobs |-> IF b \in bs THEN "issued" ELSE life[b]]

(* The expiration is fixed when the request arrives.                       *)
StartPut(b, k, e) ==
    /\ life[b] = "unused"
    /\ life' = [life EXCEPT ![b] = "storing"]
    /\ intent' = [intent EXCEPT ![b] = [key |-> k, expiration |-> e]]
    /\ UNCHANGED <<entries, stored, now, reader, pages>>

BlobStored(b) ==
    /\ life[b] = "storing"
    /\ stored' = stored \cup {b}
    /\ life' = [life EXCEPT ![b] = "uploaded"]
    /\ UNCHANGED <<entries, intent, now, reader, pages>>

(* BlobStore.put rejects, whether the blob arrived or not.                 *)
BlobPutRejected(b) ==
    /\ life[b] = "storing"
    /\ stored' \in {stored, stored \cup {b}}
    /\ life' = [life EXCEPT ![b] = "leaked"]
    /\ intent' = [intent EXCEPT ![b] = NoRequest]
    /\ UNCHANGED <<entries, now, reader, pages>>

(* Mutated: the row is written before BlobStore.put has returned.          *)
WrittenOrStoring(b) == life[b] \in {"storing", "uploaded"}

Written(b) == life[b] = "uploaded"

(* The value was too large: the whole of it was written before the signal  *)
(* is looked at.                                                           *)
AbortPut(b) ==
    /\ Written(b)
    /\ life' = BackgroundDelete({b})
    /\ intent' = [intent EXCEPT ![b] = NoRequest]
    /\ UNCHANGED <<entries, stored, now, reader, pages>>

(* Mutated: the blob of the previous entry is not looked up.               *)
NoPrevious(k) == {}

Previous(k) == BlobsOf({k})

CommitPut(b) ==
    LET k == intent[b].key
    IN /\ Written(b)
       /\ entries' = [entries EXCEPT ![k] =
                        [blob |-> b, expiration |-> intent[b].expiration]]
       /\ life' = [BackgroundDelete(Previous(k)) EXCEPT ![b] = "committed"]
       /\ intent' = [intent EXCEPT ![b] = NoRequest]
       /\ UNCHANGED <<stored, now, reader, pages>>

BlobDeleted(b) ==
    /\ life[b] = "issued"
    /\ stored' = stored \ {b}
    /\ life' = [life EXCEPT ![b] = "deleted"]
    /\ UNCHANGED <<entries, intent, now, reader, pages>>

(* A DELETE that fails is ignored.                                         *)
BlobDeleteFailed(b) ==
    /\ life[b] = "issued"
    /\ life' = [life EXCEPT ![b] = "leaked"]
    /\ UNCHANGED <<entries, stored, intent, now, reader, pages>>

-----------------------------------------------------------------------------
(* delete, deleteAll and get.                                              *)

(* Mutated: the rows go and their blobs are forgotten.                     *)
RemoveRowsOnly(ks) ==
    /\ entries' = [k \in Keys |-> IF k \in ks THEN NoEntry ELSE entries[k]]
    /\ UNCHANGED life

Remove(ks) ==
    /\ entries' = [k \in Keys |-> IF k \in ks THEN NoEntry ELSE entries[k]]
    /\ life' = BackgroundDelete(BlobsOf(ks))

Delete(k) ==
    /\ Present(k)
    /\ Remove({k})
    /\ UNCHANGED <<stored, intent, now, reader, pages>>

DeleteAll ==
    /\ Remove(Keys)
    /\ UNCHANGED <<stored, intent, now, reader, pages>>

(* A get that meets an expired entry removes it.                           *)
GetExpired(k) ==
    /\ Present(k)
    /\ HasExpired(entries[k])
    /\ Remove({k})
    /\ UNCHANGED <<stored, intent, now, reader, pages>>

Get(r, k) ==
    /\ reader[r] = IdleReader
    /\ Present(k)
    /\ ~ HasExpired(entries[k])
    /\ reader' = [reader EXCEPT ![r] = [key |-> k, blob |-> entries[k].blob]]
    /\ UNCHANGED <<entries, stored, life, intent, now, pages>>

(* The blob store answers with the value, or with nothing: a miss.         *)
GetAnswered(r) ==
    /\ reader[r] # IdleReader
    /\ reader' = [reader EXCEPT ![r] = IdleReader]
    /\ UNCHANGED <<entries, stored, life, intent, now, pages>>

-----------------------------------------------------------------------------
(* list.                                                                   *)

Candidates == {k \in Keys : Listable(k) /\ k > pages.after}

(* Mutated: the cursor is the row that was fetched beyond the limit.       *)
IsFirstBeyond(c, p) ==
    c \in Candidates \ p /\ \A k \in Candidates \ p : c <= k

IsLastOf(c, p) == c \in p /\ \A k \in p : k <= c

(* What list returns, after which it removes outdated rows.                *)
Answer(phase, after, p) ==
    /\ pages' = [phase |-> phase, after |-> after, seen |-> pages.seen \cup p]
    /\ Remove({k \in Keys : Outdated(k)})
    /\ UNCHANGED <<stored, intent, now, reader>>

(* ORDER BY key LIMIT :limit, with one row more to see whether there are   *)
(* any: then the cursor is the last key of the page.                       *)
ListPage(p, c) ==
    /\ pages.phase # "done"
    /\ Cardinality(p) = Limit
    /\ Candidates \ p # {}
    /\ \A k \in p, l \in Candidates \ p : k < l
    /\ IsLastOf(c, p)
    /\ Answer("open", c, p)

ListLastPage ==
    /\ pages.phase # "done"
    /\ Cardinality(Candidates) <= Limit
    /\ Answer("done", pages.after, Candidates)

(* A client lists again.                                                   *)
ListAgain ==
    /\ pages.phase # "idle"
    /\ pages' = NoPages
    /\ UNCHANGED <<entries, stored, life, intent, now, reader>>

-----------------------------------------------------------------------------
(* The process ends and finds its table and its blob store.                *)
Restart ==
    /\ life' = [b \in Blobs |->
                  IF life[b] \in {"storing", "uploaded", "issued"}
                  THEN "leaked" ELSE life[b]]
    /\ \E arrived \in SUBSET {b \in Blobs : life[b] = "storing"},
          gone \in SUBSET {b \in Blobs : life[b] = "issued"} :
             stored' = (stored \cup arrived) \ gone
    /\ intent' = [b \in Blobs |-> NoRequest]
    /\ reader' = [r \in Readers |-> IdleReader]
    /\ UNCHANGED <<entries, now, pages>>

Step ==
    \/ Tick
    \/ \E b \in Blobs :
          \/ \E k \in Keys, e \in {now + t : t \in Lifetimes} \cup {Never} :
                StartPut(b, k, e)
          \/ BlobStored(b)
          \/ BlobPutRejected(b)
          \/ AbortPut(b)
          \/ CommitPut(b)
          \/ BlobDeleted(b)
          \/ BlobDeleteFailed(b)
    \/ \E k \in Keys : Delete(k) \/ GetExpired(k)
    \/ DeleteAll
    \/ \E r \in Readers : GetAnswered(r) \/ \E k \in Keys : Get(r, k)
    \/ \E p \in SUBSET Candidates, c \in Keys : ListPage(p, c)
    \/ ListLastPage
    \/ ListAgain
    \/ Restart

(* steady starts as what is listable when the first page is read, and      *)
(* loses a key when it goes or expires.                                    *)
Watch ==
    steady' = IF pages'.phase = "idle" THEN {}
              ELSE (IF pages.phase = "idle" THEN Keys ELSE steady)
                     \cap {k \in Keys : Listable(k)'}

Next == Step /\ Watch

Spec == Init /\ [][Next]_vars

-----------------------------------------------------------------------------
(* Properties.                                                             *)

(* Every variable has its type.                                            *)
TypeOK ==
    /\ entries \in [Keys -> Entry]
    /\ stored \subseteq Blobs
    /\ life \in [Blobs -> Phases]
    /\ intent \in [Blobs -> PutRequest]
    /\ now \in Nat
    /\ reader \in [Readers -> ReaderState]
    /\ pages \in PagesState
    /\ steady \subseteq Keys

(* A get whose blob is gone when the blob store answers was overtaken by a *)
(* put, a delete or a purge: no entry that is still there reads as a miss. *)
MissesAreOvertaken ==
    \A r \in Readers : reader[r] # IdleReader /\ reader[r].blob \notin stored =>
        entries[reader[r].key].blob # reader[r].blob

(* Nothing is left behind: a stored blob has a row, or a handler that will *)
(* write one or delete it, unless a failure or a restart lost it.          *)
GarbageIsCollected ==
    \A b \in stored :
        Referenced(b) \/ life[b] \in {"uploaded", "issued", "leaked"}

(* The clean-up of get and list takes expired entries only; any other goes *)
(* by a delete or a purge.                                                 *)
LiveEntriesStay ==
    [][\A k \in Keys :
         Present(k) /\ ~ HasExpired(entries[k]) /\ ~ Present(k)' =>
            Delete(k) \/ DeleteAll]_vars

(* "The cursor encodes a key to start after rather than the key to start   *)
(* at to ensure keys added between `list()` calls are returned"            *)
(* (keyvalue.worker.ts:297-298): over all its pages a list gives every key *)
(* that was there all the time, whatever came and went between them.       *)
PagesAreComplete ==
    pages.phase = "done" => steady \subseteq pages.seen

-----------------------------------------------------------------------------
(* The inductive invariant, which KeyValueProofs proves.                   *)

(* A row has its blob, of which no DELETE is on its way, and no two rows   *)
(* share one: an overwrite, a purge or an expiry takes nothing from        *)
(* another entry, whatever was in flight when the process ended.           *)
EntriesHaveTheirBlob ==
    /\ \A k, l \in Keys :
          Present(k) /\ entries[k].blob = entries[l].blob => k = l
    /\ \A b \in Blobs : Referenced(b) <=> life[b] = "committed"
    /\ \A b \in Blobs : life[b] \in {"uploaded", "committed"} => b \in stored

(* A blob is stored from the answer to its PUT to the answer to its        *)
(* DELETE, and what a handler was asked to do outlives neither.            *)
BlobsHaveTheirHandler ==
    /\ \A b \in stored : life[b] \notin {"unused", "storing", "deleted"}
    /\ \A b \in Blobs : life[b] \in {"storing", "uploaded"} =>
          intent[b] # NoRequest

(* A key that has been there all the time was listed or is still to come.  *)
NothingIsSkipped ==
    /\ pages.phase = "idle" => pages = NoPages
    /\ \A k \in steady : Listable(k)
    /\ \A k \in steady :
          k \in pages.seen \/ (pages.phase = "open" /\ k > pages.after)

IInv == TypeOK /\ EntriesHaveTheirBlob /\ BlobsHaveTheirHandler /\ NothingIsSkipped
=============================================================================
