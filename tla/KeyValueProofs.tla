--------------------------- MODULE KeyValueProofs ---------------------------
(***************************************************************************)
(* Proofs about KeyValueStorage, for every finite set of keys, any blobs,  *)
(* readers, lifetimes and limit, however long the clock runs.              *)
(***************************************************************************)
EXTENDS KeyValueStorage, TLAPS

StorageInv == TypeOK /\ EntriesHaveTheirBlob /\ BlobsHaveTheirHandler

-----------------------------------------------------------------------------
(* Rows that go.                                                           *)

(* An entry that is there has a blob, one that is not refers to none.      *)
LEMMA PresentHasBlob ==
    ASSUME TypeOK, NEW k \in Keys
    PROVE  IF Present(k) THEN entries[k].blob \in Blobs
                         ELSE entries[k].blob = NoBlob
BY DEF TypeOK, Present, Entry, NoEntry

(* Removing rows leaves no reference to the blobs handed to the background *)
(* delete, and every other row with its own.                               *)
LEMMA RemoveKeeps ==
    ASSUME StorageInv, NEW ks \in SUBSET Keys, Remove(ks),
           UNCHANGED <<stored, intent, reader>>
    PROVE  EntriesHaveTheirBlob' /\ BlobsHaveTheirHandler'
<1> USE KeyAssumption DEF StorageInv
<1>1. entries' = [k \in Keys |-> IF k \in ks THEN NoEntry ELSE entries[k]]
  BY DEF Remove
<1>2. life' = [b \in Blobs |-> IF b \in BlobsOf(ks) THEN "issued" ELSE life[b]]
  BY DEF Remove, BackgroundDelete
<1>3. \A b : b \in BlobsOf(ks) <=> \E k \in ks : Present(k) /\ entries[k].blob = b
  BY DEF BlobsOf
<1>4. ASSUME NEW b \in Blobs
      PROVE  Referenced(b)' <=> Referenced(b) /\ b \notin BlobsOf(ks)
  <2>1. Referenced(b)' <=> \E k \in Keys \ ks : entries[k].blob = b
    BY <1>1, <1>4 DEF Referenced, NoEntry
  <2>2. \A k \in Keys : entries[k].blob = b => Present(k)
    BY <1>4, PresentHasBlob
  <2> QED BY <1>3, <2>1, <2>2 DEF Referenced, EntriesHaveTheirBlob
<1>5. EntriesHaveTheirBlob'
  <2>1. ASSUME NEW k \in Keys, NEW l \in Keys, Present(k)',
               (entries[k].blob = entries[l].blob)'
        PROVE  k = l
    <3>1. k \notin ks /\ Present(k) /\ entries'[k] = entries[k]
      BY <1>1, <2>1 DEF Present
    <3>2. entries[k].blob \in Blobs
      BY <3>1, PresentHasBlob
    <3>3. l \notin ks
      BY <1>1, <2>1, <3>1, <3>2 DEF NoEntry
    <3> QED BY <1>1, <2>1, <3>1, <3>3 DEF EntriesHaveTheirBlob
  <2>2. ASSUME NEW b \in Blobs PROVE (Referenced(b) <=> life[b] = "committed")'
    BY <1>2, <1>4 DEF EntriesHaveTheirBlob
  <2>3. ASSUME NEW b \in Blobs, life'[b] \in {"uploaded", "committed"}
        PROVE  b \in stored'
    BY <1>2, <2>3 DEF EntriesHaveTheirBlob
  <2> QED BY <2>1, <2>2, <2>3 DEF EntriesHaveTheirBlob
<1>6. BlobsHaveTheirHandler'
  BY <1>2 DEF BlobsHaveTheirHandler, TypeOK
<1> QED BY <1>5, <1>6

(* The types of what Remove assigns.                                       *)
LEMMA RemoveTypes ==
    ASSUME TypeOK, NEW ks, Remove(ks)
    PROVE  entries' \in [Keys -> Entry] /\ life' \in [Blobs -> Phases]
BY DEF TypeOK, Remove, BackgroundDelete, Entry, Phases

-----------------------------------------------------------------------------
(* The table and the blob store.                                           *)

(* The empty storage satisfies the invariant.                              *)
LEMMA InitStorage == Init => StorageInv
BY KeyAssumption DEF Init, StorageInv, TypeOK, EntriesHaveTheirBlob, Present,
   BlobsHaveTheirHandler, Referenced, Entry, NoEntry, PutRequest, NoRequest,
   ReaderState, IdleReader, PagesState, NoPages, Phases

(* A put that is committed replaces one row and gives up its blob.         *)
LEMMA CommitKeeps ==
    ASSUME StorageInv, NEW b \in Blobs, CommitPut(b)
    PROVE  /\ entries' \in [Keys -> Entry]
           /\ life' \in [Blobs -> Phases]
           /\ intent' \in [Blobs -> PutRequest]
           /\ EntriesHaveTheirBlob' /\ BlobsHaveTheirHandler'
<1> DEFINE key == intent[b].key
           old == entries[key].blob
<1> USE KeyAssumption DEF StorageInv
<1>1. life[b] = "uploaded" /\ b \in stored /\ ~ Referenced(b)
  BY DEF CommitPut, Written, EntriesHaveTheirBlob
<1>2. key \in Keys /\ intent[b].expiration \in Expirations
  BY <1>1 DEF BlobsHaveTheirHandler, TypeOK, PutRequest
<1>3. entries' = [entries EXCEPT ![key] =
                    [blob |-> b, expiration |-> intent[b].expiration]]
  BY DEF CommitPut
<1>4. \A c \in Blobs : c \in Previous(key) <=> Present(key) /\ c = old
  BY <1>2 DEF Previous, BlobsOf
<1>5. life' = [c \in Blobs |-> IF c = b THEN "committed"
                               ELSE IF Present(key) /\ c = old THEN "issued"
                               ELSE life[c]]
  BY <1>4 DEF CommitPut, BackgroundDelete
<1>6. entries' \in [Keys -> Entry] /\ life' \in [Blobs -> Phases]
  BY <1>2, <1>3, <1>5 DEF TypeOK, Entry, Phases
<1>7. intent' = [intent EXCEPT ![b] = NoRequest] /\ intent' \in [Blobs -> PutRequest]
  BY DEF CommitPut, TypeOK, PutRequest
<1>8. stored' = stored
  BY DEF CommitPut
<1>9. /\ entries'[key].blob = b /\ entries'[key] # NoEntry
      /\ \A k \in Keys \ {key} : entries'[k] = entries[k]
      /\ \A k \in Keys \ {key} : Present(k)' <=> Present(k)
  <2>1. entries'[key].blob = b /\ \A k \in Keys \ {key} : entries'[k] = entries[k]
    BY <1>2, <1>3 DEF TypeOK
  <2>2. entries'[key] # NoEntry
    BY <2>1 DEF NoEntry
  <2> QED BY <2>1, <2>2 DEF Present
<1>10. \A k \in Keys : entries[k].blob # b
  BY <1>1 DEF Referenced
<1>11. ASSUME NEW k \in Keys, NEW l \in Keys, Present(k)',
              (entries[k].blob = entries[l].blob)'
       PROVE  k = l
  BY <1>9, <1>10, <1>11 DEF EntriesHaveTheirBlob
<1>12. ASSUME NEW c \in Blobs PROVE (Referenced(c) <=> life[c] = "committed")'
  <2>1. CASE c = b
    BY <1>2, <1>5, <1>9, <2>1 DEF Referenced
  <2>2. CASE c # b
    <3>1. Referenced(c)' <=> \E k \in Keys \ {key} : entries[k].blob = c
      BY <1>9, <2>2 DEF Referenced
    <3>2. CASE Present(key) /\ c = old
      BY <1>2, <1>5, <2>2, <3>1, <3>2 DEF EntriesHaveTheirBlob
    <3>3. CASE ~ (Present(key) /\ c = old)
      <4>1. entries[key].blob # c
        BY <1>2, <3>3, PresentHasBlob
      <4>2. Referenced(c)' <=> Referenced(c)
        BY <3>1, <4>1 DEF Referenced
      <4>3. life'[c] = life[c]
        BY <1>5, <2>2, <3>3
      <4> QED BY <4>2, <4>3 DEF EntriesHaveTheirBlob
    <3> QED BY <3>2, <3>3
  <2> QED BY <2>1, <2>2
<1>13. ASSUME NEW c \in Blobs, life'[c] \in {"uploaded", "committed"}
       PROVE  c \in stored'
  BY <1>1, <1>5, <1>8, <1>13 DEF EntriesHaveTheirBlob
<1>14. EntriesHaveTheirBlob'
  BY <1>11, <1>12, <1>13 DEF EntriesHaveTheirBlob
<1>15. BlobsHaveTheirHandler'
  BY <1>5, <1>7, <1>8 DEF BlobsHaveTheirHandler, TypeOK
<1> QED BY <1>6, <1>7, <1>14, <1>15

(* Every step keeps the types, and rows and blobs together.                *)
LEMMA StorageStep ==
    ASSUME StorageInv, Next
    PROVE  StorageInv'
<1> USE KeyAssumption, TimeAssumption DEF StorageInv
<1> DEFINE Kept == EntriesHaveTheirBlob /\ BlobsHaveTheirHandler
           Types == /\ entries' \in [Keys -> Entry]
                    /\ stored' \subseteq Blobs
                    /\ life' \in [Blobs -> Phases]
                    /\ intent' \in [Blobs -> PutRequest]
                    /\ now' \in Nat
                    /\ reader' \in [Readers -> ReaderState]
                    /\ pages' \in PagesState
<1>1. SUFFICES Types /\ Kept'
  <2>1. steady' \subseteq Keys
    BY DEF Next, Watch, TypeOK
  <2> QED BY <2>1 DEF TypeOK
<1>2. CASE Tick
  <2>1. Types
    BY <1>2 DEF Tick, TypeOK
  <2>2. Kept'
    BY <1>2 DEF Tick, EntriesHaveTheirBlob, Present, Referenced, BlobsHaveTheirHandler
  <2> QED BY <2>1, <2>2
<1>3. ASSUME NEW b \in Blobs, NEW k \in Keys,
             NEW e \in {now + t : t \in Lifetimes} \cup {Never}, StartPut(b, k, e)
      PROVE  Types /\ Kept'
  <2>1. e \in Expirations
    BY DEF Expirations, TypeOK
  <2>2. [key |-> k, expiration |-> e] \in PutRequest
    BY <2>1 DEF PutRequest
  <2>3. [key |-> k, expiration |-> e] # NoRequest
    BY DEF NoRequest
  <2>4. Types
    BY <1>3, <2>2 DEF StartPut, TypeOK, Phases
  <2>5. EntriesHaveTheirBlob'
    BY <1>3 DEF StartPut, TypeOK, EntriesHaveTheirBlob, Present, Referenced
  <2>6. BlobsHaveTheirHandler'
    BY <1>3, <2>3 DEF StartPut, TypeOK, BlobsHaveTheirHandler
  <2> QED BY <2>4, <2>5, <2>6
<1>4. ASSUME NEW b \in Blobs,
             \/ BlobStored(b) \/ BlobPutRejected(b)
             \/ BlobDeleted(b) \/ BlobDeleteFailed(b)
      PROVE  Types /\ Kept'
  <2> USE DEF BlobStored, BlobPutRejected, BlobDeleted, BlobDeleteFailed
  <2>1. Types
    BY <1>4 DEF TypeOK, Phases, PutRequest
  <2>2. EntriesHaveTheirBlob'
    BY <1>4 DEF TypeOK, EntriesHaveTheirBlob, Present, Referenced
  <2>3. BlobsHaveTheirHandler'
    BY <1>4 DEF TypeOK, BlobsHaveTheirHandler
  <2> QED BY <2>1, <2>2, <2>3
<1>5. ASSUME NEW b \in Blobs, AbortPut(b)
      PROVE  Types /\ Kept'
  <2> USE <1>5 DEF AbortPut, Written, BackgroundDelete
  <2>1. Types
    BY DEF TypeOK, Phases, PutRequest
  <2>2. EntriesHaveTheirBlob'
    BY DEF TypeOK, EntriesHaveTheirBlob, Present, Referenced
  <2>3. BlobsHaveTheirHandler'
    BY DEF TypeOK, BlobsHaveTheirHandler, EntriesHaveTheirBlob
  <2> QED BY <2>1, <2>2, <2>3
<1>6. ASSUME NEW b \in Blobs, CommitPut(b)
      PROVE  Types /\ Kept'
  <2>1. UNCHANGED <<stored, now, reader, pages>>
    BY <1>6 DEF CommitPut
  <2> QED BY <1>6, <2>1, CommitKeeps DEF TypeOK
<1>7. ASSUME NEW ks \in SUBSET Keys, Remove(ks),
             UNCHANGED <<stored, intent, now, reader>>, pages' \in PagesState
      PROVE  Types /\ Kept'
  BY <1>7, RemoveKeeps, RemoveTypes DEF TypeOK
<1>8. ASSUME NEW k \in Keys, Delete(k) \/ GetExpired(k)
      PROVE  Types /\ Kept'
  BY <1>7, <1>8 DEF Delete, GetExpired, TypeOK
<1>9. CASE DeleteAll
  BY <1>7, <1>9 DEF DeleteAll, TypeOK
<1>10. ASSUME NEW r \in Readers,
              GetAnswered(r) \/ \E k \in Keys : Get(r, k)
       PROVE  Types /\ Kept'
  <2>1. UNCHANGED <<entries, stored, life, intent, now, pages>>
    BY <1>10 DEF GetAnswered, Get
  <2>2. reader' \in [Readers -> ReaderState]
    BY <1>10, PresentHasBlob DEF GetAnswered, Get, TypeOK, ReaderState
  <2> QED
    BY <2>1, <2>2 DEF TypeOK, EntriesHaveTheirBlob, Present, Referenced,
       BlobsHaveTheirHandler
<1>11. ASSUME NEW p \in SUBSET Candidates, NEW c \in Keys, ListPage(p, c)
       PROVE  Types /\ Kept'
  <2>1. pages' \in PagesState
    BY <1>11 DEF ListPage, Answer, PagesState, TypeOK, Candidates
  <2> QED BY <1>7, <1>11, <2>1 DEF ListPage, Answer
<1>12. CASE ListLastPage
  <2>1. pages' \in PagesState
    BY <1>12 DEF ListLastPage, Answer, PagesState, TypeOK, Candidates
  <2> QED BY <1>7, <1>12, <2>1 DEF ListLastPage, Answer
<1>13. CASE ListAgain
  <2>1. UNCHANGED <<entries, stored, life, intent, now, reader>>
    BY <1>13 DEF ListAgain
  <2>2. pages' \in PagesState
    BY <1>13 DEF ListAgain, NoPages, PagesState
  <2> QED
    BY <2>1, <2>2 DEF TypeOK, EntriesHaveTheirBlob, Present, Referenced,
       BlobsHaveTheirHandler
<1>14. CASE Restart
  <2> USE <1>14 DEF Restart
  <2>1. Types
    BY DEF TypeOK, Phases, PutRequest, ReaderState
  <2>2. EntriesHaveTheirBlob'
    <3>1. \A b \in Blobs : life'[b] = "committed" <=> life[b] = "committed"
      BY DEF TypeOK
    <3>2. \A b \in Blobs : life'[b] # "uploaded"
      BY DEF TypeOK
    <3>3. \A b \in stored : life[b] = "committed" => b \in stored'
      OBVIOUS
    <3> QED BY <3>1, <3>2, <3>3 DEF EntriesHaveTheirBlob, Present, Referenced
  <2>3. BlobsHaveTheirHandler'
    BY DEF TypeOK, BlobsHaveTheirHandler
  <2> QED BY <2>1, <2>2, <2>3
<1> QED
  BY <1>2, <1>3, <1>4, <1>5, <1>6, <1>8, <1>9, <1>10, <1>11, <1>12, <1>13, <1>14
  DEF Next, Step

-----------------------------------------------------------------------------
(* Pages.                                                                  *)

(* The rows a page removes are none that can be listed.                     *)
LEMMA AnswerKeeps ==
    ASSUME TypeOK, NEW phase, NEW after, NEW p, Answer(phase, after, p)
    PROVE  \A k \in Keys : Listable(k)' <=> Listable(k)
<1>1. entries' = [k \in Keys |-> IF Outdated(k) THEN NoEntry ELSE entries[k]]
  BY DEF Answer, Remove
<1>2. now' = now
  BY DEF Answer
<1> QED
  BY <1>1, <1>2, TimeAssumption
  DEF Listable, Outdated, Present, TypeOK, Entry, NoEntry, Expirations

(* Every step keeps what the pages owe to the keys that were there.        *)
LEMMA PagesStep ==
    ASSUME TypeOK, NothingIsSkipped, Next
    PROVE  NothingIsSkipped'
<1> USE KeyAssumption
<1>1. Watch
  BY DEF Next
<1>2. \A k \in steady' : k \in Keys /\ Listable(k)'
  BY <1>1 DEF Watch
<1> DEFINE Owed ==
             /\ pages'.phase = "idle" => pages' = NoPages
             /\ \A k \in steady' :
                   k \in pages'.seen \/ (pages'.phase = "open" /\ k > pages'.after)
<1>3. SUFFICES Owed
  BY <1>2 DEF NothingIsSkipped
<1>4. CASE pages' = pages
  BY <1>1, <1>4 DEF Watch, NothingIsSkipped
<1>5. ASSUME pages'.phase # "idle", pages.phase # "done",
             NEW k \in steady', Listable(k)
      PROVE  k \in pages.seen \/ k \in Candidates
  <2>1. CASE pages.phase = "idle"
    <3>1. pages.after = 0
      BY <2>1 DEF NothingIsSkipped, NoPages
    <3>2. k \in Keys
      BY <1>2
    <3>3. k \in Nat /\ k # 0
      BY <3>2
    <3>4. k > 0
      BY <3>3
    <3> QED BY <1>5, <3>1, <3>2, <3>4 DEF Candidates
  <2>2. CASE pages.phase = "open"
    BY <1>1, <1>2, <1>5, <2>2 DEF Watch, NothingIsSkipped, Candidates
  <2> QED BY <1>5, <2>1, <2>2 DEF TypeOK, PagesState
<1>6. ASSUME NEW p \in SUBSET Candidates, NEW c \in Keys, ListPage(p, c)
      PROVE  Owed
  <2>1. /\ pages' = [phase |-> "open", after |-> c, seen |-> pages.seen \cup p]
        /\ Answer("open", c, p)
        /\ pages.phase # "done"
    BY <1>6 DEF ListPage, Answer
  <2>2. \A l \in Candidates \ p : c < l
    BY <1>6 DEF ListPage, IsLastOf
  <2>3. ASSUME NEW k \in steady' PROVE k \in pages'.seen \/ k > pages'.after
    <3>1. k \in pages.seen \/ k \in Candidates
      BY <1>2, <1>5, <2>1, AnswerKeeps
    <3>2. c \in Nat /\ k \in Nat
      BY <1>2
    <3> QED BY <2>1, <2>2, <3>1, <3>2
  <2> QED BY <2>1, <2>3
<1>7. CASE ListLastPage
  <2>1. /\ pages' = [phase |-> "done", after |-> pages.after,
                    seen |-> pages.seen \cup Candidates]
        /\ Answer("done", pages.after, Candidates)
        /\ pages.phase # "done"
    BY <1>7 DEF ListLastPage, Answer
  <2>2. ASSUME NEW k \in steady' PROVE k \in pages'.seen
    <3>1. k \in pages.seen \/ k \in Candidates
      BY <1>2, <1>5, <2>1, AnswerKeeps
    <3> QED BY <2>1, <3>1
  <2> QED BY <2>1, <2>2
<1>8. CASE ListAgain
  BY <1>1, <1>8 DEF ListAgain, NoPages, Watch
<1>9. CASE UNCHANGED pages
  BY <1>4, <1>9
<1> QED
  BY <1>6, <1>7, <1>8, <1>9
  DEF Next, Step, Tick, StartPut, BlobStored, BlobPutRejected, AbortPut,
      CommitPut, BlobDeleted, BlobDeleteFailed, Delete, GetExpired, DeleteAll,
      GetAnswered, Get, Restart

-----------------------------------------------------------------------------
(* The theorems.                                                           *)

(* What no step changes stays as it was.                                   *)
LEMMA StutterKeeps ==
    ASSUME IInv, UNCHANGED vars
    PROVE  IInv'
BY DEF IInv, vars, TypeOK, EntriesHaveTheirBlob, BlobsHaveTheirHandler,
   NothingIsSkipped, Present, Referenced, Listable

(* Rows keep their blobs, blobs their handlers, and pages skip nothing.    *)
THEOREM StorageCorrect == Spec => []IInv
<1>1. Init => IInv
  BY InitStorage DEF Init, IInv, StorageInv, NothingIsSkipped, NoPages
<1>2. ASSUME IInv, [Next]_vars PROVE IInv'
  BY <1>2, StorageStep, PagesStep, StutterKeeps DEF IInv, StorageInv
<1> QED BY <1>1, <1>2, PTL DEF Spec

(* A get misses an entry only when another request overtook it.            *)
THEOREM MissesCorrect == Spec => []MissesAreOvertaken
<1>1. IInv => MissesAreOvertaken
  <2> SUFFICES ASSUME IInv, NEW r \in Readers, reader[r] # IdleReader,
                      reader[r].blob \notin stored
               PROVE  entries[reader[r].key].blob # reader[r].blob
    BY DEF MissesAreOvertaken
  <2>1. reader[r].key \in Keys /\ reader[r].blob \in Blobs
    BY DEF IInv, TypeOK, ReaderState
  <2> QED BY <2>1 DEF IInv, EntriesHaveTheirBlob, Referenced
<1> QED BY <1>1, StorageCorrect, PTL

(* A stored blob has a row, a handler that sees to it, or was lost by a    *)
(* failure or a restart.                                                   *)
THEOREM GarbageCorrect == Spec => []GarbageIsCollected
<1>1. IInv => GarbageIsCollected
  BY DEF IInv, TypeOK, Phases, EntriesHaveTheirBlob, BlobsHaveTheirHandler,
     GarbageIsCollected
<1> QED BY <1>1, StorageCorrect, PTL

(* A list that is through has given every key that was there all the time. *)
THEOREM PagesCorrect == Spec => []PagesAreComplete
<1>1. IInv => PagesAreComplete
  BY DEF IInv, NothingIsSkipped, PagesAreComplete
<1> QED BY <1>1, StorageCorrect, PTL

(* Clean-up takes expired entries only.                                    *)
THEOREM CleanUpCorrect == Spec => LiveEntriesStay
<1> DEFINE Stays(k) ==
      Present(k) /\ ~ HasExpired(entries[k]) /\ ~ Present(k)' =>
         Delete(k) \/ DeleteAll
<1>1. ASSUME IInv, Next, NEW k \in Keys PROVE Stays(k)
  <2> SUFFICES ASSUME Present(k), ~ HasExpired(entries[k]), ~ Present(k)'
               PROVE  Delete(k) \/ DeleteAll
    OBVIOUS
  <2>1. ASSUME NEW b \in Blobs PROVE ~ CommitPut(b)
    <3>1. ASSUME CommitPut(b) PROVE Present(k)'
      BY <1>1, <3>1, KeyAssumption DEF CommitPut, Present, NoEntry, IInv, TypeOK
    <3> QED BY <3>1
  <2>2. ASSUME NEW l \in Keys, Remove({l}) PROVE k = l
    BY <2>2 DEF Remove, Present
  <2>3. ASSUME NEW phase, NEW after, NEW p PROVE ~ Answer(phase, after, p)
    <3>1. ~ Outdated(k)
      BY <1>1 DEF Outdated, HasExpired, Present, IInv, TypeOK, Entry, Expirations
    <3> QED BY <3>1 DEF Answer, Remove, Present
  <2>4. entries' # entries
    BY DEF Present
  <2> QED
    BY <1>1, <2>1, <2>2, <2>3, <2>4
    DEF Next, Step, Tick, StartPut, BlobStored, BlobPutRejected, AbortPut,
        BlobDeleted, BlobDeleteFailed, Delete, GetExpired, GetAnswered, Get,
        ListPage, ListLastPage, ListAgain, Restart
<1>2. ASSUME NEW k \in Keys, UNCHANGED vars PROVE Stays(k)
  BY <1>2 DEF vars, Present
<1>3. ASSUME IInv, [Next]_vars
      PROVE  [\A k \in Keys : Stays(k)]_vars
  BY <1>1, <1>3
<1> QED BY <1>3, StorageCorrect, PTL DEF Spec, LiveEntriesStay
=============================================================================
