--------------------------- MODULE ErasureProofs ---------------------------
(***************************************************************************)
(* Proofs about Erasure, for any number of scrapes and requests, any file  *)
(* extensions, storage settings and faults.                                *)
(***************************************************************************)
EXTENDS Erasure, TLAPS

LEMMA NoScrapeState == NoScrape \in ScrapeState /\ NoScrape.pc = "idle"
BY DEF NoScrape, ScrapeState, ScrapePc, Loaded

LEMMA NoCallState == NoCall \in CallState /\ NoCall.pc = "idle"
BY DEF NoCall, CallState, CallPc, Kind, Loaded

LEMMA InitPhotos == Init => PhotoInv
<1> SUFFICES ASSUME Init PROVE PhotoInv
  OBVIOUS
<1> USE NoScrapeState, NoCallState DEF Init
<1>1. NoDsar \in [type : Kind, status : {"none", "pending", "completed"}]
  BY DEF NoDsar, Kind
<1>2. TypeOK
  BY <1>1 DEF TypeOK, Loaded
<1>3. HoldsPhoto /\ ListedBeforePurge /\ CopyHasRow /\ PurgeCoversCopies
  BY DEF HoldsPhoto, ListedBeforePurge, CopyHasRow, PurgeCoversCopies, EarlyRow, EarlyCache
<1>4. QED
  BY <1>2, <1>3 DEF PhotoInv, ErasedExceptLate

(* A scrape that changes no store replaces its own state by a good one.    *)
LEMMA MovedScrape ==
    ASSUME PhotoInv, NEW s \in Scrape, NEW t \in ScrapeState,
           scrape' = [scrape EXCEPT ![s] = t],
           t.pc \in {"backfill", "upload", "select", "merge", "cache"}
              => t.photo # NoCopy,
           t.pc \in {"backfill", "cache"} /\ ~suppressed => row # NoCopy,
           objects' \subseteq Store \X Ext,
           UNCHANGED <<row, cache, late, suppressed, call, dsar, audit, missed, erased>>
    PROVE  PhotoInv'
BY DEF PhotoInv, TypeOK, HoldsPhoto, ListedBeforePurge, CopyHasRow,
   PurgeCoversCopies, ErasedExceptLate, EarlyRow, EarlyCache

LEMMA MovedPc ==
    ASSUME TypeOK, NEW s \in Scrape, NEW pc \in ScrapePc
    PROVE  /\ [scrape[s] EXCEPT !.pc = pc] \in ScrapeState
           /\ [scrape[s] EXCEPT !.pc = pc].pc = pc
           /\ [scrape[s] EXCEPT !.pc = pc].photo = scrape[s].photo
BY DEF TypeOK, ScrapeState

(* The steps of a scrape keep the invariant: a store written after the     *)
(* opt-out is late, and before it no row goes away.                        *)
LEMMA ScrapeKeeps ==
    ASSUME PhotoInv, NEW s \in Scrape,
           BeginScrape(s) \/ ScrapeStep(s) \/ ScrapeFails(s)
    PROVE  PhotoInv'
<1> USE DEF register
<1>0. TypeOK /\ HoldsPhoto /\ scrape[s] \in ScrapeState
  BY DEF PhotoInv, TypeOK
<1>1. CASE Ended(s) /\ UNCHANGED <<row, cache, register, late>> /\ objects' \subseteq Store \X Ext
  BY <1>1, NoScrapeState, MovedScrape DEF Ended
<1>2. ASSUME NEW pc \in ScrapePc \ {"backfill", "cache"}, Goto(s, pc),
             pc \in {"upload", "select", "merge"} => scrape[s].photo # NoCopy,
             UNCHANGED <<row, cache, register, late>>, objects' \subseteq Store \X Ext
      PROVE  PhotoInv'
  <2> DEFINE t == [scrape[s] EXCEPT !.pc = pc]
  <2>1. t \in ScrapeState /\ t.pc = pc /\ t.photo = scrape[s].photo
    BY <1>0, MovedPc
  <2>2. scrape' = [scrape EXCEPT ![s] = t]
    BY <1>2 DEF Goto
  <2> HIDE DEF t
  <2>3. QED
    BY <1>2, <2>1, <2>2, MovedScrape
<1>3. UNCHANGED objects => objects' \subseteq Store \X Ext
  BY <1>0 DEF TypeOK
<1>4. CASE BeginScrape(s)
  BY <1>4, <1>2, <1>3 DEF BeginScrape, ScrapePc
<1>5. CASE GetFromRedis(s)
  BY <1>5, <1>1, <1>2, <1>3 DEF GetFromRedis, ScrapePc
<1>6. CASE GetFromSql(s)
  <2>1. CASE Goto(s, "browse")
    BY <1>6, <2>1, <1>2, <1>3 DEF GetFromSql, ScrapePc
  <2>2. CASE row # NoCopy /\ scrape' = [scrape EXCEPT ![s].pc = "backfill", ![s].photo = row]
    <3> DEFINE t == [scrape[s] EXCEPT !.pc = "backfill", !.photo = row]
    <3>1. t \in ScrapeState /\ t.pc = "backfill" /\ t.photo = row
      BY <1>0 DEF TypeOK, ScrapeState, ScrapePc
    <3>2. scrape' = [scrape EXCEPT ![s] = t]
      BY <2>2
    <3> HIDE DEF t
    <3>3. QED
      BY <1>6, <1>3, <2>2, <3>1, <3>2, MovedScrape DEF GetFromSql
  <2>3. QED
    BY <1>6, <2>1, <2>2 DEF GetFromSql
<1>7. CASE WriteCache(s)
  <2>1. CASE UNCHANGED <<cache, late>>
    BY <1>7, <2>1, <1>1, <1>3 DEF WriteCache
  <2>2. CASE cache' = scrape[s].photo /\ Noted("cache")
    <3>1. scrape[s].photo \in Copy
      BY <1>0, <1>7 DEF WriteCache, HoldsPhoto, ScrapeState, Loaded
    <3>2. /\ cache' \in Copy /\ late' \subseteq {"row", "cache"}
          /\ suppressed => "cache" \in late'
          /\ "row" \in late' <=> "row" \in late
      BY <1>0, <2>2, <3>1 DEF Noted, TypeOK
    <3>3. ~suppressed => row # NoCopy
      BY <1>7 DEF WriteCache, PhotoInv, CopyHasRow
    <3>4. scrape' = [scrape EXCEPT ![s] = NoScrape] /\ UNCHANGED <<row, objects, register>>
      BY <1>7 DEF WriteCache, Ended
    <3>5. NoScrape \in ScrapeState /\ NoScrape.pc = "idle"
      BY NoScrapeState
    <3>6. TypeOK' /\ HoldsPhoto'
      BY <1>0, <3>2, <3>4, <3>5 DEF TypeOK, HoldsPhoto, Loaded
    <3>7. ListedBeforePurge' /\ CopyHasRow'
      BY <3>2, <3>3, <3>4, <3>5 DEF PhotoInv, TypeOK, ListedBeforePurge, CopyHasRow, EarlyCache
    <3>8. PurgeCoversCopies' /\ ErasedExceptLate'
      BY <3>2, <3>4 DEF PhotoInv, ListedBeforePurge, PurgeCoversCopies,
                        ErasedExceptLate, EarlyRow, EarlyCache
    <3>9. QED
      BY <3>6, <3>7, <3>8 DEF PhotoInv
  <2>3. QED
    BY <1>7, <2>1, <2>2 DEF WriteCache, SetRedis
<1>8. CASE Browse(s)
  <2>1. CASE Ended(s)
    BY <1>8, <2>1, <1>1, <1>3 DEF Browse
  <2>2. ASSUME NEW ext \in Ext,
               scrape' = [scrape EXCEPT ![s].pc = "upload",
                             ![s].photo = [ext |-> ext]]
        PROVE  PhotoInv'
    <3> DEFINE p == [ext |-> ext]
               t == [scrape[s] EXCEPT !.pc = "upload", !.photo = p]
    <3>1. p \in Copy
      BY DEF Copy
    <3>a. p # NoCopy
      BY <3>1, ErasureAssumption DEF ErasureAssumption
    <3>2. t \in ScrapeState /\ t.pc = "upload" /\ t.photo = p
      BY <1>0, <3>1 DEF ScrapeState, ScrapePc, Loaded
    <3>3. scrape' = [scrape EXCEPT ![s] = t]
      BY <2>2
    <3> HIDE DEF t, p
    <3>4. QED
      BY <1>8, <1>3, <3>a, <3>2, <3>3, MovedScrape DEF Browse
  <2>3. QED
    BY <1>8, <2>1, <2>2 DEF Browse
<1>9. CASE Upload(s)
  <2>1. scrape[s].photo \in Copy /\ scrape[s].photo # NoCopy
    BY <1>0, <1>9 DEF Upload, At, HoldsPhoto, ScrapeState, Loaded
  <2>2. scrape[s].photo.ext \in Ext /\ objects \subseteq Store \X Ext
    BY <1>0, <2>1 DEF Copy, TypeOK
  <2>3. /\ objects' \subseteq Store \X Ext
        /\ Goto(s, "select") \/ Ended(s)
        /\ UNCHANGED <<row, cache, register, late>>
    BY <1>9, <2>2 DEF Upload, Store, LocalCopy
  <2>4. QED
    BY <1>1, <1>2, <2>1, <2>3 DEF ScrapePc
<1>10. CASE MergeSelect(s)
  <2> DEFINE t == [scrape[s] EXCEPT !.pc = "merge", !.found = row]
  <2>1. t \in ScrapeState /\ t.pc = "merge" /\ t.photo = scrape[s].photo
    BY <1>0 DEF TypeOK, ScrapeState, ScrapePc
  <2>2. scrape' = [scrape EXCEPT ![s] = t] /\ scrape[s].photo # NoCopy
    BY <1>0, <1>10 DEF MergeSelect, At, HoldsPhoto
  <2> HIDE DEF t
  <2>3. QED
    BY <1>10, <1>3, <2>1, <2>2, MovedScrape DEF MergeSelect
<1>11. CASE MergeCommit(s)
  <2>1. CASE Ended(s) /\ UNCHANGED <<row, late>>
    BY <1>11, <2>1, <1>1, <1>3 DEF MergeCommit
  <2>2. CASE /\ (scrape[s].found = NoCopy) = (row = NoCopy)
             /\ row' = MergedRow(scrape[s].photo, scrape[s].found)
             /\ Noted("row")
             /\ Goto(s, "cache")
    <3>1. scrape[s].photo \in Copy
      BY <1>0, <1>11 DEF MergeCommit, At, HoldsPhoto, ScrapeState, Loaded
    <3>2. scrape[s].found # NoCopy => row.ext \in Ext
      BY <1>0, <2>2 DEF TypeOK, Loaded, Copy
    <3>3. /\ row' \in Copy /\ late' \subseteq {"row", "cache"}
          /\ suppressed => "row" \in late'
          /\ "cache" \in late' <=> "cache" \in late
      BY <1>0, <2>2, <3>1, <3>2 DEF MergedRow, Copy, Noted, TypeOK
    <3>4. row' # NoCopy
      BY <3>3, ErasureAssumption DEF ErasureAssumption
    <3> DEFINE t == [scrape[s] EXCEPT !.pc = "cache"]
    <3>5. t \in ScrapeState /\ t.pc = "cache" /\ t.photo = scrape[s].photo
      BY <1>0, MovedPc DEF ScrapePc
    <3>6. /\ scrape' = [scrape EXCEPT ![s] = t]
          /\ UNCHANGED <<cache, objects, register>>
          /\ scrape[s].photo # NoCopy
      BY <1>0, <1>11, <2>2 DEF MergeCommit, Goto, At, HoldsPhoto
    <3> HIDE DEF t
    <3>7. TypeOK' /\ HoldsPhoto'
      BY <1>0, <3>3, <3>5, <3>6 DEF TypeOK, HoldsPhoto, Loaded
    <3>8. ListedBeforePurge' /\ CopyHasRow'
      BY <3>4, <3>5, <3>6 DEF PhotoInv, TypeOK, ListedBeforePurge, CopyHasRow, EarlyRow, EarlyCache
    <3>9. PurgeCoversCopies' /\ ErasedExceptLate'
      BY <3>3, <3>6 DEF PhotoInv, ListedBeforePurge, PurgeCoversCopies,
                        ErasedExceptLate, EarlyRow, EarlyCache
    <3>10. QED
      BY <3>7, <3>8, <3>9 DEF PhotoInv
  <2>3. QED
    BY <1>11, <2>1, <2>2 DEF MergeCommit
<1>12. CASE ScrapeFails(s)
  BY <1>12, <1>1, <1>3 DEF ScrapeFails
<1>13. QED
  BY <1>4, <1>5, <1>6, <1>7, <1>8, <1>9, <1>10, <1>11, <1>12 DEF ScrapeStep

LEMMA ExpiryKeeps == PhotoInv /\ KeyExpires => PhotoInv'
BY DEF KeyExpires, register, PhotoInv, TypeOK, HoldsPhoto, ListedBeforePurge,
   CopyHasRow, PurgeCoversCopies, ErasedExceptLate, EarlyRow, EarlyCache, Loaded

(* The steps of a request: it suppresses before it purges, and between the *)
(* two only late copies appear.                                            *)
LEMMA CallKeeps ==
    ASSUME PhotoInv, NEW c \in Call,
           Post(c) \/ CallStep(c) \/ PurgeFails(c) \/ Abort(c)
    PROVE  PhotoInv'
<1>0. TypeOK /\ call[c] \in CallState /\ row \in Loaded /\ cache \in Loaded
  BY DEF PhotoInv, TypeOK
<1>1. /\ UNCHANGED <<scrape, late>>
      /\ suppressed => suppressed'
      /\ suppressed' \in BOOLEAN /\ missed' \in BOOLEAN /\ erased' \in BOOLEAN
      /\ row' \in {row, NoCopy} /\ cache' \in {cache, NoCopy}
      /\ objects' \subseteq Store \X Ext
  BY <1>0 DEF TypeOK, Post, CallStep, PurgeFails, Abort, photos, AnswerAccess,
        AddSuppression, SelectPhoto, DeleteObject, DeleteRow, DeleteCached,
        CommitPurge, CompleteDsar
<1>2. /\ dsar' \in [Call -> [type : Kind, status : {"none", "pending", "completed"}]]
      /\ audit' \subseteq Event \X Call \X (0 .. 1)
  <2>1. \A status \in {"pending", "completed"} :
           Dsar(c, status) \in [type : Kind, status : {"none", "pending", "completed"}]
    BY <1>0 DEF Dsar, CallState
  <2>2. \A events \in SUBSET Event, n \in 0 .. 1 :
           Logged(events, c, n) \subseteq Event \X Call \X (0 .. 1)
    BY <1>0 DEF Logged, TypeOK
  <2>3. {"opt_out"} \in SUBSET Event /\ {"data_purged"} \in SUBSET Event
        /\ {"dsar_created"} \in SUBSET Event /\ {"dsar_completed"} \in SUBSET Event
        /\ {"dsar_created", "dsar_completed"} \in SUBSET Event
        /\ {"opt_out", "data_purged"} \in SUBSET Event
        /\ 0 \in 0 .. 1 /\ Deleted(c) \in 0 .. 1
    BY DEF Event, Deleted
  <2>4. CASE UNCHANGED <<dsar, audit>>
    BY <1>0, <2>4 DEF TypeOK
  <2>5. CASE AnswerAccess(c)
    BY <1>0, <2>1, <2>2, <2>3, <2>5 DEF TypeOK, AnswerAccess
  <2>6. CASE AddSuppression(c)
    BY <1>0, <2>1, <2>2, <2>3, <2>6 DEF TypeOK, AddSuppression, PendingLogged
  <2>7. CASE CommitPurge(c)
    BY <1>0, <2>2, <2>3, <2>7 DEF TypeOK, CommitPurge
  <2>8. CASE PurgeFails(c)
    BY <1>0, <2>2, <2>3, <2>8 DEF TypeOK, PurgeFails
  <2>9. CASE CompleteDsar(c)
    BY <1>0, <2>1, <2>2, <2>3, <2>9 DEF TypeOK, CompleteDsar
  <2>10. QED
    BY <2>4, <2>5, <2>6, <2>7, <2>8, <2>9 DEF Post, CallStep, Abort, SelectPhoto,
       DeleteObject, DeleteRow, DeleteCached
(* How the request itself moves, and what its move needs of the rest.      *)
<1> DEFINE Moves(t) ==
        /\ t \in CallState
        /\ call' = [call EXCEPT ![c] = t]
        /\ t.pc \in {"object", "delete"} => t.found # NoCopy
        /\ t.pc \in {"select", "object", "delete", "cached", "commit", "complete"}
              => suppressed'
        /\ t.pc \in {"cached", "commit"} /\ ~t.deletes => ~EarlyRow'
        /\ t.pc = "commit" /\ EarlyCache' => missed'
<1>3. ASSUME NEW t, Moves(t),
             missed => missed',
             row' = NoCopy /\ EarlyCache' => missed',
             row' # row => suppressed',
             erased' => suppressed' /\ ~EarlyRow' /\ (EarlyCache' => missed')
      PROVE  PhotoInv'
  <2>1. \A d \in Call : call'[d] = IF d = c THEN t ELSE call[d]
    BY <1>0, <1>3 DEF TypeOK
  <2>2. TypeOK'
    BY <1>0, <1>1, <1>2, <1>3 DEF TypeOK, Loaded
  <2>3. EarlyRow' => EarlyRow
    BY <1>1 DEF EarlyRow, EarlyCache
  <2>4. EarlyCache' => EarlyCache
    BY <1>1 DEF EarlyRow, EarlyCache
  <2>5. HoldsPhoto' /\ ListedBeforePurge'
    BY <1>1, <1>3, <2>1 DEF PhotoInv, HoldsPhoto, ListedBeforePurge
  <2>6. CopyHasRow'
    BY <1>1, <1>3, <2>4 DEF PhotoInv, CopyHasRow
  <2>7. PurgeCoversCopies'
    BY <1>1, <1>3, <2>1, <2>3, <2>4 DEF PhotoInv, PurgeCoversCopies
  <2>8. QED
    BY <1>3, <2>2, <2>5, <2>6, <2>7 DEF PhotoInv, ErasedExceptLate
<1>4. ASSUME NEW t, Moves(t), UNCHANGED <<row, cache, missed, erased>>
      PROVE  PhotoInv'
  BY <1>1, <1>3, <1>4 DEF PhotoInv, CopyHasRow, ListedBeforePurge, ErasedExceptLate,
     EarlyRow, EarlyCache
<1>5. ASSUME NEW pc \in CallPc
      PROVE  /\ [call[c] EXCEPT !.pc = pc] \in CallState
             /\ [call[c] EXCEPT !.pc = pc].pc = pc
             /\ [call[c] EXCEPT !.pc = pc].found = call[c].found
             /\ [call[c] EXCEPT !.pc = pc].deletes = call[c].deletes
  BY <1>0 DEF CallState
<1>6. CASE Post(c)
  <2>1. PICK kind \in Kinds[c] :
           call' = [call EXCEPT ![c].kind = kind,
                       ![c].pc = IF kind = "access" THEN "summary" ELSE "suppress"]
    BY <1>6 DEF Post
  <2>2. kind \in Kind
    BY ErasureAssumption DEF ErasureAssumption
  <2> DEFINE t == [call[c] EXCEPT !.kind = kind,
                       !.pc = IF kind = "access" THEN "summary" ELSE "suppress"]
  <2>3. t \in CallState /\ t.pc \in {"summary", "suppress"}
    BY <1>0, <2>2 DEF CallState, CallPc
  <2>4. call' = [call EXCEPT ![c] = t]
    BY <2>1
  <2> HIDE DEF t
  <2>5. QED
    BY <1>4, <1>6, <2>3, <2>4 DEF Post, photos
<1>7. CASE AnswerAccess(c)
  <2> DEFINE t == [call[c] EXCEPT !.pc = "done"]
  <2>1. t \in CallState /\ t.pc = "done"
    BY <1>5 DEF CallPc
  <2>2. call' = [call EXCEPT ![c] = t]
    BY <1>7 DEF AnswerAccess, Proceed
  <2> HIDE DEF t
  <2>3. QED
    BY <1>4, <1>7, <2>1, <2>2 DEF AnswerAccess, photos
<1>8. CASE AddSuppression(c)
  <2> DEFINE t == [call[c] EXCEPT !.pc = "select"]
  <2>1. t \in CallState /\ t.pc = "select"
    BY <1>5 DEF CallPc
  <2>2. call' = [call EXCEPT ![c] = t]
    BY <1>8 DEF AddSuppression, Proceed
  <2> HIDE DEF t
  <2>3. QED
    BY <1>4, <1>8, <2>1, <2>2 DEF AddSuppression, photos
<1>9. CASE SelectPhoto(c)
  <2> DEFINE t == [call[c] EXCEPT !.found = row,
                      !.pc = IF row = NoCopy THEN "commit" ELSE "object"]
  <2>1. t \in CallState /\ t.found = row
        /\ t.pc = IF row = NoCopy THEN "commit" ELSE "object"
    BY <1>0 DEF CallState, CallPc
  <2>2. call' = [call EXCEPT ![c] = t] /\ suppressed'
    BY <1>9 DEF SelectPhoto, IsAt, PhotoInv, ListedBeforePurge
  <2>3. UNCHANGED <<row, cache, missed, erased>>
    BY <1>9 DEF SelectPhoto, photos
  <2>4. row = NoCopy => ~EarlyRow' /\ (EarlyCache' => missed')
    BY <1>1, <2>3 DEF PhotoInv, CopyHasRow, EarlyRow, EarlyCache
  <2> HIDE DEF t
  <2>5. QED
    BY <1>4, <2>1, <2>2, <2>3, <2>4
<1>10. CASE DeleteObject(c)
  <2> DEFINE t == [call[c] EXCEPT !.pc = "delete"]
  <2>1. t \in CallState /\ t.pc = "delete" /\ t.found = call[c].found
    BY <1>5 DEF CallPc
  <2>2. /\ call' = [call EXCEPT ![c] = t] /\ suppressed' /\ call[c].found # NoCopy
        /\ UNCHANGED <<row, cache, missed, erased>>
    BY <1>10 DEF DeleteObject, Proceed, IsAt, PhotoInv, ListedBeforePurge, HoldsPhoto
  <2> HIDE DEF t
  <2>3. QED
    BY <1>4, <2>1, <2>2
<1>11. CASE DeleteRow(c)
  <2> DEFINE t == [call[c] EXCEPT !.pc = "cached", !.deletes = (row # NoCopy)]
  <2>1. t \in CallState /\ t.pc = "cached" /\ t.deletes = (row # NoCopy)
    BY <1>0 DEF CallState, CallPc
  <2>2. /\ call' = [call EXCEPT ![c] = t] /\ suppressed'
        /\ UNCHANGED <<row, cache, missed, erased>>
    BY <1>11 DEF DeleteRow, IsAt, PhotoInv, ListedBeforePurge, photos
  <2>3. ~t.deletes => ~EarlyRow'
    BY <2>1, <2>2 DEF EarlyRow, EarlyCache
  <2> HIDE DEF t
  <2>4. QED
    BY <1>4, <2>1, <2>2, <2>3
<1>12. CASE DeleteCached(c)
  <2> DEFINE t == [call[c] EXCEPT !.pc = "commit"]
  <2>1. t \in CallState /\ t.pc = "commit" /\ t.deletes = call[c].deletes
    BY <1>5 DEF CallPc
  <2>2. /\ call' = [call EXCEPT ![c] = t] /\ suppressed' /\ UNCHANGED <<row, erased>>
        /\ call[c].pc = "cached"
    BY <1>12 DEF DeleteCached, Proceed, IsAt, PhotoInv, ListedBeforePurge
  <2>3. EarlyCache' => missed'
    BY <1>12 DEF DeleteCached, EarlyRow, EarlyCache
  <2>4. missed => missed'
    BY <1>12 DEF DeleteCached
  <2>5. ~call[c].deletes => ~EarlyRow'
    BY <1>1, <2>2 DEF PhotoInv, PurgeCoversCopies, EarlyRow
  <2>6. erased' => suppressed' /\ ~EarlyRow'
    BY <1>1, <2>2 DEF PhotoInv, ErasedExceptLate, EarlyRow
  <2> HIDE DEF t
  <2>7. QED
    BY <1>3, <2>1, <2>2, <2>3, <2>4, <2>5, <2>6
<1>13. ASSUME AfterPurge(c)
       PROVE  \E t \in CallState : /\ call' = [call EXCEPT ![c] = t]
                                   /\ t.pc \in {"complete", "done"}
  <2> DEFINE t == [NoCall EXCEPT !.kind = call[c].kind,
                      !.pc = IF call[c].kind = "deletion" THEN "complete" ELSE "done"]
  <2>1. t \in CallState /\ t.pc \in {"complete", "done"}
    BY <1>0, NoCallState DEF CallState, CallPc
  <2>2. call' = [call EXCEPT ![c] = t]
    BY <1>13 DEF AfterPurge
  <2> HIDE DEF t
  <2>3. QED
    BY <2>1, <2>2
<1>14. CASE CommitPurge(c)
  <2>1. PICK t \in CallState : call' = [call EXCEPT ![c] = t] /\ t.pc \in {"complete", "done"}
    BY <1>13, <1>14 DEF CommitPurge
  <2>2. suppressed' /\ UNCHANGED <<cache, missed>>
    BY <1>14 DEF CommitPurge, IsAt, PhotoInv, ListedBeforePurge
  <2>3. ~EarlyRow'
    BY <1>14 DEF CommitPurge, IsAt, PhotoInv, PurgeCoversCopies, EarlyRow, EarlyCache
  <2>4. EarlyCache' => missed'
    BY <1>1, <1>14 DEF CommitPurge, IsAt, PhotoInv, PurgeCoversCopies,
       EarlyCache
  <2>5. QED
    BY <1>3, <2>1, <2>2, <2>3, <2>4
<1>15. CASE PurgeFails(c)
  <2>1. PICK t \in CallState : call' = [call EXCEPT ![c] = t] /\ t.pc \in {"complete", "done"}
    BY <1>13, <1>15 DEF PurgeFails
  <2>2. suppressed'
    BY <1>15 DEF PurgeFails, IsAt, PhotoInv, ListedBeforePurge
  <2>3. QED
    BY <1>4, <1>15, <2>1, <2>2 DEF PurgeFails, photos
<1>16. CASE CompleteDsar(c)
  <2> DEFINE t == [call[c] EXCEPT !.pc = "done"]
  <2>1. t \in CallState /\ t.pc = "done"
    BY <1>5 DEF CallPc
  <2>2. call' = [call EXCEPT ![c] = t]
    BY <1>16 DEF CompleteDsar, Proceed
  <2> HIDE DEF t
  <2>3. QED
    BY <1>4, <1>16, <2>1, <2>2 DEF CompleteDsar, photos
<1>17. CASE Abort(c)
  <2> DEFINE t == [NoCall EXCEPT !.pc = "aborted"]
  <2>1. t \in CallState /\ t.pc = "aborted"
    BY NoCallState DEF CallState, CallPc
  <2>2. call' = [call EXCEPT ![c] = t]
    BY <1>17 DEF Abort
  <2> HIDE DEF t
  <2>3. QED
    BY <1>4, <1>17, <2>1, <2>2 DEF Abort, photos
<1>18. QED
  BY <1>6, <1>7, <1>8, <1>9, <1>10, <1>11, <1>12, <1>14, <1>15, <1>16, <1>17
     DEF CallStep

LEMMA StutterKeeps == PhotoInv /\ UNCHANGED vars => PhotoInv'
BY DEF vars, PhotoInv, TypeOK, HoldsPhoto, ListedBeforePurge, CopyHasRow,
   PurgeCoversCopies, ErasedExceptLate, EarlyRow, EarlyCache

LEMMA PhotosKept == PhotoInv /\ [Next]_vars => PhotoInv'
BY ScrapeKeeps, ExpiryKeeps, CallKeeps, StutterKeeps DEF Next

LEMMA PhotosInvariant == Spec => []PhotoInv
BY InitPhotos, PhotosKept, PTL DEF Spec

(* Every state of the photo stores, scrapes and requests is well typed.    *)
THEOREM PhotosTyped == Spec => []TypeOK
<1>1. PhotoInv => TypeOK
  BY DEF PhotoInv
<1>2. QED
  BY <1>1, PhotosInvariant, PTL

(* After a committed purge no copy made before the opt-out is left, unless *)
(* Redis refused to delete it (purge.py and photo_cache.py).               *)
THEOREM PurgeErasesPhotos == Spec => []ErasedExceptLate
<1>1. PhotoInv => ErasedExceptLate
  BY DEF PhotoInv
<1>2. QED
  BY <1>1, PhotosInvariant, PTL

(* The register: each request changes only its own record and events.      *)
RegisterInv == PhotoInv /\ DsarStage /\ RegisterAgrees

LEMMA InitRegister == Init => RegisterInv
<1> SUFFICES ASSUME Init PROVE RegisterInv
  OBVIOUS
<1>1. \A c \in Call : dsar[c] = NoDsar /\ call[c] = NoCall
  BY DEF Init
<1>2. NoDsar.status = "none" /\ NoCall.pc = "idle"
  BY DEF NoDsar, NoCall
<1>3. DsarStage /\ RegisterAgrees
  BY <1>1, <1>2 DEF Init, DsarStage, RegisterAgrees
<1>4. QED
  BY <1>3, InitPhotos DEF RegisterInv

LEMMA OthersRegister ==
    ASSUME TypeOK, NEW c \in Call,
           Post(c) \/ CallStep(c) \/ PurgeFails(c) \/ Abort(c)
    PROVE  /\ suppressed => suppressed'
           /\ erased => erased'
           /\ \A e, d, n : <<e, d, n>> \in audit => <<e, d, n>> \in audit'
           /\ \A d \in Call \ {c} :
                /\ call'[d] = call[d] /\ dsar'[d] = dsar[d]
                /\ \A e, n : <<e, d, n>> \in audit' => <<e, d, n>> \in audit
BY DEF TypeOK, Post, CallStep, PurgeFails, Abort, AnswerAccess, AddSuppression,
   SelectPhoto, DeleteObject, DeleteRow, DeleteCached, CommitPurge, CompleteDsar,
   Proceed, AfterPurge, Logged, PendingLogged

(* What both invariants say of one request.                                *)
Registered(c) ==
    /\ call[c].pc \in {"idle", "suppress", "summary"} => dsar[c] = NoDsar
    /\ call[c].pc = "summary" => call[c].kind = "access"
    /\ call[c].pc = "complete" => /\ call[c].kind = "deletion"
                                  /\ \E n \in 0 .. 1 : <<"data_purged", c, n>> \in audit
    /\ call[c].pc \in {"select", "object", "delete", "cached", "commit", "complete"}
          => dsar[c] = IF call[c].kind = "deletion"
                       THEN Dsar(c, "pending") ELSE NoDsar
    /\ dsar[c].status # "none" => <<"dsar_created", c, 0>> \in audit
    /\ dsar[c].status = "completed" <=> <<"dsar_completed", c, 0>> \in audit
    /\ dsar[c] = [type |-> "deletion", status |-> "completed"]
          => suppressed /\ \E n \in 0 .. 1 : <<"data_purged", c, n>> \in audit
    /\ <<"data_purged", c, 1>> \in audit => erased

LEMMA RegisteredAll == (DsarStage /\ RegisterAgrees) <=> \A c \in Call : Registered(c)
BY DEF DsarStage, RegisterAgrees, Registered

LEMMA CallRegisters ==
    ASSUME PhotoInv, NEW c \in Call, Registered(c),
           Post(c) \/ CallStep(c) \/ PurgeFails(c) \/ Abort(c)
    PROVE  Registered(c)'
<1>0. TypeOK /\ call[c] \in CallState /\ c \in DOMAIN call /\ c \in DOMAIN dsar
  BY DEF PhotoInv, TypeOK
<1>a. dsar[c] \in [type : Kind, status : {"none", "pending", "completed"}]
  BY <1>0 DEF TypeOK
<1>b. Dsar(c, "pending").status = "pending" /\ Dsar(c, "completed").status = "completed"
      /\ Dsar(c, "completed").type = call[c].kind /\ NoDsar.status = "none"
  BY DEF Dsar, NoDsar
<1>c. \A kind, status : [type |-> kind, status |-> status].status = status
                        /\ [type |-> kind, status |-> status].type = kind
  OBVIOUS
<1>1. CASE Post(c)
  <2>1. PICK kind \in Kinds[c] : call'[c] = [call[c] EXCEPT !.kind = kind,
                       !.pc = IF kind = "access" THEN "summary" ELSE "suppress"]
    BY <1>0, <1>1 DEF Post
  <2>2. call'[c].kind = kind
        /\ call'[c].pc = IF kind = "access" THEN "summary" ELSE "suppress"
    BY <1>0, <2>1 DEF CallState
  <2>3. call[c].pc = "idle" /\ UNCHANGED <<suppressed, dsar, audit, erased>>
    BY <1>1 DEF Post, IsAt
  <2>4. dsar'[c] = NoDsar /\ dsar'[c] = dsar[c]
    BY <2>3 DEF Registered
  <2>5. /\ call'[c].pc \in {"summary", "suppress"}
        /\ call'[c].pc = "summary" => call'[c].kind = "access"
    BY <2>2
  <2>6. QED
    BY <2>3, <2>4, <2>5 DEF Registered
<1>2. CASE AnswerAccess(c)
  <2>1. call'[c].pc = "done" /\ call'[c].kind = call[c].kind
    BY <1>0, <1>2 DEF AnswerAccess, Proceed, CallState
  <2>2. dsar'[c] = Dsar(c, "completed") /\ call[c].kind = "access"
    BY <1>0, <1>2 DEF AnswerAccess, IsAt, Registered
  <2>3. /\ <<"dsar_created", c, 0>> \in audit' /\ <<"dsar_completed", c, 0>> \in audit'
        /\ <<"data_purged", c, 1>> \in audit' => <<"data_purged", c, 1>> \in audit
        /\ erased' = erased
    BY <1>2 DEF AnswerAccess, Logged
  <2>4. QED
    BY <1>b, <1>c, <2>1, <2>2, <2>3 DEF Registered
<1>3. CASE AddSuppression(c)
  <2>1. call'[c].pc = "select" /\ call'[c].kind = call[c].kind
    BY <1>0, <1>3 DEF AddSuppression, Proceed, CallState
  <2>2. dsar[c] = NoDsar /\ call[c].pc = "suppress"
    BY <1>3 DEF AddSuppression, IsAt, Registered
  <2>3. /\ <<"dsar_completed", c, 0>> \in audit' => <<"dsar_completed", c, 0>> \in audit
        /\ <<"data_purged", c, 1>> \in audit' => <<"data_purged", c, 1>> \in audit
        /\ erased' = erased /\ suppressed'
    BY <1>3 DEF AddSuppression, PendingLogged, Logged
  <2>4. CASE call[c].kind = "deletion"
    <3>1. dsar'[c] = Dsar(c, "pending") /\ <<"dsar_created", c, 0>> \in audit'
      BY <1>0, <1>3, <2>4 DEF AddSuppression, PendingLogged, Logged
    <3>2. Dsar(c, "pending")' = Dsar(c, "pending")
      BY <2>1 DEF Dsar
    <3>3. QED
      BY <1>b, <1>c, <2>1, <2>2, <2>3, <2>4, <3>1, <3>2 DEF Registered
  <2>5. CASE call[c].kind # "deletion"
    <3>1. dsar'[c] = dsar[c]
      BY <1>3, <2>5 DEF AddSuppression
    <3>2. QED
      BY <1>b, <1>c, <2>1, <2>2, <2>3, <2>5, <3>1 DEF Registered
  <2>6. QED
    BY <2>4, <2>5
<1>4. ASSUME call'[c].kind = call[c].kind,
             call[c].pc \in {"select", "object", "delete", "cached", "commit"},
             call'[c].pc \in {"select", "object", "delete", "cached", "commit"},
             UNCHANGED <<suppressed, dsar, audit, erased>>
      PROVE  Registered(c)'
  <2>1. Dsar(c, "pending")' = Dsar(c, "pending")
    BY <1>4 DEF Dsar
  <2>2. QED
    BY <1>4, <2>1 DEF Registered
<1>5. CASE SelectPhoto(c) \/ DeleteObject(c) \/ DeleteRow(c) \/ DeleteCached(c)
  <2>1. /\ call'[c].kind = call[c].kind
        /\ call'[c].pc \in {"select", "object", "delete", "cached", "commit"}
    BY <1>0, <1>5 DEF SelectPhoto, DeleteObject, DeleteRow, DeleteCached, Proceed, CallState
  <2>2. call[c].pc \in {"select", "object", "delete", "cached", "commit"}
        /\ UNCHANGED <<suppressed, dsar, audit, erased>>
    BY <1>5 DEF SelectPhoto, DeleteObject, DeleteRow, DeleteCached, IsAt, photos
  <2>3. QED
    BY <1>4, <2>1, <2>2
<1>6. CASE CommitPurge(c) \/ PurgeFails(c)
  <2>1. /\ call'[c].kind = call[c].kind
        /\ call'[c].pc = IF call[c].kind = "deletion" THEN "complete" ELSE "done"
    <3>1. AfterPurge(c)
      BY <1>6 DEF CommitPurge, PurgeFails
    <3>2. call'[c] = [NoCall EXCEPT !.kind = call[c].kind,
              !.pc = IF call[c].kind = "deletion" THEN "complete" ELSE "done"]
      BY <1>0, <3>1 DEF AfterPurge
    <3>3. QED
      BY <3>2 DEF NoCall
  <2>2. call[c].pc \in {"select", "commit"} /\ UNCHANGED <<suppressed, dsar>>
    BY <1>6 DEF CommitPurge, PurgeFails, IsAt
  <2>3. /\ \E n \in 0 .. 1 : <<"data_purged", c, n>> \in audit'
        /\ <<"dsar_created", c, 0>> \in audit => <<"dsar_created", c, 0>> \in audit'
        /\ <<"dsar_completed", c, 0>> \in audit' <=> <<"dsar_completed", c, 0>> \in audit
        /\ <<"data_purged", c, 1>> \in audit'
              => erased' \/ <<"data_purged", c, 1>> \in audit
    BY <1>6 DEF CommitPurge, PurgeFails, Logged, Deleted
  <2>4. erased => erased'
    BY <1>6 DEF CommitPurge, PurgeFails
  <2>5. Dsar(c, "pending")' = Dsar(c, "pending")
    BY <2>1 DEF Dsar
  <2>6. dsar[c].status # "completed"
    BY <1>b, <2>2 DEF Registered
  <2>7. QED
    BY <1>c, <2>1, <2>2, <2>3, <2>4, <2>5, <2>6 DEF Registered
<1>7. CASE CompleteDsar(c)
  <2>1. call'[c].pc = "done" /\ call'[c].kind = call[c].kind
    BY <1>0, <1>7 DEF CompleteDsar, Proceed, CallState
  <2>2. /\ dsar'[c] = Dsar(c, "completed") /\ call[c].pc = "complete"
        /\ suppressed' /\ erased' = erased
    BY <1>0, <1>7 DEF CompleteDsar, IsAt, PhotoInv, ListedBeforePurge
  <2>3. dsar[c].status = "pending"
    BY <1>b, <2>2 DEF Registered
  <2>4. /\ <<"dsar_completed", c, 0>> \in audit'
        /\ <<"dsar_created", c, 0>> \in audit => <<"dsar_created", c, 0>> \in audit'
        /\ \A n : <<"data_purged", c, n>> \in audit' <=> <<"data_purged", c, n>> \in audit
    BY <1>7 DEF CompleteDsar, Logged
  <2>5. QED
    BY <1>b, <2>1, <2>2, <2>3, <2>4 DEF Registered
<1>8. CASE Abort(c)
  <2>1. call'[c].pc = "aborted" /\ UNCHANGED <<suppressed, dsar, audit, erased>>
    BY <1>0, <1>8, NoCallState DEF Abort, CallState
  <2>2. QED
    BY <2>1 DEF Registered
<1>9. QED
  BY <1>1, <1>2, <1>3, <1>5, <1>6, <1>7, <1>8 DEF CallStep

LEMMA RegisterKept == RegisterInv /\ [Next]_vars => RegisterInv'
<1> SUFFICES ASSUME RegisterInv, [Next]_vars PROVE RegisterInv'
  OBVIOUS
<1>1. PhotoInv /\ PhotoInv' /\ \A d \in Call : Registered(d)
  BY RegisteredAll, PhotosKept DEF RegisterInv
<1>2. CASE UNCHANGED register
  BY <1>1, <1>2, RegisteredAll DEF register, RegisterInv, DsarStage, RegisterAgrees, Dsar
<1>3. ASSUME NEW c \in Call, Post(c) \/ CallStep(c) \/ PurgeFails(c) \/ Abort(c)
      PROVE  RegisterInv'
  <2>1. Registered(c)'
    BY <1>1, <1>3, CallRegisters
  <2>2. ASSUME NEW d \in Call \ {c} PROVE Registered(d)'
    <3>1. /\ (suppressed => suppressed') /\ (erased => erased')
          /\ call'[d] = call[d] /\ dsar'[d] = dsar[d]
          /\ \A e, n : <<e, d, n>> \in audit' <=> <<e, d, n>> \in audit
      BY <1>1, <1>3, OthersRegister DEF PhotoInv
    <3>2. Dsar(d, "pending")' = Dsar(d, "pending")
      BY <3>1 DEF Dsar
    <3>3. (suppressed => suppressed') /\ (erased => erased')
      BY <1>1, <1>3, OthersRegister DEF PhotoInv
    <3>4. QED
      BY <1>1, <3>1, <3>2, <3>3 DEF Registered
  <2>3. \A d \in Call : Registered(d)'
    BY <2>1, <2>2
  <2>4. (DsarStage /\ RegisterAgrees)'
    BY <2>3 DEF DsarStage, RegisterAgrees, Registered
  <2>5. QED
    BY <1>1, <2>4 DEF RegisterInv
<1>4. ASSUME NEW s \in Scrape, BeginScrape(s) \/ ScrapeStep(s) \/ ScrapeFails(s)
      PROVE  UNCHANGED register
  BY <1>4 DEF BeginScrape, ScrapeStep, ScrapeFails, GetFromRedis, GetFromSql,
     WriteCache, Browse, Upload, MergeSelect, MergeCommit, register
<1>5. KeyExpires => UNCHANGED register
  BY DEF KeyExpires, register
<1>6. UNCHANGED vars => UNCHANGED register
  BY DEF vars, register
<1>7. QED
  BY <1>2, <1>3, <1>4, <1>5, <1>6 DEF Next

(* The audit log and the DSAR records agree, and neither claims what was   *)
(* not done (dsar.py, opt_out/service.py).                                 *)
THEOREM RegisterIsTrue == Spec => []RegisterAgrees
<1>1. RegisterInv => RegisterAgrees
  BY DEF RegisterInv
<1>2. QED
  BY <1>1, InitRegister, RegisterKept, PTL DEF Spec

-----------------------------------------------------------------------------
(* Objects behind the copies: before the opt-out no object is deleted, and *)
(* a scrape has stored the object of a photo by the time it writes a row.  *)
StoredIn(ext, held) == \E where \in Store : <<where, ext>> \in held

CopiesStored == ~suppressed => \A copy \in {row, cache} \ {NoCopy} : StoredIn(copy.ext, objects)

PhotosStored == ~suppressed =>
    \A s \in Scrape : scrape[s].pc \in {"backfill", "select", "merge", "cache"}
                         => StoredIn(scrape[s].photo.ext, objects)

StoredInv == PhotoInv /\ CopiesStored /\ PhotosStored

LEMMA InitStored == Init => StoredInv
BY InitPhotos DEF Init, StoredInv, CopiesStored, PhotosStored, NoScrape

(* Only a purge deletes objects, and it runs after the opt-out is listed.  *)
LEMMA ObjectsStay ==
    ASSUME PhotoInv, Next, ~suppressed'
    PROVE  ~suppressed /\ objects \subseteq objects'
<1>1. ASSUME NEW s \in Scrape, BeginScrape(s) \/ ScrapeStep(s) \/ ScrapeFails(s)
      PROVE  ~suppressed /\ objects \subseteq objects'
  BY <1>1 DEF BeginScrape, ScrapeStep, ScrapeFails, GetFromRedis, GetFromSql,
     WriteCache, Browse, Upload, MergeSelect, MergeCommit, register
<1>2. ASSUME NEW c \in Call, Post(c) \/ CallStep(c) \/ PurgeFails(c) \/ Abort(c)
      PROVE  ~suppressed /\ objects \subseteq objects'
  <2>1. ~DeleteObject(c)
    BY DEF DeleteObject, IsAt, PhotoInv, ListedBeforePurge
  <2>2. QED
    BY <1>2, <2>1 DEF Post, CallStep, PurgeFails, Abort, AnswerAccess,
       AddSuppression, SelectPhoto, DeleteRow, DeleteCached, CommitPurge,
       CompleteDsar, photos
<1>3. QED
  BY <1>1, <1>2 DEF Next, KeyExpires, register

LEMMA StoredStays ==
    ASSUME NEW ext, objects \subseteq objects', StoredIn(ext, objects)
    PROVE  StoredIn(ext, objects')
BY DEF StoredIn

(* A scrape moves on with a photo whose object is stored, or with none.    *)
MovesStored(s) ==
    \E t \in ScrapeState :
        /\ scrape' = [scrape EXCEPT ![s] = t]
        /\ t.pc \in {"backfill", "select", "merge", "cache"} => StoredIn(t.photo.ext, objects')

LEMMA ScrapeStored ==
    ASSUME StoredInv, ~suppressed', NEW s \in Scrape,
           BeginScrape(s) \/ ScrapeStep(s) \/ ScrapeFails(s)
    PROVE  MovesStored(s) /\ CopiesStored'
<1> USE DEF register
<1> DEFINE t0 == scrape[s]
<1>0. /\ TypeOK /\ HoldsPhoto /\ t0 \in ScrapeState /\ scrape \in [Scrape -> ScrapeState]
      /\ ~suppressed /\ objects \subseteq objects'
  <2>1. Next
    BY DEF Next
  <2>2. QED
    BY <2>1, ObjectsStay DEF StoredInv, PhotoInv, TypeOK
<1>a. /\ row # NoCopy => StoredIn(row.ext, objects')
      /\ cache # NoCopy => StoredIn(cache.ext, objects')
      /\ t0.pc \in {"backfill", "select", "merge", "cache"} => StoredIn(t0.photo.ext, objects')
  BY <1>0, StoredStays DEF StoredInv, CopiesStored, PhotosStored
<1>b. UNCHANGED <<row, cache>> => CopiesStored'
  BY <1>a DEF CopiesStored
<1>c. Ended(s) => MovesStored(s)
  BY NoScrapeState DEF Ended, MovesStored
<1>d. ASSUME NEW pc \in ScrapePc, Goto(s, pc),
             pc \in {"backfill", "select", "merge", "cache"} => StoredIn(t0.photo.ext, objects')
      PROVE  MovesStored(s)
  <2> DEFINE t == [t0 EXCEPT !.pc = pc]
  <2>1. t \in ScrapeState /\ t.pc = pc /\ t.photo = t0.photo
    BY <1>0, MovedPc
  <2>2. scrape' = [scrape EXCEPT ![s] = t]
    BY <1>d DEF Goto
  <2> HIDE DEF t
  <2>3. t.pc \in {"backfill", "select", "merge", "cache"} => StoredIn(t.photo.ext, objects')
    BY <1>d, <2>1
  <2>4. QED
    BY <2>1, <2>2, <2>3 DEF MovesStored
<1>1. CASE BeginScrape(s)
  BY <1>1, <1>b, <1>d DEF BeginScrape, ScrapePc
<1>2. CASE GetFromRedis(s)
  BY <1>2, <1>b, <1>c, <1>d DEF GetFromRedis, ScrapePc
<1>3. CASE GetFromSql(s)
  <2>1. CASE Goto(s, "browse")
    BY <1>3, <2>1, <1>b, <1>d DEF GetFromSql, ScrapePc
  <2>2. CASE row # NoCopy /\ scrape' = [scrape EXCEPT ![s].pc = "backfill", ![s].photo = row]
    <3> DEFINE t == [t0 EXCEPT !.pc = "backfill", !.photo = row]
    <3>1. t \in ScrapeState /\ t.photo = row
      BY <1>0 DEF TypeOK, ScrapeState, ScrapePc
    <3>2. scrape' = [scrape EXCEPT ![s] = t]
      BY <2>2
    <3> HIDE DEF t
    <3>3. StoredIn(t.photo.ext, objects')
      BY <1>a, <2>2, <3>1
    <3>4. QED
      BY <1>3, <1>b, <3>1, <3>2, <3>3 DEF GetFromSql, MovesStored
  <2>3. QED
    BY <1>3, <2>1, <2>2 DEF GetFromSql
<1>4. CASE WriteCache(s)
  <2>1. t0.photo \in Copy /\ t0.photo # NoCopy /\ StoredIn(t0.photo.ext, objects')
    BY <1>0, <1>4, <1>a DEF WriteCache, HoldsPhoto, ScrapeState, Loaded
  <2>2. CASE UNCHANGED cache
    BY <1>4, <2>2, <1>b, <1>c DEF WriteCache
  <2>3. CASE cache' = t0.photo
    <3>1. cache'.ext = t0.photo.ext /\ row' = row
      BY <1>4, <2>1, <2>3 DEF Copy, WriteCache
    <3>2. CopiesStored'
      BY <1>a, <2>1, <3>1 DEF CopiesStored
    <3>3. QED
      BY <1>4, <1>c, <3>2 DEF WriteCache
  <2>4. QED
    BY <1>4, <2>2, <2>3 DEF WriteCache, SetRedis
<1>5. CASE Browse(s)
  <2>1. ASSUME NEW ext \in Ext,
               scrape' = [scrape EXCEPT ![s].pc = "upload",
                             ![s].photo = [ext |-> ext]]
        PROVE  MovesStored(s)
    <3> DEFINE p == [ext |-> ext]
               t == [t0 EXCEPT !.pc = "upload", !.photo = p]
    <3>1. p \in Copy
      BY DEF Copy
    <3>2. t \in ScrapeState /\ t.pc = "upload"
      BY <1>0, <3>1 DEF ScrapeState, ScrapePc, Loaded
    <3>3. scrape' = [scrape EXCEPT ![s] = t]
      BY <2>1
    <3> HIDE DEF t
    <3>4. QED
      BY <3>2, <3>3 DEF MovesStored
  <2>2. QED
    BY <1>5, <2>1, <1>b, <1>c DEF Browse
<1>6. CASE Upload(s)
  <2>1. CopiesStored'
    BY <1>6, <1>b DEF Upload
  <2>2. ASSUME Goto(s, "select") PROVE MovesStored(s)
    <3>1. \/ <<"r2", t0.photo.ext>> \in objects'
          \/ <<"local", t0.photo.ext>> \in objects'
          \/ Ended(s)
      BY <1>6 DEF Upload, LocalCopy
    <3>2. StoredIn(t0.photo.ext, objects') \/ Ended(s)
      BY <3>1 DEF StoredIn, Store
    <3>3. QED
      BY <2>2, <3>2, <1>c, <1>d DEF ScrapePc
  <2>3. QED
    BY <1>6, <2>1, <2>2, <1>c DEF Upload
<1>7. CASE MergeSelect(s)
  <2> DEFINE t == [t0 EXCEPT !.pc = "merge", !.found = row]
  <2>1. t \in ScrapeState /\ t.photo = t0.photo
    BY <1>0 DEF TypeOK, ScrapeState, ScrapePc
  <2>2. scrape' = [scrape EXCEPT ![s] = t] /\ StoredIn(t0.photo.ext, objects')
    BY <1>7, <1>a DEF MergeSelect, At
  <2> HIDE DEF t
  <2>3. QED
    BY <1>7, <1>b, <2>1, <2>2 DEF MergeSelect, MovesStored
<1>8. CASE MergeCommit(s)
  <2>1. t0.photo \in Copy /\ StoredIn(t0.photo.ext, objects')
    BY <1>0, <1>8, <1>a DEF MergeCommit, At, HoldsPhoto, ScrapeState, Loaded
  <2>2. CASE Ended(s) /\ UNCHANGED row
    BY <1>8, <2>2, <1>b, <1>c DEF MergeCommit
  <2>3. CASE /\ (t0.found = NoCopy) = (row = NoCopy)
             /\ row' = MergedRow(t0.photo, t0.found)
             /\ Goto(s, "cache")
    <3>1. \/ row'.ext = t0.photo.ext
          \/ row # NoCopy /\ row'.ext = row.ext
      BY <2>1, <2>3 DEF MergedRow, Copy
    <3>2. CopiesStored'
      BY <1>8, <1>a, <2>1, <3>1 DEF CopiesStored, MergeCommit
    <3>3. QED
      BY <2>1, <2>3, <3>2, <1>d DEF ScrapePc
  <2>4. QED
    BY <1>8, <2>2, <2>3 DEF MergeCommit
<1>9. CASE ScrapeFails(s)
  BY <1>9, <1>b, <1>c DEF ScrapeFails
<1>10. QED
  BY <1>1, <1>2, <1>3, <1>4, <1>5, <1>6, <1>7, <1>8, <1>9 DEF ScrapeStep

LEMMA StoredKept == StoredInv /\ [Next]_vars => StoredInv'
<1> SUFFICES ASSUME StoredInv, [Next]_vars, ~suppressed'
             PROVE  CopiesStored' /\ PhotosStored'
  BY PhotosKept DEF StoredInv, CopiesStored, PhotosStored
<1>0. PhotoInv /\ TypeOK
  BY DEF StoredInv, PhotoInv
<1>1. ASSUME NEW s \in Scrape, BeginScrape(s) \/ ScrapeStep(s) \/ ScrapeFails(s)
      PROVE  CopiesStored' /\ PhotosStored'
  <2>1. ~suppressed /\ objects \subseteq objects'
    BY <1>0, <1>1, ObjectsStay DEF Next
  <2>2. MovesStored(s) /\ CopiesStored'
    BY <1>1, ScrapeStored
  <2>3. ASSUME NEW r \in Scrape,
               scrape'[r].pc \in {"backfill", "select", "merge", "cache"}
        PROVE  StoredIn(scrape'[r].photo.ext, objects')
    <3>1. PICK t \in ScrapeState :
              /\ scrape' = [scrape EXCEPT ![s] = t]
              /\ t.pc \in {"backfill", "select", "merge", "cache"}
                    => StoredIn(t.photo.ext, objects')
      BY <2>2 DEF MovesStored
    <3>2. CASE r = s
      BY <1>0, <2>3, <3>1, <3>2 DEF TypeOK
    <3>3. CASE r # s
      <4>1. scrape'[r] = scrape[r]
        BY <1>0, <3>1, <3>3 DEF TypeOK
      <4>2. StoredIn(scrape[r].photo.ext, objects)
        BY <2>1, <2>3, <4>1 DEF StoredInv, PhotosStored
      <4>3. QED
        BY <2>1, <4>1, <4>2, StoredStays
    <3>4. QED
      BY <3>2, <3>3
  <2>4. QED
    BY <2>2, <2>3 DEF PhotosStored
<1>2. ASSUME UNCHANGED scrape, objects \subseteq objects', ~suppressed,
             row' \in {row, NoCopy}, cache' \in {cache, NoCopy}
      PROVE  CopiesStored' /\ PhotosStored'
  BY <1>2, StoredStays DEF StoredInv, CopiesStored, PhotosStored
<1>3. CASE KeyExpires
  BY <1>0, <1>2, <1>3, ObjectsStay DEF KeyExpires, Next, register
<1>4. ASSUME NEW c \in Call, Post(c) \/ CallStep(c) \/ PurgeFails(c) \/ Abort(c)
      PROVE  CopiesStored' /\ PhotosStored'
  <2>1. ~suppressed /\ objects \subseteq objects'
    BY <1>0, <1>4, ObjectsStay DEF Next
  <2>2. UNCHANGED scrape /\ row' \in {row, NoCopy} /\ cache' \in {cache, NoCopy}
    BY <1>4 DEF Post, CallStep, PurgeFails, Abort, AnswerAccess, AddSuppression,
       SelectPhoto, DeleteObject, DeleteRow, DeleteCached, CommitPurge,
       CompleteDsar, photos
  <2>3. QED
    BY <1>2, <2>1, <2>2
<1>5. CASE UNCHANGED vars
  BY <1>2, <1>5 DEF vars
<1>6. QED
  BY <1>1, <1>3, <1>4, <1>5 DEF Next

(* Until the opt-out is listed, a copy that a job could be given never     *)
(* names an object that was not stored, whatever fails on the way and      *)
(* however scrapes under several extensions overlap.                       *)
THEOREM CopiesNameObjects == Spec => []CachedIsStored
<1>1. StoredInv => CachedIsStored
  BY DEF StoredInv, CopiesStored, CachedIsStored, StoredIn
<1>2. QED
  BY <1>1, InitStored, StoredKept, PTL DEF Spec

=============================================================================
