------------------------------- MODULE Erasure -------------------------------
(***************************************************************************)
(* The photo of one LinkedIn profile, kept in three places (an object in   *)
(* R2 or the local asset cache, the photo_cache row that names it, a copy  *)
(* of the row in Redis), between the scrapes that store it and the opt-out *)
(* and DSAR requests that erase it and keep a register of what they did    *)
(* (app/storage, app/enrichers/linkedin_photo.py, app/compliance,          *)
(* app/modules/opt_out).                                                   *)
(*                                                                         *)
(* A job reaches a scrape only after its suppression check; the check, the *)
(* jobs and their dossiers are the subject of EnrichmentJobs, the two      *)
(* stores of the suppression list that of Suppression.                     *)
(***************************************************************************)
EXTENDS Naturals, FiniteSets

CONSTANTS Scrape,      \* jobs of the profile that may be under way at once
          Call,        \* opt-out and DSAR requests for the profile
          Kinds,       \* Kinds[c]: what request c may ask for
          Ext,         \* file extensions a photo may be stored under
          NoCopy,      \* no row, no key, no record loaded
          Remote,      \* R2 is configured
          Production,  \* app_env is "production"
          Faults       \* which kinds of failure this instance exhibits

(* What the row and the Redis key say of the photo.                        *)
Copy == [ext : Ext]

Kind == {"opt_out", "deletion", "access"}

FaultKind == {"redis",     \* a cache operation fails
              "r2",        \* an R2 operation fails
              "database",  \* a statement or a commit fails
              "crash"}     \* a process dies between two steps

ASSUME ErasureAssumption ==
    /\ Kinds \in [Call -> SUBSET Kind]
    /\ NoCopy \notin Copy
    /\ Remote \in BOOLEAN /\ Production \in BOOLEAN
    /\ Faults \subseteq FaultKind

-----------------------------------------------------------------------------

Store == {"r2", "local"}

ScrapePc == {"idle", "redis", "sql", "backfill", "browse", "upload",
             "select", "merge", "cache"}
CallPc == {"idle", "suppress", "summary", "select", "object", "delete",
           "cached", "commit", "complete", "done", "aborted"}
Loaded == Copy \cup {NoCopy}

VARIABLES suppressed, \* the identifier is on the suppression list
          row,        \* the committed photo_cache row
          cache,      \* the Redis key tier1:photo:<slug hash>
          objects,    \* the objects stored, <<where, extension>>
          scrape,     \* what each scrape is at, holds and has loaded
          call,       \* what each request is at, has loaded and deleted
          dsar,       \* the DSAR record committed for each request
          audit       \* committed audit_logs events, <<event, request, photos>>

VARIABLES missed, \* history: Redis refused to delete a cached copy
          erased, \* history: a purge has been committed
          late    \* history: stores written since the opt-out was listed

vars == <<suppressed, row, cache, objects, scrape, call, dsar, audit,
          missed, erased, late>>

ScrapeState == [pc : ScrapePc, photo : Loaded, found : Loaded]
CallState == [pc : CallPc, kind : Kind, found : Loaded, deletes : BOOLEAN]

NoScrape == [pc |-> "idle", photo |-> NoCopy, found |-> NoCopy]
NoCall   == [pc |-> "idle", kind |-> "opt_out", found |-> NoCopy, deletes |-> FALSE]

NoDsar == [type |-> "access", status |-> "none"]

Event == {"opt_out", "data_purged", "dsar_created", "dsar_completed"}

TypeOK ==
    /\ suppressed \in BOOLEAN
    /\ row \in Loaded /\ cache \in Loaded
    /\ objects \subseteq Store \X Ext
    /\ scrape \in [Scrape -> ScrapeState]
    /\ call \in [Call -> CallState]
    /\ dsar \in [Call -> [type : Kind, status : {"none", "pending", "completed"}]]
    /\ audit \subseteq Event \X Call \X (0 .. 1)
    /\ missed \in BOOLEAN /\ erased \in BOOLEAN
    /\ late \subseteq {"row", "cache"}

Init ==
    /\ suppressed = FALSE
    /\ row = NoCopy /\ cache = NoCopy
    /\ objects = {}
    /\ scrape = [s \in Scrape |-> NoScrape]
    /\ call = [c \in Call |-> NoCall]
    /\ dsar = [c \in Call |-> NoDsar]
    /\ audit = {}
    /\ missed = FALSE /\ erased = FALSE
    /\ late = {}

-----------------------------------------------------------------------------
(* A scrape: LinkedInPhotoEnricher._fetch over PhotoCache and R2.          *)

register == <<suppressed, call, dsar, audit, missed, erased>>

Fault(kind) == kind \in Faults

(* A request that deleted the row and has not committed holds its lock.    *)
Locked == \E c \in Call : call[c].pc \in {"cached", "commit"} /\ call[c].deletes

At(s, pc) == scrape[s].pc = pc
Goto(s, pc) == scrape' = [scrape EXCEPT ![s].pc = pc]
Ended(s) == scrape' = [scrape EXCEPT ![s] = NoScrape]

(* The job has just been found not suppressed.                             *)
BeginScrape(s) ==
    /\ At(s, "idle")
    /\ ~suppressed
    /\ Goto(s, "redis")
    /\ UNCHANGED <<row, cache, objects, register, late>>

(* A copy is the answer, unless it has passed its expires_at: any copy     *)
(* that is read may have.                                                  *)
GetFromRedis(s) ==
    /\ At(s, "redis")
    /\ \/ cache # NoCopy /\ Ended(s)
       \/ Goto(s, "sql")
    /\ UNCHANGED <<row, cache, objects, register, late>>

GetFromSql(s) ==
    /\ At(s, "sql")
    /\ \/ /\ row # NoCopy
          /\ scrape' = [scrape EXCEPT ![s].pc = "backfill", ![s].photo = row]
       \/ Goto(s, "browse")
    /\ UNCHANGED <<row, cache, objects, register, late>>

(* (History: a store is written.)                                          *)
Noted(store) == late' = IF suppressed THEN late \cup {store} ELSE late

(* What _set_redis leaves in the key: the copy, unless Redis refuses.      *)
SetRedis(copy) ==
    \/ cache' = copy /\ Noted("cache")
    \/ Fault("redis") /\ UNCHANGED <<cache, late>>

(* The copy read from SQL, or the one just merged, goes to Redis.          *)
WriteCache(s) ==
    /\ scrape[s].pc \in {"backfill", "cache"}
    /\ SetRedis(scrape[s].photo)
    /\ Ended(s)
    /\ UNCHANGED <<row, objects, register>>

(* The browser returns a picture of some content type, or none.            *)
Browse(s) ==
    /\ At(s, "browse")
    /\ \/ Ended(s)
       \/ \E ext \in Ext : scrape' = [scrape EXCEPT ![s].pc = "upload",
              ![s].photo = [ext |-> ext]]
    /\ UNCHANGED <<row, cache, objects, register, late>>

(* Mutant: a failed upload is logged and nothing is kept.                  *)
NoLocalCopy(s) == {}

LocalCopy(s) == {<<"local", scrape[s].photo.ext>>}

(* put_object, then head_object; a failure of either falls back to the     *)
(* local cache, except in production, where the scrape ends with nothing.  *)
Upload(s) ==
    /\ At(s, "upload")
    /\ LET remote == {<<"r2", scrape[s].photo.ext>>} IN
       \/ Remote /\ objects' = objects \cup remote /\ Goto(s, "select")
       \/ /\ Remote /\ Fault("r2") /\ Production
          /\ objects' \in {objects, objects \cup remote}
          /\ Ended(s)
       \/ /\ Remote => Fault("r2") /\ ~Production
          /\ \E put \in {{}, remote} : /\ ~Remote => put = {}
                                     /\ objects' = objects \cup put \cup LocalCopy(s)
          /\ Goto(s, "select")
    /\ UNCHANGED <<row, cache, register, late>>

(* PhotoCache.put: session.merge loads the row ...                         *)
MergeSelect(s) ==
    /\ At(s, "select")
    /\ scrape' = [scrape EXCEPT ![s].pc = "merge", ![s].found = row]
    /\ UNCHANGED <<row, cache, objects, register, late>>

(* The UPDATE leaves the key alone that the loaded row had already.        *)
MergedRow(photo, found) ==
    [photo EXCEPT !.ext = IF found # NoCopy /\ found.ext = photo.ext
                          THEN row.ext ELSE photo.ext]

(* ... and commits: the row is inserted, or updated.  When the row came or *)
(* went in between the statement fails and the enricher swallows the error.*)
MergeCommit(s) ==
    /\ At(s, "merge")
    /\ ~Locked
    /\ IF (scrape[s].found = NoCopy) = (row = NoCopy)
       THEN /\ row' = MergedRow(scrape[s].photo, scrape[s].found)
            /\ Noted("row")
            /\ Goto(s, "cache")
       ELSE Ended(s) /\ UNCHANGED <<row, late>>
    /\ UNCHANGED <<cache, objects, register>>

ScrapeFails(s) ==
    /\ Fault("crash") \/ Fault("database")
    /\ ~At(s, "idle")
    /\ Ended(s)
    /\ UNCHANGED <<row, cache, objects, register, late>>

(* The key reaches its TTL.                                                *)
KeyExpires ==
    /\ cache # NoCopy
    /\ cache' = NoCopy
    /\ UNCHANGED <<row, objects, scrape, register, late>>

-----------------------------------------------------------------------------
(* POST /opt-out and POST /dsar: OptOutService.register and process_dsar.  *)

photos == <<row, cache, objects>>

IsAt(c, pc) == call[c].pc = pc
Proceed(c, pc) == call' = [call EXCEPT ![c].pc = pc]

Logged(events, c, n) == audit \cup {<<e, c, n>> : e \in events}

Dsar(c, status) == [type |-> call[c].kind, status |-> status]

(* process_dsar first adds its record and event, which it does not commit. *)
Post(c) ==
    /\ IsAt(c, "idle")
    /\ \E kind \in Kinds[c] :
          call' = [call EXCEPT ![c].kind = kind,
                      ![c].pc = IF kind = "access" THEN "summary" ELSE "suppress"]
    /\ UNCHANGED <<suppressed, photos, scrape, late, dsar, audit, missed, erased>>

(* build_access_summary only reads; everything is committed at the end.    *)
AnswerAccess(c) ==
    /\ IsAt(c, "summary")
    /\ dsar' = [dsar EXCEPT ![c] = Dsar(c, "completed")]
    /\ audit' = Logged({"dsar_created", "dsar_completed"}, c, 0)
    /\ Proceed(c, "done")
    /\ UNCHANGED <<suppressed, photos, scrape, late, missed, erased>>

(* Mutant: a request whose record is pending is logged when it completes.  *)
PendingUnlogged(c) == audit

PendingLogged(c) ==
    IF call[c].kind = "deletion" THEN Logged({"dsar_created"}, c, 0) ELSE audit

(* add_suppression commits, and with it the session's pending DSAR record. *)
AddSuppression(c) ==
    /\ IsAt(c, "suppress")
    /\ suppressed' = TRUE
    /\ dsar' = IF call[c].kind = "deletion"
               THEN [dsar EXCEPT ![c] = Dsar(c, "pending")] ELSE dsar
    /\ audit' = PendingLogged(c)
    /\ Proceed(c, "select")
    /\ UNCHANGED <<photos, scrape, late, missed, erased>>

(* Without a row there is nothing to purge, in Redis neither.              *)
SelectPhoto(c) ==
    /\ IsAt(c, "select")
    /\ call' = [call EXCEPT ![c].found = row,
                            ![c].pc = IF row = NoCopy THEN "commit" ELSE "object"]
    /\ UNCHANGED <<suppressed, photos, scrape, late, dsar, audit, missed, erased>>

(* R2 reports the deletion of a missing object as success; only an error   *)
(* leads to the local cache.                                               *)
DeleteObject(c) ==
    /\ IsAt(c, "object")
    /\ \/ Remote /\ objects' = objects \ {<<"r2", call[c].found.ext>>}
       \/ /\ Remote => Fault("r2")
          /\ objects' = objects \ {<<"local", call[c].found.ext>>}
    /\ Proceed(c, "delete")
    /\ UNCHANGED <<suppressed, row, cache, scrape, late, dsar, audit, missed, erased>>

(* A row another request has deleted meanwhile is passed over.             *)
DeleteRow(c) ==
    /\ IsAt(c, "delete")
    /\ ~Locked
    /\ call' = [call EXCEPT ![c].pc = "cached", ![c].deletes = (row # NoCopy)]
    /\ UNCHANGED <<suppressed, photos, scrape, late, dsar, audit, missed, erased>>

(* Mutant: the key is derived from the URL, not from the slug.             *)
DeleteOtherKey(c) ==
    /\ IsAt(c, "cached")
    /\ Proceed(c, "commit")
    /\ UNCHANGED <<suppressed, row, cache, objects, scrape, late, dsar, audit,
                   missed, erased>>

DeleteCached(c) ==
    /\ IsAt(c, "cached")
    /\ \/ cache' = NoCopy /\ UNCHANGED missed
       \/ Fault("redis") /\ UNCHANGED cache /\ missed' = TRUE
    /\ Proceed(c, "commit")
    /\ UNCHANGED <<suppressed, row, objects, scrape, late, dsar, audit, erased>>

(* Mutant: a deletion is taken for an opt-out.                             *)
EndPurge(c) == call' = [call EXCEPT ![c] = [NoCall EXCEPT
                            !.kind = call[c].kind, !.pc = "done"]]

(* An opt-out is over; a DSAR goes on.                                     *)
AfterPurge(c) ==
    call' = [call EXCEPT ![c] = [NoCall EXCEPT !.kind = call[c].kind,
                !.pc = IF call[c].kind = "deletion" THEN "complete" ELSE "done"]]

(* Mutant: the object is counted with the row.                             *)
DeletedWithObject(c) == IF call[c].found = NoCopy THEN 0 ELSE 2

(* photos_deleted: a record was found.                                     *)
Deleted(c) == IF call[c].found = NoCopy THEN 0 ELSE 1

(* The purge and its two events are committed together.                    *)
CommitPurge(c) ==
    /\ IsAt(c, "commit")
    /\ row' = IF call[c].deletes THEN NoCopy ELSE row
    /\ audit' = Logged({"opt_out"}, c, 0) \cup Logged({"data_purged"}, c, Deleted(c))
    /\ erased' = TRUE
    /\ AfterPurge(c)
    /\ UNCHANGED <<suppressed, cache, objects, scrape, late, dsar, missed>>

(* A SELECT of the purge raises.  The commit in the handler rolls back if  *)
(* the database has aborted the transaction, the opt_out event with it;    *)
(* the request goes on to log a purge of nothing.                          *)
PurgeFails(c) ==
    /\ Fault("database")
    /\ IsAt(c, "select")
    /\ \E events \in {{"data_purged"}, {"opt_out", "data_purged"}} :
          audit' = Logged(events, c, 0)
    /\ AfterPurge(c)
    /\ UNCHANGED <<suppressed, photos, scrape, late, dsar, missed, erased>>

CompleteDsar(c) ==
    /\ IsAt(c, "complete")
    /\ dsar' = [dsar EXCEPT ![c] = Dsar(c, "completed")]
    /\ audit' = Logged({"dsar_completed"}, c, 0)
    /\ Proceed(c, "done")
    /\ UNCHANGED <<suppressed, photos, scrape, late, missed, erased>>

(* The process dies, or a failed flush or commit makes the handler raise:  *)
(* what is not committed is rolled back, and nobody takes the request up.  *)
Abort(c) ==
    /\ Fault("crash") \/ Fault("database")
    /\ call[c].pc \notin {"idle", "done", "aborted"}
    /\ call' = [call EXCEPT ![c] = [NoCall EXCEPT !.pc = "aborted"]]
    /\ UNCHANGED <<suppressed, photos, scrape, late, dsar, audit, missed, erased>>

-----------------------------------------------------------------------------

ScrapeStep(s) ==
    \/ GetFromRedis(s) \/ GetFromSql(s) \/ WriteCache(s) \/ Browse(s)
    \/ Upload(s) \/ MergeSelect(s) \/ MergeCommit(s)

CallStep(c) ==
    \/ AnswerAccess(c) \/ AddSuppression(c) \/ SelectPhoto(c) \/ DeleteObject(c)
    \/ DeleteRow(c) \/ DeleteCached(c) \/ CommitPurge(c) \/ CompleteDsar(c)

Next ==
    \/ \E s \in Scrape : BeginScrape(s) \/ ScrapeStep(s) \/ ScrapeFails(s)
    \/ KeyExpires
    \/ \E c \in Call : Post(c) \/ CallStep(c) \/ PurgeFails(c) \/ Abort(c)

Spec == Init /\ [][Next]_vars

(* A request that was received is served to its end: the only thing it may *)
(* wait for is the row lock of another one.                                *)
FairSpec == Spec /\ \A c \in Call : WF_vars(CallStep(c))

-----------------------------------------------------------------------------
(* Properties                                                              *)

(* Once a purge is committed, what is left of the photo was put where it   *)
(* is after the opt-out was listed, by a scrape already under way then, or *)
(* is a copy that Redis refused to delete: nothing that lay in a store at  *)
(* the opt-out outlives the purge there, however purges and cache fills    *)
(* overlap.  (What such a scrape writes may be older than the opt-out: a   *)
(* photo it had fetched, or a row it had read, which it puts into Redis    *)
(* behind the purge.)                                                      *)
EarlyRow   == row # NoCopy /\ "row" \notin late
EarlyCache == cache # NoCopy /\ "cache" \notin late

ErasedExceptLate == erased => ~EarlyRow /\ (EarlyCache => missed)

(* The parts of the inductive invariant behind it: a purge runs after the  *)
(* opt-out is listed; Redis has no early copy without a row, on which the  *)
(* purge depends to look there; a purge about to commit has dealt with the *)
(* early copies.                                                           *)
ListedBeforePurge ==
    /\ erased => suppressed
    /\ \A c \in Call : call[c].pc \in {"select", "object", "delete", "cached",
                                       "commit", "complete"} => suppressed

CopyHasRow ==
    /\ EarlyCache /\ row = NoCopy => missed
    /\ \A s \in Scrape : scrape[s].pc \in {"backfill", "cache"} /\ ~suppressed
                           => row # NoCopy

PurgeCoversCopies ==
    \A c \in Call :
        /\ call[c].pc \in {"cached", "commit"} /\ ~call[c].deletes => ~EarlyRow
        /\ call[c].pc = "commit" /\ EarlyCache => missed

HoldsPhoto ==
    /\ \A s \in Scrape : scrape[s].pc \in {"backfill", "upload", "select", "merge",
                                          "cache"} => scrape[s].photo # NoCopy
    /\ \A c \in Call : call[c].pc \in {"object", "delete"} => call[c].found # NoCopy

PhotoInv == /\ TypeOK
            /\ HoldsPhoto
            /\ ListedBeforePurge
            /\ CopyHasRow
            /\ PurgeCoversCopies
            /\ ErasedExceptLate

(* Until the opt-out, every copy that a job could be given names an object *)
(* that was stored, whatever failed while it was uploaded.                 *)
CachedIsStored ==
    ~suppressed => \A copy \in {row, cache} \ {NoCopy} :
        \E where \in Store : <<where, copy.ext>> \in objects

(* The register agrees with the DSAR records and with what was done: an    *)
(* event for each record and each completion, no deletion completed before *)
(* the identifier is suppressed and its purge logged, and no photo         *)
(* reported as deleted unless some purge went through.                     *)
RegisterAgrees ==
    \A c \in Call :
        /\ dsar[c].status # "none" => <<"dsar_created", c, 0>> \in audit
        /\ dsar[c].status = "completed" <=> <<"dsar_completed", c, 0>> \in audit
        /\ dsar[c] = [type |-> "deletion", status |-> "completed"]
              => suppressed /\ \E n \in 0 .. 1 : <<"data_purged", c, n>> \in audit
        /\ <<"data_purged", c, 1>> \in audit => erased

(* Behind it: which record a request has committed at each stage.          *)
DsarStage ==
    \A c \in Call :
        /\ call[c].pc \in {"idle", "suppress", "summary"} => dsar[c] = NoDsar
        /\ call[c].pc = "summary" => call[c].kind = "access"
        /\ call[c].pc = "complete" => /\ call[c].kind = "deletion"
                                      /\ \E n \in 0 .. 1 : <<"data_purged", c, n>> \in audit
        /\ call[c].pc \in {"select", "object", "delete", "cached", "commit", "complete"}
              => dsar[c] = IF call[c].kind = "deletion"
                           THEN Dsar(c, "pending") ELSE NoDsar

(* A deletion that shows as pending is completed, unless the process that  *)
(* served it died or its commit failed: a purge that fails, or that waits  *)
(* for another one, does not leave it pending.                             *)
DsarsEnd ==
    \A c \in Call : dsar[c].status = "pending"
                       ~> dsar[c].status = "completed" \/ IsAt(c, "aborted")

=============================================================================
