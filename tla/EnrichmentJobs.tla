--------------------------- MODULE EnrichmentJobs ---------------------------
(***************************************************************************)
(* The life of an enrichment job: the API handlers that create it, the RQ  *)
(* queue that carries it, the worker run that executes it, and the opt-out *)
(* handlers that suppress an identifier and purge its jobs, all sharing    *)
(* the `jobs` table (app/modules/enrichment, app/enrichers/pipeline.py,    *)
(* app/workers, app/compliance/purge.py, app/modules/opt_out).             *)
(*                                                                         *)
(* Database: READ COMMITTED.  A session reads committed rows, keeps what   *)
(* it loaded, and its UPDATE writes only the columns whose value differs   *)
(* from the loaded one; a flushed, uncommitted UPDATE holds the row lock.  *)
(* A request's suppression check is one atomic read of the suppression     *)
(* list; its two stores (Redis and SQL) are the subject of Suppression.    *)
(***************************************************************************)
EXTENDS Naturals, Sequences, FiniteSets

CONSTANTS Job,           \* job ids, one per enrichment request
          Identifier,    \* hashes of identifiers
          IdentifiersOf, \* IdentifiersOf[j]: the identifiers request j names
          Workers,       \* how many RQ workers serve the queue
          Faults,        \* which kinds of failure this instance exhibits
          MaxErrors      \* bound: exceptions raised in one run of a job

FaultKind == {"crash",    \* a process dies between two steps
              "error",    \* an await raises (database, merge, publish)
              "early",    \* one raises while the job is created or picked up
              "timeout",  \* RQ's alarm fires while the event loop is idle
              "broker"}   \* Redis fails an enqueue or a publish

ASSUME JobsAssumption ==
    /\ IdentifiersOf \in [Job -> SUBSET Identifier]
    /\ Workers \in Nat
    /\ MaxErrors \in Nat
    /\ Faults \subseteq FaultKind

-----------------------------------------------------------------------------

Status == {"queued", "running", "completed", "completed_no_data",
           "suppressed", "failed", "purged"}

(* What the dossier_payload column holds: {} ("empty"), the base dossier   *)
(* of a suppressed request, or one assembled from the enrichers' payloads. *)
Dossier == {"empty", "base", "nodata", "data"}
Enriched == {"nodata", "data"}

(* A row of the jobs table; status "none" stands for a row not there.      *)
Row   == [status : Status \cup {"none"}, dossier : Dossier]
NoRow == [status |-> "none", dossier |-> "empty"]

ApiPc == {"new", "create", "insert", "suppress", "suppress_enqueue",
          "enqueue", "fail", "sync", "done"}
RunPc == {"idle", "load", "begin", "refresh", "check", "dispatch", "mark",
          "handler", "failmark", "recover", "recovermark", "givenup"}
OptOutPc == {"idle", "select", "flush", "commit", "audit"}

VARIABLES row,         \* the jobs table, committed contents
          suppressed,  \* identifiers on the suppression list
          queue,       \* job ids in the RQ queue
          api,         \* where the handler of each request stands
          run,         \* where the execution of each job stands
          optout,      \* where the opt-out of each identifier stands
          audit,       \* committed audit_logs events, <<event, subject>>
          events       \* terminal statuses published for each job

VARIABLES racing, \* history: runs past their check when i was suppressed
          erased  \* history: identifiers whose purge has been committed

system == <<row, suppressed, queue, api, run, optout, audit, events>>
vars   == <<row, suppressed, queue, api, run, optout, audit, events,
            racing, erased>>

(* A run: where it stands, the row its session loaded, and the dossier it  *)
(* is about to store.                                                      *)
RunState == [pc      : RunPc,
             seen    : Row,
             dossier : Dossier,
             errors  : 0 .. MaxErrors]

(* An opt-out handler: where it stands and the rows its SELECT returned.   *)
OptOutState == [pc : OptOutPc, loaded : [Job -> Row]]

AuditEvent == ({"opt_out", "data_purged"} \X Identifier)
              \cup ({"enrichment_suppressed"} \X Job)

Idle == [pc |-> "idle", seen |-> NoRow, dossier |-> "empty", errors |-> 0]

TypeOK ==
    /\ row \in [Job -> Row]
    /\ suppressed \subseteq Identifier
    /\ queue \in Seq(Job)
    /\ api \in [Job -> ApiPc]
    /\ run \in [Job -> RunState]
    /\ optout \in [Identifier -> OptOutState]
    /\ audit \subseteq AuditEvent
    /\ events \in [Job -> SUBSET Status]
    /\ racing \in [Identifier -> SUBSET Job]
    /\ erased \subseteq Identifier

NothingLoaded == [j \in Job |-> NoRow]

Init ==
    /\ row = [j \in Job |-> NoRow]
    /\ suppressed = {}
    /\ queue = << >>
    /\ api = [j \in Job |-> "new"]
    /\ run = [j \in Job |-> Idle]
    /\ optout = [i \in Identifier |-> [pc |-> "idle", loaded |-> NothingLoaded]]
    /\ audit = {}
    /\ events = [j \in Job |-> {}]
    /\ racing = [i \in Identifier |-> {}]
    /\ erased = {}

-----------------------------------------------------------------------------
(* Shared operators                                                        *)

(* Mutant: every identifier must be suppressed, not any. *)
IsRequestFullySuppressed(j) ==
    IdentifiersOf[j] # {} /\ IdentifiersOf[j] \subseteq suppressed

IsRequestSuppressed(j) == IdentifiersOf[j] \cap suppressed # {}

Sync(j) == api[j] = "sync"

(* A flushed purge holds the locks of the rows it selected until it        *)
(* commits.                                                                *)
Locked(j) == \E i \in Identifier : /\ optout[i].pc = "commit"
                                   /\ optout[i].loaded[j] # NoRow

(* The UPDATE a session issues for a row it loaded as `seen`: columns set  *)
(* to the loaded value are left out of the statement.                      *)
Update(current, seen, status, dossier) ==
    [status  |-> IF status = seen.status THEN current.status ELSE status,
     dossier |-> IF dossier = seen.dossier THEN current.dossier ELSE dossier]

(* publish_job_status swallows RedisError, and the process may end between *)
(* the commit and the publish: the event is lost.                          *)
Publish(j, status, losses) ==
    \/ events' = [events EXCEPT ![j] = @ \cup {status}]
    \/ Faults \cap losses # {} /\ UNCHANGED events

(* A run that has read the suppression list as clear and may still write   *)
(* a dossier.                                                              *)
PastCheck(j) == \/ run[j].pc = "dispatch"
                \/ run[j].pc = "mark" /\ run[j].dossier \in Enriched

-----------------------------------------------------------------------------
(* POST /enrich: EnrichmentService.enrich_async and the job creation of    *)
(* the pipeline.                                                           *)

EnrichAsync(j) ==
    /\ api[j] = "new"
    /\ api' = [api EXCEPT ![j] = IF IsRequestSuppressed(j) THEN "suppress"
                                                           ELSE "create"]
    /\ UNCHANGED <<row, suppressed, queue, run, optout, audit, events,
                   racing, erased>>

(* create_queued_job checks the list a second time; a job it suppresses is *)
(* returned to enrich_async, which goes on to enqueue it.                  *)
CreateQueuedJob(j) ==
    /\ api[j] = "create"
    /\ api' = [api EXCEPT ![j] = IF IsRequestSuppressed(j)
                                 THEN "suppress_enqueue" ELSE "insert"]
    /\ UNCHANGED <<row, suppressed, queue, run, optout, audit, events,
                   racing, erased>>

InsertQueuedJob(j) ==
    /\ api[j] = "insert"
    /\ row' = [row EXCEPT ![j] = [status |-> "queued", dossier |-> "empty"]]
    /\ api' = [api EXCEPT ![j] = "enqueue"]
    /\ UNCHANGED <<suppressed, queue, run, optout, audit, events,
                   racing, erased>>

CreateSuppressedJob(j) ==
    /\ api[j] \in {"suppress", "suppress_enqueue"}
    /\ row' = [row EXCEPT ![j] = [status |-> "suppressed", dossier |-> "base"]]
    /\ audit' = audit \cup {<<"enrichment_suppressed", j>>}
    /\ Publish(j, "suppressed", {"broker", "crash", "early"})
    /\ api' = [api EXCEPT ![j] = IF @ = "suppress" THEN "done" ELSE "enqueue"]
    /\ UNCHANGED <<suppressed, queue, run, optout, racing, erased>>

(* Mutant: the call is retried, so the job is in the queue twice. *)
EnqueuedTwice(j) == queue \o <<j, j>>

(* Mutant: the job goes to a queue no worker listens to. *)
EnqueuedElsewhere(j) == queue

Enqueued(j) == Append(queue, j)

EnqueueEnrichment(j) ==
    /\ api[j] = "enqueue"
    /\ queue' = Enqueued(j)
    /\ api' = [api EXCEPT ![j] = "done"]
    /\ UNCHANGED <<row, suppressed, run, optout, audit, events,
                   racing, erased>>

(* The Redis call fails, before or after the server took the job.          *)
EnqueueFails(j) ==
    /\ "broker" \in Faults
    /\ api[j] = "enqueue"
    /\ queue' \in {queue, Enqueued(j)}
    /\ api' = [api EXCEPT ![j] = "fail"]
    /\ UNCHANGED <<row, suppressed, run, optout, audit, events,
                   racing, erased>>

(* Mutant: the handler resets the whole row. *)
FailedBlankRow(current) == [status |-> "failed", dossier |-> "empty"]

(* Mutant: a status JobStatus does not have. *)
FailedRowMisnamed(current) == [current EXCEPT !.status = "error"]

FailedRow(current) == [current EXCEPT !.status = "failed"]

(* except RedisError: the status column alone is written, no event sent.   *)
FailUnqueuedJob(j) ==
    /\ api[j] = "fail"
    /\ ~Locked(j)
    /\ row' = [row EXCEPT ![j] = FailedRow(@)]
    /\ api' = [api EXCEPT ![j] = "done"]
    /\ UNCHANGED <<suppressed, queue, run, optout, audit, events,
                   racing, erased>>

(* POST /enrich/sync: the row is only flushed, so nobody sees it before    *)
(* the run's final commit.                                                 *)
EnrichSync(j) ==
    /\ api[j] = "new"
    /\ api' = [api EXCEPT ![j] = "sync"]
    /\ run' = [run EXCEPT ![j].pc = "check"]
    /\ UNCHANGED <<row, suppressed, queue, optout, audit, events,
                   racing, erased>>

(* A handler that dies or raises leaves what it committed; the session is  *)
(* rolled back by get_db_session.                                          *)
ApiAborts(j) ==
    /\ Faults \cap {"crash", "early"} # {}
    /\ api[j] \notin {"new", "done"}
    /\ api' = [api EXCEPT ![j] = "done"]
    /\ run' = IF Sync(j) THEN [run EXCEPT ![j] = Idle] ELSE run
    /\ UNCHANGED <<row, suppressed, queue, optout, audit, events,
                   racing, erased>>

-----------------------------------------------------------------------------
(* The worker: run_enrichment_job, Pipeline.execute_job and _execute.      *)

Busy == {j \in Job : run[j].pc \notin {"idle", "givenup"} /\ ~Sync(j)}

Dequeue(j) ==
    /\ queue # << >> /\ Head(queue) = j
    /\ Cardinality(Busy) < Workers
    /\ queue' = Tail(queue)
    /\ run' = [run EXCEPT ![j].pc = "load"]
    /\ UNCHANGED <<row, suppressed, api, optout, audit, events,
                   racing, erased>>

LoadJob(j) ==
    /\ run[j].pc = "load"
    /\ run' = [run EXCEPT ![j].pc = "begin", ![j].seen = row[j]]
    /\ UNCHANGED <<row, suppressed, queue, api, optout, audit, events,
                   racing, erased>>

(* mark_status(job, running) commits at once ...                           *)
MarkRunning(j) ==
    /\ run[j].pc = "begin"
    /\ ~Locked(j)
    /\ row' = [row EXCEPT ![j] = Update(@, run[j].seen, "running",
                                        run[j].seen.dossier)]
    /\ run' = [run EXCEPT ![j].pc = "refresh"]
    /\ UNCHANGED <<suppressed, queue, api, optout, audit, events,
                   racing, erased>>

(* ... and then reads the row again, which a purge may have written since. *)
RefreshRunning(j) ==
    /\ run[j].pc = "refresh"
    /\ run' = [run EXCEPT ![j].pc = "check", ![j].seen = row[j]]
    /\ UNCHANGED <<row, suppressed, queue, api, optout, audit, events,
                   racing, erased>>

CheckSuppression(j) ==
    /\ run[j].pc = "check"
    /\ run' = IF IsRequestSuppressed(j)
              THEN [run EXCEPT ![j].pc = "mark", ![j].dossier = "base"]
              ELSE [run EXCEPT ![j].pc = "dispatch"]
    /\ UNCHANGED <<row, suppressed, queue, api, optout, audit, events,
                   racing, erased>>

(* _dispatch and _merge: enrichers that raise contribute an empty payload. *)
DispatchAndMerge(j) ==
    /\ run[j].pc = "dispatch"
    /\ \E dossier \in Enriched :
          run' = [run EXCEPT ![j].pc = "mark", ![j].dossier = dossier]
    /\ UNCHANGED <<row, suppressed, queue, api, optout, audit, events,
                   racing, erased>>

(* The status _execute stores with a dossier.                              *)
FinalStatus(dossier) == CASE dossier = "data" -> "completed"
                          [] dossier = "nodata" -> "completed_no_data"
                          [] OTHER -> "suppressed"

(* Mutant: mark_status is not given the dossier. *)
OutcomeStatusOnly(j) == [row[j] EXCEPT !.status = FinalStatus(run[j].dossier)]

(* What the final mark_status commits: an INSERT for the sync path's new   *)
(* row, an UPDATE of the loaded row otherwise.                             *)
Outcome(j) ==
    IF Sync(j)
    THEN [status |-> FinalStatus(run[j].dossier), dossier |-> run[j].dossier]
    ELSE Update(row[j], run[j].seen, FinalStatus(run[j].dossier), run[j].dossier)

MarkFinished(j) ==
    /\ run[j].pc = "mark"
    /\ ~Locked(j)
    /\ row' = [row EXCEPT ![j] = Outcome(j)]
    /\ Publish(j, FinalStatus(run[j].dossier), {"broker", "crash", "timeout"})
    /\ run' = [run EXCEPT ![j] = Idle]
    /\ api' = IF Sync(j) THEN [api EXCEPT ![j] = "done"] ELSE api
    /\ UNCHANGED <<suppressed, queue, optout, audit, racing, erased>>

CanRaise(j) == "error" \in Faults /\ run[j].errors < MaxErrors

(* The commit succeeds, then refresh or publish raises what mark_status    *)
(* does not catch.                                                         *)
MarkFinishedThenRaise(j) ==
    /\ run[j].pc = "mark"
    /\ ~Locked(j)
    /\ CanRaise(j)
    /\ row' = [row EXCEPT ![j] = Outcome(j)]
    /\ run' = [run EXCEPT ![j] = IF Sync(j) THEN Idle
                                 ELSE [run[j] EXCEPT !.pc = "handler",
                                                   !.errors = run[j].errors + 1]]
    /\ api' = IF Sync(j) THEN [api EXCEPT ![j] = "done"] ELSE api
    /\ UNCHANGED <<suppressed, queue, optout, audit, events, racing, erased>>

(* Which except clause an exception reaches: loading and the running       *)
(* transition, its refresh included, lie outside execute_job's try, and an *)
(* exception in that handler goes on to the task's.  In the task's own     *)
(* clause it is logged, and the job is given up.                           *)
RaisesTo(pc) ==
    CASE pc \in {"load", "begin", "refresh", "handler", "failmark"} -> "recover"
      [] pc \in {"check", "dispatch", "mark"} -> "handler"
      [] pc \in {"recover", "recovermark"} -> "givenup"

(* "early" tells what raises before the running transition is committed    *)
(* from the rest.                                                          *)
RunRaises(j) ==
    /\ CanRaise(j)
    /\ ~Sync(j)
    /\ run[j].pc \notin {"idle", "givenup"}
    /\ run[j].pc \in {"load", "begin"} => "early" \in Faults
    /\ run' = [run EXCEPT ![j].pc = RaisesTo(run[j].pc),
                          ![j].errors = run[j].errors + 1]
    /\ UNCHANGED <<row, suppressed, queue, api, optout, audit, events,
                   racing, erased>>

(* execute_job's except clause: roll back, read the row again, and mark it *)
(* failed whatever its status; the exception is raised again.              *)
ReloadForFailure(j) ==
    /\ run[j].pc = "handler"
    /\ run' = [run EXCEPT ![j].pc = "failmark", ![j].seen = row[j]]
    /\ UNCHANGED <<row, suppressed, queue, api, optout, audit, events,
                   racing, erased>>

MarkFailed(j) ==
    /\ run[j].pc = "failmark"
    /\ ~Locked(j)
    /\ row' = [row EXCEPT ![j] = Update(@, run[j].seen, "failed",
                                        run[j].seen.dossier)]
    /\ Publish(j, "failed", FaultKind)
    /\ run' = [run EXCEPT ![j].pc = "recover"]
    /\ UNCHANGED <<suppressed, queue, api, optout, audit, racing, erased>>

(* Mutant: the recovery session looks for a job that never started. *)
NeverStarted(r) == r.status = "queued"

NeedsRecovery(r) == r.status = "running"

(* The task's except clause: a recovery session marks the job failed only  *)
(* if it still reads it as running.                                        *)
RecoverJob(j) ==
    /\ run[j].pc = "recover"
    /\ run' = IF NeedsRecovery(row[j])
              THEN [run EXCEPT ![j].pc = "recovermark", ![j].seen = row[j]]
              ELSE [run EXCEPT ![j] = Idle]
    /\ UNCHANGED <<row, suppressed, queue, api, optout, audit, events,
                   racing, erased>>

MarkRecovered(j) ==
    /\ run[j].pc = "recovermark"
    /\ ~Locked(j)
    /\ row' = [row EXCEPT ![j] = Update(@, run[j].seen, "failed",
                                        run[j].seen.dossier)]
    /\ Publish(j, "failed", FaultKind)
    /\ run' = [run EXCEPT ![j] = Idle]
    /\ UNCHANGED <<suppressed, queue, api, optout, audit, racing, erased>>

(* The work-horse is killed, or the RQ alarm interrupts the idle event     *)
(* loop: asyncio.run then cancels the task, and CancelledError passes both *)
(* `except Exception` clauses.  RQ does not requeue the job.               *)
RunVanishes(j) ==
    /\ Faults \cap {"crash", "timeout"} # {}
    /\ ~Sync(j)
    /\ run[j].pc \notin {"idle", "givenup"}
    /\ run' = [run EXCEPT ![j] = Idle]
    /\ UNCHANGED <<row, suppressed, queue, api, optout, audit, events,
                   racing, erased>>

-----------------------------------------------------------------------------
(* POST /opt-out (and DSAR deletion): OptOutService.register, with         *)
(* purge_identifier_data's effect on the jobs table.                       *)

(* add_suppression commits before anything else happens.                   *)
AddSuppression(i) ==
    /\ optout[i].pc = "idle"
    /\ suppressed' = suppressed \cup {i}
    /\ racing' = IF i \in suppressed THEN racing
                 ELSE [racing EXCEPT ![i] = {j \in Job : PastCheck(j)}]
    /\ optout' = [optout EXCEPT ![i].pc = "select"]
    /\ UNCHANGED <<row, queue, api, run, audit, events, erased>>

(* SELECT the committed rows that carry the identifier.                    *)
SelectJobs(i) ==
    /\ optout[i].pc = "select"
    /\ optout' = [optout EXCEPT
          ![i] = [pc     |-> "flush",
                  loaded |-> [j \in Job |-> IF i \in IdentifiersOf[j]
                                            THEN row[j] ELSE NoRow]]]
    /\ UNCHANGED <<row, suppressed, queue, api, run, audit, events,
                   racing, erased>>

FlushPurge(i) ==
    /\ optout[i].pc = "flush"
    /\ \A j \in Job : optout[i].loaded[j] # NoRow => ~Locked(j)
    /\ optout' = [optout EXCEPT ![i].pc = "commit"]
    /\ UNCHANGED <<row, suppressed, queue, api, run, audit, events,
                   racing, erased>>

(* Mutant: the purge sets the status and forgets the dossier.             *)
PurgedStatusOnly(i) ==
    [j \in Job |-> IF optout[i].loaded[j] = NoRow THEN row[j]
                   ELSE Update(row[j], optout[i].loaded[j], "purged", optout[i].loaded[j].dossier)]

Purged(i) ==
    [j \in Job |-> IF optout[i].loaded[j] = NoRow THEN row[j]
                   ELSE Update(row[j], optout[i].loaded[j], "purged", "empty")]

(* The photo purge went through: one commit for the purge and both audit   *)
(* events.                                                                 *)
CommitPurge(i) ==
    /\ optout[i].pc = "commit"
    /\ row' = Purged(i)
    /\ audit' = audit \cup {<<"opt_out", i>>, <<"data_purged", i>>}
    /\ optout' = [optout EXCEPT ![i] = [pc |-> "idle", loaded |-> NothingLoaded]]
    /\ erased' = erased \cup {i}
    /\ UNCHANGED <<suppressed, queue, api, run, events, racing>>

(* The photo purge raises: the handler commits the jobs' purge and goes on *)
(* to log data_purged.                                                     *)
CommitWithoutPhotos(i) ==
    /\ "error" \in Faults
    /\ optout[i].pc = "commit"
    /\ row' = Purged(i)
    /\ audit' = audit \cup {<<"opt_out", i>>}
    /\ optout' = [optout EXCEPT ![i] = [pc |-> "audit", loaded |-> NothingLoaded]]
    /\ erased' = erased \cup {i}
    /\ UNCHANGED <<suppressed, queue, api, run, events, racing>>

(* The SELECT raises: nothing is purged, and the commit that follows may   *)
(* find its transaction already aborted, losing the opt_out event.         *)
PurgeRaises(i) ==
    /\ "error" \in Faults
    /\ optout[i].pc = "select"
    /\ audit' \in {audit, audit \cup {<<"opt_out", i>>}}
    /\ optout' = [optout EXCEPT ![i].pc = "audit"]
    /\ UNCHANGED <<row, suppressed, queue, api, run, events, racing, erased>>

(* A statement of the photo purge fails in the database: the transaction   *)
(* is aborted, so the handler's commit rolls back the purge of the jobs.   *)
PurgeRolledBack(i) ==
    /\ "error" \in Faults
    /\ optout[i].pc = "commit"
    /\ optout' = [optout EXCEPT ![i] = [pc |-> "audit", loaded |-> NothingLoaded]]
    /\ UNCHANGED <<row, suppressed, queue, api, run, audit, events,
                   racing, erased>>

LogDataPurged(i) ==
    /\ optout[i].pc = "audit"
    /\ audit' = audit \cup {<<"data_purged", i>>}
    /\ optout' = [optout EXCEPT ![i].pc = "idle"]
    /\ UNCHANGED <<row, suppressed, queue, api, run, events, racing, erased>>

(* The handler dies, or a failed flush makes its commit raise too: what is *)
(* not committed is rolled back, and the client may post again.            *)
OptOutAborts(i) ==
    /\ Faults \cap {"crash", "error"} # {}
    /\ optout[i].pc # "idle"
    /\ optout' = [optout EXCEPT ![i] = [pc |-> "idle", loaded |-> NothingLoaded]]
    /\ UNCHANGED <<row, suppressed, queue, api, run, audit, events,
                   racing, erased>>

-----------------------------------------------------------------------------

ApiStep(j) ==
    \/ CreateQueuedJob(j) \/ InsertQueuedJob(j) \/ CreateSuppressedJob(j)
    \/ EnqueueEnrichment(j) \/ EnqueueFails(j) \/ FailUnqueuedJob(j)

RunStep(j) ==
    \/ LoadJob(j) \/ MarkRunning(j) \/ RefreshRunning(j) \/ CheckSuppression(j)
    \/ DispatchAndMerge(j) \/ MarkFinished(j) \/ ReloadForFailure(j)
    \/ MarkFailed(j) \/ RecoverJob(j) \/ MarkRecovered(j)

OptOutStep(i) ==
    \/ SelectJobs(i) \/ FlushPurge(i) \/ CommitPurge(i) \/ LogDataPurged(i)

Next ==
    \/ \E j \in Job : \/ EnrichAsync(j) \/ EnrichSync(j)
                      \/ ApiStep(j) \/ ApiAborts(j)
                      \/ Dequeue(j) \/ RunStep(j)
                      \/ MarkFinishedThenRaise(j) \/ RunRaises(j) \/ RunVanishes(j)
    \/ \E i \in Identifier : \/ AddSuppression(i) \/ OptOutStep(i)
                             \/ CommitWithoutPhotos(i) \/ PurgeRolledBack(i)
                             \/ PurgeRaises(i) \/ OptOutAborts(i)

Spec == Init /\ [][Next]_vars

(* Handlers and workers keep running; a write that waits for a row lock is *)
(* served in turn by the database, hence strong fairness; nobody is        *)
(* obliged to post a request.                                              *)
Fairness ==
    /\ \A j \in Job : /\ SF_vars(ApiStep(j))
                      /\ SF_vars(Dequeue(j))
                      /\ SF_vars(RunStep(j))
    /\ \A i \in Identifier : SF_vars(OptOutStep(i))

FairSpec == Spec /\ Fairness

-----------------------------------------------------------------------------
(* Properties                                                              *)

(* A run that may still write a dossier for an opted-out identifier had    *)
(* passed its suppression check before that identifier was suppressed: no  *)
(* job picked up, or request served, after the opt-out reaches the         *)
(* enrichers, however long it waited in the queue.                         *)
NoDispatchAfterOptOut ==
    \A j \in Job : PastCheck(j) =>
        \A i \in IdentifiersOf[j] \cap suppressed : j \in racing[i]

(* Once the purge of an identifier is committed, the only rows of that     *)
(* identifier that hold a dossier were written by a run already past its   *)
(* check when the identifier was suppressed: whatever else is in flight    *)
(* (queued jobs, handlers, failing runs, other purges) leaves nothing.     *)
ErasedExceptRacing ==
    \A i \in erased, j \in Job :
        i \in IdentifiersOf[j] /\ row[j].dossier \in Enriched => j \in racing[i]

(* The parts of the inductive invariant behind the two above: an opt-out   *)
(* has suppressed its identifier before it purges ...                      *)
SuppressedBeforePurge ==
    \A i \in Identifier : optout[i].pc # "idle" \/ i \in erased => i \in suppressed

(* ... and between its SELECT and its commit it has loaded, as a dossier   *)
(* to blank, every one that it must erase, whatever other purges and       *)
(* workers write meanwhile.                                                *)
PurgeHoldsDossiers ==
    \A i \in Identifier, j \in Job :
        /\ optout[i].pc \in {"flush", "commit"}
        /\ i \in IdentifiersOf[j]
        /\ row[j].dossier \in Enriched
        => j \in racing[i] \/ optout[i].loaded[j].dossier \in Enriched

ErasureInv == /\ TypeOK
              /\ SuppressedBeforePurge
              /\ NoDispatchAfterOptOut
              /\ PurgeHoldsDossiers
              /\ ErasedExceptRacing

(* The status a client reads tells what the dossier column holds, although *)
(* two sessions may each write one column of the same row.                 *)
StatusTellsDossier ==
    \A j \in Job :
        /\ row[j].status = "completed" => row[j].dossier = "data"
        /\ row[j].status = "completed_no_data" => row[j].dossier = "nodata"
        /\ row[j].status \in {"queued", "running", "suppressed"}
              => row[j].dossier \notin Enriched

(* The task's recovery session itself raised: "failed to mark job as       *)
(* failed during error recovery" is logged, and nothing comes back to it.  *)
GivenUp(j) == run[j].pc = "givenup"

(* A job shown as running is being run, whatever its run and its error     *)
(* handlers raise, unless the last of them, the recovery session, raises.  *)
(* (A refresh that raises after the running transition was committed goes  *)
(* straight to that session, so two exceptions are enough to give it up.)  *)
RunningHasExecutor ==
    \A j \in Job : row[j].status = "running" /\ ~GivenUp(j) => run[j].pc # "idle"

(* A job shown as queued is on its way: its handler is about to enqueue it *)
(* or to fail it, it is in the queue, or a worker is picking it up.        *)
QueuedHasCarrier ==
    \A j \in Job : row[j].status = "queued" =>
        \/ api[j] \in {"enqueue", "fail"}
        \/ \E n \in 1 .. Len(queue) : queue[n] = j
        \/ run[j].pc \in {"load", "begin"}

(* A completion that was announced is never taken back by a later failure  *)
(* report: the dossier stays until an opt-out of the request erases it.    *)
AnnouncedDossierKept ==
    \A j \in Job : events[j] \cap {"completed", "completed_no_data"} # {}
        => row[j].dossier \in Enriched \/ IdentifiersOf[j] \cap erased # {}

(* Each job, seen through its status and its published events, leads the   *)
(* life that watchers rely on: whatever sessions write over each other, a  *)
(* completed job never runs again and no event tells of a status that was  *)
(* not stored with it.                                                     *)
Life(j) == INSTANCE JobLife WITH status <- row[j].status, events <- events[j]

(* (Every Life(j)!Spec at once: one step may write several jobs.)          *)
ImplementsLife ==
    /\ \A j \in Job : Life(j)!Init
    /\ [][\A j \in Job : [Life(j)!Next]_<<row[j].status, events[j]>>]_vars

(* Every job that is queued or running eventually leaves that state, with  *)
(* the same one exception.                                                 *)
EveryJobSettles ==
    \A j \in Job : row[j].status \in {"queued", "running"}
                      ~> row[j].status \notin {"queued", "running"} \/ GivenUp(j)

(* LEGAL.md on purge: "matching rows in `jobs` get `dossier_payload = {}`  *)
(* and `status = purged`".                                                 *)
PurgedIsEmpty ==
    \A j \in Job : row[j].status = "purged" => row[j].dossier = "empty"

=============================================================================
