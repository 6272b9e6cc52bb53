------------------------- MODULE JobStatusProofs -------------------------
(***************************************************************************)
(* Proofs about EnrichmentJobs: what the status of a job tells, for any    *)
(* jobs, identifiers, workers and faults.  One invariant about each job    *)
(* relates its row to the row its run has loaded, to the rows that purges  *)
(* have loaded, and to the place the job is in; the properties of statuses *)
(* and events, and the refinement of JobLife, follow from it.              *)
(***************************************************************************)
EXTENDS EnrichmentJobsProofs

(* A handler that has not inserted its row; j is on its way to a worker;   *)
(* no worker has marked it running; no run has decided its outcome.        *)
Unposted == {"new", "create", "insert", "suppress", "suppress_enqueue"}

InQueue(j) == \E n \in 1 .. Len(queue) : queue[n] = j

Unstarted(j) == \/ api[j] \in Unposted \cup {"enqueue"}
                \/ InQueue(j)
                \/ run[j].pc \in {"load", "begin"}

Undecided(j) == Unstarted(j) \/ run[j].pc \in {"refresh", "check", "dispatch", "mark"}

Completed == {"completed", "completed_no_data"}

(* A job is in one place: its handler, the queue or one run.               *)
OnePlace(j) ==
    /\ api[j] \in Unposted \cup {"enqueue"} => run[j].pc = "idle" /\ ~InQueue(j)
    /\ Sync(j) => ~InQueue(j) /\ run[j].pc \in {"check", "dispatch", "mark"}
    /\ run[j].pc # "idle" => ~InQueue(j)

QueueDistinct ==
    \A m, n \in 1 .. Len(queue) : queue[m] = queue[n] => m = n

(* Before its outcome is decided a row tells of none.                      *)
NoOutcomeYet(j) ==
    /\ Undecided(j) => /\ row[j].status \notin Completed
                       /\ row[j].dossier \notin Enriched
                       /\ row[j].status = "purged" => row[j].dossier = "empty"
                       /\ events[j] \cap Completed = {}
    /\ Unstarted(j) => row[j].status # "running"
    /\ api[j] \in Unposted \cup {"sync"} => row[j] = NoRow
    /\ \/ api[j] \in {"enqueue", "fail"} \/ InQueue(j)
       \/ run[j].pc # "idle" /\ ~Sync(j)
       => row[j].status # "none"
    /\ row[j].status = "none" => row[j] = NoRow

(* What a run has loaded, against what the row has become.                 *)
SeenByRun(j) ==
    /\ run[j].pc = "begin" => run[j].seen.status # "running"
    /\ run[j].pc \in {"refresh", "check", "dispatch", "mark"} /\ ~Sync(j)
          => row[j].status \in {"running", "failed", "purged"}
    /\ run[j].pc \in {"check", "dispatch", "mark"} /\ ~Sync(j)
          => /\ run[j].seen.status \in {"running", "failed", "purged"}
             /\ run[j].seen.dossier \notin Enriched
    /\ run[j].pc = "failmark" /\ run[j].seen.status = "failed"
          => row[j].status \in {"failed", "purged"}
    /\ run[j].pc = "recovermark" => run[j].seen.status = "running"

(* What a purge has loaded, against what the row has become.               *)
SeenByPurge(i, j) ==
    LET seen == optout[i].loaded[j] IN
    seen # NoRow =>
        /\ i \in IdentifiersOf[j]
        /\ row[j].status # "none"
        /\ api[j] \notin Unposted \cup {"sync"}
        /\ seen.dossier = "empty" /\ Undecided(j) => row[j].dossier = "empty"
        /\ seen.status = "purged" /\ seen.dossier # "empty"
              => ~Undecided(j) /\ row[j].status \notin Completed

(* StatusTellsDossier and AnnouncedDossierKept, for one job.               *)
StatusTells(j) ==
    /\ row[j].status = "completed" => row[j].dossier = "data"
    /\ row[j].status = "completed_no_data" => row[j].dossier = "nodata"
    /\ row[j].status \in {"queued", "running", "suppressed"}
          => row[j].dossier \notin Enriched

Announced(j) ==
    events[j] \cap Completed # {}
        => row[j].dossier \in Enriched \/ IdentifiersOf[j] \cap erased # {}

JobInv(j) == /\ OnePlace(j)
             /\ NoOutcomeYet(j)
             /\ SeenByRun(j)
             /\ StatusTells(j)
             /\ Announced(j)
             /\ \A i \in Identifier : SeenByPurge(i, j)

LifeInv == /\ TypeOK
           /\ QueueDistinct
           /\ \A j \in Job : JobInv(j)

(* A running job's run stands between its refresh and its recovery, or was *)
(* given up there.                                                         *)
Tended(j) ==
    row[j].status = "running" => run[j].pc \notin {"idle", "load", "begin"}

Carried(j) ==
    row[j].status = "queued" => \/ api[j] \in {"enqueue", "fail"}
                                \/ InQueue(j)
                                \/ run[j].pc \in {"load", "begin"}

-----------------------------------------------------------------------------
(* The queue.                                                              *)

LEMMA QueueGrows ==
    ASSUME TypeOK, QueueDistinct, NEW k \in Job, ~InQueue(k),
           queue' = Append(queue, k)
    PROVE  /\ QueueDistinct' /\ InQueue(k)'
           /\ \A j \in Job : j # k => (InQueue(j)' <=> InQueue(j))
<1>1. queue \in Seq(Job)
  BY DEF TypeOK
<1>2. /\ Len(queue') = Len(queue) + 1 /\ Len(queue) \in Nat
      /\ \A n \in 1 .. Len(queue) : queue'[n] = queue[n]
      /\ queue'[Len(queue) + 1] = k
  BY <1>1
<1>3. \A n \in 1 .. Len(queue') : n \in 1 .. Len(queue) \/ n = Len(queue) + 1
  BY <1>2
<1>4. QueueDistinct'
  BY <1>2, <1>3 DEF QueueDistinct, InQueue
<1>5. InQueue(k)'
  BY <1>2 DEF InQueue
<1>6. ASSUME NEW j \in Job, j # k PROVE InQueue(j)' <=> InQueue(j)
  BY <1>2, <1>3, <1>6 DEF InQueue
<1>7. QED
  BY <1>4, <1>5, <1>6

LEMMA QueueShrinks ==
    ASSUME TypeOK, QueueDistinct, NEW k \in Job,
           queue # << >>, Head(queue) = k, queue' = Tail(queue)
    PROVE  /\ QueueDistinct' /\ InQueue(k) /\ ~InQueue(k)'
           /\ \A j \in Job : j # k => (InQueue(j)' <=> InQueue(j))
<1>1. queue \in Seq(Job)
  BY DEF TypeOK
<1>2. /\ Len(queue) \in Nat \ {0} /\ Len(queue') = Len(queue) - 1
      /\ \A n \in 1 .. Len(queue') : queue'[n] = queue[n + 1]
      /\ k = queue[1]
  BY <1>1
<1>3. \A n \in 1 .. Len(queue) : n = 1 \/ n - 1 \in 1 .. Len(queue')
  BY <1>2
<1>4. \A n \in 1 .. Len(queue') : n + 1 \in 1 .. Len(queue) /\ n + 1 # 1
  BY <1>2
<1>5. QueueDistinct'
  <2> SUFFICES ASSUME NEW m \in 1 .. Len(queue'), NEW n \in 1 .. Len(queue'),
                      queue'[m] = queue'[n]
               PROVE  m = n
    BY DEF QueueDistinct
  <2>1. m + 1 = n + 1
    BY <1>2, <1>4 DEF QueueDistinct
  <2>2. QED
    BY <2>1, <1>2
<1>6. InQueue(k)
  BY <1>2 DEF InQueue
<1>7. ~InQueue(k)'
  <2> SUFFICES ASSUME NEW n \in 1 .. Len(queue'), queue'[n] = k PROVE FALSE
    BY <1>2 DEF InQueue
  <2>1. queue[n + 1] = k
    BY <1>2
  <2>a. 1 \in 1 .. Len(queue) /\ queue[1] = k
    BY <1>2
  <2>2. n + 1 \in 1 .. Len(queue) /\ n + 1 # 1
    BY <1>4
  <2>3. n + 1 = 1
    BY <2>1, <2>2, <2>a DEF QueueDistinct
  <2>4. QED
    BY <2>2, <2>3
<1>8. ASSUME NEW j \in Job, j # k PROVE InQueue(j)' <=> InQueue(j)
  <2>1. ASSUME InQueue(j) PROVE InQueue(j)'
    <3>1. PICK n \in 1 .. Len(queue) : queue[n] = j
      BY <2>1 DEF InQueue
    <3>2. n - 1 \in 1 .. Len(queue')
      BY <3>1, <1>2, <1>3, <1>8
    <3>3. queue'[n - 1] = queue[n]
      BY <3>2, <1>2
    <3>4. QED
      BY <3>1, <3>2, <3>3 DEF InQueue
  <2>2. ASSUME InQueue(j)' PROVE InQueue(j)
    <3>1. PICK n \in 1 .. Len(queue') : queue'[n] = j
      BY <2>2 DEF InQueue
    <3>2. QED
      BY <3>1, <1>2, <1>4 DEF InQueue
  <2>3. QED
    BY <2>1, <2>2
<1>9. QED
  BY <1>5, <1>6, <1>7, <1>8

LEMMA QueueSame ==
    ASSUME queue' = queue
    PROVE  /\ QueueDistinct => QueueDistinct'
           /\ \A j \in Job : InQueue(j)' <=> InQueue(j)
BY DEF QueueDistinct, InQueue

(* A step that changes nothing of a job keeps what holds of it.            *)
Untouched(j) ==
    /\ row'[j] = row[j] /\ run'[j] = run[j] /\ api'[j] = api[j]
    /\ events'[j] = events[j] /\ (InQueue(j)' <=> InQueue(j))
    /\ erased \subseteq erased'
    /\ \A i \in Identifier : optout'[i].loaded[j] \in {optout[i].loaded[j], NoRow}

LEMMA UntouchedKeeps ==
    ASSUME NEW j \in Job, JobInv(j), Untouched(j)
    PROVE  JobInv(j)'
<1> USE DEF Untouched, JobInv
<1>1. OnePlace(j)'
  BY DEF OnePlace, Sync
<1>2. NoOutcomeYet(j)'
  BY DEF NoOutcomeYet, Undecided, Unstarted, Sync
<1>3. SeenByRun(j)'
  BY DEF SeenByRun, Sync
<1>4. StatusTells(j)' /\ Announced(j)'
  BY DEF StatusTells, Announced
<1>5. ASSUME NEW i \in Identifier PROVE SeenByPurge(i, j)'
  BY DEF SeenByPurge, Undecided, Unstarted
<1>6. QED
  BY <1>1, <1>2, <1>3, <1>4, <1>5

-----------------------------------------------------------------------------
(* The handlers of the API.                                                *)

LEMMA ApiKeepsOthers ==
    ASSUME LifeInv, NEW k \in Job, NEW j \in Job, j # k,
           \/ EnrichAsync(k) \/ EnrichSync(k) \/ ApiStep(k) \/ ApiAborts(k)
    PROVE  Untouched(j) /\ JobInv(j)'
<1>1. InQueue(j)' <=> InQueue(j)
  <2>1. CASE queue' = queue
    BY <2>1, QueueSame
  <2>2. CASE api[k] = "enqueue" /\ queue' = Append(queue, k)
    BY <2>2, QueueGrows DEF LifeInv, JobInv, OnePlace
  <2>3. QED
    BY <2>1, <2>2
    DEF EnrichAsync, EnrichSync, ApiStep, ApiAborts, CreateQueuedJob, InsertQueuedJob,
        CreateSuppressedJob, EnqueueEnrichment, EnqueueFails, Enqueued, FailUnqueuedJob
<1>2. Untouched(j)
  BY <1>1
  DEF LifeInv, TypeOK, Untouched, Publish,
      EnrichAsync, EnrichSync, ApiStep, ApiAborts, CreateQueuedJob, InsertQueuedJob,
      CreateSuppressedJob, EnqueueEnrichment, EnqueueFails, FailUnqueuedJob
<1>3. QED
  BY <1>2, UntouchedKeeps DEF LifeInv

LEMMA EnrichKeeps ==
    ASSUME LifeInv, NEW k \in Job,
           EnrichAsync(k) \/ EnrichSync(k) \/ CreateQueuedJob(k)
    PROVE  JobInv(k)'
<1> USE DEF LifeInv, TypeOK, Unposted
<1>1. InQueue(k)' <=> InQueue(k)
  BY QueueSame DEF EnrichAsync, EnrichSync, CreateQueuedJob
<1>2. /\ JobInv(k) /\ UNCHANGED <<row, optout, events, erased>>
      /\ api[k] \in {"new", "create"} /\ run[k].pc = "idle" /\ ~InQueue(k)
  BY DEF EnrichAsync, EnrichSync, CreateQueuedJob, JobInv, OnePlace
<1>3. \/ api'[k] \in {"create", "suppress", "suppress_enqueue", "insert"} /\ run' = run
      \/ api'[k] = "sync" /\ run'[k] = [run[k] EXCEPT !.pc = "check"]
  BY DEF EnrichAsync, EnrichSync, CreateQueuedJob
<1>4. run'[k].pc = IF api'[k] = "sync" THEN "check" ELSE "idle"
  BY <1>2, <1>3 DEF RunState
<1>5. OnePlace(k)'
  BY <1>1, <1>2, <1>3, <1>4 DEF OnePlace, Sync
<1>6. NoOutcomeYet(k)'
  BY <1>1, <1>2, <1>3, <1>4 DEF NoOutcomeYet, Undecided, Unstarted, Sync, JobInv
<1>7. SeenByRun(k)'
  BY <1>2, <1>3, <1>4 DEF SeenByRun, Sync, JobInv
<1>8. StatusTells(k)' /\ Announced(k)'
  BY <1>2 DEF StatusTells, Announced, JobInv
<1>9. ASSUME NEW i \in Identifier PROVE SeenByPurge(i, k)'
  BY <1>2 DEF SeenByPurge, JobInv
<1>10. QED
  BY <1>5, <1>6, <1>7, <1>8, <1>9 DEF JobInv

LEMMA CreateKeeps ==
    ASSUME LifeInv, NEW k \in Job,
           InsertQueuedJob(k) \/ CreateSuppressedJob(k)
    PROVE  JobInv(k)'
<1> USE DEF LifeInv, TypeOK, Unposted
<1>1. InQueue(k)' <=> InQueue(k)
  BY QueueSame DEF InsertQueuedJob, CreateSuppressedJob
<1>2. /\ JobInv(k) /\ UNCHANGED <<run, optout, erased>>
      /\ api[k] \in Unposted /\ run[k].pc = "idle" /\ ~InQueue(k)
  BY DEF InsertQueuedJob, CreateSuppressedJob, JobInv, OnePlace
<1>3. /\ api'[k] \in {"enqueue", "done"}
      /\ row'[k] \in {[status |-> "queued", dossier |-> "empty"],
                      [status |-> "suppressed", dossier |-> "base"]}
      /\ events'[k] \cap Completed = events[k] \cap Completed
  BY DEF InsertQueuedJob, CreateSuppressedJob, Publish, Completed
<1>4. OnePlace(k)'
  BY <1>1, <1>2, <1>3 DEF OnePlace, Sync
<1>5. NoOutcomeYet(k)'
  BY <1>1, <1>2, <1>3
  DEF NoOutcomeYet, Undecided, Unstarted, Sync, JobInv, Completed, Enriched
<1>6. SeenByRun(k)'
  BY <1>2 DEF SeenByRun, Sync
<1>7. StatusTells(k)' /\ Announced(k)'
  BY <1>2, <1>3 DEF StatusTells, Announced, JobInv, NoOutcomeYet, Undecided, Unstarted,
                    Enriched
<1>8. ASSUME NEW i \in Identifier PROVE SeenByPurge(i, k)'
  BY <1>2, <1>3 DEF SeenByPurge, JobInv
<1>9. QED
  BY <1>4, <1>5, <1>6, <1>7, <1>8 DEF JobInv

LEMMA EnqueueKeeps ==
    ASSUME LifeInv, NEW k \in Job,
           EnqueueEnrichment(k) \/ EnqueueFails(k) \/ ApiAborts(k)
    PROVE  QueueDistinct' /\ JobInv(k)'
<1> USE DEF LifeInv, TypeOK, Unposted
<1>1. /\ JobInv(k) /\ UNCHANGED <<row, optout, events, erased>>
      /\ api[k] \notin {"new", "done"} /\ api'[k] \in {"done", "fail"}
  BY DEF EnqueueEnrichment, EnqueueFails, ApiAborts, JobInv
<1>2. /\ QueueDistinct'
      /\ \/ InQueue(k)' <=> InQueue(k)
         \/ api[k] = "enqueue" /\ InQueue(k)'
  <2>1. CASE queue' = queue
    BY <2>1, QueueSame
  <2>2. CASE api[k] = "enqueue" /\ queue' = Append(queue, k)
    BY <2>2, <1>1, QueueGrows DEF JobInv, OnePlace
  <2>3. QED
    BY <2>1, <2>2 DEF EnqueueEnrichment, EnqueueFails, Enqueued, ApiAborts
<1>3. /\ run'[k] = run[k] \/ run'[k].pc = "idle"
      /\ Sync(k) => run'[k].pc = "idle"
      /\ api'[k] = "fail" => api[k] = "enqueue"
  BY DEF EnqueueEnrichment, EnqueueFails, ApiAborts, Idle, Sync
<1>4. Undecided(k)' => Undecided(k)
  BY <1>1, <1>2, <1>3 DEF Undecided, Unstarted
<1>5. Unstarted(k)' => Unstarted(k)
  BY <1>1, <1>2, <1>3 DEF Unstarted
<1>6. OnePlace(k)'
  BY <1>1, <1>2, <1>3 DEF OnePlace, Sync, JobInv
<1>7. NoOutcomeYet(k)'
  BY <1>1, <1>2, <1>3, <1>4, <1>5 DEF NoOutcomeYet, Sync, JobInv, OnePlace
<1>8. SeenByRun(k)'
  BY <1>1, <1>3 DEF SeenByRun, Sync, JobInv
<1>9. StatusTells(k)' /\ Announced(k)'
  BY <1>1 DEF StatusTells, Announced, JobInv
<1>10. ASSUME NEW i \in Identifier PROVE SeenByPurge(i, k)'
  BY <1>1, <1>4 DEF SeenByPurge, JobInv
<1>11. QED
  BY <1>2, <1>6, <1>7, <1>8, <1>9, <1>10 DEF JobInv

LEMMA FailUnqueuedKeeps ==
    ASSUME LifeInv, NEW k \in Job, FailUnqueuedJob(k)
    PROVE  JobInv(k)'
<1> USE DEF LifeInv, TypeOK, Unposted
<1>1. InQueue(k)' <=> InQueue(k)
  BY QueueSame DEF FailUnqueuedJob
<1>2. /\ JobInv(k) /\ UNCHANGED <<run, optout, events, erased>>
      /\ api[k] = "fail" /\ api'[k] = "done"
      /\ row'[k].status = "failed" /\ row'[k].dossier = row[k].dossier
  BY DEF FailUnqueuedJob, FailedRow, JobInv, Row
<1>3. OnePlace(k)'
  BY <1>1, <1>2 DEF OnePlace, Sync, JobInv
<1>4. NoOutcomeYet(k)'
  BY <1>1, <1>2 DEF NoOutcomeYet, Undecided, Unstarted, Sync, JobInv, Completed
<1>5. SeenByRun(k)'
  BY <1>2 DEF SeenByRun, Sync, JobInv
<1>6. StatusTells(k)' /\ Announced(k)'
  BY <1>2 DEF StatusTells, Announced, JobInv
<1>7. ASSUME NEW i \in Identifier PROVE SeenByPurge(i, k)'
  BY <1>1, <1>2 DEF SeenByPurge, JobInv, Undecided, Unstarted, Completed
<1>8. QED
  BY <1>3, <1>4, <1>5, <1>6, <1>7 DEF JobInv

-----------------------------------------------------------------------------
(* The worker's steps.                                                     *)

RunAction(j) == \/ Dequeue(j) \/ RunStep(j) \/ MarkFinishedThenRaise(j)
                \/ RunRaises(j) \/ RunVanishes(j)

LEMMA RunKeepsOthers ==
    ASSUME LifeInv, NEW k \in Job, NEW j \in Job, j # k, RunAction(k)
    PROVE  Untouched(j) /\ JobInv(j)'
<1>1. InQueue(j)' <=> InQueue(j)
  <2>1. CASE queue' = queue
    BY <2>1, QueueSame
  <2>2. CASE Dequeue(k)
    BY <2>2, QueueShrinks DEF LifeInv, Dequeue
  <2>3. QED
    BY <2>1, <2>2
    DEF RunAction, RunStep, LoadJob, MarkRunning, RefreshRunning, CheckSuppression, DispatchAndMerge,
        MarkFinished, MarkFinishedThenRaise, RunRaises, ReloadForFailure, MarkFailed,
        RecoverJob, MarkRecovered, RunVanishes
<1>2. Untouched(j)
  <2>1. /\ row'[j] = row[j] /\ api'[j] = api[j] /\ events'[j] = events[j]
        /\ UNCHANGED <<optout, erased>>
    BY DEF LifeInv, TypeOK, Publish, RunAction, RunStep, Dequeue, LoadJob, MarkRunning,
        RefreshRunning,
        CheckSuppression, DispatchAndMerge, MarkFinished, MarkFinishedThenRaise,
        RunRaises, ReloadForFailure, MarkFailed, RecoverJob, MarkRecovered, RunVanishes
  <2>2. run'[j] = run[j]
    BY DEF LifeInv, TypeOK, RunAction, RunStep, Dequeue, LoadJob, MarkRunning,
        RefreshRunning,
        CheckSuppression, DispatchAndMerge, MarkFinished, MarkFinishedThenRaise,
        RunRaises, ReloadForFailure, MarkFailed, RecoverJob, MarkRecovered, RunVanishes
  <2>3. QED
    BY <1>1, <2>1, <2>2 DEF Untouched
<1>3. QED
  BY <1>2, UntouchedKeeps DEF LifeInv

LEMMA DequeueKeeps ==
    ASSUME LifeInv, NEW k \in Job, Dequeue(k)
    PROVE  QueueDistinct' /\ JobInv(k)'
<1> USE DEF LifeInv, TypeOK, Unposted
<1>1. QueueDistinct' /\ InQueue(k) /\ ~InQueue(k)'
  BY QueueShrinks DEF Dequeue
<1>2. /\ JobInv(k) /\ UNCHANGED <<row, api, optout, events, erased>>
      /\ run'[k].pc = "load" /\ run[k].pc = "idle" /\ ~Sync(k)
      /\ api[k] \notin Unposted \cup {"enqueue"}
  BY <1>1 DEF Dequeue, JobInv, OnePlace, RunState
<1>3. OnePlace(k)'
  BY <1>1, <1>2 DEF OnePlace, Sync
<1>4. NoOutcomeYet(k)'
  BY <1>1, <1>2 DEF NoOutcomeYet, Undecided, Unstarted, Sync, JobInv
<1>5. SeenByRun(k)'
  BY <1>2 DEF SeenByRun
<1>6. StatusTells(k)' /\ Announced(k)'
  BY <1>2 DEF StatusTells, Announced, JobInv
<1>7. ASSUME NEW i \in Identifier PROVE SeenByPurge(i, k)'
  BY <1>1, <1>2 DEF SeenByPurge, JobInv, Undecided, Unstarted
<1>8. QED
  BY <1>1, <1>3, <1>4, <1>5, <1>6, <1>7 DEF JobInv

(* The steps of a run that read, decide, or fail: the row, the events and  *)
(* the loaded rows stay.                                                   *)
LEMMA ReadingKeeps ==
    ASSUME LifeInv, NEW k \in Job,
           \/ LoadJob(k) \/ RefreshRunning(k) \/ CheckSuppression(k)
           \/ DispatchAndMerge(k) \/ RunRaises(k) \/ ReloadForFailure(k)
           \/ RecoverJob(k) \/ RunVanishes(k)
    PROVE  JobInv(k)'
<1> USE DEF LifeInv, TypeOK, Unposted
<1>1. InQueue(k)' <=> InQueue(k)
  BY QueueSame DEF LoadJob, RefreshRunning, CheckSuppression, DispatchAndMerge, RunRaises,
       ReloadForFailure, RecoverJob, RunVanishes
<1>2. /\ JobInv(k) /\ UNCHANGED <<row, api, optout, events, erased>>
      /\ run[k].pc # "idle" \/ UNCHANGED run
  BY DEF LoadJob, RefreshRunning, CheckSuppression, DispatchAndMerge, RunRaises,
       ReloadForFailure, RecoverJob, RunVanishes, JobInv
<1>3. /\ run'[k].pc \in {"load", "begin"} => run[k].pc \in {"load", "begin"}
      /\ run'[k].pc = "refresh" => run[k].pc = "refresh"
      /\ run'[k].pc \in {"check", "dispatch", "mark"} =>
            \/ run[k].pc \in {"check", "dispatch", "mark"} /\ run'[k].seen = run[k].seen
            \/ run[k].pc = "refresh" /\ run'[k].seen = row[k]
      /\ Sync(k) => run'[k].pc \in {"check", "dispatch", "mark"}
  <2>1. run[k] \in RunState /\ run[k].pc \in RunPc
    BY DEF RunState
  <2>2. CASE LoadJob(k) \/ RefreshRunning(k) \/ ReloadForFailure(k) \/ RecoverJob(k)
    BY <2>1, <2>2, <1>2 DEF LoadJob, RefreshRunning, ReloadForFailure, RecoverJob, Idle, RunState, JobInv, OnePlace
  <2>3. CASE CheckSuppression(k)
    BY <2>1, <2>3 DEF CheckSuppression, RunState
  <2>4. CASE DispatchAndMerge(k)
    <3>1. PICK d \in Enriched : run' = [run EXCEPT ![k].pc = "mark", ![k].dossier = d]
      BY <2>4 DEF DispatchAndMerge
    <3>2. run'[k].pc = "mark" /\ run'[k].seen = run[k].seen
      BY <2>1, <3>1 DEF RunState
    <3>3. QED
      BY <2>4, <3>2 DEF DispatchAndMerge
  <2>5. CASE RunRaises(k)
    BY <2>1, <2>5 DEF RunRaises, RaisesTo, Idle, RunState, RunPc
  <2>6. CASE RunVanishes(k)
    BY <2>1, <2>6 DEF RunVanishes, Idle, RunState
  <2>7. QED
    BY <2>2, <2>3, <2>4, <2>5, <2>6
<1>4. /\ run'[k].pc = "begin" /\ run[k].pc = "load" => run'[k].seen = row[k]
      /\ run'[k].pc = "begin" => run[k].pc = "load"
      /\ run'[k].pc = "failmark" => run'[k].seen = row[k]
      /\ run'[k].pc = "recovermark" => run'[k].seen = row[k] /\ row[k].status = "running"
  <2>1. run[k] \in RunState /\ run[k].pc \in RunPc
    BY DEF RunState
  <2>2. CASE LoadJob(k) \/ RefreshRunning(k) \/ ReloadForFailure(k) \/ RecoverJob(k)
    BY <2>1, <2>2 DEF LoadJob, RefreshRunning, ReloadForFailure, RecoverJob, NeedsRecovery, Idle, RunState
  <2>3. CASE CheckSuppression(k)
    BY <2>1, <2>3 DEF CheckSuppression, RunState
  <2>4. CASE DispatchAndMerge(k)
    <3>1. PICK d \in Enriched : run' = [run EXCEPT ![k].pc = "mark", ![k].dossier = d]
      BY <2>4 DEF DispatchAndMerge
    <3>2. run'[k].pc = "mark" /\ run'[k].seen = run[k].seen
      BY <2>1, <3>1 DEF RunState
    <3>3. QED
      BY <2>4, <3>2 DEF DispatchAndMerge
  <2>5. CASE RunRaises(k)
    BY <2>1, <2>5 DEF RunRaises, RaisesTo, Idle, RunState, RunPc
  <2>6. CASE RunVanishes(k)
    BY <2>1, <2>6 DEF RunVanishes, Idle, RunState
  <2>7. QED
    BY <2>2, <2>3, <2>4, <2>5, <2>6
<1>5. (Undecided(k)' => Undecided(k)) /\ (Unstarted(k)' => Unstarted(k))
  BY <1>1, <1>2, <1>3 DEF Undecided, Unstarted
<1>6. OnePlace(k)'
  BY <1>1, <1>2, <1>3 DEF OnePlace, Sync, JobInv
<1>7. NoOutcomeYet(k)'
  BY <1>1, <1>2, <1>3, <1>5 DEF NoOutcomeYet, Sync, JobInv
<1>8. SeenByRun(k)'
  BY <1>2, <1>3, <1>4 DEF SeenByRun, Sync, JobInv, NoOutcomeYet, Unstarted, Undecided
<1>9. StatusTells(k)' /\ Announced(k)'
  BY <1>2 DEF StatusTells, Announced, JobInv
<1>10. ASSUME NEW i \in Identifier PROVE SeenByPurge(i, k)'
  BY <1>2, <1>5 DEF SeenByPurge, JobInv
<1>11. QED
  BY <1>6, <1>7, <1>8, <1>9, <1>10 DEF JobInv

LEMMA MarkRunningKeeps ==
    ASSUME LifeInv, NEW k \in Job, MarkRunning(k)
    PROVE  JobInv(k)'
<1> USE DEF LifeInv, TypeOK, Unposted
<1>1. InQueue(k)' <=> InQueue(k)
  BY QueueSame DEF MarkRunning
<1>2. /\ JobInv(k) /\ UNCHANGED <<api, optout, events, erased>> /\ run[k].pc = "begin"
      /\ run[k] \in RunState /\ row[k] \in Row
      /\ run[k].seen.status # "running"
  BY DEF MarkRunning, JobInv, SeenByRun
<1>3. row'[k].status = "running" /\ row'[k].dossier = row[k].dossier
  BY <1>2, UpdateKeepsDossier DEF MarkRunning, Update
<1>4. run'[k].pc = "refresh"
  BY <1>2 DEF MarkRunning, RunState
<1>5. ~Sync(k) /\ Undecided(k) /\ Undecided(k)' /\ ~Unstarted(k)'
  BY <1>1, <1>2, <1>4 DEF Undecided, Unstarted, JobInv, OnePlace, Sync
<1>6. OnePlace(k)'
  BY <1>1, <1>2, <1>4 DEF OnePlace, Sync, JobInv
<1>7. NoOutcomeYet(k)'
  BY <1>2, <1>3, <1>5 DEF NoOutcomeYet, Sync, JobInv, OnePlace, Completed
<1>8. SeenByRun(k)'
  BY <1>2, <1>3, <1>4, <1>5 DEF SeenByRun, JobInv, NoOutcomeYet
<1>9. StatusTells(k)' /\ Announced(k)'
  BY <1>2, <1>3, <1>5 DEF StatusTells, Announced, JobInv, NoOutcomeYet
<1>10. ASSUME NEW i \in Identifier PROVE SeenByPurge(i, k)'
  BY <1>2, <1>3, <1>5 DEF SeenByPurge, JobInv
<1>11. QED
  BY <1>6, <1>7, <1>8, <1>9, <1>10 DEF JobInv

(* What the final commit of a run leaves in the row.                       *)
LEMMA OutcomeTells ==
    ASSUME LifeInv, NEW k \in Job, run[k].pc = "mark"
    PROVE  /\ Outcome(k).status = FinalStatus(run[k].dossier)
           /\ FinalStatus(run[k].dossier) \in Completed \cup {"suppressed"}
           /\ FinalStatus(run[k].dossier) = "completed" => Outcome(k).dossier = "data"
           /\ FinalStatus(run[k].dossier) = "completed_no_data"
                 => Outcome(k).dossier = "nodata"
           /\ FinalStatus(run[k].dossier) = "suppressed"
                 => Outcome(k).dossier \notin Enriched
<1> USE DEF LifeInv, TypeOK
<1>1. /\ JobInv(k) /\ run[k] \in RunState /\ row[k] \in Row
      /\ row[k].dossier \notin Enriched
  BY DEF JobInv, NoOutcomeYet, Undecided
<1>2. FinalStatus(run[k].dossier) \in Completed \cup {"suppressed"}
  BY DEF FinalStatus, Completed
<1>3. /\ FinalStatus(run[k].dossier) = "completed" => run[k].dossier = "data"
      /\ FinalStatus(run[k].dossier) = "completed_no_data" => run[k].dossier = "nodata"
      /\ FinalStatus(run[k].dossier) = "suppressed" => run[k].dossier \notin Enriched
  BY DEF FinalStatus, Enriched
<1>4. CASE Sync(k)
  BY <1>2, <1>3, <1>4 DEF Outcome
<1>5. CASE ~Sync(k)
  <2>1. /\ run[k].seen.status \in {"running", "failed", "purged"}
        /\ run[k].seen.dossier \notin Enriched
    BY <1>1, <1>5 DEF JobInv, SeenByRun
  <2>2. Outcome(k) = Update(row[k], run[k].seen, FinalStatus(run[k].dossier), run[k].dossier)
    BY <1>5 DEF Outcome
  <2>3. Outcome(k).status = FinalStatus(run[k].dossier)
    BY <1>2, <2>1, <2>2 DEF Update, Completed
  <2>4. /\ run[k].dossier \in Enriched => Outcome(k).dossier = run[k].dossier
        /\ run[k].dossier \notin Enriched => Outcome(k).dossier \notin Enriched
    BY <1>1, <2>1, <2>2 DEF Update
  <2>5. QED
    BY <1>2, <1>3, <2>3, <2>4 DEF Enriched
<1>6. QED
  BY <1>4, <1>5

LEMMA MarkFinishedKeeps ==
    ASSUME LifeInv, NEW k \in Job, MarkFinished(k) \/ MarkFinishedThenRaise(k)
    PROVE  JobInv(k)'
<1> USE DEF LifeInv, TypeOK, Unposted
<1>1. InQueue(k)' <=> InQueue(k)
  BY QueueSame DEF MarkFinished, MarkFinishedThenRaise
<1>2. /\ JobInv(k) /\ UNCHANGED <<optout, erased>> /\ run[k].pc = "mark"
      /\ run[k] \in RunState /\ ~InQueue(k) /\ row'[k] = Outcome(k)
      /\ api[k] \notin Unposted \cup {"enqueue"}
  BY DEF MarkFinished, MarkFinishedThenRaise, JobInv, OnePlace
<1>3. /\ api'[k] = IF Sync(k) THEN "done" ELSE api[k]
      /\ run'[k].pc \in {"idle", "handler"}
  <2>1. CASE Sync(k)
    BY <1>2, <2>1 DEF MarkFinished, MarkFinishedThenRaise, Idle, RunState
  <2>2. CASE ~Sync(k) /\ MarkFinished(k)
    BY <1>2, <2>2 DEF MarkFinished, Idle
  <2>3. CASE ~Sync(k) /\ MarkFinishedThenRaise(k)
    <3>1. api' = api /\ run' = [run EXCEPT ![k] = [run[k] EXCEPT !.pc = "handler",
                                                   !.errors = run[k].errors + 1]]
      BY <2>3 DEF MarkFinishedThenRaise
    <3>2. run'[k].pc = "handler"
      BY <1>2, <3>1 DEF RunState
    <3>3. QED
      BY <2>3, <3>1, <3>2
  <2>4. QED
    BY <2>1, <2>2, <2>3
<1>4. events'[k] \subseteq events[k] \cup {FinalStatus(run[k].dossier)}
  BY DEF MarkFinished, MarkFinishedThenRaise, Publish
<1>5. ~Undecided(k)' /\ ~Unstarted(k)' /\ Undecided(k)
  BY <1>1, <1>2, <1>3 DEF Undecided, Unstarted, Sync
<1>6. OnePlace(k)'
  BY <1>1, <1>2, <1>3 DEF OnePlace, Sync
<1>7. NoOutcomeYet(k)'
  BY <1>2, <1>3, <1>5, OutcomeTells DEF NoOutcomeYet, Sync, Completed
<1>8. SeenByRun(k)'
  BY <1>3 DEF SeenByRun
<1>9. StatusTells(k)'
  BY <1>2, OutcomeTells DEF StatusTells, Completed
<1>10. Announced(k)'
  <2>1. CASE FinalStatus(run[k].dossier) \in Completed
    BY <1>2, <2>1, OutcomeTells DEF Announced, Completed, Enriched
  <2>2. CASE FinalStatus(run[k].dossier) \notin Completed
    BY <1>2, <1>4, <1>5, <2>2 DEF Announced, JobInv, NoOutcomeYet
  <2>3. QED
    BY <2>1, <2>2
<1>11. ASSUME NEW i \in Identifier PROVE SeenByPurge(i, k)'
  BY <1>2, <1>3, <1>5, OutcomeTells DEF SeenByPurge, JobInv, Completed, Sync
<1>12. QED
  BY <1>6, <1>7, <1>8, <1>9, <1>10, <1>11 DEF JobInv

(* The two handlers that mark a job failed.                                *)
LEMMA MarkFailedKeeps ==
    ASSUME LifeInv, NEW k \in Job, MarkFailed(k) \/ MarkRecovered(k)
    PROVE  JobInv(k)'
<1> USE DEF LifeInv, TypeOK, Unposted
<1>1. InQueue(k)' <=> InQueue(k)
  BY QueueSame DEF MarkFailed, MarkRecovered
<1>2. /\ JobInv(k) /\ UNCHANGED <<api, optout, erased>>
      /\ run[k].pc \in {"failmark", "recovermark"}
      /\ run[k] \in RunState /\ row[k] \in Row /\ ~InQueue(k) /\ ~Sync(k)
      /\ api[k] \notin Unposted \cup {"enqueue"}
  BY DEF MarkFailed, MarkRecovered, JobInv, OnePlace
<1>3. run'[k].pc \in {"idle", "recover"}
  BY <1>2 DEF MarkFailed, MarkRecovered, Idle, RunState
<1>4. events'[k] \cap Completed = events[k] \cap Completed
  BY DEF MarkFailed, MarkRecovered, Publish, Completed
<1>5. /\ row'[k].dossier = row[k].dossier
      /\ row'[k].status \in {"failed", "purged"}
  <2>1. row'[k] = Update(row[k], run[k].seen, "failed", run[k].seen.dossier)
    BY DEF MarkFailed, MarkRecovered
  <2>2. run[k].seen.status = "failed" => row[k].status \in {"failed", "purged"}
    BY <1>2 DEF JobInv, SeenByRun
  <2>3. QED
    BY <2>1, <2>2 DEF Update
<1>6. ~Undecided(k)' /\ ~Unstarted(k)'
  BY <1>1, <1>2, <1>3 DEF Undecided, Unstarted, Sync
<1>7. OnePlace(k)'
  BY <1>1, <1>2, <1>3 DEF OnePlace, Sync
<1>8. NoOutcomeYet(k)'
  BY <1>2, <1>5, <1>6 DEF NoOutcomeYet, Sync
<1>9. SeenByRun(k)'
  BY <1>3 DEF SeenByRun
<1>10. StatusTells(k)' /\ Announced(k)'
  BY <1>2, <1>4, <1>5 DEF StatusTells, Announced, JobInv
<1>11. ASSUME NEW i \in Identifier PROVE SeenByPurge(i, k)'
  BY <1>2, <1>5, <1>6 DEF SeenByPurge, JobInv, Completed, Sync
<1>12. QED
  BY <1>7, <1>8, <1>9, <1>10, <1>11 DEF JobInv

LEMMA RunKeeps ==
    ASSUME LifeInv, NEW k \in Job, RunAction(k)
    PROVE  LifeInv'
<1>1. JobInv(k)'
  BY DequeueKeeps, ReadingKeeps, MarkRunningKeeps, MarkFinishedKeeps, MarkFailedKeeps
  DEF RunAction, RunStep
<1>2. QueueDistinct'
  <2>1. CASE Dequeue(k)
    BY <2>1, DequeueKeeps
  <2>2. CASE queue' = queue
    BY <2>2, QueueSame DEF LifeInv
  <2>3. QED
    BY <2>1, <2>2 DEF RunAction, RunStep, LoadJob, MarkRunning, RefreshRunning,
       CheckSuppression, DispatchAndMerge, MarkFinished, MarkFinishedThenRaise, RunRaises,
       ReloadForFailure, MarkFailed, RecoverJob, MarkRecovered, RunVanishes
<1>3. TypeOK'
  BY RunTypeOK DEF LifeInv, RunAction
<1>4. QED
  BY <1>1, <1>2, <1>3, RunKeepsOthers DEF LifeInv

LEMMA ApiKeeps ==
    ASSUME LifeInv, NEW k \in Job,
           EnrichAsync(k) \/ EnrichSync(k) \/ ApiStep(k) \/ ApiAborts(k)
    PROVE  LifeInv'
<1>1. JobInv(k)'
  BY EnrichKeeps, CreateKeeps, EnqueueKeeps, FailUnqueuedKeeps DEF ApiStep
<1>2. QueueDistinct'
  <2>1. CASE EnqueueEnrichment(k) \/ EnqueueFails(k)
    BY <2>1, EnqueueKeeps
  <2>2. CASE queue' = queue
    BY <2>2, QueueSame DEF LifeInv
  <2>3. QED
    BY <2>1, <2>2 DEF EnrichAsync, EnrichSync, ApiStep, ApiAborts, CreateQueuedJob,
       InsertQueuedJob, CreateSuppressedJob, FailUnqueuedJob
<1>3. TypeOK'
  BY ApiTypeOK DEF LifeInv, ApiStep
<1>4. QED
  BY <1>1, <1>2, <1>3, ApiKeepsOthers DEF LifeInv

-----------------------------------------------------------------------------
(* The opt-outs.                                                           *)

(* A purge that commits empties a row before its outcome is decided, or    *)
(* leaves it as it was; a completed row stays only as it was.              *)
LEMMA PurgeMoves ==
    ASSUME LifeInv, NEW i \in Identifier, NEW j \in Job,
           row' = Purged(i), optout[i].loaded[j] # NoRow
    PROVE  /\ row'[j].status \in {row[j].status, "purged"}
           /\ row'[j].dossier \in {row[j].dossier, "empty"}
           /\ Undecided(j) => \/ row'[j] = row[j]
                              \/ row'[j].status = "purged" /\ row'[j].dossier = "empty"
           /\ row'[j].status \in Completed => row'[j] = row[j]
<1> DEFINE seen == optout[i].loaded[j]
<1>1. row'[j] = Update(row[j], seen, "purged", "empty")
  BY DEF Purged
<1>2. SeenByPurge(i, j) /\ row[j] \in Row
  BY DEF LifeInv, JobInv, TypeOK
<1>3. row'[j].status = (IF seen.status = "purged" THEN row[j].status ELSE "purged")
      /\ row'[j].dossier = (IF seen.dossier = "empty" THEN row[j].dossier ELSE "empty")
  BY <1>1 DEF Update
<1>4. row'[j] \in Row
  BY <1>2, <1>3, <1>1 DEF Update, Row, Status, Dossier
<1>5. row'[j].status = row[j].status /\ row'[j].dossier = row[j].dossier
        => row'[j] = row[j]
  BY <1>2, <1>4 DEF Row
<1>6. QED
  BY <1>2, <1>3, <1>5 DEF SeenByPurge, Completed

LEMMA CommitKeeps ==
    ASSUME LifeInv, NEW i \in Identifier, NEW j \in Job,
           CommitPurge(i) \/ CommitWithoutPhotos(i)
    PROVE  JobInv(j)'
<1> USE DEF LifeInv, TypeOK
<1>1. /\ JobInv(j) /\ row' = Purged(i) /\ erased' = erased \cup {i}
      /\ UNCHANGED <<run, api, events>>
      /\ \A h \in Identifier : optout'[h].loaded[j] \in {optout[h].loaded[j], NoRow}
      /\ InQueue(j)' <=> InQueue(j)
  BY QueueSame DEF CommitPurge, CommitWithoutPhotos, NothingLoaded
<1>2. CASE optout[i].loaded[j] = NoRow
  <2>1. row'[j] = row[j]
    BY <1>1, <1>2 DEF Purged
  <2>2. Untouched(j)
    BY <1>1, <2>1 DEF Untouched
  <2>3. QED
    BY <1>1, <2>2, UntouchedKeeps
<1>3. CASE optout[i].loaded[j] # NoRow
  <2>1. /\ row'[j].status \in {row[j].status, "purged"}
        /\ row'[j].dossier \in {row[j].dossier, "empty"}
        /\ Undecided(j) => \/ row'[j] = row[j]
                           \/ row'[j].status = "purged" /\ row'[j].dossier = "empty"
        /\ row'[j].status \in Completed => row'[j] = row[j]
    BY <1>1, <1>3, PurgeMoves
  <2>2. i \in IdentifiersOf[j] /\ row[j].status # "none" /\ api[j] \notin Unposted \cup {"sync"}
    BY <1>1, <1>3 DEF JobInv, SeenByPurge
  <2>3. (Undecided(j)' <=> Undecided(j)) /\ (Unstarted(j)' <=> Unstarted(j))
    BY <1>1 DEF Undecided, Unstarted
  <2>4. OnePlace(j)'
    BY <1>1 DEF OnePlace, Sync, JobInv
  <2>5. NoOutcomeYet(j)'
    BY <1>1, <2>1, <2>2, <2>3 DEF NoOutcomeYet, Sync, JobInv, Completed, Enriched, Undecided
  <2>6. SeenByRun(j)'
    BY <1>1, <2>1 DEF SeenByRun, Sync, JobInv
  <2>7. StatusTells(j)'
    BY <1>1, <2>1 DEF StatusTells, JobInv, Completed, Enriched
  <2>8. Announced(j)'
    BY <1>1, <2>2 DEF Announced
  <2>9. ASSUME NEW h \in Identifier PROVE SeenByPurge(h, j)'
    <3>1. CASE optout'[h].loaded[j] = NoRow
      BY <3>1 DEF SeenByPurge
    <3>2. CASE optout'[h].loaded[j] = optout[h].loaded[j]
      BY <1>1, <2>1, <2>2, <2>3, <3>2 DEF SeenByPurge, JobInv, Completed
    <3>3. QED
      BY <1>1, <3>1, <3>2
  <2>10. QED
    BY <2>4, <2>5, <2>6, <2>7, <2>8, <2>9 DEF JobInv
<1>4. QED
  BY <1>2, <1>3

LEMMA SelectKeeps ==
    ASSUME LifeInv, NEW i \in Identifier, NEW j \in Job, SelectJobs(i)
    PROVE  JobInv(j)'
<1> USE DEF LifeInv, TypeOK
<1>1. /\ JobInv(j) /\ UNCHANGED <<row, run, api, events, erased>>
      /\ optout'[i].loaded[j] = IF i \in IdentifiersOf[j] THEN row[j] ELSE NoRow
      /\ \A h \in Identifier : h # i => optout'[h] = optout[h]
      /\ InQueue(j)' <=> InQueue(j)
  BY QueueSame DEF SelectJobs
<1>2. (Undecided(j)' <=> Undecided(j)) /\ (Unstarted(j)' <=> Unstarted(j))
  BY <1>1 DEF Undecided, Unstarted
<1>3. OnePlace(j)' /\ SeenByRun(j)' /\ StatusTells(j)' /\ Announced(j)'
  BY <1>1 DEF OnePlace, SeenByRun, StatusTells, Announced, Sync, JobInv
<1>4. NoOutcomeYet(j)'
  BY <1>1, <1>2 DEF NoOutcomeYet, Sync, JobInv
<1>5. ASSUME NEW h \in Identifier PROVE SeenByPurge(h, j)'
  <2>1. CASE h = i
    BY <1>1, <1>2, <2>1 DEF SeenByPurge, JobInv, NoOutcomeYet, Completed
  <2>2. CASE h # i
    BY <1>1, <1>2, <2>2 DEF SeenByPurge, JobInv
  <2>3. QED
    BY <2>1, <2>2
<1>6. QED
  BY <1>3, <1>4, <1>5 DEF JobInv

LEMMA OptOutKeeps ==
    ASSUME LifeInv, NEW i \in Identifier,
           \/ AddSuppression(i) \/ OptOutStep(i) \/ CommitWithoutPhotos(i)
           \/ PurgeRolledBack(i) \/ PurgeRaises(i) \/ OptOutAborts(i)
    PROVE  LifeInv'
<1>1. TypeOK'
  BY OptOutTypeOK DEF LifeInv
<1>2. QueueDistinct'
  BY QueueSame DEF LifeInv, AddSuppression, OptOutStep, SelectJobs, FlushPurge, CommitPurge,
     LogDataPurged, CommitWithoutPhotos, PurgeRolledBack, PurgeRaises, OptOutAborts
<1>3. ASSUME NEW j \in Job PROVE JobInv(j)'
  <2>1. CASE SelectJobs(i)
    BY <2>1, SelectKeeps
  <2>2. CASE CommitPurge(i) \/ CommitWithoutPhotos(i)
    BY <2>2, CommitKeeps
  <2>3. CASE \/ AddSuppression(i) \/ FlushPurge(i) \/ LogDataPurged(i)
             \/ PurgeRolledBack(i) \/ PurgeRaises(i) \/ OptOutAborts(i)
    <3>1. /\ UNCHANGED <<row, run, api, events, queue>> /\ erased \subseteq erased'
          /\ \A h \in Identifier : optout'[h].loaded \in {optout[h].loaded, NothingLoaded}
      <4>1. optout \in [Identifier -> OptOutState]
        BY DEF LifeInv, TypeOK
      <4>2. CASE AddSuppression(i) \/ FlushPurge(i) \/ LogDataPurged(i) \/ PurgeRaises(i)
        BY <4>1, <4>2 DEF OptOutState, AddSuppression, FlushPurge, LogDataPurged, PurgeRaises
      <4>3. CASE PurgeRolledBack(i) \/ OptOutAborts(i)
        BY <4>1, <4>3 DEF OptOutState, PurgeRolledBack, OptOutAborts
      <4>4. QED
        BY <2>3, <4>2, <4>3
    <3>2. Untouched(j)
      BY <3>1, QueueSame DEF Untouched, NothingLoaded
    <3>3. QED
      BY <3>2, UntouchedKeeps DEF LifeInv
  <2>4. QED
    BY <2>1, <2>2, <2>3 DEF OptOutStep
<1>4. QED
  BY <1>1, <1>2, <1>3 DEF LifeInv

-----------------------------------------------------------------------------
LEMMA InitLife == Init => LifeInv
<1> SUFFICES ASSUME Init PROVE LifeInv
  OBVIOUS
<1>1. TypeOK
  BY InitTypeOK
<1>2. QueueDistinct
  BY DEF Init, QueueDistinct
<1>3. ASSUME NEW j \in Job PROVE JobInv(j)
  <2>1. /\ row[j] = NoRow /\ ~InQueue(j) /\ api[j] = "new" /\ run[j].pc = "idle"
        /\ events[j] = {} /\ \A i \in Identifier : optout[i].loaded[j] = NoRow
    BY <1>3 DEF Init, InQueue, Idle, NothingLoaded
  <2>2. OnePlace(j) /\ SeenByRun(j) /\ Announced(j)
    BY <2>1 DEF OnePlace, SeenByRun, Announced, Sync
  <2>3. NoOutcomeYet(j) /\ StatusTells(j)
    BY <2>1 DEF NoOutcomeYet, StatusTells, Sync, NoRow, Completed, Enriched
  <2>4. \A i \in Identifier : SeenByPurge(i, j)
    BY <2>1 DEF SeenByPurge
  <2>5. QED
    BY <2>2, <2>3, <2>4 DEF JobInv
<1>4. QED
  BY <1>1, <1>2, <1>3 DEF LifeInv

LEMMA UnchangedLife == LifeInv /\ UNCHANGED vars => LifeInv'
<1> SUFFICES ASSUME LifeInv, UNCHANGED vars PROVE LifeInv'
  OBVIOUS
<1>1. TypeOK'
  BY NextTypeOK DEF LifeInv
<1>2. QueueDistinct'
  BY QueueSame DEF LifeInv, vars
<1>3. ASSUME NEW j \in Job PROVE JobInv(j)'
  <2>1. Untouched(j)
    BY QueueSame DEF Untouched, vars
  <2>2. QED
    BY <2>1, UntouchedKeeps DEF LifeInv
<1>4. QED
  BY <1>1, <1>2, <1>3 DEF LifeInv

LEMMA LifeHolds == Spec => []LifeInv
<1>1. LifeInv /\ [Next]_vars => LifeInv'
  <2>1. ASSUME LifeInv, Next PROVE LifeInv'
    BY <2>1, ApiKeeps, RunKeeps, OptOutKeeps DEF Next, RunAction
  <2>2. QED
    BY <2>1, UnchangedLife
<1>2. QED
  BY <1>1, InitLife, PTL DEF Spec

(* Whatever sessions write over each other's rows, the status a client     *)
(* reads tells what the dossier column holds.                              *)
THEOREM StatusesTellDossiers == Spec => []StatusTellsDossier
<1>1. LifeInv => StatusTellsDossier
  BY DEF LifeInv, JobInv, StatusTells, StatusTellsDossier
<1>2. QED
  BY <1>1, LifeHolds, PTL

(* A dossier whose completion was published stays until a purge of one of  *)
(* the request's identifiers.                                              *)
THEOREM AnnouncedDossiersKept == Spec => []AnnouncedDossierKept
<1>1. LifeInv => AnnouncedDossierKept
  BY DEF LifeInv, JobInv, Announced, Completed, AnnouncedDossierKept
<1>2. QED
  BY <1>1, LifeHolds, PTL

-----------------------------------------------------------------------------
(* Who tends a job: the cases in which no process dies.                    *)

(* An opt-out leaves jobs where they are, and a row as it was or purged.   *)
LEMMA OptOutLeavesPlace ==
    ASSUME LifeInv, NEW i \in Identifier, NEW j \in Job,
           \/ AddSuppression(i) \/ OptOutStep(i) \/ CommitWithoutPhotos(i)
           \/ PurgeRolledBack(i) \/ PurgeRaises(i) \/ OptOutAborts(i)
    PROVE  /\ UNCHANGED <<run, api, queue>>
           /\ row'[j].status \in {row[j].status, "purged"}
<1>1. UNCHANGED <<run, api, queue>> /\ (row' = row \/ row' = Purged(i))
  BY DEF AddSuppression, OptOutStep, SelectJobs, FlushPurge, CommitPurge, LogDataPurged,
     CommitWithoutPhotos, PurgeRolledBack, PurgeRaises, OptOutAborts
<1>2. CASE row' = Purged(i) /\ optout[i].loaded[j] # NoRow
  BY <1>1, <1>2, PurgeMoves
<1>3. CASE row' = Purged(i) /\ optout[i].loaded[j] = NoRow
  <2>1. row'[j] = row[j]
    BY <1>3 DEF Purged
  <2>2. QED
    BY <1>1, <2>1
<1>4. QED
  BY <1>1, <1>2, <1>3

(* What a run's own writes leave in the status column.                     *)
LEMMA RunWritesStatus ==
    ASSUME LifeInv, NEW k \in Job, RunAction(k)
    PROVE  \/ row' = row
           \/ row'[k].status = "running" /\ MarkRunning(k)
           \/ row'[k].status \in Completed \cup {"suppressed", "failed", "purged"}
<1> USE DEF LifeInv, TypeOK
<1>1. CASE MarkRunning(k)
  <2>1. run[k].seen.status # "running"
    BY <1>1 DEF MarkRunning, JobInv, SeenByRun
  <2>2. QED
    BY <1>1, <2>1 DEF MarkRunning, Update
<1>2. CASE MarkFinished(k) \/ MarkFinishedThenRaise(k)
  BY <1>2, OutcomeTells DEF MarkFinished, MarkFinishedThenRaise
<1>3. CASE MarkFailed(k) \/ MarkRecovered(k)
  <2>1. run[k].seen.status = "failed" => row[k].status \in {"failed", "purged"}
    BY <1>3 DEF MarkFailed, MarkRecovered, JobInv, SeenByRun
  <2>2. row'[k] = Update(row[k], run[k].seen, "failed", run[k].seen.dossier)
    BY <1>3 DEF MarkFailed, MarkRecovered
  <2>3. QED
    BY <2>1, <2>2 DEF Update
<1>4. QED
  BY <1>1, <1>2, <1>3
  DEF RunAction, RunStep, Dequeue, LoadJob, RefreshRunning, CheckSuppression, DispatchAndMerge,
      RunRaises, ReloadForFailure, RecoverJob, RunVanishes

LEMMA TendedByRun ==
    ASSUME LifeInv, Faults \cap {"crash", "timeout"} = {},
           NEW k \in Job, Tended(k), RunAction(k)
    PROVE  Tended(k)'
<1> USE DEF LifeInv, TypeOK
<1>1. JobInv(k) /\ run[k] \in RunState
  OBVIOUS
<1>2. CASE Dequeue(k) \/ LoadJob(k)
  <2>1. row' = row
    BY <1>2 DEF Dequeue, LoadJob
  <2>2. row[k].status # "running"
    <3>1. InQueue(k) \/ run[k].pc = "load"
      BY <1>2, QueueShrinks DEF Dequeue, LoadJob
    <3>2. QED
      BY <1>1, <3>1 DEF JobInv, NoOutcomeYet, Unstarted
  <2>3. QED
    BY <2>1, <2>2 DEF Tended
<1>3. CASE MarkRunning(k) \/ RefreshRunning(k) \/ CheckSuppression(k) \/ DispatchAndMerge(k)
  BY <1>1, <1>3 DEF MarkRunning, RefreshRunning, CheckSuppression, DispatchAndMerge, Tended,
     RunState
<1>4. CASE MarkFinished(k) \/ MarkFinishedThenRaise(k)
  <2>1. row'[k].status # "running"
    BY <1>4, OutcomeTells DEF MarkFinished, MarkFinishedThenRaise, Completed
  <2>2. QED
    BY <2>1 DEF Tended
<1>5. CASE RunRaises(k)
  <2>1. row' = row /\ run[k].pc \in RunPc \ {"idle", "givenup"}
    BY <1>5 DEF RunRaises, RunState
  <2>2. run'[k].pc = RaisesTo(run[k].pc)
    BY <1>1, <1>5 DEF RunRaises, RunState
  <2>3. RaisesTo(run[k].pc) \notin {"idle", "load", "begin"}
    BY <2>1 DEF RaisesTo, RunPc
  <2>4. QED
    BY <2>2, <2>3 DEF Tended
<1>6. CASE ReloadForFailure(k)
  BY <1>1, <1>6 DEF ReloadForFailure, Tended, RunState
<1>7. CASE MarkFailed(k) \/ MarkRecovered(k)
  <2>1. row'[k].status # "running"
    BY <1>7, RunWritesStatus DEF RunAction, RunStep, MarkFailed, MarkRecovered, MarkRunning,
       Completed, JobInv, SeenByRun, Update
  <2>2. QED
    BY <2>1 DEF Tended
<1>8. CASE RecoverJob(k)
  <2>1. row' = row
    BY <1>8 DEF RecoverJob
  <2>2. row[k].status = "running" => run'[k].pc = "recovermark"
    BY <1>1, <1>8 DEF RecoverJob, NeedsRecovery, RunState
  <2>3. QED
    BY <2>1, <2>2 DEF Tended
<1>9. QED
  BY <1>2, <1>3, <1>4, <1>5, <1>6, <1>7, <1>8 DEF RunAction, RunStep, RunVanishes

LEMMA TendedByApi ==
    ASSUME LifeInv, NEW k \in Job, Tended(k),
           EnrichAsync(k) \/ EnrichSync(k) \/ ApiStep(k) \/ ApiAborts(k)
    PROVE  Tended(k)'
<1> USE DEF LifeInv, TypeOK
<1>1. JobInv(k) /\ run[k] \in RunState
  OBVIOUS
<1>2. CASE EnrichSync(k)
  BY <1>1, <1>2 DEF EnrichSync, Tended, RunState, JobInv, NoOutcomeYet, Unposted, NoRow
<1>3. CASE ApiAborts(k) /\ Sync(k)
  BY <1>1, <1>3 DEF ApiAborts, Tended, JobInv, NoOutcomeYet, Sync, NoRow, Idle
<1>4. CASE ~EnrichSync(k) /\ ~(ApiAborts(k) /\ Sync(k))
  <2>1. run' = run /\ (row' = row \/ row'[k].status \in {"queued", "suppressed", "failed"})
    BY <1>4 DEF EnrichAsync, ApiStep, ApiAborts, CreateQueuedJob, InsertQueuedJob,
       CreateSuppressedJob, EnqueueEnrichment, EnqueueFails, FailUnqueuedJob, FailedRow, Row
  <2>2. QED
    BY <2>1 DEF Tended
<1>5. QED
  BY <1>2, <1>3, <1>4

(* No process dies and no alarm fires: however many exceptions a run and   *)
(* its first handlers raise, wherever they raise them, the last handler    *)
(* still finds the job, so a running job is being run, or that recovery    *)
(* session itself raised.                                                  *)
THEOREM RunningTended ==
    ASSUME Faults \cap {"crash", "timeout"} = {}
    PROVE  Spec => []RunningHasExecutor
<1> DEFINE Inv == LifeInv /\ \A j \in Job : Tended(j)
<1>1. Init => Inv
  BY InitLife DEF Init, Tended, Idle, NoRow
<1>2. Inv /\ [Next]_vars => Inv'
  <2> SUFFICES ASSUME Inv, [Next]_vars PROVE Inv'
    OBVIOUS
  <2>1. LifeInv'
    BY ApiKeeps, RunKeeps, OptOutKeeps, UnchangedLife DEF Next, RunAction
  <2>2. ASSUME NEW j \in Job PROVE Tended(j)'
    <3>1. ASSUME NEW k \in Job,
                 \/ EnrichAsync(k) \/ EnrichSync(k) \/ ApiStep(k) \/ ApiAborts(k)
          PROVE  Tended(j)'
      BY <3>1, TendedByApi, ApiKeepsOthers DEF Untouched, Tended
    <3>2. ASSUME NEW k \in Job, RunAction(k) PROVE Tended(j)'
      BY <3>2, TendedByRun, RunKeepsOthers DEF Untouched, Tended
    <3>3. ASSUME NEW i \in Identifier,
                 \/ AddSuppression(i) \/ OptOutStep(i) \/ CommitWithoutPhotos(i)
                 \/ PurgeRolledBack(i) \/ PurgeRaises(i) \/ OptOutAborts(i)
          PROVE  Tended(j)'
      BY <3>3, OptOutLeavesPlace DEF Tended
    <3>4. CASE UNCHANGED vars
      BY <3>4 DEF Tended, vars
    <3>5. QED
      BY <3>1, <3>2, <3>3, <3>4 DEF Next, RunAction
  <2>3. QED
    BY <2>1, <2>2
<1>3. Inv => RunningHasExecutor
  BY DEF Tended, RunningHasExecutor
<1>4. QED
  BY <1>1, <1>2, <1>3, PTL DEF Spec

LEMMA CarriedByRun ==
    ASSUME LifeInv, Faults \cap {"crash", "timeout", "early"} = {},
           NEW k \in Job, Carried(k), RunAction(k)
    PROVE  Carried(k)'
<1> USE DEF LifeInv, TypeOK
<1>1. /\ JobInv(k) /\ run[k] \in RunState
  OBVIOUS
<1>2. SUFFICES ASSUME row'[k].status = "queued" PROVE Carried(k)'
  BY DEF Carried
<1>3. row' = row
  BY <1>2, RunWritesStatus DEF Completed
<1>4. api[k] \in {"enqueue", "fail"} \/ InQueue(k) \/ run[k].pc \in {"load", "begin"}
  BY <1>2, <1>3 DEF Carried
<1>5. CASE Dequeue(k) \/ LoadJob(k)
  <2>1. run'[k].pc \in {"load", "begin"}
    BY <1>1, <1>5 DEF Dequeue, LoadJob, RunState
  <2>2. QED
    BY <2>1 DEF Carried
<1>6. CASE ~Dequeue(k) /\ ~LoadJob(k)
  <2>1. run[k].pc \notin {"idle", "load", "begin"}
    <3>1. run[k].pc # "begin"
      <4>1. ~RunRaises(k) \/ run[k].pc # "begin"
        BY DEF RunRaises
      <4>2. ~MarkRunning(k)
        BY <1>2, RunWritesStatus, <1>3 DEF MarkRunning, JobInv, SeenByRun, Update
      <4>3. QED
        BY <1>6, <4>1, <4>2 DEF RunAction, RunStep, MarkFinishedThenRaise, RunVanishes,
           RefreshRunning, CheckSuppression, DispatchAndMerge, MarkFinished, ReloadForFailure,
           MarkFailed, RecoverJob, MarkRecovered
    <3>2. QED
      BY <1>6, <3>1 DEF RunAction, RunStep, MarkFinishedThenRaise, RunRaises, RunVanishes,
         RefreshRunning, CheckSuppression, DispatchAndMerge, MarkFinished, ReloadForFailure,
         MarkFailed, RecoverJob, MarkRecovered, MarkRunning
  <2>2. ~InQueue(k) /\ api[k] = "fail"
    BY <1>1, <1>4, <2>1 DEF JobInv, OnePlace
  <2>3. api'[k] = "fail"
    BY <1>6, <2>2 DEF RunAction, RunStep, MarkFinishedThenRaise, RunRaises, RunVanishes,
       RefreshRunning, CheckSuppression, DispatchAndMerge, MarkFinished, ReloadForFailure,
       MarkFailed, RecoverJob, MarkRecovered, MarkRunning, Sync
  <2>4. QED
    BY <2>3 DEF Carried
<1>7. QED
  BY <1>5, <1>6

LEMMA CarriedByApi ==
    ASSUME LifeInv, Faults \cap {"crash", "timeout", "early"} = {},
           NEW k \in Job, Carried(k),
           EnrichAsync(k) \/ EnrichSync(k) \/ ApiStep(k) \/ ApiAborts(k)
    PROVE  Carried(k)'
<1> USE DEF LifeInv, TypeOK
<1>1. JobInv(k) /\ run[k] \in RunState
  OBVIOUS
<1>2. CASE EnrichAsync(k) \/ EnrichSync(k) \/ CreateQueuedJob(k)
  BY <1>1, <1>2
  DEF EnrichAsync, EnrichSync, CreateQueuedJob, Carried, JobInv, NoOutcomeYet, Unposted, NoRow
<1>3. CASE InsertQueuedJob(k)
  BY <1>3 DEF InsertQueuedJob, Carried
<1>4. CASE CreateSuppressedJob(k)
  BY <1>4 DEF CreateSuppressedJob, Carried, Row
<1>5. CASE EnqueueEnrichment(k)
  <2>1. InQueue(k)'
    BY <1>1, <1>5, QueueGrows DEF EnqueueEnrichment, Enqueued, JobInv, OnePlace
  <2>2. QED
    BY <2>1 DEF Carried
<1>6. CASE EnqueueFails(k)
  BY <1>6 DEF EnqueueFails, Carried
<1>7. CASE FailUnqueuedJob(k)
  BY <1>7 DEF FailUnqueuedJob, FailedRow, Carried, Row
<1>8. QED
  BY <1>2, <1>3, <1>4, <1>5, <1>6, <1>7 DEF ApiStep, ApiAborts

(* No process dies, and nothing is raised between the commit of the queued *)
(* row and the run's own first commit: whatever else fails, the broker     *)
(* included, a job shown as queued is on its way to a worker or to failed. *)
THEOREM QueuedCarried ==
    ASSUME Faults \cap {"crash", "timeout", "early"} = {}
    PROVE  Spec => []QueuedHasCarrier
<1> DEFINE Inv == LifeInv /\ \A j \in Job : Carried(j)
<1>1. Init => Inv
  BY InitLife DEF Init, Carried, NoRow
<1>2. Inv /\ [Next]_vars => Inv'
  <2> SUFFICES ASSUME Inv, [Next]_vars PROVE Inv'
    OBVIOUS
  <2>1. LifeInv'
    BY ApiKeeps, RunKeeps, OptOutKeeps, UnchangedLife DEF Next, RunAction
  <2>2. ASSUME NEW j \in Job PROVE Carried(j)'
    <3>1. ASSUME NEW k \in Job,
                 \/ EnrichAsync(k) \/ EnrichSync(k) \/ ApiStep(k) \/ ApiAborts(k)
          PROVE  Carried(j)'
      BY <3>1, CarriedByApi, ApiKeepsOthers DEF Untouched, Carried
    <3>2. ASSUME NEW k \in Job, RunAction(k) PROVE Carried(j)'
      BY <3>2, CarriedByRun, RunKeepsOthers DEF Untouched, Carried
    <3>3. ASSUME NEW i \in Identifier,
                 \/ AddSuppression(i) \/ OptOutStep(i) \/ CommitWithoutPhotos(i)
                 \/ PurgeRolledBack(i) \/ PurgeRaises(i) \/ OptOutAborts(i)
          PROVE  Carried(j)'
      BY <3>3, OptOutLeavesPlace, QueueSame DEF Carried
    <3>4. CASE UNCHANGED vars
      BY <3>4, QueueSame DEF Carried, vars
    <3>5. QED
      BY <3>1, <3>2, <3>3, <3>4 DEF Next, RunAction
  <2>3. QED
    BY <2>1, <2>2
<1>3. Inv => QueuedHasCarrier
  BY DEF Carried, InQueue, QueuedHasCarrier
<1>4. QED
  BY <1>1, <1>2, <1>3, PTL DEF Spec

-----------------------------------------------------------------------------
(* The refinement of JobLife: the steps of a job's row and events.         *)

LifeStep(j) == [Life(j)!Next]_<<row[j].status, events[j]>>

LEMMA WriteIsLifeStep ==
    ASSUME NEW j \in Job, NEW s, s \in Status, row'[j].status = s,
           row[j].status \in Life(j)!Before(s),
           \/ events'[j] = events[j]
           \/ events'[j] = events[j] \cup {s} /\ s \in Life(j)!Terminal
    PROVE  LifeStep(j)
<1> DEFINE published == IF events'[j] = events[j] THEN {} ELSE {s}
<1>1. /\ published \in SUBSET {s} /\ published \subseteq {s} \cap Life(j)!Terminal
      /\ events'[j] = events[j] \cup published
  OBVIOUS
<1>2. s \in Life(j)!JobStatus
  BY DEF Status, Life!JobStatus, Life!Terminal
<1> HIDE DEF published
<1>3. Life(j)!Write(s, published)
  BY <1>1 DEF Life!Write
<1>4. QED
  BY <1>1, <1>2, <1>3 DEF LifeStep, Life!Next

LEMMA SameIsLifeStep ==
    ASSUME NEW j \in Job, row'[j].status = row[j].status, events'[j] = events[j]
    PROVE  LifeStep(j)
BY DEF LifeStep

LEMMA ApiLifeStep ==
    ASSUME LifeInv, NEW k \in Job,
           EnrichAsync(k) \/ EnrichSync(k) \/ ApiStep(k) \/ ApiAborts(k)
    PROVE  LifeStep(k)
<1> USE DEF LifeInv, TypeOK
<1>1. JobInv(k) /\ row[k] \in Row
  OBVIOUS
<1>2. CASE InsertQueuedJob(k)
  <2>1. row[k].status = "none" /\ row'[k].status = "queued" /\ events'[k] = events[k]
    BY <1>1, <1>2 DEF InsertQueuedJob, JobInv, NoOutcomeYet, Unposted, NoRow
  <2>2. QED
    BY <2>1, WriteIsLifeStep DEF Status, Life!Before
<1>3. CASE CreateSuppressedJob(k)
  <2>1. /\ row[k].status = "none" /\ row'[k].status = "suppressed"
        /\ events'[k] \in {events[k], events[k] \cup {"suppressed"}}
    BY <1>1, <1>3 DEF CreateSuppressedJob, Publish, JobInv, NoOutcomeYet, Unposted, NoRow
  <2>2. QED
    BY <2>1, WriteIsLifeStep DEF Status, Life!Terminal, Life!Before
<1>4. CASE FailUnqueuedJob(k)
  <2>1. /\ row[k].status \in Status /\ row'[k].status = "failed"
        /\ events'[k] = events[k]
    BY <1>1, <1>4 DEF FailUnqueuedJob, FailedRow, JobInv, NoOutcomeYet, Row
  <2>2. QED
    BY <2>1, WriteIsLifeStep DEF Status, Life!JobStatus, Life!Terminal, Life!Before
<1>5. CASE UNCHANGED <<row, events>>
  BY <1>5, SameIsLifeStep
<1>6. QED
  BY <1>2, <1>3, <1>4, <1>5 DEF EnrichAsync, EnrichSync, ApiStep, ApiAborts, CreateQueuedJob,
     EnqueueEnrichment, EnqueueFails

LEMMA RunLifeStep ==
    ASSUME LifeInv, NEW k \in Job, RunAction(k)
    PROVE  LifeStep(k)
<1> USE DEF LifeInv, TypeOK
<1>1. JobInv(k) /\ row[k] \in Row /\ run[k] \in RunState
  OBVIOUS
<1>2. CASE MarkRunning(k)
  <2>1. row[k].status \in {"queued", "suppressed", "failed", "purged"}
    <3>1. run[k].pc = "begin" /\ ~Sync(k)
      BY <1>1, <1>2 DEF MarkRunning, JobInv, OnePlace
    <3>2. QED
      BY <1>1, <3>1 DEF JobInv, NoOutcomeYet, Undecided, Unstarted, Completed, Row, Status
  <2>2. row'[k].status = "running" /\ events'[k] = events[k]
    BY <1>1, <1>2 DEF MarkRunning, JobInv, SeenByRun, Update
  <2>3. QED
    BY <2>1, <2>2, WriteIsLifeStep DEF Status, Life!Terminal, Life!Before
<1>3. CASE MarkFinished(k) \/ MarkFinishedThenRaise(k)
  <2> DEFINE s == FinalStatus(run[k].dossier)
  <2>1. s \in Completed \cup {"suppressed"} /\ row'[k].status = s
    BY <1>3, OutcomeTells DEF MarkFinished, MarkFinishedThenRaise
  <2>2. row[k].status \in {"none", "running", "failed", "purged"}
    <3>1. run[k].pc = "mark"
      BY <1>3 DEF MarkFinished, MarkFinishedThenRaise
    <3>2. QED
      BY <1>1, <3>1 DEF JobInv, SeenByRun, NoOutcomeYet, Sync, NoRow
  <2>3. events'[k] \in {events[k], events[k] \cup {s}}
    BY <1>3 DEF MarkFinished, MarkFinishedThenRaise, Publish
  <2> HIDE DEF s
  <2>4. QED
    BY <2>1, <2>2, <2>3, WriteIsLifeStep DEF Completed, Status, Life!Terminal, Life!Before
<1>4. CASE MarkFailed(k) \/ MarkRecovered(k)
  <2>1. events'[k] \in {events[k], events[k] \cup {"failed"}}
    BY <1>4 DEF MarkFailed, MarkRecovered, Publish
  <2>2. row[k].status \in Status
    BY <1>1, <1>4 DEF MarkFailed, MarkRecovered, JobInv, NoOutcomeYet, OnePlace, Sync, Row
  <2>3. \/ row'[k].status = "failed"
        \/ row[k].status = "purged" /\ row'[k].status = "purged"
    BY <1>1, <1>4 DEF MarkFailed, MarkRecovered, JobInv, SeenByRun, Update
  <2>4. CASE row'[k].status = "failed"
    BY <2>1, <2>2, <2>4, WriteIsLifeStep
    DEF Status, Life!JobStatus, Life!Terminal, Life!Before
  <2>5. CASE row[k].status = "purged" /\ row'[k].status = "purged"
    BY <2>1, <2>5 DEF LifeStep, Life!Next, Life!AnnounceOvertakenFailure
  <2>6. QED
    BY <2>3, <2>4, <2>5
<1>5. CASE UNCHANGED <<row, events>>
  BY <1>5, SameIsLifeStep
<1>6. QED
  BY <1>2, <1>3, <1>4, <1>5
  DEF RunAction, RunStep, Dequeue, LoadJob, RefreshRunning, CheckSuppression, DispatchAndMerge,
      RunRaises, ReloadForFailure, RecoverJob, RunVanishes

LEMMA OptOutLifeStep ==
    ASSUME LifeInv, NEW i \in Identifier, NEW j \in Job,
           \/ AddSuppression(i) \/ OptOutStep(i) \/ CommitWithoutPhotos(i)
           \/ PurgeRolledBack(i) \/ PurgeRaises(i) \/ OptOutAborts(i)
    PROVE  LifeStep(j)
<1>1. events' = events /\ (row' = row \/ row' = Purged(i))
  BY DEF AddSuppression, OptOutStep, SelectJobs, FlushPurge, CommitPurge, LogDataPurged,
     CommitWithoutPhotos, PurgeRolledBack, PurgeRaises, OptOutAborts
<1>2. CASE row'[j].status = row[j].status
  BY <1>1, <1>2, SameIsLifeStep
<1>3. CASE row'[j].status # row[j].status
  <2>1. row' = Purged(i) /\ optout[i].loaded[j] # NoRow
    BY <1>1, <1>3 DEF Purged
  <2>2. row'[j].status = "purged" /\ events'[j] = events[j]
    BY <1>1, <1>3, <2>1, PurgeMoves
  <2>3. row[j].status \in Status
    BY <2>1 DEF LifeInv, TypeOK, JobInv, SeenByPurge, Row
  <2>4. QED
    BY <2>2, <2>3, WriteIsLifeStep DEF Status, Life!JobStatus, Life!Terminal, Life!Before
<1>4. QED
  BY <1>2, <1>3

(* Every job leads the life that its watchers rely on, whatever handlers,  *)
(* workers and opt-outs interleave and whichever of them fail: each step   *)
(* is one of JobLife for every job, or leaves the job's status and events. *)
THEOREM JobsImplementLife == Spec => ImplementsLife
<1>1. Init => \A j \in Job : Life(j)!Init
  BY DEF Init, NoRow, Life!Init
<1>2. LifeInv /\ [Next]_vars => [\A j \in Job : LifeStep(j)]_vars
  <2> SUFFICES ASSUME LifeInv, Next, NEW j \in Job PROVE LifeStep(j)
    OBVIOUS
  <2>1. ASSUME NEW k \in Job,
               \/ EnrichAsync(k) \/ EnrichSync(k) \/ ApiStep(k) \/ ApiAborts(k)
        PROVE  LifeStep(j)
    BY <2>1, ApiLifeStep, ApiKeepsOthers, SameIsLifeStep DEF Untouched
  <2>2. ASSUME NEW k \in Job, RunAction(k) PROVE LifeStep(j)
    BY <2>2, RunLifeStep, RunKeepsOthers, SameIsLifeStep DEF Untouched
  <2>3. ASSUME NEW i \in Identifier,
               \/ AddSuppression(i) \/ OptOutStep(i) \/ CommitWithoutPhotos(i)
               \/ PurgeRolledBack(i) \/ PurgeRaises(i) \/ OptOutAborts(i)
        PROVE  LifeStep(j)
    BY <2>3, OptOutLifeStep
  <2>4. QED
    BY <2>1, <2>2, <2>3 DEF Next, RunAction
<1>3. [\A j \in Job : LifeStep(j)]_vars
        => [\A j \in Job : [Life(j)!Next]_<<row[j].status, events[j]>>]_vars
  BY DEF LifeStep
<1>4. QED
  BY <1>1, <1>2, <1>3, LifeHolds, PTL DEF Spec, ImplementsLife

=============================================================================
