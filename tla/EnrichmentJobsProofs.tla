------------------------ MODULE EnrichmentJobsProofs ------------------------
(***************************************************************************)
(* Proofs about EnrichmentJobs: its type invariant, and the two invariants *)
(* that say what an opt-out guarantees while requests, workers and other   *)
(* opt-outs run.                                                           *)
(***************************************************************************)
EXTENDS EnrichmentJobs, TLAPS

(* An UPDATE yields a row, whatever was loaded.                            *)
LEMMA UpdateType ==
    ASSUME NEW c \in Row, NEW s \in Row,
           NEW st \in Status \cup {"none"}, NEW d \in Dossier
    PROVE  Update(c, s, st, d) \in Row
BY DEF Update, Row

(* An UPDATE that sets the dossier to what was loaded leaves it alone.     *)
LEMMA UpdateKeepsDossier ==
    ASSUME NEW c, NEW s, NEW st
    PROVE  Update(c, s, st, s.dossier).dossier = c.dossier
BY DEF Update

(* Changing the fields of a run or of an opt-out keeps its type.           *)
LEMMA RunStateType ==
    ASSUME NEW r \in RunState, NEW pc \in RunPc
    PROVE  /\ [r EXCEPT !.pc = pc] \in RunState
           /\ \A seen \in Row : [r EXCEPT !.pc = pc, !.seen = seen] \in RunState
           /\ \A d \in Dossier : [r EXCEPT !.pc = pc, !.dossier = d] \in RunState
           /\ r.errors < MaxErrors =>
                [r EXCEPT !.pc = pc, !.errors = r.errors + 1] \in RunState
<1>1. [r EXCEPT !.pc = pc] \in RunState
  BY DEF RunState
<1>2. ASSUME NEW seen \in Row
      PROVE  [r EXCEPT !.pc = pc, !.seen = seen] \in RunState
  BY DEF RunState
<1>3. ASSUME NEW d \in Dossier
      PROVE  [r EXCEPT !.pc = pc, !.dossier = d] \in RunState
  BY DEF RunState
<1>4. ASSUME r.errors < MaxErrors
      PROVE  [r EXCEPT !.pc = pc, !.errors = r.errors + 1] \in RunState
  <2>1. r.errors + 1 \in 0 .. MaxErrors
    BY <1>4, JobsAssumption DEF JobsAssumption, RunState
  <2>2. QED
    BY <2>1 DEF RunState
<1>5. QED
  BY <1>1, <1>2, <1>3, <1>4

LEMMA OptOutStateType ==
    ASSUME NEW o \in OptOutState, NEW pc \in OptOutPc
    PROVE  [o EXCEPT !.pc = pc] \in OptOutState
BY DEF OptOutState

LEMMA NullTypes == NoRow \in Row /\ NothingLoaded \in [Job -> Row] /\ Idle \in RunState
<1>1. NoRow \in Row
  BY DEF NoRow, Row, Dossier
<1>2. NothingLoaded \in [Job -> Row]
  BY <1>1 DEF NothingLoaded
<1>3. 0 \in 0 .. MaxErrors
  BY JobsAssumption DEF JobsAssumption
<1>4. Idle \in RunState
  BY <1>1, <1>3 DEF Idle, RunState, RunPc, Dossier
<1>5. QED
  BY <1>1, <1>2, <1>4

LEMMA InitTypeOK == Init => TypeOK
BY NullTypes DEF Init, TypeOK, ApiPc, OptOutState, OptOutPc

-----------------------------------------------------------------------------
(* Each step preserves the types.                                          *)

LEMMA ApiTypeOK ==
    ASSUME TypeOK, NEW j \in Job,
           \/ EnrichAsync(j) \/ EnrichSync(j) \/ CreateQueuedJob(j)
           \/ InsertQueuedJob(j) \/ CreateSuppressedJob(j)
           \/ EnqueueEnrichment(j) \/ EnqueueFails(j) \/ FailUnqueuedJob(j)
           \/ ApiAborts(j)
    PROVE  TypeOK'
<1> USE DEF TypeOK
<1>1. CASE EnrichAsync(j)
  BY <1>1 DEF EnrichAsync, ApiPc
<1>2. CASE EnrichSync(j)
  <2>1. [run[j] EXCEPT !.pc = "check"] \in RunState
    BY RunStateType DEF RunPc
  <2>2. QED
    BY <1>2, <2>1 DEF EnrichSync, ApiPc
<1>3. CASE CreateQueuedJob(j)
  BY <1>3 DEF CreateQueuedJob, ApiPc
<1>4. CASE InsertQueuedJob(j)
  BY <1>4 DEF InsertQueuedJob, ApiPc, Row, Status, Dossier
<1>5. CASE CreateSuppressedJob(j)
  <2>1. row' \in [Job -> Row] /\ events' \in [Job -> SUBSET Status]
    BY <1>5 DEF CreateSuppressedJob, Publish, Row, Status, Dossier
  <2>2. audit' \subseteq AuditEvent
    BY <1>5 DEF CreateSuppressedJob, AuditEvent
  <2>3. QED
    BY <1>5, <2>1, <2>2 DEF CreateSuppressedJob, ApiPc
<1>6. CASE EnqueueEnrichment(j)
  BY <1>6 DEF EnqueueEnrichment, Enqueued, ApiPc
<1>7. CASE EnqueueFails(j)
  <2>1. queue' \in Seq(Job)
    BY <1>7 DEF EnqueueFails, Enqueued
  <2>2. QED
    BY <1>7, <2>1 DEF EnqueueFails, ApiPc
<1>8. CASE FailUnqueuedJob(j)
  <2>1. FailedRow(row[j]) \in Row
    BY DEF FailedRow, Row, Status
  <2>2. QED
    BY <1>8, <2>1 DEF FailUnqueuedJob, ApiPc
<1>9. CASE ApiAborts(j)
  BY <1>9, NullTypes DEF ApiAborts, ApiPc
<1>10. QED
  BY <1>1, <1>2, <1>3, <1>4, <1>5, <1>6, <1>7, <1>8, <1>9

(* What a run writes are rows, and the statuses it stores are job          *)
(* statuses.                                                               *)
LEMMA RunWrites ==
    ASSUME TypeOK, NEW j \in Job
    PROVE  /\ FinalStatus(run[j].dossier) \in Status
           /\ Outcome(j) \in Row
           /\ \A st \in Status :
                 Update(row[j], run[j].seen, st, run[j].seen.dossier) \in Row
<1>1. row[j] \in Row /\ run[j].seen \in Row /\ run[j].dossier \in Dossier
  BY DEF TypeOK, RunState
<1>2. FinalStatus(run[j].dossier) \in Status
  BY DEF FinalStatus, Status
<1>3. Outcome(j) \in Row
  <2>1. Update(row[j], run[j].seen, FinalStatus(run[j].dossier), run[j].dossier) \in Row
    BY <1>1, <1>2, UpdateType
  <2>2. [status |-> FinalStatus(run[j].dossier), dossier |-> run[j].dossier] \in Row
    BY <1>1, <1>2 DEF Row
  <2>3. QED
    BY <2>1, <2>2 DEF Outcome
<1>4. run[j].seen.dossier \in Dossier
  BY <1>1 DEF Row
<1>5. QED
  BY <1>1, <1>2, <1>3, <1>4, UpdateType

LEMMA RunTypeOK ==
    ASSUME TypeOK, NEW j \in Job,
           \/ Dequeue(j) \/ RunStep(j) \/ MarkFinishedThenRaise(j)
           \/ RunRaises(j) \/ RunVanishes(j)
    PROVE  TypeOK'
<1> USE DEF TypeOK
<1>1. CASE Dequeue(j)
  <2>1. [run[j] EXCEPT !.pc = "load"] \in RunState
    BY RunStateType DEF RunPc
  <2>2. queue' \in Seq(Job)
    BY <1>1 DEF Dequeue
  <2>3. QED
    BY <1>1, <2>1, <2>2 DEF Dequeue
<1>2. CASE LoadJob(j)
  <2>1. [run[j] EXCEPT !.pc = "begin", !.seen = row[j]] \in RunState
    BY RunStateType DEF RunPc
  <2>2. QED
    BY <1>2, <2>1 DEF LoadJob
<1>3. CASE MarkRunning(j)
  <2>1. row' \in [Job -> Row] /\ row'[j] \in Row
    BY <1>3, RunWrites DEF MarkRunning, Status
  <2>2. [run[j] EXCEPT !.pc = "refresh"] \in RunState
    BY RunStateType DEF RunPc
  <2>3. QED
    BY <1>3, <2>1, <2>2 DEF MarkRunning
<1>4. CASE CheckSuppression(j)
  <2>1. [run[j] EXCEPT !.pc = "mark", !.dossier = "base"] \in RunState
    BY RunStateType DEF RunPc, Dossier
  <2>2. [run[j] EXCEPT !.pc = "dispatch"] \in RunState
    BY RunStateType DEF RunPc
  <2>3. QED
    BY <1>4, <2>1, <2>2 DEF CheckSuppression
<1>5. CASE DispatchAndMerge(j)
  <2>1. PICK d \in Enriched :
            run' = [run EXCEPT ![j].pc = "mark", ![j].dossier = d]
    BY <1>5 DEF DispatchAndMerge
  <2>2. [run[j] EXCEPT !.pc = "mark", !.dossier = d] \in RunState
    BY RunStateType DEF RunPc, Dossier, Enriched
  <2>3. QED
    BY <1>5, <2>1, <2>2 DEF DispatchAndMerge
<1>6. CASE MarkFinished(j)
  <2>1. row' \in [Job -> Row]
    BY <1>6, RunWrites DEF MarkFinished
  <2>2. events' \in [Job -> SUBSET Status]
    BY <1>6, RunWrites DEF MarkFinished, Publish
  <2>3. QED
    BY <1>6, <2>1, <2>2, NullTypes DEF MarkFinished, ApiPc
<1>7. CASE MarkFinishedThenRaise(j)
  <2>1. row' \in [Job -> Row]
    BY <1>7, RunWrites DEF MarkFinishedThenRaise
  <2>2. [run[j] EXCEPT !.pc = "handler", !.errors = run[j].errors + 1] \in RunState
    BY <1>7, RunStateType DEF MarkFinishedThenRaise, CanRaise, RunPc
  <2>3. QED
    BY <1>7, <2>1, <2>2, NullTypes DEF MarkFinishedThenRaise, ApiPc
<1>8. CASE RunRaises(j)
  <2>1. run[j].pc \in RunPc \ {"idle", "givenup"}
    BY <1>8 DEF RunRaises, RunState
  <2>2. RaisesTo(run[j].pc) \in RunPc
    BY <2>1 DEF RaisesTo, RunPc
  <2>3. [run[j] EXCEPT !.pc = RaisesTo(run[j].pc), !.errors = run[j].errors + 1]
            \in RunState
    BY <1>8, <2>2, RunStateType DEF RunRaises, CanRaise
  <2>4. QED
    BY <1>8, <2>3 DEF RunRaises
<1>9. CASE ReloadForFailure(j)
  <2>1. [run[j] EXCEPT !.pc = "failmark", !.seen = row[j]] \in RunState
    BY RunStateType DEF RunPc
  <2>2. QED
    BY <1>9, <2>1 DEF ReloadForFailure
<1>10. CASE MarkFailed(j)
  <2>1. row' \in [Job -> Row]
    BY <1>10, RunWrites DEF MarkFailed, Status
  <2>2. events' \in [Job -> SUBSET Status]
    BY <1>10 DEF MarkFailed, Publish, Status
  <2>3. [run[j] EXCEPT !.pc = "recover"] \in RunState
    BY RunStateType DEF RunPc
  <2>4. QED
    BY <1>10, <2>1, <2>2, <2>3 DEF MarkFailed
<1>11. CASE RecoverJob(j)
  <2>1. [run[j] EXCEPT !.pc = "recovermark", !.seen = row[j]] \in RunState
    BY RunStateType DEF RunPc
  <2>2. QED
    BY <1>11, <2>1, NullTypes DEF RecoverJob
<1>12. CASE MarkRecovered(j)
  <2>1. row' \in [Job -> Row]
    BY <1>12, RunWrites DEF MarkRecovered, Status
  <2>2. events' \in [Job -> SUBSET Status]
    BY <1>12 DEF MarkRecovered, Publish, Status
  <2>3. QED
    BY <1>12, <2>1, <2>2, NullTypes DEF MarkRecovered
<1>13. CASE RunVanishes(j)
  BY <1>13, NullTypes DEF RunVanishes
<1>14. CASE RefreshRunning(j)
  <2>1. [run[j] EXCEPT !.pc = "check", !.seen = row[j]] \in RunState
    BY RunStateType DEF RunPc
  <2>2. QED
    BY <1>14, <2>1 DEF RefreshRunning
<1>15. QED
  BY <1>1, <1>2, <1>3, <1>4, <1>5, <1>6, <1>7, <1>8, <1>9, <1>10, <1>11,
     <1>12, <1>13, <1>14 DEF RunStep

LEMMA PurgedType ==
    ASSUME TypeOK, NEW i \in Identifier
    PROVE  Purged(i) \in [Job -> Row]
<1>1. ASSUME NEW j \in Job
      PROVE  Update(row[j], optout[i].loaded[j], "purged", "empty") \in Row
  <2>1. row[j] \in Row /\ optout[i].loaded[j] \in Row
    BY DEF TypeOK, OptOutState
  <2>2. QED
    BY <2>1, UpdateType DEF Status, Dossier
<1>2. QED
  BY <1>1 DEF Purged, TypeOK

LEMMA OptOutTypeOK ==
    ASSUME TypeOK, NEW i \in Identifier,
           \/ AddSuppression(i) \/ OptOutStep(i) \/ CommitWithoutPhotos(i)
           \/ PurgeRolledBack(i) \/ PurgeRaises(i) \/ OptOutAborts(i)
    PROVE  TypeOK'
<1> USE DEF TypeOK
<1>a. ASSUME NEW pc \in OptOutPc
      PROVE  [optout[i] EXCEPT !.pc = pc] \in OptOutState
  BY OptOutStateType
<1>b. ASSUME NEW pc \in OptOutPc, NEW loaded \in [Job -> Row]
      PROVE  [pc |-> pc, loaded |-> loaded] \in OptOutState
  BY DEF OptOutState
<1>c. audit \cup {<<"opt_out", i>>, <<"data_purged", i>>} \subseteq AuditEvent
  BY DEF AuditEvent
<1>1. CASE AddSuppression(i)
  <2>1. racing' \in [Identifier -> SUBSET Job]
    BY <1>1 DEF AddSuppression
  <2>2. QED
    BY <1>1, <1>a, <2>1 DEF AddSuppression, OptOutPc
<1>2. CASE SelectJobs(i)
  <2>1. [j \in Job |-> IF i \in IdentifiersOf[j] THEN row[j] ELSE NoRow]
            \in [Job -> Row]
    BY NullTypes
  <2>2. QED
    BY <1>2, <1>b, <2>1 DEF SelectJobs, OptOutPc
<1>3. CASE FlushPurge(i)
  BY <1>3, <1>a DEF FlushPurge, OptOutPc
<1>4. CASE CommitPurge(i)
  BY <1>4, <1>b, <1>c, PurgedType, NullTypes DEF CommitPurge, OptOutPc
<1>5. CASE CommitWithoutPhotos(i)
  BY <1>5, <1>b, <1>c, PurgedType, NullTypes DEF CommitWithoutPhotos, OptOutPc
<1>6. CASE PurgeRaises(i)
  BY <1>6, <1>a, <1>c DEF PurgeRaises, OptOutPc
<1>7. CASE LogDataPurged(i)
  BY <1>7, <1>a, <1>c DEF LogDataPurged, OptOutPc
<1>8. CASE OptOutAborts(i)
  BY <1>8, <1>b, NullTypes DEF OptOutAborts, OptOutPc
<1>9. CASE PurgeRolledBack(i)
  BY <1>9, <1>b, NullTypes DEF PurgeRolledBack, OptOutPc
<1>10. QED
  BY <1>1, <1>2, <1>3, <1>4, <1>5, <1>6, <1>7, <1>8, <1>9 DEF OptOutStep

LEMMA NextTypeOK == TypeOK /\ [Next]_vars => TypeOK'
<1>1. ASSUME TypeOK, Next PROVE TypeOK'
  BY <1>1, ApiTypeOK, RunTypeOK, OptOutTypeOK DEF Next, ApiStep
<1>2. ASSUME TypeOK, UNCHANGED vars PROVE TypeOK'
  BY <1>2 DEF TypeOK, vars
<1>3. QED
  BY <1>1, <1>2

(* The tables, the queue, the handlers, the runs and the opt-outs keep     *)
(* their types in every behaviour.                                         *)
THEOREM TypeCorrect == Spec => []TypeOK
BY InitTypeOK, NextTypeOK, PTL DEF Spec

-----------------------------------------------------------------------------
(* What an opt-out guarantees.                                             *)

(* Only a run past its suppression check puts a dossier into a row that    *)
(* had none.                                                               *)
LEMMA DossierFromRacingRun ==
    ASSUME TypeOK, Next, NEW j \in Job, row'[j].dossier \in Enriched
    PROVE  row[j].dossier \in Enriched \/ PastCheck(j)
<1> USE DEF TypeOK
<1>1. ASSUME row' = row PROVE row[j].dossier \in Enriched
  BY <1>1
<1>2. ASSUME NEW k \in Job, InsertQueuedJob(k) PROVE row[j].dossier \in Enriched
  BY <1>2 DEF InsertQueuedJob, Enriched
<1>3. ASSUME NEW k \in Job, CreateSuppressedJob(k)
      PROVE  row[j].dossier \in Enriched
  BY <1>3 DEF CreateSuppressedJob, Enriched
<1>4. ASSUME NEW k \in Job, FailUnqueuedJob(k) PROVE row[j].dossier \in Enriched
  <2>1. FailedRow(row[k]).dossier = row[k].dossier
    BY DEF FailedRow, Row
  <2>2. QED
    BY <1>4, <2>1 DEF FailUnqueuedJob
<1>5. ASSUME NEW k \in Job, NEW st,
             row' = [row EXCEPT ![k] = Update(row[k], run[k].seen, st,
                                              run[k].seen.dossier)]
      PROVE  row[j].dossier \in Enriched
  <2>1. CASE j = k
    <3>1. row'[j] = Update(row[j], run[j].seen, st, run[j].seen.dossier)
      BY <1>5, <2>1
    <3>2. QED
      BY <3>1, UpdateKeepsDossier
  <2>2. CASE j # k
    BY <1>5, <2>2
  <2>3. QED
    BY <2>1, <2>2
<1>6. ASSUME NEW k \in Job, MarkRunning(k) \/ MarkFailed(k) \/ MarkRecovered(k)
      PROVE  row[j].dossier \in Enriched
  BY <1>5, <1>6 DEF MarkRunning, MarkFailed, MarkRecovered
<1>7. ASSUME NEW k \in Job, run[k].pc = "mark", row' = [row EXCEPT ![k] = Outcome(k)]
      PROVE  row[j].dossier \in Enriched \/ PastCheck(j)
  <2>1. Outcome(k).dossier \in {run[k].dossier, row[k].dossier}
    BY DEF Outcome, Update
  <2>2. QED
    BY <1>7, <2>1 DEF PastCheck
<1>8. ASSUME NEW k \in Job, MarkFinished(k) \/ MarkFinishedThenRaise(k)
      PROVE  row[j].dossier \in Enriched \/ PastCheck(j)
  BY <1>7, <1>8 DEF MarkFinished, MarkFinishedThenRaise
<1>9. ASSUME NEW i \in Identifier, row' = Purged(i)
      PROVE  row[j].dossier \in Enriched
  BY <1>9 DEF Purged, Update, Enriched
<1>10. ASSUME NEW i \in Identifier, CommitPurge(i) \/ CommitWithoutPhotos(i)
       PROVE  row[j].dossier \in Enriched
  BY <1>9, <1>10 DEF CommitPurge, CommitWithoutPhotos
<1>11. QED
  BY <1>1, <1>2, <1>3, <1>4, <1>6, <1>8, <1>10
  DEF Next, ApiStep, RunStep, OptOutStep, EnrichAsync, EnrichSync,
      CreateQueuedJob, EnqueueEnrichment, EnqueueFails, ApiAborts, Dequeue,
      LoadJob, RefreshRunning, CheckSuppression, DispatchAndMerge, ReloadForFailure,
      RecoverJob, RunRaises, RunVanishes, AddSuppression, SelectJobs,
      FlushPurge, PurgeRolledBack, PurgeRaises, LogDataPurged, OptOutAborts

(* A run gets past its check only while none of its identifiers is         *)
(* suppressed.                                                             *)
LEMMA PastCheckFromCleanCheck ==
    ASSUME TypeOK, Next, NEW j \in Job, PastCheck(j)'
    PROVE  \/ PastCheck(j)
           \/ ~IsRequestSuppressed(j) /\ UNCHANGED <<suppressed, racing>>
<1> USE DEF TypeOK, PastCheck
<1>1. ASSUME run' = run PROVE PastCheck(j)
  BY <1>1
<1>3. ASSUME NEW k \in Job, CheckSuppression(k)
      PROVE  \/ PastCheck(j)
             \/ ~IsRequestSuppressed(j) /\ UNCHANGED <<suppressed, racing>>
  <2>1. CASE k = j
    <3>1. CASE IsRequestSuppressed(j)
      <4>1. run' = [run EXCEPT ![j] = [run[j] EXCEPT !.pc = "mark", !.dossier = "base"]]
        BY <1>3, <2>1, <3>1 DEF CheckSuppression
      <4>2. run'[j].pc = "mark" /\ run'[j].dossier = "base"
        BY <4>1 DEF RunState
      <4>3. QED
        BY <4>2 DEF Enriched
    <3>2. CASE ~IsRequestSuppressed(j)
      BY <1>3, <3>2 DEF CheckSuppression
    <3>3. QED
      BY <3>1, <3>2
  <2>2. CASE k # j
    BY <1>3, <2>2 DEF CheckSuppression
  <2>3. QED
    BY <2>1, <2>2
<1>4. ASSUME NEW k \in Job, DispatchAndMerge(k) PROVE PastCheck(j)
  <2>1. PICK d \in Enriched :
            run' = [run EXCEPT ![k] = [run[k] EXCEPT !.pc = "mark", !.dossier = d]]
    BY <1>4 DEF DispatchAndMerge
  <2>2. QED
    BY <1>4, <2>1 DEF DispatchAndMerge
<1>5. Idle.pc = "idle"
  BY DEF Idle
<1>6. ASSUME NEW k \in Job, Dequeue(k) PROVE PastCheck(j)
  BY <1>6 DEF Dequeue, RunState
<1>7. ASSUME NEW k \in Job,
             \/ LoadJob(k) \/ MarkRunning(k) \/ RefreshRunning(k) \/ MarkFinished(k)
             \/ ReloadForFailure(k) \/ MarkFailed(k) \/ RecoverJob(k)
             \/ MarkRecovered(k) \/ RunVanishes(k)
      PROVE  PastCheck(j)
  <2>1. CASE LoadJob(k)
    BY <2>1 DEF LoadJob, RunState
  <2>2. CASE MarkRunning(k)
    BY <2>2 DEF MarkRunning, RunState
  <2>3. CASE MarkFinished(k)
    BY <2>3, <1>5 DEF MarkFinished
  <2>4. CASE ReloadForFailure(k)
    BY <2>4 DEF ReloadForFailure, RunState
  <2>5. CASE MarkFailed(k)
    BY <2>5 DEF MarkFailed, RunState
  <2>6. CASE RecoverJob(k)
    BY <2>6, <1>5 DEF RecoverJob, RunState
  <2>7. CASE MarkRecovered(k)
    BY <2>7, <1>5 DEF MarkRecovered
  <2>8. CASE RunVanishes(k)
    BY <2>8, <1>5 DEF RunVanishes
  <2>9. CASE RefreshRunning(k)
    BY <2>9 DEF RefreshRunning, RunState
  <2>10. QED
    BY <1>7, <2>1, <2>2, <2>3, <2>4, <2>5, <2>6, <2>7, <2>8, <2>9
<1>8. ASSUME NEW k \in Job, MarkFinishedThenRaise(k) PROVE PastCheck(j)
  BY <1>8, <1>5 DEF MarkFinishedThenRaise, RunState
<1>9. ASSUME NEW k \in Job, RunRaises(k) PROVE PastCheck(j)
  <2>1. ASSUME run[k].pc \notin {"idle", "givenup"}
        PROVE  RaisesTo(run[k].pc) \in {"recover", "handler", "givenup"}
    BY <2>1 DEF RaisesTo, RunState, RunPc
  <2>2. QED
    BY <1>9, <2>1, <1>5 DEF RunRaises, RunState
<1>10. ASSUME NEW k \in Job, EnrichSync(k) \/ ApiAborts(k) PROVE PastCheck(j)
  BY <1>10, <1>5 DEF EnrichSync, ApiAborts, RunState
<1>11. QED
  BY <1>1, <1>3, <1>4, <1>6, <1>7, <1>8, <1>9, <1>10
  DEF Next, ApiStep, RunStep, OptOutStep, EnrichAsync, CreateQueuedJob,
      InsertQueuedJob, CreateSuppressedJob, EnqueueEnrichment, EnqueueFails,
      FailUnqueuedJob, AddSuppression, SelectJobs, FlushPurge, CommitPurge,
      CommitWithoutPhotos, PurgeRolledBack, PurgeRaises, LogDataPurged, OptOutAborts

(* Only add_suppression touches the list; it notes the runs past their     *)
(* check when the identifier enters, and moves no run.                     *)
LEMMA SuppressionGrows ==
    ASSUME TypeOK, Next, NEW i \in Identifier
    PROVE  /\ i \in suppressed => i \in suppressed' /\ racing'[i] = racing[i]
           /\ i \in suppressed' /\ i \notin suppressed =>
                run' = run /\ racing'[i] = {j \in Job : PastCheck(j)}
<1>1. ASSUME NEW k \in Identifier, AddSuppression(k)
      PROVE  /\ i \in suppressed => i \in suppressed' /\ racing'[i] = racing[i]
             /\ i \in suppressed' /\ i \notin suppressed =>
                  run' = run /\ racing'[i] = {j \in Job : PastCheck(j)}
  BY <1>1 DEF AddSuppression, TypeOK
<1>2. ASSUME UNCHANGED <<suppressed, racing>>
      PROVE  /\ i \in suppressed => i \in suppressed' /\ racing'[i] = racing[i]
             /\ i \in suppressed' /\ i \notin suppressed =>
                  run' = run /\ racing'[i] = {j \in Job : PastCheck(j)}
  BY <1>2
<1>3. QED
  BY <1>1, <1>2
  DEF Next, ApiStep, RunStep, OptOutStep, EnrichAsync, EnrichSync,
      CreateQueuedJob, InsertQueuedJob, CreateSuppressedJob,
      EnqueueEnrichment, EnqueueFails, FailUnqueuedJob, ApiAborts, Dequeue,
      LoadJob, MarkRunning, RefreshRunning, CheckSuppression, DispatchAndMerge, MarkFinished,
      MarkFinishedThenRaise, RunRaises, ReloadForFailure, MarkFailed,
      RecoverJob, MarkRecovered, RunVanishes, SelectJobs, FlushPurge,
      CommitPurge, CommitWithoutPhotos, PurgeRolledBack, PurgeRaises, LogDataPurged, OptOutAborts

(* How the opt-out of an identifier moves: it leaves idle by suppressing,  *)
(* reaches its flush by its SELECT, keeps what it loaded until its commit, *)
(* and erases by committing.                                               *)
LEMMA OptOutMoves ==
    ASSUME TypeOK, Next, NEW i \in Identifier
    PROVE  /\ optout'[i].pc # "idle" => optout[i].pc # "idle" \/ i \in suppressed'
           /\ optout'[i].pc \in {"flush", "commit"} =>
                \/ SelectJobs(i)
                \/ /\ optout[i].pc \in {"flush", "commit"}
                   /\ optout'[i].loaded = optout[i].loaded
           /\ i \in erased' => \/ i \in erased
                               \/ optout[i].pc = "commit" /\ row' = Purged(i)
<1> DEFINE Moves ==
           /\ optout'[i].pc # "idle" => optout[i].pc # "idle" \/ i \in suppressed'
           /\ optout'[i].pc \in {"flush", "commit"} =>
                \/ SelectJobs(i)
                \/ /\ optout[i].pc \in {"flush", "commit"}
                   /\ optout'[i].loaded = optout[i].loaded
           /\ i \in erased' => \/ i \in erased
                               \/ optout[i].pc = "commit" /\ row' = Purged(i)
<1> USE DEF TypeOK, OptOutState
<1>1. ASSUME UNCHANGED <<optout, erased>> PROVE Moves
  BY <1>1
<1>2. ASSUME NEW k \in Identifier, AddSuppression(k) PROVE Moves
  BY <1>2 DEF AddSuppression
<1>3. ASSUME NEW k \in Identifier, SelectJobs(k) PROVE Moves
  <2>1. CASE k = i
    BY <1>3, <2>1 DEF SelectJobs
  <2>2. CASE k # i
    BY <1>3, <2>2 DEF SelectJobs
  <2>3. QED
    BY <2>1, <2>2
<1>4. ASSUME NEW k \in Identifier, FlushPurge(k) PROVE Moves
  BY <1>4 DEF FlushPurge
<1>5. ASSUME NEW k \in Identifier, CommitPurge(k) PROVE Moves
  BY <1>5 DEF CommitPurge
<1>6. ASSUME NEW k \in Identifier, CommitWithoutPhotos(k) PROVE Moves
  BY <1>6 DEF CommitWithoutPhotos
<1>7. ASSUME NEW k \in Identifier, PurgeRaises(k) PROVE Moves
  BY <1>7 DEF PurgeRaises
<1>8. ASSUME NEW k \in Identifier, LogDataPurged(k) PROVE Moves
  BY <1>8 DEF LogDataPurged
<1>9. ASSUME NEW k \in Identifier, OptOutAborts(k) PROVE Moves
  BY <1>9 DEF OptOutAborts
<1>10. ASSUME NEW k \in Identifier, PurgeRolledBack(k) PROVE Moves
  BY <1>10 DEF PurgeRolledBack
<1> HIDE DEF Moves
<1>11. Moves
  BY <1>1, <1>2, <1>3, <1>4, <1>5, <1>6, <1>7, <1>8, <1>9, <1>10
  DEF Next, ApiStep, RunStep, OptOutStep, EnrichAsync, EnrichSync,
      CreateQueuedJob, InsertQueuedJob, CreateSuppressedJob,
      EnqueueEnrichment, EnqueueFails, FailUnqueuedJob, ApiAborts, Dequeue,
      LoadJob, MarkRunning, RefreshRunning, CheckSuppression, DispatchAndMerge, MarkFinished,
      MarkFinishedThenRaise, RunRaises, ReloadForFailure, MarkFailed,
      RecoverJob, MarkRecovered, RunVanishes
<1>12. QED
  BY <1>11 DEF Moves

(* A purge that commits empties every dossier that it had loaded.          *)
LEMMA PurgeEmptiesLoaded ==
    ASSUME NEW i \in Identifier, NEW j \in Job,
           optout[i].loaded[j].dossier \in Enriched
    PROVE  Purged(i)[j].dossier \notin Enriched
BY DEF Purged, Update, Enriched, NoRow

LEMMA InitErasure == Init => ErasureInv
<1> SUFFICES ASSUME Init PROVE ErasureInv
  OBVIOUS
<1>1. TypeOK
  BY InitTypeOK
<1>2. \A j \in Job : ~PastCheck(j)
  BY DEF Init, PastCheck, Idle
<1>3. QED
  BY <1>1, <1>2 DEF Init, ErasureInv, SuppressedBeforePurge,
     NoDispatchAfterOptOut, PurgeHoldsDossiers, ErasedExceptRacing

LEMMA NextErasure ==
    ASSUME ErasureInv, Next
    PROVE  ErasureInv'
<1> USE DEF ErasureInv
<1>1. TypeOK'
  BY NextTypeOK
<1>2. SuppressedBeforePurge'
  <2> SUFFICES ASSUME NEW i \in Identifier, optout'[i].pc # "idle" \/ i \in erased'
               PROVE  i \in suppressed'
    BY DEF SuppressedBeforePurge
  <2>1. optout[i].pc # "idle" \/ i \in erased \/ i \in suppressed'
    BY OptOutMoves
  <2>2. QED
    BY <2>1, SuppressionGrows DEF SuppressedBeforePurge
<1>3. NoDispatchAfterOptOut'
  <2> SUFFICES ASSUME NEW j \in Job, PastCheck(j)',
                      NEW i \in IdentifiersOf[j] \cap suppressed'
               PROVE  j \in racing'[i]
    BY DEF NoDispatchAfterOptOut
  <2>1. i \in Identifier
    BY JobsAssumption DEF JobsAssumption
  <2>2. CASE i \in suppressed
    <3>1. PastCheck(j)
      BY <2>2, PastCheckFromCleanCheck DEF IsRequestSuppressed
    <3>2. QED
      BY <2>1, <2>2, <3>1, SuppressionGrows DEF NoDispatchAfterOptOut
  <2>3. CASE i \notin suppressed
    <3>1. run' = run /\ racing'[i] = {k \in Job : PastCheck(k)}
      BY <2>1, <2>3, SuppressionGrows
    <3>2. PastCheck(j)
      BY <3>1 DEF PastCheck
    <3>3. QED
      BY <3>1, <3>2
  <2>4. QED
    BY <2>2, <2>3
(* A dossier that is new to a row of a suppressed identifier comes from a  *)
(* racing run.                                                             *)
<1>4. ASSUME NEW i \in Identifier, NEW j \in Job, i \in suppressed,
             i \in IdentifiersOf[j], row'[j].dossier \in Enriched
      PROVE  /\ racing'[i] = racing[i]
             /\ row[j].dossier \in Enriched \/ j \in racing[i]
  BY <1>4, DossierFromRacingRun, SuppressionGrows DEF NoDispatchAfterOptOut
<1>5. PurgeHoldsDossiers'
  <2> SUFFICES ASSUME NEW i \in Identifier, NEW j \in Job,
                      optout'[i].pc \in {"flush", "commit"},
                      i \in IdentifiersOf[j], row'[j].dossier \in Enriched
               PROVE  j \in racing'[i] \/ optout'[i].loaded[j].dossier \in Enriched
    BY DEF PurgeHoldsDossiers
  <2>1. CASE SelectJobs(i)
    BY <2>1 DEF SelectJobs, TypeOK
  <2>2. CASE /\ optout[i].pc \in {"flush", "commit"}
             /\ optout'[i].loaded = optout[i].loaded
    <3>1. i \in suppressed
      BY <2>2 DEF SuppressedBeforePurge
    <3>2. QED
      BY <1>4, <2>2, <3>1 DEF PurgeHoldsDossiers
  <2>3. QED
    BY <2>1, <2>2, OptOutMoves
<1>6. ErasedExceptRacing'
  <2> SUFFICES ASSUME NEW i \in erased', NEW j \in Job,
                      i \in IdentifiersOf[j], row'[j].dossier \in Enriched
               PROVE  j \in racing'[i]
    BY DEF ErasedExceptRacing
  <2>1. i \in Identifier
    BY JobsAssumption DEF JobsAssumption
  <2>2. CASE i \in erased
    <3>1. i \in suppressed
      BY <2>1, <2>2 DEF SuppressedBeforePurge
    <3>2. QED
      BY <1>4, <2>1, <2>2, <3>1 DEF ErasedExceptRacing
  <2>3. CASE optout[i].pc = "commit" /\ row' = Purged(i)
    <3>1. i \in suppressed
      BY <2>1, <2>3 DEF SuppressedBeforePurge
    <3>2. optout[i].loaded[j].dossier \notin Enriched
      BY <2>1, <2>3, PurgeEmptiesLoaded
    <3>3. QED
      BY <1>4, <2>1, <2>3, <3>1, <3>2 DEF PurgeHoldsDossiers
  <2>4. QED
    BY <2>1, <2>2, <2>3, OptOutMoves
<1>7. QED
  BY <1>1, <1>2, <1>3, <1>5, <1>6

LEMMA ErasureHolds == Spec => []ErasureInv
<1>1. ErasureInv /\ [Next]_vars => ErasureInv'
  <2>1. ASSUME ErasureInv, UNCHANGED vars PROVE ErasureInv'
    BY <2>1 DEF ErasureInv, TypeOK, SuppressedBeforePurge, NoDispatchAfterOptOut,
       PurgeHoldsDossiers, ErasedExceptRacing, PastCheck, vars
  <2>2. QED
    BY <2>1, NextErasure
<1>2. QED
  BY <1>1, InitErasure, PTL DEF Spec

(* Once an identifier is on the suppression list, no run that had not      *)
(* already passed its check reaches the enrichers for a request naming it, *)
(* whatever fails and however many workers, jobs and opt-outs there are.   *)
THEOREM OptOutStopsDispatch == Spec => []NoDispatchAfterOptOut
<1>1. ErasureInv => NoDispatchAfterOptOut
  BY DEF ErasureInv
<1>2. QED
  BY <1>1, ErasureHolds, PTL

(* After a committed purge the rows of the identifier hold no dossier but  *)
(* those of the runs that were past their check at the opt-out.            *)
THEOREM OptOutErasesExceptRacing == Spec => []ErasedExceptRacing
<1>1. ErasureInv => ErasedExceptRacing
  BY DEF ErasureInv
<1>2. QED
  BY <1>1, ErasureHolds, PTL

(* Between its SELECT and its commit a purge has loaded, as a dossier it   *)
(* will blank, every dossier of its identifier but those of racing runs.   *)
THEOREM PurgesHoldDossiers == Spec => []PurgeHoldsDossiers
<1>1. ErasureInv => PurgeHoldsDossiers
  BY DEF ErasureInv
<1>2. QED
  BY <1>1, ErasureHolds, PTL

=============================================================================
