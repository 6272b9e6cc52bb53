# Verification of the enrichment backend

TLA+ models of the program in `backend/` (FastAPI + RQ + PostgreSQL + Redis) and
of the frontend code that follows its jobs, checked with TLC on small instances
and, where it matters most, proved with TLAPS for every instance. Paths below
are relative to the repository; `app/` is `backend/app/`.

## The system

A client posts an *enrichment request*: some identifiers of a person or a
company (email, LinkedIn URL, username, ...). The API stores a job and puts its
id on an RQ queue in Redis; a worker runs the *pipeline* (four tiers of
enrichers), merges the payloads into a *dossier* and stores it with the job. A
person may *opt out*: the identifier goes on a suppression list for good, and
everything stored about it is purged.

| part | state | operations | interacts through |
|---|---|---|---|
| Enrichment API (`app/modules/enrichment`, job creation in `app/enrichers/pipeline.py`) | `jobs` rows | `enrich_async`, `enrich_sync`, reads | jobs table, suppression list, RQ queue, status events |
| Worker and task (`app/workers`, `Pipeline.execute_job`) | the running job, a session per job | dequeue, mark running, execute, mark finished or failed, recovery session | jobs table, suppression list, events |
| Queue routing (`app/workers/queue.py`) | queue names | route by tier | settings of API and workers |
| Opt-out and purge (`app/modules/opt_out`, `app/compliance/purge.py`) | a session per call | suppress, select and clear jobs, delete photos, log | jobs table, photo stores, audit log |
| Suppression list (`app/compliance/suppression.py`) | SQL table, Redis set | add, check, backfill | everyone who handles a request |
| DSAR (`app/compliance/dsar.py`) and audit log | `dsar_requests`, `audit_logs` | create, process, complete | opt-out code |
| Photo cache and object storage (`app/storage`) | Redis key, SQL row, R2 object | get, put, delete | LinkedIn enricher, purge |
| Profile pool and browser client (`app/integrations`) | view counters, cooldowns, running browsers | acquire, refund, release, retry, rotate | Redis, Multilogin |
| Dispatch, merge, disambiguation (`app/enrichers`) | none | pure, apart from calls to tools | pipeline |
| Status events (`job_events.py`) | Redis channel, subscribers | publish, stream | API, worker, frontend |
| Rate limits, GitRecon throttle | Redis counters | check, back off | API dependencies, enricher |
| Migrations (`alembic`, `app/database/session.py`) | schema version, advisory lock | stamp, upgrade | API and worker start-up |
| Frontend job tracking | polling timers, event source, local storage | poll, subscribe, toast | API, events |

What is hard here: an opt-out races with runs that take minutes; the purge, the
worker and the API write the same row from sessions that loaded it earlier;
exceptions surface in error handlers; RQ's alarm interrupts an event loop;
Redis can fail an operation it has done; a value sits in two or three stores.
`PROJECT.json` lists these hazards at their lines with the properties about
them.

What makes the parts correct: no enrichment of an opted-out identifier beyond
the runs already under way; nothing kept after a purge; a status that agrees
with the stored dossier; every job ends and whoever watches it is told, once;
the two stores of the suppression list answer as one list; a cached photo never
outlives its erasure nor names an object that was not stored; the register says
what was done; a browser profile is used no more often than its limit and its
browser is stopped; a window of calls keeps its budget; a dossier owes to its
finders what they found, whatever fails beside them.

## Modules

| module | models | composes |
|---|---|---|
| `EnrichmentJobs` | API, queue, workers, opt-outs over the jobs table | implements `JobLife` |
| `JobLife` | abstract: the statuses of a job and what is published | |
| `JobWatch` | SSE stream, its client, polling | extends `JobLife` |
| `Suppression` | the two stores of the suppression list | implements `SuppressionList` |
| `SuppressionList` | abstract: one list that grows | |
| `Erasure` | photo stores, opt-out and DSAR requests, register | |
| `ProfilePool` | Tier 1 profiles, sessions, launcher | |
| `Throttles` | fixed-window counters, GitRecon cooldown | |
| `Dossier` | dispatch, merge, verification, disambiguation of one request | |

The pieces fit as follows. `EnrichmentJobs` takes the suppression list to be one
set, which `Suppression` implements; it takes a dispatch to be one step with an
outcome, which `Dossier` opens up. `JobWatch` watches any job that leads the
life of `JobLife`, and `EnrichmentJobs` is shown (model-checked and proved) to
give every job such a life. `Erasure` starts a scrape only when the identifier
is not suppressed, which is what `EnrichmentJobs` establishes of a dispatch at
its check, and repeats the opt-out handler with the photo half of the purge.

### EnrichmentJobs

The core: API handlers, queue, worker runs and opt-outs over one jobs table.

| variable | in the code |
|---|---|
| `row` | committed rows of `jobs` (status, and what kind of dossier they hold) |
| `suppressed` | the suppression list |
| `queue` | RQ's list of job ids |
| `api[j]` | the line `enrich_async` or `enrich_sync` has reached for request `j` |
| `run[j]` | the stage of the job's execution, the row its session loaded (`seen`), the dossier it is about to store |
| `optout[i]` | the stage of the opt-out of `i` and the rows its SELECT loaded |
| `audit`, `events` | committed audit events; terminal statuses published |
| `racing`, `erased` | history: runs past their check when `i` was suppressed; identifiers whose purge committed |

An action is what a handler does between two points where others can act:
commits, reads of shared state, and Redis calls. In particular

* the suppression check (`CheckSuppression`) and the final commit
  (`MarkFinished`) are apart, with the dispatch between them;
* an UPDATE is computed as SQLAlchemy does: `Update(current, seen, status,
  dossier)` writes only the columns that differ from what the session loaded.
  Sessions run at READ COMMITTED, so `current` may be newer than `seen`;
* a flushed purge holds the row locks of what it selected (`Locked`) until its
  commit, and other writers wait;
* `/enrich/sync` only flushes its row, so nobody sees it before the commit;
* exceptions go where the `except` clauses send them: `RaisesTo`, then
  `ReloadForFailure`/`MarkFailed` (`execute_job`), `RecoverJob`/`MarkRecovered`
  (the task's recovery session, guarded by `status == "running"`);
* `mark_status` is two steps for the first status, commit (`MarkRunning`) and
  refresh (`RefreshRunning`): a refresh that raises goes past `execute_job`'s
  `try` to the recovery session with the row already `running`. After the final
  commit the refresh and what follows raise into the `except` clause
  (`MarkFinishedThenRaise`). A recovery session that raises itself gives the
  job up (`givenup`): nobody takes it up again;
* `RunVanishes` ends a run without any handler: the work-horse is killed, or
  RQ's alarm is raised while the event loop is idle. `asyncio.run` then cancels
  the coroutine, and `CancelledError` is no `Exception`. (An alarm raised inside
  pipeline code is an ordinary exception; inside an enricher it is swallowed.)

A request's suppression check is a single step here. It is really a loop over
two stores; `Suppression` shows that each answer is right at some moment of
the loop (a "clear" when it begins, a "suppressed" when it ends), and the
callers do nothing visible in between, which is why one step stands for it.

Not represented: the text of identifiers and payloads, timestamps, and several
opt-outs of one identifier at the same time. Photos, and what a failing purge
does to the register, are in `Erasure`; what happens inside a dispatch is in
`Dossier`; here a dispatch has an outcome (data, none, an exception).

### Suppression and SuppressionList

`Suppression` has the SQL table, the Redis set, each call of `add_suppression`
(merge, commit, Redis write) and each check (Redis, then SQL, then backfill, for
one identifier after the other). `SuppressionList` is what callers rely on: one
set that only grows. `Suppression!List` instantiates it with the SQL table as
the list; the commit is the step that changes it.

### ProfilePool

The worker processes that run Tier 1 and what they share: the Redis counters of
the day (`views`), the cooldown keys (`cooling`) and the launcher's running
browsers (`browser[p]`, the worker that started it). `worker[w]` is the scrape
of `w`: the line of `_scrape_with_profile` it has reached, the pool's rotation
index, loop counters, the outcome so far, whether a driver is connected.
`slipped` and the field `charged` are history.

* Each Redis call of `acquire` is a step: cooldown, counter, INCR. So are the
  DECR of `refund_view` and the SET that follows when the counter is negative,
  and each launcher call.
* A job builds its own pipeline, hence its own pool: every scrape starts its
  rotation at the first profile, so concurrent workers meet there.
* `start_profile` is refused while a browser runs under the profile, the scrape
  then takes its error path, and the `finally` block stops the profile whoever
  started it. The victim notices at its next use of the driver.
* Counters are keyed by date: `Midnight` starts a new key, and a refund still
  due goes to it.
* Page contents are outcomes, chosen freely where the code can return them;
  `TEMPORARY_FAILURE` comes only from the sign-in, before the page is opened.
* `browser_semaphore` is per process, and an RQ worker has one job at a time, so
  it never makes anyone wait and is left out. The API does not run Tier 1. The
  list of profiles, cached for five minutes, is fixed.

The launcher is external: starting a profile that is running fails, stopping
always stops.

### Erasure

One LinkedIn profile's photo: an object in R2 or in the local asset cache
(`objects`), the `photo_cache` row that names it (`row`), the Redis copy of that
row (`cache`). `scrape[s]` is a job of the profile in `LinkedInPhotoEnricher`
and `PhotoCache`: read Redis, read SQL and backfill, or browse, upload (with the
local fallback outside production), `session.merge` (a SELECT, then an UPDATE
of the columns that differ, or an INSERT) and the Redis write. `call[c]` is an
opt-out or a DSAR request: `process_dsar` with its two commits, the purge's
SELECT, object deletion, row deletion under a row lock, Redis deletion, and the
one commit of purge and audit events. `dsar` and `audit` are the committed
records. Every step may fail where the code can: Redis, R2 (before or after it
took effect), a statement of the database, the process.

Two details decide what survives: the purge looks in Redis only when it found
the SQL row, and a row loaded by `merge` may have changed before its UPDATE.
`late` says which of row and key has been written since the opt-out was listed,
`missed` that Redis refused a deletion; both are history. `late` is about the
write, not about what is written: a scrape that read the row before the opt-out
copies it to Redis whenever it gets there.

### JobLife and JobWatch

`JobLife` says which status may follow which (`Before`), that a final status is
published only with the write that stores it, and the one exception
(`AnnounceOvertakenFailure`: a run that fails on a row it loaded as failed
leaves the status column alone and publishes `failed` over a purge).

`JobWatch` adds the console's enrich page. `conn` is where the current
connection of `subscribeToJobEvents` stands: the route's status read, its
subscription to the Redis channel, the stream with its pings up to
`max_seconds`, the end, the timer, and the three ways the watch is over (told,
given up, page left). Pub/sub reaches only streams subscribed at that moment
(`inbox`); a published status is final, so the first message ends the stream.
`view` and `polling` are React Query's polling of `GET /enrich/{id}`, which an
event restarts. `Break` and `PollFails` are everything that fails between
browser and server.

### Throttles

`check_rate_limit` for any callers and scopes, and GitRecon's use of it with its
cooldown: INCR, then EXPIRE by the call that got 1, the comparison with the
limit, the call, and the cooldown key set after GitHub's refusal. A Redis
error lets the call through, whether or not the command was executed; a death
between INCR and EXPIRE leaves a key without expiry (`lost`). `WindowEnds` is
the expiry. `cleared`, `opened` and `started` are history.

### Dossier

One request from validation to final status. The enrichers of a tier answer in
any order (`asyncio.gather`), each with a fragment out of a small set, or an
empty one when it does not apply, fails, or finds nothing; `EndTier` collects
them in registry order. Then `CollectCandidates` and the verifier chain
(`Verdict`) for tier 3, `MergePayloads`, the disambiguator one handle at a time,
and the status. The merge, the deduplication and the choice of addresses are the
code's algorithms over small data: a handle is a platform, a user and a
confidence, an e-mail an address and whether it is spelled in capitals, a job
row a key and how detailed its location is. The loops of `merge_payloads` are
one recursive function, `Survivors`, over the positions of a list: an entry with
a new key is appended, one of a known key with a higher rank replaces it in
place (`Put`). The rank is the confidence of a handle, the detail of a job's
location, and the same for all e-mails, verdicts and URLs. `VerifierRaises` and `JudgeRaises`
are the two exceptions that no handler below `execute_job` catches.

### MC and proof modules

`MC*.tla` define the instances. `*Proofs.tla` hold the theorems:
`EnrichmentJobsProofs` (types, opt-out and purge), `JobStatusProofs` (statuses,
events, recovery, the refinement), `SuppressionProofs`, `ErasureProofs`,
`ProfilePoolProofs`, `ThrottlesProofs`, `JobWatchProofs`, `DossierProofs`.
Definitions marked as
mutants are broken variants of the definition that follows them; they are used
only to confirm that a property can fail.

## Runs

| run | instance | what it shows |
|---|---|---|
| `jobs_faults` | 1 job naming 2 identifiers, 1 worker, every fault, 1 exception per run | `TypeOK`; opted-out identifiers are not enriched by any run that checks later (`NoDispatchAfterOptOut`); a status agrees with the dossier although two sessions write one column each (`StatusTellsDossier`); a published completion keeps its dossier until an opt-out (`AnnouncedDossierKept`); a committed purge leaves only what racing runs wrote, killed ones among them (`ErasedExceptRacing`); each job leads the life of `JobLife` (`ImplementsLife`) |
| `jobs_overlap` | 2 jobs sharing an identifier, 2 workers, 2 opt-outs, no faults | when two purges select and lock common rows, each still holds every dossier it must erase (`PurgeHoldsDossiers`), and a committed purge leaves only what racing runs wrote (`ErasedExceptRacing`) |
| `jobs_settle` | 1 job, 1 identifier, 3 exceptions per run, Redis failures, `FairSpec` | exceptions leave a job running only when the recovery session itself raised (`RunningHasExecutor`); a queued job is in the queue, or somebody is about to put it there, fail it or pick it up (`QueuedHasCarrier`); no other job stays queued or running (`EveryJobSettles`) |
| `jobs_purge_column` | no faults | violated: `PurgedIsEmpty` |
| `suppression_stores` | 2 identifiers, 3 adding calls (2 for one identifier), 2 checks, every fault | `TypeOK`, `CacheWithinList`, `ImplementsList` |
| `pool_workers` | 2 workers, 2 profiles, limit 1, 2 attempts, no faults, any number of requests and days | `TypeOK`; a counter exceeds its limit by at most the other workers (`OvershootBounded`); no browser is left running (`NoOrphanBrowser`) |
| `pool_faults` | 2 workers, 1 profile, 2 attempts, retries in a session, every fault | a counter accounts for every open session except where a late refund or the reset to zero ate a charge (`CounterCoversSessions`) |
| `photo_erasure` | 2 scrapes, an opt-out and a deletion or access request, R2 with local fallback, every fault, `FairSpec` | `TypeOK`; what is left in row or key after a purge was written there since the opt-out, by a scrape under way, or Redis refused to delete it (`ErasedExceptLate`); before it no copy names an object that was not stored (`CachedIsStored`); events, records and deeds agree (`RegisterAgrees`); a deletion that is not interrupted is completed (`DsarsEnd`) |
| `watch` | streams of 2 pings, 3 reconnections, 2 failures, `FairWatchSpec` | `TypeOK`; one toast at most (`ToldOnce`); a final status the console knows is shown although its event was missed (`EventuallyTold`); polling stops (`PollingEnds`) |
| `watch_no_data` | the same | violated: `EveryEndIsShown` |
| `throttles` | 2 GitRecon runs, 1 API request, limits 1 and 2, Redis failures and crashes, `FairSpec` | `TypeOK`; a counter loses its expiry only to a failure (`CounterExpires`); a cooldown is respected (`CooldownRespected`); a window keeps its budget (`BudgetPerWindow`) and ends (`WindowReopens`) |
| `dossier` | 8 requests, sync and worker path, free and full settings | `TypeOK`; the best version of each profile (`BestHandleKept`) and everything found (`FindsMerged`) is in the dossier; the verifier's budget (`VerifiedWithinBudget`) and verdicts (`VerdictsHold`) hold; handles are vouched for (`Vouched`); the status tells whether anything was found (`StatusTruthful`); every dispatch ends (`EveryDispatchEnds`) |

### Bounds, and why they are enough

*Jobs.* One job suffices for what happens within a job, since jobs interact only
through shared workers, shared purges and the list; `jobs_overlap` has two of
each for these, and no faults, which it does not need for its question. Two
identifiers give a request with an opt-out of either and purges that overlap;
`jobs_faults` is symmetric in them. `MaxErrors` is the only counter: one
exception per run with every other fault, three in `jobs_settle`: enough for one
in the run, one in `execute_job`'s handler and one in the recovery session,
which is as far as exceptions can go. An identifier's opt-out can be repeated without
bound. `jobs_settle` has only the failures the code has a remedy for: a job is
left queued or running by a death of the API between the commit of the row and
the enqueue, by a death of the worker, by an alarm on an idle loop, and by an
exception before the run's first commit (fault `early`).

*Suppression.* Two calls for one identifier are needed for the conflicting
insert, a third for a list that grows under a check of two identifiers.

*Pool.* The limit is 1 so that it is reached, and the loops are cut to two
attempts and one retry (3 and 2 in the code): the second pass is where the state
left by the first matters. Requests, days and cooldowns are unbounded. `Slack`
bounds how far failed Redis calls and crashes may take a counter beyond the
limit or below zero, which the code does not bound. `OvershootBounded` is
checked without Redis failures, as `acquire` then allows a profile unchecked,
and `NoOrphanBrowser` without crashes and launcher failures, after which nobody
stops the browser until its profile is tried again. Workers are symmetric.

*Photos.* Two scrapes and two requests give every pair that races: two merges,
a merge or a backfill against a purge, two purges of one row. A scrape can be
repeated; a request is made once. One extension is enough for the stores (the
keys of R2 and the local cache are the same text); the proofs cover several.

*Watch.* Two pings tell a young stream from an old one; three reconnections
against two failures leave one the properties may count on; the code's
`MAX_STREAM_SECONDS` and five attempts only make the same path longer.

*Throttles.* Limits 1 and 2 with `MaxCount` 2 let a scope be open, used up and
refused; beyond the limit a counter changes nothing but itself.

*Dossier.* The requests are the shapes that choose different paths: invalid
twice, every tier, the guessed addresses, a sync request without its browser, an
"e-mail" of the person that has no "@".
The answers are chosen so that two finders report one profile with different
confidences, two URLs share a platform label, one address comes in two
spellings, a job in three, a string listed as an e-mail is none, and `Cap` 2
leaves addresses out. The verifier's services and the model answer anything.

`CHECK_DEADLOCK FALSE` is in `photo_erasure`, where the two requests end, and
`dossier`, where the one request does. Everywhere else something can always
happen.

### Fairness

`EnrichmentJobs` asks strong fairness of the steps of a handler, a run, a
worker's dequeue and an opt-out: a process between two steps does go on, and the
steps that wait do so for row locks, which the database grants in turn, or for a
worker to become free. `Erasure` asks weak fairness of the steps of a request:
it waits for the lock of the other request only, which its holder gives up for
good. `JobWatch` asks it of the route, the client's timers and the poll.
`Throttles` asks it of a caller's steps and of the expiry of keys that have one.
`Dossier` asks it of the pipeline: every tool, sidecar and model call has a
timeout and a bounded number of retries. (One wait has none, the second
`communicate()` of `app/clients/process.py:40` after a kill, if a child of the
tool keeps the pipe; in a worker RQ's alarm ends it, a synchronous request has
no alarm. The model takes the kill to end the tool.) Nobody is obliged to post a
request, no job to finish by itself in `JobWatch`, and no fault is fair.
`ProfilePool` and `Suppression` have no liveness property: their loops are
bounded and nothing in them waits.

### What the violated runs mean

* `jobs_purge_column`: the purge of a row loaded with an empty dossier does not
  write the dossier column, so the worker's dossier survives with status
  `purged`, where the document says that matching rows get an empty payload
  (`backend/docs/LEGAL.md:49`).
* `watch_no_data`: the console does not know `completed_no_data`
  (`frontend/src/lib/enrich-events.ts:3`). Its event is ignored but resets the
  count of reconnections, the server closes the stream, and the client comes
  back two seconds later without end. The hook's comment promises a toast for
  each job that reaches a final status
  (`frontend/features/enrich/hooks/useJobCompletionToasts.ts:36`).

The models show more behaviour that a reader of the documents may not expect,
for which no run is kept:

* an alarm on an idle loop leaves a job `running`
  (`app/workers/tasks/enrichment.py:38` and `:46` count on `except Exception`);
  an exception before `mark_status(running)` commits leaves it `queued` with no
  queue entry;
* a job stays `running` for ever after two exceptions: `refresh` raises after
  `mark_status(running)` has committed, which nothing in `execute_job` catches,
  and the recovery session raises too (`app/workers/tasks/enrichment.py:62` only
  logs it). `RunningHasExecutor` and `EveryJobSettles` except exactly the jobs
  whose recovery raised;
* `app/modules/enrichment/job_events.py:73-75` claims that a job which finishes
  between the caller's read of the database and the subscription "gets one
  event and closes immediately instead of hanging on a missed publish". It does
  so only for a job that was final at the read. A publish that falls into the
  gap is missed: the stream pings to its limit (`MAX_STREAM_SECONDS`) and
  closes, and the console learns the end from its next connection, if it has
  one left. `EventuallyTold` holds by way of that reconnection;
* a run past its check stores a dossier after the purge (`LEGAL.md:14`);
  `ErasedExceptRacing` says that this is the only way;
* a refused start is taken for a leftover of a crashed session
  (`app/integrations/linkedin/client.py:147`), and the `finally` block ends the
  session in use;
* the counter can pass the daily limit (`backend/docs/TESTING_TIER1.md:250`);
  `OvershootBounded` is what holds instead. A view is refunded after the page was
  opened, so that it is not counted at all, and a retry after a failed download opens it again (`LEGAL.md:121`);
* the photo survives an opt-out where a scrape was under way: it can store the
  picture after the purge, and one that had read the SQL row before the opt-out
  writes that very row's copy to Redis behind the purge. A later opt-out finds
  no row, hence does not look in Redis, and the copy stays until its TTL
  (`LEGAL.md:14`, `app/compliance/purge.py:87`). `ErasedExceptLate` says that
  such writes, and deletions that Redis refused, are the only way;
* objects in R2 or the local cache may stay behind when a row is replaced by one
  of another extension, when the object of a failed upload was stored, and when
  a deletion fails: nothing remembers their keys;
* in free mode the heuristic keeps every handle of the finders that label a
  profile with the username asked for;
* a request may name any string as the person's address
  (`app/domain/enrichment.py:13`); one without an "@" is passed over in silence
  (`app/enrichers/pipeline.py:312-315`), so the list to verify then begins with
  another address, or with a guess;
* the guesses of `EmailDiscover` make a tier 3 request with a username or a
  company end as `completed` whatever is found; the e-mail score counts
  undeliverable addresses;
* a completion without content, or an address from which httpx cannot build a
  URL, fails the whole job, although provider failures are to be isolated
  (`docs/architecture-plan-azi-10-hyre-enrichment.md:358`).

## Proofs

All theorems hold for every value of the constants that the modules' assumptions
allow: any jobs, identifiers, workers, scrapes, requests, profiles, limits,
callers, tool outputs, and any set of faults unless one is excluded below. TLAPS checks them
from those assumptions alone. The properties are those of the runs, where TLC
evaluates the same definitions.

**Opt-out and purge** (`EnrichmentJobsProofs`): `TypeCorrect`,
`OptOutStopsDispatch`, `OptOutErasesExceptRacing`, `PurgesHoldDossiers`. The
last three come from one inductive invariant, `ErasureInv`. None is inductive
alone: that a commit erases depends on what the handler's SELECT loaded steps
earlier, since a column that was loaded empty is not written. So
`PurgeHoldsDossiers` says that between SELECT and commit every dossier in a row
of the identifier is either among the loaded ones or due to a racing run, and
`SuppressedBeforePurge` that the identifier is already on the list by then. The
step lemmas follow the argument: a dossier appears in a row only from a run past
its check; a run passes its check only while its identifiers are off the list;
the list only grows and records the racing runs as it does; how an opt-out
moves; what its commit erases.

**Statuses and events** (`JobStatusProofs`): `StatusesTellDossiers`,
`AnnouncedDossiersKept`, `JobsImplementLife`, and under exclusions
`RunningTended` (no crash, no alarm; any number of exceptions, jobs given up by
a recovery session that raised excepted) and `QueuedCarried`
(no crash, no alarm, nothing `early`). The invariant `LifeInv` has one part per
fact about a job: it is in one place only, the queue, a handler or a run
(`OnePlace`, with a queue of distinct ids); a run carries no outcome before its
dispatch; what a run's session loaded is still in the row, or was replaced in
one of the few ways another session can (`SeenByRun`), and likewise for what a
purge loaded (`SeenByPurge`). From these follows what each column-wise UPDATE
leaves in the row, hence `StatusTells` and `Announced`, and, step by step, that
each action is a step of `JobLife` for every job or changes neither its status
nor its events. `Tended` counts the exceptions a run has left; `Carried` follows
a queued job from its handler through the queue to a run.

**Suppression** (`SuppressionProofs`): `StoresTyped`, `CacheStaysWithinList`,
and the refinement `StoresImplementList`. `StoresInv` adds that an adding call
at its Redis write has committed, and what an open check has learnt: the
identifiers it went past were not listed when it began.

**Photos and register** (`ErasureProofs`): `PhotosTyped`, `PurgeErasesPhotos`,
`RegisterIsTrue`, `CopiesNameObjects`. `PhotoInv` says why it is enough that the
purge looks in Redis only behind a row: an early copy in Redis has an early row
beside it, or Redis refused a deletion (`CopyHasRow`), and a purge that has gone
past a store has dealt with what it held (`PurgeCoversCopies`). Early means
written before the opt-out was listed: a scrape under way may still add to a
store what it holds. `RegisterInv`
relates each request's stage to its record and events (`DsarStage`).
`CopiesNameObjects` adds what each scrape holds: its photo's object is stored by
the time it merges (`PhotosStored`), and no object goes before the opt-out.

**Pool** (`ProfilePoolProofs`): `PoolTypeCorrect`, `PoolCovers`, and under
exclusions `PoolOvershoot` (Redis answers) and `PoolStopsBrowsers` (no crash, no
launcher failure, `quit` fails only on a dead browser). The overshoot is not
inductive: between check and INCR a worker owes a view no counter shows, and
`Room` counts it. `PoolCovers` needs that a session is charged after it chose
its profile and gives the charge up before it chooses again (`Uncharged`).
`PoolStopsBrowsers` rests on what a step may do to browsers (`BrowserMoves`):
start one under a free profile of its own, stop its own profile, or keep.

**Throttles** (`ThrottlesProofs`): `ThrottlesTypeCorrect`, `CountersExpire`,
`CooldownIsRespected`, `BudgetsHold`. The budget becomes inductive when calls
admitted and not yet begun are counted with those begun, against what the
counter has admitted (`BudgetInv`).

**Watch** (`JobWatchProofs`): `WatchTypeCorrect`, `WatchersToldOnce`, with
`ToastEnds`: there is no toast, or exactly one and the watch is over.

**Dossier** (`DossierProofs`): `InvariantAlways`, and from it `TypesHold`,
`BestHandleAlwaysKept`, `FindsAlwaysMerged`, `BudgetAlwaysKept`,
`VerdictsAlwaysHold`, `AlwaysVouched` and `StatusAlwaysTruthful`: every invariant
of the run, for lists of any length, any cap, threshold and opinions. The
properties speak of the answers (`Offered`), the steps of payloads, and the
argument joins them in three layers.

1. *Loops.* What `Survivors` and `FlattenSeq` compute. Both are recursive
   functions of a number, and the library's induction theorems, which take an
   operator, cannot be used; `SetInduction` derives induction for a *set* of
   numbers from the least number outside it, and `LoopExists` from that the
   sequence of an accumulator's values. `Listing` is the loop invariant of the
   merges: after m entries the list has one position per key, of the best entry
   so far, the first of equals, and the first key in front. `PutListing` shows
   that a round keeps it. `HandlesMerged`, `EmailsMerged`, `JobsMerged` and
   `CandidatesFacts` say what this means for each list.
2. *Payloads.* `FlattenConcat` and `FlattenMember` carry what the enrichers
   answered through two levels of lists: `PayloadsOffered` shows that what is
   merged is what was offered, in registry order, with nothing lost, doubled or
   moved by the fragment the verification adds in the middle.
3. *Steps.* The inductive invariant adds to the properties where the pipeline
   is and who has answered by then (`PlaceInv`), that an answer with something
   in it names its enricher (`AnswersInv`), that at each stage the payloads are
   the shares of the stages passed (`PayloadsInv`), what the candidates were
   taken from (`CandidatesInv`), and what was judged so far (`JudgedInv`). One
   lemma per action. `AtJudge` and `NothingFound` carry `StatusTruthful` and
   `Vouched` over the last step: the status is computed after handles were
   dropped, and is right because the sources were merged before.

The invariant also holds on the instance of run `dossier`, where TLC checked it
before the proof.

Only model-checked: the liveness properties `EveryJobSettles`, `DsarsEnd`,
`EventuallyTold`, `PollingEnds`, `WindowReopens` and `EveryDispatchEnds`, which
rest on fairness and `ENABLED`, out of the provers' reach. Every other property
of a passing run is the subject of a theorem. No module has a `RECURSIVE`
operator.

## Not modelled

* *Identifier normalisation* (`app/compliance/identifiers.py`, LinkedIn URLs):
  it turns one text into another and keeps no state; the models start from the
  identifiers it yields.
* *Per-tier queues* (`worker_queue_mode`): the queue of `EnrichmentJobs` is the
  single one. `enrich_async` passes no tiers on, so in the other mode all jobs
  share the `tier1` queue.
* *Parsing of tool output, prompts, evidence texts*: represented by the
  fragments and answers they yield. The token cache of the Multilogin client is
  in the outcome of a launcher call.
* *Change signals*: a webhook that stores one row and sends one message.
* *Migrations*: run by a service of their own before the API and the workers.
* *Health, metrics, error tracking, application core, the BFF's envelopes*:
  report or translate, and change no state of the parts above.
* *Frontend*: the views render; the job panel in local storage and the unused
  `useEnrichmentJob` hook are not followed.
* *Deployment, scripts, load tests*: a large part of the repository's lines are
  probes, canaries, end-to-end scripts that drive the system from outside, a
  stray worktree copy and rendering code, and the map leaves them out.

The list of parts, with their status, is under `components` in `PROJECT.json`.
