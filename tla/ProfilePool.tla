----------------------------- MODULE ProfilePool -----------------------------
(***************************************************************************)
(* Tier 1 scrapes a LinkedIn photo with a browser profile taken from a     *)
(* pool (integrations/multilogin/profile_pool.py) that the worker          *)
(* processes share: Redis counts each profile's views of the day and holds *)
(* the cooldowns, and the Multilogin launcher runs one browser per         *)
(* profile.  A worker runs one job at a time, so one scrape                *)
(* (integrations/linkedin/client.py); its semaphore is never contended.    *)
(***************************************************************************)
EXTENDS Integers, FiniteSets

CONSTANTS Worker,      \* worker processes that run Tier 1
          NoWorker,    \* no browser runs the profile
          Size,        \* profiles in the configured folder
          Limit,       \* MULTILOGIN_DAILY_VIEW_LIMIT
          Attempts,    \* max_profile_attempts: 3 in the code
          Retries,     \* same_profile_retries: 2 in the code
          Faults,      \* which kinds of failure this instance exhibits
          Slack        \* bound: how far failing Redis calls and crashes
                       \* take a counter above Limit or below 0

FaultKind == {"crash",    \* a worker is killed
              "redis",    \* a Redis call raises
              "launcher", \* a Multilogin call raises
              "quit"}     \* driver.quit() raises although its browser runs

ASSUME ProfilePoolAssumption ==
    /\ IsFiniteSet(Worker) /\ Worker # {}
    /\ NoWorker \notin Worker
    /\ Size \in Nat \ {0}
    /\ Limit \in Nat \ {0}
    /\ Attempts \in Nat \ {0}
    /\ Retries \in Nat
    /\ Faults \subseteq FaultKind
    /\ Slack \in Nat

(* A profile is its position in the list that every process fetches.       *)
Profile == 1 .. Size

VARIABLES views,   \* the counter of each profile under today's key
          cooling, \* profiles whose cooldown key exists
          browser, \* the worker whose start_profile runs each profile
          worker   \* where the scrape of each worker stands

VARIABLE slipped \* history: profiles whose counter lost a charge of today

vars == <<views, cooling, browser, worker, slipped>>

Outcome == {"success", "captcha", "auth_required", "rate_limited",
            "not_found", "no_image", "temporary_failure"}
Refunded == {"captcha", "auth_required", "rate_limited", "temporary_failure"}
Cooled   == {"captcha", "auth_required", "rate_limited"}
Repeated == {"auth_required", "rate_limited", "temporary_failure"}

Pc == {"idle", "cooldown", "views", "charge", "start", "connect", "login",
       "visit", "download", "rest", "refund", "clamp", "quit", "stop", "next"}

(* rr: the pool's _rr_index.  tried: profiles acquire() has looked at.     *)
(* History: charged, whether today's counter holds this session's view.    *)
Scrape == [pc      : Pc,
           rr      : 0 .. Size - 1,
           tried   : 0 .. Size,
           profile : Profile,
           attempt : 0 .. Attempts - 1,
           retry   : 0 .. Retries,
           driver  : BOOLEAN,
           outcome : Outcome,
           charged : BOOLEAN]

(* Every job builds its own pipeline, and so its own pool: rr starts at 0. *)
Idle == [pc |-> "idle", rr |-> 0, tried |-> 0, profile |-> 1, attempt |-> 0,
         retry |-> 0, driver |-> FALSE, outcome |-> "temporary_failure",
         charged |-> FALSE]

TypeOK ==
    /\ views \in [Profile -> Int]
    /\ cooling \subseteq Profile
    /\ browser \in [Profile -> Worker \cup {NoWorker}]
    /\ worker \in [Worker -> Scrape]
    /\ slipped \subseteq Profile

Init ==
    /\ views = [p \in Profile |-> 0]
    /\ cooling = {}
    /\ browser = [p \in Profile |-> NoWorker]
    /\ worker = [w \in Worker |-> Idle]
    /\ slipped = {}

(* The browser that w started under p, and has not given up, is running.   *)
Live(w, p) == /\ browser[p] = w
              /\ worker[w].profile = p
              /\ worker[w].pc \in {"connect", "login", "visit", "download",
                                   "rest", "refund", "clamp", "quit", "stop"}

At(w, pc) == worker[w].pc = pc
Goto(w, pc) == worker' = [worker EXCEPT ![w].pc = pc]

-----------------------------------------------------------------------------
(* acquire                                                                 *)

BeginScrape(w) ==
    /\ At(w, "idle")
    /\ Goto(w, "cooldown")
    /\ UNCHANGED <<views, cooling, browser, slipped>>

(* No profile, or no list of profiles: the attempt ends as a temporary     *)
(* failure with nothing to release, refund or stop.                        *)
AcquireFails(w) ==
    /\ At(w, "cooldown")
    /\ worker[w].tried = Size \/ (worker[w].tried = 0 /\ "launcher" \in Faults)
    /\ worker' = [worker EXCEPT ![w].pc = "next",
                                ![w].outcome = "temporary_failure"]
    /\ UNCHANGED <<views, cooling, browser, slipped>>

Candidate(w) == worker[w].rr + 1

(* The loop moves the index on before it asks whether the candidate is     *)
(* eligible: a candidate is looked at, then passed over or charged.        *)
(* (A mutant forgets to wrap the index around.)                            *)
PassOverUnwrapped(w) ==
    worker' = [worker EXCEPT ![w].pc = "cooldown",
                             ![w].rr = worker[w].rr + 1,
                             ![w].tried = worker[w].tried + 1]

PassOver(w) ==
    worker' = [worker EXCEPT ![w].pc = "cooldown",
                             ![w].rr = (worker[w].rr + 1) % Size,
                             ![w].tried = worker[w].tried + 1]

Choose(w) ==
    worker' = [worker EXCEPT ![w].pc = "charge",
                             ![w].rr = (worker[w].rr + 1) % Size,
                             ![w].tried = 0,
                             ![w].profile = Candidate(w)]

ReadCooldown(w) ==
    /\ At(w, "cooldown") /\ worker[w].tried < Size
    /\ \/ Candidate(w) \in cooling /\ PassOver(w)
       \/ Candidate(w) \notin cooling /\ Goto(w, "views")
    /\ UNCHANGED <<views, cooling, browser, slipped>>

(* (A mutant lets a profile at its limit through.)                         *)
HasViewsLeftAtLimit(p) == views[p] <= Limit

HasViewsLeft(p) == views[p] < Limit

ReadViews(w) ==
    /\ At(w, "views")
    /\ \/ HasViewsLeft(Candidate(w)) /\ Choose(w)
       \/ ~HasViewsLeft(Candidate(w)) /\ PassOver(w)
    /\ UNCHANGED <<views, cooling, browser, slipped>>

(* Either read of _is_eligible raises: the profile is allowed.             *)
AllowUnchecked(w) ==
    /\ "redis" \in Faults
    /\ At(w, "views") \/ (At(w, "cooldown") /\ worker[w].tried < Size)
    /\ views[Candidate(w)] < Limit + Slack
    /\ Choose(w)
    /\ UNCHANGED <<views, cooling, browser, slipped>>

(* (A mutant stops counting at the limit.)                                 *)
IncrementedToLimit(p) ==
    [views EXCEPT ![p] = IF views[p] < Limit THEN views[p] + 1 ELSE views[p]]

Incremented(p) == [views EXCEPT ![p] = views[p] + 1]

ChargeView(w) ==
    /\ At(w, "charge")
    /\ views' = Incremented(worker[w].profile)
    /\ worker' = [worker EXCEPT ![w].pc = "start", ![w].charged = TRUE]
    /\ UNCHANGED <<cooling, browser, slipped>>

(* The INCR raises: the profile is used uncounted.                         *)
ChargeFails(w) ==
    /\ "redis" \in Faults
    /\ At(w, "charge")
    /\ Goto(w, "start")
    /\ UNCHANGED <<views, cooling, browser, slipped>>

-----------------------------------------------------------------------------
(* The session                                                             *)

(* An exception in the session: a temporary failure, nothing to cool down, *)
(* and a refund whatever the session has done.                             *)
Raise(w) ==
    worker' = [worker EXCEPT ![w].pc = "refund",
                             ![w].outcome = "temporary_failure"]

(* The launcher refuses to start a profile that is running.                *)
StartProfile(w) ==
    /\ At(w, "start")
    /\ LET p == worker[w].profile IN
       \/ /\ browser[p] = NoWorker
          /\ browser' = [browser EXCEPT ![p] = w]
          /\ Goto(w, "connect")
       \/ /\ browser[p] # NoWorker
          /\ Raise(w)
          /\ UNCHANGED browser
    /\ UNCHANGED <<views, cooling, slipped>>

(* get_token or start_profile raises, before or after the browser started. *)
StartFails(w) ==
    /\ "launcher" \in Faults
    /\ At(w, "start")
    /\ LET p == worker[w].profile IN
       \/ UNCHANGED browser
       \/ browser[p] = NoWorker /\ browser' = [browser EXCEPT ![p] = w]
    /\ Raise(w)
    /\ UNCHANGED <<views, cooling, slipped>>

Connect(w) ==
    /\ At(w, "connect")
    /\ \/ /\ Live(w, worker[w].profile)
          /\ worker' = [worker EXCEPT ![w].pc = "login", ![w].driver = TRUE]
       \/ Raise(w)
    /\ UNCHANGED <<views, cooling, browser, slipped>>

(* What _scrape_with_profile does with an outcome it will not retry.       *)
Conclude(w, outcome) ==
    worker' = [worker EXCEPT ![w].outcome = outcome,
                             ![w].pc = IF outcome \in Cooled THEN "rest"
                                       ELSE IF outcome \in Refunded THEN "refund"
                                       ELSE "quit"]

Again(scrape) == [scrape EXCEPT !.pc = "login", !.retry = scrape.retry + 1]

(* login_linkedin: a valid session, or a sign-in.  A browser that died     *)
(* under the driver shows as an exception, or as a failed sign-in.         *)
Login(w) ==
    /\ At(w, "login")
    /\ \/ Live(w, worker[w].profile) /\ Goto(w, "visit")
       \/ /\ Live(w, worker[w].profile)
          /\ \E o \in Cooled \cup {"not_found"} : Conclude(w, o)
       \/ /\ worker[w].retry < Retries
          /\ worker' = [worker EXCEPT ![w] = Again(worker[w])]
       \/ /\ worker[w].retry = Retries
          /\ Conclude(w, "temporary_failure")
       \/ Raise(w)
    /\ UNCHANGED <<views, cooling, browser, slipped>>

(* driver.get(linkedin_url), and what the page turns out to be.            *)
VisitPage(w) ==
    /\ At(w, "visit")
    /\ Live(w, worker[w].profile)
    /\ \/ Goto(w, "download")
       \/ \E o \in Cooled \cup {"not_found", "no_image"} : Conclude(w, o)
       \/ Raise(w)
    /\ UNCHANGED <<views, cooling, browser, slipped>>

BrowserGone(w) ==
    /\ At(w, "visit")
    /\ ~Live(w, worker[w].profile)
    /\ Raise(w)
    /\ UNCHANGED <<views, cooling, browser, slipped>>

(* download_image fetches the picture without the browser; a failure       *)
(* scrapes the page again.  The last one is neither cooled nor refunded.   *)
Download(w) ==
    /\ At(w, "download")
    /\ \/ worker' = [worker EXCEPT ![w].pc = "quit", ![w].outcome = "success"]
       \/ /\ worker[w].retry < Retries
          /\ worker' = [worker EXCEPT ![w] = Again(worker[w])]
       \/ /\ worker[w].retry = Retries
          /\ worker' = [worker EXCEPT ![w].pc = "quit",
                                      ![w].outcome = "temporary_failure"]
       \/ Raise(w)
    /\ UNCHANGED <<views, cooling, browser, slipped>>

-----------------------------------------------------------------------------
(* release, refund_view and the finally block                              *)

CoolDown(w) ==
    /\ At(w, "rest")
    /\ \/ cooling' = cooling \cup {worker[w].profile}
       \/ "redis" \in Faults /\ UNCHANGED cooling
    /\ Goto(w, "refund")
    /\ UNCHANGED <<views, browser, slipped>>

Closing(w) == IF worker[w].driver THEN "quit" ELSE "stop"

(* DECR of today's key, whichever day the view was charged on.             *)
RefundView(w) ==
    /\ At(w, "refund")
    /\ LET p == worker[w].profile IN
       /\ views' = [views EXCEPT ![p] = views[p] - 1]
       /\ worker' = [worker EXCEPT
                        ![w].pc = IF views[p] - 1 < 0 THEN "clamp" ELSE Closing(w),
                        ![w].charged = FALSE]
       /\ slipped' = IF worker[w].charged THEN slipped ELSE slipped \cup {p}
    /\ UNCHANGED <<cooling, browser>>

(* The counter went below zero: SET to 0, over what others counted since.  *)
ClampViews(w) ==
    /\ At(w, "clamp")
    /\ views' = [views EXCEPT ![worker[w].profile] = 0]
    /\ Goto(w, Closing(w))
    /\ slipped' = slipped \cup {worker[w].profile}
    /\ UNCHANGED <<cooling, browser>>

RefundFails(w) ==
    /\ "redis" \in Faults
    /\ At(w, "refund") \/ At(w, "clamp")
    /\ views[worker[w].profile] > -Slack
    /\ Goto(w, Closing(w))
    /\ UNCHANGED <<views, cooling, browser, slipped>>

QuitDriver(w) ==
    /\ At(w, "quit")
    /\ Goto(w, "stop")
    /\ UNCHANGED <<views, cooling, browser, slipped>>

(* quit() raises out of the finally block: the profile is not stopped, and *)
(* the request ends without its result.                                    *)
QuitRaises(w) ==
    /\ At(w, "quit")
    /\ "quit" \in Faults \/ ~Live(w, worker[w].profile)
    /\ worker' = [worker EXCEPT ![w] = Idle]
    /\ UNCHANGED <<views, cooling, browser, slipped>>

Close(w) ==
    worker' = [worker EXCEPT ![w] = [Idle EXCEPT !.pc = "next",
                                                 !.rr = worker[w].rr,
                                                 !.attempt = worker[w].attempt,
                                                 !.outcome = worker[w].outcome]]

(* (A mutant stops only a profile whose driver connected.)                 *)
StopProfileIfDriven(w) ==
    /\ At(w, "stop")
    /\ browser' = IF worker[w].driver
                  THEN [browser EXCEPT ![worker[w].profile] = NoWorker]
                  ELSE browser
    /\ Close(w)
    /\ UNCHANGED <<views, cooling, slipped>>

(* The profile is stopped whoever started it.                              *)
StopProfile(w) ==
    /\ At(w, "stop")
    /\ browser' = [browser EXCEPT ![worker[w].profile] = NoWorker]
    /\ Close(w)
    /\ UNCHANGED <<views, cooling, slipped>>

(* The stop is refused, or its answer is lost.  A MultiloginError is       *)
(* logged; any other exception ends the request.                           *)
StopFails(w) ==
    /\ "launcher" \in Faults
    /\ At(w, "stop")
    /\ \/ UNCHANGED browser
       \/ browser' = [browser EXCEPT ![worker[w].profile] = NoWorker]
    /\ Close(w) \/ worker' = [worker EXCEPT ![w] = Idle]
    /\ UNCHANGED <<views, cooling, slipped>>

(* scrape_photo: another profile, or the end of the request.               *)
HasAttemptsLeft(w) == worker[w].attempt + 1 < Attempts

NextAttempt(w) ==
    /\ At(w, "next")
    /\ worker[w].outcome \in Repeated /\ HasAttemptsLeft(w)
    /\ worker' = [worker EXCEPT ![w] =
           [Idle EXCEPT !.pc = "cooldown",
                        !.rr = worker[w].rr,
                        !.attempt = worker[w].attempt + 1]]
    /\ UNCHANGED <<views, cooling, browser, slipped>>

EndScrape(w) ==
    /\ At(w, "next")
    /\ ~(worker[w].outcome \in Repeated /\ HasAttemptsLeft(w))
    /\ worker' = [worker EXCEPT ![w] = Idle]
    /\ UNCHANGED <<views, cooling, browser, slipped>>

-----------------------------------------------------------------------------

Crash(w) ==
    /\ "crash" \in Faults
    /\ worker[w].pc # "idle"
    /\ At(w, "clamp") => views[worker[w].profile] > -Slack
    /\ worker' = [worker EXCEPT ![w] = Idle]
    /\ UNCHANGED <<views, cooling, browser, slipped>>

CooldownExpires(p) ==
    /\ p \in cooling
    /\ cooling' = cooling \ {p}
    /\ UNCHANGED <<views, browser, worker, slipped>>

(* The key of the counters names the day; yesterday's are not read again.  *)
Midnight ==
    /\ \E p \in Profile : views[p] # 0
    /\ views' = [p \in Profile |-> 0]
    /\ worker' = [w \in Worker |-> [worker[w] EXCEPT !.charged = FALSE]]
    /\ slipped' = {}
    /\ UNCHANGED <<cooling, browser>>

Acquire(w) ==
    \/ AcquireFails(w) \/ ReadCooldown(w) \/ ReadViews(w) \/ AllowUnchecked(w)
    \/ ChargeView(w) \/ ChargeFails(w)

Session(w) ==
    \/ StartProfile(w) \/ StartFails(w) \/ Connect(w) \/ Login(w)
    \/ VisitPage(w) \/ BrowserGone(w) \/ Download(w)

Finish(w) ==
    \/ CoolDown(w) \/ RefundView(w) \/ ClampViews(w) \/ RefundFails(w)
    \/ QuitDriver(w) \/ QuitRaises(w) \/ StopProfile(w) \/ StopFails(w)
    \/ NextAttempt(w) \/ EndScrape(w)

Next ==
    \/ \E w \in Worker : \/ BeginScrape(w)
                         \/ Acquire(w) \/ Session(w) \/ Finish(w)
                         \/ Crash(w)
    \/ \E p \in Profile : CooldownExpires(p)
    \/ Midnight

Spec == Init /\ [][Next]_vars

-----------------------------------------------------------------------------
(* Properties                                                              *)

(* The check of the counter and its INCR are two calls, so workers that    *)
(* check together may take a profile over its limit, but by no more than   *)
(* one view each beyond the first, whatever refunds, clamps and changes of *)
(* day come between (acquire, refund_view).                                *)
OvershootBounded ==
    \A p \in Profile : views[p] <= Limit + Cardinality(Worker) - 1

(* Today's counter accounts for every session charged today and still      *)
(* open, except where a refund of an uncounted view, or the clamp, ate a   *)
(* charge of another session.                                              *)
Charged(p) == {w \in Worker : worker[w].charged /\ worker[w].profile = p}

CounterCoversSessions ==
    \A p \in Profile \ slipped : views[p] >= Cardinality(Charged(p))

(* When every call of the launcher works, a running browser belongs to a   *)
(* session that will stop it, although workers stop each other's browsers  *)
(* and drivers fail under them (the finally block of _scrape_with_profile). *)
NoOrphanBrowser ==
    \A p \in Profile : browser[p] # NoWorker => Live(browser[p], p)

=============================================================================
