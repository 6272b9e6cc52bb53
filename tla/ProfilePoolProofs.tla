-------------------------- MODULE ProfilePoolProofs --------------------------
(***************************************************************************)
(* Proofs about ProfilePool, for every set of workers, pool and limit: its *)
(* type invariant, the overshoot, what a counter covers, and that browsers *)
(* do not outlive their sessions.                                          *)
(***************************************************************************)
EXTENDS ProfilePool, FiniteSetTheorems, TLAPS

USE DEF Profile, At, Goto

(* A worker that reads a counter has a profile left to look at.            *)
LooksAtOne == \A w \in Worker : At(w, "views") => worker[w].tried < Size

TypeInv == TypeOK /\ LooksAtOne

(* The pool's index wraps around inside the list (acquire).                *)
LEMMA IndexWraps ==
    ASSUME NEW r \in 0 .. Size - 1
    PROVE  (r + 1) % Size \in 0 .. Size - 1
<1>1. Size \in Nat \ {0}
  BY ProfilePoolAssumption
<1>2. CASE r + 1 = Size
  BY <1>1, <1>2
<1>3. CASE r + 1 # Size
  BY <1>1, <1>3
<1> QED BY <1>2, <1>3

LEMMA IdleTypes == Idle \in Scrape
BY ProfilePoolAssumption DEF Idle, Scrape, Pc, Outcome

(* A step that chooses a profile to charge, which has views left unless    *)
(* Redis failed to say.                                                    *)
Chooses(w) == /\ Choose(w)
              /\ HasViewsLeft(Candidate(w)) \/ "redis" \in Faults
              /\ views' = views

(* What a step of worker w leaves behind: a well-formed scrape of w, which *)
(* is about to charge a profile only when the step chose it.               *)
ScrapeOf(w) ==
    \E s \in Scrape : /\ worker' = [worker EXCEPT ![w] = s]
                      /\ s.pc = "views" => s.tried < Size
                      /\ s.pc = "charge" => Chooses(w)

LEMMA OneScrapeTypes ==
    ASSUME TypeInv, NEW w \in Worker, ScrapeOf(w)
    PROVE  worker' \in [Worker -> Scrape] /\ LooksAtOne'
<1>1. worker \in [Worker -> Scrape]
  BY DEF TypeInv, TypeOK
<1>2. PICK s \in Scrape : /\ worker' = [worker EXCEPT ![w] = s]
                          /\ s.pc = "views" => s.tried < Size
  BY DEF ScrapeOf
<1>3. worker' \in [Worker -> Scrape]
  BY <1>1, <1>2
<1>4. \A v \in Worker : worker'[v] = IF v = w THEN s ELSE worker[v]
  BY <1>1, <1>2
<1>5. LooksAtOne'
  BY <1>2, <1>4 DEF TypeInv, LooksAtOne
<1> QED BY <1>3, <1>5

LEMMA GotoTypes ==
    ASSUME TypeInv, NEW w \in Worker, NEW pc \in Pc \ {"charge"}, Goto(w, pc),
           pc = "views" => worker[w].tried < Size
    PROVE  ScrapeOf(w)
<1> DEFINE t == [worker[w] EXCEPT !.pc = pc]
<1>1. worker \in [Worker -> Scrape]
  BY DEF TypeInv, TypeOK
<1>2. /\ t \in Scrape /\ t.pc # "charge"
      /\ t.pc = "views" => t.tried < Size
  BY <1>1 DEF Scrape
<1>3. worker' = [worker EXCEPT ![w] = t]
  BY <1>1
<1> QED BY <1>2, <1>3 DEF ScrapeOf

(* acquire: the worker's own record stays well formed.                     *)
LEMMA AcquireTypes ==
    ASSUME TypeInv, NEW w \in Worker, Acquire(w)
    PROVE  ScrapeOf(w)
<1> DEFINE s == worker[w]
<1>1. /\ worker \in [Worker -> Scrape] /\ s \in Scrape
      /\ Size \in Nat \ {0}
      /\ s.pc = "views" => s.tried < Size
  BY ProfilePoolAssumption DEF TypeInv, TypeOK, LooksAtOne
<1>2. /\ (s.rr + 1) % Size \in 0 .. Size - 1
      /\ Candidate(w) \in Profile
  BY <1>1, IndexWraps DEF Scrape, Candidate
<1>r. PICK r \in 0 .. Size - 1 : r = (s.rr + 1) % Size
  BY <1>2
<1>c. PICK c \in Profile : c = Candidate(w)
  BY <1>2
<1>3. ASSUME s.tried < Size, PassOver(w) PROVE ScrapeOf(w)
  <2>n. PICK n \in 0 .. Size : n = s.tried + 1
    BY <1>1, <1>3 DEF Scrape
  <2> DEFINE t == [s EXCEPT !.pc = "cooldown", !.rr = r, !.tried = n]
  <2>1. t \in Scrape /\ t.pc \notin {"views", "charge"}
    BY <1>1 DEF Scrape, Pc
  <2>2. worker' = [worker EXCEPT ![w] = t]
    BY <1>1, <1>3, <1>r, <2>n DEF PassOver
  <2> QED BY <2>1, <2>2 DEF ScrapeOf
<1>4. ASSUME Chooses(w) PROVE ScrapeOf(w)
  <2> DEFINE t == [s EXCEPT !.pc = "charge", !.rr = r, !.tried = 0,
                            !.profile = c]
  <2>n. 0 \in 0 .. Size
    BY <1>1
  <2>1. t \in Scrape /\ t.pc # "views"
    BY <2>n, <1>1 DEF Scrape, Pc
  <2>2. worker' = [worker EXCEPT ![w] = t]
    BY <1>1, <1>4, <1>r, <1>c DEF Chooses, Choose
  <2> QED BY <1>4, <2>1, <2>2 DEF ScrapeOf
<1>5. CASE AcquireFails(w)
  <2> DEFINE t == [s EXCEPT !.pc = "next", !.outcome = "temporary_failure"]
  <2>1. t \in Scrape /\ t.pc \notin {"views", "charge"}
    BY <1>1 DEF Scrape, Pc, Outcome
  <2>2. worker' = [worker EXCEPT ![w] = t]
    BY <1>1, <1>5 DEF AcquireFails
  <2> QED BY <2>1, <2>2 DEF ScrapeOf
<1>6. CASE ReadCooldown(w)
  <2>1. ASSUME Goto(w, "views") PROVE ScrapeOf(w)
    BY <1>1, <1>6, <2>1, GotoTypes DEF ReadCooldown, Pc
  <2> QED BY <1>3, <1>6, <2>1 DEF ReadCooldown
<1>7. CASE ReadViews(w)
  BY <1>1, <1>3, <1>4, <1>7 DEF ReadViews, Chooses
<1>8. CASE AllowUnchecked(w)
  BY <1>4, <1>8 DEF AllowUnchecked, Chooses
<1>9. CASE ChargeView(w)
  <2> DEFINE t == [s EXCEPT !.pc = "start", !.charged = TRUE]
  <2>1. t \in Scrape /\ t.pc \notin {"views", "charge"}
    BY <1>1 DEF Scrape, Pc
  <2>2. worker' = [worker EXCEPT ![w] = t]
    BY <1>1, <1>9 DEF ChargeView
  <2> QED BY <2>1, <2>2 DEF ScrapeOf
<1>10. CASE ChargeFails(w)
  BY <1>10, GotoTypes DEF ChargeFails, Pc
<1> QED BY <1>5, <1>6, <1>7, <1>8, <1>9, <1>10 DEF Acquire
(* The session: an exception, an outcome or another try of a well-formed   *)
(* scrape leaves a well-formed scrape.                                     *)
LEMMA RaiseTypes ==
    ASSUME TypeInv, NEW w \in Worker, Raise(w)
    PROVE  ScrapeOf(w)
<1> DEFINE t == [worker[w] EXCEPT !.pc = "refund", !.outcome = "temporary_failure"]
<1>1. worker \in [Worker -> Scrape]
  BY DEF TypeInv, TypeOK
<1>2. t \in Scrape /\ t.pc \notin {"views", "charge"}
  BY <1>1 DEF Scrape, Pc, Outcome
<1>3. worker' = [worker EXCEPT ![w] = t]
  BY <1>1 DEF Raise
<1> QED BY <1>2, <1>3 DEF ScrapeOf

LEMMA ConcludeTypes ==
    ASSUME TypeInv, NEW w \in Worker, NEW o \in Outcome, Conclude(w, o)
    PROVE  ScrapeOf(w)
<1>1. PICK pc \in {"rest", "refund", "quit"} :
          pc = IF o \in Cooled THEN "rest"
               ELSE IF o \in Refunded THEN "refund" ELSE "quit"
  OBVIOUS
<1> DEFINE t == [worker[w] EXCEPT !.outcome = o, !.pc = pc]
<1>2. worker \in [Worker -> Scrape]
  BY DEF TypeInv, TypeOK
<1>3. t \in Scrape /\ t.pc \notin {"views", "charge"}
  BY <1>2 DEF Scrape, Pc
<1>4. worker' = [worker EXCEPT ![w] = t]
  BY <1>1, <1>2 DEF Conclude
<1> QED BY <1>3, <1>4 DEF ScrapeOf

LEMMA AgainTypes ==
    ASSUME NEW s \in Scrape, s.retry < Retries
    PROVE  Again(s) \in Scrape /\ Again(s).pc \notin {"views", "charge"}
<1>1. PICK n \in 0 .. Retries : n = s.retry + 1
  BY ProfilePoolAssumption DEF Scrape
<1> DEFINE t == [s EXCEPT !.pc = "login", !.retry = n]
<1>2. t \in Scrape /\ t.pc \notin {"views", "charge"}
  BY DEF Scrape, Pc
<1> QED BY <1>1, <1>2 DEF Again

LEMMA SessionTypes ==
    ASSUME TypeInv, NEW w \in Worker, Session(w)
    PROVE  ScrapeOf(w)
<1> DEFINE s == worker[w]
<1>1. worker \in [Worker -> Scrape] /\ s \in Scrape
  BY DEF TypeInv, TypeOK
<1>2. CASE StartProfile(w)
  BY <1>1, <1>2, GotoTypes, RaiseTypes DEF StartProfile, Pc
<1>3. CASE StartFails(w)
  BY <1>1, <1>3, RaiseTypes DEF StartFails
<1>4. CASE Connect(w)
  <2> DEFINE t == [s EXCEPT !.pc = "login", !.driver = TRUE]
  <2>1. t \in Scrape /\ t.pc \notin {"views", "charge"}
    BY <1>1 DEF Scrape, Pc
  <2>2. ASSUME worker' = [worker EXCEPT ![w].pc = "login", ![w].driver = TRUE]
        PROVE  ScrapeOf(w)
    BY <1>1, <2>1, <2>2 DEF ScrapeOf
  <2> QED BY <1>1, <1>4, <2>2, RaiseTypes DEF Connect
<1>5. CASE Login(w)
  <2>1. CASE Goto(w, "visit")
    BY <2>1, GotoTypes DEF Pc
  <2>2. ASSUME NEW o \in Outcome, Conclude(w, o) PROVE ScrapeOf(w)
    BY <1>1, <2>2, ConcludeTypes
  <2>3. ASSUME s.retry < Retries, worker' = [worker EXCEPT ![w] = Again(s)]
        PROVE  ScrapeOf(w)
    BY <1>1, <2>3, AgainTypes DEF ScrapeOf
  <2>4. CASE Raise(w)
    BY <1>1, <2>4, RaiseTypes
  <2>5. Cooled \cup {"not_found", "temporary_failure"} \subseteq Outcome
    BY DEF Cooled, Outcome
  <2> QED BY <1>5, <2>1, <2>2, <2>3, <2>4, <2>5 DEF Login
<1>6. CASE VisitPage(w)
  <2>1. CASE Goto(w, "download")
    BY <2>1, GotoTypes DEF Pc
  <2>2. Cooled \cup {"not_found", "no_image"} \subseteq Outcome
    BY DEF Cooled, Outcome
  <2>3. Goto(w, "download") \/ (\E o \in Outcome : Conclude(w, o)) \/ Raise(w)
    BY <1>6, <2>2 DEF VisitPage
  <2> QED BY <2>1, <2>3, ConcludeTypes, RaiseTypes
<1>7. CASE BrowserGone(w)
  BY <1>1, <1>7, RaiseTypes DEF BrowserGone
<1>8. CASE Download(w)
  <2>1. ASSUME NEW o \in Outcome,
               worker' = [worker EXCEPT ![w].pc = "quit", ![w].outcome = o]
        PROVE  ScrapeOf(w)
    <3> DEFINE t == [s EXCEPT !.pc = "quit", !.outcome = o]
    <3>1. t \in Scrape /\ t.pc \notin {"views", "charge"}
      BY <1>1 DEF Scrape, Pc
    <3> QED BY <1>1, <2>1, <3>1 DEF ScrapeOf
  <2>2. ASSUME s.retry < Retries, worker' = [worker EXCEPT ![w] = Again(s)]
        PROVE  ScrapeOf(w)
    BY <1>1, <2>2, AgainTypes DEF ScrapeOf
  <2> QED BY <1>1, <1>8, <2>1, <2>2, RaiseTypes DEF Download, Outcome
<1> QED BY <1>2, <1>3, <1>4, <1>5, <1>6, <1>7, <1>8 DEF Session
LEMMA FinishTypes ==
    ASSUME TypeInv, NEW w \in Worker, Finish(w)
    PROVE  ScrapeOf(w)
<1> DEFINE s == worker[w]
<1>1. worker \in [Worker -> Scrape] /\ s \in Scrape
  BY DEF TypeInv, TypeOK
<1>a. ASSUME worker' = [worker EXCEPT ![w] = Idle] PROVE ScrapeOf(w)
  BY <1>a, IdleTypes DEF ScrapeOf, Idle
<1>b. ASSUME Close(w) PROVE ScrapeOf(w)
  <2> DEFINE t == [Idle EXCEPT !.pc = "next", !.rr = s.rr,
                               !.attempt = s.attempt, !.outcome = s.outcome]
  <2>1. t \in Scrape /\ t.pc \notin {"views", "charge"}
    BY <1>1, IdleTypes DEF Scrape, Pc
  <2> QED BY <1>b, <2>1 DEF Close, ScrapeOf
<1>c. Closing(w) \in Pc /\ Closing(w) \notin {"views", "charge"}
  BY DEF Closing, Pc
<1>2. CASE CoolDown(w)
  BY <1>2, GotoTypes DEF CoolDown, Pc
<1>3. CASE RefundView(w)
  <2>1. PICK pc \in Pc \ {"views", "charge"} :
            pc = IF views[s.profile] - 1 < 0 THEN "clamp" ELSE Closing(w)
    BY <1>c DEF Pc
  <2> DEFINE t == [s EXCEPT !.pc = pc, !.charged = FALSE]
  <2>2. t \in Scrape /\ t.pc \notin {"views", "charge"}
    BY <1>1 DEF Scrape
  <2>3. worker' = [worker EXCEPT ![w] = t]
    BY <1>1, <1>3, <2>1 DEF RefundView
  <2> QED BY <2>2, <2>3 DEF ScrapeOf
<1>4. CASE ClampViews(w)
  BY <1>4, <1>c, GotoTypes DEF ClampViews
<1>5. CASE RefundFails(w)
  BY <1>5, <1>c, GotoTypes DEF RefundFails
<1>6. CASE QuitDriver(w)
  BY <1>6, GotoTypes DEF QuitDriver, Pc
<1>7. CASE QuitRaises(w)
  BY <1>7, <1>a DEF QuitRaises
<1>8. CASE StopProfile(w)
  BY <1>8, <1>b DEF StopProfile
<1>9. CASE StopFails(w)
  BY <1>9, <1>a, <1>b DEF StopFails
<1>10. CASE NextAttempt(w)
  <2>1. PICK n \in 0 .. Attempts - 1 : n = s.attempt + 1
    BY <1>1, <1>10, ProfilePoolAssumption DEF NextAttempt, HasAttemptsLeft, Scrape
  <2> DEFINE t == [Idle EXCEPT !.pc = "cooldown", !.rr = s.rr, !.attempt = n]
  <2>2. t \in Scrape /\ t.pc \notin {"views", "charge"}
    BY <1>1, IdleTypes DEF Scrape, Pc
  <2> QED BY <1>10, <2>1, <2>2 DEF NextAttempt, ScrapeOf
<1>11. CASE EndScrape(w)
  BY <1>11, <1>a DEF EndScrape
<1> QED BY <1>2, <1>3, <1>4, <1>5, <1>6, <1>7, <1>8, <1>9, <1>10, <1>11 DEF Finish

LEMMA StepScrapes ==
    ASSUME TypeInv, NEW w \in Worker, BeginScrape(w) \/ Crash(w)
    PROVE  ScrapeOf(w)
<1>1. CASE BeginScrape(w)
  BY <1>1, GotoTypes DEF BeginScrape, Pc
<1>2. CASE Crash(w)
  BY <1>2, IdleTypes DEF Crash, ScrapeOf, Idle
<1> QED BY <1>1, <1>2

(* The shared state keeps its types, whatever a worker does.               *)
LEMMA SharedTypes ==
    ASSUME TypeInv, NEW w \in Worker,
           BeginScrape(w) \/ Acquire(w) \/ Session(w) \/ Finish(w) \/ Crash(w)
    PROVE  /\ views' \in [Profile -> Int]
           /\ cooling' \subseteq Profile
           /\ browser' \in [Profile -> Worker \cup {NoWorker}]
           /\ slipped' \subseteq Profile
<1>1. /\ views \in [Profile -> Int] /\ cooling \subseteq Profile
      /\ browser \in [Profile -> Worker \cup {NoWorker}]
      /\ slipped \subseteq Profile
      /\ worker[w].profile \in Profile
  BY DEF TypeInv, TypeOK, Scrape
<1>2. CASE BeginScrape(w) \/ Crash(w)
  BY <1>1, <1>2 DEF BeginScrape, Crash
<1>3. CASE Acquire(w)
  BY <1>1, <1>3 DEF Acquire, AcquireFails, ReadCooldown, ReadViews,
                    AllowUnchecked, ChargeView, ChargeFails, Incremented
<1>4. CASE Session(w)
  BY <1>1, <1>4 DEF Session, StartProfile, StartFails, Connect, Login,
                    VisitPage, BrowserGone, Download
<1>5. CASE Finish(w)
  BY <1>1, <1>5 DEF Finish, CoolDown, RefundView, ClampViews, RefundFails,
       QuitDriver, QuitRaises, StopProfile, StopFails, NextAttempt, EndScrape
<1> QED BY <1>2, <1>3, <1>4, <1>5

LEMMA InitTypes == Init => TypeInv
BY IdleTypes DEF Init, TypeInv, TypeOK, LooksAtOne, Idle

LEMMA StepTypes == TypeInv /\ [Next]_vars => TypeInv'
<1> SUFFICES ASSUME TypeInv, [Next]_vars PROVE TypeInv'
  OBVIOUS
<1>1. ASSUME NEW w \in Worker, ScrapeOf(w),
             BeginScrape(w) \/ Acquire(w) \/ Session(w) \/ Finish(w) \/ Crash(w)
      PROVE  TypeInv'
  BY <1>1, SharedTypes, OneScrapeTypes DEF TypeInv, TypeOK
<1>2. ASSUME NEW w \in Worker, BeginScrape(w) \/ Crash(w) PROVE TypeInv'
  BY <1>1, <1>2, StepScrapes
<1>3. ASSUME NEW w \in Worker, Acquire(w) PROVE TypeInv'
  BY <1>1, <1>3, AcquireTypes
<1>4. ASSUME NEW w \in Worker, Session(w) PROVE TypeInv'
  BY <1>1, <1>4, SessionTypes
<1>5. ASSUME NEW w \in Worker, Finish(w) PROVE TypeInv'
  BY <1>1, <1>5, FinishTypes
<1>7. ASSUME NEW p \in Profile, CooldownExpires(p) PROVE TypeInv'
  BY <1>7 DEF TypeInv, TypeOK, LooksAtOne, CooldownExpires
<1>8. CASE Midnight
  <2>1. \A w \in Worker : /\ [worker[w] EXCEPT !.charged = FALSE] \in Scrape
                          /\ worker'[w].pc = worker[w].pc
                          /\ worker'[w].tried = worker[w].tried
    BY <1>8 DEF TypeInv, TypeOK, Midnight, Scrape
  <2> QED BY <1>8, <2>1 DEF TypeInv, TypeOK, LooksAtOne, Midnight
<1>9. CASE UNCHANGED vars
  BY <1>9 DEF TypeInv, TypeOK, LooksAtOne, vars
<1> QED BY <1>2, <1>3, <1>4, <1>5, <1>7, <1>8, <1>9 DEF Next

(* The pool's state is well formed in every reachable state.               *)
THEOREM PoolTypeCorrect == Spec => []TypeOK
<1>1. Spec => []TypeInv
  BY InitTypes, StepTypes, PTL DEF Spec
<1>2. TypeInv => TypeOK
  BY DEF TypeInv
<1> QED BY <1>1, <1>2, PTL
-----------------------------------------------------------------------------
(* The overshoot: a worker that has passed the check but not yet counted   *)
(* its view is as good as counted.                                         *)
Waiting(p) == {w \in Worker : worker[w].pc = "charge" /\ worker[w].profile = p}

Room == \A p \in Profile :
            views[p] + Cardinality(Waiting(p)) <= Limit - 1 + Cardinality(Worker)

LEMMA WaitingSize ==
    ASSUME NEW p \in Profile
    PROVE  /\ IsFiniteSet(Waiting(p)) /\ Cardinality(Waiting(p)) \in Nat
           /\ IsFiniteSet(Waiting(p)') /\ Cardinality(Waiting(p)') \in Nat
           /\ Cardinality(Worker) \in Nat
           /\ Cardinality(Waiting(p)) <= Cardinality(Worker)
           /\ Cardinality(Waiting(p)') <= Cardinality(Worker)
<1>1. IsFiniteSet(Worker)
  BY ProfilePoolAssumption
<1>2. Waiting(p) \subseteq Worker /\ Waiting(p)' \subseteq Worker
  BY DEF Waiting
<1> QED BY <1>1, <1>2, FS_Subset, FS_CardinalityType

(* A counter that does not rise, or is reset, keeps its room while no      *)
(* worker comes to wait for it.                                            *)
LEMMA RoomKept ==
    ASSUME TypeInv, Room, NEW p \in Profile, views'[p] \in Int,
           views'[p] <= views[p] \/ views'[p] = 0,
           Waiting(p)' \subseteq Waiting(p)
    PROVE  views'[p] + Cardinality(Waiting(p)') <= Limit - 1 + Cardinality(Worker)
<1>1. Cardinality(Waiting(p)') <= Cardinality(Waiting(p))
  BY WaitingSize, FS_Subset
<1>2. views[p] \in Int /\ Limit \in Nat \ {0}
  BY ProfilePoolAssumption DEF TypeInv, TypeOK
<1> QED BY <1>1, <1>2, WaitingSize DEF Room

(* The counters fall, are reset, or count the view of a waiting worker.    *)
LEMMA CountersMove ==
    ASSUME TypeInv, NEW w \in Worker,
           BeginScrape(w) \/ Acquire(w) \/ Session(w) \/ Finish(w) \/ Crash(w)
    PROVE  \/ \A p \in Profile : views'[p] <= views[p] \/ views'[p] = 0
           \/ ChargeView(w)
<1>1. views \in [Profile -> Int] /\ worker[w].profile \in Profile
  BY DEF TypeInv, TypeOK, Scrape
<1>2. CASE UNCHANGED views
  BY <1>1, <1>2
<1>3. CASE RefundView(w) \/ ClampViews(w)
  <2>1. PICK q \in Profile : q = worker[w].profile
    BY <1>1
  <2>3. \/ views' = [views EXCEPT ![q] = views[q] - 1]
        \/ views' = [views EXCEPT ![q] = 0]
    BY <1>3, <2>1 DEF RefundView, ClampViews
  <2>4. \A p \in Profile \ {q} : views'[p] = views[p]
    BY <1>1, <2>3
  <2>5. views'[q] = views[q] - 1 \/ views'[q] = 0
    BY <1>1, <2>3
  <2>6. \A p \in Profile : views[p] \in Int
    BY <1>1
  <2> QED BY <2>4, <2>5, <2>6
<1>4. CASE ChargeView(w)
  BY <1>4
<1>5. UNCHANGED views \/ RefundView(w) \/ ClampViews(w) \/ ChargeView(w)
  BY DEF BeginScrape, Crash, Acquire, AcquireFails, ReadCooldown, ReadViews,
         AllowUnchecked, ChargeFails, Session, StartProfile, StartFails,
         Connect, Login, VisitPage, BrowserGone, Download, Finish, CoolDown,
         RefundFails, QuitDriver, QuitRaises, StopProfile, StopFails,
         NextAttempt, EndScrape
<1> QED BY <1>2, <1>3, <1>4, <1>5

LEMMA RoomStep ==
    ASSUME TypeInv, Room, "redis" \notin Faults, NEW w \in Worker, ScrapeOf(w),
           views' \in [Profile -> Int],
           \/ \A p \in Profile : views'[p] <= views[p] \/ views'[p] = 0
           \/ ChargeView(w)
    PROVE  Room'
<1> SUFFICES ASSUME NEW p \in Profile
             PROVE  views'[p] + Cardinality(Waiting(p)')
                        <= Limit - 1 + Cardinality(Worker)
  BY DEF Room
<1>1. /\ worker \in [Worker -> Scrape] /\ views \in [Profile -> Int]
      /\ views'[p] \in Int /\ Limit \in Nat \ {0}
  BY ProfilePoolAssumption DEF TypeInv, TypeOK
<1>2. PICK s \in Scrape : /\ worker' = [worker EXCEPT ![w] = s]
                          /\ s.pc = "charge" => Chooses(w)
  BY DEF ScrapeOf
<1>3. \A v \in Worker : worker'[v] = IF v = w THEN s ELSE worker[v]
  BY <1>1, <1>2
<1>4. CASE s.pc = "charge" /\ s.profile = p
  <2>c. PICK c : c = Candidate(w)
    OBVIOUS
  <2>w. worker[w] \in Scrape /\ worker'[w] = s
    BY <1>1, <1>3
  <2>s. worker'[w] = [worker[w] EXCEPT !.pc = "charge",
                                       !.rr = (worker[w].rr + 1) % Size,
                                       !.tried = 0, !.profile = c]
    BY <1>1, <1>2, <1>4, <2>c DEF Chooses, Choose
  <2>1. p = Candidate(w)
    BY <1>4, <2>c, <2>w, <2>s DEF Scrape
  <2>2. views'[p] <= Limit - 1
    BY <1>1, <1>2, <1>4, <2>1 DEF Chooses, HasViewsLeft
  <2> QED BY <1>1, <2>2, WaitingSize
<1>5. CASE ~(s.pc = "charge" /\ s.profile = p)
  <2>1. Waiting(p)' \subseteq Waiting(p)
    BY <1>3, <1>5 DEF Waiting
  <2>2. CASE views'[p] <= views[p] \/ views'[p] = 0
    BY <1>1, <2>1, <2>2, RoomKept
  <2>3. CASE ChargeView(w) /\ worker[w].profile = p
    <3>1. w \in Waiting(p) /\ views'[p] = views[p] + 1
      BY <1>1, <2>3 DEF ChargeView, Waiting, Incremented
    <3>2. Waiting(p)' \subseteq Waiting(p) \ {w}
      BY <1>3, <1>5, <2>1 DEF Waiting
    <3>3. /\ IsFiniteSet(Waiting(p) \ {w})
          /\ Cardinality(Waiting(p) \ {w}) = Cardinality(Waiting(p)) - 1
      BY <3>1, WaitingSize, FS_RemoveElement
    <3>4. Cardinality(Waiting(p)') <= Cardinality(Waiting(p)) - 1
      BY <3>2, <3>3, FS_Subset
    <3> QED BY <1>1, <3>1, <3>4, WaitingSize DEF Room
  <2>4. CASE ChargeView(w) /\ worker[w].profile # p
    <3>1. views'[p] = views[p]
      BY <1>1, <2>4 DEF ChargeView, Incremented
    <3> QED BY <1>1, <2>1, <3>1, RoomKept
  <2> QED BY <2>2, <2>3, <2>4
<1> QED BY <1>4, <1>5

LEMMA InitRoom == Init => Room
<1> SUFFICES ASSUME Init, NEW p \in Profile
             PROVE  views[p] + Cardinality(Waiting(p))
                        <= Limit - 1 + Cardinality(Worker)
  BY DEF Room
<1>1. views[p] = 0 /\ Limit \in Nat \ {0}
  BY ProfilePoolAssumption DEF Init
<1> QED BY <1>1, WaitingSize

LEMMA StepRoom ==
    ASSUME "redis" \notin Faults
    PROVE  TypeInv /\ Room /\ [Next]_vars => Room'
<1> SUFFICES ASSUME TypeInv, Room, [Next]_vars PROVE Room'
  OBVIOUS
<1>1. ASSUME NEW w \in Worker, ScrapeOf(w),
             BeginScrape(w) \/ Acquire(w) \/ Session(w) \/ Finish(w) \/ Crash(w)
      PROVE  Room'
  BY <1>1, SharedTypes, CountersMove, RoomStep
<1>2. ASSUME NEW w \in Worker, BeginScrape(w) \/ Crash(w) PROVE Room'
  BY <1>1, <1>2, StepScrapes
<1>3. ASSUME NEW w \in Worker, Acquire(w) PROVE Room'
  BY <1>1, <1>3, AcquireTypes
<1>4. ASSUME NEW w \in Worker, Session(w) PROVE Room'
  BY <1>1, <1>4, SessionTypes
<1>5. ASSUME NEW w \in Worker, Finish(w) PROVE Room'
  BY <1>1, <1>5, FinishTypes
<1>6. CASE Midnight
  <2> SUFFICES ASSUME NEW p \in Profile
               PROVE  views'[p] + Cardinality(Waiting(p)')
                          <= Limit - 1 + Cardinality(Worker)
    BY DEF Room
  <2>1. views'[p] = 0 /\ Limit \in Nat \ {0}
    BY <1>6, ProfilePoolAssumption DEF Midnight
  <2> QED BY <2>1, WaitingSize
<1>7. CASE UNCHANGED <<views, worker>>
  BY <1>7 DEF Room, Waiting
<1>8. ASSUME NEW p \in Profile, CooldownExpires(p) PROVE Room'
  BY <1>7, <1>8 DEF CooldownExpires
<1> QED BY <1>2, <1>3, <1>4, <1>5, <1>6, <1>7, <1>8 DEF Next, vars

(* While Redis answers, no set of workers, whatever its size and however   *)
(* it interleaves checks, charges, refunds, clamps, crashes and changes of *)
(* day, takes a counter beyond the limit by more than the workers minus 1. *)
THEOREM PoolOvershoot ==
    ASSUME "redis" \notin Faults
    PROVE  Spec => []OvershootBounded
<1>1. Init => TypeInv /\ Room
  BY InitTypes, InitRoom
<1>2. TypeInv /\ Room /\ [Next]_vars => TypeInv' /\ Room'
  BY StepTypes, StepRoom
<1>3. TypeInv /\ Room => OvershootBounded
  <2> SUFFICES ASSUME TypeInv, Room, NEW p \in Profile
               PROVE  views[p] <= Limit + Cardinality(Worker) - 1
    BY DEF OvershootBounded
  <2>1. views[p] \in Int /\ Limit \in Nat
    BY ProfilePoolAssumption DEF TypeInv, TypeOK
  <2> QED BY <2>1, WaitingSize DEF Room
<1> QED BY <1>1, <1>2, <1>3, PTL DEF Spec
-----------------------------------------------------------------------------
(* The counters cover the open sessions: a session is charged once, after  *)
(* it has chosen its profile, and keeps that profile while it is charged.  *)
Unstarted == {"idle", "cooldown", "views", "charge", "next"}
Uncharged == \A w \in Worker : worker[w].pc \in Unstarted => ~worker[w].charged

CoverInv == TypeInv /\ Uncharged /\ CounterCoversSessions

Step(w) == BeginScrape(w) \/ Acquire(w) \/ Session(w) \/ Finish(w) \/ Crash(w)

LEMMA StepScrapeOf ==
    ASSUME TypeInv, NEW w \in Worker, Step(w)
    PROVE  ScrapeOf(w)
BY AcquireTypes, SessionTypes, FinishTypes, StepScrapes DEF Step

(* The scrapes of the other workers stay as they are.                      *)
LEMMA OthersStay ==
    ASSUME TypeInv, NEW w \in Worker, Step(w)
    PROVE  /\ \A v \in Worker \ {w} : worker'[v] = worker[v]
           /\ worker[w] \in Scrape /\ worker'[w] \in Scrape
<1>1. worker \in [Worker -> Scrape]
  BY DEF TypeInv, TypeOK
<1>2. PICK s \in Scrape : worker' = [worker EXCEPT ![w] = s]
  BY StepScrapeOf DEF ScrapeOf
<1> QED BY <1>1, <1>2

(* A step other than ChargeView charges nothing: it keeps the session and  *)
(* its profile, or gives the charge up.                                    *)
KeepsCharge(w) ==
    /\ worker'[w].charged => /\ worker[w].charged
                             /\ worker'[w].profile = worker[w].profile
    /\ worker'[w].pc \in Unstarted => ~worker'[w].charged

LEMMA EarlyKeepsCharge ==
    ASSUME TypeInv, Uncharged, NEW w \in Worker,
           BeginScrape(w) \/ Crash(w) \/ (Acquire(w) /\ ~ChargeView(w))
    PROVE  KeepsCharge(w)
<1>1. worker \in [Worker -> Scrape]
  BY DEF TypeInv, TypeOK
<1>2. CASE BeginScrape(w) \/ Crash(w)
  BY <1>1, <1>2 DEF BeginScrape, Crash, Idle, KeepsCharge, Uncharged, Unstarted, Scrape
<1>3. CASE AcquireFails(w)
  BY <1>1, <1>3 DEF AcquireFails, KeepsCharge, Uncharged, Unstarted, Scrape
<1>4. CASE ReadCooldown(w) \/ ReadViews(w) \/ AllowUnchecked(w)
  <2>1. worker[w].pc \in Unstarted /\ ~worker[w].charged
    BY <1>4 DEF ReadCooldown, ReadViews, AllowUnchecked, Uncharged, Unstarted
  <2>2. worker'[w].charged = worker[w].charged
    BY <1>1, <1>4 DEF ReadCooldown, ReadViews, AllowUnchecked, PassOver, Choose, Scrape
  <2> QED BY <2>1, <2>2 DEF KeepsCharge
<1>5. CASE ChargeFails(w)
  BY <1>1, <1>5 DEF ChargeFails, KeepsCharge, Unstarted, Scrape
<1> QED BY <1>2, <1>3, <1>4, <1>5 DEF Acquire

LEMMA SessionKeepsCharge ==
    ASSUME TypeInv, NEW w \in Worker, Session(w)
    PROVE  KeepsCharge(w)
<1>1. worker \in [Worker -> Scrape]
  BY DEF TypeInv, TypeOK
<1> DEFINE kept == /\ worker'[w].charged = worker[w].charged
                   /\ worker'[w].profile = worker[w].profile
                   /\ worker'[w].pc \notin Unstarted
<1>2. ASSUME NEW pc \in {"connect", "visit", "download"}, Goto(w, pc) PROVE kept
  BY <1>1, <1>2 DEF Scrape, Unstarted
<1>3. ASSUME Raise(w) PROVE kept
  BY <1>1, <1>3 DEF Raise, Scrape, Unstarted
<1>4. ASSUME NEW o, Conclude(w, o) PROVE kept
  BY <1>1, <1>4 DEF Conclude, Scrape, Unstarted
<1>5. ASSUME worker' = [worker EXCEPT ![w] = Again(worker[w])] PROVE kept
  BY <1>1, <1>5 DEF Again, Scrape, Unstarted
<1>6. ASSUME NEW o, worker' = [worker EXCEPT ![w].pc = "quit", ![w].outcome = o]
      PROVE  kept
  BY <1>1, <1>6 DEF Scrape, Unstarted
<1>7. ASSUME worker' = [worker EXCEPT ![w].pc = "login", ![w].driver = TRUE]
      PROVE  kept
  BY <1>1, <1>7 DEF Scrape, Unstarted
<1> HIDE DEF kept
<1>8. kept
  BY <1>2, <1>3, <1>4, <1>5, <1>6, <1>7
  DEF Session, StartProfile, StartFails, Connect, Login, VisitPage,
      BrowserGone, Download
<1> QED BY <1>8 DEF kept, KeepsCharge

LEMMA FinishKeepsCharge ==
    ASSUME TypeInv, Uncharged, NEW w \in Worker, Finish(w)
    PROVE  KeepsCharge(w)
<1>1. worker \in [Worker -> Scrape]
  BY DEF TypeInv, TypeOK
<1>2. Closing(w) \notin Unstarted
  BY DEF Closing, Unstarted
<1>3. CASE CoolDown(w) \/ ClampViews(w) \/ RefundFails(w) \/ QuitDriver(w)
  <2>1. ASSUME NEW pc, Goto(w, pc), pc \notin Unstarted PROVE KeepsCharge(w)
    BY <1>1, <2>1 DEF KeepsCharge, Scrape
  <2>2. "refund" \notin Unstarted /\ "stop" \notin Unstarted
    BY DEF Unstarted
  <2> QED BY <1>2, <1>3, <2>1, <2>2 DEF CoolDown, ClampViews, RefundFails, QuitDriver
<1>4. CASE RefundView(w)
  BY <1>1, <1>4 DEF RefundView, KeepsCharge, Scrape
<1>5. ASSUME worker' = [worker EXCEPT ![w] = Idle] \/ Close(w) \/ NextAttempt(w)
      PROVE  KeepsCharge(w)
  <2>1. CASE worker' = [worker EXCEPT ![w] = Idle]
    BY <1>1, <2>1 DEF Idle, KeepsCharge
  <2>2. CASE Close(w)
    <3>1. worker'[w] = [Idle EXCEPT !.pc = "next", !.rr = worker[w].rr,
                                    !.attempt = worker[w].attempt,
                                    !.outcome = worker[w].outcome]
      BY <1>1, <2>2 DEF Close
    <3> QED BY <3>1 DEF Idle, KeepsCharge
  <2>3. CASE NextAttempt(w)
    <3>1. worker'[w] = [Idle EXCEPT !.pc = "cooldown", !.rr = worker[w].rr,
                                    !.attempt = worker[w].attempt + 1]
      BY <1>1, <2>3 DEF NextAttempt
    <3> QED BY <3>1 DEF Idle, KeepsCharge
  <2> QED BY <1>5, <2>1, <2>2, <2>3
<1> QED BY <1>3, <1>4, <1>5 DEF Finish, QuitRaises, StopProfile, StopFails, EndScrape

LEMMA ChargedSize ==
    ASSUME NEW p
    PROVE  /\ IsFiniteSet(Charged(p)) /\ Cardinality(Charged(p)) \in Nat
           /\ IsFiniteSet(Charged(p)') /\ Cardinality(Charged(p)') \in Nat
<1>1. Charged(p) \subseteq Worker /\ Charged(p)' \subseteq Worker
  BY DEF Charged
<1> QED BY <1>1, ProfilePoolAssumption, FS_Subset, FS_CardinalityType

(* No step but ChargeView adds a session to those a counter must cover.    *)
LEMMA ChargedFalls ==
    ASSUME TypeInv, NEW w \in Worker, Step(w), KeepsCharge(w), NEW p \in Profile
    PROVE  /\ Cardinality(Charged(p)') <= Cardinality(Charged(p))
           /\ w \in Charged(p) /\ ~worker'[w].charged
                 => Cardinality(Charged(p)') <= Cardinality(Charged(p)) - 1
<1>1. Charged(p)' \subseteq Charged(p)
  BY OthersStay DEF KeepsCharge, Charged
<1>2. ASSUME w \in Charged(p), ~worker'[w].charged
      PROVE  Cardinality(Charged(p)') <= Cardinality(Charged(p)) - 1
  <2>1. Charged(p)' \subseteq Charged(p) \ {w}
    BY <1>1, <1>2 DEF Charged
  <2>2. /\ IsFiniteSet(Charged(p) \ {w})
        /\ Cardinality(Charged(p) \ {w}) = Cardinality(Charged(p)) - 1
    BY <1>2, ChargedSize, FS_RemoveElement
  <2> QED BY <2>1, <2>2, FS_Subset
<1> QED BY <1>1, <1>2, ChargedSize, FS_Subset

LEMMA KeptCover ==
    ASSUME CoverInv, NEW w \in Worker, Step(w), KeepsCharge(w)
    PROVE  CounterCoversSessions'
<1> SUFFICES ASSUME NEW p \in Profile, p \notin slipped'
             PROVE  views'[p] >= Cardinality(Charged(p)')
  BY DEF CounterCoversSessions
<1> DEFINE q == worker[w].profile
<1>1. /\ views \in [Profile -> Int] /\ q \in Profile /\ slipped \subseteq Profile
  BY DEF CoverInv, TypeInv, TypeOK, Scrape
<1>t. views'[p] \in Int
  BY SharedTypes DEF CoverInv, Step
<1>2. Cardinality(Charged(p)') <= Cardinality(Charged(p))
  BY ChargedFalls DEF CoverInv
<1>3. ASSUME views'[p] >= views[p], p \notin slipped
      PROVE  views'[p] >= Cardinality(Charged(p)')
  BY <1>1, <1>t, <1>2, <1>3, ChargedSize DEF CoverInv, CounterCoversSessions
<1>4. CASE UNCHANGED <<views, slipped>>
  BY <1>1, <1>3, <1>4
<1>5. CASE ChargeView(w)
  <2>1. views'[p] >= views[p] /\ slipped' = slipped
    BY <1>1, <1>5 DEF ChargeView, Incremented
  <2> QED BY <1>3, <2>1
<1>6. CASE ClampViews(w)
  <2>1. p # q /\ p \notin slipped
    BY <1>6 DEF ClampViews
  <2>2. views'[p] = views[p]
    BY <1>1, <1>6, <2>1 DEF ClampViews
  <2> QED BY <1>1, <1>3, <2>1, <2>2
<1>7. CASE RefundView(w)
  <2>1. /\ views' = [views EXCEPT ![q] = views[q] - 1]
        /\ slipped' = IF worker[w].charged THEN slipped ELSE slipped \cup {q}
    BY <1>7 DEF RefundView
  <2>2. CASE p # q
    <3>1. views'[p] = views[p] /\ p \notin slipped
      BY <1>1, <2>1, <2>2
    <3> QED BY <1>1, <1>3, <3>1
  <2>3. CASE p = q
    <3>1. worker[w].charged /\ p \notin slipped
      BY <2>1, <2>3
    <3>2. w \in Charged(p)
      BY <2>3, <3>1 DEF Charged
    <3>3. ~worker'[w].charged
      BY <1>7 DEF RefundView, CoverInv, TypeInv, TypeOK, Scrape
    <3>4. Cardinality(Charged(p)') <= Cardinality(Charged(p)) - 1
      BY <3>2, <3>3, ChargedFalls DEF CoverInv
    <3>5. views'[p] = views[p] - 1 /\ views[p] >= Cardinality(Charged(p))
      BY <1>1, <2>1, <2>3, <3>1 DEF CoverInv, CounterCoversSessions
    <3> QED BY <1>1, <3>4, <3>5, ChargedSize
  <2> QED BY <2>2, <2>3
<1>8. UNCHANGED <<views, slipped>> \/ RefundView(w) \/ ClampViews(w) \/ ChargeView(w)
  BY DEF Step, BeginScrape, Crash, Acquire, AcquireFails, ReadCooldown, ReadViews,
         AllowUnchecked, ChargeFails, Session, StartProfile, StartFails,
         Connect, Login, VisitPage, BrowserGone, Download, Finish, CoolDown,
         RefundFails, QuitDriver, QuitRaises, StopProfile, StopFails,
         NextAttempt, EndScrape
<1> QED BY <1>4, <1>5, <1>6, <1>7, <1>8

LEMMA KeptUncharged ==
    ASSUME TypeInv, Uncharged, NEW w \in Worker, Step(w),
           worker'[w].pc \in Unstarted => ~worker'[w].charged
    PROVE  Uncharged'
BY OthersStay DEF Uncharged

(* The view a session is charged for is in the counter it is charged to.   *)
LEMMA ChargeCovers ==
    ASSUME CoverInv, NEW w \in Worker, ChargeView(w)
    PROVE  Uncharged' /\ CounterCoversSessions'
<1> DEFINE q == worker[w].profile
<1>1. /\ views \in [Profile -> Int] /\ q \in Profile /\ slipped \subseteq Profile
      /\ worker \in [Worker -> Scrape]
  BY DEF CoverInv, TypeInv, TypeOK, Scrape
<1>2. Step(w) /\ TypeInv /\ Uncharged
  BY DEF CoverInv, Step, Acquire
<1>3. worker'[w].pc = "start" /\ worker'[w].profile = q
  BY <1>1 DEF ChargeView, Scrape
<1>4. Uncharged'
  BY <1>2, <1>3, KeptUncharged DEF Unstarted
<1>5. ASSUME NEW p \in Profile, p \notin slipped'
      PROVE  views'[p] >= Cardinality(Charged(p)')
  <2>1. /\ p \notin slipped /\ views[p] >= Cardinality(Charged(p))
        /\ views'[p] = IF p = q THEN views[p] + 1 ELSE views[p]
    BY <1>1, <1>5 DEF ChargeView, Incremented, CoverInv, CounterCoversSessions
  <2>2. CASE p = q
    <3>1. Charged(p)' \subseteq Charged(p) \cup {w}
      BY <1>2, OthersStay DEF Charged
    <3>2. /\ IsFiniteSet(Charged(p) \cup {w})
          /\ Cardinality(Charged(p) \cup {w}) =
                 IF w \in Charged(p) THEN Cardinality(Charged(p))
                                     ELSE Cardinality(Charged(p)) + 1
      BY ChargedSize, FS_AddElement
    <3>3. Cardinality(Charged(p)') <= Cardinality(Charged(p) \cup {w})
      BY <3>1, <3>2, FS_Subset
    <3>4. Cardinality(Charged(p)') <= Cardinality(Charged(p)) + 1
      BY <3>2, <3>3, ChargedSize
    <3> QED BY <1>1, <2>1, <2>2, <3>4, ChargedSize
  <2>3. CASE p # q
    <3>1. Charged(p)' \subseteq Charged(p)
      BY <1>2, <1>3, <2>3, OthersStay DEF Charged
    <3>2. Cardinality(Charged(p)') <= Cardinality(Charged(p))
      BY <3>1, ChargedSize, FS_Subset
    <3> QED BY <1>1, <2>1, <2>3, <3>2, ChargedSize
  <2> QED BY <2>2, <2>3
<1> QED BY <1>4, <1>5 DEF CounterCoversSessions

LEMMA InitCover == Init => CoverInv
<1> SUFFICES ASSUME Init PROVE Uncharged /\ CounterCoversSessions
  BY InitTypes DEF CoverInv
<1>1. \A p \in Profile : Charged(p) = {}
  BY DEF Init, Charged, Idle
<1>2. Cardinality({}) = 0
  BY FS_EmptySet
<1>3. \A p \in Profile : views[p] = 0
  BY DEF Init
<1>4. CounterCoversSessions
  BY <1>1, <1>2, <1>3 DEF CounterCoversSessions
<1>5. Uncharged
  BY DEF Init, Uncharged, Idle
<1> QED BY <1>4, <1>5

LEMMA StepCover == CoverInv /\ [Next]_vars => CoverInv'
<1> SUFFICES ASSUME CoverInv, [Next]_vars PROVE Uncharged' /\ CounterCoversSessions'
  BY StepTypes DEF CoverInv
<1>1. TypeInv /\ Uncharged /\ worker \in [Worker -> Scrape]
  BY DEF CoverInv, TypeInv, TypeOK
<1>2. ASSUME NEW w \in Worker, Step(w) PROVE Uncharged' /\ CounterCoversSessions'
  <2>1. CASE ChargeView(w)
    BY <2>1, ChargeCovers
  <2>2. CASE ~ChargeView(w)
    <3>1. KeepsCharge(w)
      BY <1>1, <1>2, <2>2, EarlyKeepsCharge, SessionKeepsCharge, FinishKeepsCharge
      DEF Step
    <3>2. Uncharged'
      BY <1>1, <1>2, <3>1, KeptUncharged DEF KeepsCharge
    <3> QED BY <1>2, <3>1, <3>2, KeptCover
  <2> QED BY <2>1, <2>2
<1>3. CASE Midnight
  <2>1. \A w \in Worker : ~worker'[w].charged
    BY <1>1, <1>3 DEF Midnight, Scrape
  <2>2. \A p \in Profile : Charged(p)' = {} /\ views'[p] = 0
    BY <1>3, <2>1 DEF Midnight, Charged
  <2>3. Cardinality({}) = 0
    BY FS_EmptySet
  <2> QED BY <2>1, <2>2, <2>3 DEF Uncharged, CounterCoversSessions
<1>4. CASE UNCHANGED <<views, worker, slipped>>
  BY <1>4 DEF CoverInv, Uncharged, CounterCoversSessions, Charged
<1>5. ASSUME NEW p \in Profile, CooldownExpires(p)
      PROVE  Uncharged' /\ CounterCoversSessions'
  BY <1>4, <1>5 DEF CooldownExpires
<1> QED BY <1>2, <1>3, <1>4, <1>5 DEF Next, Step, vars

(* Whatever fails, a day's counter covers the sessions it was charged for, *)
(* but for the profiles where a refund of an uncounted view or the reset   *)
(* of a negative counter ate another session's charge.                     *)
THEOREM PoolCovers == Spec => []CounterCoversSessions
<1>1. CoverInv => CounterCoversSessions
  BY DEF CoverInv
<1> QED BY <1>1, InitCover, StepCover, PTL DEF Spec

-----------------------------------------------------------------------------
(* Browsers: a session leaves its browser only by stopping it, or when     *)
(* another session has stopped it already.                                 *)
Holding == {"connect", "login", "visit", "download",
            "rest", "refund", "clamp", "quit", "stop"}

NoLoss == Faults \cap {"crash", "launcher", "quit"} = {}

(* What a step may do: start a browser of its own under a free profile,    *)
(* stop its own profile, or leave the browsers alone and keep its own.     *)
BrowserMoves(w) ==
    \/ /\ browser' = browser
       /\ \A p \in Profile : Live(w, p) => Live(w, p)'
    \/ /\ browser' = [browser EXCEPT ![worker[w].profile] = w]
       /\ worker'[w].profile = worker[w].profile /\ worker'[w].pc \in Holding
       /\ worker[w].pc \notin Holding
    \/ browser' = [browser EXCEPT ![worker[w].profile] = NoWorker]

LEMMA AcquireMovesBrowsers ==
    ASSUME TypeInv, NEW w \in Worker, BeginScrape(w) \/ Acquire(w)
    PROVE  BrowserMoves(w)
<1>1. browser' = browser
  BY DEF BeginScrape, Acquire, AcquireFails, ReadCooldown, ReadViews,
         AllowUnchecked, ChargeView, ChargeFails
<1>2. worker[w].pc \notin Holding
  BY DEF BeginScrape, Acquire, AcquireFails, ReadCooldown, ReadViews,
         AllowUnchecked, ChargeView, ChargeFails, At, Holding
<1> QED BY <1>1, <1>2 DEF BrowserMoves, Live, Holding

LEMMA SessionMovesBrowsers ==
    ASSUME TypeInv, NoLoss, NEW w \in Worker, Session(w)
    PROVE  BrowserMoves(w)
<1>1. worker \in [Worker -> Scrape] /\ browser \in [Profile -> Worker \cup {NoWorker}]
  BY DEF TypeInv, TypeOK
<1> DEFINE kept == /\ worker'[w].profile = worker[w].profile
                   /\ worker'[w].pc \in Holding
<1>2. ASSUME NEW pc \in {"connect", "visit", "download"}, Goto(w, pc) PROVE kept
  BY <1>1, <1>2 DEF Scrape, Holding
<1>3. ASSUME Raise(w) PROVE kept
  BY <1>1, <1>3 DEF Raise, Scrape, Holding
<1>4. ASSUME NEW o, Conclude(w, o) PROVE kept
  BY <1>1, <1>4 DEF Conclude, Scrape, Holding
<1>5. ASSUME worker' = [worker EXCEPT ![w] = Again(worker[w])] PROVE kept
  BY <1>1, <1>5 DEF Again, Scrape, Holding
<1>6. ASSUME NEW o, worker' = [worker EXCEPT ![w].pc = "quit", ![w].outcome = o]
      PROVE  kept
  BY <1>1, <1>6 DEF Scrape, Holding
<1>7. ASSUME worker' = [worker EXCEPT ![w].pc = "login", ![w].driver = TRUE]
      PROVE  kept
  BY <1>1, <1>7 DEF Scrape, Holding
<1> HIDE DEF kept
<1>8. kept
  BY <1>2, <1>3, <1>4, <1>5, <1>6, <1>7
  DEF Session, StartProfile, StartFails, Connect, Login, VisitPage,
      BrowserGone, Download
<1>9. CASE browser' = browser
  BY <1>8, <1>9 DEF BrowserMoves, Live, Holding, kept
<1>10. CASE browser' # browser
  <2>1. /\ worker[w].pc = "start"
        /\ browser' = [browser EXCEPT ![worker[w].profile] = w]
    BY <1>10 DEF Session, StartProfile, StartFails, Connect, Login, VisitPage,
                 BrowserGone, Download, NoLoss, At
  <2> QED BY <1>8, <2>1 DEF BrowserMoves, Holding, kept
<1> QED BY <1>9, <1>10

LEMMA FinishMovesBrowsers ==
    ASSUME TypeInv, NoLoss, NEW w \in Worker, Finish(w)
    PROVE  BrowserMoves(w)
<1>1. worker \in [Worker -> Scrape] /\ browser \in [Profile -> Worker \cup {NoWorker}]
  BY DEF TypeInv, TypeOK
<1>2. CASE CoolDown(w) \/ ClampViews(w) \/ RefundFails(w) \/ QuitDriver(w)
  <2>1. ASSUME NEW pc \in Holding, Goto(w, pc)
        PROVE  worker'[w].profile = worker[w].profile /\ worker'[w].pc \in Holding
    BY <1>1, <2>1 DEF Scrape
  <2>2. Closing(w) \in Holding /\ "refund" \in Holding /\ "stop" \in Holding
    BY DEF Closing, Holding
  <2>3. /\ worker'[w].profile = worker[w].profile /\ worker'[w].pc \in Holding
        /\ browser' = browser
    BY <1>2, <2>1, <2>2 DEF CoolDown, ClampViews, RefundFails, QuitDriver
  <2> QED BY <2>3 DEF BrowserMoves, Live, Holding
<1>3. CASE RefundView(w)
  <2>1. /\ worker'[w].profile = worker[w].profile /\ worker'[w].pc \in Holding
        /\ browser' = browser
    BY <1>1, <1>3 DEF RefundView, Closing, Scrape, Holding
  <2> QED BY <2>1 DEF BrowserMoves, Live, Holding
<1>4. CASE QuitRaises(w)
  <2>1. browser' = browser /\ ~Live(w, worker[w].profile)
    BY <1>4 DEF QuitRaises, NoLoss
  <2>2. \A p \in Profile : ~Live(w, p)
    BY <2>1 DEF Live
  <2> QED BY <2>1, <2>2 DEF BrowserMoves
<1>5. CASE StopProfile(w)
  BY <1>5 DEF StopProfile, BrowserMoves
<1>6. CASE NextAttempt(w) \/ EndScrape(w)
  <2>1. browser' = browser /\ worker[w].pc = "next"
    BY <1>6 DEF NextAttempt, EndScrape, At
  <2> QED BY <2>1 DEF BrowserMoves, Live
<1>7. ~StopFails(w)
  BY DEF StopFails, NoLoss
<1> QED BY <1>2, <1>3, <1>4, <1>5, <1>6, <1>7 DEF Finish

LEMMA MovesOrphanNobody ==
    ASSUME TypeInv, NoOrphanBrowser, NEW w \in Worker, Step(w), BrowserMoves(w)
    PROVE  NoOrphanBrowser'
<1> SUFFICES ASSUME NEW p \in Profile, browser'[p] # NoWorker
             PROVE  Live(browser[p], p)'
  BY DEF NoOrphanBrowser
<1> DEFINE q == worker[w].profile
<1>1. /\ browser \in [Profile -> Worker \cup {NoWorker}] /\ q \in Profile
      /\ NoWorker \notin Worker
  BY ProfilePoolAssumption DEF TypeInv, TypeOK, Scrape
<1>2. \A v \in Worker \ {w} : worker'[v] = worker[v]
  BY OthersStay
<1>3. CASE browser' = browser /\ (\A r \in Profile : Live(w, r) => Live(w, r)')
  <2>1. Live(browser[p], p) /\ browser[p] \in Worker
    BY <1>1, <1>3 DEF NoOrphanBrowser
  <2>2. CASE browser[p] = w
    BY <1>3, <2>1, <2>2
  <2>3. CASE browser[p] # w
    BY <1>2, <1>3, <2>1, <2>3 DEF Live
  <2> QED BY <2>2, <2>3
<1>4. CASE /\ browser' = [browser EXCEPT ![q] = w]
           /\ worker'[w].profile = q /\ worker'[w].pc \in Holding
           /\ worker[w].pc \notin Holding
  <2>1. CASE p = q
    BY <1>1, <1>4, <2>1 DEF Live, Holding
  <2>2. CASE p # q
    <3>1. browser'[p] = browser[p] /\ Live(browser[p], p) /\ browser[p] \in Worker
      BY <1>1, <1>4, <2>2 DEF NoOrphanBrowser
    <3>2. browser[p] # w
      BY <1>4, <3>1 DEF Live, Holding
    <3> QED BY <1>2, <3>1, <3>2 DEF Live
  <2> QED BY <2>1, <2>2
<1>5. CASE browser' = [browser EXCEPT ![q] = NoWorker]
  <2>1. p # q /\ browser'[p] = browser[p]
    BY <1>1, <1>5
  <2>2. Live(browser[p], p) /\ browser[p] \in Worker
    BY <1>1, <2>1 DEF NoOrphanBrowser
  <2>3. browser[p] # w
    BY <2>1, <2>2 DEF Live
  <2> QED BY <1>2, <2>1, <2>2, <2>3 DEF Live
<1> QED BY <1>3, <1>4, <1>5 DEF BrowserMoves

(* If no worker dies, every call of the launcher works and quit() fails    *)
(* only on a dead browser, then no interleaving of sessions that stop each *)
(* other's browsers leaves one running that nobody will stop, even when    *)
(* Redis fails.                                                            *)
THEOREM PoolStopsBrowsers ==
    ASSUME NoLoss
    PROVE  Spec => []NoOrphanBrowser
<1>1. Init => TypeInv /\ NoOrphanBrowser
  BY InitTypes DEF Init, NoOrphanBrowser
<1>2. TypeInv /\ NoOrphanBrowser /\ [Next]_vars => TypeInv' /\ NoOrphanBrowser'
  <2> SUFFICES ASSUME TypeInv, NoOrphanBrowser, [Next]_vars PROVE NoOrphanBrowser'
    BY StepTypes
  <2>1. ASSUME NEW w \in Worker, Step(w) PROVE NoOrphanBrowser'
    <3>1. ~Crash(w)
      BY DEF Crash, NoLoss
    <3>2. BrowserMoves(w)
      BY <2>1, <3>1, AcquireMovesBrowsers, SessionMovesBrowsers, FinishMovesBrowsers
      DEF Step
    <3> QED BY <2>1, <3>2, MovesOrphanNobody
  <2>2. CASE Midnight
    <3>1. \A w \in Worker : /\ worker'[w].profile = worker[w].profile
                            /\ worker'[w].pc = worker[w].pc
      BY <2>2 DEF Midnight, TypeInv, TypeOK, Scrape
    <3>2. browser' = browser
      BY <2>2 DEF Midnight
    <3>3. ASSUME NEW p \in Profile, browser[p] # NoWorker PROVE browser[p] \in Worker
      BY <3>3 DEF TypeInv, TypeOK
    <3> QED BY <3>1, <3>2, <3>3 DEF NoOrphanBrowser, Live
  <2>3. CASE UNCHANGED <<browser, worker>>
    BY <2>3 DEF NoOrphanBrowser, Live
  <2>4. ASSUME NEW p \in Profile, CooldownExpires(p) PROVE NoOrphanBrowser'
    BY <2>3, <2>4 DEF CooldownExpires
  <2> QED BY <2>1, <2>2, <2>3, <2>4 DEF Next, Step, vars
<1> QED BY <1>1, <1>2, PTL DEF Spec
=============================================================================
