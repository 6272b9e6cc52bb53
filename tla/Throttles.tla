----------------------------- MODULE Throttles -----------------------------
(***************************************************************************)
(* The fixed-window counters that API requests and GitRecon calls share in *)
(* Redis (infrastructure/redis.py, dependencies/rate_limit.py), and the    *)
(* cooldown that a GitHub refusal puts in front of further GitRecon calls  *)
(* (enrichers/gitrecon.py).  Every throttle fails open: a Redis error lets *)
(* the call through.                                                       *)
(***************************************************************************)
EXTENDS Naturals, FiniteSets

CONSTANTS Caller,      \* handlers and enricher runs that ask for a call
          Scope,       \* counters: one per kind of request and client
          ScopeOf,     \* ScopeOf[c]: the counter that caller c is charged to
          Guarded,     \* scopes with a cooldown: GitRecon's
          Limit,       \* Limit[s]: calls a window allows
          Cooldown,    \* whether gitrecon_cooldown_seconds is positive
          Faults,      \* which kinds of failure this instance exhibits
          MaxCount     \* bound: how far a counter is followed

FaultKind == {"redis",  \* a Redis command raises, executed or not
              "crash"}  \* a process dies between two commands

ASSUME ThrottlesAssumption ==
    /\ IsFiniteSet(Caller)
    /\ ScopeOf \in [Caller -> Scope]
    /\ Guarded \subseteq Scope
    /\ Limit \in [Scope -> Nat \ {0}]
    /\ Cooldown \in BOOLEAN
    /\ Faults \subseteq FaultKind
    /\ MaxCount \in Nat

Pc == {"idle", "cooldown", "incr", "expire", "start", "calling", "backoff"}

VARIABLES count,    \* the counter of each scope; 0 is a missing key
          ttl,      \* scopes whose key has an expiry
          cooling,  \* scopes whose cooldown key exists
          caller    \* where each caller stands

VARIABLES lost,    \* history: scopes whose EXPIRE never happened
          started  \* history: counted calls begun in the current window

vars == <<count, ttl, cooling, caller, lost, started>>

(* History: cleared, past its check when the cooldown began; opened, let   *)
(* through by a Redis error.                                               *)
CallerState == [pc : Pc, cleared : BOOLEAN, opened : BOOLEAN]

Idle == [pc |-> "idle", cleared |-> FALSE, opened |-> FALSE]

TypeOK ==
    /\ count \in [Scope -> 0 .. MaxCount]
    /\ ttl \subseteq Scope
    /\ cooling \subseteq Guarded
    /\ caller \in [Caller -> CallerState]
    /\ lost \subseteq Scope
    /\ started \in [Scope -> Nat]

Init ==
    /\ count = [s \in Scope |-> 0]
    /\ ttl = {} /\ cooling = {}
    /\ caller = [c \in Caller |-> Idle]
    /\ lost = {}
    /\ started = [s \in Scope |-> 0]

At(c, pc) == caller[c].pc = pc
Goto(c, pc) == caller' = [caller EXCEPT ![c].pc = pc]
Leave(c) == caller' = [caller EXCEPT ![c] = Idle]

-----------------------------------------------------------------------------
(* Asking                                                                  *)

Ask(c) ==
    /\ At(c, "idle")
    /\ Goto(c, IF ScopeOf[c] \in Guarded THEN "cooldown" ELSE "incr")
    /\ UNCHANGED <<count, ttl, cooling, lost, started>>

(* Mutant: the cooldown key is not looked at. *)
SeesNoCooldown(c) == FALSE

SeesCooldown(c) == ScopeOf[c] \in cooling

ReadCooldown(c) ==
    /\ At(c, "cooldown")
    /\ IF SeesCooldown(c) THEN Leave(c) ELSE Goto(c, "incr")
    /\ UNCHANGED <<count, ttl, cooling, lost, started>>

(* Mutant: the expiry is set by the call that uses up the window. *)
OpensWindowAtLimit(s) == count[s] = Limit[s]

(* INCR returned 1.                                                        *)
OpensWindow(s) == count[s] = 0

(* Mutant: the limit is never compared. *)
WithinNoLimit(s) == TRUE

(* INCR returned at most the limit.                                        *)
WithinLimit(s) == count[s] < Limit[s]

(* check_rate_limit: what INCR returned decides, and the call that finds 1 *)
(* has yet to set the expiry.  A refused request gets 429, a refused       *)
(* GitRecon run contributes nothing.                                       *)
Incr(c) ==
    LET s == ScopeOf[c] IN
    /\ At(c, "incr")
    /\ count[s] < MaxCount
    /\ count' = [count EXCEPT ![s] = @ + 1]
    /\ CASE OpensWindow(s) -> Goto(c, "expire")
         [] ~OpensWindow(s) /\ WithinLimit(s) -> Goto(c, "start")
         [] OTHER -> Leave(c)
    /\ UNCHANGED <<ttl, cooling, lost, started>>

Expire(c) ==
    /\ At(c, "expire")
    /\ ttl' = ttl \cup {ScopeOf[c]}
    /\ Goto(c, "start")
    /\ UNCHANGED <<count, cooling, lost, started>>

(* A Redis error lets the call through, whether or not the command was     *)
(* executed; an EXPIRE that was not leaves a key that stays.               *)
FailOpen(c) ==
    /\ "redis" \in Faults
    /\ \/ At(c, "cooldown") /\ UNCHANGED <<count, ttl, lost>>
       \/ /\ At(c, "incr")
          /\ UNCHANGED <<ttl, lost>> /\ UNCHANGED count
       \/ /\ At(c, "incr")
          /\ count[ScopeOf[c]] < MaxCount
          /\ count' = [count EXCEPT ![ScopeOf[c]] = @ + 1]
          /\ lost' = IF OpensWindow(ScopeOf[c]) THEN lost \cup {ScopeOf[c]} ELSE lost
          /\ UNCHANGED ttl
       \/ /\ At(c, "expire")
          /\ \/ ttl' = ttl \cup {ScopeOf[c]} /\ UNCHANGED lost
             \/ lost' = lost \cup {ScopeOf[c]} /\ UNCHANGED ttl
          /\ UNCHANGED count
    /\ caller' = [caller EXCEPT ![c].pc = "start", ![c].opened = TRUE]
    /\ UNCHANGED <<cooling, started>>

Crash(c) ==
    /\ "crash" \in Faults
    /\ caller[c].pc # "idle"
    /\ Leave(c)
    /\ lost' = IF At(c, "expire") THEN lost \cup {ScopeOf[c]} ELSE lost
    /\ UNCHANGED <<count, ttl, cooling, started>>

-----------------------------------------------------------------------------
(* Calling                                                                 *)

(* The request is served, or gitrecon.py runs.                             *)
StartCall(c) ==
    /\ At(c, "start")
    /\ Goto(c, "calling")
    /\ started' = IF caller[c].opened THEN started
                  ELSE [started EXCEPT ![ScopeOf[c]] = @ + 1]
    /\ UNCHANGED <<count, ttl, cooling, lost>>

EndCall(c) ==
    /\ At(c, "calling")
    /\ Leave(c)
    /\ UNCHANGED <<count, ttl, cooling, lost, started>>

(* Callers of the scope that no longer look at its cooldown.               *)
PastCooldown(s) == {c \in Caller : /\ ScopeOf[c] = s
                                   /\ caller[c].pc \notin {"idle", "cooldown"}}

(* Mutant: a cooldown starts for every scope. *)
CoolingEverything(s) == Scope

CoolingWith(s) == cooling \cup {s}

(* GitHub refuses (403, 429): the cooldown key is set unless Redis fails,  *)
(* and the run sleeps.                                                     *)
HitRateLimit(c) ==
    LET s == ScopeOf[c] IN
    /\ At(c, "calling") /\ s \in Guarded
    /\ \/ /\ Cooldown
          /\ cooling' = CoolingWith(s)
          /\ caller' = [d \in Caller |->
                IF d = c THEN [caller[d] EXCEPT !.pc = "backoff"]
                ELSE IF d \in PastCooldown(s) THEN [caller[d] EXCEPT !.cleared = TRUE]
                ELSE caller[d]]
       \/ /\ ~Cooldown \/ "redis" \in Faults
          /\ Goto(c, "backoff")
          /\ UNCHANGED cooling
    /\ UNCHANGED <<count, ttl, lost, started>>

EndBackoff(c) ==
    /\ At(c, "backoff")
    /\ Leave(c)
    /\ UNCHANGED <<count, ttl, cooling, lost, started>>

-----------------------------------------------------------------------------
(* Time                                                                    *)

WindowEnds(s) ==
    /\ s \in ttl
    /\ ttl' = ttl \ {s}
    /\ count' = [count EXCEPT ![s] = 0]
    /\ started' = [started EXCEPT ![s] = 0]
    /\ UNCHANGED <<cooling, caller, lost>>

CooldownEnds(s) ==
    /\ s \in cooling
    /\ cooling' = cooling \ {s}
    /\ UNCHANGED <<count, ttl, caller, lost, started>>

-----------------------------------------------------------------------------

CallerStep(c) ==
    \/ ReadCooldown(c) \/ Incr(c) \/ Expire(c) \/ StartCall(c)
    \/ EndCall(c) \/ EndBackoff(c)

Next ==
    \/ \E c \in Caller : Ask(c) \/ CallerStep(c) \/ HitRateLimit(c)
                         \/ FailOpen(c) \/ Crash(c)
    \/ \E s \in Scope : WindowEnds(s) \/ CooldownEnds(s)

Spec == Init /\ [][Next]_vars

(* Handlers and enricher runs go on, and keys with an expiry expire.       *)
Fairness == /\ \A c \in Caller : WF_vars(CallerStep(c))
            /\ \A s \in Scope : WF_vars(WindowEnds(s))

FairSpec == Spec /\ Fairness

-----------------------------------------------------------------------------
(* Properties                                                              *)

(* check_rate_limit: "the key auto-resets when the window ends": a counter *)
(* has its expiry, or the call that opened its window is about to set it,  *)
(* unless a lost EXPIRE or a death between the two commands left the key   *)
(* without one.                                                            *)
CounterExpires ==
    \A s \in Scope : count[s] > 0 =>
        \/ s \in ttl \/ s \in lost
        \/ \E c \in Caller : ScopeOf[c] = s /\ At(c, "expire")

(* While the cooldown lasts, only calls that had passed its check before   *)
(* it began are made, and those that a Redis error let through.            *)
CooldownRespected ==
    \A c \in Caller :
        caller[c].pc \in {"incr", "expire", "start", "calling"} /\ ScopeOf[c] \in cooling
            => caller[c].cleared \/ caller[c].opened

(* A window sees at most its limit of counted calls, and one more for each *)
(* caller that was admitted by an earlier window and begins only now.      *)
BudgetPerWindow ==
    \A s \in Scope : started[s] <= Limit[s] + Cardinality({c \in Caller : ScopeOf[c] = s})

(* A scope that is used up opens again, unless its key lost the expiry.    *)
WindowReopens ==
    \A s \in Scope : (count[s] >= Limit[s] /\ s \notin lost)
                        ~> (count[s] < Limit[s] \/ s \in lost)

=============================================================================
