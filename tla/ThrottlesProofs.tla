--------------------------- MODULE ThrottlesProofs ---------------------------
(***************************************************************************)
(* Proofs about Throttles: its type invariant, that a counter loses its    *)
(* expiry only to a failure, that the cooldown is respected, and that a    *)
(* window keeps its budget.                                                *)
(***************************************************************************)
EXTENDS Throttles, FiniteSetTheorems, TLAPS

(* Changing the fields of a caller's state keeps its type.                 *)
LEMMA CallerStateType ==
    ASSUME NEW r \in CallerState, NEW pc \in Pc
    PROVE  /\ [r EXCEPT !.pc = pc] \in CallerState
           /\ [r EXCEPT !.cleared = TRUE] \in CallerState
           /\ [r EXCEPT !.pc = pc, !.opened = TRUE] \in CallerState
           /\ Idle \in CallerState
BY DEF CallerState, Idle, Pc

(* The steps a caller's state takes.                                       *)
LEMMA GotoType ==
    ASSUME caller \in [Caller -> CallerState], NEW c \in Caller, NEW pc \in Pc,
           Goto(c, pc) \/ Leave(c)
    PROVE  caller' \in [Caller -> CallerState]
<1>1. [caller[c] EXCEPT !.pc = pc] \in CallerState /\ Idle \in CallerState
  BY CallerStateType
<1>2. QED
  BY <1>1 DEF Goto, Leave

LEMMA InitTypeOK == Init => TypeOK
BY ThrottlesAssumption
DEF ThrottlesAssumption, Init, TypeOK, CallerState, Idle, Pc

LEMMA NextTypeOK == TypeOK /\ [Next]_vars => TypeOK'
<1> SUFFICES ASSUME TypeOK, [Next]_vars
             PROVE  TypeOK'
  OBVIOUS
<1> USE DEF TypeOK
<1>1. ASSUME NEW c \in Caller, Ask(c)
      PROVE  TypeOK'
  BY <1>1, GotoType DEF Ask, Pc
<1>2. ASSUME NEW c \in Caller, CallerStep(c)
      PROVE  TypeOK'
  <2> DEFINE s == ScopeOf[c]
  <2>0. s \in Scope /\ MaxCount \in Nat
    BY ThrottlesAssumption DEF ThrottlesAssumption
  <2>1. CASE ReadCooldown(c)
    BY <2>1, GotoType DEF ReadCooldown, Pc
  <2>2. CASE Incr(c)
    <3>1. caller' \in [Caller -> CallerState]
      BY <2>2, GotoType DEF Incr, Pc
    <3>2. count' \in [Scope -> 0 .. MaxCount]
      BY <2>0, <2>2 DEF Incr
    <3>3. QED
      BY <2>2, <3>1, <3>2 DEF Incr
  <2>3. CASE Expire(c)
    BY <2>0, <2>3, GotoType DEF Expire, Pc
  <2>4. CASE StartCall(c)
    <3>1. caller' \in [Caller -> CallerState]
      BY <2>4, GotoType DEF StartCall, Pc
    <3>2. started' \in [Scope -> Nat]
      BY <2>0, <2>4 DEF StartCall
    <3>3. QED
      BY <2>4, <3>1, <3>2 DEF StartCall
  <2>5. CASE EndCall(c)
    BY <2>5, GotoType DEF EndCall, Pc
  <2>6. CASE EndBackoff(c)
    BY <2>6, GotoType DEF EndBackoff, Pc
  <2>7. QED
    BY <1>2, <2>1, <2>2, <2>3, <2>4, <2>5, <2>6 DEF CallerStep
<1>3. ASSUME NEW c \in Caller, HitRateLimit(c)
      PROVE  TypeOK'
  <2>1. caller' \in [Caller -> CallerState]
    <3>1. "backoff" \in Pc
      BY DEF Pc
    <3>2. \A d \in Caller : /\ [caller[d] EXCEPT !.pc = "backoff"] \in CallerState
                            /\ [caller[d] EXCEPT !.cleared = TRUE] \in CallerState
      BY <3>1, CallerStateType
    <3>3. CASE Goto(c, "backoff")
      BY <3>1, <3>3, GotoType
    <3>4. CASE ~Goto(c, "backoff")
      BY <1>3, <3>2, <3>4 DEF HitRateLimit
    <3>5. QED
      BY <3>3, <3>4
  <2>2. cooling' \subseteq Guarded
    BY <1>3 DEF HitRateLimit, CoolingWith
  <2>3. QED
    BY <1>3, <2>1, <2>2 DEF HitRateLimit
<1>4. ASSUME NEW c \in Caller, FailOpen(c)
      PROVE  TypeOK'
  <2>0. ScopeOf[c] \in Scope /\ MaxCount \in Nat
    BY ThrottlesAssumption DEF ThrottlesAssumption
  <2>1. caller' \in [Caller -> CallerState]
    BY <1>4, CallerStateType DEF FailOpen, Pc
  <2>2. count' \in [Scope -> 0 .. MaxCount]
    BY <1>4, <2>0 DEF FailOpen
  <2>3. ttl' \subseteq Scope /\ lost' \subseteq Scope
    BY <1>4, <2>0 DEF FailOpen
  <2>4. QED
    BY <1>4, <2>1, <2>2, <2>3 DEF FailOpen
<1>5. ASSUME NEW c \in Caller, Crash(c)
      PROVE  TypeOK'
  <2>1. ScopeOf[c] \in Scope
    BY ThrottlesAssumption DEF ThrottlesAssumption
  <2>2. caller' \in [Caller -> CallerState]
    BY <1>5, GotoType DEF Crash, Pc
  <2>3. QED
    BY <1>5, <2>1, <2>2 DEF Crash
<1>6. ASSUME NEW s \in Scope, WindowEnds(s)
      PROVE  TypeOK'
  BY <1>6, ThrottlesAssumption DEF WindowEnds, ThrottlesAssumption
<1>7. ASSUME NEW s \in Scope, CooldownEnds(s)
      PROVE  TypeOK'
  BY <1>7 DEF CooldownEnds
<1>8. CASE UNCHANGED vars
  BY <1>8 DEF vars
<1>9. QED
  BY <1>1, <1>2, <1>3, <1>4, <1>5, <1>6, <1>7, <1>8 DEF Next

(* Counters, expiries, cooldowns and callers keep their types, for any     *)
(* callers, scopes, limits and failures (check_rate_limit, gitrecon.py).   *)
THEOREM ThrottlesTypeCorrect == Spec => []TypeOK
BY InitTypeOK, NextTypeOK, PTL DEF Spec

-----------------------------------------------------------------------------

LEMMA NextCounterExpires ==
    TypeOK /\ CounterExpires /\ [Next]_vars => CounterExpires'
<1> SUFFICES ASSUME TypeOK, CounterExpires, [Next]_vars,
                    NEW s \in Scope, count'[s] > 0
             PROVE  \/ s \in ttl' \/ s \in lost'
                    \/ \E c \in Caller : ScopeOf[c] = s /\ At(c, "expire")'
  BY DEF CounterExpires
<1> USE DEF At
(* A caller that is not about to set an expiry owes none.                  *)
<1>1. ASSUME NEW c \in Caller, caller[c].pc # "expire",
             \A d \in Caller \ {c} : caller'[d] = caller[d],
             UNCHANGED <<count, ttl, lost>>
      PROVE  \/ s \in ttl' \/ s \in lost'
             \/ \E d \in Caller : ScopeOf[d] = s /\ At(d, "expire")'
  <2>1. count[s] > 0
    BY <1>1
  <2>2. CASE s \in ttl \/ s \in lost
    BY <1>1, <2>2
  <2>3. CASE \E d \in Caller : ScopeOf[d] = s /\ At(d, "expire")
    BY <1>1, <2>3
  <2>4. QED
    BY <2>1, <2>2, <2>3 DEF CounterExpires
<1>2. ASSUME NEW c \in Caller,
             Ask(c) \/ ReadCooldown(c) \/ StartCall(c) \/ EndCall(c) \/ EndBackoff(c)
      PROVE  \/ s \in ttl' \/ s \in lost'
             \/ \E d \in Caller : ScopeOf[d] = s /\ At(d, "expire")'
  <2>1. caller[c].pc # "expire" /\ UNCHANGED <<count, ttl, lost>>
    BY <1>2 DEF Ask, ReadCooldown, StartCall, EndCall, EndBackoff
  <2>2. \A d \in Caller \ {c} : caller'[d] = caller[d]
    BY <1>2 DEF Ask, ReadCooldown, StartCall, EndCall, EndBackoff, Goto, Leave, TypeOK
  <2>3. QED
    BY <1>1, <2>1, <2>2
<1>3. ASSUME NEW c \in Caller, Incr(c)
      PROVE  \/ s \in ttl' \/ s \in lost'
             \/ \E d \in Caller : ScopeOf[d] = s /\ At(d, "expire")'
  <2>0. /\ \A d \in Caller \ {c} : caller'[d] = caller[d]
        /\ caller[c].pc = "incr"
        /\ UNCHANGED <<ttl, lost>>
    BY <1>3 DEF Incr, Goto, Leave, TypeOK
  <2>1. CASE ScopeOf[c] = s /\ OpensWindow(s)
    <3>1. caller'[c].pc = "expire"
      BY <1>3, <2>1 DEF Incr, Goto, TypeOK, CallerState
    <3>2. QED
      BY <2>1, <3>1
  <2>2. CASE ~(ScopeOf[c] = s /\ OpensWindow(s))
    <3>1. count[s] > 0
      BY <1>3, <2>2, ThrottlesAssumption
      DEF Incr, OpensWindow, TypeOK, ThrottlesAssumption
    <3>2. CASE s \in ttl \/ s \in lost
      BY <2>0, <3>2
    <3>3. CASE \E d \in Caller : ScopeOf[d] = s /\ At(d, "expire")
      BY <2>0, <3>3
    <3>4. QED
      BY <3>1, <3>2, <3>3 DEF CounterExpires
  <2>3. QED
    BY <2>1, <2>2
<1>4. ASSUME NEW c \in Caller, Expire(c)
      PROVE  \/ s \in ttl' \/ s \in lost'
             \/ \E d \in Caller : ScopeOf[d] = s /\ At(d, "expire")'
  <2>1. CASE ScopeOf[c] = s
    BY <1>4, <2>1 DEF Expire
  <2>2. CASE ScopeOf[c] # s
    <3>1. \A d \in Caller \ {c} : caller'[d] = caller[d]
      BY <1>4 DEF Expire, Goto, TypeOK
    <3>2. count[s] > 0 /\ ttl \subseteq ttl' /\ UNCHANGED lost
      BY <1>4 DEF Expire
    <3>3. QED
      BY <2>2, <3>1, <3>2 DEF CounterExpires
  <2>3. QED
    BY <2>1, <2>2
<1>5. ASSUME NEW c \in Caller, HitRateLimit(c)
      PROVE  \/ s \in ttl' \/ s \in lost'
             \/ \E d \in Caller : ScopeOf[d] = s /\ At(d, "expire")'
  <2>1. \A d \in Caller : caller[d].pc = "expire" => caller'[d].pc = "expire"
    BY <1>5 DEF HitRateLimit, Goto, TypeOK, CallerState
  <2>2. UNCHANGED <<count, ttl, lost>>
    BY <1>5 DEF HitRateLimit
  <2>3. QED
    BY <2>1, <2>2 DEF CounterExpires
<1>6. ASSUME NEW c \in Caller, FailOpen(c)
      PROVE  \/ s \in ttl' \/ s \in lost'
             \/ \E d \in Caller : ScopeOf[d] = s /\ At(d, "expire")'
  <2>0. /\ \A d \in Caller \ {c} : caller'[d] = caller[d]
        /\ ttl \subseteq ttl' /\ lost \subseteq lost'
    BY <1>6 DEF FailOpen, TypeOK
  <2>1. CASE ScopeOf[c] = s
    <3>1. CASE caller[c].pc = "expire"
      BY <1>6, <2>1, <3>1 DEF FailOpen
    <3>2. CASE caller[c].pc # "expire"
      <4>1. CASE count[s] > 0
        BY <2>0, <3>2, <4>1 DEF CounterExpires
      <4>2. CASE ~(count[s] > 0)
        <5>1. count[s] = 0
          BY <4>2, ThrottlesAssumption DEF TypeOK, ThrottlesAssumption
        <5>2. QED
          BY <1>6, <2>1, <3>2, <5>1 DEF FailOpen, OpensWindow, TypeOK
      <4>3. QED
        BY <4>1, <4>2
    <3>3. QED
      BY <3>1, <3>2
  <2>2. CASE ScopeOf[c] # s
    <3>1. count'[s] = count[s]
      BY <1>6, <2>2 DEF FailOpen, TypeOK
    <3>2. QED
      BY <2>0, <2>2, <3>1 DEF CounterExpires
  <2>3. QED
    BY <2>1, <2>2
<1>7. ASSUME NEW c \in Caller, Crash(c)
      PROVE  \/ s \in ttl' \/ s \in lost'
             \/ \E d \in Caller : ScopeOf[d] = s /\ At(d, "expire")'
  <2>1. /\ \A d \in Caller \ {c} : caller'[d] = caller[d]
        /\ UNCHANGED <<count, ttl>> /\ lost \subseteq lost'
        /\ caller[c].pc = "expire" => ScopeOf[c] \in lost'
    BY <1>7 DEF Crash, Leave, TypeOK
  <2>2. QED
    BY <2>1 DEF CounterExpires
<1>8. ASSUME NEW t \in Scope, WindowEnds(t)
      PROVE  \/ s \in ttl' \/ s \in lost'
             \/ \E d \in Caller : ScopeOf[d] = s /\ At(d, "expire")'
  <2>1. s # t
    BY <1>8 DEF WindowEnds, TypeOK
  <2>2. count[s] > 0 /\ UNCHANGED <<caller, lost>> /\ (s \in ttl => s \in ttl')
    BY <1>8, <2>1 DEF WindowEnds, TypeOK
  <2>3. QED
    BY <2>2 DEF CounterExpires
<1>9. ASSUME (\E t \in Scope : CooldownEnds(t)) \/ UNCHANGED vars
      PROVE  \/ s \in ttl' \/ s \in lost'
             \/ \E d \in Caller : ScopeOf[d] = s /\ At(d, "expire")'
  <2>1. UNCHANGED <<count, ttl, lost, caller>>
    BY <1>9 DEF CooldownEnds, vars
  <2>2. QED
    BY <2>1 DEF CounterExpires
<1>10. QED
  BY <1>2, <1>3, <1>4, <1>5, <1>6, <1>7, <1>8, <1>9 DEF Next, CallerStep

(* A rate limit's key has its expiry, or is about to get it, whatever      *)
(* callers interleave: only a failed EXPIRE or a death leaves it without   *)
(* (check_rate_limit).                                                     *)
THEOREM CountersExpire == Spec => []CounterExpires
<1>1. Init => CounterExpires
  BY DEF Init, CounterExpires
<1>2. TypeOK /\ CounterExpires /\ [Next]_vars => CounterExpires'
  BY NextCounterExpires
<1>3. QED
  BY <1>1, <1>2, ThrottlesTypeCorrect, PTL DEF Spec

-----------------------------------------------------------------------------

(* A caller that may be affected by a cooldown.                            *)
MayCall(c) == /\ caller[c].pc \in {"incr", "expire", "start", "calling"}
              /\ ScopeOf[c] \in cooling

Excused(c) == caller[c].cleared \/ caller[c].opened

LEMMA NextCooldownRespected ==
    TypeOK /\ CooldownRespected /\ [Next]_vars => CooldownRespected'
<1> SUFFICES ASSUME TypeOK, CooldownRespected, [Next]_vars,
                    NEW d \in Caller, MayCall(d)'
             PROVE  Excused(d)'
  BY DEF CooldownRespected, MayCall, Excused
<1>0. MayCall(d) => Excused(d)
  BY DEF CooldownRespected, MayCall, Excused
<1>1. ASSUME NEW c \in Caller,
             Ask(c) \/ ReadCooldown(c) \/ Incr(c) \/ Expire(c) \/ StartCall(c)
             \/ EndCall(c) \/ EndBackoff(c) \/ Crash(c)
      PROVE  Excused(d)'
  <2>1. UNCHANGED cooling
    BY <1>1 DEF Ask, ReadCooldown, Incr, Expire, StartCall, EndCall, EndBackoff, Crash
  <2>2. CASE d # c
    <3>1. caller'[d] = caller[d]
      BY <1>1, <2>2 DEF Ask, ReadCooldown, Incr, Expire, StartCall, EndCall,
         EndBackoff, Crash, Goto, Leave, TypeOK
    <3>2. QED
      BY <1>0, <2>1, <3>1 DEF MayCall, Excused
  <2>3. CASE d = c
    <3>1. ASSUME NEW pc \in Pc, Goto(c, pc)
          PROVE  caller'[d].pc = pc /\ (Excused(d) => Excused(d)')
      BY <2>3, <3>1 DEF Goto, Excused, TypeOK, CallerState
    <3>2. ASSUME Leave(c)
          PROVE  FALSE
      BY <2>3, <3>2 DEF Leave, Idle, MayCall, TypeOK
    <3>3. CASE Ask(c)
      <4>1. ScopeOf[c] \notin cooling
        <5>1. ScopeOf[c] \in Guarded => caller'[d].pc = "cooldown"
          BY <3>1, <3>3 DEF Ask, Pc
        <5>2. QED
          BY <5>1, <2>3 DEF MayCall, TypeOK
      <4>2. QED
        BY <2>1, <2>3, <4>1 DEF MayCall
    <3>4. CASE ReadCooldown(c)
      BY <2>1, <2>3, <3>2, <3>4 DEF ReadCooldown, SeesCooldown, MayCall
    <3>5. CASE Incr(c) \/ Expire(c) \/ StartCall(c)
      <4>1. MayCall(d)
        BY <2>1, <2>3, <3>5 DEF Incr, Expire, StartCall, At, MayCall
      <4>2. \/ Leave(c) \/ Goto(c, "expire") \/ Goto(c, "start")
            \/ Goto(c, "calling")
        BY <3>5 DEF Incr, Expire, StartCall
      <4>3. QED
        BY <1>0, <3>1, <3>2, <4>1, <4>2 DEF Pc
    <3>6. CASE EndCall(c) \/ EndBackoff(c) \/ Crash(c)
      BY <3>2, <3>6 DEF EndCall, EndBackoff, Crash
    <3>7. QED
      BY <1>1, <3>3, <3>4, <3>5, <3>6
  <2>4. QED
    BY <2>2, <2>3
<1>2. ASSUME NEW c \in Caller, HitRateLimit(c)
      PROVE  Excused(d)'
  <2>1. CASE cooling' = CoolingWith(ScopeOf[c])
             /\ caller' = [e \in Caller |->
                    IF e = c THEN [caller[e] EXCEPT !.pc = "backoff"]
                    ELSE IF e \in PastCooldown(ScopeOf[c])
                         THEN [caller[e] EXCEPT !.cleared = TRUE]
                    ELSE caller[e]]
    <3>1. d # c
      BY <2>1 DEF MayCall, TypeOK, CallerState
    <3>2. CASE d \in PastCooldown(ScopeOf[c])
      BY <2>1, <3>1, <3>2 DEF Excused, TypeOK, CallerState
    <3>3. CASE d \notin PastCooldown(ScopeOf[c])
      <4>1. caller'[d] = caller[d]
        BY <2>1, <3>1, <3>3
      <4>2. ScopeOf[d] # ScopeOf[c]
        BY <3>3, <4>1 DEF PastCooldown, MayCall
      <4>3. MayCall(d)
        BY <2>1, <4>1, <4>2 DEF MayCall, CoolingWith
      <4>4. QED
        BY <1>0, <4>1, <4>3 DEF Excused
    <3>4. QED
      BY <3>2, <3>3
  <2>2. CASE Goto(c, "backoff") /\ UNCHANGED cooling
    <3>1. d # c
      BY <2>2 DEF Goto, MayCall, TypeOK, CallerState
    <3>2. caller'[d] = caller[d]
      BY <2>2, <3>1 DEF Goto, TypeOK
    <3>3. QED
      BY <1>0, <2>2, <3>2 DEF MayCall, Excused
  <2>3. QED
    BY <1>2, <2>1, <2>2 DEF HitRateLimit
<1>3. ASSUME NEW c \in Caller, FailOpen(c)
      PROVE  Excused(d)'
  <2>1. CASE d = c
    BY <1>3, <2>1 DEF FailOpen, Excused, TypeOK, CallerState
  <2>2. CASE d # c
    <3>1. caller'[d] = caller[d] /\ UNCHANGED cooling
      BY <1>3, <2>2 DEF FailOpen, TypeOK
    <3>2. QED
      BY <1>0, <3>1 DEF MayCall, Excused
  <2>3. QED
    BY <2>1, <2>2
<1>4. ASSUME NEW s \in Scope, WindowEnds(s) \/ CooldownEnds(s)
      PROVE  Excused(d)'
  <2>1. UNCHANGED caller /\ cooling' \subseteq cooling
    BY <1>4 DEF WindowEnds, CooldownEnds
  <2>2. QED
    BY <1>0, <2>1 DEF MayCall, Excused
<1>5. CASE UNCHANGED vars
  BY <1>0, <1>5 DEF vars, MayCall, Excused
<1>6. QED
  BY <1>1, <1>2, <1>3, <1>4, <1>5 DEF Next, CallerStep

(* No GitRecon call is made during a cooldown, except by runs that had     *)
(* passed its check before it began or that a Redis error let through      *)
(* (_throttle_allows_call, _apply_rate_limit_backoff).                     *)
THEOREM CooldownIsRespected == Spec => []CooldownRespected
<1>1. Init => CooldownRespected
  BY DEF Init, CooldownRespected
<1>2. TypeOK /\ CooldownRespected /\ [Next]_vars => CooldownRespected'
  BY NextCooldownRespected
<1>3. QED
  BY <1>1, <1>2, ThrottlesTypeCorrect, PTL DEF Spec

-----------------------------------------------------------------------------

(* The counted calls that a window has admitted and that have not begun.   *)
Owed(s) == {c \in Caller : /\ ScopeOf[c] = s
                           /\ caller[c].pc \in {"expire", "start"}
                           /\ ~caller[c].opened}

CallersOf(s) == {c \in Caller : ScopeOf[c] = s}

Admitted(s) == IF count[s] < Limit[s] THEN count[s] ELSE Limit[s]

(* Calls begun and calls owed are covered by what the counter has admitted *)
(* and by one call of an earlier window for each caller.                   *)
BudgetInv ==
    \A s \in Scope : started[s] + Cardinality(Owed(s))
                        <= Admitted(s) + Cardinality(CallersOf(s))

LEMMA OwedFinite ==
    ASSUME NEW s
    PROVE  /\ IsFiniteSet(Owed(s)) /\ Cardinality(Owed(s)) \in Nat
           /\ IsFiniteSet(CallersOf(s)) /\ Cardinality(CallersOf(s)) \in Nat
           /\ Cardinality(Owed(s)) <= Cardinality(CallersOf(s))
<1>1. IsFiniteSet(Caller) /\ Owed(s) \subseteq Caller /\ CallersOf(s) \subseteq Caller
      /\ Owed(s) \subseteq CallersOf(s)
  BY ThrottlesAssumption DEF ThrottlesAssumption, Owed, CallersOf
<1>2. QED
  BY <1>1, FS_Subset, FS_CardinalityType

(* A step of one caller moves nobody else in or out of the owed calls.     *)
LEMMA OwedMoves ==
    ASSUME NEW s, NEW c \in Caller,
           \A d \in Caller \ {c} : caller'[d] = caller[d]
    PROVE  /\ Cardinality(Owed(s)') \in Nat
           /\ Cardinality(Owed(s)') <= Cardinality(Owed(s)) + 1
           /\ c \in Owed(s) \/ c \notin Owed(s)'
                 => Cardinality(Owed(s)') <= Cardinality(Owed(s))
           /\ c \in Owed(s) /\ c \notin Owed(s)'
                 => Cardinality(Owed(s)') + 1 <= Cardinality(Owed(s))
<1> DEFINE before == Owed(s)
           after == Owed(s)'
<1>1. after \subseteq before \cup {c}
  BY DEF Owed
<1>2. IsFiniteSet(before) /\ Cardinality(before) \in Nat
  BY OwedFinite
<1> HIDE DEF before, after
<1>3. /\ IsFiniteSet(before \cup {c})
      /\ Cardinality(before \cup {c}) =
            IF c \in before THEN Cardinality(before) ELSE Cardinality(before) + 1
  BY <1>2, FS_AddElement
<1>4. IsFiniteSet(after) /\ Cardinality(after) \in Nat
      /\ Cardinality(after) <= Cardinality(before \cup {c})
  BY <1>1, <1>3, FS_Subset, FS_CardinalityType
<1>5. ASSUME c \notin after PROVE Cardinality(after) <= Cardinality(before)
  <2>1. after \subseteq before
    BY <1>1, <1>5
  <2>2. QED
    BY <1>2, <2>1, FS_Subset
<1>6. ASSUME c \in before, c \notin after
      PROVE  Cardinality(after) + 1 <= Cardinality(before)
  <2>1. after \subseteq before \ {c}
    BY <1>1, <1>6
  <2>2. IsFiniteSet(before \ {c}) /\ Cardinality(before \ {c}) = Cardinality(before) - 1
    BY <1>2, <1>6, FS_RemoveElement
  <2>3. Cardinality(after) <= Cardinality(before \ {c})
    BY <2>1, <2>2, FS_Subset
  <2>4. QED
    BY <1>2, <1>4, <2>2, <2>3
<1>7. QED
  BY <1>2, <1>3, <1>4, <1>5, <1>6 DEF before, after

LEMMA NextBudget == TypeOK /\ BudgetInv /\ [Next]_vars => BudgetInv'
<1> SUFFICES ASSUME TypeOK, BudgetInv, [Next]_vars, NEW s \in Scope
             PROVE  started'[s] + Cardinality(Owed(s)')
                       <= Admitted(s)' + Cardinality(CallersOf(s))
  BY DEF BudgetInv, CallersOf
<1> DEFINE owed == Cardinality(Owed(s))
           n == Cardinality(CallersOf(s))
           goal == started'[s] + Cardinality(Owed(s)') <= Admitted(s)' + n
<1>0. /\ started[s] + owed <= Admitted(s) + n
      /\ owed \in Nat /\ n \in Nat /\ owed <= n
      /\ started[s] \in Nat /\ count[s] \in Nat /\ Limit[s] \in Nat \ {0}
  BY OwedFinite, ThrottlesAssumption DEF BudgetInv, TypeOK, ThrottlesAssumption
<1> HIDE DEF owed, n
<1>1. ASSUME NEW c \in Caller,
             Ask(c) \/ ReadCooldown(c) \/ Expire(c) \/ EndCall(c) \/ EndBackoff(c)
             \/ Crash(c)
      PROVE  goal
  <2>1. \A d \in Caller \ {c} : caller'[d] = caller[d]
    BY <1>1 DEF Ask, ReadCooldown, Expire, EndCall, EndBackoff, Crash, Goto, Leave, TypeOK
  <2>2. c \in Owed(s) \/ c \notin Owed(s)'
    <3>1. CASE Expire(c)
      BY <3>1 DEF Expire, At, Goto, Owed, TypeOK, CallerState
    <3>2. CASE ~Expire(c)
      BY <1>1, <3>2 DEF Ask, ReadCooldown, EndCall, EndBackoff, Crash, Goto, Leave, Owed,
         TypeOK, CallerState, Idle
    <3>3. QED
      BY <3>1, <3>2
  <2>3. UNCHANGED <<count, started>>
    BY <1>1 DEF Ask, ReadCooldown, Expire, EndCall, EndBackoff, Crash
  <2>4. QED
    BY <1>0, <2>1, <2>2, <2>3, OwedMoves DEF Admitted, owed
<1>2. ASSUME NEW c \in Caller, Incr(c)
      PROVE  goal
  <2>1. \A d \in Caller \ {c} : caller'[d] = caller[d]
    BY <1>2 DEF Incr, Goto, Leave, TypeOK
  <2>2. UNCHANGED started
    BY <1>2 DEF Incr
  <2>3. CASE ScopeOf[c] = s
    <3>1. count'[s] = count[s] + 1
      BY <1>2, <2>3 DEF Incr, TypeOK
    <3>2. CASE OpensWindow(s) \/ WithinLimit(s)
      <4>1. Admitted(s)' = Admitted(s) + 1 /\ Admitted(s) \in Nat
        BY <1>0, <3>1, <3>2 DEF Admitted, OpensWindow, WithinLimit
      <4>2. Cardinality(Owed(s)') \in Nat /\ Cardinality(Owed(s)') <= owed + 1
        BY <2>1, OwedMoves DEF owed
      <4>3. QED
        BY <1>0, <2>2, <4>1, <4>2
    <3>3. CASE ~OpensWindow(s) /\ ~WithinLimit(s)
      <4>1. c \notin Owed(s)'
        BY <1>2, <2>3, <3>3 DEF Incr, Leave, Owed, TypeOK, Idle
      <4>2. Admitted(s) <= Admitted(s)'
        BY <1>0, <3>1 DEF Admitted
      <4>3. QED
        BY <1>0, <2>1, <2>2, <3>1, <4>1, <4>2, OwedMoves DEF Admitted, owed
    <3>4. QED
      BY <3>2, <3>3
  <2>4. CASE ScopeOf[c] # s
    <3>1. count'[s] = count[s] /\ c \notin Owed(s)'
      BY <1>2, <2>4 DEF Incr, Owed, TypeOK
    <3>2. QED
      BY <1>0, <2>1, <2>2, <3>1, OwedMoves DEF Admitted, owed
  <2>5. QED
    BY <2>3, <2>4
<1>3. ASSUME NEW c \in Caller, StartCall(c)
      PROVE  goal
  <2>1. (\A d \in Caller \ {c} : caller'[d] = caller[d]) /\ UNCHANGED count
    BY <1>3 DEF StartCall, Goto, TypeOK
  <2>2. c \notin Owed(s)'
    BY <1>3 DEF StartCall, Goto, Owed, TypeOK, CallerState
  <2>3. CASE ScopeOf[c] = s /\ ~caller[c].opened
    <3>1. started'[s] = started[s] + 1
      BY <1>3, <2>3 DEF StartCall, TypeOK
    <3>2. c \in Owed(s)
      BY <1>3, <2>3 DEF StartCall, At, Owed
    <3>3. QED
      BY <1>0, <2>1, <2>2, <3>1, <3>2, OwedMoves DEF Admitted, owed
  <2>4. CASE ~(ScopeOf[c] = s /\ ~caller[c].opened)
    <3>1. started'[s] = started[s]
      BY <1>3, <2>4 DEF StartCall, TypeOK
    <3>2. QED
      BY <1>0, <2>1, <2>2, <3>1, OwedMoves DEF Admitted, owed
  <2>5. QED
    BY <2>3, <2>4
<1>4. ASSUME NEW c \in Caller, FailOpen(c)
      PROVE  goal
  <2>1. /\ \A d \in Caller \ {c} : caller'[d] = caller[d]
        /\ UNCHANGED started /\ caller'[c].opened
    BY <1>4 DEF FailOpen, TypeOK, CallerState
  <2>2. c \notin Owed(s)'
    BY <2>1 DEF Owed
  <2>3. count'[s] \in {count[s], count[s] + 1}
    BY <1>4 DEF FailOpen, TypeOK
  <2>4. Admitted(s) <= Admitted(s)' /\ Admitted(s)' \in Nat
    BY <1>0, <2>3 DEF Admitted
  <2>5. QED
    BY <1>0, <2>1, <2>2, <2>4, OwedMoves DEF Admitted, owed
<1>5. ASSUME (\E c \in Caller : HitRateLimit(c)) \/ (\E t \in Scope : CooldownEnds(t))
             \/ UNCHANGED vars
      PROVE  goal
  <2>1. UNCHANGED <<count, started>>
    BY <1>5 DEF HitRateLimit, CooldownEnds, vars
  <2>2. Owed(s)' = Owed(s)
    <3>1. CASE UNCHANGED caller
      BY <3>1 DEF Owed
    <3>2. ASSUME NEW c \in Caller, HitRateLimit(c) PROVE Owed(s)' = Owed(s)
      <4>1. \A d \in Caller \ {c} : caller'[d].pc = caller[d].pc
                                    /\ caller'[d].opened = caller[d].opened
        BY <3>2 DEF HitRateLimit, Goto, TypeOK, CallerState
      <4>2. caller[c].pc = "calling" /\ caller'[c].pc = "backoff"
        BY <3>2 DEF HitRateLimit, At, Goto, TypeOK, CallerState
      <4>3. QED
        BY <4>1, <4>2 DEF Owed
    <3>3. QED
      BY <1>5, <3>1, <3>2 DEF CooldownEnds, vars
  <2>3. QED
    BY <1>0, <2>1, <2>2 DEF Admitted, owed
<1>6. ASSUME NEW t \in Scope, WindowEnds(t)
      PROVE  goal
  <2>1. Owed(s)' = Owed(s)
    BY <1>6 DEF WindowEnds, Owed
  <2>2. CASE s = t
    BY <1>0, <1>6, <2>1, <2>2 DEF WindowEnds, Admitted, TypeOK, owed
  <2>3. CASE s # t
    BY <1>0, <1>6, <2>1, <2>3 DEF WindowEnds, Admitted, TypeOK, owed
  <2>4. QED
    BY <2>2, <2>3
<1> HIDE DEF goal
<1>7. goal
  BY <1>1, <1>2, <1>3, <1>4, <1>5, <1>6 DEF Next, CallerStep
<1>8. QED
  BY <1>7 DEF goal, n

(* However callers interleave and windows end, a window sees no more than  *)
(* its limit of counted calls, and one straggler of an earlier window for  *)
(* each caller: check and INCR being one command, requests cannot race     *)
(* each other past the limit (check_rate_limit).                           *)
THEOREM BudgetsHold == Spec => []BudgetPerWindow
<1>1. Init => BudgetInv
  <2> SUFFICES ASSUME Init, NEW s \in Scope
               PROVE  started[s] + Cardinality(Owed(s))
                         <= Admitted(s) + Cardinality(CallersOf(s))
    BY DEF BudgetInv
  <2>1. started[s] = 0 /\ Admitted(s) = 0
    BY ThrottlesAssumption DEF Init, Admitted, ThrottlesAssumption
  <2>2. QED
    BY <2>1, OwedFinite
<1>2. TypeOK /\ BudgetInv /\ [Next]_vars => BudgetInv'
  BY NextBudget
<1>3. TypeOK /\ BudgetInv => BudgetPerWindow
  <2> SUFFICES ASSUME TypeOK, BudgetInv, NEW s \in Scope
               PROVE  started[s] <= Limit[s] + Cardinality(CallersOf(s))
    BY DEF BudgetPerWindow, CallersOf
  <2>1. Limit[s] \in Nat /\ count[s] \in Nat /\ started[s] \in Nat
    BY ThrottlesAssumption DEF ThrottlesAssumption, TypeOK
  <2>2. QED
    BY <2>1, OwedFinite DEF BudgetInv, Admitted
<1>4. QED
  BY <1>1, <1>2, <1>3, ThrottlesTypeCorrect, PTL DEF Spec

=============================================================================
