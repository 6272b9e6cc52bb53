-------------------------- MODULE SuppressionProofs --------------------------
(***************************************************************************)
(* Proof that the two stores of Suppression implement the one growing list *)
(* of SuppressionList, for any number of identifiers, handlers and checks. *)
(***************************************************************************)
EXTENDS Suppression, TLAPS

StoresInv == TypeOK /\ CacheWithinList /\ CommittedFirst /\ CheckedSoFar

LEMMA InitStores == Init => StoresInv
BY DEF Init, StoresInv, TypeOK, CacheWithinList, CommittedFirst, CheckedSoFar,
   AddState, CheckState

LEMMA ValuesFact ==
    ASSUME NEW c \in Check
    PROVE  /\ Values[c] \in Seq(Identifier)
           /\ Len(Values[c]) \in Nat \ {0}
           /\ \A n \in 1 .. Len(Values[c]) : Values[c][n] \in Identifier
<1>1. Values[c] \in Seq(Identifier) /\ Values[c] # << >>
  BY SuppressionAssumption DEF SuppressionAssumption
<1>2. QED
  BY <1>1

(* The calls of add_suppression keep the invariant.                        *)
LEMMA AddKeeps ==
    ASSUME StoresInv, NEW h \in Handler,
           \/ Merge(h) \/ Commit(h) \/ CommitConflicts(h) \/ CacheAdded(h)
           \/ AddAborts(h)
    PROVE  StoresInv'
<1> USE SuppressionAssumption DEF StoresInv, TypeOK, CacheWithinList,
        CommittedFirst, CheckedSoFar, Current, SuppressionAssumption
<1>a. ASSUME NEW pc \in {"idle", "commit", "cache"}
      PROVE  [add[h] EXCEPT !.pc = pc] \in AddState
  BY DEF AddState
<1>1. CASE Merge(h)
  BY <1>1 DEF Merge, AddState
<1>2. CASE Commit(h)
  BY <1>2, <1>a DEF Commit
<1>3. CASE CommitConflicts(h)
  BY <1>3, <1>a DEF CommitConflicts
<1>4. CASE CacheAdded(h)
  BY <1>4, <1>a DEF CacheAdded, CacheWrite
<1>5. CASE AddAborts(h)
  BY <1>5, <1>a DEF AddAborts
<1>6. QED
  BY <1>1, <1>2, <1>3, <1>4, <1>5

(* So do the checks: each step replaces one check by a good one.           *)
LEMMA CheckKeeps ==
    ASSUME StoresInv, NEW c \in Check,
           Begin(c) \/ AskCache(c) \/ AskList(c) \/ Backfill(c) \/ CheckAborts(c)
    PROVE  StoresInv'
<1> DEFINE Good(r, d) ==
        /\ r \in CheckState
        /\ r.pc # "idle" =>
              /\ r.at \in 1 .. Len(Values[d])
              /\ r.since \subseteq sql
              /\ \A n \in 1 .. Len(Values[d]) :
                    n < r.at => Values[d][n] \notin r.since
              /\ r.pc = "backfill" => Values[d][r.at] \in sql
<1>1. Good(check[c], c) /\ check \in [Check -> CheckState] /\ redis \subseteq sql
  BY DEF StoresInv, TypeOK, CacheWithinList, CheckedSoFar, Current
<1>2. sql' = sql /\ add' = add
  BY DEF Begin, AskCache, AskList, Backfill, CheckAborts
<1>3. redis' \subseteq sql
  BY <1>1 DEF Begin, AskCache, AskList, Backfill, CheckAborts, CacheWrite, Current
<1>4. ASSUME NEW r, Good(r, c), check' = [check EXCEPT ![c] = r]
      PROVE  StoresInv'
  <2>1. \A d \in Check : check'[d] = IF d = c THEN r ELSE check[d]
    BY <1>1, <1>4
  <2>2. check' \in [Check -> CheckState]
    BY <1>1, <1>4
  <2>3. redis' \subseteq sql' /\ sql' \subseteq Identifier /\ add' \in [Handler -> AddState]
    BY <1>2, <1>3 DEF StoresInv, TypeOK
  <2>4. \A d \in Check : Good(check[d], d)
    BY <1>1 DEF StoresInv, TypeOK, CheckedSoFar, Current
  <2>5. \A d \in Check : Good(check'[d], d)
    BY <1>4, <2>1, <2>4
  <2>6. TypeOK'
    BY <2>2, <2>3, <2>5 DEF TypeOK
  <2>7. CheckedSoFar'
    BY <1>2, <2>5 DEF CheckedSoFar, Current
  <2>8. CommittedFirst'
    BY <1>2 DEF StoresInv, CommittedFirst
  <2>9. QED
    BY <2>3, <2>6, <2>7, <2>8 DEF StoresInv, CacheWithinList
<1> HIDE DEF Good
<1>5. CASE Begin(c)
  <2> DEFINE r == [pc |-> "cache", at |-> 1, since |-> sql, answer |-> "none"]
  <2>1. Good(r, c)
    BY ValuesFact DEF Good, CheckState, StoresInv, TypeOK
  <2>2. QED
    BY <1>4, <1>5, <2>1 DEF Begin
<1>6. ASSUME NEW a \in {"none", "clear", "suppressed"},
             check' = [check EXCEPT ![c] = [check[c] EXCEPT !.pc = "idle", !.answer = a]]
      PROVE  StoresInv'
  <2> DEFINE r == [check[c] EXCEPT !.pc = "idle", !.answer = a]
  <2>1. r \in CheckState /\ r.pc = "idle"
    BY <1>1 DEF CheckState
  <2>2. Good(r, c)
    BY <2>1 DEF Good
  <2>3. QED
    BY <1>4, <1>6, <2>2
<1>7. CASE AskCache(c)
  <2>1. CASE check' = [check EXCEPT ![c].pc = "idle", ![c].answer = "suppressed"]
    BY <1>6, <2>1
  <2>2. CASE check' = [check EXCEPT ![c].pc = "list"]
    <3> DEFINE r == [check[c] EXCEPT !.pc = "list"]
    <3>1. check[c].pc = "cache"
      BY <1>7 DEF AskCache
    <3>2. Good(r, c)
      BY <1>1, <3>1 DEF Good, CheckState
    <3>3. QED
      BY <1>4, <2>2, <3>2
  <2>3. QED
    BY <1>7, <2>1, <2>2 DEF AskCache
<1>8. CASE AskList(c)
  <2>1. check[c].pc = "list"
    BY <1>8 DEF AskList
  <2>2. CASE Current(c) \in sql
    <3> DEFINE r == [check[c] EXCEPT !.pc = "backfill"]
    <3>1. Good(r, c)
      BY <1>1, <2>1, <2>2 DEF Good, CheckState, Current
    <3>2. QED
      BY <1>4, <1>8, <2>2, <3>1 DEF AskList
  <2>3. CASE Current(c) \notin sql /\ check[c].at < Len(Values[c])
    <3> DEFINE r == [check[c] EXCEPT !.pc = "cache", !.at = check[c].at + 1]
    <3>1. check[c].at \in 1 .. Len(Values[c]) /\ check[c].since \subseteq sql
      BY <1>1, <2>1 DEF Good
    <3>2. r.at = check[c].at + 1 /\ r.pc = "cache" /\ r.since = check[c].since
      BY <1>1 DEF CheckState
    <3>3. r \in CheckState
      <4>1. check[c] \in CheckState /\ check[c].at + 1 \in Nat
        BY <1>1, <3>1, ValuesFact
      <4>2. QED
        BY <4>1 DEF CheckState
    <3>4. \A n \in 1 .. Len(Values[c]) :
             n < check[c].at + 1 => n < check[c].at \/ n = check[c].at
      BY <3>1, ValuesFact
    <3>5. \A n \in 1 .. Len(Values[c]) :
             n < check[c].at + 1 => Values[c][n] \notin check[c].since
      BY <1>1, <2>1, <2>3, <3>1, <3>4 DEF Good, Current
    <3>6. check[c].at + 1 \in 1 .. Len(Values[c])
      BY <2>3, <3>1, ValuesFact
    <3>7. Good(r, c)
      BY <3>1, <3>2, <3>3, <3>5, <3>6 DEF Good
    <3>8. QED
      BY <1>4, <1>8, <2>3, <3>7 DEF AskList
  <2>4. CASE Current(c) \notin sql /\ ~(check[c].at < Len(Values[c]))
    BY <1>6, <1>8, <2>4 DEF AskList
  <2>5. QED
    BY <2>2, <2>3, <2>4
<1>9. CASE Backfill(c)
  BY <1>6, <1>9 DEF Backfill
<1>10. CASE CheckAborts(c)
  <2> DEFINE r == [check[c] EXCEPT !.pc = "idle"]
  <2>1. r \in CheckState /\ r.pc = "idle"
    BY <1>1 DEF CheckState
  <2>2. Good(r, c)
    BY <2>1 DEF Good
  <2>3. QED
    BY <1>4, <1>10, <2>2 DEF CheckAborts
<1>11. QED
  BY <1>5, <1>7, <1>8, <1>9, <1>10

LEMMA NextStores == StoresInv /\ [Next]_vars => StoresInv'
<1>1. ASSUME StoresInv, NEW i \in Identifier, RedisLoses(i) PROVE StoresInv'
  BY <1>1 DEF RedisLoses, StoresInv, TypeOK, CacheWithinList, CommittedFirst,
     CheckedSoFar, Current
<1>2. ASSUME StoresInv, UNCHANGED vars PROVE StoresInv'
  BY <1>2 DEF vars, StoresInv, TypeOK, CacheWithinList, CommittedFirst,
     CheckedSoFar, Current
<1>3. QED
  BY <1>1, <1>2, AddKeeps, CheckKeeps DEF Next

LEMMA StoresCorrect == Spec => []StoresInv
BY InitStores, NextStores, PTL DEF Spec

(* Stores, adding calls and checks keep their types, whatever conflicts,   *)
(* aborts or is lost.                                                      *)
THEOREM StoresTyped == Spec => []TypeOK
<1>1. StoresInv => TypeOK
  BY DEF StoresInv
<1>2. QED
  BY <1>1, StoresCorrect, PTL

(* The Redis set stays within the durable table.                           *)
THEOREM CacheStaysWithinList == Spec => []CacheWithinList
<1>1. StoresInv => CacheWithinList
  BY DEF StoresInv
<1>2. QED
  BY <1>1, StoresCorrect, PTL

-----------------------------------------------------------------------------
(* Refinement.                                                             *)

LEMMA ListInit == Init => List!Init
<1> SUFFICES ASSUME Init PROVE List!Init
  OBVIOUS
<1>1. \A c \in Check : /\ (check[c].pc # "idle") = FALSE
                        /\ check[c].since = {} /\ check[c].answer = "none"
  BY DEF Init
<1>2. ListCheck = [c \in Check |-> [open |-> FALSE, since |-> {}, answer |-> "none"]]
  BY <1>1 DEF ListCheck
<1>3. QED
  BY <1>2 DEF Init, List!Init

(* Replacing one check replaces one check of the list.                     *)
LEMMA ListCheckExcept ==
    ASSUME NEW c \in Check, NEW r, check \in [Check -> CheckState],
           check' = [check EXCEPT ![c] = r]
    PROVE  ListCheck' = [ListCheck EXCEPT ![c] =
                            [open   |-> r.pc # "idle",
                             since  |-> r.since,
                             answer |-> r.answer]]
BY DEF ListCheck

(* The commit of a row is the step of the list; an answer is given by the  *)
(* step that closes the check; everything else is invisible.               *)
LEMMA ListNext == StoresInv /\ [Next]_vars => [List!Next]_<<sql, ListCheck>>
<1> SUFFICES ASSUME StoresInv, Next
             PROVE  List!Next \/ UNCHANGED <<sql, ListCheck>>
  BY DEF vars, ListCheck
<1> USE DEF StoresInv, TypeOK
<1>1. ASSUME UNCHANGED <<sql, check>> PROVE UNCHANGED <<sql, ListCheck>>
  BY <1>1 DEF ListCheck
<1>2. ASSUME NEW h \in Handler, Commit(h) PROVE List!Next
  <2>1. ListCheck' = ListCheck
    BY <1>2 DEF Commit, ListCheck
  <2>2. Target[h] \in Identifier
    BY SuppressionAssumption DEF SuppressionAssumption
  <2>3. QED
    BY <1>2, <2>1, <2>2 DEF Commit, List!Next, List!Add
<1>3. ASSUME NEW c \in Check, Begin(c) PROVE List!Next
  <2>1. ListCheck' = [ListCheck EXCEPT
            ![c] = [open |-> TRUE, since |-> sql, answer |-> "none"]]
    BY <1>3, ListCheckExcept DEF Begin
  <2>2. ~ListCheck[c].open
    BY <1>3 DEF Begin, ListCheck
  <2>3. QED
    BY <1>3, <2>1, <2>2 DEF Begin, List!Next, List!Begin
(* What a step that closes check c with answer a does to the list.         *)
<1>4. ASSUME NEW c \in Check, NEW a \in {"none", "clear", "suppressed"},
             check' = [check EXCEPT ![c].pc = "idle", ![c].answer = a]
      PROVE  ListCheck' = [ListCheck EXCEPT ![c].open = FALSE, ![c].answer = a]
  <2> DEFINE r == [check[c] EXCEPT !.pc = "idle", !.answer = a]
  <2>1. (r.pc # "idle") = FALSE /\ r.since = check[c].since /\ r.answer = a
    BY DEF CheckState
  <2>2. check' = [check EXCEPT ![c] = r]
    BY <1>4
  <2>3. ListCheck' = [ListCheck EXCEPT ![c] =
            [open |-> r.pc # "idle", since |-> r.since, answer |-> r.answer]]
    BY <2>2, ListCheckExcept
  <2>4. ListCheck' = [ListCheck EXCEPT ![c] =
                         [open |-> FALSE, since |-> check[c].since, answer |-> a]]
    BY <2>1, <2>3
  <2>5. QED
    BY <2>4 DEF ListCheck
<1>5. ASSUME NEW c \in Check, Current(c) \in sql, check[c].pc # "idle", sql' = sql,
             check' = [check EXCEPT ![c].pc = "idle", ![c].answer = "suppressed"]
      PROVE  List!Next
  <2>1. ListCheck' = [ListCheck EXCEPT ![c].open = FALSE, ![c].answer = "suppressed"]
    BY <1>4, <1>5
  <2>2. ListCheck[c].open
    BY <1>5 DEF ListCheck
  <2>3. List!Named(c) \cap sql # {}
    BY <1>5 DEF List!Named, Current
  <2>4. QED
    BY <1>5, <2>1, <2>2, <2>3 DEF List!Next, List!AnswerSuppressed
<1>6. ASSUME NEW c \in Check, check[c].pc # "idle", check'[c].pc # "idle",
             check' = [check EXCEPT ![c] = check'[c]], sql' = sql,
             check'[c].since = check[c].since, check'[c].answer = check[c].answer
      PROVE  UNCHANGED <<sql, ListCheck>>
  BY <1>6 DEF ListCheck
<1>7. ASSUME NEW c \in Check, AskCache(c)
      PROVE  List!Next \/ UNCHANGED <<sql, ListCheck>>
  <2>1. check[c].pc = "cache" /\ sql' = sql
    BY <1>7 DEF AskCache
  <2>2. CASE /\ Current(c) \in redis
             /\ check' = [check EXCEPT ![c].pc = "idle", ![c].answer = "suppressed"]
    BY <1>5, <2>1, <2>2 DEF CacheWithinList
  <2>3. CASE check' = [check EXCEPT ![c].pc = "list"]
    <3>1. check'[c] = [check[c] EXCEPT !.pc = "list"]
      BY <2>3
    <3>2. /\ check'[c].pc = "list"
          /\ check'[c].since = check[c].since /\ check'[c].answer = check[c].answer
      BY <3>1 DEF CheckState
    <3>3. QED
      BY <1>6, <2>1, <2>3, <3>1, <3>2
  <2>4. QED
    BY <1>7, <2>2, <2>3 DEF AskCache
<1>8. ASSUME NEW c \in Check, AskList(c)
      PROVE  List!Next \/ UNCHANGED <<sql, ListCheck>>
  <2>1. check[c].pc = "list" /\ sql' = sql
    BY <1>8 DEF AskList
  <2>2. CASE Current(c) \in sql
    <3>1. check' = [check EXCEPT ![c].pc = "backfill"]
      BY <1>8, <2>2 DEF AskList
    <3>2. check'[c] = [check[c] EXCEPT !.pc = "backfill"]
      BY <3>1
    <3>3. /\ check'[c].pc = "backfill"
          /\ check'[c].since = check[c].since /\ check'[c].answer = check[c].answer
      BY <3>2 DEF CheckState
    <3>4. QED
      BY <1>6, <2>1, <3>1, <3>2, <3>3
  <2>3. CASE Current(c) \notin sql /\ check[c].at < Len(Values[c])
    <3>1. check' = [check EXCEPT ![c].pc = "cache", ![c].at = check[c].at + 1]
      BY <1>8, <2>3 DEF AskList
    <3>2. check'[c] = [check[c] EXCEPT !.pc = "cache", !.at = check[c].at + 1]
      BY <3>1
    <3>3. /\ check'[c].pc = "cache"
          /\ check'[c].since = check[c].since /\ check'[c].answer = check[c].answer
      BY <3>2 DEF CheckState
    <3>4. QED
      BY <1>6, <2>1, <3>1, <3>2, <3>3
  <2>4. CASE Current(c) \notin sql /\ ~(check[c].at < Len(Values[c]))
    <3>1. ListCheck' = [ListCheck EXCEPT ![c].open = FALSE, ![c].answer = "clear"]
      BY <1>4, <1>8, <2>4 DEF AskList
    <3>2. ListCheck[c].open /\ ListCheck[c].since = check[c].since
      BY <2>1 DEF ListCheck
    <3>3. check[c].at \in 1 .. Len(Values[c]) /\ Len(Values[c]) \in Nat
      BY <2>1, ValuesFact
    <3>4. \A n \in 1 .. Len(Values[c]) : n < check[c].at \/ n = check[c].at
      BY <2>4, <3>3
    <3>5. \A n \in 1 .. Len(Values[c]) : Values[c][n] \notin check[c].since
      BY <2>1, <2>4, <3>4 DEF CheckedSoFar, Current
    <3>6. List!Named(c) \cap check[c].since = {}
      BY <3>5 DEF List!Named
    <3>7. QED
      BY <2>1, <3>1, <3>2, <3>6 DEF List!Next, List!AnswerClear
  <2>5. QED
    BY <2>2, <2>3, <2>4
<1>9. ASSUME NEW c \in Check, Backfill(c) PROVE List!Next
  BY <1>5, <1>9 DEF Backfill, CheckedSoFar
<1>10. ASSUME NEW c \in Check, CheckAborts(c) PROVE List!Next
  <2> DEFINE r == [check[c] EXCEPT !.pc = "idle"]
  <2>1. r.pc = "idle" /\ r.since = check[c].since /\ r.answer = check[c].answer
    BY DEF CheckState
  <2>2. ListCheck' = [ListCheck EXCEPT ![c] =
            [open |-> FALSE, since |-> check[c].since, answer |-> check[c].answer]]
    BY <1>10, <2>1, ListCheckExcept DEF CheckAborts
  <2>3. ListCheck' = [ListCheck EXCEPT ![c].open = FALSE] /\ ListCheck[c].open
    BY <1>10, <2>2 DEF ListCheck, CheckAborts
  <2>4. QED
    BY <1>10, <2>3 DEF CheckAborts, List!Next, List!Abandon
<1>11. QED
  BY <1>1, <1>2, <1>3, <1>7, <1>8, <1>9, <1>10
  DEF Next, Merge, CommitConflicts, CacheAdded, AddAborts, RedisLoses

(* A check that answers "clear" began when none of its identifiers was     *)
(* listed, and one that answers "suppressed" names one that is.            *)
THEOREM StoresImplementList == Spec => ImplementsList
BY ListInit, ListNext, StoresCorrect, PTL DEF Spec, ImplementsList, List!Spec

=============================================================================
