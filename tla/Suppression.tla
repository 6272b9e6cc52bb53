----------------------------- MODULE Suppression -----------------------------
(***************************************************************************)
(* The suppression list (app/compliance/suppression.py): a SQL table, the  *)
(* durable record, and a Redis set kept as its fast path.  Handlers add to *)
(* both, checks read Redis first and fall back to SQL, putting what they   *)
(* find there into Redis.  Redis may fail any call, with or without having *)
(* done it, and may come back without some of what it held.                *)
(***************************************************************************)
EXTENDS Naturals, Sequences

CONSTANTS Identifier, \* hashes of identifiers
          Handler,    \* calls of add_suppression
          Target,     \* Target[h]: the identifier that h adds
          Check,      \* calls of is_request_suppressed and check_suppression
          Values,     \* Values[c]: the identifiers of c's request, in order
          Faults      \* which kinds of failure this instance exhibits

FaultKind == {"outage",  \* a Redis call raises RedisError
              "loss",    \* Redis restarts without its latest writes
              "abort"}   \* a caller dies, or the database raises

ASSUME SuppressionAssumption ==
    /\ Target \in [Handler -> Identifier]
    /\ Values \in [Check -> Seq(Identifier) \ {<< >>}]
    /\ Faults \subseteq FaultKind

VARIABLES sql,   \* committed suppression_list rows
          redis, \* the suppression:hashes set
          add,   \* where each call of add_suppression stands
          check  \* where each check stands

vars == <<sql, redis, add, check>>

(* found: the SELECT of merge() saw the row, so it will not INSERT.        *)
AddState == [pc : {"idle", "commit", "cache"}, found : BOOLEAN]

(* at: the position of the identifier being checked.  since (history): the *)
(* list when the check began.                                              *)
CheckState == [pc     : {"idle", "cache", "list", "backfill"},
               at     : Nat,
               since  : SUBSET Identifier,
               answer : {"none", "clear", "suppressed"}]

TypeOK ==
    /\ sql \subseteq Identifier
    /\ redis \subseteq Identifier
    /\ add \in [Handler -> AddState]
    /\ check \in [Check -> CheckState]
    /\ \A c \in Check : check[c].pc # "idle" => check[c].at \in 1 .. Len(Values[c])

Init ==
    /\ sql = {}
    /\ redis = {}
    /\ add = [h \in Handler |-> [pc |-> "idle", found |-> FALSE]]
    /\ check = [c \in Check |-> [pc |-> "idle", at |-> 0, since |-> {},
                                 answer |-> "none"]]

-----------------------------------------------------------------------------
(* add_suppression                                                         *)

(* Mutant: Redis is written before the row is committed. *)
MergeCachingFirst(h) ==
    /\ add[h].pc = "idle"
    /\ add' = [add EXCEPT ![h] = [pc |-> "commit", found |-> Target[h] \in sql]]
    /\ redis' = redis \cup {Target[h]}
    /\ UNCHANGED <<sql, check>>

Merge(h) ==
    /\ add[h].pc = "idle"
    /\ add' = [add EXCEPT ![h] = [pc |-> "commit", found |-> Target[h] \in sql]]
    /\ UNCHANGED <<sql, redis, check>>

Commit(h) ==
    /\ add[h].pc = "commit"
    /\ add[h].found \/ Target[h] \notin sql
    /\ sql' = sql \cup {Target[h]}
    /\ add' = [add EXCEPT ![h].pc = "cache"]
    /\ UNCHANGED <<redis, check>>

(* Another call inserted the row since the SELECT: IntegrityError.         *)
CommitConflicts(h) ==
    /\ add[h].pc = "commit"
    /\ ~add[h].found /\ Target[h] \in sql
    /\ add' = [add EXCEPT ![h].pc = "idle"]
    /\ UNCHANGED <<sql, redis, check>>

(* A Redis write of i: the server may do it and still fail the call, and   *)
(* every failure is swallowed.                                             *)
CacheWrite(i) ==
    \/ redis' = redis \cup {i}
    \/ "outage" \in Faults /\ UNCHANGED redis

CacheAdded(h) ==
    /\ add[h].pc = "cache"
    /\ CacheWrite(Target[h])
    /\ add' = [add EXCEPT ![h].pc = "idle"]
    /\ UNCHANGED <<sql, check>>

AddAborts(h) ==
    /\ "abort" \in Faults
    /\ add[h].pc # "idle"
    /\ add' = [add EXCEPT ![h].pc = "idle"]
    /\ UNCHANGED <<sql, redis, check>>

-----------------------------------------------------------------------------
(* is_request_suppressed, a loop of check_suppression                      *)

Current(c) == Values[c][check[c].at]

Begin(c) ==
    /\ check[c].pc = "idle"
    /\ check' = [check EXCEPT ![c] = [pc |-> "cache", at |-> 1, since |-> sql,
                                      answer |-> "none"]]
    /\ UNCHANGED <<sql, redis, add>>

(* Mutant: a miss in Redis is taken for the answer. *)
TrustCacheMiss(c) ==
    /\ check[c].pc = "cache"
    /\ check' = [check EXCEPT
          ![c] = IF Current(c) \in redis
                 THEN [@ EXCEPT !.pc = "idle", !.answer = "suppressed"]
                 ELSE IF check[c].at < Len(Values[c])
                 THEN [@ EXCEPT !.at = check[c].at + 1]
                 ELSE [@ EXCEPT !.pc = "idle", !.answer = "clear"]]
    /\ UNCHANGED <<sql, redis, add>>

AskCache(c) ==
    /\ check[c].pc = "cache"
    /\ \/ /\ Current(c) \in redis
          /\ check' = [check EXCEPT ![c].pc = "idle", ![c].answer = "suppressed"]
       \/ /\ Current(c) \notin redis \/ "outage" \in Faults
          /\ check' = [check EXCEPT ![c].pc = "list"]
    /\ UNCHANGED <<sql, redis, add>>

(* Mutant: the loop does not stop at the last identifier. *)
AskListPastTheEnd(c) ==
    /\ check[c].pc = "list"
    /\ check' = IF Current(c) \in sql THEN [check EXCEPT ![c].pc = "backfill"]
                ELSE [check EXCEPT ![c].pc = "cache", ![c].at = check[c].at + 1]
    /\ UNCHANGED <<sql, redis, add>>

AskList(c) ==
    /\ check[c].pc = "list"
    /\ check' =
          IF Current(c) \in sql THEN [check EXCEPT ![c].pc = "backfill"]
          ELSE IF check[c].at < Len(Values[c])
          THEN [check EXCEPT ![c].pc = "cache", ![c].at = check[c].at + 1]
          ELSE [check EXCEPT ![c].pc = "idle", ![c].answer = "clear"]
    /\ UNCHANGED <<sql, redis, add>>

Backfill(c) ==
    /\ check[c].pc = "backfill"
    /\ CacheWrite(Current(c))
    /\ check' = [check EXCEPT ![c].pc = "idle", ![c].answer = "suppressed"]
    /\ UNCHANGED <<sql, add>>

CheckAborts(c) ==
    /\ "abort" \in Faults
    /\ check[c].pc # "idle"
    /\ check' = [check EXCEPT ![c].pc = "idle"]
    /\ UNCHANGED <<sql, redis, add>>

(* Redis is back with part of what it held.                                *)
RedisLoses(i) ==
    /\ "loss" \in Faults
    /\ i \in redis
    /\ redis' = redis \ {i}
    /\ UNCHANGED <<sql, add, check>>

-----------------------------------------------------------------------------

Next ==
    \/ \E h \in Handler : \/ Merge(h) \/ Commit(h) \/ CommitConflicts(h)
                          \/ CacheAdded(h) \/ AddAborts(h)
    \/ \E c \in Check : \/ Begin(c) \/ AskCache(c) \/ AskList(c)
                        \/ Backfill(c) \/ CheckAborts(c)
    \/ \E i \in Identifier : RedisLoses(i)

Spec == Init /\ [][Next]_vars

-----------------------------------------------------------------------------
(* Properties                                                              *)

(* What an open check has learnt: the identifiers it went past were not on *)
(* the list when it began, and it backfills only what is on the list.      *)
CheckedSoFar ==
    \A c \in Check : check[c].pc # "idle" =>
        /\ check[c].since \subseteq sql
        /\ \A n \in 1 .. Len(Values[c]) :
               n < check[c].at => Values[c][n] \notin check[c].since
        /\ check[c].pc = "backfill" => Current(c) \in sql

(* A call that is about to write to Redis has committed its row.           *)
CommittedFirst == \A h \in Handler : add[h].pc = "cache" => Target[h] \in sql

(* Redis never holds an identifier the durable table does not: no crash    *)
(* between the two writes, and no backfill, makes the fast path suppress   *)
(* what was never committed.                                               *)
CacheWithinList == redis \subseteq sql

(* The two stores behave as one growing list.  The step of the list is the *)
(* SQL commit, whatever Redis does before or after it.                     *)
ListCheck == [c \in Check |-> [open   |-> check[c].pc # "idle",
                               since  |-> check[c].since,
                               answer |-> check[c].answer]]

List == INSTANCE SuppressionList WITH listed <- sql, check <- ListCheck

(* An answer never misses an identifier that was on the list when the      *)
(* check began, nor invents one, through Redis outages, lost Redis data,   *)
(* aborted calls and concurrent opt-outs ("Opt-out is never weakened by a  *)
(* Redis outage", ARCHITECTURE.md).                                        *)
ImplementsList == List!Spec

=============================================================================
