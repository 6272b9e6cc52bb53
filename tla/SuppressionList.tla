--------------------------- MODULE SuppressionList ---------------------------
(***************************************************************************)
(* What the rest of the program relies on when it asks whether a request   *)
(* is suppressed: a list that only grows, and checks that overlap its      *)
(* growth.  A check that says "clear" found none of the request's          *)
(* identifiers on the list as it was when the check began; one that says   *)
(* "suppressed" found one of them by the time it answers.                  *)
(***************************************************************************)
EXTENDS Naturals, Sequences

CONSTANTS Identifier, \* hashes of identifiers
          Check,      \* the callers that check requests
          Values      \* Values[c]: the identifiers of c's request, in order

VARIABLES listed, \* the identifiers that have been suppressed
          check   \* the checks: open or not, what was listed at their start,
                  \* and their last answer

Named(c) == {Values[c][n] : n \in 1 .. Len(Values[c])}

Init ==
    /\ listed = {}
    /\ check = [c \in Check |-> [open |-> FALSE, since |-> {}, answer |-> "none"]]

Add(i) ==
    /\ listed' = listed \cup {i}
    /\ UNCHANGED check

Begin(c) ==
    /\ ~check[c].open
    /\ check' = [check EXCEPT
          ![c] = [open |-> TRUE, since |-> listed, answer |-> "none"]]
    /\ UNCHANGED listed

AnswerClear(c) ==
    /\ check[c].open
    /\ Named(c) \cap check[c].since = {}
    /\ check' = [check EXCEPT ![c].open = FALSE, ![c].answer = "clear"]
    /\ UNCHANGED listed

AnswerSuppressed(c) ==
    /\ check[c].open
    /\ Named(c) \cap listed # {}
    /\ check' = [check EXCEPT ![c].open = FALSE, ![c].answer = "suppressed"]
    /\ UNCHANGED listed

(* A check may raise instead of answering.                                 *)
Abandon(c) ==
    /\ check[c].open
    /\ check' = [check EXCEPT ![c].open = FALSE]
    /\ UNCHANGED listed

Next ==
    \/ \E i \in Identifier : Add(i)
    \/ \E c \in Check : \/ Begin(c) \/ AnswerClear(c) \/ AnswerSuppressed(c)
                        \/ Abandon(c)

Spec == Init /\ [][Next]_<<listed, check>>

=============================================================================
