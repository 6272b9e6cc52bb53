-------------------------- MODULE JobWatchProofs --------------------------
(***************************************************************************)
(* Proofs about JobWatch: its type invariant, and that a watch shows one   *)
(* toast at most, for any age of streams, number of reconnections and      *)
(* number of failures.                                                     *)
(***************************************************************************)
EXTENDS JobWatch, TLAPS

(* What a connection holds for the client; a toast ends the watch.         *)
HoldsFinal == conn = "final" => seen \in Terminal

ToastEnds == \/ toasts = << >> /\ conn # "closed"
             \/ conn \in {"closed", "left"} /\ \E s \in Terminal : toasts = << s >>

WatchInv == TypeOK /\ HoldsFinal /\ ToastEnds

LEMMA JobStepKeeps ==
    ASSUME WatchInv, JobStep
    PROVE  WatchInv'
<1> PICK s \in JobStatus : \E published \in SUBSET {s} :
          /\ \/ Write(s, published)
             \/ s = "failed" /\ published = {s} /\ AnnounceOvertakenFailure
          /\ inbox' \in IF conn = "stream" /\ inbox = "none" /\ published # {}
                        THEN published ELSE {inbox}
          /\ UNCHANGED <<conn, seen, beats, attempts, toasts, poll, breaks>>
  BY DEF JobStep
<1> PICK published \in SUBSET {s} :
          /\ \/ Write(s, published)
             \/ s = "failed" /\ published = {s} /\ AnnounceOvertakenFailure
          /\ inbox' \in IF conn = "stream" /\ inbox = "none" /\ published # {}
                        THEN published ELSE {inbox}
          /\ UNCHANGED <<conn, seen, beats, attempts, toasts, poll, breaks>>
  OBVIOUS
<1>1. status' \in JobStatus \cup {"none"}
  BY DEF Write, AnnounceOvertakenFailure, WatchInv, TypeOK
<1>2. published \subseteq Terminal /\ events' = events \cup published
  BY DEF Write, AnnounceOvertakenFailure, Terminal
<1>3. inbox' \in Terminal \cup {"none"}
  BY <1>2 DEF WatchInv, TypeOK
<1>4. QED
  BY <1>1, <1>2, <1>3 DEF WatchInv, TypeOK, HoldsFinal, ToastEnds, poll

(* A client that gets a final status shows its only toast, if it knows it. *)
LEMMA ReceiveKeeps ==
    ASSUME WatchInv, NEW s \in Terminal, Receive(s), Disconnected,
           UNCHANGED <<status, events, view, breaks>>, conn \in {"final", "stream"}
    PROVE  WatchInv'
<1> USE DEF WatchInv, TypeOK
<1>1. toasts = << >>
  BY DEF ToastEnds
<1>2. CASE s \in ValidStatuses
  <2>1. toasts' = << s >> /\ polling' = TRUE /\ conn' = "closed"
    BY <1>1, <1>2 DEF Receive, AfterEvent
  <2>2. toasts' \in Seq(Terminal)
    BY <2>1
  <2>3. QED
    BY <2>1, <2>2, WatchAssumption
    DEF Receive, Disconnected, Conn, HoldsFinal, ToastEnds, WatchAssumption
<1>3. CASE s \notin ValidStatuses
  BY <1>1, <1>3, WatchAssumption
  DEF Receive, AfterEvent, Disconnected, Conn, HoldsFinal, ToastEnds, WatchAssumption
<1>4. QED
  BY <1>2, <1>3

LEMMA WatchKeeps ==
    ASSUME WatchInv, TrackJob \/ WatchStep \/ Break \/ LeavePage
    PROVE  WatchInv'
<1> USE DEF WatchInv, TypeOK
<1>1. CASE TrackJob
  BY <1>1 DEF TrackJob, Conn, HoldsFinal, ToastEnds
<1>2. CASE ReadStatus
  <2>1. conn' \in {"final", "subscribe"} /\ (conn' = "final" => status \in Terminal)
    BY <1>2 DEF ReadStatus, AfterRead
  <2>2. QED
    BY <1>2, <2>1 DEF ReadStatus, Conn, HoldsFinal, ToastEnds, poll
<1>3. CASE Subscribe \/ Ping
  BY <1>3, WatchAssumption
  DEF Subscribe, Ping, Conn, HoldsFinal, ToastEnds, poll, WatchAssumption
<1>4. CASE StreamTooOld
  BY <1>4, WatchAssumption
  DEF StreamTooOld, Disconnected, Conn, HoldsFinal, ToastEnds, poll, WatchAssumption
<1>5. CASE DeliverInitial
  BY <1>5, ReceiveKeeps DEF DeliverInitial, HoldsFinal
<1>6. CASE DeliverPublished
  BY <1>6, ReceiveKeeps DEF DeliverPublished
<1>7. CASE OnError \/ Reconnect
  BY <1>7, WatchAssumption
  DEF OnError, Reconnect, MayReconnect, Conn, HoldsFinal, ToastEnds, poll, WatchAssumption
<1>8. CASE Break
  BY <1>8, WatchAssumption
  DEF Break, Disconnected, Conn, HoldsFinal, ToastEnds, poll, WatchAssumption
<1>9. CASE LeavePage
  <2>1. /\ conn' = "left" /\ polling' = FALSE
        /\ seen' = "none" /\ inbox' = "none" /\ beats' = 0
        /\ UNCHANGED <<status, events, attempts, toasts, view, breaks>>
    BY <1>9 DEF LeavePage, Disconnected
  <2>2. polling' \in BOOLEAN
    BY <2>1
  <2>3. beats' \in 0 .. MaxBeats
    BY <2>1, WatchAssumption DEF WatchAssumption
  <2>4. TypeOK'
    BY <2>1, <2>2, <2>3 DEF Conn
  <2>5. HoldsFinal' /\ ToastEnds'
    BY <2>1 DEF HoldsFinal, ToastEnds
  <2>6. QED
    BY <2>4, <2>5
<1>10. QED
  BY <1>1, <1>2, <1>3, <1>4, <1>5, <1>6, <1>7, <1>8, <1>9 DEF WatchStep

LEMMA PollKeeps ==
    ASSUME WatchInv, PollJob \/ PollFails
    PROVE  WatchInv'
<1> USE DEF WatchInv, TypeOK
<1>1. /\ view' \in JobStatus \cup {"none"} /\ polling' \in BOOLEAN
      /\ breaks' \in 0 .. MaxBreaks
      /\ UNCHANGED <<status, events, watch>>
  <2>1. CASE PollJob
    BY <2>1 DEF PollJob
  <2>2. CASE PollFails
    <3>1. /\ polling' = (view # "none" /\ ~IsTerminalStatus(view)) /\ breaks < MaxBreaks
          /\ breaks' = breaks + 1 /\ UNCHANGED <<status, events, watch, view>>
      BY <2>2 DEF PollFails
    <3>2. polling' \in BOOLEAN
      BY <3>1
    <3>3. breaks' \in 0 .. MaxBreaks
      BY <3>1, WatchAssumption DEF WatchAssumption
    <3>4. QED
      BY <3>1, <3>2, <3>3
  <2>3. QED
    BY <2>1, <2>2
<1>2. QED
  BY <1>1 DEF watch, HoldsFinal, ToastEnds

LEMMA WatchInvHolds == WatchSpec => []WatchInv
<1>1. WatchInit => WatchInv
  <2> SUFFICES ASSUME WatchInit PROVE WatchInv
    OBVIOUS
  <2>1. TypeOK
    <3>1. beats \in 0 .. MaxBeats /\ attempts \in 0 .. MaxReconnectAttempts
          /\ breaks \in 0 .. MaxBreaks
      BY WatchAssumption DEF WatchInit, WatchAssumption
    <3>2. polling \in BOOLEAN
      BY DEF WatchInit
    <3>3. QED
      BY <3>1, <3>2 DEF WatchInit, Init, TypeOK, Conn
  <2>2. HoldsFinal /\ ToastEnds
    BY DEF WatchInit, HoldsFinal, ToastEnds
  <2>3. QED
    BY <2>1, <2>2 DEF WatchInv
<1>2. WatchInv /\ [WatchNext]_vars => WatchInv'
  <2>1. ASSUME WatchInv, WatchNext PROVE WatchInv'
    BY <2>1, JobStepKeeps, WatchKeeps, PollKeeps DEF WatchNext
  <2>2. ASSUME WatchInv, UNCHANGED vars PROVE WatchInv'
    BY <2>2 DEF vars, watch, poll, WatchInv, TypeOK, HoldsFinal, ToastEnds
  <2>3. QED
    BY <2>1, <2>2
<1>3. QED
  BY <1>1, <1>2, PTL DEF WatchSpec

(* The job, the stream, the client and the poll keep their types, for any  *)
(* heartbeat, maximum age and number of reconnections (job_events.py,      *)
(* enrich-events.ts).                                                      *)
THEOREM WatchTypeCorrect == WatchSpec => []TypeOK
BY WatchInvHolds, PTL DEF WatchInv

(* A watch shows one toast at most, although connections break, streams    *)
(* grow too old and a final status may be both read and published.         *)
THEOREM WatchersToldOnce == WatchSpec => []ToldOnce
<1>1. WatchInv => ToldOnce
  <2> SUFFICES ASSUME ToastEnds PROVE ToldOnce
    BY DEF WatchInv
  <2>1. CASE toasts = << >> /\ conn # "closed"
    BY <2>1 DEF ToldOnce
  <2>2. ASSUME NEW s \in Terminal, toasts = << s >> PROVE ToldOnce
    BY <2>2 DEF ToldOnce
  <2>3. QED
    BY <2>1, <2>2 DEF ToastEnds
<1>2. QED
  BY <1>1, WatchInvHolds, PTL

=============================================================================
