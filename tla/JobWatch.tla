------------------------------ MODULE JobWatch ------------------------------
(***************************************************************************)
(* One job watched from the console's enrich page.  The page opens an      *)
(* EventSource (src/lib/enrich-events.ts) whose requests are answered by   *)
(* stream_job_status_events: a read of the job's status, a subscription to *)
(* its Redis channel, then pings until a final status arrives or the       *)
(* stream is too old.  Each connection that ends is opened again with      *)
(* back-off; a final status becomes a toast and closes the watch.  Next to *)
(* it the page polls GET /enrich/{id} (useJobQuery).                       *)
(*                                                                         *)
(* The job itself leads the life of JobLife, which EnrichmentJobs is shown *)
(* to implement.  A stream needs no more of its channel than the first     *)
(* message, as every published status is final and ends the stream.        *)
(***************************************************************************)
EXTENDS JobLife, Sequences

CONSTANTS MaxBeats,             \* pings in one stream: max_seconds / heartbeat_seconds
          MaxReconnectAttempts, \* reconnections in a row without a message
          MaxBreaks             \* bound: connections and fetches that fail

ASSUME WatchAssumption == /\ MaxBeats \in Nat \ {0}
                          /\ MaxReconnectAttempts \in Nat
                          /\ MaxBreaks \in Nat

Conn == {"new", "read", "final", "subscribe", "stream", "ended", "wait",
         "gaveup", "closed", "left"}

VARIABLES conn,     \* the watch: its current connection, or how it ended
          seen,     \* final status the route read and has to send
          inbox,    \* first message on the channel since the subscription
          beats,    \* pings of this stream: its age
          attempts, \* reconnections since the last message
          toasts,   \* toasts shown
          view,     \* status the page last polled
          polling,  \* whether the page will poll again
          breaks    \* failures so far

watch == <<conn, seen, inbox, beats, attempts, toasts>>
poll  == <<view, polling>>
vars  == <<status, events, watch, poll, breaks>>

TypeOK ==
    /\ status \in JobStatus \cup {"none"}
    /\ events \subseteq Terminal
    /\ conn \in Conn
    /\ seen \in JobStatus \cup {"none"}
    /\ inbox \in Terminal \cup {"none"}
    /\ beats \in 0 .. MaxBeats
    /\ attempts \in 0 .. MaxReconnectAttempts
    /\ toasts \in Seq(Terminal)
    /\ view \in JobStatus \cup {"none"}
    /\ polling \in BOOLEAN
    /\ breaks \in 0 .. MaxBreaks

WatchInit ==
    /\ Init
    /\ conn = "new" /\ seen = "none" /\ inbox = "none"
    /\ beats = 0 /\ attempts = 0 /\ toasts = << >>
    /\ view = "none" /\ polling = FALSE
    /\ breaks = 0

-----------------------------------------------------------------------------
(* The job                                                                 *)

(* A publish reaches the streams subscribed at that moment.                *)
JobStep ==
    \E s \in JobStatus : \E published \in SUBSET {s} :
        /\ \/ Write(s, published)
           \/ s = "failed" /\ published = {s} /\ AnnounceOvertakenFailure
        /\ inbox' \in IF conn = "stream" /\ inbox = "none" /\ published # {}
                      THEN published ELSE {inbox}
        /\ UNCHANGED <<conn, seen, beats, attempts, toasts, poll, breaks>>

-----------------------------------------------------------------------------
(* The watch                                                               *)

(* trackJob after POST /enrich: the EventSource opens and polling starts.  *)
TrackJob ==
    /\ conn = "new" /\ status # "none"
    /\ conn' = "read"
    /\ polling' = TRUE
    /\ UNCHANGED <<status, events, seen, inbox, beats, attempts, toasts,
                   view, breaks>>

(* Mutant: the route subscribes without looking at the status it read. *)
AfterUncheckedRead(s) == "subscribe"

(* Where the stream goes from the status the route read: one event and the *)
(* end for a final one.                                                    *)
AfterRead(s) == IF s \in Terminal THEN "final" ELSE "subscribe"

ReadStatus ==
    /\ conn = "read"
    /\ conn' = AfterRead(status)
    /\ seen' = IF conn' = "final" THEN status ELSE "none"
    /\ UNCHANGED <<status, events, inbox, beats, attempts, toasts, poll, breaks>>

Subscribe ==
    /\ conn = "subscribe"
    /\ conn' = "stream"
    /\ UNCHANGED <<status, events, seen, inbox, beats, attempts, toasts, poll,
                   breaks>>

(* What a connection leaves behind when it ends: nothing.                  *)
Disconnected == seen' = "none" /\ inbox' = "none" /\ beats' = 0

(* get_message times out (or returns the subscription's own confirmation). *)
Ping ==
    /\ conn = "stream" /\ inbox = "none" /\ beats < MaxBeats
    /\ beats' = beats + 1
    /\ UNCHANGED <<status, events, conn, seen, inbox, attempts, toasts, poll,
                   breaks>>

StreamTooOld ==
    /\ conn = "stream" /\ beats = MaxBeats
    /\ conn' = "ended"
    /\ Disconnected
    /\ UNCHANGED <<status, events, attempts, toasts, poll, breaks>>

(* VALID_STATUSES of the console; each final one among them has a toast.   *)
ValidStatuses == {"queued", "running", "completed", "failed", "suppressed"}

(* Mutant: the toast does not stop the watch. *)
AfterEventUnstopped(s) == "ended"

(* stop() after a toast; otherwise the server ends the stream behind its   *)
(* final event, and the client sees an error.                              *)
AfterEvent(s) == IF s \in ValidStatuses THEN "closed" ELSE "ended"

(* onmessage: attempts start again from 0; a final status that the console *)
(* knows is shown, and the job's queries are invalidated, hence refetched. *)
Receive(s) ==
    /\ attempts' = 0
    /\ conn' = AfterEvent(s)
    /\ IF s \in ValidStatuses
       THEN toasts' = Append(toasts, s) /\ polling' = TRUE
       ELSE UNCHANGED <<toasts, polling>>

DeliverInitial ==
    /\ conn = "final"
    /\ Receive(seen)
    /\ Disconnected
    /\ UNCHANGED <<status, events, view, breaks>>

DeliverPublished ==
    /\ conn = "stream" /\ inbox # "none" /\ beats < MaxBeats
    /\ Receive(inbox)
    /\ Disconnected
    /\ UNCHANGED <<status, events, view, breaks>>

(* The route, Redis (get_message raises RedisError), the proxy or the      *)
(* network fails; the client sees an error.                                *)
Break ==
    /\ conn \in {"read", "final", "subscribe", "stream"}
    /\ breaks < MaxBreaks
    /\ conn' = "ended" /\ breaks' = breaks + 1
    /\ Disconnected
    /\ UNCHANGED <<status, events, attempts, toasts, poll>>

(* Mutant: one reconnection too many. *)
MayReconnectOnceMore == attempts <= MaxReconnectAttempts

MayReconnect == attempts < MaxReconnectAttempts

(* onerror: the client closes the connection and, unless it has tried too  *)
(* often, sets a timer with back-off.                                      *)
OnError ==
    /\ conn = "ended"
    /\ IF MayReconnect
       THEN conn' = "wait" /\ attempts' = attempts + 1
       ELSE conn' = "gaveup" /\ UNCHANGED attempts
    /\ UNCHANGED <<status, events, seen, inbox, beats, toasts, poll, breaks>>

Reconnect ==
    /\ conn = "wait"
    /\ conn' = "read"
    /\ UNCHANGED <<status, events, seen, inbox, beats, attempts, toasts, poll,
                   breaks>>

(* The page is left: every subscription is closed, timers included.        *)
LeavePage ==
    /\ conn \notin {"new", "left"}
    /\ conn' = "left"
    /\ polling' = FALSE
    /\ Disconnected
    /\ UNCHANGED <<status, events, attempts, toasts, view, breaks>>

-----------------------------------------------------------------------------
(* Polling                                                                 *)

(* Mutant: completed_no_data is forgotten, as in the console's event route. *)
ConsoleTerminalShort(s) == s \in {"completed", "failed", "suppressed"}

(* isTerminalStatus of enrich-poll.ts                                      *)
IsTerminalStatus(s) == s \in Terminal

PollJob ==
    /\ polling
    /\ view' = status
    /\ polling' = ~IsTerminalStatus(status)
    /\ UNCHANGED <<status, events, watch, breaks>>

(* refetchInterval goes on only from a job it has already seen.            *)
PollFails ==
    /\ polling
    /\ breaks < MaxBreaks
    /\ breaks' = breaks + 1
    /\ polling' = (view # "none" /\ ~IsTerminalStatus(view))
    /\ UNCHANGED <<status, events, watch, view>>

-----------------------------------------------------------------------------

WatchStep ==
    \/ ReadStatus \/ Subscribe \/ Ping \/ StreamTooOld
    \/ DeliverInitial \/ DeliverPublished \/ OnError \/ Reconnect

WatchNext == \/ JobStep \/ TrackJob \/ WatchStep \/ PollJob
             \/ Break \/ PollFails \/ LeavePage

WatchSpec == WatchInit /\ [][WatchNext]_vars

(* The event loop, the browser's timers and the polling interval go on;    *)
(* nothing obliges the job, the user or a failure to happen.               *)
FairWatchSpec == WatchSpec /\ WF_vars(WatchStep) /\ WF_vars(PollJob)

-----------------------------------------------------------------------------
(* Properties                                                              *)

(* One watch shows at most one toast, and none once it is over, although a *)
(* final status may reach it twice: read by the route of a new connection, *)
(* and published on the channel of the old one.                            *)
ToldOnce == /\ Len(toasts) <= 1
            /\ conn = "closed" => toasts # << >>

Watching == conn \notin {"new", "closed", "gaveup", "left"}

(* Reconnections left even if every failure still allowed happens.         *)
HasReconnectionsLeft == attempts + (MaxBreaks - breaks) < MaxReconnectAttempts

(* A final status that the console knows is shown, although its event may  *)
(* be published between the route's read and its subscription, or never:   *)
(* the stream pings until it is too old, and only the next connection      *)
(* reads the status.  (stream_job_status_events claims that a job finished *)
(* between read and subscription "gets one event and closes immediately    *)
(* instead of hanging on a missed publish"; it tests the status read       *)
(* before, so this very job does miss the publish.)  A watch that runs out *)
(* of reconnections may never be told.                                     *)
EventuallyTold ==
    (Watching /\ HasReconnectionsLeft /\ status \in Terminal \cap ValidStatuses)
        ~> (conn \in {"closed", "left"} \/ status \notin Terminal \cap ValidStatuses)

(* The page does not poll a finished job for ever.                         *)
PollingEnds == (polling /\ status \in Terminal)
                  ~> (~polling \/ status \notin Terminal)

(* The hook's comment: "surfaces a toast + query invalidation once each    *)
(* job reaches a terminal status".                                         *)
EveryEndIsShown ==
    \A s \in Terminal :
        (Watching /\ HasReconnectionsLeft /\ status = s)
            ~> (conn \in {"closed", "left"} \/ status # s)

=============================================================================
