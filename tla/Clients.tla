------------------------------ MODULE Clients ------------------------------
(***************************************************************************)
(* A client of the event stream: the desktop app's useRelay, or the mobile *)
(* app's, in a browser (web, with the stream) or on a phone (native,       *)
(* without).  It shows snapshots, which it fetches in several parallel     *)
(* requests, and what it hears of in between; requests that are under way  *)
(* overlap, fail and are answered in any order.                            *)
(*                                                                         *)
(* view is the version of the rows that is shown, Demo for the seeded      *)
(* workspace, Wished after a request that the client shows ahead of the   *)
(* server.  A network or server that is down is repaired by chance.        *)
(***************************************************************************)
EXTENDS EventStream

CONSTANTS Apps,       \* {"desktop", "web", "native"}
          MaxFetches, \* bound: fetches under way
          Demo, Wished, Unread

ASSUME ClientAssumption ==
    /\ Apps \subseteq {"desktop", "web", "native"}
    /\ MaxFetches \in Nat \ {0}
    /\ {Demo, Wished, Unread} \cap Nat = {}

VARIABLES app,       \* which client it is
          online,    \* navigator.onLine, and the network
          reachable, \* the server answers
          connection, mode, \* state.connection, modeRef.current
          view, cursor,     \* the state shown and its cursor
          text,      \* the pieces that are in liveResponses (not how often)
          queued,    \* the refresh timer runs
          fetch,     \* the fetches under way
          request    \* the user's request, shown ahead of the answer or not

netVars == <<app, online, reachable>>
clientVars == <<connection, mode, view, cursor, text, queued, fetch, request>>
vars == <<logVars, faults, stream, netVars, clientVars>>

Fetches == 1..MaxFetches
Up == online /\ reachable

Versions == 0..MaxWrites
NoFetch == [kind |-> "none", after |-> 0, rows |-> Unread, cursor |-> Unread,
            events |-> Unread]
Started(kind) == [NoFetch EXCEPT !.kind = kind, !.after = IF kind = "poll" THEN cursor ELSE 0]

FetchStates ==
    [kind : {"none", "load", "refresh", "poll", "retry"}, after : 0..MaxEvents,
     rows : Versions \cup {Unread}, cursor : 0..MaxEvents \cup {Unread},
     events : (SUBSET Cursors) \cup {Unread}]

Connections == {"connecting", "live", "demo", "offline", "error"}

TypeOK ==
    /\ StreamTypeOK
    /\ app \in Apps
    /\ {online, reachable, queued} \subseteq BOOLEAN
    /\ connection \in Connections
    /\ mode \in {"live", "demo"}
    /\ view \in Versions \cup {Demo, Wished}
    /\ cursor \in 0..MaxEvents
    /\ text \in SUBSET Cursors
    /\ fetch \in [Fetches -> FetchStates]
    /\ request \in {"none", "sent", "ahead", "answered"}

\* The app is opened: it shows the demo or nothing, and loads.
Init ==
    /\ StreamInit
    /\ stream = Closed
    /\ app \in Apps
    /\ online = TRUE
    /\ reachable = TRUE
    /\ connection = "connecting"
    /\ mode = "demo"
    /\ view = Demo
    /\ cursor = 0
    /\ text = {}
    /\ queued = FALSE
    /\ fetch = [i \in Fetches |-> IF i = 1 THEN [NoFetch EXCEPT !.kind = "load"] ELSE NoFetch]
    /\ request = "none"

-----------------------------------------------------------------------------
(* The effect on [connection, cursor].                                     *)

Listens(state) == state = "live" /\ app \in {"desktop", "web"}

\* The next state of the hooks.  When the connection or the cursor changes, the
\* stream is closed, the refresh timer is cleared and the polls under way are
\* disposed of; a live client subscribes from its new cursor.
Become(state, at, timer, fetches) ==
    /\ connection' = state
    /\ cursor' = at
    /\ IF state = connection /\ at = cursor
       THEN queued' = timer /\ fetch' = fetches
       ELSE /\ queued' = FALSE
            /\ fetch' = [i \in Fetches |-> IF fetches[i].kind = "poll" THEN NoFetch ELSE fetches[i]]

Resubscribe(state, at) ==
    IF state = connection /\ at = cursor THEN stream
    ELSE IF Listens(state) THEN Opened(at) ELSE Closed

Turn(state, at, timer, fetches) ==
    Become(state, at, timer, fetches) /\ stream' = Resubscribe(state, at)

Ended(i) == [fetch EXCEPT ![i] = NoFetch]
\* Mutant of Disconnected: a status of another module's type.
DisconnectedLoading == IF app = "desktop" /\ online THEN "error" ELSE "loading"

Disconnected == IF app = "desktop" /\ online THEN "error" ELSE "offline"

-----------------------------------------------------------------------------
(* Text of active runs: liveResponses.                                     *)

Captured(shown, events) == shown \cup {c \in events : content[c] = Delta}

\* Mutant of Retained: text is kept when its run has ended.
RetainedAlways(shown, v) == shown

\* setRuns: what belongs to no active run is dropped.
Retained(shown, v) == IF RunIsActive(v) THEN shown ELSE {}

-----------------------------------------------------------------------------
(* Fetches.                                                                *)

\* loadLiveSnapshot: at the start, when the network comes back, on retry.
Load(i, isOnline) ==
    /\ fetch[i].kind = "none"
    /\ IF isOnline
       THEN Turn("connecting", cursor, queued, [fetch EXCEPT ![i] = Started("load")])
       ELSE Turn("offline", cursor, queued, fetch)
    /\ UNCHANGED <<mode, view, text, request>>

Retry(i) ==
    /\ app = "desktop"
    /\ connection # "connecting"
    /\ Load(i, online)
    /\ UNCHANGED <<logVars, faults, netVars>>

\* The refresh timer of the desktop app, and its intervals, which set it.
RefreshTimer(i) ==
    /\ queued
    /\ fetch[i].kind = "none"
    /\ queued' = FALSE
    /\ fetch' = [fetch EXCEPT ![i] = Started("refresh")]
    /\ UNCHANGED <<logVars, faults, stream, netVars, connection, mode, view, cursor, text, request>>

\* Mutant of Polls: while the connection is in error nothing is polled.
PollsWhenLive == connection = "live"

Polls == connection \in {"live", "error"}

Interval ==
    /\ app = "desktop"
    /\ Polls
    /\ queued' = TRUE
    /\ UNCHANGED <<logVars, faults, stream, netVars, connection, mode, view, cursor, text, fetch, request>>

\* The mobile app's intervals: a poll while live, else an attempt to come back.
Tick(i) ==
    /\ app # "desktop"
    /\ fetch[i].kind = "none"
    /\ connection # "connecting"
    /\ fetch' = [fetch EXCEPT ![i] = Started(IF connection = "live" THEN "poll" ELSE "retry")]
    /\ UNCHANGED <<logVars, faults, stream, netVars, connection, mode, view, cursor, text, queued, request>>

\* The requests of a fetch are answered one by one; the rows and the cursor of
\* a snapshot are read by queries of their own.
Read(i, part, value) ==
    /\ fetch[i].kind # "none"
    /\ fetch[i][part] = Unread
    /\ fetch' = [fetch EXCEPT ![i][part] = value]
    /\ UNCHANGED <<logVars, faults, stream, netVars, connection, mode, view, cursor, text, queued, request>>

CurrentCursor == Greatest(log \cup {0})

ReadRows(i) == Up /\ Read(i, "rows", version)
ReadCursor(i) == Up /\ Read(i, "cursor", CurrentCursor)

\* An error of listEvents is caught; the rest of the poll goes on.
ReadEvents(i) ==
    /\ fetch[i].kind = "poll"
    /\ Read(i, "events", IF Up THEN ListEvents(fetch[i].after) ELSE {})

Answered(i) ==
    /\ fetch[i].kind # "none"
    /\ fetch[i].rows # Unread /\ fetch[i].cursor # Unread
    /\ fetch[i].kind = "poll" => fetch[i].events # Unread

\* A snapshot replaces everything: relayReducer, "snapshot" and "hydrate".
AnswerLoad(i) ==
    /\ fetch[i].kind \in {"load", "refresh", "retry"}
    /\ Answered(i)
    /\ mode' = IF fetch[i].kind = "load" THEN "live" ELSE mode
    /\ view' = fetch[i].rows
    /\ text' = IF fetch[i].kind = "retry" THEN text ELSE Retained(text, fetch[i].rows)
    /\ Turn("live", fetch[i].cursor, queued, Ended(i))
    /\ UNCHANGED <<logVars, faults, netVars, request>>

\* A poll's events are applied, then its snapshot is.
AnswerPoll(i) ==
    /\ fetch[i].kind = "poll"
    /\ Answered(i)
    /\ view' = fetch[i].rows
    /\ text' = Retained(Captured(text, fetch[i].events), fetch[i].rows)
    /\ Turn("live", fetch[i].cursor, queued, Ended(i))
    /\ UNCHANGED <<logVars, faults, netVars, mode, request>>

\* The first load that fails shows the demo; later ones leave the state there.
FetchFails(i) ==
    /\ fetch[i].kind # "none"
    /\ ~Up
    /\ CASE fetch[i].kind = "load" ->
              /\ mode' = "demo"
              /\ view' = Demo
              /\ text' = IF app = "desktop" THEN {} ELSE text
              /\ Turn(IF app = "desktop" THEN "demo" ELSE "offline", 0, queued, Ended(i))
         [] fetch[i].kind \in {"refresh", "poll"} ->
              /\ Turn(Disconnected, cursor, queued, Ended(i))
              /\ UNCHANGED <<mode, view, text>>
         [] OTHER ->
              /\ fetch' = Ended(i)
              /\ UNCHANGED <<stream, connection, mode, view, cursor, text, queued>>
    /\ UNCHANGED <<logVars, faults, netVars, request>>

-----------------------------------------------------------------------------
(* The stream at the client.                                               *)

\* The desktop app keeps pieces of text and fetches the rest; the web app's
\* reducer takes the row of an event that is newer than its state.
Receive ==
    /\ stream.wire # {}
    /\ LET c == CHOOSE c \in stream.wire : \A other \in stream.wire : c <= other
           rest == [stream EXCEPT !.wire = @ \ {c}]
       IN IF app = "desktop"
          THEN /\ text' = Captured(text, {c})
               /\ queued' = TRUE
               /\ stream' = rest
               /\ UNCHANGED <<connection, view, cursor, fetch>>
          ELSE /\ view' = IF c > cursor /\ content[c] # Delta THEN content[c] ELSE view
               /\ LET at == IF c > cursor THEN c ELSE cursor
                  IN /\ Become(connection, at, queued, fetch)
                     /\ stream' = IF at = cursor THEN rest ELSE Resubscribe(connection, at)
               /\ UNCHANGED text
    /\ UNCHANGED <<logVars, faults, netVars, mode, request>>

StreamBreaks ==
    /\ stream.step # "closed"
    /\ ~Up
    /\ Turn(Disconnected, cursor, queued, fetch)
    /\ UNCHANGED <<logVars, faults, netVars, mode, view, text, request>>

-----------------------------------------------------------------------------
(* Requests of the user: messages, decisions, delegations and the like.     *)

\* In the demo, the desktop app changes only what it shows.
AskLocally ==
    /\ app = "desktop" /\ mode = "demo"
    /\ view' = Wished
    /\ UNCHANGED <<logVars, faults, stream, netVars, connection, mode, cursor, text, queued, fetch, request>>

\* The mobile app shows decisions and delegations ahead of the answer.  Bound:
\* one request.
Ask(ahead) ==
    /\ request = "none"
    /\ IF app = "desktop" THEN mode = "live" /\ ~ahead ELSE connection # "connecting"
    /\ request' = IF ahead THEN "ahead" ELSE "sent"
    /\ view' = IF ahead THEN Wished ELSE view
    /\ UNCHANGED <<logVars, faults, stream, netVars, connection, mode, cursor, text, queued, fetch>>

\* The row is put, an emitter announces it, and the answer reaches the client.
Granted(e) ==
    /\ request \in {"sent", "ahead"}
    /\ Up
    /\ Put(e)
    /\ request' = "answered"
    /\ view' = IF request = "sent" THEN Wished ELSE view
    /\ UNCHANGED <<stream, netVars, connection, mode, cursor, text, queued, fetch>>

\* It fails, or is refused: nothing sends it again.
Refused ==
    /\ request \in {"sent", "ahead"}
    /\ request' = "answered"
    /\ IF app = "desktop"
       THEN UNCHANGED <<stream, connection, cursor, queued, fetch>>
       ELSE Turn("offline", cursor, queued, fetch)
    /\ UNCHANGED <<logVars, faults, netVars, mode, view, text>>

-----------------------------------------------------------------------------
(* The network and the server.                                             *)

\* Only the desktop app asks whether it is online; to the others a network that
\* is down is a server that does not answer.
GoOffline ==
    /\ app = "desktop"
    /\ online /\ faults < MaxFaults
    /\ online' = FALSE
    /\ faults' = faults + 1
    /\ Turn("offline", cursor, queued, fetch)
    /\ UNCHANGED <<logVars, app, reachable, mode, view, text, request>>

GoOnline ==
    /\ ~online
    /\ online' = TRUE
    /\ \E i \in Fetches : Load(i, TRUE)
    /\ UNCHANGED <<logVars, faults, app, reachable>>

ServerGoes ==
    /\ reachable /\ faults < MaxFaults
    /\ reachable' = FALSE
    /\ faults' = faults + 1
    /\ UNCHANGED <<logVars, stream, app, online, clientVars>>

ServerReturns ==
    /\ ~reachable
    /\ reachable' = TRUE
    /\ UNCHANGED <<logVars, faults, stream, app, online, clientVars>>

-----------------------------------------------------------------------------

Fetch(i) ==
    \/ ReadRows(i) \/ ReadCursor(i) \/ ReadEvents(i)
    \/ AnswerLoad(i) \/ AnswerPoll(i) \/ FetchFails(i)

Timers == Interval \/ \E i \in Fetches : RefreshTimer(i) \/ Tick(i)

Next ==
    \/ (Emit \/ Serve) /\ UNCHANGED <<netVars, clientVars>>
    \/ \E e \in Emitters : Granted(e)
    \/ \E i \in Fetches : Fetch(i) \/ Retry(i)
    \/ Timers
    \/ Receive \/ StreamBreaks
    \/ AskLocally \/ Refused
    \/ \E ahead \in BOOLEAN : Ask(ahead)
    \/ GoOffline \/ GoOnline \/ ServerGoes \/ ServerReturns

Spec == Init /\ [][Next]_vars

\* Timers fire, requests are answered or fail, a connection is served.  Emitters
\* need not come to an end, and nothing repairs the network.
FairSpec ==
    /\ Spec
    /\ \A i \in Fetches : WF_vars(Fetch(i)) /\ WF_vars(RefreshTimer(i)) /\ WF_vars(Tick(i))
    /\ WF_vars(Interval)
    /\ WF_vars(StreamBreaks)
    /\ WF_vars(Receive)

-----------------------------------------------------------------------------

\* Once the network and the server stay up, a client comes to show the rows as
\* they are, whatever it missed, read torn or showed ahead, unless it has fallen
\* back to the demo.
CatchesUp == <>[]Up => <>[](connection = "demo" \/ view = version)

\* The text of a run does not outlive it: pieces that are replayed after its
\* end go away again.
LiveTextGoes ==
    <>[]Up => <>[](connection = "demo" \/ RunIsActive(version) \/ text = {})
=============================================================================
