---------------------------- MODULE EventStream ----------------------------
(***************************************************************************)
(* The event log and one stream of it: emitters store a row, append an     *)
(* event and publish it in the process's hub; GET /v1/events replays the   *)
(* log from a cursor and then follows the hub.                             *)
(*                                                                         *)
(* The rows are one version number, which every write of a row increases;  *)
(* an event announces a row as it was written, or a piece of a run's text  *)
(* (Delta).  The last version is the one in which the run has ended.       *)
(***************************************************************************)
EXTENDS Naturals, Sequences, FiniteSets

CONSTANTS Emitters,    \* operations that emit at the same time
          Delta,       \* the content of message.delta events
          ReplayLimit, \* listEvents(..., 5000)
          MaxWrites,   \* bound: versions of the rows
          MaxEvents,   \* bound: cursors
          MaxFaults    \* bound: errors of emitters and, in Clients, outages

ASSUME StreamAssumption ==
    /\ {ReplayLimit, MaxWrites, MaxEvents, MaxFaults} \subseteq Nat
    /\ Delta \notin Nat
    /\ IsFiniteSet(Emitters)

VARIABLES version,   \* the rows
          sequence,  \* the last cursor that an insert has taken
          log,       \* the cursors of committed events
          content,   \* content[c]: what event c announces
          emitter,   \* emitter[e]: its next step and its event
          reordered, \* history: an event was committed or published out of order
          faults,    \* the number of faults so far
          stream     \* the connection that is open, or the last one

logVars == <<version, sequence, log, content, emitter, reordered>>

Cursors == 1..MaxEvents
Contents == (1..MaxWrites) \cup {Delta}
Steps == {"idle", "append", "commit", "publish"}

\* sent is what a connection has written; wire the part that is not received.
\* What is read from the log and what is written come in the order of their
\* cursors: they are sets.  What is published may come in any order.
Closed == [step |-> "closed", after |-> 0, cursor |-> 0, batch |-> {},
           pending |-> <<>>, wire |-> {}, sent |-> {}, whole |-> TRUE]

RunIsActive(v) == v < MaxWrites

StreamStates ==
    [step : {"closed", "read", "replay", "follow"}, after : 0..MaxEvents,
     cursor : 0..MaxEvents, batch : SUBSET Cursors, pending : Seq(Cursors),
     wire : SUBSET Cursors, sent : SUBSET Cursors, whole : BOOLEAN]

EmitterStates == [step : Steps, event : Contents \cup {0}, cursor : 0..MaxEvents]

StreamTypeOK ==
    /\ version \in 0..MaxWrites
    /\ sequence \in 0..MaxEvents
    /\ log \in SUBSET (1..sequence)
    /\ content \in [Cursors -> Contents \cup {0}]
    /\ emitter \in [Emitters -> EmitterStates]
    /\ reordered \in BOOLEAN
    /\ faults \in 0..MaxFaults
    /\ stream \in StreamStates

StreamInit ==
    /\ version = 0
    /\ sequence = 0
    /\ log = {}
    /\ content = [c \in Cursors |-> 0]
    /\ emitter = [e \in Emitters |-> [step |-> "idle", event |-> 0, cursor |-> 0]]
    /\ reordered = FALSE
    /\ faults = 0

-----------------------------------------------------------------------------
(* Emitters.  They write about different aggregates: a lock keeps the       *)
(* events of one aggregate in order until they are committed.              *)

\* Bound: every emitter that has begun has a cursor left.
CursorsLeft ==
    sequence + Cardinality({e \in Emitters : emitter[e].step = "append"}) < MaxEvents

\* A row is put; its event follows.
Put(e) ==
    /\ emitter[e].step = "idle"
    /\ CursorsLeft
    /\ version < MaxWrites
    /\ version' = version + 1
    /\ emitter' = [emitter EXCEPT ![e] = [@ EXCEPT !.step = "append", !.event = version + 1]]
    /\ UNCHANGED <<sequence, log, content, reordered, faults>>

\* The runtime of an active run emits a piece of text.
Stream(e) ==
    /\ emitter[e].step = "idle"
    /\ CursorsLeft
    /\ RunIsActive(version)
    /\ emitter' = [emitter EXCEPT ![e] = [@ EXCEPT !.step = "append", !.event = Delta]]
    /\ UNCHANGED <<version, sequence, log, content, reordered, faults>>

\* INSERT takes the next cursor; the row is seen after COMMIT.
AppendEvent(e) ==
    /\ emitter[e].step = "append"
    /\ sequence' = sequence + 1
    /\ content' = [content EXCEPT ![sequence + 1] = emitter[e].event]
    /\ emitter' = [emitter EXCEPT ![e] = [@ EXCEPT !.step = "commit", !.cursor = sequence + 1]]
    /\ UNCHANGED <<version, log, reordered, faults>>

\* Another emitter with a lower cursor has not come as far.
Overtakes(e, steps) ==
    \E other \in Emitters : /\ emitter[other].step \in steps
                            /\ emitter[other].cursor < emitter[e].cursor

CommitEvent(e) ==
    /\ emitter[e].step = "commit"
    /\ log' = log \cup {emitter[e].cursor}
    /\ reordered' = (reordered \/ Overtakes(e, {"commit"}))
    /\ emitter' = [emitter EXCEPT ![e].step = "publish"]
    /\ UNCHANGED <<version, sequence, content, faults>>

\* An error of the database: the row stays, its event does not come.
FailToEmit(e) ==
    /\ emitter[e].step \in {"append", "commit"}
    /\ faults < MaxFaults
    /\ faults' = faults + 1
    /\ emitter' = [emitter EXCEPT ![e] = [step |-> "idle", event |-> 0, cursor |-> 0]]
    /\ UNCHANGED <<version, sequence, log, content, reordered>>

-----------------------------------------------------------------------------
(* The stream.                                                             *)

Greatest(S) == CHOOSE c \in S : \A other \in S : other <= c

\* send: an event that is not newer than the last one sent is dropped.
Send(s, c) ==
    IF c <= s.cursor THEN s
    ELSE [s EXCEPT !.cursor = c, !.wire = @ \cup {c}, !.sent = @ \cup {c}]

\* A set of events is sent in the order of their cursors.
SendAll(s, events) ==
    LET news == {c \in events : c > s.cursor}
    IN [s EXCEPT !.cursor = Greatest(news \cup {s.cursor}),
                 !.wire = @ \cup news, !.sent = @ \cup news]

\* Of events sent in the order of a sequence, those newer than all before them.
Rising(events) ==
    {events[n] : n \in {m \in DOMAIN events : \A l \in 1..(m - 1) : events[l] < events[m]}}

\* Mutant of Listen: the hub is subscribed to after the replay.
ListenLate(s, c) == IF s.step = "follow" THEN Send(s, c) ELSE s

\* The listener in the hub: during the replay, events are kept for later.
Listen(s, c) ==
    CASE s.step = "closed" -> s
      [] s.step \in {"read", "replay"} -> [s EXCEPT !.pending = Append(@, c)]
      [] s.step = "follow" -> Send(s, c)

Publish(e) ==
    /\ emitter[e].step = "publish"
    /\ stream' = Listen(stream, emitter[e].cursor)
    /\ reordered' = (reordered \/ Overtakes(e, {"commit", "publish"}))
    /\ emitter' = [emitter EXCEPT ![e] = [step |-> "idle", event |-> 0, cursor |-> 0]]
    /\ UNCHANGED <<version, sequence, log, content, faults>>

\* A request for the events after a cursor: it subscribes before it reads.
Opened(after) == [Closed EXCEPT !.step = "read", !.after = after, !.cursor = after]

After(cursor) == {c \in log : c > cursor}

\* listEvents(workspaceId, after, limit), ORDER BY cursor.
ListEvents(cursor) ==
    {c \in After(cursor) : Cardinality({d \in After(cursor) : d <= c}) <= ReplayLimit}

ReadLog ==
    /\ stream.step = "read"
    /\ stream' = [stream EXCEPT !.step = "replay",
                                !.batch = ListEvents(stream.cursor),
                                !.whole = Cardinality(After(stream.cursor)) <= ReplayLimit]
    /\ UNCHANGED <<logVars, faults>>

\* What was read is sent, then what was published meanwhile.
Replay ==
    /\ stream.step = "replay"
    /\ stream' = [SendAll(SendAll(stream, stream.batch), Rising(stream.pending)) EXCEPT
                     !.step = "follow", !.batch = {}, !.pending = <<>>]
    /\ UNCHANGED <<logVars, faults>>

Emit ==
    \/ \E e \in Emitters : (Put(e) \/ Stream(e) \/ AppendEvent(e) \/ CommitEvent(e)
                              \/ FailToEmit(e)) /\ UNCHANGED stream
    \/ \E e \in Emitters : Publish(e)

Serve == ReadLog \/ Replay

-----------------------------------------------------------------------------

Published == log \ {emitter[e].cursor : e \in {x \in Emitters : emitter[x].step = "publish"}}

\* A connection that follows the hub has sent every published event after its
\* cursor, none lost between the replay and the hub, and none that was not asked
\* for, unless events were committed or published out of order or the replay was
\* cut off.
StreamIsComplete ==
    stream.step = "follow" =>
        /\ stream.sent \subseteq {c \in log : c > stream.after}
        /\ ~reordered /\ stream.whole =>
              {c \in Published : c > stream.after} \subseteq stream.sent

\* "Reconnect clients from old cursors and receive exactly the missing durable
\* events": the same, in whatever order events are committed and published.
ReceivesTheMissing ==
    stream.step = "follow" /\ stream.whole =>
        {c \in Published : c > stream.after} \subseteq stream.sent
=============================================================================
