---------------------------- MODULE CodexBridge ----------------------------
(***************************************************************************)
(* The bridge between executions of runs (CodexAgentRuntime) and the codex *)
(* process: the codex worker starts the process, sends it requests, keeps  *)
(* its events in a bounded buffer and passes approvals on; an execution    *)
(* resumes its thread, starts a turn and reads the turn's events.          *)
(*                                                                         *)
(* All executions are of one agent, so that they share its thread; each    *)
(* starts at most one turn, which has the execution's name.  The codex     *)
(* process is external: it answers, streams and asks as it likes, numbers  *)
(* its requests from 1, exits at any time and knows the threads it has     *)
(* started or resumed.                                                     *)
(***************************************************************************)
EXTENDS Naturals, Sequences, FiniteSets

CONSTANTS Executions,
          BufferLimit,  \* 10,000 events
          MaxChildren,  \* bound: codex processes started
          MaxPieces,    \* bound: pieces of text of a turn
          MaxAsks,      \* bound: approvals a process asks for
          MaxRestarts   \* bound: restarts of the codex worker

ASSUME BridgeAssumption ==
    /\ {MaxPieces, MaxAsks, MaxRestarts} \subseteq Nat
    /\ {BufferLimit, MaxChildren} \subseteq Nat \ {0}

VARIABLES child,       \* child[k]: the k-th codex process
          client,      \* this.client: the process it stands for, or 0
          initialized, \* this.initialized
          thread,      \* the processes that know the thread
          turn,        \* turn[e]: what became of e's turn in the process
          host,        \* host[e]: the process that runs it
          pieces,      \* pieces[e]: the text the process has sent of it
          asked,       \* asked[k]: the turns for which k has asked, in order
          told,        \* history: the decisions that processes have received
          pending,     \* pendingApprovals: id -> <<process, turn>>
          cursor,      \* EventBuffer.cursor
          buffer,      \* EventBuffer.events: its order is that of the cursors
          dropped,     \* history: turns of which the buffer has dropped an event
          restarts,    \* the number of restarts of the codex worker
          exec,        \* exec[e]: the step of the execution
          wire,        \* wire[e]: events in e's stream, not yet read
          content,     \* content[e]: how much text e has read
          approvals,   \* the rows: id -> [of, status]
          reading      \* the user's request: the row that it has read, its id

codexVars == <<thread, turn, host, pieces, asked, told>>
workerVars == <<child, client, initialized, pending, cursor, buffer, dropped, restarts>>
execVars == <<exec, wire, content, approvals, reading>>
vars == <<codexVars, workerVars, execVars>>

Children == 1..MaxChildren
Ids == 1..MaxAsks
Calls == {"resume", "start", "turn", "interrupt"}
NoAsk == <<0, 0>>
NoRow == [of |-> NoAsk, status |-> "none"]

\* call is what the execution asks of the process, peer the process it asked;
\* id is the approval it waits for, row the row it has found.
Idle == [step |-> "idle", call |-> "resume", peer |-> 0, id |-> 0, row |-> NoRow]
Nothing == [id |-> 0, row |-> NoRow]

Events == [cursor : Nat, turn : Executions, kind : {"delta", "ask", "completed", "failed"},
           id : 0..MaxAsks]
Rows == [of : ((0..MaxChildren) \X Executions) \cup {NoAsk},
         status : {"none", "pending", "approved", "denied"}]
ExecutionStates ==
    [step : {"idle", "call", "mkdir", "initialize", "wait", "connect", "consume",
             "decide", "resolve", "done", "failed"},
     call : Calls, peer : 0..MaxChildren, id : 0..MaxAsks, row : Rows]

TypeOK ==
    /\ child \in [Children -> {"none", "starting", "ready", "stopping", "exited"}]
    /\ client \in 0..MaxChildren
    /\ initialized \in BOOLEAN
    /\ thread \in SUBSET Children
    /\ turn \in [Executions -> {"none", "running", "asking", "completed", "failed", "lost"}]
    /\ host \in [Executions -> 0..MaxChildren]
    /\ pieces \in [Executions -> 0..MaxPieces]
    /\ asked \in [Children -> Seq(Executions)] /\ \A k \in Children : Len(asked[k]) <= MaxAsks
    /\ \A t \in told : t.process \in Children /\ t.id \in Ids
    /\ pending \in [Ids -> (Children \X Executions) \cup {NoAsk}]
    /\ cursor \in Nat
    /\ buffer \in SUBSET Events /\ Cardinality(buffer) <= BufferLimit
    /\ dropped \in SUBSET Executions
    /\ restarts \in 0..MaxRestarts
    /\ exec \in [Executions -> ExecutionStates]
    /\ wire \in [Executions -> SUBSET Events]
    /\ content \in [Executions -> 0..MaxPieces]
    /\ approvals \in [Ids -> Rows]
    /\ reading \in [id : 0..MaxAsks, row : Rows]

\* The worker has started, with or without a codex process.
Init ==
    /\ child \in {[k \in Children |-> "none"], [k \in Children |-> IF k = 1 THEN "ready" ELSE "none"]}
    /\ client = IF child[1] = "ready" THEN 1 ELSE 0
    /\ initialized = (client = 1)
    /\ thread = {}
    /\ turn = [e \in Executions |-> "none"]
    /\ host = [e \in Executions |-> 0]
    /\ pieces = [e \in Executions |-> 0]
    /\ asked = [k \in Children |-> <<>>]
    /\ told = {}
    /\ pending = [i \in Ids |-> NoAsk]
    /\ cursor = 0
    /\ buffer = {}
    /\ dropped = {}
    /\ restarts = 0
    /\ exec = [e \in Executions |-> Idle]
    /\ wire = [e \in Executions |-> {}]
    /\ content = [e \in Executions |-> 0]
    /\ approvals = [i \in Ids |-> NoRow]
    /\ reading = Nothing

-----------------------------------------------------------------------------
(* The event buffer.                                                       *)

\* Mutant of Matches: the turn is not looked at.
MatchesThread(e, event) == TRUE

\* The frames that consumeTurn does not skip.
Matches(e, event) == event.turn = e

Streams(e) == exec[e].step \in {"consume", "decide", "resolve"}

\* Mutant of Overflow: one event too many is kept.
OverflowLate(all) ==
    {event \in all : Cardinality({newer \in all : newer.cursor > event.cursor}) > BufferLimit}

\* All events but the BufferLimit newest.
Overflow(all) ==
    {event \in all : Cardinality({newer \in all : newer.cursor > event.cursor}) >= BufferLimit}

\* append: the oldest events are dropped, the streams that are open get it.
AppendEvent(e, kind, id) ==
    LET event == [cursor |-> cursor + 1, turn |-> e, kind |-> kind, id |-> id]
        all == buffer \cup {event}
    IN /\ cursor' = cursor + 1
       /\ buffer' = all \ Overflow(all)
       /\ dropped' = dropped \cup {old.turn : old \in Overflow(all)}
       /\ wire' = [x \in Executions |-> IF Streams(x) /\ Matches(x, event)
                                        THEN wire[x] \cup {event} ELSE wire[x]]

-----------------------------------------------------------------------------
(* The codex process: external.                                            *)

Up(k) == child[k] \in {"starting", "ready", "stopping"}
TurnsOf(k) == {e \in Executions : turn[e] \in {"running", "asking"} /\ host[e] = k}

Delta(e) ==
    /\ turn[e] = "running" /\ pieces[e] < MaxPieces
    /\ pieces' = [pieces EXCEPT ![e] = @ + 1]
    /\ AppendEvent(e, "delta", 0)
    /\ UNCHANGED <<thread, turn, host, asked, told, child, client, initialized, pending, restarts,
                   exec, content, approvals, reading>>

EndTurn(e, status) ==
    /\ turn[e] = "running"
    /\ turn' = [turn EXCEPT ![e] = status]
    /\ AppendEvent(e, status, 0)
    /\ UNCHANGED <<thread, host, pieces, asked, told, child, client, initialized, pending, restarts,
                   exec, content, approvals, reading>>

\* It asks for an approval: handleServerRequest.
AskApproval(e) ==
    /\ turn[e] = "running"
    /\ LET k == host[e]
           id == Len(asked[k]) + 1
       IN /\ id \in Ids
          /\ asked' = [asked EXCEPT ![k] = Append(@, e)]
          /\ pending' = [pending EXCEPT ![id] = <<k, e>>]
          /\ AppendEvent(e, "ask", id)
    /\ turn' = [turn EXCEPT ![e] = "asking"]
    /\ UNCHANGED <<thread, host, pieces, told, child, client, initialized, restarts,
                   exec, content, approvals, reading>>

-----------------------------------------------------------------------------
(* Requests to the process: requireClient, start, JsonRpcLineClient.       *)

Step(e, step) == [exec EXCEPT ![e].step = step]

\* What an execution does next when its call has failed.
Rejected(x) ==
    IF x.call = "resume" THEN [x EXCEPT !.step = "call", !.call = "start", !.peer = 0]
    ELSE [x EXCEPT !.step = "failed"]

\* requireClient: start returns at once when there is a client, initialized or
\* not; the request is then written to it.
Call(e) ==
    /\ exec[e].step = "call"
    /\ exec' = IF client = 0 THEN Step(e, "mkdir")
               ELSE [exec EXCEPT ![e].step = "wait", ![e].peer = client]
    /\ UNCHANGED <<codexVars, workerVars, wire, content, approvals, reading>>

\* start, after the await: it spawns whatever the others have done meanwhile.
Spawn(e) ==
    /\ exec[e].step = "mkdir"
    /\ \E k \in Children :
          /\ child[k] = "none" /\ \A j \in Children : j < k => child[j] # "none"
          /\ child' = [child EXCEPT ![k] = "starting"]
          /\ client' = k
          /\ exec' = [exec EXCEPT ![e].step = "initialize", ![e].peer = k]
    /\ UNCHANGED <<codexVars, initialized, pending, cursor, buffer, dropped, restarts,
                   wire, content, approvals, reading>>

\* The spawn fails: its error closes the client.
SpawnFails(e) ==
    /\ exec[e].step = "mkdir"
    /\ client' = 0
    /\ initialized' = FALSE
    /\ exec' = [exec EXCEPT ![e] = Rejected(@)]
    /\ UNCHANGED <<codexVars, child, pending, cursor, buffer, dropped, restarts, wire, content, approvals, reading>>

\* It answers "initialize"; requireClient returns the client of the moment.
Initialized(e) ==
    /\ exec[e].step = "initialize"
    /\ child[exec[e].peer] = "starting"
    /\ child' = [child EXCEPT ![exec[e].peer] = "ready"]
    /\ initialized' = TRUE
    /\ exec' = IF client = 0 THEN [exec EXCEPT ![e] = Rejected(@)]
               ELSE [exec EXCEPT ![e].step = "wait", ![e].peer = client]
    /\ UNCHANGED <<codexVars, client, pending, cursor, buffer, dropped, restarts, wire, content, approvals, reading>>

\* "initialize" times out or fails: the process is told to stop.
InitializeFails(e) ==
    /\ exec[e].step = "initialize"
    /\ child' = [child EXCEPT ![exec[e].peer] = IF @ = "starting" THEN "stopping" ELSE @]
    /\ client' = 0
    /\ exec' = [exec EXCEPT ![e] = Rejected(@)]
    /\ UNCHANGED <<codexVars, initialized, pending, cursor, buffer, dropped, restarts, wire, content, approvals, reading>>

\* Before it is initialized, and for a thread or a turn that it does not know,
\* the process answers with an error.
Serves(x, e) ==
    /\ child[x.peer] # "starting"
    /\ x.call = "turn" => x.peer \in thread
    /\ x.call = "interrupt" => e \in TurnsOf(x.peer)

Answered(x) ==
    CASE x.call = "turn" -> [x EXCEPT !.step = "connect"]
      [] x.call = "interrupt" -> [x EXCEPT !.step = "failed"]
      [] OTHER -> [x EXCEPT !.step = "call", !.call = "turn", !.peer = 0]

\* The process answers; an interrupted turn is completed.
Answers(e) ==
    LET x == exec[e]
    IN /\ x.step = "wait"
       /\ Up(x.peer)
       /\ Serves(x, e)
       /\ exec' = [exec EXCEPT ![e] = Answered(x)]
       /\ thread' = thread \cup {x.peer}
       /\ turn' = CASE x.call = "turn" -> [turn EXCEPT ![e] = "running"]
                    [] x.call = "interrupt" -> [turn EXCEPT ![e] = "completed"]
                    [] OTHER -> turn
       /\ host' = IF x.call = "turn" THEN [host EXCEPT ![e] = x.peer] ELSE host
       /\ IF x.call = "interrupt" THEN AppendEvent(e, "completed", 0) ELSE UNCHANGED <<cursor, buffer, dropped, wire>>
       /\ UNCHANGED <<pieces, asked, told, child, client, initialized, pending, restarts,
                      content, approvals, reading>>

\* The process answers with an error, or the timer of the request runs out; a
\* turn may then run for nobody.
CallFails(e) ==
    LET x == exec[e]
    IN /\ x.step = "wait"
       /\ exec' = [exec EXCEPT ![e] = Rejected(x)]
       /\ \/ UNCHANGED <<turn, host>>
          \/ /\ x.call = "turn" /\ Up(x.peer) /\ Serves(x, e)
             /\ turn' = [turn EXCEPT ![e] = "running"]
             /\ host' = [host EXCEPT ![e] = x.peer]
       /\ UNCHANGED <<thread, pieces, asked, told, workerVars, wire, content, approvals, reading>>

\* close: every request that is pending is rejected.
Closed(x, k) == IF x.step = "wait" /\ x.peer = k THEN Rejected(x) ELSE x

\* The process exits; the handler of "close" clears the client, whichever it is.
\* The event it appends is of no thread.
Exit(k) ==
    /\ Up(k)
    /\ child' = [child EXCEPT ![k] = "exited"]
    /\ client' = 0
    /\ initialized' = FALSE
    /\ exec' = [e \in Executions |->
                  IF exec[e].step = "initialize" /\ exec[e].peer = k THEN exec[e] ELSE Closed(exec[e], k)]
    /\ turn' = [e \in Executions |-> IF e \in TurnsOf(k) THEN "lost" ELSE turn[e]]
    /\ UNCHANGED <<thread, host, pieces, asked, told, pending, cursor, buffer, dropped, restarts,
                   wire, content, approvals, reading>>

-----------------------------------------------------------------------------
(* The execution: execute, ensureThread, consumeTurn.                      *)

\* An agent has a thread already, or not.
Begin(e) ==
    /\ exec[e].step = "idle"
    /\ \E call \in {"resume", "start"} : exec' = [exec EXCEPT ![e].step = "call", ![e].call = call]
    /\ UNCHANGED <<codexVars, workerVars, wire, content, approvals, reading>>

\* Mutant of Replayed: only what is still to come.
NotReplayed(e) == {}

\* /v1/events?after=0: what the buffer still has; what follows comes in order.
Replayed(e) == {event \in buffer : Matches(e, event)}

Connect(e) ==
    /\ exec[e].step = "connect"
    /\ wire' = [wire EXCEPT ![e] = Replayed(e)]
    /\ exec' = Step(e, "consume")
    /\ UNCHANGED <<codexVars, workerVars, content, approvals, reading>>

\* One frame; at its end the reader is cancelled.
Consume(e) ==
    /\ exec[e].step = "consume"
    /\ \E event \in wire[e] :
          /\ \A other \in wire[e] : event.cursor <= other.cursor
          /\ content' = [content EXCEPT ![e] = IF event.kind = "delta" THEN @ + 1 ELSE @]
          /\ exec' = [exec EXCEPT ![e] =
                CASE event.kind = "completed" -> [@ EXCEPT !.step = "done"]
                  [] event.kind = "failed" -> [@ EXCEPT !.step = "failed"]
                  [] event.kind = "ask" -> [@ EXCEPT !.step = "decide", !.id = event.id]
                  [] OTHER -> @]
          /\ wire' = [wire EXCEPT ![e] = IF event.kind \in {"completed", "failed"} THEN {} ELSE @ \ {event}]
          /\ approvals' = IF event.kind = "ask"
                          THEN [approvals EXCEPT ![event.id] =
                                  [of |-> <<host[e], e>>, status |-> "pending"]]
                          ELSE approvals
    /\ UNCHANGED <<codexVars, workerVars, reading>>

\* The loop in handleApproval finds the row decided.
Decided(e) ==
    /\ exec[e].step = "decide"
    /\ approvals[exec[e].id].status \in {"approved", "denied"}
    /\ exec' = [exec EXCEPT ![e].step = "resolve", ![e].row = approvals[exec[e].id]]
    /\ UNCHANGED <<codexVars, workerVars, wire, content, approvals, reading>>

\* The process takes a decision for that of the request with this number.
Receives(k, id) ==
    IF id \notin DOMAIN asked[k] THEN turn
    ELSE [turn EXCEPT ![asked[k][id]] = IF @ = "asking" THEN "running" ELSE @]

\* resolveApproval of the worker: the answer goes to the client of the moment.
\* An error ends the execution and its reader.
Resolve(e) ==
    LET id == exec[e].id
    IN /\ exec[e].step = "resolve"
       /\ IF pending[id] = NoAsk \/ client = 0
          THEN /\ exec' = [exec EXCEPT ![e].step = "failed", ![e].row = NoRow]
               /\ wire' = [wire EXCEPT ![e] = {}]
               /\ UNCHANGED <<turn, told, pending>>
          ELSE /\ exec' = [exec EXCEPT ![e].step = "consume", ![e].row = NoRow]
               /\ pending' = [pending EXCEPT ![id] = NoAsk]
               /\ told' = told \cup {[process |-> client, id |-> id, of |-> exec[e].row.of]}
               /\ turn' = Receives(client, id)
               /\ UNCHANGED wire
       /\ UNCHANGED <<thread, host, pieces, asked, child, client, initialized, cursor, buffer, dropped,
                      restarts, content, approvals, reading>>

\* The run is interrupted: the execution ends, after a resolve that is under way,
\* and asks for the turn's end.
Abort(e) ==
    /\ exec[e].step \in {"consume", "decide"}
    /\ exec' = [exec EXCEPT ![e] = [Idle EXCEPT !.step = "call", !.call = "interrupt"]]
    /\ wire' = [wire EXCEPT ![e] = {}]
    /\ UNCHANGED <<codexVars, workerVars, content, approvals, reading>>

-----------------------------------------------------------------------------
(* The user, and the worker's own life.                                    *)

\* RelayService.resolveApproval reads the row and writes it back decided.
ReadApproval(i) ==
    /\ reading = Nothing
    /\ approvals[i].status = "pending"
    /\ reading' = [id |-> i, row |-> approvals[i]]
    /\ UNCHANGED <<codexVars, workerVars, exec, wire, content, approvals>>

Decide(status) ==
    /\ reading # Nothing
    /\ approvals' = [approvals EXCEPT ![reading.id] = [reading.row EXCEPT !.status = status]]
    /\ reading' = Nothing
    /\ UNCHANGED <<codexVars, workerVars, exec, wire, content>>

Restart ==
    /\ restarts < MaxRestarts
    /\ restarts' = restarts + 1
    /\ child' = [k \in Children |-> IF Up(k) THEN "exited" ELSE child[k]]
    /\ client' = 0
    /\ initialized' = FALSE
    /\ pending' = [i \in Ids |-> NoAsk]
    /\ cursor' = 0
    /\ buffer' = {}
    /\ dropped' = dropped \cup {event.turn : event \in buffer}
    /\ exec' = [e \in Executions |->
                  IF exec[e].step \in {"mkdir", "initialize", "wait"} THEN Rejected(exec[e])
                  ELSE IF Streams(e) THEN [exec[e] EXCEPT !.step = "failed", !.row = NoRow] ELSE exec[e]]
    /\ wire' = [e \in Executions |-> {}]
    /\ turn' = [e \in Executions |-> IF turn[e] \in {"running", "asking"} THEN "lost" ELSE turn[e]]
    /\ UNCHANGED <<thread, host, pieces, asked, told, content, approvals, reading>>

-----------------------------------------------------------------------------

Codex == \/ \E e \in Executions : Delta(e) \/ EndTurn(e, "completed") \/ EndTurn(e, "failed")
                                  \/ AskApproval(e)
         \/ \E k \in Children : Exit(k)

Start(e) == Spawn(e) \/ SpawnFails(e) \/ Initialized(e) \/ InitializeFails(e)

Request(e) == Call(e) \/ Answers(e) \/ CallFails(e)

Execute(e) == Connect(e) \/ Consume(e) \/ Decided(e) \/ Resolve(e)

User == \/ \E i \in Ids : ReadApproval(i)
        \/ Decide("approved") \/ Decide("denied")

Next ==
    \/ Codex
    \/ \E e \in Executions : Begin(e) \/ Start(e) \/ Request(e) \/ Execute(e) \/ Abort(e)
    \/ User
    \/ Restart

Spec == Init /\ [][Next]_vars

\* Calls are answered or time out, executions go on, and the process ends a turn
\* that it runs.  Nobody has to decide.
FairSpec ==
    /\ Spec
    /\ \A e \in Executions :
          /\ WF_vars(Start(e)) /\ WF_vars(Request(e)) /\ WF_vars(Execute(e))
          /\ WF_vars(EndTurn(e, "completed"))

-----------------------------------------------------------------------------

\* What an execution returns is the text of its own turn, all of it, though the
\* stream begins with earlier turns of the thread, unless the buffer has dropped
\* events of the turn.
ReplyIsTheTurns ==
    \A e \in Executions :
        exec[e].step = "done" /\ e \notin dropped =>
            turn[e] = "completed" /\ content[e] = pieces[e]

\* Its process is gone, it or the execution waits for a decision, or events of
\* its turn are dropped.
Stuck(e) == turn[e] \in {"lost", "asking"} \/ exec[e].step = "decide" \/ e \in dropped

\* An execution ends, whichever calls fail and however late it connects.
EndsUnlessStuck ==
    \A e \in Executions : []<>(exec[e].step \in {"idle", "done", "failed"} \/ Stuck(e))

\* "Approval and input requests resolve back to the correct turn": a process is
\* told the decision that was made about the request it takes it for.
DecisionsReachTheirTurn ==
    \A t \in told : t.id \in DOMAIN asked[t.process] => t.of = <<t.process, asked[t.process][t.id]>>
=============================================================================
