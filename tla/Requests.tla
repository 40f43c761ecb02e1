------------------------------ MODULE Requests ------------------------------
(***************************************************************************)
(* The requests the API handles at the same time (services/api/src/app.ts   *)
(* and the routes it registers).  A handler is a program of steps, each one *)
(* statement of the database, one operation on a file or one call, with     *)
(* what it computes up to the next await; the steps of two handlers         *)
(* interleave.  What a step of a given name does to the tables is said by   *)
(* the modules that extend this one.                                        *)
(***************************************************************************)
EXTENDS AgentTools, Naturals, Sequences, SequencesExt, FiniteSetsExt

CONSTANTS Slots,      \* the requests of a behaviour
          Mixes,      \* what the slots may be asked, one function per mix
          None,       \* no value
          MaxFaults   \* bound: errors and crashes of one behaviour

VARIABLES
    database, \* where the tables are: in the memory of the process, or in PostgreSQL
    asked,    \* what each request asks for, None for one that is never made
    req,      \* how far it is, and the values its handler holds
    before,   \* the pairs of requests of which one ended before the other began
    faults    \* errors and crashes so far

requestVars == <<database, asked, req, before, faults>>

User == "user"   \* the owner of the workspace

\* The variables of a handler: the conversation (or other row) it is about and the copy of
\* it that it holds, the agent and task, what is left of a loop, what it computed.
Fresh == [state |-> "waiting", left |-> <<>>, id |-> None, row |-> None, agent |-> None,
          task |-> None, todo |-> {}, value |-> None]

\* A request that was refused keeps the step that refused it.
States == {"waiting", "running", "done", "refused", "lost"}
Running(s) == req[s].state = "running"
Ended(s) == req[s].state \in {"done", "refused", "lost"}
Done(s) == req[s].state = "done"
At(s, step) == Running(s) /\ Head(req[s].left) = step
\* The step at which request s was refused.
RefusedAt(s, step) == req[s].state = "refused" /\ Head(req[s].left) = step

RequestsInit ==
    /\ database \in {"memory", "postgres"}
    /\ asked \in Mixes
    /\ req = [s \in Slots |-> Fresh]
    /\ before = {}
    /\ faults = 0

(***************************************************************************)
(* A handler goes on with its variables r, which say what is left to do, or *)
(* stops.                                                                   *)
(***************************************************************************)
Goes(s, r) ==
    /\ req' = [req EXCEPT ![s] = IF r.left = <<>> THEN [r EXCEPT !.state = "done"] ELSE r]
    /\ UNCHANGED <<database, asked, before, faults>>

Moves(s, r) == Goes(s, [r EXCEPT !.left = Tail(@)])

Refuses(s) ==
    /\ req' = [req EXCEPT ![s].state = "refused"]
    /\ UNCHANGED <<database, asked, before, faults>>

\* A step that only reads: it goes on with what it read, or the handler throws.
Reads(s, step, ok, r) ==
    /\ At(s, step)
    /\ IF ok THEN Moves(s, r) ELSE Refuses(s)

\* What the route, or the tool of the agent, asks for.
Operation(a) == IF a.tool = None THEN a.op ELSE Tools[a.tool]
Op(s) == Operation(asked[s])
By(s) == asked[s].by

\* A request arrives: its handler begins with the variables r, or the hook or a schema
\* turns it away.
Arrives(s, admitted, r) ==
    /\ req[s].state = "waiting" /\ asked[s] # None
    /\ req' = [req EXCEPT ![s] = IF admitted THEN [r EXCEPT !.state = "running"]
                                 ELSE [r EXCEPT !.state = "refused", !.left = <<"admission">>]]
    /\ before' = before \cup {<<t, s>> : t \in {u \in Slots : Ended(u)}}
    /\ UNCHANGED <<database, asked, faults>>

\* A statement or an operation of the present step fails, and the handler throws.
Breaks(s) ==
    /\ Running(s) /\ faults < MaxFaults
    /\ faults' = faults + 1
    /\ req' = [req EXCEPT ![s].state = "refused"]
    /\ UNCHANGED <<database, asked, before>>

\* The API's process ends: no handler goes on, and no catch block runs.
Crash ==
    /\ faults < MaxFaults /\ \E s \in Slots : Running(s)
    /\ faults' = faults + 1
    /\ req' = [s \in Slots |-> IF Running(s) THEN [req[s] EXCEPT !.state = "lost"] ELSE req[s]]
    /\ UNCHANGED <<database, asked, before>>

(***************************************************************************)
(* Two requests cross if neither ended before the other began.              *)
(***************************************************************************)
Began(s) == req[s].state # "waiting"
Crossed(s, t) ==
    /\ s # t /\ Began(s) /\ Began(t)
    /\ <<s, t>> \notin before /\ <<t, s>> \notin before

RequestsTypeOK ==
    /\ \A s \in Slots : req[s].state \in States
    /\ before \subseteq Slots \X Slots
    /\ faults \in 0..MaxFaults
    \* a handler that is running has a step to take, and only one that ended has none
    /\ \A s \in Slots : req[s].left = <<>> <=> req[s].state \in {"waiting", "done"}
=============================================================================
