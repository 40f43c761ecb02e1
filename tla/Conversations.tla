--------------------------- MODULE Conversations ---------------------------
(***************************************************************************)
(* Agents and conversations (services/api/src/domain/relay-service.ts,      *)
(* lines 181-341, 350-431 and 733-896): the rows that refer to each other   *)
(* and the handlers that keep them so by looking before they write.  No     *)
(* handler holds a transaction over its look and its writes, and a row is   *)
(* written back whole, as it was when it was read.                          *)
(* Each request creates at most one agent, conversation, task, message and  *)
(* run: they are named after it.                                            *)
(***************************************************************************)
EXTENDS Requests

CONSTANTS Agents,      \* the agents of the workspace
          Group,       \* its group conversation
          Work,        \* its task
          MaxMembers   \* bound: agents of a conversation

VARIABLES
    agents,    \* the agents there are
    chat,      \* the conversations
    task,      \* the tasks
    message,   \* the messages
    run        \* the runs

chatVars == <<agents, chat, task, message, run>>

AgentIds == Agents \cup Slots
ChatIds == Agents \cup {Group} \cup Slots   \* the direct conversation of a has the id a
TaskIds == {Work} \cup Slots

Direct(a) == [kind |-> "direct", members |-> {a}, task |-> None]
TaskChat(members, t) == [kind |-> "task", members |-> members, task |-> t]
Chats == [kind : {"direct", "group", "task"}, members : SUBSET AgentIds, task : TaskIds \cup {None}]
Tasks == [owner : AgentIds \cup {None}, chat : ChatIds \cup {None}]
Runs == [agent : AgentIds, chat : ChatIds, active : BOOLEAN]

Present(table) == {i \in DOMAIN table : table[i] # None}

ChatsTypeOK ==
    /\ agents \subseteq AgentIds
    /\ chat \in [ChatIds -> Chats \cup {None}]
    /\ task \in [TaskIds -> Tasks \cup {None}]
    /\ run \in [Slots -> Runs \cup {None}]
    \* a stored conversation never loses its last member, nor gains one past the limit
    /\ \A c \in Present(chat) : Cardinality(chat[c].members) \in 1..MaxMembers

ChatsInit ==
    /\ agents = Agents
    /\ chat = [c \in ChatIds |->
                  IF c \in Agents THEN Direct(c)
                  ELSE IF c = Group THEN [kind |-> "group", members |-> Agents, task |-> None]
                  ELSE None]
    /\ task = [t \in TaskIds |-> IF t = Work THEN [owner |-> None, chat |-> None] ELSE None]
    /\ message = [s \in Slots |-> None]
    /\ run = [s \in Slots |-> None]

\* An agent that acts is looked up by some handlers, not by all.
KnownActor(s) == By(s) = User \/ By(s) \in agents
Active(r) == run[r] # None /\ run[r].active
ActiveIn(c) == {r \in Slots : Active(r) /\ run[r].chat = c}

(***************************************************************************)
(* The handlers.                                                            *)
(***************************************************************************)
CreateSteps == <<"look", "store">>
ChangeSteps == <<"get", "save">>
RemoveSteps == <<"check", "erase">>
UpdateAgentSteps == <<"getAgent", "putAgent">>
ClearSteps == <<"open">> \o RemoveSteps \o UpdateAgentSteps \o CreateSteps
SendSteps == <<"address", "attach", "commit", "touch">>
LinkSteps == CreateSteps \o <<"getTask", "putTask">>
HelpSteps == <<"ask", "newTask">> \o LinkSteps \o <<"commit", "touch">>

ChatProgram == [
    createAgent |-> <<"enlist">>,
    duplicateAgent |-> <<"getAgent", "enlist">>,
    updateAgent |-> UpdateAgentSteps,
    deleteAgent |-> <<"survey", "dismiss">>,
    createConversation |-> CreateSteps,
    updateConversation |-> ChangeSteps,
    deleteConversation |-> RemoveSteps,
    clearConversation |-> ClearSteps,
    sendMessage |-> SendSteps,
    sendCollaborationMessage |-> <<"meet">>,
    requestAgentHelp |-> HelpSteps,
    readAgentHelp |-> <<"readHelp">>]

\* What the handler starts with: the rows its arguments name.
Arguments(s) ==
    LET a == asked[s]
    IN [Fresh EXCEPT !.id = a.chat, !.task = a.task,
            !.agent = IF Op(s) = "createSchedule" /\ By(s) # User THEN By(s) ELSE a.agent,
            !.row = IF Op(s) = "createConversation"
                      THEN [kind |-> a.kind, members |-> a.members, task |-> a.task] ELSE None]

(***************************************************************************)
(* Agents.                                                                  *)
(***************************************************************************)
Enlist(s) ==
    /\ At(s, "enlist") /\ Moves(s, req[s])
    /\ agents' = agents \cup {s}
    /\ UNCHANGED <<chat, task, message, run>>

AgentFound(s) == req[s].agent \in agents

GetAgent(s) ==
    /\ Reads(s, "getAgent", AgentFound(s), req[s])
    /\ UNCHANGED chatVars

\* The row is stored whole: an agent deleted since it was read is there again.
PutAgent(s) ==
    /\ At(s, "putAgent") /\ Moves(s, req[s])
    /\ agents' = agents \cup {req[s].agent}
    /\ UNCHANGED <<chat, task, message, run>>

\* deleteAgent: no task of the agent is open and no run active; its conversations are
\* remembered as they are.
Survey(s) ==
    LET a == req[s].agent
        free == /\ \A t \in Present(task) : task[t].owner # a
                /\ \A r \in Slots : Active(r) => run[r].agent # a
        theirs == {<<c, chat[c]>> : c \in {d \in Present(chat) : a \in chat[d].members}}
    IN /\ At(s, "survey")
       /\ IF a \in agents /\ free
            THEN Goes(s, [req[s] EXCEPT !.todo = theirs,
                             !.left = IF theirs = {} THEN <<"dismiss">> ELSE <<"detach", "dismiss">>])
            ELSE Refuses(s)
       /\ UNCHANGED chatVars

\* What is left of a loop once one item is done.
Rest(s, item) ==
    LET todo == req[s].todo \ {item}
    IN [req[s] EXCEPT !.todo = todo, !.left = IF todo = {} THEN Tail(@) ELSE @]

\* The messages of a conversation go with its row, its runs and the keys do not.
MessagesWithout(c) ==
    [m \in Slots |-> IF message[m] # None /\ message[m].chat = c THEN None ELSE message[m]]

\* The conversation as it was surveyed, without the agent.
Without(row, a) == [row EXCEPT !.members = @ \ {a}]
WithoutDirect(row, a) == IF row.kind = "direct" THEN None ELSE Without(row, a)
Detached(row, a) ==
    IF row.kind = "direct" \/ row.members = {a} THEN None ELSE Without(row, a)

Detach(s) ==
    /\ At(s, "detach")
    /\ \E item \in req[s].todo :
          LET row == Detached(item[2], req[s].agent)
          IN /\ chat' = [chat EXCEPT ![item[1]] = row]
             /\ message' = IF row = None THEN MessagesWithout(item[1]) ELSE message
             /\ Goes(s, Rest(s, item))
    /\ UNCHANGED <<agents, task, run>>

Dismiss(s) ==
    /\ At(s, "dismiss") /\ Moves(s, req[s])
    /\ agents' = agents \ {req[s].agent}
    /\ UNCHANGED <<chat, task, message, run>>

(***************************************************************************)
(* Conversations.                                                           *)
(***************************************************************************)
\* The direct conversations that are answered instead of creating the row.
NoneSame(row) == {}
Same(row) ==
    {c \in Present(chat) : /\ row.kind = "direct" /\ Cardinality(row.members) = 1
                           /\ chat[c].kind = "direct" /\ chat[c].members = row.members}

\* createConversation: the members and the task exist.
Look(s) ==
    LET row == req[s].row
    IN /\ At(s, "look")
       /\ IF row.members \subseteq agents /\ (row.task # None => task[row.task] # None)
            THEN IF Same(row) = {}
                   THEN Moves(s, req[s])
                   ELSE Goes(s, [req[s] EXCEPT !.id = CHOOSE c \in Same(row) : TRUE,
                                               !.left = Tail(Tail(@))])
            ELSE Refuses(s)
       /\ UNCHANGED chatVars

Store(s) ==
    /\ At(s, "store") /\ Moves(s, [req[s] EXCEPT !.id = s])
    /\ chat' = [chat EXCEPT ![s] = req[s].row]
    /\ UNCHANGED <<agents, task, message, run>>

\* The members updateConversation is to write: those asked for, or those a message adds.
NewMembers(s) == IF req[s].todo # {} THEN req[s].todo ELSE asked[s].members

Get(s) ==
    LET c == req[s].id
        ok == chat[c] # None /\ KnownActor(s) /\ NewMembers(s) \subseteq agents
    IN /\ Reads(s, "get", ok, [req[s] EXCEPT !.row = IF ok THEN [chat[c] EXCEPT !.members = NewMembers(s)] ELSE @,
                                             !.todo = {}])
       /\ UNCHANGED chatVars

Save(s) ==
    /\ At(s, "save") /\ Moves(s, req[s])
    /\ chat' = [chat EXCEPT ![req[s].id] = req[s].row]
    /\ UNCHANGED <<agents, task, message, run>>

\* deleteConversation refuses while a run is active in it.
Unasked(c) == TRUE
Idle(c) == ActiveIn(c) = {}

Check(s) ==
    /\ Reads(s, "check", KnownActor(s) /\ chat[req[s].id] # None /\ Idle(req[s].id), req[s])
    /\ UNCHANGED chatVars

Erase(s) ==
    /\ At(s, "erase") /\ Moves(s, req[s])
    /\ chat' = [chat EXCEPT ![req[s].id] = None]
    /\ message' = MessagesWithout(req[s].id)
    /\ UNCHANGED <<agents, task, run>>

\* clearConversation: the owner's, for a direct conversation; the runs active in it are
\* remembered, and so is what the conversation is to be replaced with.
Open(s) ==
    LET c == req[s].id
        a == CHOOSE m \in chat[c].members : TRUE
        active == ActiveIn(c)
    IN /\ At(s, "open")
       /\ IF By(s) = User /\ chat[c] # None /\ chat[c].kind = "direct" /\ Cardinality(chat[c].members) = 1
            THEN Goes(s, [req[s] EXCEPT !.todo = active, !.agent = a, !.row = Direct(a),
                             !.left = (IF active = {} THEN <<>> ELSE <<"interrupt">>) \o Tail(@)])
            ELSE Refuses(s)
       /\ UNCHANGED chatVars

\* interruptRun, one run at a time; it then looks the run's agent up.
Interrupt(s) ==
    /\ At(s, "interrupt")
    /\ \E r \in req[s].todo :
          /\ run' = [run EXCEPT ![r].active = FALSE]
          /\ IF run[r].active => run[r].agent \in agents THEN Goes(s, Rest(s, r)) ELSE Refuses(s)
    /\ UNCHANGED <<agents, chat, task, message>>

(***************************************************************************)
(* Messages.                                                                *)
(***************************************************************************)
Address(s) ==
    LET c == req[s].id
        ok == /\ chat[c] # None /\ req[s].agent \in agents /\ req[s].agent \in chat[c].members
              /\ asked[s].task # None => task[asked[s].task] # None
    IN /\ Reads(s, "address", ok, [req[s] EXCEPT !.row = chat[c]])
       /\ UNCHANGED chatVars

\* commitMessageRun stores the message, its run and its job in one transaction; of a key
\* that is taken it stores nothing, and the conversation is not touched.  The foreign key
\* of messages refuses one whose conversation is gone.
Taken(k) == k # None /\ \E r \in Present(run) : asked[r].key = k
Homeless(s) == database = "postgres" /\ chat[req[s].id] = None

Commit(s) ==
    /\ At(s, "commit")
    /\ IF Taken(asked[s].key) \/ Homeless(s)
         THEN /\ IF Taken(asked[s].key) THEN Goes(s, [req[s] EXCEPT !.left = <<>>]) ELSE Refuses(s)
              /\ UNCHANGED chatVars
         ELSE /\ Moves(s, req[s])
              /\ message' = [message EXCEPT ![s] =
                    [chat |-> req[s].id, key |-> asked[s].key, attachments |-> req[s].value]]
              /\ run' = [run EXCEPT ![s] = [agent |-> req[s].agent, chat |-> req[s].id, active |-> TRUE]]
              /\ UNCHANGED <<agents, chat, task>>

\* The conversation is written back for its lastMessageAt, as it was when it was read.
Touch(s) ==
    /\ At(s, "touch") /\ Moves(s, req[s])
    /\ chat' = [chat EXCEPT ![req[s].id] = req[s].row]
    /\ UNCHANGED <<agents, task, message, run>>

(***************************************************************************)
(* Collaboration of agents.                                                 *)
(***************************************************************************)
\* sendCollaborationMessage: the task's conversation is created, joined or used.
Meet(s) ==
    LET t == asked[s].task
        pair == {By(s), req[s].agent}
        c == task[t].chat
        members == chat[c].members \cup pair
        ends == <<"say", "touch">>
    IN /\ At(s, "meet")
       /\ IF pair \subseteq agents /\ task[t] # None
            THEN IF c = None
                   THEN Goes(s, [req[s] EXCEPT !.row = TaskChat(pair, t), !.left = LinkSteps \o ends])
                   ELSE IF chat[c] # None /\ Cardinality(members) <= MaxMembers
                          THEN Goes(s, [req[s] EXCEPT !.id = c, !.row = chat[c],
                                  !.todo = IF members = chat[c].members THEN {} ELSE members,
                                  !.left = IF members = chat[c].members THEN ends ELSE ChangeSteps \o ends])
                          ELSE Refuses(s)
            ELSE Refuses(s)
       /\ UNCHANGED chatVars

\* updateTask links the task to the conversation; its row is written as it was read.
GetTask(s) ==
    LET t == req[s].task
        ok == KnownActor(s) /\ task[t] # None /\ chat[req[s].id] # None
    IN /\ Reads(s, "getTask", ok, [req[s] EXCEPT !.value = task[t]])
       /\ UNCHANGED chatVars

PutTask(s) ==
    /\ At(s, "putTask") /\ Moves(s, [req[s] EXCEPT !.value = None])
    /\ task' = [task EXCEPT ![req[s].task] = [req[s].value EXCEPT !.chat = req[s].id]]
    /\ UNCHANGED <<agents, chat, message, run>>

\* The agents' message has no key and starts no run.
Say(s) ==
    /\ At(s, "say")
    /\ IF Homeless(s)
         THEN Refuses(s) /\ UNCHANGED message
         ELSE /\ Moves(s, req[s])
              /\ message' = [message EXCEPT ![s] = [chat |-> req[s].id, key |-> None, attachments |-> None]]
    /\ UNCHANGED <<agents, chat, task, run>>

\* requestAgentHelp: a child task of another agent, its conversation and its run.
AskHelp(s) ==
    LET a == req[s].agent
        ok == {By(s), a} \subseteq agents /\ task[asked[s].task] # None /\ By(s) # a
    IN /\ Reads(s, "ask", ok, [req[s] EXCEPT !.task = s, !.row = TaskChat({By(s), a}, s)])
       /\ UNCHANGED chatVars

NewTask(s) ==
    /\ At(s, "newTask") /\ Moves(s, req[s])
    /\ task' = [task EXCEPT ![s] = [owner |-> req[s].agent, chat |-> None]]
    /\ UNCHANGED <<agents, chat, message, run>>

\* readAgentHelp: only a member of the conversation is answered.
ReadHelp(s) ==
    LET t == task[asked[s].task]
    IN /\ Reads(s, "readHelp", /\ By(s) \in agents /\ t # None /\ t.chat # None
                               /\ chat[t.chat] # None /\ By(s) \in chat[t.chat].members, req[s])
       /\ UNCHANGED chatVars

\* The worker ends a run.
RunEnds ==
    /\ \E r \in Slots : Active(r) /\ run' = [run EXCEPT ![r].active = FALSE]
    /\ UNCHANGED <<requestVars, agents, chat, task, message>>

ChatStep(s) ==
    \/ Enlist(s) \/ GetAgent(s) \/ PutAgent(s) \/ Survey(s) \/ Detach(s) \/ Dismiss(s)
    \/ Look(s) \/ Store(s) \/ Get(s) \/ Save(s) \/ Check(s) \/ Erase(s) \/ Open(s) \/ Interrupt(s)
    \/ Address(s) \/ Commit(s) \/ Touch(s)
    \/ Meet(s) \/ GetTask(s) \/ PutTask(s) \/ Say(s) \/ AskHelp(s) \/ NewTask(s) \/ ReadHelp(s)
=============================================================================
