------------------------------ MODULE Workspace ------------------------------
(***************************************************************************)
(* The API as the clients and the agents' tools use it (services/api/src/   *)
(* app.ts): requests about agents, conversations, messages, artifacts,      *)
(* connectors, the user's profile and dates of schedules, handled at the    *)
(* same time over the same tables.                                          *)
(***************************************************************************)
EXTENDS Artifacts, Connectors, Cron

CONSTANTS Keys,         \* the fields a profile may have
          SecretKeys,   \* those that must not be stored
          MaxProfile    \* bound: fields of a profile

\* There is a bound to what one workspace is asked, and the rows differ from no row.
ASSUME WorkspaceAssumption ==
    /\ IsFiniteSet(Slots) /\ IsFiniteSet(Agents) /\ Plan \notin Slots
    /\ Slots \cap (Agents \cup {Group}) = {}
    /\ MaxMembers \in Nat \ {0, 1} /\ Cardinality(Agents) \in 1..MaxMembers
    /\ MaxProfile \in Nat /\ MaxFaults \in Nat
    /\ Old \in Secrets
    /\ None \notin Runs /\ None \notin ArtifactRows /\ None \notin Chats /\ None \notin ChatIds

VARIABLES profile   \* the fields the user's profile has

vars == <<requestVars, chatVars, artifactVars, connectorVars, profile>>

TypeOK ==
    /\ RequestsTypeOK /\ ChatsTypeOK /\ ArtifactsTypeOK /\ ConnectorsTypeOK
    /\ profile \subseteq Keys /\ Cardinality(profile) <= MaxProfile

Init == RequestsInit /\ ChatsInit /\ ArtifactsInit /\ ConnectorsInit /\ profile = {}

(***************************************************************************)
(* The profile is read, changed and stored whole.                           *)
(***************************************************************************)
OnlyTheNew(s) == asked[s].adds \ asked[s].removes
Merged(s) == (profile \cup asked[s].adds) \ asked[s].removes

ReadProfile(s) ==
    /\ Reads(s, "getProfile", /\ asked[s].adds \cap SecretKeys = {}
                              /\ Cardinality(Merged(s)) <= MaxProfile, [req[s] EXCEPT !.value = Merged(s)])
    /\ UNCHANGED profile

PutProfile(s) ==
    /\ At(s, "putProfile") /\ Moves(s, req[s])
    /\ profile' = req[s].value

(***************************************************************************)
(* A schedule: the conversation its runs are to be in, and its first date.  *)
(* What becomes of its row is the business of Schedules.                    *)
(***************************************************************************)
\* scheduleConversation: the one that is named, or the direct one of the agent.
Homes(s) ==
    LET a == req[s].agent
    IN {c \in Present(chat) :
           IF asked[s].chat # None THEN c = asked[s].chat /\ a \in chat[c].members
           ELSE chat[c].kind = "direct" /\ chat[c].members = {a}}

FindHome(s) == Reads(s, "home", Homes(s) # {}, req[s])

FirstRun(s) ==
    LET e == asked[s].cron   now == asked[s].now
    IN /\ At(s, "date")
       /\ IF HasOccurrence(e, now) THEN Moves(s, [req[s] EXCEPT !.value = NextCronOccurrence(e, now)])
                                   ELSE Refuses(s)

(***************************************************************************)
(* The requests.                                                            *)
(***************************************************************************)
OtherProgram == [
    read |-> <<"read">>,
    updateProfile |-> <<"getProfile", "putProfile">>,
    createSchedule |-> <<"getAgent", "home", "date">>]

Program(op) ==
    CASE op \in DOMAIN ChatProgram -> ChatProgram[op]
      [] op \in DOMAIN ArtifactProgram -> ArtifactProgram[op]
      [] op \in DOMAIN ConnectorProgram -> ConnectorProgram[op]
      [] op \in DOMAIN OtherProgram -> OtherProgram[op]

\* What a route and its schema let pass: an id is of a row that is there or not, a
\* conversation has members up to the limit, only a message has a key, and a schedule an
\* expression and a time that the clock covers.
Routes == DOMAIN ChatProgram \cup DOMAIN ArtifactProgram \cup DOMAIN ConnectorProgram \cup DOMAIN OtherProgram
WellFormed(a) ==
    LET op == Operation(a)
    IN /\ op \in Routes
       /\ a.by \in AgentIds \cup {User} /\ a.members \subseteq AgentIds /\ a.task \in TaskIds \cup {None}
       /\ a.kind \in {"direct", "group", "task"}
       /\ op \in {"updateConversation", "clearConversation", "sendMessage"} => a.chat \in ChatIds
       /\ op = "sendCollaborationMessage" => a.chat = None
       /\ op = "updateConversation" => Cardinality(a.members) \in 1..MaxMembers
       /\ a.key # None => op = "sendMessage"
       /\ a.attachments \subseteq ArtifactIds
       /\ op \in {"upload", "rename"} => a.parent \in ArtifactIds \/ (op = "upload" /\ a.parent = None)
       /\ op \in {"connect", "createConnector"} => a.secret \in Secrets
       /\ a.adds \subseteq Keys
       /\ op = "createSchedule" => /\ a.cron \in Expressions
                                 /\ a.now \in Nat /\ Tried(a.now) \subseteq DOMAIN Local

ASSUME InputsAssumption == \A mix \in Mixes : \A s \in Slots : mix[s] # None => WellFormed(mix[s])

Read(s) == At(s, "read") /\ Moves(s, req[s])

\* What the hook and the schemas ask: the collaboration of agents has an agent and a task,
\* a message its key, a conversation its members.
ForAgents == {"sendCollaborationMessage", "requestAgentHelp", "readAgentHelp"}
Admitted(s) ==
    LET a == asked[s]
    IN /\ Op(s) \in ForAgents => a.by # User /\ a.task # None
       /\ Op(s) = "createConversation" => Cardinality(a.members) \in 1..MaxMembers
       /\ Op(s) = "sendMessage" => a.key # None

Arrive(s) ==
    /\ Arrives(s, Admitted(s), [Arguments(s) EXCEPT !.left = Program(Op(s))])
    /\ UNCHANGED <<chatVars, artifactVars, connectorVars, profile>>

\* A step of the handler of s; those of the connectors and of the profile are of no other route.
Handles(s) ==
    \/ ChatStep(s) /\ UNCHANGED <<artifactVars, connectorVars, profile>>
    \/ ArtifactStep(s) /\ UNCHANGED <<chatVars, connectorVars, profile>>
    \/ /\ ConnectorStep(s) /\ Op(s) \in DOMAIN ConnectorProgram
       /\ UNCHANGED <<chatVars, artifactVars, profile>>
    \/ /\ (ReadProfile(s) \/ PutProfile(s)) /\ Op(s) = "updateProfile"
       /\ UNCHANGED <<chatVars, artifactVars, connectorVars>>
    \/ (FindHome(s) \/ FirstRun(s) \/ Read(s)) /\ UNCHANGED <<chatVars, artifactVars, connectorVars, profile>>

\* A step fails, and the handler's catch block takes back what it can.
Fails(s) ==
    /\ Breaks(s) /\ TakesBack(s)
    /\ UNCHANGED <<chatVars, connectorVars, profile>>

Restart ==
    /\ Crash
    /\ UNCHANGED <<chatVars, artifactVars, connectorVars, profile>>

RunsEnd ==
    /\ RunEnds
    /\ UNCHANGED <<artifactVars, connectorVars, profile>>

Next == (\E s \in Slots : Arrive(s) \/ Handles(s) \/ Fails(s)) \/ Restart \/ RunsEnd

Spec == Init /\ [][Next]_vars

(***************************************************************************)
(* Properties.  Handlers look before they write and hold nothing in         *)
(* between, so each says which requests must not cross for it to hold.      *)
(***************************************************************************)
Of(ops) == {s \in Slots : Began(s) /\ Op(s) \in ops}
CrossAny(s, ops) == \E t \in Of(ops) : Crossed(s, t)

\* The conversations that an update, the agents' messages or their creation may have left
\* without a member whose run is active, or direct with a second member: deleteAgent looks
\* for runs of the agent only, and deletes a conversation that is direct or whose last
\* member it is.
Reshaped(c) ==
    \/ \E u \in Of({"updateConversation"}) : asked[u].chat = c
    \/ \E u \in Of({"sendCollaborationMessage"}) : req[u].id = c
    \/ c \in Of({"createConversation"}) /\ asked[c].kind = "direct" /\ Cardinality(asked[c].members) > 1

MembersExist == \A c \in Present(chat) : chat[c].members \subseteq agents
RunsKeepTheirChat ==
    \A s \in Slots : Active(s) /\ chat[run[s].chat] = None =>
        CrossAny(s, {"deleteConversation", "clearConversation"}) \/ Reshaped(run[s].chat)

\* The members of a conversation are agents there are, and a run that is active has its
\* conversation, unless that was being deleted or cleared when the message was sent or was
\* reshaped.  It is so if no other request was handled while an agent was being deleted:
\* deleteAgent takes the agent out of every conversation, in writes of which any may fail,
\* before the agent's row goes.
DeletedAlone == \A s \in Of({"deleteAgent"}) : ~\E t \in Slots : Crossed(s, t)
ReferencesHold == DeletedAlone => MembersExist /\ RunsKeepTheirChat

\* An agent has one direct conversation at most, unless two requests that create, clear or
\* send into its direct conversation crossed, or an update made one of another:
\* createConversation answers the one there is, and clearConversation deletes the old one
\* before it creates the new.
DirectWith(row, a) == row # None /\ row.kind = "direct" /\ row.members = {a}
DirectChats(a) == {c \in ChatIds : DirectWith(chat[c], a)}
Keepers(a) ==
    {s \in Of({"createConversation", "clearConversation", "sendMessage"}) : DirectWith(req[s].row, a)}
GivenTo(a) == {asked[u].chat : u \in {v \in Of({"updateConversation"}) : asked[v].members = {a}}}
OneDirectChat ==
    \A a \in AgentIds : Cardinality(DirectChats(a)) > 1 =>
        \/ \E s, t \in Keepers(a) : Crossed(s, t)
        \/ DirectChats(a) \cap GivenTo(a) # {}

\* The content of a recorded artifact is there, unless the announcement of the record
\* failed: the file is then removed and the row stays.
RecordsHaveContent ==
    \A a \in Present(artifact) : a \in blob \/ (a \in Slots /\ RefusedAt(a, "announce"))

\* What a stored message carries is in its directory, whatever becomes of a retry of it.
AttachmentsAreThere ==
    \A m \in Present(message) :
        message[m].key # None => message[m].attachments \subseteq copied[Directory(m)]

\* Two versions of one artifact have different numbers, unless their uploads crossed and no
\* index of the database kept them apart.
VersionsDiffer ==
    \A a, b \in Present(artifact) :
        /\ a # b /\ artifact[a].logical = artifact[b].logical /\ artifact[a].version = artifact[b].version
        => database = "memory" /\ {a, b} \subseteq Slots /\ Crossed(a, b)

\* What an upload wrote is gone when it was refused, and nothing is left in the staging
\* directory when it ended, unless the process ended in the middle.
NothingIsLeft ==
    \A s \in Slots : req[s].state \in {"done", "refused"} =>
        s \notin staged /\ (s \in blob => artifact[s] # None)

ArtifactsAreSound ==
    RecordsHaveContent /\ AttachmentsAreThere /\ VersionsDiffer /\ NothingIsLeft

\* A request that began after a disconnection was handled is sent with no credential from
\* before: the one it is sent with was stored by a connect not ended by then.
DisconnectedIsUnused ==
    \A u \in Of({"useConnector"}), d \in Of({"disconnect"}) :
        /\ Done(u) /\ Done(d) /\ <<d, u>> \in before
        /\ asked[u].connector = Firebase /\ asked[d].connector = Firebase
        => \E c \in Of({"connect"}) : asked[c].secret = req[u].value /\ <<c, d>> \notin before

\* What an update of the profile adds stays there until a later update removes it, unless
\* another update crossed it.
Updates == Of({"updateProfile"})
UpdatesAreKept ==
    \A s \in Updates : Done(s) /\ ~CrossAny(s, {"updateProfile"}) =>
        asked[s].adds \ asked[s].removes \subseteq
            profile \cup UNION {asked[t].removes : t \in {u \in Updates : <<s, u>> \in before}}

(***************************************************************************)
(* Dates, by the rule of standard cron: a minute is selected if every field *)
(* selects it, except that of the two fields for days one suffices if       *)
(* neither begins with a star.                                              *)
(***************************************************************************)
Starred(e, f) == e[f][1].base = Star
Standard(e, minute) ==
    /\ \A f \in {"minute", "hour", "month"} : Matches(e, f, minute)
    /\ IF Starred(e, "day") \/ Starred(e, "weekday")
         THEN Matches(e, "day", minute) /\ Matches(e, "weekday", minute)
         ELSE Matches(e, "day", minute) \/ Matches(e, "weekday", minute)

\* The date given for a schedule is the first one after now.
IsFirst(e, now, date) ==
    /\ date > now /\ Standard(e, date)
    /\ \A m \in (now + 1)..(date - 1) : ~Standard(e, m)

Dated == {s \in Of({"createSchedule"}) : Done(s)}

\* A schedule is first run on the first date of its expression, if each of its fields for
\* days is a star or begins with none; and an expression is refused only if it is
\* malformed or has no date in the time searched.
PlainDays(e) == \A f \in {"day", "weekday"} : Starred(e, f) => e[f][1].step = 0 /\ Len(e[f]) = 1
FirstDate ==
    /\ \A s \in Dated : PlainDays(asked[s].cron) => IsFirst(asked[s].cron, asked[s].now, req[s].value)
    /\ \A s \in Of({"createSchedule"}) : RefusedAt(s, "date") /\ faults = 0 =>
          LET e == asked[s].cron
          IN IsValid(e) /\ PlainDays(e) => \A m \in Tried(asked[s].now) : ~Standard(e, m)

\* Every expression means what it means in standard cron, as the tool that creates
\* schedules tells the agents.
StandardDates == \A s \in Dated : IsFirst(asked[s].cron, asked[s].now, req[s].value)
=============================================================================
