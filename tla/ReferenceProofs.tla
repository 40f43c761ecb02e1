-------------------------- MODULE ReferenceProofs --------------------------
(* What TLAPS proves of the rows of Workspace that refer to each other, for *)
(* any requests and bounds: the members of a conversation are agents, an    *)
(* active run has its conversation, an agent has one direct conversation.   *)
EXTENDS WorkspaceProofs

-----------------------------------------------------------------------------
(* The rows that refer to each other: what the handlers hold of them.       *)

Copying(s) == Running(s) /\ Head(req[s].left) \in CopySteps
Deleting(s) == Running(s) /\ Op(s) = "deleteAgent"

\* The handler keeps the conversation, the row and the agent it is about, and goes on to the
\* step after the one it is at.
Keeps(s) == req'[s].id = req[s].id /\ req'[s].row = req[s].row /\ req'[s].agent = req[s].agent
Forth(s) ==
    Running(s)' => /\ Head(req'[s].left) \in StepsOf[Op(s)]
                   /\ Follows(Head(req[s].left), Head(req'[s].left))

LEMMA RestIsOf ==
  ASSUME RequestInv, RowsHeld, NEW s \in Slots, NEW h, At(s, h), Tail(req[s].left) # <<>>
  PROVE  Head(Tail(req[s].left)) \in StepsOf[Op(s)] /\ Follows(h, Head(Tail(req[s].left)))
<1>1. /\ Op(s) \in DOMAIN Ways /\ Tail(req[s].left) \in RestsOf(Op(s))
      /\ Follows(h, Head(Tail(req[s].left)))
  BY AtStep
<1> QED
  BY <1>1, RestsGoOn

LEMMA BecomesForth ==
  ASSUME RequestInv, RowsHeld, NEW s \in Slots, NEW h, At(s, h), NEW i, NEW w, NEW a, NEW t, NEW d, NEW v, NEW l,
         Becomes(s, i, w, a, t, d, v, l), l = <<>> \/ l = Tail(req[s].left)
  PROVE  Forth(s)
<1>1. req'[s].left = l /\ req'[s].state = IF l = <<>> THEN "done" ELSE "running"
  BY BecameIs
<1>2. Running(s)' => Tail(req[s].left) # <<>> /\ req'[s].left = Tail(req[s].left)
  BY <1>1 DEF Running
<1> QED
  BY <1>2, RestIsOf DEF Forth, At

LEMMA StopsForth ==
  ASSUME RequestInv, NEW s \in Slots, Running(s), Refuses(s)
  PROVE  Keeps(s) /\ ~Running(s)' /\ Began(s)' /\ Forth(s)
<1>1. Stops(s, "refused")
  BY RefusesStopsIt DEF Refuses
<1> QED
  BY <1>1 DEF Stops, StopsIn, Keeps, Running, Began, Forth

LEMMA PlainStep ==
  ASSUME RequestInv, RowsHeld, NEW s \in Slots, NEW h, At(s, h), NEW x,
         \/ Moves(s, req[s]) \/ Moves(s, [req[s] EXCEPT !.value = x]) \/ Refuses(s)
         \/ Goes(s, [req[s] EXCEPT !.left = <<>>])
  PROVE  Keeps(s) /\ Forth(s)
<1>0. Running(s)
  BY DEF At
<1>1. CASE Refuses(s)
  BY <1>0, <1>1, StopsForth
<1>2. CASE ~Refuses(s)
  <2>1. Plain(s) \/ GetsValue(s, x) \/ GoesWith(s, req[s].todo, <<>>)
    <3>1. Goes(s, [req[s] EXCEPT !.left = <<>>]) => GoesWith(s, req[s].todo, <<>>)
      BY <1>0, GoesAre, Zenon
    <3> QED
      BY <1>0, <1>2, <3>1, MovesAre
  <2>2. \E v, l : /\ Becomes(s, req[s].id, req[s].row, req[s].agent, req[s].task, req[s].todo, v, l)
                  /\ l = <<>> \/ l = Tail(req[s].left)
    BY <2>1, Zenon DEF Plain, GetsValue, GoesWith
  <2>3. PICK v, l : /\ Becomes(s, req[s].id, req[s].row, req[s].agent, req[s].task, req[s].todo, v, l)
                    /\ l = <<>> \/ l = Tail(req[s].left)
    BY <2>2
  <2>4. Keeps(s)
    BY <2>3, BecameIs DEF Keeps
  <2> QED
    BY <2>3, <2>4, BecomesForth
<1> QED
  BY <1>1, <1>2

LEMMA LoopStep ==
  ASSUME RequestInv, RowsHeld, NEW s \in Slots, NEW h, At(s, h), NEW item, Goes(s, Rest(s, item))
  PROVE  LET d == req[s].todo \ {item}
         IN /\ Keeps(s) /\ req'[s].todo = d
            /\ d = {} => Forth(s)
            /\ d # {} => At(s, h)'
<1> DEFINE d == req[s].todo \ {item}
           l == IF d = {} THEN Tail(req[s].left) ELSE req[s].left
<1>1. GoesWith(s, d, l)
  BY LoopGoes DEF At
<1>2. req[s].left # <<>> /\ Head(req[s].left) = h /\ Running(s)
  BY RunningIs DEF At
<1>3. d = {} => l = Tail(req[s].left)
  OBVIOUS
<1>4. d # {} => l = req[s].left
  OBVIOUS
<1> HIDE DEF d, l
<1>5. Keeps(s) /\ req'[s].todo = d /\ req'[s].left = l /\ req'[s].state = IF l = <<>> THEN "done" ELSE "running"
  BY <1>1, BecameIs DEF GoesWith, Keeps
<1>6. d = {} => Forth(s)
  BY <1>1, <1>3, BecomesForth DEF GoesWith
<1>7. d # {} => At(s, h)'
  BY <1>2, <1>4, <1>5 DEF At, Running
<1> QED
  BY <1>5, <1>6, <1>7 DEF d

-----------------------------------------------------------------------------
(* What the steps that find their way make of the handler.                  *)

Theirs(a) == {c \in Present(chat) : a \in chat[c].members}
Surveyed(a) == {<<c, chat[c]>> : c \in Theirs(a)}

LEMMA SurveyGoes ==
  ASSUME RequestInv, RowsHeld, NEW s \in Slots, Survey(s), ~Refuses(s)
  PROVE  /\ At(s, "survey") /\ Op(s) = "deleteAgent" /\ Keeps(s) /\ Running(s)'
         /\ Head(req'[s].left) \in {"detach", "dismiss"} /\ req'[s].todo = Surveyed(req[s].agent)
         /\ Head(req'[s].left) = "dismiss" => Surveyed(req[s].agent) = {}
         /\ \A r \in Slots : Active(r) => run[r].agent # req[s].agent
<1> DEFINE theirs == {<<c, chat[c]>> : c \in {d \in Present(chat) : req[s].agent \in chat[d].members}}
           l == IF theirs = {} THEN <<"dismiss">> ELSE <<"detach", "dismiss">>
<1>1. /\ At(s, "survey") /\ Goes(s, [req[s] EXCEPT !.todo = theirs, !.left = l])
      /\ \A r \in Slots : Active(r) => run[r].agent # req[s].agent
  BY DEF Survey
<1>2. theirs = Surveyed(req[s].agent)
  BY DEF Surveyed, Theirs
<1>3. l # <<>> /\ Head(l) \in {"detach", "dismiss"} /\ (Head(l) = "dismiss" => theirs = {})
  OBVIOUS
<1> HIDE DEF theirs, l
<1>4. GoesWith(s, theirs, l)
  BY Zenon, <1>1, GoesAre DEF At
<1>5. Keeps(s) /\ req'[s].todo = theirs /\ req'[s].left = l /\ req'[s].state = "running"
  BY <1>3, <1>4, BecameIs DEF GoesWith, Keeps
<1>6. Op(s) = "deleteAgent"
  BY <1>1, AtStep, StepsAreOf
<1> QED
  BY <1>1, <1>2, <1>3, <1>5, <1>6 DEF Running

LEMMA LookGoes ==
  ASSUME RequestInv, RowsHeld, NEW s \in Slots, Look(s), ~Refuses(s)
  PROVE  /\ At(s, "look") /\ req[s].row.members \subseteq agents
         /\ \/ Keeps(s) /\ Forth(s) /\ Same(req[s].row) = {}
            \/ /\ Same(req[s].row) # {} /\ req'[s].row = req[s].row /\ req'[s].agent = req[s].agent
               /\ Running(s)' => /\ Head(req'[s].left) \in StepsOf[Op(s)]
                                 /\ Follows("store", Head(req'[s].left))
<1>1. At(s, "look") /\ req[s].row.members \subseteq agents
  BY DEF Look
<1>2. CASE Same(req[s].row) = {}
  <2>1. Moves(s, req[s])
    BY <1>2 DEF Look
  <2> QED
    BY <1>1, <1>2, <2>1, PlainStep
<1>3. CASE Same(req[s].row) # {}
  <2> DEFINE x == CHOOSE c \in Same(req[s].row) : TRUE
             l == Tail(Tail(req[s].left))
  <2>1. Same(req[s].row) # {} /\ Goes(s, [req[s] EXCEPT !.id = x, !.left = l])
    BY <1>3 DEF Look
  <2>2. Tail(req[s].left) \in RestsOf(Op(s)) /\ Head(Tail(req[s].left)) = "store" /\ Op(s) \in DOMAIN Ways
    BY <1>1, AtStep DEF NeverLast, Follows
  <2>3. l = <<>> \/ (l \in RestsOf(Op(s)) /\ Follows("store", Head(l)))
    BY Zenon, <2>2, WhatFollows, RestsGoOn
  <2>4. l # <<>> => Head(l) \in StepsOf[Op(s)]
    BY Zenon, <2>2, <2>3, RestsGoOn
  <2> HIDE DEF x, l
  <2>5. GetsId(s, x, l)
    BY Zenon, <1>1, <2>1, GoesAre DEF At
  <2>6. /\ req'[s].row = req[s].row /\ req'[s].agent = req[s].agent /\ req'[s].left = l
        /\ req'[s].state = IF l = <<>> THEN "done" ELSE "running"
    BY <2>5, BecameIs DEF GetsId
  <2> QED
    BY <1>1, <2>1, <2>3, <2>4, <2>6 DEF Running
<1> QED
  BY <1>2, <1>3

LEMMA StoreGoes ==
  ASSUME RequestInv, RowsHeld, NEW s \in Slots, Store(s)
  PROVE  /\ At(s, "store") /\ Forth(s)
         /\ req'[s].id = s /\ req'[s].row = req[s].row /\ req'[s].agent = req[s].agent
<1>1. At(s, "store") /\ Moves(s, [req[s] EXCEPT !.id = s])
  BY DEF Store
<1>2. GetsId(s, s, Tail(req[s].left))
  BY <1>1, MovesAre DEF At
<1>3. Forth(s)
  BY <1>1, <1>2, BecomesForth DEF GetsId
<1> QED
  BY <1>1, <1>2, <1>3, BecameIs DEF GetsId

LEMMA GetGoes ==
  ASSUME RequestInv, RowsHeld, NEW s \in Slots, Get(s), ~Refuses(s)
  PROVE  /\ At(s, "get") /\ Forth(s) /\ chat[req[s].id] # None
         /\ req'[s].id = req[s].id /\ req'[s].agent = req[s].agent
         /\ req'[s].row.members \subseteq agents
         /\ req'[s].row = [chat[req[s].id] EXCEPT !.members = NewMembers(s)]
<1> DEFINE c == req[s].id
           ok == chat[c] # None /\ KnownActor(s) /\ NewMembers(s) \subseteq agents
           w == [chat[c] EXCEPT !.members = NewMembers(s)]
           x == IF ok THEN w ELSE req[s].row
<1>1. At(s, "get") /\ ok /\ Moves(s, [req[s] EXCEPT !.row = x, !.todo = {}])
  BY DEF Get, Reads
<1> HIDE DEF x
<1>2. Becomes(s, req[s].id, x, req[s].agent, req[s].task, {}, req[s].value, Tail(req[s].left))
  BY Zenon, <1>1, GoesAre DEF At
<1>3. Forth(s)
  BY <1>1, <1>2, BecomesForth
<1>4. req'[s].id = req[s].id /\ req'[s].agent = req[s].agent /\ req'[s].row = x
  BY <1>2, BecameIs
<1> QED
  BY <1>1, <1>3, <1>4 DEF x

LEMMA OpenGoes ==
  ASSUME RequestInv, RowsHeld, NEW s \in Slots, Open(s), ~Refuses(s)
  PROVE  /\ At(s, "open") /\ Op(s) = "clearConversation" /\ req'[s].id = req[s].id
         /\ req'[s].row = Direct(req'[s].agent)
         /\ Running(s)' => Head(req'[s].left) \in {"check", "interrupt"}
<1> DEFINE c == req[s].id
           a == CHOOSE m \in chat[c].members : TRUE
           active == ActiveIn(c)
           l == (IF active = {} THEN <<>> ELSE <<"interrupt">>) \o Tail(req[s].left)
           w == Direct(a)
<1>1. At(s, "open") /\ Goes(s, [req[s] EXCEPT !.todo = active, !.agent = a, !.row = w, !.left = l])
  BY DEF Open
<1>2. /\ Op(s) = "clearConversation" /\ req[s].left \in RestsOf("clearConversation")
      /\ Head(req[s].left) = "open"
  BY <1>1, AtStep, StepsAreOf
<1>3. Tail(req[s].left) = Tail(ClearSteps)
  BY <1>2, OpensBegin, JoinedSteps
<1>4. Head(l) \in {"check", "interrupt"}
  <2>1. CASE active = {}
    <3>1. l = <<"check", "erase", "getAgent", "putAgent", "look", "store">>
      BY <1>3, <2>1, JoinedSteps
    <3>2. Head(<<"check", "erase", "getAgent", "putAgent", "look", "store">>) = "check"
      OBVIOUS
    <3> HIDE DEF l
    <3> QED
      BY <3>1, <3>2, Zenon
  <2>2. CASE active # {}
    <3>1. l = <<"interrupt", "check", "erase", "getAgent", "putAgent", "look", "store">>
      BY <1>3, <2>2, JoinedSteps
    <3>2. Head(<<"interrupt", "check", "erase", "getAgent", "putAgent", "look", "store">>) = "interrupt"
      OBVIOUS
    <3> HIDE DEF l
    <3> QED
      BY <3>1, <3>2, Zenon
  <2> QED
    BY <2>1, <2>2
<1> HIDE DEF l, w, a, active
<1>5. Becomes(s, req[s].id, w, a, req[s].task, active, req[s].value, l)
  BY Zenon, <1>1, GoesAre DEF At
<1>6. req'[s].id = req[s].id /\ req'[s].row = w /\ req'[s].agent = a /\ req'[s].left = l
  BY <1>5, BecameIs
<1>7. req'[s].row = Direct(req'[s].agent)
  BY <1>6 DEF w
<1> QED
  BY <1>1, <1>2, <1>4, <1>6, <1>7

LEMMA AddressGoes ==
  ASSUME RequestInv, RowsHeld, NEW s \in Slots, Address(s), ~Refuses(s)
  PROVE  /\ At(s, "address") /\ Forth(s) /\ chat[req[s].id] # None
         /\ req'[s].id = req[s].id /\ req'[s].agent = req[s].agent
         /\ req'[s].row = chat[req[s].id] /\ req[s].agent \in chat[req[s].id].members
<1>1. /\ At(s, "address") /\ Moves(s, [req[s] EXCEPT !.row = chat[req[s].id]])
      /\ chat[req[s].id] # None /\ req[s].agent \in chat[req[s].id].members
  BY DEF Address, Reads
<1>2. GetsRow(s, chat[req[s].id])
  BY <1>1, MovesAre DEF At
<1>3. Forth(s)
  BY <1>1, <1>2, BecomesForth DEF GetsRow
<1> QED
  BY <1>1, <1>2, <1>3, BecameIs DEF GetsRow

LEMMA AskGoes ==
  ASSUME RequestInv, RowsHeld, NEW s \in Slots, AskHelp(s), ~Refuses(s)
  PROVE  /\ At(s, "ask") /\ Forth(s)
         /\ req'[s].id = req[s].id /\ req'[s].agent = req[s].agent
         /\ req'[s].row.kind = "task" /\ req'[s].agent \in req'[s].row.members
<1> DEFINE w == TaskChat({By(s), req[s].agent}, s)
<1>1. At(s, "ask") /\ Moves(s, [req[s] EXCEPT !.task = s, !.row = w])
  BY DEF AskHelp, Reads
<1>2. w.kind = "task" /\ req[s].agent \in w.members
  BY DEF TaskChat
<1> HIDE DEF w
<1>3. Becomes(s, req[s].id, w, req[s].agent, s, req[s].todo, req[s].value, Tail(req[s].left))
  BY Zenon, <1>1, GoesAre DEF At
<1>4. Forth(s)
  BY <1>1, <1>3, BecomesForth
<1> QED
  BY <1>1, <1>2, <1>3, <1>4, BecameIs

LEMMA MeetGoes ==
  ASSUME RequestInv, RowsHeld, NEW s \in Slots, Meet(s), ~Refuses(s)
  PROVE  /\ At(s, "meet") /\ Op(s) = "sendCollaborationMessage" /\ req'[s].agent = req[s].agent
         /\ \/ /\ req'[s].id = req[s].id /\ req'[s].row.kind = "task"
               /\ Running(s)' => Head(req'[s].left) = "look"
            \/ /\ chat[req'[s].id] # None /\ req'[s].row = chat[req'[s].id]
               /\ task[asked[s].task] # None /\ req'[s].id = task[asked[s].task].chat /\ req'[s].id # None
               /\ Running(s)' => Head(req'[s].left) \in {"say", "get"}
<1> DEFINE t == asked[s].task
           pair == {By(s), req[s].agent}
           c == task[t].chat
           members == chat[c].members \cup pair
<1>1. At(s, "meet")
  BY DEF Meet
<1>2. Op(s) = "sendCollaborationMessage"
  BY <1>1, AtStep, StepsAreOf
<1>3. CASE c = None
  <2> DEFINE w == TaskChat(pair, t)
             l == <<"look", "store", "getTask", "putTask", "say", "touch">>
  <2>1. Goes(s, [req[s] EXCEPT !.row = w, !.left = l])
    BY <1>3, JoinedSteps DEF Meet
  <2>2. w.kind = "task" /\ Head(l) = "look"
    BY DEF TaskChat
  <2> HIDE DEF w, l
  <2>3. Becomes(s, req[s].id, w, req[s].agent, req[s].task, req[s].todo, req[s].value, l)
    BY Zenon, <1>1, <2>1, GoesAre DEF At
  <2> QED
    BY <1>1, <1>2, <2>2, <2>3, BecameIs
<1>4. CASE c # None
  <2> DEFINE w == chat[c]
             d == IF members = chat[c].members THEN {} ELSE members
             l == IF members = chat[c].members THEN <<"say", "touch">> ELSE <<"get", "save", "say", "touch">>
  <2>1. /\ chat[c] # None /\ task[t] # None
        /\ Goes(s, [req[s] EXCEPT !.id = c, !.row = w, !.todo = d, !.left = l])
    BY Zenon, <1>1, <1>4, JoinedSteps DEF Meet
  <2>2. Head(l) \in {"say", "get"}
    OBVIOUS
  <2> HIDE DEF d, l, members, c
  <2>3. Becomes(s, c, w, req[s].agent, req[s].task, d, req[s].value, l)
    BY Zenon, <1>1, <2>1, GoesAre DEF At
  <2>4. req'[s].id = c /\ req'[s].row = chat[c] /\ req'[s].agent = req[s].agent /\ req'[s].left = l
    BY <2>3, BecameIs
  <2> QED
    BY <1>1, <1>2, <1>4, <2>1, <2>2, <2>4 DEF c
<1> QED
  BY <1>3, <1>4

-----------------------------------------------------------------------------
(* Every step of a handler, by what it makes of the handler.                *)

Else(s) ==
    /\ Running(s) /\ Began(s) /\ Began(s)' /\ UNCHANGED <<asked, before>> /\ Op(s)' = Op(s)
    /\ \A u \in Slots : u # s => req'[u] = req[u]

\* The handler goes on, or stays in a loop, with the rows that it had.
Walks(s, h) ==
    /\ At(s, h) /\ Keeps(s)
    /\ Forth(s) \/ (h \in {"interrupt", "detach", "attach"} /\ At(s, h)')

\* A handler that has to do with no conversation.
Apart(s) == Op(s) \in ConnectorOps \cup {"upload", "rename", "updateProfile", "createSchedule"}

SpecialSteps == {"survey", "look", "store", "get", "open", "address", "ask", "meet"}

LEMMA PlainWalks ==
  ASSUME RequestInv, RowsHeld, NEW s \in Slots, NEW h, At(s, h), NEW x,
         \/ Moves(s, req[s]) \/ Moves(s, [req[s] EXCEPT !.value = x]) \/ Refuses(s)
         \/ Goes(s, [req[s] EXCEPT !.left = <<>>])
  PROVE  Walks(s, h)
  BY PlainStep DEF Walks

LEMMA LoopWalks ==
  ASSUME RequestInv, RowsHeld, NEW s \in Slots, NEW h \in {"interrupt", "detach"}, At(s, h), NEW item, Goes(s, Rest(s, item))
  PROVE  Walks(s, h)
  BY LoopStep DEF Walks

\* The steps about conversations that find the way of no handler.
LEMMA ChatWalks ==
  ASSUME RequestInv, RowsHeld, NEW s \in Slots, ChatStep(s), Head(req[s].left) \notin SpecialSteps
  PROVE  Walks(s, Head(req[s].left))
<1>0. ASSUME NEW h, At(s, h), Walks(s, h) PROVE Walks(s, Head(req[s].left))
  <2>1. h = Head(req[s].left)
    BY <1>0 DEF At
  <2> QED
    BY <1>0, <2>1, Zenon
<1>1. ASSUME NEW h, At(s, h), Moves(s, req[s]) \/ Refuses(s) \/ Goes(s, [req[s] EXCEPT !.left = <<>>])
      PROVE  Walks(s, Head(req[s].left))
  <2>1. Walks(s, h)
    BY <1>1, PlainWalks, Zenon
  <2> QED
    BY <1>0, <1>1, <2>1
<1>2. ASSUME NEW h, NEW ok, Reads(s, h, ok, req[s])
      PROVE  Walks(s, Head(req[s].left))
  BY <1>1, <1>2 DEF Reads
<1>3. CASE Enlist(s) \/ PutAgent(s) \/ Dismiss(s) \/ Save(s) \/ Erase(s) \/ Touch(s) \/ NewTask(s)
  BY <1>1, <1>3, Zenon DEF Enlist, PutAgent, Dismiss, Save, Erase, Touch, NewTask
<1>4. CASE GetAgent(s) \/ Check(s) \/ ReadHelp(s)
  BY <1>2, <1>4, Zenon DEF GetAgent, Check, ReadHelp
<1>5. CASE Commit(s) \/ Say(s)
  BY <1>1, <1>5, Zenon DEF Commit, Say
<1>6. CASE GetTask(s)
  <2>1. /\ At(s, "getTask")
        /\ Moves(s, [req[s] EXCEPT !.value = task[req[s].task]]) \/ Refuses(s)
    BY <1>6, Zenon DEF GetTask, Reads
  <2> QED
    BY <1>0, <2>1, PlainWalks, Zenon
<1>7. CASE PutTask(s)
  <2>1. At(s, "putTask") /\ Moves(s, [req[s] EXCEPT !.value = None])
    BY <1>7, Zenon DEF PutTask
  <2> QED
    BY <1>0, <2>1, PlainWalks, Zenon
<1>8. CASE Detach(s)
  <2>1. At(s, "detach") /\ \E item : Goes(s, Rest(s, item))
    BY <1>8, Zenon DEF Detach
  <2> QED
    BY <1>0, <2>1, LoopWalks, Zenon
<1>9. CASE Interrupt(s)
  <2>1. At(s, "interrupt") /\ (Refuses(s) \/ \E item : Goes(s, Rest(s, item)))
    BY <1>9, Zenon DEF Interrupt
  <2> QED
    BY <1>0, <1>1, <2>1, LoopWalks, Zenon
<1>10. ~(Survey(s) \/ Look(s) \/ Store(s) \/ Get(s) \/ Open(s) \/ Address(s) \/ Meet(s) \/ AskHelp(s))
  BY DEF Survey, Look, Store, Get, Open, Address, Meet, AskHelp, Reads, At, SpecialSteps
<1> QED
  BY <1>3, <1>4, <1>5, <1>6, <1>7, <1>8, <1>9, <1>10 DEF ChatStep

LEMMA AttachWalks ==
  ASSUME RequestInv, RowsHeld, NEW s \in Slots, Attach(s)
  PROVE  Walks(s, "attach")
<1>1. At(s, "attach") /\ Running(s)
  BY DEF Attach, At
<1>2. CASE Goes(s, req[s])
  <2>1. GoesWith(s, req[s].todo, req[s].left) /\ req[s].left # <<>>
    BY <1>1, <1>2, GoesAre, RunningIs, Zenon
  <2>2. Keeps(s) /\ req'[s].left = req[s].left /\ req'[s].state = "running"
    BY <2>1, BecameIs DEF GoesWith, Keeps
  <2> QED
    BY <1>1, <2>2 DEF Walks, At, Running
<1>3. CASE ~Goes(s, req[s])
  <2>1. Moves(s, [req[s] EXCEPT !.value = asked[s].attachments]) \/ Refuses(s)
    BY <1>3, Zenon DEF Attach
  <2> QED
    BY <1>1, <2>1, PlainWalks
<1> QED
  BY <1>2, <1>3

\* A step is about conversations, copies an attachment, changes nothing, or is of a handler
\* that has to do with no conversation.
LEMMA HandlesIs ==
  ASSUME RowsInv, NEW s \in Slots, Handles(s)
  PROVE  /\ Else(s)
         /\ \/ ChatStep(s)
            \/ /\ UNCHANGED chatVars
               /\ Apart(s) \/ \E h \in {"attach", "openFile", "read"} : Walks(s, h)
<1>0. RequestInv /\ RowsHeld /\ TablesTyped
  BY DEF RowsInv
<1>1. Proceeds(s) /\ Running(s)
  BY <1>0, StepsProceed
<1>2. Else(s)
  BY <1>0, <1>1, ProceedsAlone DEF Else, Running, Began, Op
<1>3. Op(s) \in DOMAIN Ways /\ Head(req[s].left) \in StepsOf[Op(s)]
  BY <1>0, <1>1, RunningIs
<1>4. CASE ArtifactStep(s) /\ UNCHANGED chatVars
  <2>1. CASE Attach(s)
    BY <1>0, <1>2, <1>4, <2>1, AttachWalks
  <2>2. CASE Download(s)
    <3>1. At(s, "openFile") /\ (Moves(s, req[s]) \/ Refuses(s))
      BY <2>2 DEF Download, Reads
    <3> QED
      BY <1>0, <1>2, <1>4, <3>1, PlainWalks
  <2>3. CASE ~Attach(s) /\ ~Download(s)
    <3>1. Head(req[s].left) \in {"stage", "validate", "move", "record", "announce", "getArtifact", "putArtifact"}
      BY <1>4, <2>3 DEF ArtifactStep, Stage, Validate, Move, Record, Announce, GetArtifact, PutArtifact, Reads, At
    <3>2. Apart(s)
      BY <1>3, <3>1, StepsAreOf DEF Apart
    <3> QED
      BY <1>2, <1>4, <3>2
  <2> QED
    BY <2>1, <2>2, <2>3
<1>5. CASE ConnectorStep(s) /\ Op(s) \in DOMAIN ConnectorProgram /\ UNCHANGED chatVars
  <2>1. Apart(s)
    BY <1>5 DEF Apart, ConnectorOps, ConnectorProgram
  <2> QED
    BY <1>2, <1>5, <2>1
<1>6. CASE (ReadProfile(s) \/ PutProfile(s)) /\ Op(s) = "updateProfile" /\ UNCHANGED chatVars
  BY <1>2, <1>6 DEF Apart
<1>7. CASE (FindHome(s) \/ FirstRun(s)) /\ UNCHANGED chatVars
  <2>1. Head(req[s].left) \in {"home", "date"}
    BY <1>7 DEF FindHome, FirstRun, Reads, At
  <2>2. Apart(s)
    BY <1>3, <2>1, StepsAreOf DEF Apart
  <2> QED
    BY <1>2, <1>7, <2>2
<1>8. CASE Read(s) /\ UNCHANGED chatVars
  <2>1. At(s, "read") /\ Moves(s, req[s])
    BY <1>8 DEF Read
  <2> QED
    BY <1>0, <1>2, <1>8, <2>1, PlainWalks
<1> QED
  BY <1>2, <1>4, <1>5, <1>6, <1>7, <1>8 DEF Handles

-----------------------------------------------------------------------------
(* What a handler makes a conversation of, and how long an excuse lasts.    *)

\* What the handler of s holds if its next step is h, its conversation i, its row w and its
\* agent a: what it was asked for, the conversation that is cleared, or that of a task.
MakesAt(s, h, i, w, a) ==
    /\ Op(s) = "updateConversation" => i = asked[s].chat
    /\ Op(s) = "createConversation" =>
          w = [kind |-> asked[s].kind, members |-> asked[s].members, task |-> asked[s].task]
    /\ Op(s) = "clearConversation" /\ h # "open" => w = Direct(a)
    /\ Op(s) = "requestAgentHelp" /\ h # "ask" /\ h \notin CopySteps => w.kind = "task" /\ a \in w.members
    /\ Op(s) = "sendCollaborationMessage" =>
          /\ h # "get" /\ h \notin CopySteps => i = None
          /\ h \in {"look", "store"} => w.kind = "task"
Makes(s) == MakesAt(s, Head(req[s].left), req[s].id, req[s].row, req[s].agent)
MakesInv == \A s \in Slots : Running(s) => Makes(s)

LEMMA MakesNext ==
  ASSUME NEW s \in Slots, Op(s)' = Op(s), asked' = asked,
         MakesAt(s, Head(req'[s].left), req'[s].id, req'[s].row, req'[s].agent)
  PROVE  Makes(s)'
BY DEF Makes, MakesAt

LEMMA WalkMakes ==
  ASSUME RequestInv, NEW s \in Slots, NEW h, h \notin {"open", "ask", "get", "meet"},
         At(s, h), Walks(s, h), Makes(s), Op(s)' = Op(s), asked' = asked, Running(s)'
  PROVE  Makes(s)'
<1> DEFINE n == Head(req'[s].left)
<1>1. Op(s) \in DOMAIN Ways /\ h \in StepsOf[Op(s)] /\ Head(req[s].left) = h
  BY RunningIs DEF At
<1>2. h = n \/ (Follows(h, n) /\ n \in StepsOf[Op(s)])
  BY DEF Walks, Forth, At
<1>3. Keeps(s)
  BY DEF Walks
<1>4. h \in {"newTask"} => Op(s) = "requestAgentHelp"
  BY <1>1, StepsAreOf
<1>5. h = "putAgent" => Op(s) \in {"updateAgent", "clearConversation"}
  BY <1>1, StepsAreOf
<1>6. MakesAt(s, h, req[s].id, req[s].row, req[s].agent)
  BY <1>1 DEF Makes
<1> HIDE DEF n
<1>7. n \in {"look", "store"} => h \in {"look", "store", "putAgent", "newTask"}
  BY <1>2 DEF Follows
<1>8. h \in CopySteps => n \in CopySteps
  BY <1>2 DEF Follows, Writes
<1>9. MakesAt(s, n, req[s].id, req[s].row, req[s].agent)
  BY <1>4, <1>5, <1>6, <1>7, <1>8 DEF MakesAt
<1>10. MakesAt(s, n, req'[s].id, req'[s].row, req'[s].agent)
  BY <1>3, <1>9 DEF Keeps
<1> QED
  BY <1>10, MakesNext DEF n

LEMMA OtherMakes ==
  ASSUME NEW s \in Slots, Op(s)' = Op(s), Op(s) \notin {"updateConversation", "createConversation",
         "clearConversation", "requestAgentHelp", "sendCollaborationMessage"}
  PROVE  Makes(s)'
  BY DEF Makes, MakesAt

LEMMA ChatMakes ==
  ASSUME RowsInv, MakesInv, NEW s \in Slots, Else(s), ChatStep(s), Running(s)'
  PROVE  Makes(s)'
<1> DEFINE h == Head(req[s].left)
           n == Head(req'[s].left)
<1>0. /\ RequestInv /\ RowsHeld /\ Running(s) /\ Makes(s) /\ Op(s)' = Op(s) /\ asked' = asked
      /\ Op(s) \in DOMAIN Ways /\ h \in StepsOf[Op(s)] /\ ~Refuses(s)
  <2>1. RequestInv /\ RowsHeld /\ Running(s) /\ Makes(s) /\ Op(s)' = Op(s) /\ asked' = asked
    BY DEF RowsInv, Else, MakesInv
  <2> QED
    BY <2>1, StopsForth, RunningIs
<1>1. CASE h \notin SpecialSteps
  <2>1. Walks(s, h)
    BY <1>0, <1>1, ChatWalks
  <2>2. At(s, h) /\ h \notin {"open", "ask", "get", "meet"}
    BY <1>0, <1>1 DEF SpecialSteps, At
  <2> HIDE DEF h
  <2> QED
    BY <1>0, <2>1, <2>2, WalkMakes
<1>2. MakesAt(s, h, req[s].id, req[s].row, req[s].agent)
  BY <1>0 DEF Makes
<1>3. MakesAt(s, n, req'[s].id, req'[s].row, req'[s].agent) => Makes(s)'
  BY <1>0, MakesNext
<1>4. CASE Survey(s)
  BY <1>0, <1>4, SurveyGoes, OtherMakes
<1>5. CASE Look(s)
  <2>0. At(s, "look")
    BY <1>5 DEF Look
  <2>1. CASE Keeps(s) /\ Forth(s)
    BY <1>0, <2>0, <2>1, WalkMakes DEF Walks
  <2>2. CASE ~(Keeps(s) /\ Forth(s))
    <3>1. /\ Same(req[s].row) # {} /\ req'[s].row = req[s].row /\ req'[s].agent = req[s].agent
          /\ n \in StepsOf[Op(s)] /\ Follows("store", n)
      BY <1>0, <1>5, <2>2, LookGoes
    <3>2. req[s].row.kind = "direct" /\ h = "look"
      BY <2>0, <3>1 DEF Same, At
    <3>3. Op(s) \notin {"updateConversation", "requestAgentHelp", "sendCollaborationMessage"}
      BY <1>0, <1>2, <3>2, StepsAreOf DEF MakesAt, CopySteps
    <3> HIDE DEF n, h
    <3>4. MakesAt(s, n, req'[s].id, req'[s].row, req'[s].agent)
      BY <1>2, <3>1, <3>2, <3>3 DEF MakesAt
    <3> QED
      BY <1>3, <3>4
  <2> QED
    BY <2>1, <2>2
<1>6. CASE Store(s)
  <2>1. /\ At(s, "store") /\ n \in StepsOf[Op(s)] /\ Follows("store", n)
        /\ req'[s].row = req[s].row /\ req'[s].agent = req[s].agent
    BY <1>0, <1>6, StoreGoes DEF Forth, At
  <2>2. h = "store"
    BY <2>1 DEF At
  <2> HIDE DEF n, h
  <2>3. Op(s) \in {"createConversation", "clearConversation", "sendCollaborationMessage", "requestAgentHelp"}
    BY <1>0, <2>2, StepsAreOf
  <2>4. n \in CopySteps
    BY <2>1 DEF Follows, Writes, CopySteps
  <2>5. MakesAt(s, n, req'[s].id, req'[s].row, req'[s].agent)
    BY <1>2, <2>1, <2>2, <2>3, <2>4 DEF MakesAt, CopySteps
  <2> QED
    BY <1>3, <2>5
<1>7. CASE Get(s)
  <2>1. /\ At(s, "get") /\ n \in StepsOf[Op(s)] /\ Follows("get", n) /\ req'[s].id = req[s].id
    BY <1>0, <1>7, GetGoes DEF Forth, At
  <2>2. h = "get"
    BY <2>1 DEF At
  <2> HIDE DEF n, h
  <2>3. Op(s) \in {"updateConversation", "sendCollaborationMessage"}
    BY <1>0, <2>2, StepsAreOf
  <2>4. Op(s) = "sendCollaborationMessage" => n = "save"
    BY <2>1 DEF Follows, Writes, StepsOf
  <2>5. MakesAt(s, n, req'[s].id, req'[s].row, req'[s].agent)
    BY <1>2, <2>1, <2>2, <2>3, <2>4 DEF MakesAt, CopySteps
  <2> QED
    BY <1>3, <2>5
<1>8. CASE Open(s)
  <2>1. Op(s) = "clearConversation" /\ req'[s].row = Direct(req'[s].agent)
    BY <1>0, <1>8, OpenGoes
  <2>2. MakesAt(s, n, req'[s].id, req'[s].row, req'[s].agent)
    BY <2>1 DEF MakesAt
  <2> QED
    BY <1>3, <2>2
<1>9. CASE Address(s)
  <2>1. At(s, "address")
    BY <1>9 DEF Address, Reads
  <2>2. Op(s) = "sendMessage"
    BY <1>0, <2>1, AtStep, StepsAreOf
  <2> QED
    BY <1>0, <2>2, OtherMakes
<1>10. CASE AskHelp(s)
  <2>1. At(s, "ask") /\ req'[s].row.kind = "task" /\ req'[s].agent \in req'[s].row.members
    BY <1>0, <1>10, AskGoes
  <2>2. Op(s) = "requestAgentHelp"
    BY <1>0, <2>1, AtStep, StepsAreOf
  <2>3. MakesAt(s, n, req'[s].id, req'[s].row, req'[s].agent)
    BY <2>1, <2>2 DEF MakesAt
  <2> QED
    BY <1>3, <2>3
<1>11. CASE Meet(s)
  <2>1. /\ At(s, "meet") /\ Op(s) = "sendCollaborationMessage"
        /\ \/ req'[s].id = req[s].id /\ req'[s].row.kind = "task" /\ n = "look"
           \/ n \in {"say", "get"}
    BY <1>0, <1>11, MeetGoes
  <2>2. h = "meet"
    BY <2>1 DEF At
  <2> HIDE DEF n, h
  <2>3. MakesAt(s, n, req'[s].id, req'[s].row, req'[s].agent)
    BY <1>2, <2>1, <2>2 DEF MakesAt, CopySteps
  <2> QED
    BY <1>3, <2>3
<1>12. h \in SpecialSteps => Survey(s) \/ Look(s) \/ Store(s) \/ Get(s) \/ Open(s) \/ Address(s) \/ AskHelp(s) \/ Meet(s)
  BY Zenon DEF ChatStep, SpecialSteps, Enlist, GetAgent, PutAgent, Detach, Dismiss, Save, Check, Erase,
         Interrupt, Commit, Touch, GetTask, PutTask, Say, NewTask, ReadHelp, Reads, At
<1> QED
  BY <1>1, <1>4, <1>5, <1>6, <1>7, <1>8, <1>9, <1>10, <1>11, <1>12

LEMMA HandlesMakes ==
  ASSUME RowsInv, MakesInv, NEW s \in Slots, Handles(s)
  PROVE  MakesInv'
<1>1. Else(s) /\ (ChatStep(s) \/ Apart(s) \/ \E h \in {"attach", "openFile", "read"} : Walks(s, h))
  BY HandlesIs
<1>2. ASSUME NEW u \in Slots, u # s, Running(u)' PROVE Makes(u)'
  <2>1. req'[u] = req[u] /\ asked' = asked /\ Op(u)' = Op(u)
    BY <1>1, <1>2 DEF Else, Op
  <2>2. Makes(u)
    BY <1>2, <2>1 DEF MakesInv, Running
  <2> QED
    BY <2>1, <2>2, MakesNext DEF Makes
<1>3. ASSUME Running(s)' PROVE Makes(s)'
  <2>0. RequestInv /\ Makes(s) /\ Op(s)' = Op(s) /\ asked' = asked
    BY <1>1 DEF Else, RowsInv, MakesInv
  <2>1. CASE ChatStep(s)
    BY <1>1, <1>3, <2>1, ChatMakes
  <2>2. CASE Apart(s)
    BY <2>0, <2>2, OtherMakes DEF Apart, ConnectorOps
  <2>3. ASSUME NEW h \in {"attach", "openFile", "read"}, Walks(s, h) PROVE Makes(s)'
    BY <1>3, <2>0, <2>3, WalkMakes DEF Walks
  <2> QED
    BY <1>1, <2>1, <2>2, <2>3
<1> QED
  BY <1>2, <1>3 DEF MakesInv

LEMMA ArriveMakes ==
  ASSUME RowsInv, MakesInv, NEW s \in Slots, Arrive(s)
  PROVE  MakesInv'
<1>1. /\ req[s].state = "waiting" /\ asked[s] # None /\ Op(s) \in Routes
      /\ \A u \in Slots : u # s => req'[u] = req[u]
      /\ Admitted(s) => /\ req'[s].state = "running" /\ req'[s].left = Program(Op(s)) /\ req'[s].id = asked[s].chat
                        /\ req'[s].row = IF Op(s) = "createConversation"
                             THEN [kind |-> asked[s].kind, members |-> asked[s].members, task |-> asked[s].task] ELSE None
      /\ ~Admitted(s) => req'[s].state = "refused"
  BY ArriveIs DEF RowsInv
<1>2. UNCHANGED asked
  BY DEF Arrive, Arrives
<1>3. ASSUME NEW u \in Slots, u # s, Running(u)' PROVE Makes(u)'
  <2>1. req'[u] = req[u] /\ Op(u)' = Op(u) /\ Makes(u)
    BY <1>1, <1>2, <1>3 DEF Op, MakesInv, Running
  <2> QED
    BY <1>2, <2>1, MakesNext DEF Makes
<1>4. ASSUME Running(s)' PROVE Makes(s)'
  <2>1. Admitted(s) /\ Op(s)' = Op(s)
    BY <1>1, <1>2, <1>4 DEF Running, Op
  <2>2. Begins(Op(s), Head(req'[s].left)) /\ WellFormed(asked[s])
    BY <1>1, <2>1, ProgramsBegin, AskedWell DEF RowsInv
  <2>3. Op(s) = "sendCollaborationMessage" => asked[s].chat = None
    BY <2>2 DEF WellFormed, Op
  <2>4. MakesAt(s, Head(req'[s].left), req'[s].id, req'[s].row, req'[s].agent)
    BY <1>1, <2>1, <2>2, <2>3 DEF MakesAt, Begins
  <2> QED
    BY <1>2, <2>1, <2>4, MakesNext
<1> QED
  BY <1>3, <1>4 DEF MakesInv

\* A handler only goes on by its own steps.
LEMMA StaysOrStops ==
  ASSUME RowsInv, [Next]_vars, ~\E s \in Slots : Arrive(s) \/ Handles(s)
  PROVE  /\ UNCHANGED <<asked, before, chat, agents>>
         /\ \A u \in Slots : req'[u] = req[u] \/ (Running(u) /\ ~Running(u)' /\ Began(u)' /\ Keeps(u))
<1>0. RequestInv /\ RowsHeld
  BY DEF RowsInv
<1>1. ASSUME NEW s \in Slots, Fails(s)
      PROVE  /\ UNCHANGED <<asked, before, chat, agents>>
             /\ \A u \in Slots : req'[u] = req[u] \/ (Running(u) /\ ~Running(u)' /\ Began(u)' /\ Keeps(u))
  <2>1. Stops(s, "refused") /\ Running(s)
    BY <1>0, <1>1, FailsInv
  <2> QED
    BY <1>1, <2>1 DEF Stops, StopsIn, Running, Began, Keeps, Fails, Breaks, chatVars
<1>2. CASE Restart
  <2>1. UNCHANGED <<asked, before>> /\ \A s \in Slots : IF Running(s) THEN StopsIn(s, "lost") ELSE req'[s] = req[s]
    BY <1>0, <1>2, RestartInv
  <2> QED
    BY <1>2, <2>1 DEF StopsIn, Running, Began, Keeps, Restart, chatVars
<1>3. CASE RunsEnd \/ UNCHANGED vars
  BY <1>3 DEF RunsEnd, RunEnds, requestVars, vars, chatVars
<1> QED
  BY <1>1, <1>2, <1>3 DEF Next

LEMMA StepMakesInv ==
  ASSUME RowsInv, MakesInv, [Next]_vars
  PROVE  MakesInv'
<1>1. CASE \E s \in Slots : Arrive(s) \/ Handles(s)
  BY <1>1, HandlesMakes, ArriveMakes
<1>2. CASE ~\E s \in Slots : Arrive(s) \/ Handles(s)
  <2>1. ASSUME NEW u \in Slots, Running(u)' PROVE Makes(u)'
    <3>1. req'[u] = req[u] /\ asked' = asked /\ Op(u)' = Op(u)
      BY <1>2, <2>1, StaysOrStops DEF Op
    <3>2. Makes(u)
      BY <2>1, <3>1 DEF MakesInv, Running
    <3> QED
      BY <3>1, <3>2, MakesNext DEF Makes
  <2> QED
    BY <2>1 DEF MakesInv
<1> QED
  BY <1>1, <1>2

-----------------------------------------------------------------------------
(* Requests that crossed, and conversations that were reshaped, stay so.    *)

Erasers == {"deleteConversation", "clearConversation"}

LEMMA StepGrows ==
  ASSUME RowsInv, [Next]_vars
  PROVE  /\ asked' = asked
         /\ \A s \in Slots : Op(s)' = Op(s) /\ (Began(s) => Began(s)')
         /\ \A s, t \in Slots : Crossed(s, t) => Crossed(s, t)'
         /\ \A s \in Slots : ~Running(s) /\ Began(s) => req'[s] = req[s]
<1>1. ASSUME NEW s \in Slots, Handles(s)
      PROVE  /\ UNCHANGED <<asked, before>>
             /\ \A u \in Slots : (Began(u) => Began(u)') /\ (~Running(u) /\ Began(u) => req'[u] = req[u])
  BY <1>1, HandlesIs DEF Else, Began
<1>2. ASSUME NEW s \in Slots, Arrive(s)
      PROVE  /\ asked' = asked
             /\ before' = before \cup {<<t, s>> : t \in {u \in Slots : Ended(u)}} /\ ~Began(s)
             /\ \A u \in Slots : (Began(u) => Began(u)') /\ (~Running(u) /\ Began(u) => req'[u] = req[u])
  <2>1. RequestInv
    BY DEF RowsInv
  <2> QED
    BY <1>2, <2>1, ArriveIs DEF Arrive, Arrives, Began
<1>3. ASSUME ~\E s \in Slots : Arrive(s) \/ Handles(s)
      PROVE  /\ UNCHANGED <<asked, before>>
             /\ \A u \in Slots : (Began(u) => Began(u)') /\ (~Running(u) /\ Began(u) => req'[u] = req[u])
  BY <1>3, StaysOrStops DEF Began
<1>4. /\ asked' = asked
      /\ \A u \in Slots : (Began(u) => Began(u)') /\ (~Running(u) /\ Began(u) => req'[u] = req[u])
  BY <1>1, <1>2, <1>3
<1>5. ASSUME NEW s \in Slots, NEW t \in Slots, Crossed(s, t) PROVE Crossed(s, t)'
  <2>1. s # t /\ Began(s) /\ Began(t) /\ <<s, t>> \notin before /\ <<t, s>> \notin before
    BY <1>5 DEF Crossed
  <2>2. <<s, t>> \notin before' /\ <<t, s>> \notin before'
    BY <1>1, <1>2, <1>3, <2>1
  <2> QED
    BY <1>4, <2>1, <2>2 DEF Crossed
<1> QED
  BY <1>4, <1>5 DEF Op

LEMMA ExcusesStay ==
  ASSUME RowsInv, [Next]_vars
  PROVE  /\ \A s \in Slots : CrossAny(s, Erasers) => CrossAny(s, Erasers)'
         /\ DeletedAlone' => DeletedAlone
<1>1. /\ \A s \in Slots : Op(s)' = Op(s) /\ (Began(s) => Began(s)')
      /\ \A s, t \in Slots : Crossed(s, t) => Crossed(s, t)'
  BY StepGrows
<1>2. ASSUME NEW s \in Slots, CrossAny(s, Erasers) PROVE CrossAny(s, Erasers)'
  <2>1. PICK t \in Slots : Began(t) /\ Op(t) \in Erasers /\ Crossed(s, t)
    BY <1>2 DEF CrossAny, Of
  <2>2. (Began(t) /\ Op(t) \in Erasers /\ Crossed(s, t))'
    BY <1>1, <2>1 DEF Erasers
  <2> QED
    BY <2>2 DEF CrossAny, Of, Erasers
<1>3. ASSUME ~DeletedAlone PROVE ~DeletedAlone'
  <2>1. PICK s \in Slots, t \in Slots : Began(s) /\ Op(s) = "deleteAgent" /\ Crossed(s, t)
    BY <1>3 DEF DeletedAlone, Of
  <2>2. (Began(s) /\ Op(s) = "deleteAgent" /\ Crossed(s, t))'
    BY <1>1, <2>1
  <2> QED
    BY <2>2 DEF DeletedAlone, Of
<1> QED
  BY <1>2, <1>3

LEMMA ReshapedStays ==
  ASSUME RowsInv, MakesInv, [Next]_vars, NEW c \in ChatIds, Reshaped(c)
  PROVE  Reshaped(c)'
<1>0. /\ asked' = asked
      /\ \A s \in Slots : Op(s)' = Op(s) /\ (Began(s) => Began(s)')
      /\ \A s \in Slots : ~Running(s) /\ Began(s) => req'[s] = req[s]
  BY StepGrows
<1>1. CASE \E u \in Of({"updateConversation"}) : asked[u].chat = c
  BY <1>0, <1>1 DEF Reshaped, Of
<1>2. CASE c \in Of({"createConversation"}) /\ asked[c].kind = "direct" /\ Cardinality(asked[c].members) > 1
  BY <1>0, <1>2 DEF Reshaped, Of
<1>3. ASSUME NEW u \in Of({"sendCollaborationMessage"}), req[u].id = c PROVE Reshaped(c)'
  <2>1. u \in Slots /\ Began(u) /\ Op(u) = "sendCollaborationMessage" /\ c # None
    BY <1>3, WorkspaceAssumption DEF Of
  <2>2. ASSUME Handles(u) PROVE req'[u].id = c
    <3>1. /\ Else(u) /\ RequestInv /\ RowsHeld /\ Running(u) /\ Makes(u)
          /\ ChatStep(u) \/ \E h \in {"attach", "openFile", "read"} : Walks(u, h)
      BY <2>1, <2>2, HandlesIs DEF Else, RowsInv, MakesInv, Apart, ConnectorOps
    <3>2. Head(req[u].left) = "get" \/ Head(req[u].left) \in CopySteps
      BY <1>3, <2>1, <3>1 DEF Makes, MakesAt
    <3>3. CASE Refuses(u)
      BY <1>3, <2>1, <3>1, <3>3, StopsForth DEF Keeps
    <3>4. CASE Get(u) /\ ~Refuses(u)
      BY <1>3, <2>1, <3>1, <3>4, GetGoes
    <3>5. CASE ChatStep(u) /\ Head(req[u].left) \in CopySteps
      <4>1. Walks(u, Head(req[u].left))
        BY <2>1, <3>1, <3>5, ChatWalks DEF CopySteps, SpecialSteps
      <4> QED
        BY <1>3, <4>1 DEF Walks, Keeps
    <3>6. CASE \E h : Walks(u, h)
      BY <1>3, <3>6 DEF Walks, Keeps
    <3>7. ChatStep(u) /\ Head(req[u].left) = "get" => Get(u)
      BY Zenon DEF ChatStep, Enlist, GetAgent, PutAgent, Survey, Detach, Dismiss, Look, Store, Save, Check, Erase, Open,
             Interrupt, Address, Commit, Touch, Meet, GetTask, PutTask, Say, AskHelp, NewTask, ReadHelp, Reads, At
    <3> QED
      BY <3>1, <3>2, <3>3, <3>4, <3>5, <3>6, <3>7
  <2>3. req'[u].id = c
    <3>1. ASSUME NEW s \in Slots, Handles(s), s # u PROVE req'[u] = req[u]
      BY <2>1, <3>1, HandlesIs DEF Else
    <3>2. ASSUME NEW s \in Slots, Arrive(s) PROVE req'[u] = req[u]
      BY <2>1, <3>2, ArriveIs DEF RowsInv, Began
    <3>3. CASE ~\E s \in Slots : Arrive(s) \/ Handles(s)
      BY <1>3, <2>1, <3>3, StaysOrStops DEF Keeps
    <3> QED
      BY <1>3, <2>1, <2>2, <3>1, <3>2, <3>3
  <2> QED
    BY <1>0, <2>1, <2>3 DEF Reshaped, Of
<1> QED
  BY <1>1, <1>2, <1>3 DEF Reshaped

-----------------------------------------------------------------------------
(* The steps by what they do to the rows that refer to each other.          *)

RunsLess ==
    \A r \in Slots : Active(r)' => Active(r) /\ run'[r].chat = run[r].chat /\ run'[r].agent = run[r].agent
SameTables == UNCHANGED <<chat, agents, run>>

\* The handler gets no copy of a conversation, and comes to no step that writes one but for
\* those it holds a copy for.
Eases(u) ==
    \/ req'[u] = req[u]
    \/ /\ Began(u)' /\ (Running(u) \/ ~Began(u))
       /\ Copying(u)' => Copying(u)
       /\ Copying(u) => Keeps(u) /\ (Running(u)' => Copying(u)' /\ ~At(u, "touch"))
       /\ Running(u)' => /\ Op(u) = "deleteAgent" => At(u, "survey")'
                         /\ ~At(u, "store")' /\ ~At(u, "erase")'
Calm == chat' = chat /\ agents \subseteq agents' /\ RunsLess /\ \A u \in Slots : Eases(u)

\* The steps of a deletion of an agent.
Surveys(s) ==
    /\ Op(s) = "deleteAgent" /\ Keeps(s) /\ SameTables
    /\ At(s, "detach")' \/ At(s, "dismiss")'
    /\ req'[s].todo = Surveyed(req[s].agent)
    /\ At(s, "dismiss")' => Surveyed(req[s].agent) = {}
    /\ \A r \in Slots : Active(r) => run[r].agent # req[s].agent
Detaches(s) ==
    /\ Op(s) = "deleteAgent" /\ At(s, "detach") /\ Keeps(s) /\ UNCHANGED <<agents, run>>
    /\ \E item \in req[s].todo :
          /\ chat' = [chat EXCEPT ![item[1]] = Detached(item[2], req[s].agent)]
          /\ req'[s].todo = req[s].todo \ {item}
          /\ IF req'[s].todo = {} THEN Running(s)' => At(s, "dismiss")' ELSE At(s, "detach")'
Dismisses(s) ==
    /\ Op(s) = "deleteAgent" /\ At(s, "dismiss") /\ Keeps(s) /\ ~Running(s)'
    /\ UNCHANGED <<chat, run>> /\ agents' = agents \ {req[s].agent}

\* The steps that look before another writes.
Looks(s) ==
    /\ At(s, "look") /\ Keeps(s) /\ SameTables /\ (Running(s)' => At(s, "store")')
    /\ req[s].row.members \subseteq agents /\ Same(req[s].row) = {}
Checks(s) ==
    /\ At(s, "check") /\ Keeps(s) /\ SameTables /\ Op(s) \in Erasers
    /\ Running(s)' => ~Copying(s)' /\ ~At(s, "store")'
    /\ ActiveIn(req[s].id) = {}
\* A handler gets a copy of a conversation, changed or as it is.
Picks(s) ==
    /\ ~Copying(s) /\ SameTables /\ req'[s].agent = req[s].agent
    /\ Running(s)' => Copying(s)' /\ req'[s].id \in Present(chat)
    /\ req'[s].row = chat[req'[s].id] \/ req'[s].row.members \subseteq agents
    /\ req'[s].row.kind = chat[req'[s].id].kind
    /\ \/ Op(s) = "updateConversation" /\ req'[s].id = asked[s].chat
       \/ Op(s) = "sendCollaborationMessage"
       \/ /\ Op(s) = "sendMessage" /\ req'[s].row = chat[req'[s].id]
          /\ req[s].agent \in chat[req'[s].id].members

\* The steps that write.
Stores(s) ==
    /\ At(s, "store") /\ UNCHANGED <<agents, run>> /\ chat' = [chat EXCEPT ![s] = req[s].row]
    /\ req'[s].id = s /\ req'[s].row = req[s].row /\ req'[s].agent = req[s].agent
    /\ Running(s)' => Copying(s)'
Puts(s) ==
    /\ Copying(s) /\ Keeps(s) /\ UNCHANGED <<agents, run>>
    /\ chat' = [chat EXCEPT ![req[s].id] = req[s].row]
    /\ Running(s)' => Copying(s)' /\ ~At(s, "touch")
Erases(s) ==
    /\ At(s, "erase") /\ Keeps(s) /\ UNCHANGED <<agents, run>> /\ Op(s) \in Erasers
    /\ chat' = [chat EXCEPT ![req[s].id] = None]
    /\ Running(s)' => ~Copying(s)' /\ ~At(s, "store")' /\ ~At(s, "erase")'
Commits(s) ==
    /\ At(s, "commit") /\ Keeps(s) /\ UNCHANGED <<agents, chat>>
    /\ run' = [run EXCEPT ![s] = [agent |-> req[s].agent, chat |-> req[s].id, active |-> TRUE]]
    /\ Running(s)' => At(s, "touch")'

Noisy(s) ==
    /\ Else(s)
    /\ \/ Surveys(s) \/ Detaches(s) \/ Dismisses(s) \/ Looks(s) \/ Checks(s) \/ Picks(s)
       \/ Stores(s) \/ Puts(s) \/ Erases(s) \/ Commits(s)

\* The steps of the operations on agents and conversations.
LEMMA DeletionSteps ==
  /\ StepsOf["deleteAgent"] = {"survey", "dismiss", "detach"}
  /\ StepsOf["deleteConversation"] = {"check", "erase"}
  /\ StepsOf["clearConversation"] = {"open", "check", "erase", "getAgent", "putAgent", "look", "store", "interrupt"}
  /\ StepsOf["updateConversation"] = {"get", "save"}
  /\ StepsOf["sendMessage"] = {"address", "attach", "commit", "touch"}
  /\ StepsOf["sendCollaborationMessage"] =
        {"meet", "get", "save", "say", "touch", "look", "store", "getTask", "putTask"}
  /\ StepsOf["createConversation"] = {"look", "store"}
  BY DEF StepsOf

LEMMA WalkEases ==
  ASSUME RequestInv, NEW s \in Slots, NEW h, Walks(s, h), Else(s),
         h \notin {"survey", "detach", "dismiss", "look", "check", "store", "address", "get"}
  PROVE  Eases(s)
<1>1. /\ At(s, h) /\ Keeps(s) /\ Running(s) /\ Began(s)' /\ Op(s)' = Op(s)
      /\ Op(s) \in DOMAIN Ways /\ h \in StepsOf[Op(s)] /\ Head(req[s].left) = h
  BY RunningIs DEF Walks, Else, At
<1>2. CASE ~Running(s)'
  BY <1>1, <1>2 DEF Eases, Copying
<1>3. CASE Running(s)'
  <2> DEFINE n == Head(req'[s].left)
  <2>1. (h = n /\ h \in {"interrupt", "attach"}) \/ (Follows(h, n) /\ n \in StepsOf[Op(s)])
    BY <1>1, <1>3 DEF Walks, Forth, At
  <2> HIDE DEF n
  <2>2. n \in CopySteps <=> h \in CopySteps
    BY <2>1 DEF Follows, Writes, CopySteps
  <2>3. h = "touch" => ~Follows(h, n)
    BY DEF Follows, Writes, CopySteps
  <2>4. n # "store" /\ n # "erase"
    BY <2>1 DEF Follows, Writes
  <2>5. Op(s) # "deleteAgent"
    BY <1>1, DeletionSteps
  <2> QED
    BY <1>1, <1>3, <2>1, <2>2, <2>3, <2>4, <2>5 DEF Eases, Copying, At, n
<1> QED
  BY <1>2, <1>3

LEMMA OneEases ==
  ASSUME NEW s \in Slots, Else(s), Eases(s), chat' = chat, agents \subseteq agents', RunsLess
  PROVE  Calm
  BY DEF Else, Eases, Calm

LEMMA RefusalIsCalm ==
  ASSUME RequestInv, NEW s \in Slots, Else(s), Refuses(s), chat' = chat, agents \subseteq agents', RunsLess
  PROVE  Calm
<1>1. Keeps(s) /\ ~Running(s)' /\ Began(s)' /\ Running(s)
  BY StopsForth DEF Else
<1>2. Eases(s)
  BY <1>1 DEF Eases, Copying
<1> QED
  BY <1>2, OneEases

LEMMA SameIsLess ==
  ASSUME UNCHANGED run
  PROVE  RunsLess
  BY DEF RunsLess, Active

LEMMA DeactivatesLess ==
  ASSUME run \in [Slots -> Runs \cup {None}], NEW r, run' = [run EXCEPT ![r].active = FALSE]
  PROVE  RunsLess
<1> SUFFICES ASSUME NEW q \in Slots, Active(q)'
             PROVE  Active(q) /\ run'[q].chat = run[q].chat /\ run'[q].agent = run[q].agent
  BY DEF RunsLess
<1>1. CASE q # r
  <2>1. run'[q] = run[q]
    BY <1>1
  <2> QED
    BY <2>1 DEF Active
<1>2. CASE q = r /\ run[q] \in Runs
  <2>1. run'[q] = [run[q] EXCEPT !.active = FALSE]
    BY <1>2
  <2>2. run'[q].active = FALSE
    BY <1>2, <2>1 DEF Runs
  <2> QED
    BY <2>2 DEF Active
<1>3. CASE q = r /\ run[q] = None
  <2>1. run'[q] = [run[q] EXCEPT !.active = FALSE]
    BY <1>3
  <2> QED
    BY <1>3, <2>1 DEF Active
<1> QED
  BY <1>1, <1>2, <1>3

LEMMA CalmSteps ==
  ASSUME RequestInv, RowsHeld, TablesTyped, NEW s \in Slots, Else(s),
         \/ Enlist(s) \/ PutAgent(s) \/ NewTask(s) \/ PutTask(s) \/ GetAgent(s) \/ ReadHelp(s) \/ GetTask(s)
         \/ Say(s) \/ Interrupt(s)
  PROVE  Calm
<1> DEFINE h == Head(req[s].left)
<1>1. /\ ChatStep(s)
      /\ h \in {"enlist", "putAgent", "newTask", "putTask", "getAgent", "readHelp", "getTask", "say", "interrupt"}
  BY Zenon DEF ChatStep, Enlist, PutAgent, NewTask, PutTask, GetAgent, ReadHelp, GetTask, Say, Interrupt, Reads, At
<1>2. Walks(s, h)
  BY <1>1, ChatWalks DEF SpecialSteps
<1> HIDE DEF h
<1>3. Eases(s)
  BY <1>1, <1>2, WalkEases
<1>4. chat' = chat /\ agents \subseteq agents' /\ RunsLess
  <2>1. CASE Interrupt(s)
    <3>1. \E r : run' = [run EXCEPT ![r].active = FALSE]
      BY <2>1, Zenon DEF Interrupt
    <3>2. UNCHANGED <<agents, chat>>
      BY <2>1 DEF Interrupt
    <3> QED
      BY <3>1, <3>2, DeactivatesLess DEF TablesTyped, ChatsTypeOK
  <2>2. CASE ~Interrupt(s)
    <3>1. chat' = chat /\ run' = run
      BY <2>2, Zenon DEF Enlist, PutAgent, NewTask, PutTask, GetAgent, ReadHelp, GetTask, Say, chatVars
    <3>2. agents \subseteq agents'
      BY <2>2 DEF Enlist, PutAgent, NewTask, PutTask, GetAgent, ReadHelp, GetTask, Say, chatVars
    <3> QED
      BY <3>1, <3>2, SameIsLess
  <2> QED
    BY <2>1, <2>2
<1> QED
  BY <1>3, <1>4, OneEases

LEMMA DeletionKinds ==
  ASSUME RequestInv, RowsHeld, NEW s \in Slots, Else(s), Survey(s) \/ Detach(s) \/ Dismiss(s)
  PROVE  Calm \/ Noisy(s)
<1>1. CASE Survey(s) /\ Refuses(s)
  <2>1. SameTables
    BY <1>1 DEF Survey, chatVars, SameTables
  <2> QED
    BY <1>1, <2>1, RefusalIsCalm, SameIsLess DEF SameTables
<1>2. CASE Survey(s) /\ ~Refuses(s)
  <2>1. SameTables
    BY <1>2 DEF Survey, chatVars, SameTables
  <2>2. /\ At(s, "survey") /\ Op(s) = "deleteAgent" /\ Keeps(s) /\ Running(s)'
        /\ Head(req'[s].left) \in {"detach", "dismiss"} /\ req'[s].todo = Surveyed(req[s].agent)
        /\ Head(req'[s].left) = "dismiss" => Surveyed(req[s].agent) = {}
        /\ \A r \in Slots : Active(r) => run[r].agent # req[s].agent
    BY <1>2, SurveyGoes
  <2>3. Surveys(s)
    BY <2>1, <2>2 DEF Surveys, At
  <2> QED
    BY <2>3 DEF Noisy
<1>3. CASE Detach(s)
  <2>1. At(s, "detach") /\ UNCHANGED <<agents, run>>
    BY <1>3 DEF Detach
  <2>2. PICK item \in req[s].todo : /\ chat' = [chat EXCEPT ![item[1]] = Detached(item[2], req[s].agent)]
                                    /\ Goes(s, Rest(s, item))
    BY <1>3, Zenon DEF Detach
  <2>3. Op(s) = "deleteAgent"
    BY <2>1, AtStep, StepsAreOf
  <2> DEFINE d == req[s].todo \ {item}
  <2>4. Keeps(s) /\ req'[s].todo = d /\ (d = {} => Forth(s)) /\ (d # {} => At(s, "detach")')
    BY <2>1, <2>2, LoopStep
  <2>5. ASSUME d = {}, Running(s)' PROVE At(s, "dismiss")'
    <3>1. /\ Head(req'[s].left) \in StepsOf["deleteAgent"]
          /\ Follows("detach", Head(req'[s].left))
      BY <2>1, <2>3, <2>4, <2>5 DEF Forth, At
    <3>2. Head(req'[s].left) = "dismiss"
      BY <3>1, DeletionSteps DEF Follows
    <3> QED
      BY <2>5, <3>2 DEF At
  <2>6. Detaches(s)
    BY <2>1, <2>2, <2>3, <2>4, <2>5 DEF Detaches
  <2> QED
    BY <2>6 DEF Noisy
<1>4. CASE Dismiss(s)
  <2>1. At(s, "dismiss") /\ UNCHANGED <<chat, run>> /\ agents' = agents \ {req[s].agent} /\ Moves(s, req[s])
    BY <1>4 DEF Dismiss
  <2>2. Op(s) = "deleteAgent"
    BY <2>1, AtStep, StepsAreOf
  <2>3. Keeps(s) /\ Forth(s)
    BY <2>1, PlainStep
  <2>4. ~Running(s)'
    <3>1. Running(s)' => /\ Head(req'[s].left) \in StepsOf["deleteAgent"]
                         /\ Follows("dismiss", Head(req'[s].left))
      BY <2>1, <2>2, <2>3 DEF Forth, At
    <3> QED
      BY <3>1, DeletionSteps DEF Follows, Writes
  <2>5. Dismisses(s)
    BY <2>1, <2>2, <2>3, <2>4 DEF Dismisses
  <2> QED
    BY <2>5 DEF Noisy
<1> QED
  BY <1>1, <1>2, <1>3, <1>4

LEMMA LookKinds ==
  ASSUME RowsInv, MakesInv, NEW s \in Slots, Else(s), Look(s) \/ Check(s) \/ Store(s)
  PROVE  Calm \/ Noisy(s)
<1>0. RequestInv /\ RowsHeld /\ Op(s)' = Op(s)
  BY DEF RowsInv, Else
<1>1. ASSUME Refuses(s), Look(s) \/ Check(s) PROVE Calm
  <2>1. SameTables
    BY <1>1 DEF Look, Check, chatVars, SameTables
  <2> QED
    BY <1>0, <1>1, <2>1, RefusalIsCalm, SameIsLess DEF SameTables
<1>2. CASE Look(s) /\ ~Refuses(s)
  <2> DEFINE n == Head(req'[s].left)
  <2>0. SameTables
    BY <1>2 DEF Look, chatVars, SameTables
  <2>1. At(s, "look") /\ req[s].row.members \subseteq agents
    BY <1>0, <1>2, LookGoes
  <2>2. CASE Keeps(s) /\ Forth(s) /\ Same(req[s].row) = {}
    <3>1. Running(s)' => At(s, "store")'
      <4>1. Running(s)' => Follows("look", n)
        BY <2>1, <2>2 DEF Forth, At
      <4> QED
        BY <4>1 DEF Follows, At
    <3>2. Looks(s)
      BY <2>0, <2>1, <2>2, <3>1 DEF Looks
    <3> QED
      BY <3>2 DEF Noisy
  <2>3. CASE ~(Keeps(s) /\ Forth(s) /\ Same(req[s].row) = {})
    <3>1. /\ Same(req[s].row) # {} /\ req'[s].row = req[s].row /\ req'[s].agent = req[s].agent
          /\ Running(s)' => n \in StepsOf[Op(s)] /\ Follows("store", n)
      BY <1>0, <1>2, <2>3, LookGoes
    <3>2. req[s].row.kind = "direct" /\ Head(req[s].left) = "look" /\ Running(s)
      BY <2>1, <3>1 DEF Same, At
    <3>3. /\ Op(s) \in {"createConversation", "clearConversation", "sendCollaborationMessage", "requestAgentHelp"}
          /\ Op(s) \in DOMAIN Ways
      BY <1>0, <2>1, AtStep, StepsAreOf
    <3>4. Op(s) \in {"createConversation", "clearConversation"}
      BY <3>2, <3>3 DEF MakesInv, Makes, MakesAt, CopySteps
    <3> HIDE DEF n
    <3>5. ~Running(s)'
      BY <3>1, <3>4, DeletionSteps DEF Follows, Writes, CopySteps
    <3>6. Eases(s)
      BY <3>2, <3>5 DEF Eases, Copying, CopySteps, Else
    <3> QED
      BY <2>0, <3>6, OneEases, SameIsLess DEF SameTables
  <2> QED
    BY <2>2, <2>3
<1>3. CASE Check(s) /\ ~Refuses(s)
  <2> DEFINE n == Head(req'[s].left)
  <2>0. SameTables /\ At(s, "check") /\ ActiveIn(req[s].id) = {} /\ Moves(s, req[s])
    BY <1>3 DEF Check, Reads, Idle, chatVars, SameTables
  <2>1. Keeps(s) /\ Forth(s)
    BY <1>0, <2>0, PlainStep
  <2>2. Op(s) \in Erasers
    <3>1. Op(s) \in DOMAIN Ways /\ "check" \in StepsOf[Op(s)]
      BY <1>0, <2>0, AtStep
    <3> QED
      BY <3>1 DEF Ways, StepsOf, Erasers
  <2>3. Running(s)' => n \in StepsOf[Op(s)] /\ Follows("check", n)
    BY <2>0, <2>1 DEF Forth, At
  <2> HIDE DEF n
  <2>4. Running(s)' => n \notin CopySteps /\ n # "store"
    BY <2>2, <2>3, DeletionSteps DEF Erasers, CopySteps, Follows, Writes
  <2>5. Checks(s)
    BY <2>0, <2>1, <2>2, <2>4 DEF Checks, Copying, At, n
  <2> QED
    BY <2>5 DEF Noisy
<1>4. CASE Store(s)
  <2> DEFINE n == Head(req'[s].left)
  <2>1. /\ At(s, "store") /\ Forth(s)
        /\ req'[s].id = s /\ req'[s].row = req[s].row /\ req'[s].agent = req[s].agent
    BY <1>0, <1>4, StoreGoes
  <2>2. UNCHANGED <<agents, run>> /\ chat' = [chat EXCEPT ![s] = req[s].row]
    BY <1>4 DEF Store
  <2>3. Running(s)' => Follows("store", n)
    BY <2>1 DEF Forth, At
  <2> HIDE DEF n
  <2>4. Running(s)' => n \in CopySteps
    BY <2>3 DEF Follows, Writes, CopySteps
  <2>5. Stores(s)
    BY <2>1, <2>2, <2>4 DEF Stores, Copying, n
  <2> QED
    BY <2>5 DEF Noisy
<1> QED
  BY <1>1, <1>2, <1>3, <1>4

LEMMA StartsQuiet ==
  ASSUME NEW op \in Routes
  PROVE  Head(Program(op)) \notin CopySteps \cup {"store", "erase"}
  BY ProgramsAreWays DEF Begins, CopySteps

LEMMA PickKinds ==
  ASSUME RowsInv, MakesInv, NEW s \in Slots, Else(s), Get(s) \/ Address(s) \/ Meet(s) \/ Open(s) \/ AskHelp(s)
  PROVE  Calm \/ Noisy(s)
<1> DEFINE n == Head(req'[s].left)
<1>0. RequestInv /\ RowsHeld /\ TablesTyped /\ Op(s)' = Op(s) /\ Running(s) /\ Began(s)'
  BY DEF RowsInv, Else
<1>1. SameTables
  BY Zenon DEF Get, Address, Meet, Open, AskHelp, chatVars, SameTables
<1>2. CASE Refuses(s)
  BY <1>0, <1>1, <1>2, RefusalIsCalm, SameIsLess DEF SameTables
<1>3. ASSUME Running(s)' => n \notin CopySteps /\ n # "store" /\ n # "erase", ~Copying(s), Op(s) # "deleteAgent"
      PROVE  Calm
  <2>1. Eases(s)
    BY <1>0, <1>3 DEF Eases, Copying, At
  <2> QED
    BY <1>1, <2>1, OneEases, SameIsLess DEF SameTables
<1>4. chat \in [ChatIds -> Chats \cup {None}]
  BY <1>0 DEF TablesTyped, ChatsTypeOK
<1>5. CASE Get(s) /\ ~Refuses(s)
  <2>1. /\ At(s, "get") /\ Forth(s) /\ chat[req[s].id] # None
        /\ req'[s].id = req[s].id /\ req'[s].agent = req[s].agent
        /\ req'[s].row.members \subseteq agents
        /\ req'[s].row = [chat[req[s].id] EXCEPT !.members = NewMembers(s)]
    BY <1>0, <1>5, GetGoes
  <2>2. /\ Op(s) \in {"updateConversation", "sendCollaborationMessage"}
        /\ HoldsAt(s, "get", req[s].id, req[s].row, req[s].agent, req[s].task, req[s].todo, req[s].value)
    BY <1>0, <2>1, AtStep, StepsAreOf
  <2>3. req[s].id \in ChatIds
    BY <2>2 DEF HoldsAt
  <2>4. Running(s)' => n \in StepsOf[Op(s)] /\ Follows("get", n)
    BY <2>1 DEF Forth, At
  <2>5. Head(req[s].left) = "get" /\ Makes(s)
    BY <1>0, <2>1 DEF At, MakesInv
  <2> HIDE DEF n
  <2>6. Running(s)' => n \in CopySteps
    BY <2>2, <2>4, DeletionSteps DEF Follows, Writes, CopySteps
  <2>7. Op(s) = "updateConversation" => req[s].id = asked[s].chat
    BY <2>5 DEF Makes, MakesAt
  <2>8. ~Copying(s) /\ (Running(s)' => Copying(s)')
    BY <2>5, <2>6 DEF Copying, CopySteps, n
  <2>9. req'[s].row.kind = chat[req'[s].id].kind
    <3>1. chat[req[s].id] \in Chats
      BY <1>4, <2>1, <2>3
    <3>2. \A m : [chat[req[s].id] EXCEPT !.members = m].kind = chat[req[s].id].kind
      BY <3>1 DEF Chats
    <3> QED
      BY <2>1, <3>2
  <2>10. Picks(s)
    BY <1>1, <1>4, <2>1, <2>2, <2>3, <2>7, <2>8, <2>9 DEF Picks, Present
  <2> QED
    BY <2>10 DEF Noisy
<1>6. CASE Address(s) /\ ~Refuses(s)
  <2>1. /\ At(s, "address") /\ Forth(s) /\ chat[req[s].id] # None
        /\ req'[s].id = req[s].id /\ req'[s].agent = req[s].agent
        /\ req'[s].row = chat[req[s].id] /\ req[s].agent \in chat[req[s].id].members
    BY <1>0, <1>6, AddressGoes
  <2>2. /\ Op(s) = "sendMessage"
        /\ HoldsAt(s, "address", req[s].id, req[s].row, req[s].agent, req[s].task, req[s].todo, req[s].value)
    BY <1>0, <2>1, AtStep, StepsAreOf
  <2>3. req[s].id \in ChatIds
    BY <2>2 DEF HoldsAt
  <2>4. Running(s)' => n \in StepsOf[Op(s)] /\ Follows("address", n)
    BY <2>1 DEF Forth, At
  <2>5. Head(req[s].left) = "address"
    BY <2>1 DEF At
  <2> HIDE DEF n
  <2>6. Running(s)' => n \in CopySteps
    BY <2>2, <2>4, DeletionSteps DEF Follows, CopySteps
  <2>7. ~Copying(s) /\ (Running(s)' => Copying(s)')
    BY <2>5, <2>6 DEF Copying, CopySteps, n
  <2>8. Picks(s)
    BY <1>1, <1>4, <2>1, <2>2, <2>3, <2>7 DEF Picks, Present
  <2> QED
    BY <2>8 DEF Noisy
<1>7. CASE Meet(s) /\ ~Refuses(s)
  <2>1. /\ At(s, "meet") /\ Op(s) = "sendCollaborationMessage" /\ req'[s].agent = req[s].agent
        /\ \/ /\ req'[s].id = req[s].id /\ req'[s].row.kind = "task"
              /\ Running(s)' => n = "look"
           \/ /\ chat[req'[s].id] # None /\ req'[s].row = chat[req'[s].id]
              /\ Running(s)' => n \in {"say", "get"}
    BY <1>0, <1>7, MeetGoes
  <2>2. ~Copying(s)
    BY <2>1 DEF At, Copying, CopySteps
  <2>3. CASE Running(s)' /\ n = "say"
    <3>1. Copying(s)' /\ chat[req'[s].id] # None /\ req'[s].row = chat[req'[s].id]
      BY <2>1, <2>3 DEF Copying, CopySteps
    <3>2. req'[s].id \in ChatIds
      <4>1. RequestInv' /\ RowsHeld'
        <5>1. Proceeds(s)
          BY <1>0, <1>7, MeetProceeds
        <5>2. Present(run) \subseteq Present(run)'
          BY <1>1 DEF SameTables, Present
        <5> HIDE DEF n
        <5> QED
          BY <1>0, <5>1, <5>2, ProceedsInv
      <4>2. Holds(s)'
        BY <2>3, <4>1 DEF RowsHeld
      <4> QED
        BY <1>0, <2>1, <2>3, <4>2 DEF Holds, HoldsAt, CopySteps
    <3>3. Picks(s)
      BY <1>1, <1>4, <2>1, <2>2, <3>1, <3>2 DEF Picks, Present
    <3> QED
      BY <3>3 DEF Noisy
  <2>4. CASE ~(Running(s)' /\ n = "say")
    <3> HIDE DEF n
    <3>1. Running(s)' => n \notin CopySteps /\ n # "store" /\ n # "erase"
      BY <2>1, <2>4 DEF CopySteps
    <3> QED
      BY <1>3, <2>1, <2>2, <3>1
  <2> QED
    BY <2>3, <2>4
<1>8. CASE Open(s) /\ ~Refuses(s)
  <2>1. At(s, "open") /\ Op(s) = "clearConversation" /\ (Running(s)' => n \in {"check", "interrupt"})
    BY <1>0, <1>8, OpenGoes
  <2>2. ~Copying(s)
    BY <2>1 DEF At, Copying, CopySteps
  <2> HIDE DEF n
  <2>3. Running(s)' => n \notin CopySteps /\ n # "store" /\ n # "erase"
    BY <2>1 DEF CopySteps
  <2> QED
    BY <1>3, <2>1, <2>2, <2>3
<1>9. CASE AskHelp(s) /\ ~Refuses(s)
  <2>1. At(s, "ask") /\ Forth(s)
    BY <1>0, <1>9, AskGoes
  <2>2. ~Copying(s) /\ Op(s) = "requestAgentHelp"
    BY <1>0, <2>1, AtStep, StepsAreOf DEF At, Copying, CopySteps
  <2>3. Running(s)' => Follows("ask", n)
    BY <2>1 DEF Forth, At
  <2> HIDE DEF n
  <2>4. Running(s)' => n \notin CopySteps /\ n # "store" /\ n # "erase"
    BY <2>3 DEF CopySteps, Follows
  <2> QED
    BY <1>3, <2>2, <2>4
<1> QED
  BY <1>2, <1>5, <1>6, <1>7, <1>8, <1>9

LEMMA WriteKinds ==
  ASSUME RowsInv, NEW s \in Slots, Else(s), Save(s) \/ Touch(s) \/ Erase(s) \/ Commit(s)
  PROVE  Calm \/ Noisy(s)
<1> DEFINE h == Head(req[s].left)
           n == Head(req'[s].left)
<1>0. RequestInv /\ RowsHeld /\ Running(s) /\ Op(s) \in DOMAIN Ways /\ h \in StepsOf[Op(s)]
  BY RunningIs DEF RowsInv, Else
<1>1. ChatStep(s) /\ h \in {"save", "touch", "erase", "commit"} /\ At(s, h)
  BY Zenon DEF ChatStep, Save, Touch, Erase, Commit, At
<1>2. Keeps(s) /\ Forth(s)
  <2>1. Walks(s, h)
    BY <1>0, <1>1, ChatWalks DEF SpecialSteps
  <2> QED
    BY <1>1, <2>1 DEF Walks
<1>3. Running(s)' => n \in StepsOf[Op(s)] /\ Follows(h, n)
  BY <1>2 DEF Forth
<1>4. CASE Save(s) \/ Touch(s)
  <2>1. /\ UNCHANGED <<agents, run>> /\ chat' = [chat EXCEPT ![req[s].id] = req[s].row]
        /\ h \in {"save", "touch"}
    BY <1>4 DEF Save, Touch, At
  <2> HIDE DEF h, n
  <2>2. Running(s)' => n \in CopySteps /\ h # "touch"
    BY <1>3, <2>1 DEF Follows, Writes, CopySteps
  <2>3. Puts(s)
    BY <1>0, <1>2, <2>1, <2>2 DEF Puts, Copying, CopySteps, At, h, n
  <2> QED
    BY <2>3 DEF Noisy
<1>5. CASE Erase(s)
  <2>1. UNCHANGED <<agents, run>> /\ chat' = [chat EXCEPT ![req[s].id] = None] /\ At(s, "erase")
    BY <1>5 DEF Erase
  <2>2. h = "erase"
    BY <2>1 DEF At
  <2> HIDE DEF h, n
  <2>3. Op(s) \in Erasers
    BY <1>0, <2>2 DEF Ways, StepsOf, Erasers
  <2>4. Running(s)' => n \notin CopySteps /\ n # "store" /\ n # "erase"
    BY <1>3, <2>2, <2>3, DeletionSteps DEF Erasers, CopySteps, Follows, Writes
  <2>5. Erases(s)
    BY <1>2, <2>1, <2>3, <2>4 DEF Erases, Copying, At, n
  <2> QED
    BY <2>5 DEF Noisy
<1>6. CASE Commit(s)
  <2>1. At(s, "commit") /\ h = "commit"
    BY <1>6 DEF Commit, At
  <2>2. CASE UNCHANGED chatVars
    <3>1. Walks(s, h)
      BY <1>1, <1>2 DEF Walks
    <3>2. Eases(s)
      BY <1>0, <2>1, <3>1, WalkEases
    <3> QED
      BY <2>2, <3>2, OneEases, SameIsLess DEF chatVars
  <2>3. CASE ~UNCHANGED chatVars
    <3>1. /\ run' = [run EXCEPT ![s] = [agent |-> req[s].agent, chat |-> req[s].id, active |-> TRUE]]
          /\ UNCHANGED <<agents, chat>>
      BY <1>6, <2>3, Zenon DEF Commit
    <3> HIDE DEF n
    <3>2. Running(s)' => n = "touch"
      BY <1>3, <2>1 DEF Follows, Writes, CopySteps
    <3>3. Commits(s)
      BY <1>2, <2>1, <3>1, <3>2 DEF Commits, At, n
    <3> QED
      BY <3>3 DEF Noisy
  <2> QED
    BY <2>2, <2>3
<1> QED
  BY <1>4, <1>5, <1>6

LEMMA ApartIsCalm ==
  ASSUME RequestInv, RequestInv', NEW s \in Slots, Else(s), Apart(s), UNCHANGED chatVars
  PROVE  Calm
<1>1. Op(s) \in DOMAIN Ways /\ Head(req[s].left) \in StepsOf[Op(s)] /\ UNCHANGED asked
  BY RunningIs DEF Else
<1>2. Running(s)' => Head(req'[s].left) \in StepsOf[Op(s)]
  BY <1>1, OfFiles DEF NextStep
<1>3. StepsOf[Op(s)] \cap (CopySteps \cup {"store", "erase"}) = {} /\ Op(s) # "deleteAgent"
  BY <1>1 DEF Apart, ConnectorOps, StepsOf, CopySteps
<1>4. Eases(s)
  BY <1>1, <1>2, <1>3 DEF Eases, Copying, At, Else
<1> QED
  BY <1>4, OneEases, SameIsLess DEF chatVars

\* A step that is not calm is a step of one handler that reads or writes what refers to
\* something.
LEMMA StepKinds ==
  ASSUME RowsInv, RowsInv', MakesInv, [Next]_vars
  PROVE  Calm \/ \E s \in Slots : Noisy(s)
<1>0. RequestInv /\ RowsHeld /\ TablesTyped /\ RequestInv'
  BY DEF RowsInv
<1>1. ASSUME NEW s \in Slots, Handles(s) PROVE Calm \/ Noisy(s)
  <2>1. Else(s)
    BY <1>1, HandlesIs
  <2>2. CASE ChatStep(s)
    <3>1. CASE \/ Enlist(s) \/ PutAgent(s) \/ NewTask(s) \/ PutTask(s) \/ GetAgent(s) \/ ReadHelp(s) \/ GetTask(s)
               \/ Say(s) \/ Interrupt(s)
      BY <1>0, <2>1, <3>1, CalmSteps
    <3>2. CASE Survey(s) \/ Detach(s) \/ Dismiss(s)
      BY <1>0, <2>1, <3>2, DeletionKinds
    <3>3. CASE Look(s) \/ Check(s) \/ Store(s)
      BY <2>1, <3>3, LookKinds
    <3>4. CASE Get(s) \/ Address(s) \/ Meet(s) \/ Open(s) \/ AskHelp(s)
      BY <2>1, <3>4, PickKinds
    <3>5. CASE Save(s) \/ Touch(s) \/ Erase(s) \/ Commit(s)
      BY <2>1, <3>5, WriteKinds
    <3> QED
      BY <2>2, <3>1, <3>2, <3>3, <3>4, <3>5, Zenon DEF ChatStep
  <2>3. CASE Apart(s) /\ UNCHANGED chatVars
    BY <1>0, <2>1, <2>3, ApartIsCalm
  <2>4. ASSUME NEW h \in {"attach", "openFile", "read"}, Walks(s, h), UNCHANGED chatVars PROVE Calm
    BY <1>0, <2>1, <2>4, WalkEases, OneEases, SameIsLess DEF chatVars
  <2> QED
    BY <1>1, <2>2, <2>3, <2>4, HandlesIs
<1>2. ASSUME NEW s \in Slots, Arrive(s) PROVE Calm
  <2>1. /\ req[s].state = "waiting" /\ asked[s] # None /\ Op(s) \in Routes
        /\ \A u \in Slots : u # s => req'[u] = req[u]
        /\ Admitted(s) => req'[s].state = "running" /\ req'[s].left = Program(Op(s))
        /\ ~Admitted(s) => req'[s].state = "refused"
    BY <1>0, <1>2, ArriveIs
  <2>2. UNCHANGED <<chatVars, asked>>
    BY <1>2 DEF Arrive, Arrives
  <2>3. Running(s)' => /\ Head(req'[s].left) \notin CopySteps \cup {"store", "erase"}
                       /\ Op(s) = "deleteAgent" => Head(req'[s].left) = "survey"
    <3>1. Running(s)' => /\ Begins(Op(s), Head(req'[s].left)) /\ Op(s) \in DOMAIN Ways
                         /\ req'[s].left = Program(Op(s))
      BY <2>1, ProgramsBegin DEF Running
    <3>2. Head(Program(Op(s))) \notin CopySteps \cup {"store", "erase"}
      BY <2>1, StartsQuiet
    <3> QED
      BY <3>1, <3>2 DEF Begins
  <2>4. Eases(s)
    BY <2>1, <2>3 DEF Eases, Copying, At, Running, Began
  <2> QED
    BY <2>1, <2>2, <2>4, SameIsLess DEF Calm, Eases, chatVars
<1>3. ASSUME ~\E s \in Slots : Arrive(s) \/ Handles(s) PROVE Calm
  <2>1. UNCHANGED <<chat, agents>> /\ \A u \in Slots : Eases(u)
    BY <1>3, StaysOrStops DEF Eases, Copying
  <2>2. RunsLess
    <3>1. CASE UNCHANGED run
      BY <3>1, SameIsLess
    <3>2. CASE RunsEnd
      BY <1>0, <3>2, DeactivatesLess DEF RunsEnd, RunEnds, TablesTyped, ChatsTypeOK
    <3>3. UNCHANGED run \/ RunsEnd
      BY <1>3 DEF Next, Fails, Restart, vars, chatVars
    <3> QED
      BY <3>1, <3>2, <3>3
  <2> QED
    BY <2>1, <2>2 DEF Calm
<1> QED
  BY <1>1, <1>2, <1>3

-----------------------------------------------------------------------------
(* How a handler comes to hold what it writes, and a table to change.       *)

Step == Calm \/ \E s \in Slots : Noisy(s)

LEMMA NoisyIs ==
  ASSUME RequestInv, NEW s \in Slots, Noisy(s)
  PROVE  /\ Running(s) /\ Op(s) \in DOMAIN Ways /\ Head(req[s].left) \in StepsOf[Op(s)]
         /\ Op(s) = "deleteAgent" => /\ ~Copying(s) /\ ~At(s, "store") /\ ~At(s, "erase") /\ ~At(s, "look")
                                     /\ ~At(s, "check") /\ ~At(s, "commit")
         /\ \A u \in Slots : u # s => req'[u] = req[u]
         /\ Op(s)' = Op(s)
<1>1. Else(s)
  BY DEF Noisy
<1>2. Running(s) /\ Op(s) \in DOMAIN Ways /\ Head(req[s].left) \in StepsOf[Op(s)]
  BY <1>1, RunningIs DEF Else
<1> QED
  BY <1>1, <1>2, DeletionSteps DEF Else, Copying, CopySteps, At

\* A handler with a copy keeps it, and gets one only by picking it or by storing it.
LEMMA CopyKept ==
  ASSUME RequestInv, Step, NEW u \in Slots, Copying(u)
  PROVE  Keeps(u) /\ (Running(u)' => Copying(u)') /\ (At(u, "touch") /\ Running(u)' => req'[u] = req[u])
<1>1. CASE Calm
  <2>1. Eases(u)
    BY <1>1 DEF Calm
  <2>2. CASE req'[u] = req[u]
    BY <2>2 DEF Keeps, Running, Copying
  <2>3. CASE req'[u] # req[u]
    BY <2>1, <2>3 DEF Eases
  <2> QED
    BY <2>2, <2>3
<1>2. ASSUME NEW s \in Slots, Noisy(s), s # u
      PROVE  Keeps(u) /\ (Running(u)' => Copying(u)') /\ (At(u, "touch") /\ Running(u)' => req'[u] = req[u])
  <2>1. req'[u] = req[u]
    BY <1>2, NoisyIs
  <2> QED
    BY <2>1 DEF Keeps, Running, Copying
<1>3. CASE Noisy(u)
  <2>1. Op(u) # "deleteAgent"
    BY <1>3, NoisyIs
  <2>2. ~At(u, "look") /\ ~At(u, "check") /\ ~At(u, "store") /\ ~At(u, "erase")
    BY DEF Copying, CopySteps, At
  <2>3. Puts(u) \/ Commits(u)
    BY <1>3, <2>1, <2>2 DEF Noisy, Surveys, Detaches, Dismisses, Looks, Checks, Picks, Stores, Erases
  <2>4. Running(u)' => ~At(u, "touch")
    BY <2>3 DEF Puts, Commits, At
  <2>5. Keeps(u) /\ (Running(u)' => Copying(u)')
    BY <2>3 DEF Puts, Commits, At, Copying, CopySteps
  <2> QED
    BY <2>4, <2>5
<1> QED
  BY <1>1, <1>2, <1>3 DEF Step

LEMMA CopyComes ==
  ASSUME RequestInv, Step, NEW u \in Slots, Copying(u)', ~Copying(u)
  PROVE  Else(u) /\ (Picks(u) \/ Stores(u))
<1>1. req'[u] # req[u]
  BY DEF Copying, Running
<1>2. ~Calm
  BY <1>1 DEF Calm, Eases
<1>3. PICK s \in Slots : Noisy(s)
  BY <1>2 DEF Step
<1>4. s = u
  BY <1>1, <1>3, NoisyIs
<1>5. Noisy(u) /\ Running(u)'
  BY <1>3, <1>4 DEF Copying
<1>6. ~At(u, "commit") /\ ~At(u, "detach")' /\ ~At(u, "dismiss")' /\ ~At(u, "store")'
  BY DEF Copying, CopySteps, At
<1> QED
  BY <1>5, <1>6 DEF Noisy, Surveys, Detaches, Dismisses, Looks, Checks, Puts, Erases, Commits

LEMMA StoreComes ==
  ASSUME RequestInv, Step, NEW u \in Slots, At(u, "store")'
  PROVE  req'[u] = req[u] \/ (Else(u) /\ Looks(u))
<1>0. Running(u)' /\ ~Copying(u)' /\ ~At(u, "touch")' /\ ~At(u, "detach")' /\ ~At(u, "dismiss")'
  BY DEF At, Copying, CopySteps
<1>1. CASE Calm
  BY <1>0, <1>1 DEF Calm, Eases
<1>2. ASSUME NEW s \in Slots, Noisy(s), s # u PROVE req'[u] = req[u]
  BY <1>2, NoisyIs
<1>3. CASE Noisy(u)
  BY <1>0, <1>3 DEF Noisy, Surveys, Detaches, Dismisses, Checks, Picks, Stores, Puts, Erases, Commits
<1> QED
  BY <1>1, <1>2, <1>3 DEF Step

LEMMA EraseComes ==
  ASSUME RequestInv, Step, NEW u \in Slots, At(u, "erase")'
  PROVE  req'[u] = req[u] \/ (Else(u) /\ Checks(u))
<1>0. /\ Running(u)' /\ ~Copying(u)' /\ ~At(u, "touch")' /\ ~At(u, "detach")' /\ ~At(u, "dismiss")'
      /\ ~At(u, "store")'
  BY DEF At, Copying, CopySteps
<1>1. CASE Calm
  BY <1>0, <1>1 DEF Calm, Eases
<1>2. ASSUME NEW s \in Slots, Noisy(s), s # u PROVE req'[u] = req[u]
  BY <1>2, NoisyIs
<1>3. CASE Noisy(u)
  BY <1>0, <1>3 DEF Noisy, Surveys, Detaches, Dismisses, Looks, Picks, Stores, Puts, Erases, Commits
<1> QED
  BY <1>1, <1>2, <1>3 DEF Step

LEMMA DeletionComes ==
  ASSUME RequestInv, Step, NEW u \in Slots, Op(u) = "deleteAgent", Running(u)', ~At(u, "survey")'
  PROVE  req'[u] = req[u] \/ (Else(u) /\ (Surveys(u) \/ Detaches(u)))
<1>1. CASE Calm
  BY <1>1 DEF Calm, Eases
<1>2. ASSUME NEW s \in Slots, Noisy(s), s # u PROVE req'[u] = req[u]
  BY <1>2, NoisyIs
<1>3. CASE Noisy(u)
  <2>1. ~Copying(u) /\ ~At(u, "store") /\ ~At(u, "erase") /\ ~At(u, "look") /\ ~At(u, "check") /\ ~At(u, "commit")
    BY <1>3, NoisyIs
  <2> QED
    BY <1>3, <2>1 DEF Noisy, Dismisses, Looks, Checks, Picks, Stores, Puts, Erases, Commits
<1> QED
  BY <1>1, <1>2, <1>3 DEF Step

\* Runs become active by a commit, and agents go by a dismissal.
LEMMA RunComes ==
  ASSUME run \in [Slots -> Runs \cup {None}], Step, NEW r \in Slots, Active(r)'
  PROVE  \/ /\ Else(r) /\ Commits(r) /\ run'[r].chat = req[r].id /\ run'[r].agent = req[r].agent
         \/ Active(r) /\ run'[r].chat = run[r].chat /\ run'[r].agent = run[r].agent
<1>1. CASE RunsLess
  BY <1>1 DEF RunsLess
<1>2. CASE ~RunsLess
  <2>1. ~UNCHANGED run
    BY <1>2, SameIsLess
  <2>2. PICK s \in Slots : Else(s) /\ Commits(s)
    BY <1>2, <2>1 DEF Step, Calm, Noisy, Surveys, Detaches, Dismisses, Looks, Checks, Picks, Stores, Puts, Erases, SameTables
  <2>3. run' = [run EXCEPT ![s] = [agent |-> req[s].agent, chat |-> req[s].id, active |-> TRUE]]
    BY <2>2 DEF Commits
  <2>4. CASE r = s
    BY <2>2, <2>3, <2>4
  <2>5. CASE r # s
    <3>1. run'[r] = run[r]
      BY <2>3, <2>5
    <3> QED
      BY <3>1 DEF Active
  <2> QED
    BY <2>4, <2>5
<1> QED
  BY <1>1, <1>2

LEMMA AgentGoes ==
  ASSUME Step, NEW a \in agents, a \notin agents'
  PROVE  \E s \in Slots : Else(s) /\ Dismisses(s) /\ a = req[s].agent
  BY DEF Step, Calm, Noisy, Surveys, Detaches, Dismisses, Looks, Checks, Picks, Stores, Puts, Erases, Commits, SameTables

-----------------------------------------------------------------------------
(* The rows that refer to something refer to what is there.                 *)

Single(row) == row.kind = "direct" => \E a \in AgentIds : row.members = {a}
Sends(s) == Op(s) \in {"sendMessage", "requestAgentHelp"}
Serves(s) == Active(s) \/ (Copying(s) /\ Sends(s))

\* The members of a conversation are agents, and so are those a handler is to write.
MembersInv ==
    /\ MembersExist
    /\ \A s \in Slots : Copying(s) \/ At(s, "store") => req[s].row.members \subseteq agents

\* What a deletion of an agent surveyed is as it was.
SurveyInv ==
    \A s \in Slots : Deleting(s) =>
        /\ At(s, "detach") => req[s].todo = Surveyed(req[s].agent)
        /\ At(s, "dismiss") => Theirs(req[s].agent) = {}
        /\ ~At(s, "survey") => \A r \in Slots : Active(r) => run[r].agent # req[s].agent

\* Nothing refers to a conversation that its request has not stored yet.
IsUnborn(s) == ~Began(s) \/ (Running(s) /\ ~Copying(s))
UnbornInv ==
    \A s \in Slots : IsUnborn(s) =>
        chat[s] = None /\ \A t \in Slots : Copying(t) => req[t].id # s

\* All copies of a conversation that was not reshaped are the same, and it has one member
\* if it is direct.
CopiesAre(c, row) == \A s \in Slots : Copying(s) /\ req[s].id = c => req[s].row = row
Uniform(c) == \E row : Single(row) /\ chat[c] \in {None, row} /\ CopiesAre(c, row)
SameInv == \A c \in ChatIds : ~Reshaped(c) => Uniform(c)

\* A run is what its handler committed, and only a handler that crossed one that erases its
\* conversation can still be active when that is erased.
ActiveInv ==
    \A s \in Slots : Active(s) =>
        /\ Began(s) /\ Sends(s) /\ (Running(s) => At(s, "touch"))
        /\ run[s].chat = req[s].id /\ run[s].agent = req[s].agent
EraseInv ==
    \A s, r \in Slots : At(s, "erase") /\ Active(r) /\ ~Crossed(r, s) => run[r].chat # req[s].id
ServeInv ==
    \A s \in Slots : Serves(s) /\ ~Reshaped(req[s].id) /\ ~CrossAny(s, Erasers) =>
        chat[req[s].id] # None /\ req[s].agent \in chat[req[s].id].members

Intact == MembersInv /\ SurveyInv /\ UnbornInv /\ SameInv /\ ActiveInv /\ EraseInv /\ ServeInv
ReferenceInv == DeletedAlone => Intact

\* While an agent is deleted no other handler runs.
LEMMA Alone ==
  ASSUME RequestInv, DeletedAlone, NEW s \in Slots, Running(s), Op(s) = "deleteAgent", NEW t \in Slots, Running(t)
  PROVE  t = s
<1> SUFFICES ASSUME t # s PROVE FALSE
  OBVIOUS
<1>1. Began(s) /\ Began(t) /\ ~Ended(s) /\ ~Ended(t)
  BY DEF Running, Began, Ended
<1>2. <<s, t>> \notin before /\ <<t, s>> \notin before
  BY <1>1 DEF RequestInv
<1>3. Crossed(s, t) /\ s \in Of({"deleteAgent"})
  BY <1>1, <1>2 DEF Crossed, Of
<1> QED
  BY <1>3 DEF DeletedAlone

LEMMA BothCross ==
  ASSUME RequestInv, NEW s \in Slots, Running(s), NEW t \in Slots, Running(t), s # t
  PROVE  Crossed(s, t)
<1>1. Began(s) /\ Began(t) /\ ~Ended(s) /\ ~Ended(t)
  BY DEF Running, Began, Ended
<1> QED
  BY <1>1 DEF Crossed, RequestInv

LEMMA CopyHas ==
  ASSUME RequestInv, RowsHeld, NEW s \in Slots, Copying(s)
  PROVE  req[s].id \in ChatIds /\ req[s].row \in GoodChats
<1>1. Running(s) /\ Op(s) \in DOMAIN Ways /\ Head(req[s].left) \in StepsOf[Op(s)] /\ Holds(s)
  BY RunningIs DEF Copying, RowsHeld
<1>2. Op(s) \in {"updateConversation", "sendMessage", "sendCollaborationMessage", "requestAgentHelp"}
  BY <1>1 DEF Copying, CopySteps, Ways, StepsOf
<1>3. HoldsAt(s, Head(req[s].left), req[s].id, req[s].row, req[s].agent, req[s].task, req[s].todo, req[s].value)
  BY <1>1 DEF Holds
<1>4. Head(req[s].left) \notin {"meet", "look", "store", "ask", "newTask", "get", "address"}
  BY DEF Copying, CopySteps
<1>5. Op(s) = "updateConversation" => Head(req[s].left) = "save"
  BY <1>1, DeletionSteps DEF Copying, CopySteps
<1> QED
  BY <1>2, <1>3, <1>4, <1>5 DEF HoldsAt

LEMMA StoreHas ==
  ASSUME RequestInv, RowsHeld, NEW s \in Slots, At(s, "store")
  PROVE  /\ req[s].row \in GoodChats
         /\ Op(s) = "clearConversation" => req[s].agent \in AgentIds
<1>1. Running(s) /\ Op(s) \in DOMAIN Ways /\ "store" \in StepsOf[Op(s)] /\ Holds(s) /\ Head(req[s].left) = "store"
  BY RunningIs DEF At, RowsHeld
<1>2. Op(s) \in {"createConversation", "clearConversation", "sendCollaborationMessage", "requestAgentHelp"}
  BY <1>1, StepsAreOf
<1>3. HoldsAt(s, "store", req[s].id, req[s].row, req[s].agent, req[s].task, req[s].todo, req[s].value)
  BY <1>1 DEF Holds
<1> QED
  BY <1>2, <1>3 DEF HoldsAt

\* What a conversation becomes, and by what.
Rewrites(s, c) ==
    \/ Stores(s) /\ c = s /\ chat'[c] = req[s].row
    \/ Puts(s) /\ c = req[s].id /\ chat'[c] = req[s].row
    \/ Erases(s) /\ c = req[s].id /\ chat'[c] = None
    \/ Detaches(s) /\ c \in Theirs(req[s].agent) /\ chat'[c] = Detached(chat[c], req[s].agent)

LEMMA ChatChanges ==
  ASSUME RowsInv, SurveyInv, Step, NEW c \in ChatIds, chat'[c] # chat[c]
  PROVE  \E s \in Slots : Else(s) /\ Rewrites(s, c)
<1>0. RequestInv /\ DOMAIN chat = ChatIds
  BY DEF RowsInv, TablesTyped, ChatsTypeOK
<1>1. PICK s \in Slots : Else(s) /\ (Stores(s) \/ Puts(s) \/ Erases(s) \/ Detaches(s))
  BY DEF Step, Calm, Noisy, Surveys, Dismisses, Looks, Checks, Picks, Commits, SameTables
<1>2. ASSUME NEW x, NEW w, chat' = [chat EXCEPT ![x] = w] PROVE c = x /\ chat'[c] = w
  BY <1>0, <1>2
<1>3. CASE Stores(s)
  <2>1. c = s /\ chat'[c] = req[s].row
    BY <1>2, <1>3 DEF Stores
  <2> QED
    BY <1>1, <1>3, <2>1 DEF Rewrites
<1>4. CASE Puts(s)
  <2>1. c = req[s].id /\ chat'[c] = req[s].row
    BY <1>2, <1>4 DEF Puts
  <2> QED
    BY <1>1, <1>4, <2>1 DEF Rewrites
<1>5. CASE Erases(s)
  <2>1. c = req[s].id /\ chat'[c] = None
    BY <1>2, <1>5 DEF Erases
  <2> QED
    BY <1>1, <1>5, <2>1 DEF Rewrites
<1>6. CASE Detaches(s)
  <2>1. PICK item \in req[s].todo : chat' = [chat EXCEPT ![item[1]] = Detached(item[2], req[s].agent)]
    BY <1>6 DEF Detaches
  <2>2. c = item[1] /\ chat'[c] = Detached(item[2], req[s].agent)
    BY <1>2, <2>1
  <2>3. req[s].todo = Surveyed(req[s].agent)
    BY <1>1, <1>6 DEF SurveyInv, Deleting, Detaches, At
  <2>4. PICK d \in Theirs(req[s].agent) : item = <<d, chat[d]>>
    BY <2>1, <2>3 DEF Surveyed
  <2>5. d = c /\ item[2] = chat[c]
    BY <2>2, <2>4
  <2> QED
    BY <1>1, <1>6, <2>2, <2>4, <2>5 DEF Rewrites
<1> QED
  BY <1>1, <1>3, <1>4, <1>5, <1>6

\* The steps these invariants are about.
Stepping == RowsInv /\ RowsInv' /\ MakesInv /\ Intact /\ DeletedAlone /\ [Next]_vars

LEMMA SteppingIs ==
  ASSUME Stepping
  PROVE  /\ RowsInv /\ RowsInv' /\ RequestInv /\ RowsHeld /\ RowsHeld' /\ RequestInv' /\ Step /\ Intact
         /\ DOMAIN chat = ChatIds /\ DOMAIN chat' = ChatIds /\ run \in [Slots -> Runs \cup {None}]
         /\ \A c \in ChatIds : chat[c] # None => chat[c] \in GoodChats
         /\ \A s \in Slots : Op(s)' = Op(s) /\ (Began(s) => Began(s)')
         /\ \A s \in Slots : ~Running(s) /\ Began(s) => req'[s] = req[s]
<1>1. RowsInv /\ RowsInv' /\ RequestInv /\ RowsHeld /\ RowsHeld' /\ RequestInv' /\ TablesTyped /\ TablesTyped' /\ Intact
  BY DEF Stepping, RowsInv
<1>2. Step
  BY StepKinds DEF Stepping, Step
<1>3. /\ DOMAIN chat = ChatIds /\ DOMAIN chat' = ChatIds /\ run \in [Slots -> Runs \cup {None}]
      /\ chat \in [ChatIds -> GoodChats \cup {None}]
  BY <1>1, ChatsAre DEF TablesTyped, ChatsTypeOK
<1>4. /\ \A s \in Slots : Op(s)' = Op(s) /\ (Began(s) => Began(s)')
      /\ \A s \in Slots : ~Running(s) /\ Began(s) => req'[s] = req[s]
  BY StepGrows DEF Stepping
<1> QED
  BY <1>1, <1>2, <1>3, <1>4

LEMMA MembersStep ==
  ASSUME Stepping
  PROVE  MembersInv'
<1>0. /\ RowsInv /\ RequestInv /\ RowsHeld /\ Step /\ Intact /\ DOMAIN chat = ChatIds /\ DOMAIN chat' = ChatIds
      /\ MembersInv /\ SurveyInv
  BY SteppingIs DEF Intact
<1>1. ASSUME NEW c \in ChatIds, chat'[c] # None PROVE chat'[c].members \subseteq agents'
  <2>1. CASE chat'[c] = chat[c]
    <3>1. chat[c].members \subseteq agents /\ c \in Present(chat)
      BY <1>0, <1>1, <2>1 DEF MembersInv, MembersExist, Present
    <3>2. ASSUME NEW a \in chat[c].members, a \notin agents' PROVE FALSE
      <4>1. PICK s \in Slots : Else(s) /\ Dismisses(s) /\ a = req[s].agent
        BY <1>0, <3>1, <3>2, AgentGoes
      <4>2. Theirs(a) = {}
        BY <1>0, <4>1 DEF SurveyInv, Deleting, Dismisses, At
      <4> QED
        BY <3>1, <3>2, <4>2 DEF Theirs
    <3> QED
      BY <2>1, <3>2
  <2>2. CASE chat'[c] # chat[c]
    <3>1. PICK s \in Slots : Else(s) /\ Rewrites(s, c)
      BY <1>0, <2>2, ChatChanges
    <3>2. agents' = agents
      BY <3>1 DEF Rewrites, Stores, Puts, Erases, Detaches
    <3>3. CASE Stores(s) \/ Puts(s)
      <4>1. req[s].row.members \subseteq agents
        BY <1>0, <3>3 DEF MembersInv, Stores, Puts
      <4>2. chat'[c] = req[s].row
        BY <3>1, <3>3 DEF Rewrites, Stores, Puts, Erases, Detaches, At, Copying, CopySteps
      <4> QED
        BY <3>2, <4>1, <4>2
    <3>4. CASE c \in Theirs(req[s].agent) /\ chat'[c] = Detached(chat[c], req[s].agent)
      <4>1. chat[c].members \subseteq agents /\ chat[c] \in Chats
        BY <1>0, <3>4, SteppingIs DEF MembersInv, MembersExist, Theirs, Present, GoodChats
      <4>2. chat'[c].members \subseteq chat[c].members
        BY <1>1, <3>4, <4>1 DEF Detached, Without, Chats
      <4> QED
        BY <3>2, <4>1, <4>2
    <3> QED
      BY <1>1, <3>1, <3>3, <3>4 DEF Rewrites
  <2> QED
    BY <2>1, <2>2
<1>2. ASSUME NEW u \in Slots, Copying(u)' \/ At(u, "store")' PROVE req'[u].row.members \subseteq agents'
  <2>1. Running(u)'
    BY <1>2 DEF Copying, At
  <2>2. ASSUME req[u].row.members \subseteq agents, req'[u].row = req[u].row, Running(u) PROVE req'[u].row.members \subseteq agents'
    <3>1. ASSUME NEW a \in agents, a \notin agents' PROVE FALSE
      <4>1. PICK s \in Slots : Else(s) /\ Dismisses(s)
        BY <1>0, <3>1, AgentGoes
      <4>2. Running(s) /\ Op(s) = "deleteAgent" /\ ~Running(s)'
        BY <4>1 DEF Else, Dismisses
      <4>3. u = s
        BY <1>0, <2>2, <4>2, Alone DEF Stepping
      <4> QED
        BY <2>1, <4>2, <4>3
    <3> QED
      BY <2>2, <3>1
  <2>3. CASE Copying(u)
    <3>1. Keeps(u) /\ Running(u)
      BY <1>0, <2>3, CopyKept DEF Copying
    <3> QED
      BY <1>0, <2>2, <2>3, <3>1 DEF Keeps, MembersInv
  <2>4. CASE Copying(u)' /\ ~Copying(u)
    <3>1. CASE Picks(u) /\ Else(u)
      <4>1. req'[u].id \in Present(chat) /\ agents' = agents
        BY <2>1, <3>1 DEF Picks, SameTables
      <4>2. chat[req'[u].id].members \subseteq agents
        BY <1>0, <4>1 DEF MembersInv, MembersExist
      <4> QED
        BY <2>1, <3>1, <4>1, <4>2 DEF Picks
    <3>2. CASE Stores(u) /\ Else(u)
      <4>1. req[u].row.members \subseteq agents
        BY <1>0, <3>2 DEF MembersInv, Stores
      <4> QED
        BY <2>2, <3>2, <4>1 DEF Stores, Else
    <3> QED
      BY <1>0, <2>4, <3>1, <3>2, CopyComes
  <2>5. CASE At(u, "store")'
    <3>1. CASE req'[u] = req[u]
      <4>1. At(u, "store") /\ Running(u)
        BY <2>5, <3>1 DEF At, Running
      <4> QED
        BY <1>0, <2>2, <3>1, <4>1 DEF MembersInv
    <3>2. CASE Looks(u) /\ Else(u)
      BY <3>2, <2>2 DEF Looks, Keeps, Else
    <3> QED
      BY <1>0, <2>5, <3>1, <3>2, StoreComes
  <2> QED
    BY <1>2, <2>3, <2>4, <2>5
<1>3. MembersExist'
  BY <1>0, <1>1 DEF MembersExist, Present
<1> QED
  BY <1>2, <1>3 DEF MembersInv

LEMMA SurveyStep ==
  ASSUME Stepping
  PROVE  SurveyInv'
<1>0. /\ RowsInv /\ RequestInv /\ RowsHeld /\ Step /\ Intact /\ DOMAIN chat = ChatIds /\ DOMAIN chat' = ChatIds
      /\ SurveyInv
  BY SteppingIs DEF Intact
<1> SUFFICES ASSUME NEW u \in Slots, Deleting(u)'
             PROVE  (/\ At(u, "detach") => req[u].todo = Surveyed(req[u].agent)
                     /\ At(u, "dismiss") => Theirs(req[u].agent) = {}
                     /\ ~At(u, "survey") => \A r \in Slots : Active(r) => run[r].agent # req[u].agent)'
  BY DEF SurveyInv
<1>1. CASE At(u, "survey")'
  BY <1>1 DEF At
<1>2. CASE ~At(u, "survey")'
  <2>0. Running(u)' /\ Op(u)' = Op(u) /\ Op(u) = "deleteAgent"
    BY SteppingIs DEF Deleting
  <2>1. req'[u] = req[u] \/ (Else(u) /\ (Surveys(u) \/ Detaches(u)))
    BY <1>0, <1>2, <2>0, DeletionComes
  <2>2. Running(u)
    BY <2>0, <2>1 DEF Else, Running
  <2>3. req'[u].agent = req[u].agent
    BY <2>1 DEF Surveys, Detaches, Keeps
  <2>a. PICK a : a = req[u].agent
    OBVIOUS
  <2>b. Surveyed(req[u].agent)' = Surveyed(a)' /\ Theirs(req[u].agent)' = Theirs(a)'
    BY <2>3, <2>a DEF Surveyed, Theirs
  <2>4. ASSUME NEW s \in Slots, Else(s) PROVE s = u
    BY <1>0, <2>0, <2>2, <2>4, Alone DEF Else, Stepping
  <2>5. ASSUME NEW r \in Slots, Active(r)' PROVE run'[r].agent # req'[u].agent
    <3>1. Active(r) /\ run'[r].agent = run[r].agent
      <4>1. CASE Commits(r) /\ Else(r)
        <5>1. r = u /\ At(u, "commit")
          BY <2>4, <4>1 DEF Commits
        <5>2. "commit" \in StepsOf["deleteAgent"]
          BY <1>0, <2>0, <5>1, RunningIs DEF At
        <5> QED
          BY <5>2, DeletionSteps
      <4> QED
        BY <1>0, <2>5, <4>1, RunComes, SteppingIs
    <3>2. CASE Surveys(u)
      BY <2>3, <3>1, <3>2 DEF Surveys
    <3>3. CASE Detaches(u)
      <4>1. ~At(u, "survey") /\ Deleting(u)
        BY <2>0, <2>2, <3>3 DEF Detaches, At, Deleting
      <4> QED
        BY <1>0, <2>3, <3>1, <4>1 DEF SurveyInv
    <3>4. CASE req'[u] = req[u]
      <4>1. ~At(u, "survey") /\ Deleting(u)
        BY <1>2, <2>0, <2>2, <3>4 DEF At, Deleting, Running
      <4> QED
        BY <1>0, <2>3, <3>1, <4>1 DEF SurveyInv
    <3> QED
      BY <2>1, <3>2, <3>3, <3>4
  <2>6. CASE Surveys(u)
    <3>1. chat' = chat /\ req'[u].todo = Surveyed(req[u].agent) /\ (At(u, "dismiss")' => Surveyed(req[u].agent) = {})
      BY <2>6 DEF Surveys, SameTables
    <3>2. Surveyed(a)' = Surveyed(a) /\ Theirs(a)' = Theirs(a)
      BY <3>1 DEF Surveyed, Theirs, Present
    <3>3. Surveyed(a) = {} => Theirs(a) = {}
      BY DEF Surveyed
    <3> QED
      BY <2>5, <2>a, <2>b, <3>1, <3>2, <3>3
  <2>7. CASE Detaches(u)
    <3>1. At(u, "detach") /\ Deleting(u)
      BY <2>0, <2>2, <2>7 DEF Detaches, Deleting
    <3>2. req[u].todo = Surveyed(a)
      BY <1>0, <2>a, <3>1 DEF SurveyInv
    <3>3. PICK item \in req[u].todo :
             /\ chat' = [chat EXCEPT ![item[1]] = Detached(item[2], a)]
             /\ req'[u].todo = req[u].todo \ {item}
             /\ IF req'[u].todo = {} THEN Running(u)' => At(u, "dismiss")' ELSE At(u, "detach")'
      BY <2>7, <2>a DEF Detaches
    <3>4. PICK c \in Theirs(a) : item = <<c, chat[c]>>
      BY <3>2, <3>3 DEF Surveyed
    <3>5. chat' = [chat EXCEPT ![c] = Detached(chat[c], a)] /\ item[1] = c
      BY <3>3, <3>4
    <3>6. c \in ChatIds /\ chat[c] # None /\ chat[c] \in Chats
      BY <1>0, <3>4, SteppingIs DEF Theirs, Present, GoodChats
    <3>7. Detached(chat[c], a) = None \/ a \notin Detached(chat[c], a).members
      BY <3>6 DEF Detached, Without, Chats
    <3>8. Theirs(a)' = Theirs(a) \ {c} /\ \A d \in Theirs(a)' : chat'[d] = chat[d]
      BY <1>0, <3>5, <3>6, <3>7 DEF Theirs, Present
    <3>9. Surveyed(a)' = Surveyed(a) \ {item}
      <4>1. ASSUME NEW d \in Theirs(a)' PROVE <<d, chat'[d]>> \in Surveyed(a) \ {item}
        BY <3>4, <3>8, <4>1 DEF Surveyed
      <4>2. ASSUME NEW d \in Theirs(a), <<d, chat[d]>> # item PROVE d \in Theirs(a)' /\ <<d, chat[d]>> = <<d, chat'[d]>>
        BY <3>4, <3>8, <4>2
      <4> QED
        BY <4>1, <4>2 DEF Surveyed
    <3>10. Surveyed(a)' = {} => Theirs(a)' = {}
      BY DEF Surveyed
    <3>11. At(u, "detach")' => req'[u].todo = Surveyed(a)'
      BY <3>2, <3>3, <3>9
    <3>12. At(u, "dismiss")' => Theirs(a)' = {}
      <4>1. At(u, "dismiss")' => ~At(u, "detach")'
        BY DEF At
      <4> QED
        BY <3>2, <3>3, <3>9, <3>10, <4>1
    <3> QED
      BY <2>5, <2>b, <3>11, <3>12
  <2>8. CASE req'[u] = req[u] /\ ~Surveys(u) /\ ~Detaches(u)
    <3>1. Deleting(u) /\ (At(u, "detach")' => At(u, "detach")) /\ (At(u, "dismiss")' => At(u, "dismiss"))
      BY <2>0, <2>2, <2>8 DEF At, Deleting, Running
    <3>2. ASSUME NEW c \in ChatIds PROVE chat'[c] = chat[c]
      <4>1. ASSUME chat'[c] # chat[c] PROVE FALSE
        <5>1. PICK s \in Slots : Else(s) /\ Rewrites(s, c)
          BY <1>0, <4>1, ChatChanges
        <5>2. s = u
          BY <2>4, <5>1
        <5>3. Copying(u) \/ At(u, "store") \/ At(u, "erase")
          BY <2>8, <5>1, <5>2 DEF Rewrites, Stores, Puts, Erases
        <5>4. Head(req[u].left) \in {"survey", "dismiss", "detach"}
          BY <1>0, <2>0, <2>2, RunningIs, DeletionSteps
        <5> QED
          BY <5>3, <5>4 DEF Copying, CopySteps, At
      <4> QED
        BY <4>1
    <3>3. Theirs(a)' = Theirs(a)
      BY <1>0, <3>2 DEF Theirs, Present
    <3>4. Surveyed(a)' = Surveyed(a)
      <4>1. \A c \in Theirs(a) : <<c, chat'[c]>> = <<c, chat[c]>>
        BY <1>0, <3>2 DEF Theirs, Present
      <4> QED
        BY <3>3, <4>1 DEF Surveyed
    <3>5. /\ At(u, "detach") => req[u].todo = Surveyed(a)
          /\ At(u, "dismiss") => Theirs(a) = {}
      BY <1>0, <2>a, <3>1 DEF SurveyInv
    <3> QED
      BY <2>5, <2>8, <2>b, <3>1, <3>3, <3>4, <3>5
  <2> QED
    BY <2>1, <2>6, <2>7, <2>8
<1> QED
  BY <1>1, <1>2

LEMMA UnbornStep ==
  ASSUME Stepping
  PROVE  UnbornInv'
<1>0. /\ RowsInv /\ RequestInv /\ RowsHeld /\ Step /\ DOMAIN chat = ChatIds /\ DOMAIN chat' = ChatIds
      /\ UnbornInv /\ SurveyInv /\ \A s \in Slots : (Began(s) => Began(s)') /\ (~Running(s) /\ Began(s) => req'[s] = req[s])
  BY SteppingIs DEF Intact
<1> SUFFICES ASSUME NEW s \in Slots, IsUnborn(s)'
             PROVE  (chat[s] = None /\ \A t \in Slots : Copying(t) => req[t].id # s)'
  BY DEF UnbornInv
<1>1. IsUnborn(s)
  <2>1. CASE Copying(s)
    <3>1. Running(s)' => Copying(s)'
      BY <1>0, <2>1, CopyKept
    <3>2. Began(s)'
      BY <1>0, <2>1 DEF Copying, Running, Began
    <3> QED
      BY <3>1, <3>2 DEF IsUnborn
  <2>2. CASE ~Running(s) /\ Began(s)
    <3>1. req'[s] = req[s]
      BY <1>0, <2>2
    <3> QED
      BY <2>2, <3>1 DEF IsUnborn, Running, Began
  <2> QED
    BY <2>1, <2>2 DEF IsUnborn
<1>2. chat[s] = None /\ \A t \in Slots : Copying(t) => req[t].id # s
  BY <1>0, <1>1 DEF UnbornInv
<1>3. s \in ChatIds
  BY DEF ChatIds
<1>4. ~(Else(s) /\ Stores(s))
  <2>1. ASSUME Else(s), Stores(s) PROVE Began(s)' /\ (Running(s)' => Copying(s)')
    BY <2>1 DEF Else, Stores
  <2> QED
    BY <2>1 DEF IsUnborn
<1>5. chat'[s] = None
  <2>1. ASSUME chat'[s] # None PROVE FALSE
    <3>1. PICK t \in Slots : Else(t) /\ Rewrites(t, s)
      BY <1>0, <1>2, <1>3, <2>1, ChatChanges
    <3>2. s \notin Theirs(req[t].agent)
      BY <1>2 DEF Theirs, Present
    <3> QED
      BY <1>2, <1>4, <2>1, <3>1, <3>2 DEF Rewrites, Puts
  <2> QED
    BY <2>1
<1>6. ASSUME NEW t \in Slots, Copying(t)' PROVE req'[t].id # s
  <2>1. CASE Copying(t)
    BY <1>0, <1>2, <2>1, CopyKept DEF Keeps
  <2>2. CASE ~Copying(t)
    <3>1. Else(t) /\ (Picks(t) \/ Stores(t)) /\ Running(t)'
      BY <1>0, <1>6, <2>2, CopyComes DEF Copying
    <3> QED
      BY <1>2, <1>4, <3>1 DEF Picks, Present, Stores
  <2> QED
    BY <2>1, <2>2
<1> QED
  BY <1>5, <1>6

LEMMA ActiveStep ==
  ASSUME Stepping
  PROVE  ActiveInv'
<1>0. /\ RowsInv /\ RequestInv /\ RowsHeld /\ Step /\ ActiveInv /\ run \in [Slots -> Runs \cup {None}]
      /\ \A s \in Slots : Op(s)' = Op(s) /\ (Began(s) => Began(s)') /\ (~Running(s) /\ Began(s) => req'[s] = req[s])
  BY SteppingIs DEF Intact
<1> SUFFICES ASSUME NEW s \in Slots, Active(s)'
             PROVE  (/\ Began(s) /\ Sends(s) /\ (Running(s) => At(s, "touch"))
                     /\ run[s].chat = req[s].id /\ run[s].agent = req[s].agent)'
  BY DEF ActiveInv
<1>1. CASE Else(s) /\ Commits(s) /\ run'[s].chat = req[s].id /\ run'[s].agent = req[s].agent
  <2>1. At(s, "commit") /\ Keeps(s) /\ (Running(s)' => At(s, "touch")') /\ Began(s)'
    BY <1>1 DEF Commits, Else
  <2>2. Op(s) \in DOMAIN Ways /\ "commit" \in StepsOf[Op(s)]
    BY <1>0, <2>1, RunningIs DEF At
  <2>3. Sends(s)
    BY <2>2 DEF Ways, StepsOf, Sends
  <2> QED
    BY <1>0, <1>1, <2>1, <2>3 DEF Sends, Keeps
<1>2. CASE Active(s) /\ run'[s].chat = run[s].chat /\ run'[s].agent = run[s].agent
  <2>1. /\ Began(s) /\ Sends(s) /\ (Running(s) => At(s, "touch"))
        /\ run[s].chat = req[s].id /\ run[s].agent = req[s].agent
    BY <1>0, <1>2 DEF ActiveInv
  <2>2. Keeps(s) /\ (Running(s)' => At(s, "touch")')
    <3>1. CASE Running(s)
      <4>1. Copying(s) /\ At(s, "touch")
        BY <2>1, <3>1 DEF Copying, CopySteps, At
      <4>2. Keeps(s) /\ (Running(s)' => req'[s] = req[s])
        BY <1>0, <4>1, CopyKept
      <4> QED
        BY <4>1, <4>2 DEF At, Running
    <3>2. CASE ~Running(s)
      <4>1. req'[s] = req[s]
        BY <1>0, <2>1, <3>2
      <4> QED
        BY <3>2, <4>1 DEF Keeps, Running
    <3> QED
      BY <3>1, <3>2
  <2> QED
    BY <1>0, <1>2, <2>1, <2>2 DEF Sends, Keeps
<1> QED
  BY <1>0, <1>1, <1>2, RunComes

LEMMA EraseStep ==
  ASSUME Stepping
  PROVE  EraseInv'
<1>0. /\ RowsInv /\ RequestInv /\ RequestInv' /\ RowsHeld /\ Step /\ EraseInv /\ run \in [Slots -> Runs \cup {None}]
      /\ \A s, t \in Slots : Crossed(s, t) => Crossed(s, t)'
  BY SteppingIs, StepGrows DEF Intact, Stepping
<1> SUFFICES ASSUME NEW s \in Slots, NEW r \in Slots, At(s, "erase")', Active(r)', ~Crossed(r, s)'
             PROVE  run'[r].chat # req'[s].id
  BY DEF EraseInv
<1>1. ~Crossed(r, s)
  BY <1>0
<1>2. CASE Else(r) /\ Commits(r)
  <2>1. Running(r) /\ ~At(r, "erase") /\ (Running(r)' => At(r, "touch")') /\ \A u \in Slots : u # r => req'[u] = req[u]
    BY <1>2 DEF Else, Commits, At
  <2>2. s # r
    BY <2>1 DEF At
  <2>3. Running(s)
    BY <2>1, <2>2 DEF At, Running
  <2> QED
    BY <1>0, <1>1, <2>1, <2>2, <2>3, BothCross
<1>3. CASE Active(r) /\ run'[r].chat = run[r].chat
  <2>1. CASE req'[s] = req[s]
    <3>1. At(s, "erase")
      BY <2>1 DEF At, Running
    <3> QED
      BY <1>0, <1>1, <1>3, <2>1, <3>1 DEF EraseInv
  <2>2. CASE Checks(s)
    BY <1>3, <2>2 DEF Checks, ActiveIn, Keeps
  <2> QED
    BY <1>0, <2>1, <2>2, EraseComes
<1> QED
  BY <1>0, <1>2, <1>3, RunComes

\* What a handler stores is direct only if it has one member, or was asked for otherwise.
LEMMA StoresSingle ==
  ASSUME RequestInv, RowsHeld, MakesInv, NEW s \in Slots, At(s, "store"), ~Reshaped(s)
  PROVE  Single(req[s].row)
<1>1. /\ Running(s) /\ Began(s) /\ Op(s) \in DOMAIN Ways /\ "store" \in StepsOf[Op(s)] /\ Head(req[s].left) = "store"
      /\ Makes(s)
  BY RunningIs DEF At, MakesInv
<1>2. Op(s) \in {"createConversation", "clearConversation", "sendCollaborationMessage", "requestAgentHelp"}
  BY <1>1, StepsAreOf
<1>3. MakesAt(s, "store", req[s].id, req[s].row, req[s].agent)
  BY <1>1 DEF Makes
<1>4. CASE Op(s) \in {"sendCollaborationMessage", "requestAgentHelp"}
  BY <1>3, <1>4 DEF MakesAt, Single, CopySteps
<1>5. CASE Op(s) = "clearConversation"
  BY <1>3, <1>5, StoreHas DEF MakesAt, Single, Direct
<1>6. CASE Op(s) = "createConversation"
  <2>1. SUFFICES ASSUME req[s].row.kind = "direct" PROVE \E a \in AgentIds : req[s].row.members = {a}
    BY DEF Single
  <2>2. req[s].row \in GoodChats
    BY StoreHas
  <2>3. req[s].row = [kind |-> asked[s].kind, members |-> asked[s].members, task |-> asked[s].task]
    BY <1>3, <1>6 DEF MakesAt
  <2>4. asked[s].kind = "direct" /\ asked[s].members = req[s].row.members
    BY <2>1, <2>3
  <2>5. ~(Cardinality(req[s].row.members) > 1)
    BY <1>1, <1>6, <2>4 DEF Reshaped, Of
  <2>6. Cardinality(req[s].row.members) \in Nat /\ Cardinality(req[s].row.members) >= 1 /\ req[s].row.members \subseteq AgentIds
    BY <2>2, WorkspaceAssumption DEF GoodChats, Chats
  <2>7. Cardinality(req[s].row.members) = 1
    BY <2>5, <2>6
  <2>8. IsFiniteSet(req[s].row.members)
    BY <2>2, FiniteMembers DEF GoodChats, Chats
  <2>9. \E a : req[s].row.members = {a}
    BY <2>7, <2>8, FS_Singleton
  <2> QED
    BY <2>6, <2>9
<1> QED
  BY <1>2, <1>4, <1>5, <1>6

LEMMA SameStep ==
  ASSUME Stepping
  PROVE  SameInv'
<1>0. /\ RowsInv /\ RequestInv /\ RowsHeld /\ Step /\ DOMAIN chat = ChatIds /\ DOMAIN chat' = ChatIds
      /\ SameInv /\ UnbornInv /\ SurveyInv /\ MakesInv /\ [Next]_vars /\ asked' = asked
      /\ \A s \in Slots : Op(s)' = Op(s) /\ (Began(s) => Began(s)')
      /\ \A c \in ChatIds : chat[c] # None => chat[c] \in GoodChats
  BY SteppingIs, StepGrows DEF Intact, Stepping
<1> SUFFICES ASSUME NEW c \in ChatIds, ~Reshaped(c)' PROVE Uniform(c)'
  BY DEF SameInv
<1>1. ~Reshaped(c)
  BY <1>0, ReshapedStays
<1>2. PICK row : Single(row) /\ chat[c] \in {None, row} /\ CopiesAre(c, row)
  BY <1>0, <1>1 DEF SameInv, Uniform
\* Who comes to have a copy has this one.
<1>3. ASSUME NEW u \in Slots, Copying(u)', ~Copying(u), req'[u].id = c
      PROVE  (Stores(u) /\ u = c /\ Else(u)) \/ (chat[c] # None /\ req'[u].row = chat[c] /\ Picks(u) /\ Else(u))
  <2>1. Else(u) /\ (Picks(u) \/ Stores(u)) /\ Running(u)' /\ Began(u)'
    BY <1>0, <1>3, CopyComes DEF Copying, Else
  <2>2. CASE Stores(u)
    BY <1>3, <2>1, <2>2 DEF Stores
  <2>3. CASE Picks(u)
    <3>1. Op(u) # "sendCollaborationMessage"
      BY <1>0, <1>3, <2>1 DEF Reshaped, Of
    <3>2. ~(Op(u) = "updateConversation" /\ asked[u].chat = c)
      BY <1>0, <2>1 DEF Reshaped, Of
    <3> QED
      BY <1>3, <2>1, <2>3, <3>1, <3>2 DEF Picks, Present
  <2> QED
    BY <2>1, <2>2, <2>3
<1>4. CASE \E s \in Slots : Else(s) /\ Stores(s) /\ s = c
  <2>1. Else(c) /\ Stores(c) /\ c \in Slots /\ At(c, "store")
    BY <1>4 DEF Stores
  <2>2. IsUnborn(c)
    BY <2>1 DEF IsUnborn, Else, At, Copying, CopySteps
  <2>3. \A t \in Slots : Copying(t) => req[t].id # c
    BY <1>0, <2>1, <2>2 DEF UnbornInv
  <2>4. chat'[c] = req[c].row
    BY <1>0, <2>1 DEF Stores
  <2>5. Single(req[c].row)
    BY <1>0, <1>1, <2>1, StoresSingle
  <2>6. ASSUME NEW u \in Slots, Copying(u)', req'[u].id = c PROVE req'[u].row = req[c].row
    <3>1. ~Copying(u)
      BY <1>0, <2>3, <2>6, CopyKept DEF Keeps
    <3>2. u = c
      BY <2>1, <2>6, <3>1 DEF Else, Copying, Running
    <3> QED
      BY <2>1, <3>2 DEF Stores
  <2>7. CopiesAre(c, req[c].row)'
    <3>1. req'[c].row = req[c].row
      BY <2>1 DEF Stores
    <3> QED
      BY <2>6, <3>1 DEF CopiesAre
  <2>8. Single(req[c].row)' /\ chat'[c] = req'[c].row
    BY <2>1, <2>4, <2>5 DEF Single, Stores
  <2> QED
    BY <2>7, <2>8 DEF Uniform
<1>5. CASE \E s \in Slots : Else(s) /\ Detaches(s) /\ c \in Theirs(req[s].agent)
                               /\ chat'[c] = Detached(chat[c], req[s].agent)
  <2>1. PICK s \in Slots : /\ Else(s) /\ Detaches(s) /\ c \in Theirs(req[s].agent)
                           /\ chat'[c] = Detached(chat[c], req[s].agent)
    BY <1>5
  <2>2. ASSUME NEW u \in Slots, Copying(u)' PROVE FALSE
    <3>1. u # s => Copying(u)
      BY <2>1, <2>2 DEF Else, Copying, Running
    <3>2. u # s => u = s
      BY <1>0, <2>1, <3>1, Alone DEF Else, Detaches, Copying, Stepping
    <3>3. At(s, "dismiss")' \/ At(s, "detach")' \/ ~Running(s)'
      BY <2>1 DEF Detaches
    <3> QED
      BY <2>2, <3>2, <3>3 DEF Copying, CopySteps, At
  <2> DEFINE new == IF chat'[c] = None THEN [kind |-> "group"] ELSE chat'[c]
  <2>3. Single(new)
    <3>1. CASE chat'[c] = None
      BY <3>1 DEF Single
    <3>2. CASE chat'[c] # None
      <4>1. chat[c] \in Chats
        BY <1>0, <2>1 DEF Theirs, Present, GoodChats
      <4>2. chat'[c].kind # "direct"
        BY <2>1, <3>2, <4>1 DEF Detached, Without, Chats
      <4> QED
        BY <3>2, <4>2 DEF Single
    <3> QED
      BY <3>1, <3>2
  <2>4. PICK w : w = new
    OBVIOUS
  <2>5. Single(w)' /\ chat'[c] \in {None, w} /\ CopiesAre(c, w)'
    BY <2>2, <2>3, <2>4 DEF Single, CopiesAre
  <2> QED
    BY <2>5 DEF Uniform
<1>6. CASE /\ ~\E s \in Slots : Else(s) /\ Stores(s) /\ s = c
           /\ ~\E s \in Slots : /\ Else(s) /\ Detaches(s) /\ c \in Theirs(req[s].agent)
                                /\ chat'[c] = Detached(chat[c], req[s].agent)
  <2>1. chat'[c] \in {None, row}
    <3>1. CASE chat'[c] = chat[c]
      BY <1>2, <3>1
    <3>2. CASE chat'[c] # chat[c]
      <4>1. PICK s \in Slots : Else(s) /\ Rewrites(s, c)
        BY <1>0, <3>2, ChatChanges
      <4>2. (Puts(s) /\ c = req[s].id /\ chat'[c] = req[s].row) \/ chat'[c] = None
        BY <1>6, <4>1 DEF Rewrites
      <4> QED
        BY <1>2, <4>2 DEF CopiesAre, Puts
    <3> QED
      BY <3>1, <3>2
  <2>2. ASSUME NEW u \in Slots, Copying(u)', req'[u].id = c PROVE req'[u].row = row
    <3>1. CASE Copying(u)
      <4>1. Keeps(u)
        BY <1>0, <3>1, CopyKept
      <4> QED
        BY <1>2, <2>2, <3>1, <4>1 DEF Keeps, CopiesAre
    <3>2. CASE ~Copying(u)
      BY <1>2, <1>3, <1>6, <2>2, <3>2
    <3> QED
      BY <3>1, <3>2
  <2>3. Single(row)' /\ CopiesAre(c, row)'
    BY <1>2, <2>2 DEF Single, CopiesAre
  <2> QED
    BY <2>1, <2>3 DEF Uniform
<1> QED
  BY <1>4, <1>5, <1>6

LEMMA ServeStep ==
  ASSUME Stepping
  PROVE  ServeInv'
<1>0. /\ RowsInv /\ RowsInv' /\ RequestInv /\ RowsHeld /\ Step /\ DOMAIN chat = ChatIds /\ DOMAIN chat' = ChatIds
      /\ SameInv /\ UnbornInv /\ SurveyInv /\ ServeInv /\ ActiveInv /\ EraseInv /\ ActiveInv'
      /\ MakesInv /\ [Next]_vars /\ run \in [Slots -> Runs \cup {None}] /\ RequestInv' /\ RowsHeld'
  BY SteppingIs, ActiveStep DEF Intact, Stepping
<1>00. /\ \A s \in Slots : Op(s)' = Op(s) /\ (Began(s) => Began(s)')
       /\ \A s \in Slots : ~Running(s) /\ Began(s) => req'[s] = req[s]
       /\ \A c \in ChatIds : chat[c] # None => chat[c] \in GoodChats
       /\ \A s \in Slots : CrossAny(s, Erasers) => CrossAny(s, Erasers)'
  BY <1>0, SteppingIs, ExcusesStay
<1> SUFFICES ASSUME NEW u \in Slots, Serves(u)', ~Reshaped(req[u].id)', ~CrossAny(u, Erasers)'
             PROVE  chat'[req'[u].id] # None /\ req'[u].agent \in chat'[req'[u].id].members
  BY DEF ServeInv
<1>1. PICK c : c = req'[u].id
  OBVIOUS
<1>2. c \in ChatIds
  <2>1. CASE Active(u)'
    <3>1. run'[u] \in Runs
      BY <1>0, <2>1 DEF RowsInv, TablesTyped, ChatsTypeOK, Active
    <3> QED
      BY <1>0, <1>1, <2>1, <3>1 DEF ActiveInv, Runs
  <2>2. CASE Copying(u)'
    <3>1. CASE Copying(u)
      BY <1>0, <1>1, <3>1, CopyHas, CopyKept DEF Keeps
    <3>2. CASE ~Copying(u)
      <4>1. (Picks(u) \/ Stores(u)) /\ Running(u)'
        BY <1>0, <2>2, <3>2, CopyComes DEF Copying
      <4> QED
        BY <1>0, <1>1, <4>1 DEF Picks, Stores, Present, ChatIds
    <3> QED
      BY <3>1, <3>2
  <2> QED
    BY <2>1, <2>2 DEF Serves
<1>3. ~Reshaped(c)' /\ ~Reshaped(c)
  <2>1. ~Reshaped(c)'
    BY <1>1 DEF Reshaped, Of
  <2> QED
    BY <1>0, <1>2, <2>1, ReshapedStays
<1>4. PICK row : Single(row) /\ chat[c] \in {None, row} /\ CopiesAre(c, row)
  BY <1>0, <1>2, <1>3 DEF SameInv, Uniform
<1>5. ~CrossAny(u, Erasers)
  BY <1>00
\* One that served its conversation keeps it.
<1>6. CASE Serves(u)
  <2>1. Keeps(u)
    <3>1. Copying(u) => Keeps(u)
      BY <1>0, CopyKept
    <3>2. Active(u) /\ ~Copying(u) => ~Running(u) /\ Began(u)
      BY <1>0 DEF ActiveInv, Copying, CopySteps, At
    <3>3. ~Running(u) /\ Began(u) => req'[u] = req[u]
      BY <1>00
    <3> QED
      BY <1>6, <3>1, <3>2, <3>3 DEF Serves, Keeps
  <2>2. req[u].id = c /\ req'[u].agent = req[u].agent
    BY <1>1, <2>1 DEF Keeps
  <2>3. ~Reshaped(req[u].id)
    BY <1>3, <2>2
  <2>4. chat[c] # None /\ req[u].agent \in chat[c].members
    BY <1>0, <1>5, <1>6, <2>2, <2>3 DEF ServeInv
  <2>5. chat'[c] # None /\ req[u].agent \in chat'[c].members
    <3>1. CASE chat'[c] = chat[c]
      BY <2>4, <3>1
    <3>2. CASE chat'[c] # chat[c]
      <4>1. PICK s \in Slots : Else(s) /\ Rewrites(s, c)
        BY <1>0, <1>2, <3>2, ChatChanges
      <4>2. ~(Stores(s) /\ c = s)
        <5>1. Stores(s) => IsUnborn(s)
          BY <4>1 DEF Stores, IsUnborn, Copying, CopySteps, At
        <5> QED
          BY <1>0, <2>4, <5>1 DEF UnbornInv
      <4>3. ~(Puts(s) /\ c = req[s].id /\ chat'[c] = req[s].row)
        BY <1>4, <2>4, <3>2 DEF Puts, CopiesAre
      <4>4. ~(Erases(s) /\ c = req[s].id)
        <5>1. ASSUME Erases(s), c = req[s].id PROVE FALSE
          <6>1. Running(s) /\ Began(s) /\ At(s, "erase") /\ Op(s) \in Erasers
            BY <4>1, <5>1 DEF Erases, Else
          <6>2. u # s
            <7>1. Sends(u)
              BY <1>0, <1>6 DEF Serves, ActiveInv
            <7> QED
              BY <6>1, <7>1 DEF Sends, Erasers
          <6>3. Crossed(u, s)
            <7>1. CASE Running(u)
              BY <1>0, <6>1, <6>2, <7>1, BothCross
            <7>2. CASE ~Running(u)
              <8>1. Active(u)
                BY <1>6, <7>2 DEF Serves, Copying
              <8>2. run[u].chat = c
                BY <1>0, <2>2, <8>1 DEF ActiveInv
              <8> QED
                BY <1>0, <5>1, <6>1, <8>1, <8>2 DEF EraseInv
            <7> QED
              BY <7>1, <7>2
          <6>4. CrossAny(u, Erasers)
            BY <6>1, <6>3 DEF CrossAny, Of
          <6> QED
            BY <1>5, <6>4
        <5> QED
          BY <5>1
      <4>5. CASE Detaches(s) /\ c \in Theirs(req[s].agent) /\ chat'[c] = Detached(chat[c], req[s].agent)
        <5>1. At(s, "detach") /\ Running(s) /\ Op(s) = "deleteAgent" /\ ~At(s, "survey") /\ Deleting(s)
          BY <4>1, <4>5 DEF Detaches, Else, At, Deleting
        <5>2. Op(u) # "deleteAgent" /\ u # s
          BY <1>0, <1>6, <5>1 DEF Serves, Sends, ActiveInv
        <5>3. ~Running(u)
          BY <1>0, <5>1, <5>2, Alone DEF Stepping
        <5>4. Active(u)
          BY <1>6, <5>3 DEF Serves, Copying
        <5>5. req[u].agent # req[s].agent
          BY <1>0, <5>1, <5>4 DEF SurveyInv, ActiveInv
        <5>6. chat[c].members # {req[s].agent}
          BY <2>4, <5>5
        <5>7. chat[c].kind # "direct"
          <6>1. chat[c] = row
            BY <1>4, <2>4
          <6>2. ASSUME chat[c].kind = "direct" PROVE FALSE
            <7>1. PICK a \in AgentIds : chat[c].members = {a}
              BY <1>4, <6>1, <6>2 DEF Single
            <7>2. req[s].agent \in chat[c].members
              BY <4>5 DEF Theirs
            <7> QED
              BY <2>4, <5>5, <7>1, <7>2
          <6> QED
            BY <6>2
        <5>8. chat[c] \in Chats
          BY <1>00, <1>2, <2>4 DEF GoodChats
        <5>9. chat'[c] = [chat[c] EXCEPT !.members = @ \ {req[s].agent}]
          BY <4>5, <5>6, <5>7 DEF Detached, Without
        <5>10. chat'[c].members = chat[c].members \ {req[s].agent}
          BY <5>8, <5>9 DEF Chats
        <5>11. chat'[c] \in [kind : {"direct", "group", "task"}, members : SUBSET AgentIds, task : TaskIds \cup {None}]
          BY <5>8, <5>9 DEF Chats
        <5>12. chat'[c] # None
          BY <5>11, WorkspaceAssumption DEF Chats
        <5> QED
          BY <2>4, <5>5, <5>10, <5>12
      <4> QED
        BY <4>1, <4>2, <4>3, <4>4, <4>5 DEF Rewrites
    <3> QED
      BY <3>1, <3>2
  <2> QED
    BY <1>1, <2>2, <2>5
\* One that comes to serve it finds it, or has just stored it.
<1>7. CASE ~Serves(u)
  <2>1. ~(Active(u)' /\ Else(u) /\ Commits(u))
    <3>1. ASSUME Active(u)', Commits(u) PROVE Serves(u)
      <4>1. Copying(u)
        BY <3>1 DEF Commits, Copying, CopySteps, At
      <4>2. Sends(u)
        BY <1>0, <1>00, <3>1 DEF ActiveInv, Sends
      <4> QED
        BY <4>1, <4>2 DEF Serves
    <3> QED
      BY <1>7, <3>1
  <2>2. ~Active(u)'
    BY <1>0, <1>7, <2>1, RunComes DEF Serves
  <2>3. Copying(u)' /\ Sends(u)
    BY <1>00, <2>2 DEF Serves, Sends
  <2>4. ~Copying(u) /\ Running(u)'
    BY <1>7, <2>3 DEF Serves, Copying
  <2>5. Else(u) /\ (Picks(u) \/ Stores(u))
    BY <1>0, <2>3, <2>4, CopyComes
  <2>6. CASE Picks(u)
    BY <1>1, <2>3, <2>4, <2>6 DEF Picks, Sends, Present, SameTables
  <2>7. CASE Stores(u)
    <3>1. At(u, "store") /\ Head(req[u].left) = "store" /\ Running(u) /\ Makes(u)
      BY <1>0, <2>7 DEF Stores, At, MakesInv
    <3>2. Op(u) \in DOMAIN Ways /\ "store" \in StepsOf[Op(u)]
      BY <1>0, <3>1, RunningIs
    <3>3. Op(u) = "requestAgentHelp"
      BY <2>3, <3>2, DeletionSteps DEF Sends
    <3>4. req[u].agent \in req[u].row.members
      BY <3>1, <3>3 DEF Makes, MakesAt, CopySteps
    <3>5. chat'[u] = req[u].row /\ req'[u].id = u /\ req'[u].agent = req[u].agent
      BY <1>0, <2>7 DEF Stores, ChatIds
    <3>6. req[u].row # None
      BY <1>0, <3>1, StoreHas, WorkspaceAssumption DEF GoodChats
    <3> QED
      BY <3>4, <3>5, <3>6
  <2> QED
    BY <2>5, <2>6, <2>7
<1> QED
  BY <1>6, <1>7

LEMMA StepReferenceInv ==
  ASSUME RowsInv, RowsInv', MakesInv, ReferenceInv, [Next]_vars
  PROVE  ReferenceInv'
<1> SUFFICES ASSUME DeletedAlone' PROVE Intact'
  BY DEF ReferenceInv
<1>1. DeletedAlone
  BY ExcusesStay
<1>2. Stepping
  BY <1>1 DEF ReferenceInv, Stepping
<1> QED
  BY <1>2, MembersStep, SurveyStep, UnbornStep, SameStep, ActiveStep, EraseStep, ServeStep DEF Intact

LEMMA InitReferenceInv ==
  Init => MakesInv /\ ReferenceInv
<1> SUFFICES ASSUME Init PROVE MakesInv /\ Intact
  BY DEF ReferenceInv
<1>1. RequestsInit /\ ChatsInit
  BY DEF Init
<1>2. \A s \in Slots : ~Running(s) /\ ~Began(s) /\ ~Copying(s) /\ ~Deleting(s) /\ \A h : ~At(s, h)
  BY <1>1 DEF RequestsInit, Fresh, Running, Began, Copying, Deleting, At
<1>3. \A s \in Slots : ~Active(s) /\ ~Serves(s)
  BY <1>1, <1>2 DEF ChatsInit, Active, Serves
<1>4. /\ agents = Agents /\ DOMAIN chat = ChatIds
      /\ \A c \in ChatIds : chat[c] = IF c \in Agents THEN Direct(c)
                                      ELSE IF c = Group THEN [kind |-> "group", members |-> Agents, task |-> None]
                                      ELSE None
  BY <1>1 DEF ChatsInit
<1>5. MembersExist
  BY <1>4 DEF MembersExist, Present, Direct
<1>6. \A s \in Slots : chat[s] = None
  BY <1>4, WorkspaceAssumption DEF ChatIds
<1>7. ASSUME NEW c \in ChatIds PROVE Uniform(c)
  <2> DEFINE w == IF chat[c] = None THEN [kind |-> "group"] ELSE chat[c]
  <2>1. Single(w)
    BY <1>4 DEF Single, Direct, AgentIds
  <2>2. chat[c] \in {None, w} /\ CopiesAre(c, w)
    BY <1>2 DEF CopiesAre
  <2> HIDE DEF w
  <2> QED
    BY <2>1, <2>2 DEF Uniform
<1> QED
  BY <1>2, <1>3, <1>5, <1>6, <1>7 DEF MakesInv, Intact, MembersInv, SurveyInv, UnbornInv, SameInv, ActiveInv, EraseInv, ServeInv

\* The members of a conversation are agents there are, and an active run has its
\* conversation, for as long as no other request is handled while an agent is deleted.
THEOREM ReferencesHeld ==
  Spec => []ReferencesHold
<1>1. Init => RowsInv /\ MakesInv /\ ReferenceInv
  BY InitRowsInv, InitReferenceInv
<1>2. RowsInv /\ MakesInv /\ ReferenceInv /\ [Next]_vars => (RowsInv /\ MakesInv /\ ReferenceInv)'
  BY StepRowsInv, StepMakesInv, StepReferenceInv
<1>3. RowsInv /\ MakesInv /\ ReferenceInv => ReferencesHold
  <2> SUFFICES ASSUME RowsInv, Intact PROVE MembersExist /\ RunsKeepTheirChat
    BY DEF ReferenceInv, ReferencesHold
  <2>1. ASSUME NEW s \in Slots, Active(s), chat[run[s].chat] = None
        PROVE  CrossAny(s, Erasers) \/ Reshaped(run[s].chat)
    <3>1. Serves(s) /\ run[s].chat = req[s].id
      BY <2>1 DEF Serves, Intact, ActiveInv
    <3> QED
      BY <2>1, <3>1 DEF Intact, ServeInv
  <2> QED
    BY <2>1 DEF RunsKeepTheirChat, Erasers, Intact, MembersInv
<1> QED
  BY <1>1, <1>2, <1>3, PTL DEF Spec

-----------------------------------------------------------------------------
(* One direct conversation.  What the handlers of the agents' tasks write   *)
(* is no direct conversation, and one that is changed by an update was asked *)
(* to be.                                                                   *)

\* The conversations that messages and help of agents create for a task.
ForTasks(c) == c \in Slots /\ Op(c) \in {"requestAgentHelp", "sendCollaborationMessage"}

\* What the handler of s is about when its next step is h.
PlacesAt(s, h, i, w) ==
    /\ ForTasks(s) /\ (h = "get" \/ h \in CopySteps) => ForTasks(i)
    /\ Op(s) = "updateConversation" /\ h = "save" => w.members = asked[s].members
    /\ h \in {"open", "address"} => w = None
Places(s) == PlacesAt(s, Head(req[s].left), req[s].id, req[s].row)
PlacesInv ==
    /\ \A s \in Slots : Running(s) => Places(s)
    /\ \A t \in Present(task) : task[t].chat # None => ForTasks(task[t].chat)

LEMMA PlacesNext ==
  ASSUME NEW s \in Slots, asked' = asked, PlacesAt(s, Head(req'[s].left), req'[s].id, req'[s].row)
  PROVE  Places(s)'
  BY DEF Places, PlacesAt, ForTasks, Op

LEMMA WalkPlaces ==
  ASSUME NEW s \in Slots, NEW h, h \notin SpecialSteps, Walks(s, h), Places(s), asked' = asked, Running(s)'
  PROVE  Places(s)'
<1> DEFINE n == Head(req'[s].left)
<1>1. h = n \/ Follows(h, n)
  BY DEF Walks, Forth, At
<1>2. At(s, h) /\ Keeps(s)
  BY DEF Walks
<1>3. PlacesAt(s, h, req[s].id, req[s].row)
  BY <1>2 DEF Places, At
<1> HIDE DEF n
<1>4. n \in CopySteps => h \in CopySteps
  BY <1>1 DEF Follows, Writes, CopySteps, SpecialSteps
<1>5. n \notin {"get", "open", "address"} /\ (n = "save" => h = "save")
  BY <1>1 DEF Follows, SpecialSteps
<1>6. PlacesAt(s, n, req[s].id, req[s].row)
  BY <1>3, <1>4, <1>5 DEF PlacesAt
<1>7. PlacesAt(s, n, req'[s].id, req'[s].row)
  BY <1>2, <1>6 DEF Keeps
<1> QED
  BY <1>7, PlacesNext DEF n

LEMMA ChatPlaces ==
  ASSUME RowsInv, MakesInv, PlacesInv, NEW s \in Slots, Else(s), ChatStep(s), Running(s)'
  PROVE  Places(s)'
<1> DEFINE h == Head(req[s].left)
           n == Head(req'[s].left)
<1>0. /\ RequestInv /\ RowsHeld /\ TablesTyped /\ Running(s) /\ Places(s) /\ Makes(s) /\ asked' = asked
      /\ Op(s) \in DOMAIN Ways /\ h \in StepsOf[Op(s)] /\ ~Refuses(s)
  <2>1. RequestInv /\ RowsHeld /\ TablesTyped /\ Running(s) /\ Places(s) /\ Makes(s) /\ asked' = asked
    BY DEF RowsInv, Else, MakesInv, PlacesInv
  <2> QED
    BY <2>1, StopsForth, RunningIs
<1>1. CASE h \notin SpecialSteps
  <2>1. Walks(s, h)
    BY <1>0, <1>1, ChatWalks
  <2> HIDE DEF h
  <2> QED
    BY <1>0, <1>1, <2>1, WalkPlaces
<1>2. PlacesAt(s, h, req[s].id, req[s].row)
  BY <1>0 DEF Places
<1>3. PlacesAt(s, n, req'[s].id, req'[s].row) => Places(s)'
  BY <1>0, PlacesNext
<1>4. CASE Survey(s)
  <2>1. n \in {"detach", "dismiss"}
    BY <1>0, <1>4, SurveyGoes
  <2> HIDE DEF n, h
  <2>2. PlacesAt(s, n, req'[s].id, req'[s].row)
    BY <2>1 DEF PlacesAt, CopySteps
  <2> QED
    BY <1>3, <2>2
<1>5. CASE Look(s)
  <2>0. At(s, "look") /\ h = "look"
    BY <1>5 DEF Look, At
  <2>1. CASE Same(req[s].row) = {}
    <3>1. Keeps(s) /\ Forth(s)
      BY <1>0, <1>5, <2>1, LookGoes
    <3>2. Follows("look", n)
      BY <2>0, <3>1 DEF Forth
    <3> HIDE DEF n, h
    <3>3. n = "store"
      BY <3>2 DEF Follows
    <3>4. PlacesAt(s, n, req'[s].id, req'[s].row)
      BY <3>3 DEF PlacesAt, CopySteps
    <3> QED
      BY <1>3, <3>4
  <2>2. CASE Same(req[s].row) # {}
    <3>1. Follows("store", n)
      BY <1>0, <1>5, <2>2, LookGoes
    <3>2. ~ForTasks(s)
      <4>1. req[s].row.kind = "direct"
        BY <2>2 DEF Same
      <4>2. MakesAt(s, "look", req[s].id, req[s].row, req[s].agent)
        BY <1>0, <2>0 DEF Makes
      <4> QED
        BY <4>1, <4>2 DEF MakesAt, ForTasks, CopySteps
    <3> HIDE DEF n, h
    <3>3. n = "getTask"
      BY <3>1 DEF Follows, Writes
    <3>4. PlacesAt(s, n, req'[s].id, req'[s].row)
      BY <3>2, <3>3 DEF PlacesAt
    <3> QED
      BY <1>3, <3>4
  <2> QED
    BY <2>1, <2>2
<1>6. CASE Store(s)
  <2>1. Follows("store", n) /\ req'[s].id = s
    BY <1>0, <1>6, StoreGoes DEF Forth, At
  <2> HIDE DEF n, h
  <2>2. n = "getTask"
    BY <2>1 DEF Follows, Writes
  <2>3. PlacesAt(s, n, req'[s].id, req'[s].row)
    BY <2>1, <2>2 DEF PlacesAt
  <2> QED
    BY <1>3, <2>3
<1>7. CASE Get(s)
  <2>1. /\ At(s, "get") /\ h = "get" /\ Follows("get", n) /\ req'[s].id = req[s].id /\ chat[req[s].id] # None
        /\ req'[s].row = [chat[req[s].id] EXCEPT !.members = NewMembers(s)]
    BY <1>0, <1>7, GetGoes DEF Forth, At
  <2>2. HoldsAt(s, "get", req[s].id, req[s].row, req[s].agent, req[s].task, req[s].todo, req[s].value)
    BY <1>0, <2>1, AtStep
  <2>3. Op(s) = "updateConversation" => req'[s].row.members = asked[s].members
    <3>1. Op(s) = "updateConversation" => req[s].id \in ChatIds /\ req[s].todo = {}
      BY <2>2 DEF HoldsAt
    <3> QED
      BY <1>0, <2>1, <3>1 DEF NewMembers, TablesTyped, ChatsTypeOK, Chats
  <2> HIDE DEF n, h
  <2>4. n \notin {"open", "address"}
    BY <2>1 DEF Follows
  <2>5. PlacesAt(s, n, req'[s].id, req'[s].row)
    BY <1>2, <2>1, <2>3, <2>4 DEF PlacesAt
  <2> QED
    BY <1>3, <2>5
<1>8. CASE Open(s)
  <2>1. n \in {"check", "interrupt"}
    BY <1>0, <1>8, OpenGoes
  <2> HIDE DEF n, h
  <2>2. PlacesAt(s, n, req'[s].id, req'[s].row)
    BY <2>1 DEF PlacesAt, CopySteps
  <2> QED
    BY <1>3, <2>2
<1>9. CASE Address(s)
  <2>1. At(s, "address") /\ Follows("address", n)
    BY <1>0, <1>9, AddressGoes DEF Forth, At
  <2>2. Op(s) = "sendMessage"
    BY <1>0, <2>1, AtStep, StepsAreOf
  <2> HIDE DEF n, h
  <2>3. n \notin {"open", "address"}
    BY <2>1 DEF Follows
  <2>4. PlacesAt(s, n, req'[s].id, req'[s].row)
    BY <2>2, <2>3 DEF PlacesAt, ForTasks
  <2> QED
    BY <1>3, <2>4
<1>10. CASE AskHelp(s)
  <2>1. At(s, "ask") /\ Follows("ask", n)
    BY <1>0, <1>10, AskGoes DEF Forth, At
  <2> HIDE DEF n, h
  <2>2. n = "newTask"
    BY <2>1 DEF Follows
  <2>3. PlacesAt(s, n, req'[s].id, req'[s].row)
    BY <2>2 DEF PlacesAt, CopySteps
  <2> QED
    BY <1>3, <2>3
<1>11. CASE Meet(s)
  <2>1. /\ At(s, "meet") /\ Op(s) = "sendCollaborationMessage"
        /\ \/ n = "look"
           \/ /\ task[asked[s].task] # None /\ req'[s].id = task[asked[s].task].chat /\ req'[s].id # None
              /\ n \in {"say", "get"}
    BY <1>0, <1>11, MeetGoes
  <2>2. HoldsAt(s, "meet", req[s].id, req[s].row, req[s].agent, req[s].task, req[s].todo, req[s].value)
    BY <1>0, <2>1, AtStep
  <2>3. asked[s].task \in TaskIds
    BY <2>1, <2>2 DEF HoldsAt, ForAgents
  <2> HIDE DEF n, h
  <2>4. CASE n = "look"
    <3>1. PlacesAt(s, n, req'[s].id, req'[s].row)
      BY <2>4 DEF PlacesAt, CopySteps
    <3> QED
      BY <1>3, <3>1
  <2>5. CASE n # "look"
    <3>1. asked[s].task \in Present(task)
      BY <1>0, <2>1, <2>3, <2>5 DEF Present, TablesTyped, ChatsTypeOK
    <3>2. ForTasks(req'[s].id)
      BY <2>1, <2>5, <3>1 DEF PlacesInv
    <3>3. PlacesAt(s, n, req'[s].id, req'[s].row)
      BY <2>1, <2>5, <3>2 DEF PlacesAt
    <3> QED
      BY <1>3, <3>3
  <2> QED
    BY <2>4, <2>5
<1>12. h \in SpecialSteps => Survey(s) \/ Look(s) \/ Store(s) \/ Get(s) \/ Open(s) \/ Address(s) \/ AskHelp(s) \/ Meet(s)
  BY Zenon DEF ChatStep, SpecialSteps, Enlist, GetAgent, PutAgent, Detach, Dismiss, Save, Check, Erase,
         Interrupt, Commit, Touch, GetTask, PutTask, Say, NewTask, ReadHelp, Reads, At
<1> QED
  BY <1>1, <1>4, <1>5, <1>6, <1>7, <1>8, <1>9, <1>10, <1>11, <1>12

\* A task is linked to a conversation that was created for one.
LEMMA TasksPlaces ==
  ASSUME RowsInv, PlacesInv, NEW s \in Slots, Else(s), ChatStep(s)
  PROVE  \A t \in Present(task)' : task'[t].chat # None => ForTasks(task'[t].chat)
<1>0. RequestInv /\ RowsHeld /\ TablesTyped /\ task \in [TaskIds -> Tasks \cup {None}]
  BY DEF RowsInv, TablesTyped, ChatsTypeOK
<1>1. CASE task' = task
  BY <1>1 DEF PlacesInv, Present
<1>2. CASE NewTask(s)
  <2>1. task' = [task EXCEPT ![s] = [owner |-> req[s].agent, chat |-> None]]
    BY <1>2 DEF NewTask
  <2> TAKE t \in Present(task)'
  <2>2. CASE t = s
    BY <1>0, <2>1, <2>2 DEF Present
  <2>3. CASE t # s
    BY <1>0, <2>1, <2>3 DEF Present, PlacesInv
  <2> QED
    BY <2>2, <2>3
<1>3. CASE PutTask(s)
  <2> DEFINE u == req[s].task
             row == [req[s].value EXCEPT !.chat = req[s].id]
  <2>1. At(s, "putTask") /\ task' = [task EXCEPT ![u] = row]
    BY <1>3 DEF PutTask
  <2>2. /\ Op(s) \in {"sendCollaborationMessage", "requestAgentHelp"} /\ Running(s) /\ Head(req[s].left) = "putTask"
        /\ HoldsAt(s, "putTask", req[s].id, req[s].row, req[s].agent, req[s].task, req[s].todo, req[s].value)
    BY <1>0, <2>1, AtStep, StepsAreOf
  <2>3. ForTasks(req[s].id)
    <3>1. PlacesAt(s, "putTask", req[s].id, req[s].row)
      BY <2>2 DEF PlacesInv, Places
    <3> QED
      BY <2>2, <3>1 DEF PlacesAt, ForTasks, CopySteps
  <2>4. row.chat \in {None, req[s].id}
    <3>1. req[s].value \in Tasks
      BY <2>2 DEF HoldsAt
    <3> QED
      BY <3>1 DEF Tasks
  <2> HIDE DEF u, row
  <2> TAKE t \in Present(task)'
  <2>5. CASE t = u
    BY <1>0, <2>1, <2>3, <2>4, <2>5 DEF Present
  <2>6. CASE t # u
    BY <1>0, <2>1, <2>6 DEF Present, PlacesInv
  <2> QED
    BY <2>5, <2>6
<1>4. task' = task \/ NewTask(s) \/ PutTask(s)
  BY Zenon DEF ChatStep, Enlist, GetAgent, PutAgent, Survey, Detach, Dismiss, Look, Store, Get, Save, Check, Erase, Open,
         Interrupt, Address, Commit, Touch, Meet, GetTask, Say, AskHelp, ReadHelp, chatVars
<1> QED
  BY <1>1, <1>2, <1>3, <1>4

LEMMA StepPlacesInv ==
  ASSUME RowsInv, RowsInv', MakesInv, PlacesInv, [Next]_vars
  PROVE  PlacesInv'
<1>0. RequestInv
  BY DEF RowsInv
<1>1. ASSUME NEW s \in Slots, Handles(s) PROVE PlacesInv'
  <2>1. /\ Else(s) /\ asked' = asked
        /\ ChatStep(s) \/ (UNCHANGED chatVars /\ (Apart(s) \/ \E h \in {"attach", "openFile", "read"} : Walks(s, h)))
    BY <1>1, HandlesIs DEF Else
  <2>2. ASSUME NEW u \in Slots, u # s, Running(u)' PROVE Places(u)'
    <3>1. req'[u] = req[u]
      BY <2>1, <2>2 DEF Else
    <3>2. Places(u)
      BY <2>2, <3>1 DEF PlacesInv, Running
    <3> QED
      BY <2>1, <3>1, <3>2, PlacesNext DEF Places
  <2>3. ASSUME Running(s)' PROVE Places(s)'
    <3>1. CASE ChatStep(s)
      BY <2>1, <2>3, <3>1, ChatPlaces
    <3>2. CASE Apart(s)
      <4> DEFINE n == Head(req'[s].left)
      <4>1. n \in StepsOf[Op(s)]
        <5>1. RequestInv' /\ Running(s)
          BY <2>1 DEF Else, RowsInv
        <5> QED
          BY <2>1, <2>3, <5>1, OfFiles DEF NextStep, Else
      <4> HIDE DEF n
      <4>2. n \notin {"get", "save", "open", "address"} /\ ~ForTasks(s)
        BY <3>2, <4>1 DEF Apart, ConnectorOps, StepsOf, ForTasks
      <4>3. PlacesAt(s, n, req'[s].id, req'[s].row)
        BY <4>2 DEF PlacesAt
      <4> QED
        BY <2>1, <4>3, PlacesNext DEF n
    <3>3. ASSUME NEW h \in {"attach", "openFile", "read"}, Walks(s, h) PROVE Places(s)'
      <4>1. Places(s) /\ h \notin SpecialSteps
        BY <2>1 DEF PlacesInv, Else, SpecialSteps
      <4> QED
        BY <2>1, <2>3, <3>3, <4>1, WalkPlaces
    <3> QED
      BY <2>1, <3>1, <3>2, <3>3
  <2>4. \A t \in Present(task)' : task'[t].chat # None => ForTasks(task'[t].chat)
    <3>1. CASE ChatStep(s)
      BY <2>1, <3>1, TasksPlaces
    <3>2. CASE UNCHANGED chatVars
      BY <3>2 DEF chatVars, PlacesInv, Present
    <3> QED
      BY <2>1, <3>1, <3>2
  <2> QED
    BY <2>1, <2>2, <2>3, <2>4 DEF PlacesInv, ForTasks, Op, Present
<1>2. ASSUME NEW s \in Slots, Arrive(s) PROVE PlacesInv'
  <2>1. /\ Op(s) \in Routes /\ \A u \in Slots : u # s => req'[u] = req[u]
        /\ Admitted(s) => /\ req'[s].state = "running" /\ req'[s].left = Program(Op(s))
                          /\ Op(s) # "createConversation" => req'[s].row = None
        /\ ~Admitted(s) => req'[s].state = "refused"
    BY <1>0, <1>2, ArriveIs
  <2>2. UNCHANGED <<asked, task>>
    BY <1>2 DEF Arrive, Arrives, chatVars
  <2>3. ASSUME NEW u \in Slots, u # s, Running(u)' PROVE Places(u)'
    <3>1. req'[u] = req[u]
      BY <2>1, <2>3
    <3>2. Places(u)
      BY <2>3, <3>1 DEF PlacesInv, Running
    <3> QED
      BY <2>2, <3>1, <3>2, PlacesNext DEF Places
  <2>4. ASSUME Running(s)' PROVE Places(s)'
    <3> DEFINE n == Head(req'[s].left)
    <3>1. Admitted(s)
      BY <2>1, <2>4 DEF Running
    <3>2. Begins(Op(s), n) /\ Op(s) \in DOMAIN Ways /\ n \in StepsOf[Op(s)]
      <4>1. Begins(Op(s), n) /\ Op(s) \in DOMAIN Ways /\ req'[s].left \in RestsOf(Op(s))
        BY <2>1, <3>1, ProgramsBegin
      <4> QED
        BY <4>1, RestsGoOn
    <3> HIDE DEF n
    <3>3. n \in {"open", "address"} => Op(s) # "createConversation"
      BY <3>2, StepsAreOf
    <3>4. PlacesAt(s, n, req'[s].id, req'[s].row)
      BY <2>1, <3>1, <3>2, <3>3 DEF PlacesAt, Begins, ForTasks, CopySteps
    <3> QED
      BY <2>2, <3>4, PlacesNext DEF n
  <2> QED
    BY <2>2, <2>3, <2>4 DEF PlacesInv, ForTasks, Op, Present
<1>3. ASSUME ~\E s \in Slots : Arrive(s) \/ Handles(s) PROVE PlacesInv'
  <2>1. /\ asked' = asked
        /\ \A u \in Slots : req'[u] = req[u] \/ (Running(u) /\ ~Running(u)' /\ Began(u)' /\ Keeps(u))
    BY <1>3, StaysOrStops
  <2>2. task' = task
    BY <1>3 DEF Next, Fails, Restart, RunsEnd, RunEnds, vars, chatVars
  <2>3. ASSUME NEW u \in Slots, Running(u)' PROVE Places(u)'
    <3>1. req'[u] = req[u]
      BY <2>1, <2>3
    <3>2. Places(u)
      BY <2>3, <3>1 DEF PlacesInv, Running
    <3> QED
      BY <2>1, <3>1, <3>2, PlacesNext DEF Places
  <2> QED
    BY <2>1, <2>2, <2>3 DEF PlacesInv, ForTasks, Op, Present
<1> QED
  BY <1>1, <1>2, <1>3

\* Such a conversation is not direct, in the table or in the hands of a handler.
KindInv ==
    /\ \A c \in Present(chat) : ForTasks(c) => chat[c].kind # "direct"
    /\ \A s \in Slots : Copying(s) /\ ForTasks(req[s].id) => req[s].row.kind # "direct"

LEMMA TaskStores ==
  ASSUME MakesInv, NEW s \in Slots, At(s, "store"), ForTasks(s)
  PROVE  req[s].row.kind = "task"
<1>1. MakesAt(s, "store", req[s].id, req[s].row, req[s].agent)
  BY DEF MakesInv, Makes, At
<1> QED
  BY <1>1 DEF MakesAt, ForTasks, CopySteps

\* A conversation is written as a handler has it, erased, or left without an agent.
LEMMA ChatBecomes ==
  ASSUME Step, NEW c \in ChatIds, chat'[c] # chat[c], DOMAIN chat = ChatIds
  PROVE  \/ chat'[c] = None \/ chat'[c].kind # "direct"
         \/ \E s \in Slots :
               /\ Else(s) /\ chat' = [chat EXCEPT ![c] = req[s].row]
               /\ (Stores(s) /\ c = s) \/ (Puts(s) /\ c = req[s].id)
<1>1. PICK s \in Slots : Else(s) /\ (Detaches(s) \/ Stores(s) \/ Puts(s) \/ Erases(s))
  BY DEF Step, Calm, Noisy, Surveys, Dismisses, Looks, Checks, Picks, Commits, SameTables
<1>2. CASE Stores(s) \/ Puts(s)
  BY <1>1, <1>2 DEF Stores, Puts
<1>3. CASE Erases(s)
  BY <1>3 DEF Erases
<1>4. CASE Detaches(s)
  <2>1. PICK item : chat' = [chat EXCEPT ![item[1]] = Detached(item[2], req[s].agent)]
    BY <1>4 DEF Detaches
  <2>2. c = item[1] /\ chat'[c] = Detached(item[2], req[s].agent)
    BY <2>1
  <2>3. CASE item[2].kind = "direct" \/ item[2].members = {req[s].agent}
    BY <2>2, <2>3 DEF Detached
  <2>4. CASE ~(item[2].kind = "direct" \/ item[2].members = {req[s].agent})
    <3>1. chat'[c] = [item[2] EXCEPT !.members = @ \ {req[s].agent}]
      BY <2>2, <2>4 DEF Detached, Without
    <3>2. \A row, m : row.kind # "direct" => [row EXCEPT !.members = m].kind # "direct"
      OBVIOUS
    <3> QED
      BY <2>4, <3>1, <3>2
  <2> QED
    BY <2>3, <2>4
<1> QED
  BY <1>1, <1>2, <1>3, <1>4

\* The steps the rest is about.
Moving == RowsInv /\ RowsInv' /\ MakesInv /\ PlacesInv /\ KindInv /\ [Next]_vars

LEMMA MovingIs ==
  ASSUME Moving
  PROVE  /\ RequestInv /\ RowsHeld /\ RequestInv' /\ RowsHeld' /\ Step /\ asked' = asked
         /\ DOMAIN chat = ChatIds /\ DOMAIN chat' = ChatIds
         /\ \A c \in ChatIds : chat[c] # None => chat[c] \in Chats
         /\ \A s \in Slots : Op(s)' = Op(s) /\ (Began(s) => Began(s)')
         /\ \A s \in Slots : ~Running(s) /\ Began(s) => req'[s] = req[s]
         /\ \A s, t \in Slots : Crossed(s, t) => Crossed(s, t)'
<1>1. Step
  BY StepKinds DEF Moving, Step
<1>2. /\ chat \in [ChatIds -> Chats \cup {None}] /\ chat' \in [ChatIds -> Chats \cup {None}]'
      /\ RequestInv /\ RowsHeld /\ RequestInv' /\ RowsHeld'
  BY DEF Moving, RowsInv, TablesTyped, ChatsTypeOK
<1>3. DOMAIN chat = ChatIds /\ DOMAIN chat' = ChatIds /\ \A c \in ChatIds : chat[c] # None => chat[c] \in Chats
  BY <1>2 DEF ChatIds
<1> QED
  BY <1>1, <1>2, <1>3, StepGrows DEF Moving

LEMMA StepKindInv ==
  ASSUME Moving
  PROVE  KindInv'
<1>0. /\ RequestInv /\ RowsHeld /\ Step /\ asked' = asked /\ MakesInv /\ PlacesInv /\ KindInv
      /\ DOMAIN chat = ChatIds /\ DOMAIN chat' = ChatIds
      /\ \A c \in ChatIds : chat[c] # None => chat[c] \in Chats
  BY MovingIs DEF Moving
<1>1. \A c : ForTasks(c)' <=> ForTasks(c)
  BY <1>0 DEF ForTasks, Op
<1>2. ASSUME NEW c \in ChatIds, chat'[c] # None, ForTasks(c) PROVE chat'[c].kind # "direct"
  <2>1. CASE chat'[c] = chat[c]
    BY <1>0, <1>2, <2>1 DEF KindInv, Present
  <2>2. ASSUME NEW s \in Slots, chat' = [chat EXCEPT ![c] = req[s].row], Stores(s), c = s
        PROVE  chat'[c].kind # "direct"
    <3>1. At(s, "store") /\ chat'[c] = req[s].row
      BY <1>0, <1>2, <2>2 DEF Stores
    <3>2. req[s].row.kind = "task"
      BY <1>0, <1>2, <2>2, <3>1, TaskStores
    <3> QED
      BY <3>1, <3>2
  <2>3. ASSUME NEW s \in Slots, chat' = [chat EXCEPT ![c] = req[s].row], Puts(s), c = req[s].id
        PROVE  chat'[c].kind # "direct"
    <3>1. Copying(s) /\ chat'[c] = req[s].row
      BY <1>0, <1>2, <2>3 DEF Puts
    <3> QED
      BY <1>0, <1>2, <2>3, <3>1 DEF KindInv
  <2> QED
    BY <1>0, <1>2, <2>1, <2>2, <2>3, ChatBecomes
<1>3. ASSUME NEW s \in Slots, Copying(s)', ForTasks(req'[s].id) PROVE req'[s].row.kind # "direct"
  <2>1. CASE Copying(s)
    <3>1. Keeps(s)
      BY <1>0, <2>1, CopyKept
    <3> QED
      BY <1>0, <1>3, <2>1, <3>1 DEF Keeps, KindInv
  <2>2. CASE ~Copying(s)
    <3>1. Picks(s) \/ Stores(s)
      BY <1>0, <1>3, <2>2, CopyComes
    <3>2. CASE Picks(s)
      <4>1. req'[s].id \in Present(chat) /\ req'[s].row.kind = chat[req'[s].id].kind
        BY <1>3, <3>2 DEF Picks, Copying
      <4> QED
        BY <1>0, <1>3, <4>1 DEF KindInv
    <3>3. CASE Stores(s)
      <4>1. At(s, "store") /\ req'[s].id = s /\ req'[s].row = req[s].row
        BY <3>3 DEF Stores
      <4> QED
        BY <1>0, <1>3, <4>1, TaskStores
    <3> QED
      BY <3>1, <3>2, <3>3
  <2> QED
    BY <2>1, <2>2
<1> QED
  BY <1>0, <1>1, <1>2, <1>3 DEF KindInv, Present

\* A request that keeps the direct conversation of an agent goes on to.
Writers == {"createConversation", "clearConversation", "sendMessage"}

LEMMA KeeperIs ==
  ASSUME NEW a, NEW s
  PROVE  s \in Keepers(a) <=> s \in Slots /\ Began(s) /\ Op(s) \in Writers /\ DirectWith(req[s].row, a)
  BY DEF Keepers, Of, Writers

LEMMA KeeperStays ==
  ASSUME Moving, NEW a, NEW s \in Keepers(a)
  PROVE  s \in Keepers(a)'
<1>0. /\ RowsInv /\ RequestInv /\ RowsHeld /\ PlacesInv /\ asked' = asked /\ Op(s)' = Op(s) /\ Began(s)'
      /\ s \in Slots /\ Began(s) /\ Op(s) \in Writers /\ DirectWith(req[s].row, a)
  BY MovingIs, KeeperIs DEF Moving
<1>1. ASSUME Handles(s) PROVE req'[s].row = req[s].row
  <2> DEFINE h == Head(req[s].left)
  <2>1. /\ Running(s) /\ (ChatStep(s) \/ \E g \in {"attach", "openFile", "read"} : Walks(s, g))
        /\ Op(s) \in DOMAIN Ways /\ h \in StepsOf[Op(s)] /\ Else(s)
    <3>1. Else(s) /\ (ChatStep(s) \/ Apart(s) \/ \E g \in {"attach", "openFile", "read"} : Walks(s, g))
      BY <1>0, <1>1, HandlesIs
    <3>2. ~Apart(s)
      BY <1>0 DEF Apart, ConnectorOps, Writers
    <3> QED
      BY <1>0, <3>1, <3>2, RunningIs DEF Else
  <2>2. CASE \E g : Walks(s, g)
    BY <2>2 DEF Walks, Keeps
  <2>3. CASE Refuses(s)
    BY <1>0, <2>1, <2>3, StopsForth DEF Keeps
  <2>4. CASE ChatStep(s) /\ ~Refuses(s)
    <3>1. CASE h \notin SpecialSteps
      BY <1>0, <2>1, <2>4, <3>1, <2>2, ChatWalks
    <3>2. CASE h \in {"open", "address"}
      <4>1. req[s].row = None
        BY <1>0, <2>1, <3>2 DEF PlacesInv, Places, PlacesAt
      <4> QED
        BY <1>0, <4>1 DEF DirectWith
    <3>3. CASE h \in {"survey", "get", "ask", "meet"}
      <4> HIDE DEF h
      <4> QED
        BY <1>0, <2>1, <3>3, StepsAreOf DEF Writers
    <3>4. CASE h \in {"look", "store"}
      <4>1. Look(s) \/ Store(s)
        BY <2>4, <3>4, Zenon DEF ChatStep, Enlist, GetAgent, PutAgent, Survey, Detach, Dismiss, Get, Save, Check,
               Erase, Open, Interrupt, Address, Commit, Touch, Meet, GetTask, PutTask, Say, AskHelp, NewTask, ReadHelp,
               Reads, At
      <4> QED
        BY <1>0, <2>4, <4>1, LookGoes, StoreGoes DEF Keeps
    <3> QED
      BY <3>1, <3>2, <3>3, <3>4 DEF SpecialSteps
  <2> QED
    BY <2>1, <2>2, <2>3, <2>4
<1>2. req'[s].row = req[s].row
  <2>1. ASSUME NEW u \in Slots, Handles(u), u # s PROVE req'[s] = req[s]
    BY <1>0, <2>1, HandlesIs DEF Else
  <2>2. ASSUME NEW u \in Slots, Arrive(u) PROVE req'[s] = req[s]
    BY <1>0, <2>2, ArriveIs DEF Began
  <2>3. CASE ~\E u \in Slots : Arrive(u) \/ Handles(u)
    BY <1>0, <2>3, StaysOrStops DEF Keeps, Moving
  <2> QED
    BY <1>0, <1>1, <2>1, <2>2, <2>3
<1>3. s \in Slots /\ Began(s)' /\ Op(s)' \in Writers /\ DirectWith(req'[s].row, a)
  BY <1>0, <1>2
<1> QED
  BY <1>3 DEF Keepers, Of, Writers, DirectWith

\* Two that keep an agent's direct conversation crossed; else of two such conversations one
\* was given to the agent, and so was one that is to be stored or touched or the others.
Rivals(a) == \E s, t \in Keepers(a) : Crossed(s, t)
Given(a) ==
    \A c, d \in DirectChats(a) : c # d => c \in GivenTo(a) \/ d \in GivenTo(a)
GivenToStore(a) ==
    \A s \in Slots : At(s, "store") /\ DirectWith(req[s].row, a) => DirectChats(a) \subseteq GivenTo(a)
GivenToTouch(a) ==
    \A s \in Slots : Copying(s) /\ Op(s) = "sendMessage" /\ DirectWith(req[s].row, a) =>
        req[s].id \in GivenTo(a) \/ DirectChats(a) \ {req[s].id} \subseteq GivenTo(a)
DirectInv == \A a \in AgentIds : Rivals(a) \/ (Given(a) /\ GivenToStore(a) /\ GivenToTouch(a))

LEMMA RivalsStay ==
  ASSUME Moving, NEW a, Rivals(a)
  PROVE  Rivals(a)'
<1>1. PICK s, t \in Keepers(a) : Crossed(s, t)
  BY DEF Rivals
<1>2. s \in Keepers(a)' /\ t \in Keepers(a)' /\ s \in Slots /\ t \in Slots
  BY <1>1, KeeperStays, KeeperIs
<1>3. Crossed(s, t)'
  BY <1>1, <1>2, MovingIs
<1> QED
  BY <1>2, <1>3 DEF Rivals

LEMMA GivenStays ==
  ASSUME Moving, NEW a
  PROVE  GivenTo(a) \subseteq GivenTo(a)'
<1>1. asked' = asked /\ \A s \in Slots : Op(s)' = Op(s) /\ (Began(s) => Began(s)')
  BY MovingIs
<1> QED
  BY <1>1 DEF GivenTo, Of

\* A conversation becomes the direct one of an agent by an update that gives it to the agent,
\* or by a request that keeps it.
Keeping(s, a) == Running(s) /\ s \in Keepers(a)
LEMMA DirectComes ==
  ASSUME Moving, NEW a, NEW c \in DirectChats(a)'
  PROVE  \/ c \in DirectChats(a)
         \/ /\ \A d \in DirectChats(a)' : d # c => d \in DirectChats(a)
            /\ \/ c \in GivenTo(a)
               \/ \E s \in Slots :
                     /\ Keeping(s, a)
                     /\ \/ At(s, "store") /\ c = s /\ ~At(s, "store")'
                        \/ Copying(s) /\ Op(s) = "sendMessage" /\ c = req[s].id
                     /\ \A u \in Slots : u # s => req'[u] = req[u]
<1> SUFFICES ASSUME c \notin DirectChats(a)
             PROVE  /\ \A d \in DirectChats(a)' : d # c => d \in DirectChats(a)
                    /\ \/ c \in GivenTo(a)
                       \/ \E s \in Slots :
                             /\ Keeping(s, a)
                             /\ \/ At(s, "store") /\ c = s /\ ~At(s, "store")'
                                \/ Copying(s) /\ Op(s) = "sendMessage" /\ c = req[s].id
                             /\ \A u \in Slots : u # s => req'[u] = req[u]
  OBVIOUS
<1>0. /\ RequestInv /\ RowsHeld /\ Step /\ MakesInv /\ PlacesInv /\ KindInv /\ DOMAIN chat = ChatIds
      /\ asked' = asked
  BY MovingIs DEF Moving
<1>1. c \in ChatIds /\ DirectWith(chat'[c], a) /\ chat'[c] # chat[c]
  BY DEF DirectChats, DirectWith, ChatIds
<1>2. PICK s \in Slots : /\ Else(s) /\ chat' = [chat EXCEPT ![c] = req[s].row]
                         /\ (Stores(s) /\ c = s) \/ (Puts(s) /\ c = req[s].id)
  BY <1>0, <1>1, ChatBecomes DEF DirectWith
<1>3. DirectWith(req[s].row, a) /\ \A d \in ChatIds : d # c => chat'[d] = chat[d]
  BY <1>0, <1>1, <1>2
<1>4. \A d \in DirectChats(a)' : d # c => d \in DirectChats(a)
  BY <1>3 DEF DirectChats, DirectWith, ChatIds
<1>5. /\ Running(s) /\ Began(s) /\ Op(s) \in DOMAIN Ways /\ Head(req[s].left) \in StepsOf[Op(s)]
      /\ \A u \in Slots : u # s => req'[u] = req[u]
  BY <1>0, <1>2, RunningIs DEF Else
<1>6. req[s].row.kind = "direct" /\ req[s].row.members = {a}
  BY <1>3 DEF DirectWith
<1>7. CASE Stores(s) /\ c = s
  <2>1. At(s, "store") /\ (Running(s)' => Copying(s)')
    BY <1>7 DEF Stores
  <2>2. Op(s) \in {"createConversation", "clearConversation", "sendCollaborationMessage", "requestAgentHelp"}
    BY <1>5, <2>1, StepsAreOf DEF At
  <2>3. Op(s) \in Writers
    BY <1>0, <1>6, <2>1, <2>2, TaskStores DEF ForTasks, Writers
  <2>4. Keeping(s, a)
    BY <1>3, <1>5, <2>3, KeeperIs DEF Keeping
  <2>5. ~At(s, "store")'
    BY <2>1 DEF At, Copying, CopySteps
  <2> QED
    BY <1>4, <1>5, <1>7, <2>1, <2>4, <2>5
<1>8. CASE Puts(s) /\ c = req[s].id
  <2>1. Copying(s) /\ At(s, Head(req[s].left)) /\ Head(req[s].left) \in CopySteps
    BY <1>8 DEF Puts, Copying, At
  <2>2. Op(s) \in {"updateConversation", "sendCollaborationMessage", "requestAgentHelp", "sendMessage"}
    BY <1>5, <2>1, StepsAreOf DEF CopySteps
  <2>3. ~ForTasks(s)
    <3>1. ForTasks(s) => ForTasks(req[s].id)
      BY <1>0, <1>5, <2>1 DEF PlacesInv, Places, PlacesAt
    <3> QED
      BY <1>0, <1>6, <2>1, <3>1 DEF KindInv
  <2>4. CASE Op(s) = "sendMessage"
    <3>1. Keeping(s, a)
      BY <1>3, <1>5, <2>4, KeeperIs DEF Keeping, Writers
    <3> QED
      BY <1>4, <1>5, <1>8, <2>1, <2>4, <3>1
  <2>5. CASE Op(s) = "updateConversation"
    <3>1. Head(req[s].left) = "save"
      <4> DEFINE h == Head(req[s].left)
      <4>1. h \in {"get", "save"} /\ h \in CopySteps
        BY <1>5, <2>1, <2>5, DeletionSteps
      <4> QED
        BY <4>1 DEF CopySteps
    <3>2. req[s].row.members = asked[s].members
      BY <1>0, <1>5, <2>5, <3>1 DEF PlacesInv, Places, PlacesAt
    <3>3. req[s].id = asked[s].chat
      BY <1>0, <1>5, <2>5 DEF MakesInv, Makes, MakesAt
    <3>4. c \in GivenTo(a)
      BY <1>5, <1>6, <1>8, <2>5, <3>2, <3>3 DEF GivenTo, Of
    <3> QED
      BY <1>4, <3>4
  <2> QED
    BY <2>2, <2>3, <2>4, <2>5 DEF ForTasks
<1> QED
  BY <1>2, <1>7, <1>8

\* Two handlers that keep the conversation at a time crossed.
LEMMA KeepingRivals ==
  ASSUME Moving, NEW a, NEW s, Keeping(s, a), NEW t, Keeping(t, a), s # t
  PROVE  Rivals(a)'
<1>1. s \in Slots /\ t \in Slots /\ Running(s) /\ Running(t) /\ s \in Keepers(a) /\ t \in Keepers(a)
  BY KeeperIs DEF Keeping
<1>2. Crossed(s, t)
  BY <1>1, BothCross, MovingIs
<1> QED
  BY <1>1, <1>2, RivalsStay DEF Rivals

LEMMA DirectStep ==
  ASSUME Moving, NEW a \in AgentIds, Given(a), GivenToStore(a), GivenToTouch(a), ~Rivals(a)'
  PROVE  Given(a)' /\ GivenToStore(a)' /\ GivenToTouch(a)'
<1>0. /\ RequestInv /\ RowsHeld /\ Step /\ MakesInv /\ asked' = asked
      /\ GivenTo(a) \subseteq GivenTo(a)' /\ \A s \in Slots : Op(s)' = Op(s)
  BY MovingIs, GivenStays DEF Moving
<1>1. ASSUME NEW c \in DirectChats(a)', NEW d \in DirectChats(a)', c # d, c \notin DirectChats(a)
      PROVE  c \in GivenTo(a)' \/ d \in GivenTo(a)'
  <2>1. d \in DirectChats(a)
    BY <1>1, DirectComes
  <2>2. CASE c \in GivenTo(a)
    BY <1>0, <2>2
  <2>3. ASSUME NEW s \in Slots, Keeping(s, a), At(s, "store") PROVE d \in GivenTo(a)
    BY <2>1, <2>3, KeeperIs DEF GivenToStore, Keeping
  <2>4. ASSUME NEW s \in Slots, Keeping(s, a), Copying(s), Op(s) = "sendMessage", c = req[s].id
        PROVE  c \in GivenTo(a) \/ d \in GivenTo(a)
    BY <1>1, <2>1, <2>4, KeeperIs DEF GivenToTouch, Keeping
  <2> QED
    BY <1>0, <1>1, <2>2, <2>3, <2>4, DirectComes
<1>2. Given(a)'
  BY <1>0, <1>1 DEF Given
<1>3. ASSUME NEW s \in Slots, At(s, "store")', DirectWith(req'[s].row, a), NEW c \in DirectChats(a)'
      PROVE  c \in GivenTo(a)'
  <2>1. CASE req'[s] = req[s]
    <3>1. At(s, "store") /\ DirectWith(req[s].row, a) /\ Running(s)
      BY <1>3, <2>1 DEF At, Running
    <3>2. Keeping(s, a)
      <4>1. Op(s) \in {"createConversation", "clearConversation", "sendCollaborationMessage", "requestAgentHelp"}
        BY <1>0, <3>1, AtStep, StepsAreOf
      <4>2. ~ForTasks(s)
        BY <1>0, <3>1, TaskStores DEF DirectWith
      <4> QED
        BY <3>1, <4>1, <4>2, KeeperIs DEF Keeping, ForTasks, Writers, Running, Began
    <3>3. CASE c \in DirectChats(a)
      BY <1>0, <3>1, <3>3 DEF GivenToStore
    <3>4. ASSUME NEW w \in Slots, Keeping(w, a), (At(w, "store") /\ ~At(w, "store")') \/ Copying(w) PROVE FALSE
      <4>1. w # s
        BY <1>3, <3>1, <3>4 DEF At, Copying, CopySteps
      <4> QED
        BY <3>2, <3>4, <4>1, KeepingRivals
    <3> QED
      BY <1>0, <1>3, <3>3, <3>4, DirectComes
  <2>2. CASE req'[s] # req[s]
    <3>1. Looks(s)
      BY <1>0, <1>3, <2>2, StoreComes
    <3>2. Same(req[s].row) = {} /\ req'[s].row = req[s].row /\ chat' = chat
      BY <3>1 DEF Looks, Keeps, SameTables
    <3>3. c \in ChatIds /\ DirectWith(chat[c], a)
      BY <1>3, <3>2 DEF DirectChats, DirectWith, ChatIds
    <3>4. c \in Same(req[s].row)
      <4>1. req[s].row.kind = "direct" /\ req[s].row.members = {a} /\ Cardinality({a}) = 1
        BY <1>3, <3>2, FS_Singleton DEF DirectWith
      <4>2. DOMAIN chat = ChatIds
        BY MovingIs
      <4> QED
        BY <3>3, <4>1, <4>2 DEF Same, Present, DirectWith
    <3> QED
      BY <3>2, <3>4
  <2> QED
    BY <2>1, <2>2
<1>4. GivenToStore(a)'
  BY <1>3 DEF GivenToStore, DirectWith
<1>5. ASSUME NEW s \in Slots, Copying(s)', Op(s) = "sendMessage", DirectWith(req'[s].row, a),
             NEW c \in DirectChats(a)', c # req'[s].id
      PROVE  req'[s].id \in GivenTo(a)' \/ c \in GivenTo(a)'
  <2>1. CASE Copying(s)
    <3>1. Keeps(s) /\ Running(s)
      BY <1>0, <2>1, CopyKept DEF Copying
    <3>2. Keeping(s, a)
      BY <1>5, <3>1, KeeperIs DEF Keeping, Keeps, Writers, Running, Began
    <3>3. CASE c \in DirectChats(a)
      BY <1>0, <1>5, <2>1, <3>1, <3>3 DEF GivenToTouch, Keeps
    <3>4. ASSUME NEW w \in Slots, Keeping(w, a), At(w, "store") \/ c = req[w].id PROVE FALSE
      <4>1. w # s
        BY <1>5, <2>1, <3>1, <3>4 DEF At, Copying, CopySteps, Keeps
      <4> QED
        BY <3>2, <3>4, <4>1, KeepingRivals
    <3> QED
      BY <1>0, <3>3, <3>4, DirectComes
  <2>2. CASE ~Copying(s)
    <3>1. Picks(s) \/ Stores(s)
      BY <1>0, <1>5, <2>2, CopyComes
    <3>2. ~Stores(s)
      <4>1. At(s, "store") => Op(s) # "sendMessage"
        BY <1>0, AtStep, StepsAreOf
      <4> QED
        BY <1>5, <4>1 DEF Stores
    <3>3. /\ chat' = chat /\ req'[s].id \in Present(chat) /\ req'[s].row = chat[req'[s].id]
      BY <1>5, <3>1, <3>2 DEF Picks, SameTables, Copying
    <3>4. c \in DirectChats(a) /\ req'[s].id \in DirectChats(a)
      <4>1. DOMAIN chat = ChatIds
        BY MovingIs
      <4> QED
        BY <1>5, <3>3, <4>1 DEF DirectChats, DirectWith, ChatIds, Present
    <3> QED
      BY <1>0, <1>5, <3>4 DEF Given
  <2> QED
    BY <2>1, <2>2
<1>6. GivenToTouch(a)'
  BY <1>0, <1>5 DEF GivenToTouch, DirectWith
<1> QED
  BY <1>2, <1>4, <1>6

LEMMA StepDirectInv ==
  ASSUME Moving, DirectInv
  PROVE  DirectInv'
<1> SUFFICES ASSUME NEW a \in AgentIds PROVE Rivals(a)' \/ (Given(a)' /\ GivenToStore(a)' /\ GivenToTouch(a)')
  BY DEF DirectInv, AgentIds
<1> QED
  BY RivalsStay, DirectStep DEF DirectInv

LEMMA InitDirectInv ==
  Init => MakesInv /\ PlacesInv /\ KindInv /\ DirectInv
<1> SUFFICES ASSUME Init PROVE PlacesInv /\ KindInv /\ DirectInv
  BY InitReferenceInv
<1>1. \A s \in Slots : ~Running(s) /\ ~Began(s)
  BY DEF Init, RequestsInit, Fresh, Running, Began
<1>2. task = [t \in TaskIds |-> IF t = Work THEN [owner |-> None, chat |-> None] ELSE None]
  BY DEF Init, ChatsInit
<1>3. chat = [c \in ChatIds |->
                IF c \in Agents THEN Direct(c)
                ELSE IF c = Group THEN [kind |-> "group", members |-> Agents, task |-> None]
                ELSE None]
  BY DEF Init, ChatsInit
<1>4. PlacesInv
  BY <1>1, <1>2 DEF PlacesInv, Present
<1>5. KindInv
  <2>1. \A c \in Slots : c \notin Agents /\ c # Group
    BY WorkspaceAssumption
  <2>2. \A c \in Slots : c \in ChatIds => chat[c] = None
    BY <1>3, <2>1
  <2> QED
    BY <1>1, <1>3, <2>2 DEF KindInv, Present, ForTasks, Copying
<1>6. ASSUME NEW a \in AgentIds PROVE Given(a) /\ GivenToStore(a) /\ GivenToTouch(a)
  <2>1. ASSUME NEW c \in DirectChats(a) PROVE c = a
    <3>1. c \in ChatIds /\ chat[c] # None /\ chat[c].kind = "direct" /\ chat[c].members = {a}
      BY <2>1 DEF DirectChats, DirectWith
    <3>2. CASE c \in Agents
      BY <1>3, <3>1, <3>2 DEF Direct
    <3>3. CASE c \notin Agents
      BY <1>3, <3>1, <3>3
    <3> QED
      BY <3>2, <3>3
  <2> QED
    BY <1>1, <2>1 DEF Given, GivenToStore, GivenToTouch, At, Copying
<1> QED
  BY <1>4, <1>5, <1>6 DEF DirectInv

\* An agent has one direct conversation at most, unless two requests that keep it crossed or
\* an update made one of another conversation: createConversation answers the one there is,
\* clearConversation deletes the old one before it creates the new, and sendMessage writes
\* back only the one it was sent to (relay-service.ts).
THEOREM DirectChatsAreOne ==
  Spec => []OneDirectChat
<1> DEFINE Inv == RowsInv /\ MakesInv /\ PlacesInv /\ KindInv /\ DirectInv
<1>1. Init => Inv
  BY InitDirectInv, InitRowsInv
<1>2. Inv /\ [Next]_vars => Inv'
  <2> SUFFICES ASSUME Inv, [Next]_vars PROVE Inv'
    OBVIOUS
  <2>1. RowsInv'
    BY StepRowsInv
  <2>2. Moving
    BY <2>1 DEF Moving
  <2> QED
    BY <2>1, <2>2, StepMakesInv, StepPlacesInv, StepKindInv, StepDirectInv
<1>3. Inv => OneDirectChat
  <2> SUFFICES ASSUME Inv, NEW a \in AgentIds, Cardinality(DirectChats(a)) > 1
               PROVE  Rivals(a) \/ DirectChats(a) \cap GivenTo(a) # {}
    BY DEF OneDirectChat, Rivals
  <2>1. PICK c, d \in DirectChats(a) : c # d
    <3>1. DirectChats(a) # {}
      BY FS_EmptySet
    <3>2. PICK c : c \in DirectChats(a)
      BY <3>1
    <3>3. DirectChats(a) # {c}
      BY FS_Singleton
    <3> QED
      BY <3>2, <3>3
  <2> QED
    BY <2>1 DEF DirectInv, Given
<1> QED
  BY <1>1, <1>2, <1>3, PTL DEF Spec
=============================================================================
