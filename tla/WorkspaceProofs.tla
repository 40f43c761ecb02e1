-------------------------- MODULE WorkspaceProofs --------------------------
(* What TLAPS proves of Workspace for any requests and bounds: what an      *)
(* update of the profile adds is kept, a disconnected credential is unused, *)
(* a schedule gets the first date of its expression, every table keeps its  *)
(* type, and files, rows and versions of artifacts agree.                   *)
EXTENDS Workspace, NaturalsInduction, WellFoundedInduction, FiniteSetTheorems, SequenceTheorems, TLAPS

LEMMA Programs ==
  /\ Program("updateProfile") = <<"getProfile", "putProfile">>
  /\ Program("connect") = <<"actor", "token", "verify", "existing", "keep">>
  /\ Program("useConnector") = <<"actor", "lookup", "token", "send">>
  /\ Program("createConnector") = <<"actor", "add">>
  /\ Program("disconnect") = <<"actor", "lookup", "drop">>
  /\ Program("createSchedule") = <<"getAgent", "home", "date">>
  BY DEF Program, ChatProgram, ArtifactProgram, ConnectorProgram, OtherProgram

-----------------------------------------------------------------------------
(* A step of a handler is a step of that request alone.                     *)

Takes(s) ==
    /\ Running(s)
    /\ UNCHANGED <<database, asked, before, faults>>
    /\ \E r : req' = [req EXCEPT ![s] = r]

LEMMA GoesTakes ==
  ASSUME NEW s, NEW r, Running(s), Goes(s, r)
  PROVE  Takes(s)
  BY DEF Goes, Takes

LEMMA RefusesTakes ==
  ASSUME NEW s, Running(s), Refuses(s)
  PROVE  Takes(s)
  BY DEF Refuses, Takes

LEMMA MovesTakes ==
  ASSUME NEW s, NEW r, Running(s), Moves(s, r)
  PROVE  Takes(s)
  BY DEF Moves, Goes, Takes

LEMMA ReadsTakes ==
  ASSUME NEW s, NEW step, NEW ok, NEW r, Reads(s, step, ok, r)
  PROVE  Takes(s)
  BY MovesTakes, RefusesTakes DEF Reads, At

LEMMA ChatTakes ==
  ASSUME NEW s, ChatStep(s)
  PROVE  Takes(s)
<1>1. CASE Enlist(s) \/ PutAgent(s) \/ Dismiss(s) \/ Store(s) \/ Save(s) \/ Erase(s) \/ Touch(s) \/ PutTask(s) \/ NewTask(s)
  BY <1>1, MovesTakes DEF At, Enlist, PutAgent, Dismiss, Store, Save, Erase, Touch, PutTask, NewTask
<1>2. CASE GetAgent(s) \/ Get(s) \/ Check(s) \/ Address(s) \/ GetTask(s) \/ AskHelp(s) \/ ReadHelp(s)
  BY <1>2, ReadsTakes DEF GetAgent, Get, Check, Address, GetTask, AskHelp, ReadHelp
<1>3. CASE Survey(s)
  BY <1>3, GoesTakes, RefusesTakes DEF At, Survey
<1>4. CASE Detach(s) \/ Interrupt(s)
  BY <1>4, GoesTakes, RefusesTakes DEF At, Detach, Interrupt
<1>5. CASE Look(s)
  BY <1>5, GoesTakes, MovesTakes, RefusesTakes DEF At, Look
<1>6. CASE Open(s)
  BY <1>6, GoesTakes, RefusesTakes DEF At, Open
<1>7. CASE Commit(s) \/ Say(s)
  BY Zenon, <1>7, GoesTakes, MovesTakes, RefusesTakes DEF At, Commit, Say
<1>8. CASE Meet(s)
  BY Zenon, <1>8, GoesTakes, RefusesTakes DEF At, Meet
<1> QED
  BY <1>1, <1>2, <1>3, <1>4, <1>5, <1>6, <1>7, <1>8 DEF ChatStep

LEMMA ArtifactTakes ==
  ASSUME NEW s, ArtifactStep(s)
  PROVE  Takes(s)
<1>1. CASE Stage(s) \/ Validate(s) \/ Record(s)
  BY <1>1, MovesTakes, RefusesTakes DEF At, Stage, Validate, Record
<1>2. CASE Move(s) \/ Announce(s) \/ PutArtifact(s)
  BY <1>2, MovesTakes DEF At, Move, Announce, PutArtifact
<1>3. CASE GetArtifact(s) \/ Download(s)
  BY <1>3, ReadsTakes DEF GetArtifact, Download
<1>4. CASE Attach(s)
  BY <1>4, MovesTakes, GoesTakes, RefusesTakes DEF At, Attach
<1> QED
  BY <1>1, <1>2, <1>3, <1>4 DEF ArtifactStep

LEMMA ConnectorTakes ==
  ASSUME NEW s, ConnectorStep(s)
  PROVE  Takes(s)
<1>1. CASE Token(s) \/ Verify(s) \/ Add(s)
  BY <1>1, MovesTakes, RefusesTakes DEF At, Token, Verify, Add
<1>2. CASE Existing(s) \/ Keep(s) \/ Drop(s)
  BY <1>2, MovesTakes DEF At, Existing, Keep, Drop
<1>3. CASE Actor(s) \/ Lookup(s) \/ Send(s)
  BY <1>3, ReadsTakes DEF Actor, Lookup, Send
<1> QED
  BY <1>1, <1>2, <1>3 DEF ConnectorStep

LEMMA HandlesTakes ==
  ASSUME NEW s, Handles(s)
  PROVE  Takes(s)
<1>1. CASE ChatStep(s) \/ ArtifactStep(s) \/ ConnectorStep(s)
  BY <1>1, ChatTakes, ArtifactTakes, ConnectorTakes
<1>2. CASE ReadProfile(s) \/ FindHome(s)
  BY <1>2, ReadsTakes DEF ReadProfile, FindHome
<1>3. CASE PutProfile(s) \/ FirstRun(s) \/ Read(s)
  BY <1>3, MovesTakes, RefusesTakes DEF At, PutProfile, FirstRun, Read
<1> QED
  BY <1>1, <1>2, <1>3 DEF Handles

\* The steps that only the modules of conversations and artifacts, and only Connectors, take.
ChatStepNames ==
    {"enlist", "getAgent", "putAgent", "survey", "detach", "dismiss", "look", "store", "get", "save",
     "check", "erase", "open", "interrupt", "address", "commit", "touch", "meet", "getTask", "putTask",
     "say", "ask", "newTask", "readHelp"}
ArtifactStepNames ==
    {"stage", "validate", "move", "record", "announce", "getArtifact", "putArtifact", "openFile", "attach"}
ConnectorStepNames == {"actor", "token", "verify", "existing", "keep", "add", "lookup", "send", "drop"}

LEMMA ChatStepsAre ==
  ASSUME NEW s, ChatStep(s)
  PROVE  Head(req[s].left) \in ChatStepNames /\ (Head(req[s].left) = "getAgent" => GetAgent(s))
  BY Zenon DEF ChatStep, ChatStepNames, At, Reads, Enlist, GetAgent, PutAgent, Survey, Detach, Dismiss, Look, Store,
         Get, Save, Check, Erase, Open, Interrupt, Address, Commit, Touch, Meet, GetTask, PutTask, Say,
         AskHelp, NewTask, ReadHelp

LEMMA ArtifactStepsAre ==
  ASSUME NEW s, ArtifactStep(s)
  PROVE  Head(req[s].left) \in ArtifactStepNames
  BY DEF ArtifactStep, ArtifactStepNames, At, Reads, Stage, Validate, Move, Record, Announce, GetArtifact,
         PutArtifact, Download, Attach

LEMMA ConnectorStepsAre ==
  ASSUME NEW s, ConnectorStep(s)
  PROVE  Head(req[s].left) \in ConnectorStepNames
  BY DEF ConnectorStep, ConnectorStepNames, At, Reads, Actor, Token, Verify, Existing, Keep, Add, Lookup, Send, Drop

-----------------------------------------------------------------------------
(* The handlers that the theorems are about go through a fixed program.     *)

FixedOps == {"updateProfile", "connect", "createConnector", "useConnector", "disconnect", "createSchedule"}
ConnectorOps == {"connect", "createConnector", "useConnector", "disconnect"}

UpdateLeft == {<<"getProfile", "putProfile">>, <<"putProfile">>}
ConnectLeft ==
    {<<"actor", "token", "verify", "existing", "keep">>, <<"token", "verify", "existing", "keep">>,
     <<"verify", "existing", "keep">>, <<"existing", "keep">>, <<"keep">>}
AddLeft == {<<"actor", "add">>, <<"add">>}
UseLeft ==
    {<<"actor", "lookup", "token", "send">>, <<"lookup", "token", "send">>, <<"token", "send">>, <<"send">>}
DisconnectLeft == {<<"actor", "lookup", "drop">>, <<"lookup", "drop">>, <<"drop">>}
ScheduleLeft == {<<"getAgent", "home", "date">>, <<"home", "date">>, <<"date">>}

StepsLeft == [updateProfile |-> UpdateLeft, connect |-> ConnectLeft, createConnector |-> AddLeft,
              useConnector |-> UseLeft, disconnect |-> DisconnectLeft, createSchedule |-> ScheduleLeft]

IsHandler(r) ==
    r = [state |-> r.state, left |-> r.left, id |-> r.id, row |-> r.row, agent |-> r.agent,
         task |-> r.task, todo |-> r.todo, value |-> r.value]

Fixed(s) == s \in Slots /\ Op(s) \in FixedOps

HandlerInv ==
    /\ req = [s \in Slots |-> req[s]]
    /\ faults \in Nat
    /\ asked \in Mixes
    /\ before \subseteq Slots \X Slots
    /\ \A s \in Slots : Fixed(s) /\ Began(s) =>
          /\ asked[s] # None
          /\ IsHandler(req[s]) /\ req[s].state \in States
          /\ Running(s) => req[s].left \in StepsLeft[Op(s)]
    /\ \A s, t \in Slots : Fixed(s) /\ Fixed(t) /\ <<s, t>> \in before => Ended(s) /\ Began(t)

LEMMA TailOfLeft ==
  ASSUME NEW op \in FixedOps, NEW left \in StepsLeft[op]
  PROVE  Tail(left) = <<>> \/ Tail(left) \in StepsLeft[op]
<1>1. ASSUME left \in UpdateLeft PROVE Tail(left) = <<>> \/ Tail(left) \in UpdateLeft
  <2>1. Tail(<<"getProfile", "putProfile">>) = <<"putProfile">>
    OBVIOUS
  <2>2. Tail(<<"putProfile">>) = <<>>
    OBVIOUS
  <2> QED
    BY <1>1, <2>1, <2>2, Zenon DEF UpdateLeft
<1>2. ASSUME left \in ConnectLeft PROVE Tail(left) = <<>> \/ Tail(left) \in ConnectLeft
  <2>1. Tail(<<"actor", "token", "verify", "existing", "keep">>) = <<"token", "verify", "existing", "keep">>
    OBVIOUS
  <2>2. Tail(<<"token", "verify", "existing", "keep">>) = <<"verify", "existing", "keep">>
    OBVIOUS
  <2>3. Tail(<<"verify", "existing", "keep">>) = <<"existing", "keep">>
    OBVIOUS
  <2>4. Tail(<<"existing", "keep">>) = <<"keep">>
    OBVIOUS
  <2>5. Tail(<<"keep">>) = <<>>
    OBVIOUS
  <2> QED
    BY <1>2, <2>1, <2>2, <2>3, <2>4, <2>5, Zenon DEF ConnectLeft
<1>3. ASSUME left \in UseLeft PROVE Tail(left) = <<>> \/ Tail(left) \in UseLeft
  <2>1. Tail(<<"actor", "lookup", "token", "send">>) = <<"lookup", "token", "send">>
    OBVIOUS
  <2>2. Tail(<<"lookup", "token", "send">>) = <<"token", "send">>
    OBVIOUS
  <2>3. Tail(<<"token", "send">>) = <<"send">>
    OBVIOUS
  <2>4. Tail(<<"send">>) = <<>>
    OBVIOUS
  <2> QED
    BY <1>3, <2>1, <2>2, <2>3, <2>4, Zenon DEF UseLeft
<1>4. ASSUME left \in DisconnectLeft PROVE Tail(left) = <<>> \/ Tail(left) \in DisconnectLeft
  <2>1. Tail(<<"actor", "lookup", "drop">>) = <<"lookup", "drop">>
    OBVIOUS
  <2>2. Tail(<<"lookup", "drop">>) = <<"drop">>
    OBVIOUS
  <2>3. Tail(<<"drop">>) = <<>>
    OBVIOUS
  <2> QED
    BY <1>4, <2>1, <2>2, <2>3, Zenon DEF DisconnectLeft
<1>5. ASSUME left \in ScheduleLeft PROVE Tail(left) = <<>> \/ Tail(left) \in ScheduleLeft
  <2>1. Tail(<<"getAgent", "home", "date">>) = <<"home", "date">>
    OBVIOUS
  <2>2. Tail(<<"home", "date">>) = <<"date">>
    OBVIOUS
  <2>3. Tail(<<"date">>) = <<>>
    OBVIOUS
  <2> QED
    BY <1>5, <2>1, <2>2, <2>3, Zenon DEF ScheduleLeft
<1>6. ASSUME left \in AddLeft PROVE Tail(left) = <<>> \/ Tail(left) \in AddLeft
  <2>1. Tail(<<"actor", "add">>) = <<"add">>
    OBVIOUS
  <2>2. Tail(<<"add">>) = <<>>
    OBVIOUS
  <2> QED
    BY <1>6, <2>1, <2>2, Zenon DEF AddLeft
<1> QED
  BY <1>1, <1>2, <1>3, <1>4, <1>5, <1>6 DEF FixedOps, StepsLeft

\* A handler that moves on with the variables r has them, but for what is left to do.
MovedTo(s, r) ==
    /\ req' = [req EXCEPT ![s] = req'[s]]
    /\ IsHandler(req'[s])
    /\ req'[s].row = r.row /\ req'[s].value = r.value
    /\ req'[s].left = Tail(req[s].left)
    /\ req'[s].state = IF Tail(req[s].left) = <<>> THEN "done" ELSE "running"

LEMMA MovesMoves ==
  ASSUME HandlerInv, NEW s \in Slots, NEW r, IsHandler(r), r.left = req[s].left, r.state = "running", Moves(s, r)
  PROVE  MovedTo(s, r)
  BY DEF Moves, Goes, MovedTo, IsHandler, HandlerInv

RefusedThere(s) ==
    /\ req' = [req EXCEPT ![s] = req'[s]]
    /\ IsHandler(req'[s])
    /\ req'[s].left = req[s].left
    /\ req'[s].state = "refused"

LEMMA RefusesStops ==
  ASSUME HandlerInv, NEW s \in Slots, IsHandler(req[s]), Refuses(s)
  PROVE  RefusedThere(s)
  BY DEF Refuses, RefusedThere, IsHandler, HandlerInv

LEMMA FixedIsHandler ==
  ASSUME HandlerInv, NEW s, Fixed(s), Running(s)
  PROVE  s \in Slots /\ IsHandler(req[s]) /\ req[s].state = "running" /\ req[s].left \in StepsLeft[Op(s)]
  BY DEF HandlerInv, Fixed, Running, Began

LEMMA ReadsEnds ==
  ASSUME HandlerInv, NEW s, Fixed(s), NEW step, NEW ok, NEW r, Reads(s, step, ok, r),
         ok => IsHandler(r) /\ r.left = req[s].left /\ r.state = "running"
  PROVE  (ok /\ MovedTo(s, r)) \/ (~ok /\ RefusedThere(s))
  BY FixedIsHandler, MovesMoves, RefusesStops DEF Reads, At

\* Changes of other fields leave a handler what it is.
LEMMA Rewritten ==
  ASSUME NEW r, IsHandler(r), NEW x
  PROVE  /\ IsHandler([r EXCEPT !.value = x]) /\ [r EXCEPT !.value = x].value = x
         /\ [r EXCEPT !.value = x].left = r.left /\ [r EXCEPT !.value = x].state = r.state
         /\ [r EXCEPT !.value = x].row = r.row
         /\ IsHandler([r EXCEPT !.row = x]) /\ [r EXCEPT !.row = x].row = x
         /\ [r EXCEPT !.row = x].left = r.left /\ [r EXCEPT !.row = x].state = r.state
         /\ IsHandler([r EXCEPT !.left = x]) /\ [r EXCEPT !.left = x].left = x
         /\ IsHandler([r EXCEPT !.state = x]) /\ [r EXCEPT !.state = x].state = x
         /\ [r EXCEPT !.state = x].left = r.left
         /\ [r EXCEPT !.left = x].state = r.state
  BY DEF IsHandler

LEMMA Stopped ==
  ASSUME NEW r, IsHandler(r), NEW x
  PROVE  IsHandler([r EXCEPT !.state = x]) /\ [r EXCEPT !.state = x].state = x
  BY Rewritten

LEMMA Valued ==
  ASSUME NEW r, IsHandler(r), NEW x
  PROVE  /\ IsHandler([r EXCEPT !.value = x]) /\ [r EXCEPT !.value = x].value = x
         /\ [r EXCEPT !.value = x].left = r.left /\ [r EXCEPT !.value = x].state = r.state
  BY DEF IsHandler

LEMMA FreshWith ==
  ASSUME NEW a, NEW b, NEW c, NEW d
  PROVE  IsHandler([Fresh EXCEPT !.id = a, !.task = b, !.agent = c, !.row = d])
<1> DEFINE f == [Fresh EXCEPT !.id = a]
           g == [f EXCEPT !.task = b]
           h == [g EXCEPT !.agent = c]
           r == [h EXCEPT !.row = d]
<1>1. IsHandler(Fresh)
  BY DEF IsHandler, Fresh
<1>2. IsHandler(f)
  BY <1>1 DEF IsHandler
<1> HIDE DEF f
<1>3. IsHandler(g)
  BY <1>2 DEF IsHandler
<1> HIDE DEF g
<1>4. IsHandler(h)
  BY <1>3 DEF IsHandler
<1> HIDE DEF h
<1>5. IsHandler(r)
  BY <1>4 DEF IsHandler
<1>6. r = [Fresh EXCEPT !.id = a, !.task = b, !.agent = c, !.row = d]
  BY DEF f, g, h
<1> HIDE DEF r
<1> QED
  BY <1>5, <1>6

LEMMA ConnectorEnds ==
  ASSUME HandlerInv, NEW s, Fixed(s), ConnectorStep(s)
  PROVE  (\E r : MovedTo(s, r)) \/ RefusedThere(s)
<1> Running(s)
  BY ConnectorTakes DEF Takes
<1> s \in Slots /\ IsHandler(req[s]) /\ req[s].state = "running"
  BY FixedIsHandler
<1>1. CASE Actor(s)
  BY <1>1, ReadsEnds DEF Actor
<1>2. CASE Token(s) \/ Verify(s)
  BY <1>2, MovesMoves, RefusesStops DEF Token, Verify
<1>3. CASE Existing(s)
  <2> DEFINE r == [req[s] EXCEPT !.row = connector[Firebase]]
  <2>1. IsHandler(r) /\ r.left = req[s].left /\ r.state = "running"
    BY DEF IsHandler
  <2>2. Moves(s, r)
    BY <1>3 DEF Existing
  <2> HIDE DEF r
  <2> QED
    BY <2>1, <2>2, MovesMoves
<1>4. CASE Keep(s) \/ Drop(s)
  BY <1>4, MovesMoves DEF Keep, Drop
<1>5. CASE Add(s)
  BY <1>5, MovesMoves, RefusesStops DEF Add
<1>6. CASE Lookup(s)
  <2> DEFINE r == [req[s] EXCEPT !.row = connector[asked[s].connector]]
  <2>1. IsHandler(r) /\ r.left = req[s].left /\ r.state = "running"
    BY DEF IsHandler
  <2>2. Reads(s, "lookup", connector[asked[s].connector] # None, r)
    BY <1>6 DEF Lookup
  <2> HIDE DEF r
  <2> QED
    BY <2>1, <2>2, ReadsEnds
<1>7. CASE Send(s)
  BY Zenon, <1>7, ReadsEnds, Rewritten DEF Send
<1> QED
  BY <1>1, <1>2, <1>3, <1>4, <1>5, <1>6, <1>7 DEF ConnectorStep

LEMMA HeadOfLeft ==
  ASSUME HandlerInv, NEW s, Fixed(s), Running(s)
  PROVE  /\ Op(s) = "updateProfile" => Head(req[s].left) \in {"getProfile", "putProfile"}
         /\ Op(s) = "createSchedule" => Head(req[s].left) \in {"getAgent", "home", "date"}
         /\ Op(s) \in ConnectorOps => Head(req[s].left) \in ConnectorStepNames
<1>1. req[s].left \in StepsLeft[Op(s)]
  BY FixedIsHandler
<1>2. ASSUME Op(s) = "updateProfile" PROVE Head(req[s].left) \in {"getProfile", "putProfile"}
  BY <1>1, <1>2 DEF StepsLeft, UpdateLeft
<1>3. ASSUME Op(s) = "createSchedule" PROVE Head(req[s].left) \in {"getAgent", "home", "date"}
  BY <1>1, <1>3 DEF StepsLeft, ScheduleLeft
<1>4. ASSUME Op(s) = "connect" PROVE Head(req[s].left) \in ConnectorStepNames
  BY <1>1, <1>4 DEF StepsLeft, ConnectLeft, ConnectorStepNames
<1>5. ASSUME Op(s) = "useConnector" PROVE Head(req[s].left) \in ConnectorStepNames
  BY <1>1, <1>5 DEF StepsLeft, UseLeft, ConnectorStepNames
<1>6. ASSUME Op(s) = "disconnect" PROVE Head(req[s].left) \in ConnectorStepNames
  BY <1>1, <1>6 DEF StepsLeft, DisconnectLeft, ConnectorStepNames
<1>7. ASSUME Op(s) = "createConnector" PROVE Head(req[s].left) \in ConnectorStepNames
  BY <1>1, <1>7 DEF StepsLeft, AddLeft, ConnectorStepNames
<1> QED
  BY <1>2, <1>3, <1>4, <1>5, <1>6, <1>7 DEF ConnectorOps

LEMMA FixedSteps ==
  ASSUME HandlerInv, NEW s, Fixed(s), Handles(s)
  PROVE  /\ Op(s) = "updateProfile" => (ReadProfile(s) \/ PutProfile(s)) /\ UNCHANGED connectorVars
         /\ Op(s) = "createSchedule" => (GetAgent(s) \/ FindHome(s) \/ FirstRun(s)) /\ UNCHANGED <<connectorVars, profile>>
         /\ Op(s) \in ConnectorOps => ConnectorStep(s) /\ UNCHANGED profile
<1> Running(s)
  BY HandlesTakes DEF Takes
<1>1. CASE ChatStep(s) /\ UNCHANGED <<artifactVars, connectorVars, profile>>
  BY <1>1, ChatStepsAre, HeadOfLeft DEF ChatStepNames, ConnectorStepNames
<1>2. CASE ArtifactStep(s)
  BY <1>2, ArtifactStepsAre, HeadOfLeft DEF ArtifactStepNames, ConnectorStepNames, Fixed, FixedOps
<1>3. CASE ConnectorStep(s) /\ UNCHANGED profile
  BY <1>3, ConnectorStepsAre, HeadOfLeft DEF ConnectorStepNames
<1>4. CASE (ReadProfile(s) \/ PutProfile(s)) /\ UNCHANGED connectorVars
  <2>1. Head(req[s].left) \in {"getProfile", "putProfile"}
    BY <1>4 DEF ReadProfile, PutProfile, Reads, At
  <2> QED
    BY <1>4, <2>1, HeadOfLeft DEF ConnectorStepNames
<1>5. CASE (FindHome(s) \/ FirstRun(s) \/ Read(s)) /\ UNCHANGED <<connectorVars, profile>>
  <2>1. Head(req[s].left) \in {"home", "date", "read"} /\ (Read(s) => Head(req[s].left) = "read")
    BY <1>5 DEF FindHome, FirstRun, Read, Reads, At
  <2> QED
    BY <1>5, <2>1, HeadOfLeft DEF ConnectorStepNames
<1> QED
  BY <1>1, <1>2, <1>3, <1>4, <1>5 DEF Handles

LEMMA FixedEnds ==
  ASSUME HandlerInv, NEW s, Fixed(s), Handles(s)
  PROVE  (\E r : MovedTo(s, r)) \/ RefusedThere(s)
<1> Running(s)
  BY HandlesTakes DEF Takes
<1> s \in Slots /\ IsHandler(req[s]) /\ req[s].state = "running"
  BY FixedIsHandler
<1>1. CASE ReadProfile(s)
  BY Zenon, <1>1, ReadsEnds, Rewritten DEF ReadProfile
<1>2. CASE PutProfile(s)
  BY <1>2, MovesMoves DEF PutProfile
<1>3. CASE GetAgent(s) \/ FindHome(s)
  BY <1>3, ReadsEnds DEF GetAgent, FindHome
<1>4. CASE FirstRun(s)
  <2> DEFINE r == [req[s] EXCEPT !.value = NextCronOccurrence(asked[s].cron, asked[s].now)]
  <2>1. IsHandler(r) /\ r.left = req[s].left /\ r.state = "running"
    BY Rewritten
  <2>2. Moves(s, r) \/ Refuses(s)
    BY <1>4 DEF FirstRun
  <2> HIDE DEF r
  <2> QED
    BY <2>1, <2>2, MovesMoves, RefusesStops
<1>5. CASE ConnectorStep(s)
  BY <1>5, ConnectorEnds
<1> QED
  BY <1>1, <1>2, <1>3, <1>4, <1>5, FixedSteps DEF Fixed, FixedOps, ConnectorOps

LEMMA InitHandlerInv == Init => HandlerInv
  BY DEF Init, RequestsInit, HandlerInv, Fresh, Began

LEMMA HandlesHandlerInv ==
  ASSUME HandlerInv, NEW s \in Slots, Handles(s)
  PROVE  HandlerInv'
<1>1. Takes(s)
  BY HandlesTakes
<1>2. ASSUME Fixed(s)
      PROVE  /\ IsHandler(req'[s]) /\ req'[s].state \in {"running", "done", "refused"}
             /\ req'[s].state = "running" => req'[s].left \in StepsLeft[Op(s)]
  <2>1. (\E r : MovedTo(s, r)) \/ RefusedThere(s)
    BY <1>2, FixedEnds
  <2>2. Op(s) \in FixedOps /\ req[s].left \in StepsLeft[Op(s)]
    BY <1>1, <1>2, FixedIsHandler DEF Takes, Fixed
  <2> QED
    BY <2>1, <2>2, TailOfLeft DEF MovedTo, RefusedThere
<1>3. \A t \in Slots : t # s => req'[t] = req[t]
  BY <1>1 DEF Takes, HandlerInv
<1>4. req' = [t \in Slots |-> req'[t]] /\ faults' \in Nat /\ asked' \in Mixes /\ before' \subseteq Slots \X Slots
  BY <1>1 DEF Takes, HandlerInv
<1>5. \A t : Op(t)' = Op(t) /\ Fixed(t)' = Fixed(t)
  BY <1>1 DEF Takes, Op, Fixed
<1>6. ASSUME NEW t \in Slots, Fixed(t), Began(t)'
      PROVE  /\ asked'[t] # None
             /\ IsHandler(req'[t]) /\ req'[t].state \in States
             /\ Running(t)' => req'[t].left \in StepsLeft[Op(t)]
  BY <1>1, <1>2, <1>3, <1>6 DEF HandlerInv, Takes, Began, Running, States
<1>7. ASSUME NEW t \in Slots, NEW u \in Slots, Fixed(t), Fixed(u), <<t, u>> \in before'
      PROVE  Ended(t)' /\ Began(u)'
  BY <1>1, <1>2, <1>3, <1>7 DEF HandlerInv, Takes, Began, Running, Ended
<1> QED
  BY <1>4, <1>5, <1>6, <1>7 DEF HandlerInv

LEMMA ProgramsStart ==
  ASSUME NEW op \in FixedOps
  PROVE  Program(op) \in StepsLeft[op]
<1>1. ASSUME op = "updateProfile" PROVE Program(op) \in StepsLeft[op]
  BY <1>1, Programs DEF StepsLeft, UpdateLeft
<1>2. ASSUME op = "connect" PROVE Program(op) \in StepsLeft[op]
  BY <1>2, Programs DEF StepsLeft, ConnectLeft
<1>3. ASSUME op = "useConnector" PROVE Program(op) \in StepsLeft[op]
  BY <1>3, Programs DEF StepsLeft, UseLeft
<1>4. ASSUME op = "disconnect" PROVE Program(op) \in StepsLeft[op]
  BY <1>4, Programs DEF StepsLeft, DisconnectLeft
<1>5. ASSUME op = "createSchedule" PROVE Program(op) \in StepsLeft[op]
  BY <1>5, Programs DEF StepsLeft, ScheduleLeft
<1>6. ASSUME op = "createConnector" PROVE Program(op) \in StepsLeft[op]
  BY <1>6, Programs DEF StepsLeft, AddLeft
<1> QED
  BY <1>1, <1>2, <1>3, <1>4, <1>5, <1>6 DEF FixedOps

\* A request that arrives has its arguments and its whole program before it, or is refused.
ArrivedAt(s) ==
    /\ req' = [req EXCEPT ![s] = req'[s]]
    /\ IsHandler(req'[s])
    /\ req'[s].state \in {"running", "refused"}
    /\ req'[s].state = "running" => req'[s].left = Program(Op(s))
    /\ req'[s].state = "refused" => req'[s].left = <<"admission">>

LEMMA ArrivesStarts ==
  ASSUME HandlerInv, NEW s \in Slots, Arrive(s)
  PROVE  ArrivedAt(s)
<1> DEFINE r == [Arguments(s) EXCEPT !.left = Program(Op(s))]
           x == [r EXCEPT !.state = "running"]
           y == [r EXCEPT !.state = "refused", !.left = <<"admission">>]
<1>1. IsHandler(r) /\ r.left = Program(Op(s))
  <2>1. IsHandler(Arguments(s))
    BY FreshWith DEF Arguments
  <2> QED
    BY <2>1, Rewritten
<1> HIDE DEF r
<1>2. IsHandler(x) /\ x.left = Program(Op(s)) /\ x.state = "running"
  BY <1>1, Rewritten
<1>3. IsHandler(y) /\ y.left = <<"admission">> /\ y.state = "refused"
  <2> DEFINE z == [r EXCEPT !.state = "refused"]
  <2>1. IsHandler(z) /\ z.state = "refused"
    BY <1>1, Rewritten
  <2>2. y = [z EXCEPT !.left = <<"admission">>]
    BY <1>1 DEF IsHandler
  <2> HIDE DEF z, y
  <2> QED
    BY <2>1, <2>2, Rewritten
<1>4. req' = [req EXCEPT ![s] = IF Admitted(s) THEN x ELSE y]
  BY DEF Arrive, Arrives, r
<1> HIDE DEF x, y
<1> QED
  BY <1>2, <1>3, <1>4 DEF ArrivedAt, HandlerInv

LEMMA ArriveHandlerInv ==
  ASSUME HandlerInv, NEW s \in Slots, Arrive(s)
  PROVE  HandlerInv'
<1>1. ArrivedAt(s) /\ UNCHANGED <<asked, faults>> /\ asked[s] # None /\ req[s].state = "waiting"
  BY ArrivesStarts DEF Arrive, Arrives
<1>2. before' = before \cup {<<t, s>> : t \in {u \in Slots : Ended(u)}}
  BY DEF Arrive, Arrives
<1>3. \A t \in Slots : t # s => req'[t] = req[t]
  BY <1>1 DEF ArrivedAt, HandlerInv
<1>4. req' = [t \in Slots |-> req'[t]] /\ faults' \in Nat /\ asked' \in Mixes /\ before' \subseteq Slots \X Slots
  BY <1>1, <1>2 DEF ArrivedAt, HandlerInv
<1>5. \A t : Op(t)' = Op(t) /\ Fixed(t)' = Fixed(t)
  BY <1>1 DEF Op, Fixed
<1>6. ASSUME NEW t \in Slots, Fixed(t), Began(t)'
      PROVE  /\ asked'[t] # None
             /\ IsHandler(req'[t]) /\ req'[t].state \in States
             /\ Running(t)' => req'[t].left \in StepsLeft[Op(t)]
  <2>1. CASE t = s
    BY <1>1, <1>6, <2>1, ProgramsStart DEF ArrivedAt, Fixed, Running, States
  <2>2. CASE t # s
    BY <1>1, <1>3, <1>6, <2>2 DEF HandlerInv, Began, Running
  <2> QED
    BY <2>1, <2>2
<1>7. Began(s)' /\ \A t \in Slots : (Ended(t) => Ended(t)') /\ (Began(t) => Began(t)')
  BY <1>1, <1>3 DEF ArrivedAt, Began, Ended
<1>8. ASSUME NEW t \in Slots, NEW u \in Slots, Fixed(t), Fixed(u), <<t, u>> \in before'
      PROVE  Ended(t)' /\ Began(u)'
  BY <1>2, <1>7, <1>8 DEF HandlerInv
<1> QED
  BY <1>4, <1>5, <1>6, <1>8 DEF HandlerInv

LEMMA FailsHandlerInv ==
  ASSUME HandlerInv, NEW s \in Slots, Fails(s)
  PROVE  HandlerInv' /\ faults' # 0
<1>1. /\ Running(s) /\ faults' = faults + 1 /\ UNCHANGED <<asked, before>>
      /\ req' = [req EXCEPT ![s].state = "refused"]
  BY DEF Fails, Breaks
<1>2. \A t \in Slots : t # s => req'[t] = req[t]
  BY <1>1 DEF HandlerInv
<1>3. Fixed(s) => IsHandler(req'[s]) /\ req'[s].state = "refused"
  <2>1. req'[s] = [req[s] EXCEPT !.state = "refused"]
    BY <1>1 DEF HandlerInv
  <2> SUFFICES ASSUME Fixed(s) PROVE IsHandler(req'[s]) /\ req'[s].state = "refused"
    OBVIOUS
  <2>2. IsHandler(req[s])
    BY <1>1, FixedIsHandler
  <2> QED
    BY <2>1, <2>2, Stopped
<1>4. req' = [t \in Slots |-> req'[t]] /\ faults' \in Nat /\ faults' # 0 /\ asked' \in Mixes /\ before' \subseteq Slots \X Slots
  BY <1>1 DEF HandlerInv
<1>5. \A t : Op(t)' = Op(t) /\ Fixed(t)' = Fixed(t)
  BY <1>1 DEF Op, Fixed
<1>6. ASSUME NEW t \in Slots, Fixed(t), Began(t)'
      PROVE  /\ asked'[t] # None
             /\ IsHandler(req'[t]) /\ req'[t].state \in States
             /\ Running(t)' => req'[t].left \in StepsLeft[Op(t)]
  BY <1>1, <1>2, <1>3, <1>6 DEF HandlerInv, Began, Running, States
<1>7. ASSUME NEW t \in Slots, NEW u \in Slots, Fixed(t), Fixed(u), <<t, u>> \in before'
      PROVE  Ended(t)' /\ Began(u)'
  BY <1>1, <1>2, <1>3, <1>7 DEF HandlerInv, Began, Running, Ended
<1> QED
  BY <1>4, <1>5, <1>6, <1>7 DEF HandlerInv

LEMMA RestartHandlerInv ==
  ASSUME HandlerInv, Restart
  PROVE  /\ HandlerInv' /\ faults' # 0 /\ UNCHANGED <<asked, before>>
         /\ \A t \in Slots : Fixed(t) /\ Running(t) => req'[t].state = "lost"
         /\ \A t \in Slots : ~Running(t) => req'[t] = req[t]
<1>1. /\ faults' = faults + 1 /\ UNCHANGED <<asked, before>>
      /\ req' = [t \in Slots |-> IF Running(t) THEN [req[t] EXCEPT !.state = "lost"] ELSE req[t]]
  BY DEF Restart, Crash
<1>2. \A t \in Slots : ~Running(t) => req'[t] = req[t]
  BY <1>1
<1>3. ASSUME NEW t \in Slots, Running(t)
      PROVE  (Fixed(t) => IsHandler(req'[t])) /\ (Fixed(t) => req'[t].state = "lost")
  <2>1. req'[t] = [req[t] EXCEPT !.state = "lost"]
    BY <1>1, <1>3
  <2>2. Fixed(t) => IsHandler(req[t])
    BY <1>3, FixedIsHandler
  <2> QED
    BY <2>1, <2>2, Stopped
<1>4. req' = [t \in Slots |-> req'[t]] /\ faults' \in Nat /\ faults' # 0 /\ asked' \in Mixes /\ before' \subseteq Slots \X Slots
  BY <1>1 DEF HandlerInv
<1>5. \A t : Op(t)' = Op(t) /\ Fixed(t)' = Fixed(t)
  BY <1>1 DEF Op, Fixed
<1>6. ASSUME NEW t \in Slots, Fixed(t), Began(t)'
      PROVE  /\ asked'[t] # None
             /\ IsHandler(req'[t]) /\ req'[t].state \in States
             /\ Running(t)' => req'[t].left \in StepsLeft[Op(t)]
  BY <1>1, <1>2, <1>3, <1>6 DEF HandlerInv, Began, Running, States
<1>7. ASSUME NEW t \in Slots, NEW u \in Slots, Fixed(t), Fixed(u), <<t, u>> \in before'
      PROVE  Ended(t)' /\ Began(u)'
  BY <1>1, <1>2, <1>3, <1>7 DEF HandlerInv, Began, Running, Ended
<1> QED
  BY <1>1, <1>2, <1>3, <1>4, <1>5, <1>6, <1>7 DEF HandlerInv

\* What a step does to the requests with a fixed program.
OthersStay(s) == \A t \in Slots : t # s => req'[t] = req[t]

ArriveStep(s) ==
    /\ ArrivedAt(s) /\ OthersStay(s) /\ req[s].state = "waiting"
    /\ before' = before \cup {<<t, s>> : t \in {u \in Slots : Ended(u)}}
    /\ UNCHANGED <<asked, faults, connectorVars, profile>>

HandleStep(s) ==
    /\ Handles(s) /\ Running(s) /\ OthersStay(s)
    /\ UNCHANGED <<asked, before, faults>>
    /\ Fixed(s) => (\E r : MovedTo(s, r)) \/ RefusedThere(s)

StopStep ==
    /\ UNCHANGED <<asked, before, connectorVars, profile>>
    /\ faults' # 0
    /\ \A t \in Slots : Fixed(t) /\ req'[t] # req[t] => Running(t) /\ req'[t].state \in {"refused", "lost"}

NoStep == UNCHANGED <<asked, req, before, faults, connectorVars, profile>>

Steps == (\E s \in Slots : ArriveStep(s) \/ HandleStep(s)) \/ StopStep \/ NoStep

THEOREM HandlersHold == Spec => []HandlerInv
<1>1. ASSUME HandlerInv, [Next]_vars PROVE HandlerInv'
  <2>1. ASSUME NEW s \in Slots, Arrive(s) \/ Handles(s) \/ Fails(s) PROVE HandlerInv'
    BY <1>1, <2>1, ArriveHandlerInv, HandlesHandlerInv, FailsHandlerInv
  <2>2. CASE Restart
    BY <1>1, <2>2, RestartHandlerInv
  <2>3. CASE UNCHANGED requestVars
    BY <1>1, <2>3 DEF requestVars, HandlerInv, Fixed, Op, Began, Running, Ended
  <2> QED
    BY <1>1, <2>1, <2>2, <2>3 DEF Next, RunsEnd, RunEnds, vars
<1> QED
  BY <1>1, InitHandlerInv, PTL DEF Spec

LEMMA NextSteps ==
  ASSUME HandlerInv, [Next]_vars
  PROVE  Steps
<1>1. ASSUME NEW s \in Slots, Arrive(s) PROVE ArriveStep(s)
  BY <1>1, ArrivesStarts DEF Arrive, Arrives, ArrivedAt, HandlerInv, OthersStay, ArriveStep
<1>2. ASSUME NEW s \in Slots, Handles(s) PROVE HandleStep(s)
  BY <1>2, HandlesTakes, FixedEnds DEF Takes, HandlerInv, OthersStay, HandleStep
<1>3. ASSUME NEW s \in Slots, Fails(s) PROVE StopStep
  <2>1. /\ UNCHANGED <<asked, before, connectorVars, profile>> /\ faults' # 0
        /\ req' = [req EXCEPT ![s].state = "refused"] /\ Running(s)
    BY <1>3, FailsHandlerInv DEF Fails, Breaks
  <2>2. Fixed(s) => req'[s].state = "refused"
    BY <2>1, FixedIsHandler, Stopped DEF HandlerInv
  <2>3. \A t \in Slots : t # s => req'[t] = req[t]
    BY <2>1 DEF HandlerInv
  <2> QED
    BY <2>1, <2>2, <2>3 DEF StopStep
<1>4. ASSUME Restart PROVE StopStep
  BY <1>4, RestartHandlerInv DEF Restart, StopStep
<1>5. ASSUME RunsEnd \/ UNCHANGED vars PROVE NoStep
  BY <1>5 DEF RunsEnd, RunEnds, vars, NoStep, requestVars
<1> QED
  BY <1>1, <1>2, <1>3, <1>4, <1>5 DEF Next, Steps

LEMMA BeganStays ==
  ASSUME Steps, NEW t \in Slots, Began(t), Fixed(t)
  PROVE  Began(t)'
<1>1. ASSUME NEW x \in Slots, ArriveStep(x) PROVE Began(t)'
  BY <1>1 DEF ArriveStep, ArrivedAt, OthersStay, Began
<1>2. ASSUME NEW x \in Slots, HandleStep(x) PROVE Began(t)'
  BY <1>2 DEF HandleStep, MovedTo, RefusedThere, OthersStay, Began
<1>3. CASE StopStep \/ NoStep
  BY <1>3 DEF StopStep, NoStep, Began
<1> QED
  BY <1>1, <1>2, <1>3 DEF Steps

\* What was before a request that began does not change.
LEMMA BeforeStays ==
  ASSUME Steps, NEW t \in Slots, NEW u \in Slots, Began(u)
  PROVE  <<t, u>> \in before <=> <<t, u>> \in before'
<1>1. CASE UNCHANGED before
  BY <1>1
<1>2. ASSUME NEW x \in Slots, ArriveStep(x) PROVE <<t, u>> \in before <=> <<t, u>> \in before'
  BY <1>2 DEF ArriveStep, Began
<1> QED
  BY <1>1, <1>2 DEF Steps, HandleStep, StopStep, NoStep

LEMMA AskedStays ==
  ASSUME Steps
  PROVE  asked' = asked /\ \A t : Op(t)' = Op(t)
  BY DEF Steps, ArriveStep, HandleStep, StopStep, NoStep, Op

-----------------------------------------------------------------------------
(* The profile.  An update that is about to store the profile has read it   *)
(* since every update that ended before it began: what it stores keeps what *)
(* those added.                                                             *)

Lone(s) == s \in Updates /\ Done(s) /\ ~CrossAny(s, {"updateProfile"})
Undone(s) == UNION {asked[t].removes : t \in {u \in Updates : <<s, u>> \in before}}

ProfileInv ==
    /\ \A s \in Updates : Lone(s) => OnlyTheNew(s) \subseteq profile \cup Undone(s)
    /\ \A s, u \in Updates : Lone(s) /\ u # s /\ At(u, "putProfile") =>
          OnlyTheNew(s) \subseteq req[u].value \cup Undone(s)
    /\ \A u \in Updates : At(u, "putProfile") => OnlyTheNew(u) \subseteq req[u].value

LEMMA UpdatesAre ==
  \A s : s \in Updates <=> s \in Slots /\ Began(s) /\ Op(s) = "updateProfile"
  BY DEF Updates, Of

LEMMA UpdatesFixed ==
  \A s : s \in Updates => Fixed(s)
  BY UpdatesAre DEF Fixed, FixedOps

\* A request that arrives is crossed by those only that have not ended.
LEMMA LoneWas ==
  ASSUME HandlerInv, Steps, NEW s \in Updates
  PROVE  /\ s \in Updates' /\ OnlyTheNew(s)' = OnlyTheNew(s)
         /\ Lone(s)' /\ Done(s) => Lone(s)
         /\ Undone(s) \subseteq Undone(s)'
<1>1. asked' = asked /\ \A t : Op(t)' = Op(t)
  BY AskedStays
<1>2. \A t \in Updates : t \in Updates'
  BY <1>1, BeganStays, UpdatesAre, UpdatesFixed DEF Updates, Of
<1>3. ASSUME NEW t \in Updates, NEW u \in Updates
      PROVE  <<t, u>> \in before <=> <<t, u>> \in before'
  BY <1>3, BeforeStays, UpdatesAre
<1>4. Lone(s)' /\ Done(s) => Lone(s)
  <2> SUFFICES ASSUME Done(s), NEW t \in Updates, Crossed(s, t) PROVE Crossed(s, t)'
    BY <1>1, <1>2 DEF Lone, CrossAny, Updates
  <2> QED
    BY <1>2, <1>3, UpdatesAre DEF Crossed, Updates, Of
<1>5. Undone(s) \subseteq Undone(s)'
  BY <1>1, <1>2, <1>3 DEF Undone
<1> QED
  BY <1>1, <1>2, <1>4, <1>5 DEF OnlyTheNew

\* An update that is done and one that is about to store are in order.
LEMMA LoneBefore ==
  ASSUME HandlerInv, NEW s \in Updates, Lone(s), NEW u \in Updates, u # s, Running(u)
  PROVE  <<s, u>> \in before
<1>1. ~Crossed(s, u) /\ Fixed(s) /\ Fixed(u)
  BY UpdatesFixed DEF Lone, CrossAny, Updates
<1>2. <<u, s>> \notin before
  BY <1>1 DEF HandlerInv, Fixed, Ended, Running
<1> QED
  BY <1>1, <1>2, UpdatesAre DEF Crossed

\* A step that is of no update leaves the updates as they were or stops them.
LEMMA ProfileElsewhere ==
  ASSUME HandlerInv, ProfileInv, Steps, profile' = profile,
         \A u \in Updates' : (Running(u)' /\ At(u, "putProfile")') \/ Done(u)' =>
                                u \in Updates /\ req'[u] = req[u]
  PROVE  ProfileInv'
<1>1. ASSUME NEW s \in Updates', Lone(s)'
      PROVE  s \in Updates /\ Lone(s) /\ OnlyTheNew(s)' = OnlyTheNew(s) /\ Undone(s) \subseteq Undone(s)'
  BY <1>1, LoneWas DEF Lone, Done
<1>2. ASSUME NEW u \in Updates', At(u, "putProfile")'
      PROVE  u \in Updates /\ At(u, "putProfile") /\ req'[u] = req[u] /\ OnlyTheNew(u)' = OnlyTheNew(u)
  BY <1>2, LoneWas DEF At, Running
<1>3. \A s \in Updates' : Lone(s)' => OnlyTheNew(s)' \subseteq profile' \cup Undone(s)'
  BY <1>1 DEF ProfileInv
<1>4. \A s, u \in Updates' : Lone(s)' /\ u # s /\ At(u, "putProfile")' =>
          OnlyTheNew(s)' \subseteq req'[u].value \cup Undone(s)'
  BY <1>1, <1>2 DEF ProfileInv
<1>5. \A u \in Updates' : At(u, "putProfile")' => OnlyTheNew(u)' \subseteq req'[u].value
  BY <1>2 DEF ProfileInv
<1> QED
  BY <1>3, <1>4, <1>5 DEF ProfileInv

LEMMA ProfileHandled ==
  ASSUME HandlerInv, HandlerInv', ProfileInv, Steps, NEW x \in Slots, HandleStep(x), Op(x) = "updateProfile"
  PROVE  ProfileInv'
<1>1. x \in Updates /\ Fixed(x) /\ Running(x) /\ asked' = asked /\ before' = before
  BY UpdatesAre DEF HandleStep, Fixed, FixedOps, Running, Began
<1>2. \A u \in Updates' : u \in Updates /\ (u # x => req'[u] = req[u])
  BY <1>1 DEF HandleStep, OthersStay, Updates, Of, Began, Op
<1>3. IsHandler(req[x]) /\ req[x].left \in UpdateLeft /\ req[x].state = "running"
  BY <1>1, FixedIsHandler DEF StepsLeft
<1>4. CASE RefusedThere(x)
  <2>1. profile' = profile
    <3>1. ~PutProfile(x)
      BY <1>3, <1>4, MovesMoves DEF PutProfile, RefusedThere, MovedTo
    <3> QED
      BY <1>1, <3>1, FixedSteps DEF HandleStep, ReadProfile
  <2> QED
    BY <1>2, <1>4, <2>1, ProfileElsewhere DEF RefusedThere, Running, Done, At
<1>5. CASE ReadProfile(x) /\ ~RefusedThere(x)
  <2>1. MovedTo(x, [req[x] EXCEPT !.value = Merged(x)]) /\ profile' = profile
    <3> DEFINE r == [req[x] EXCEPT !.value = Merged(x)]
    <3>1. IsHandler(r) /\ r.left = req[x].left /\ r.state = "running"
      BY Zenon, <1>3, Rewritten
    <3>2. \E ok : Reads(x, "getProfile", ok, r)
      BY <1>5 DEF ReadProfile
    <3> HIDE DEF r
    <3>3. MovedTo(x, r)
      BY <1>1, <1>5, <3>1, <3>2, ReadsEnds
    <3> QED
      BY <1>5, <3>3 DEF ReadProfile, r
  <2>2. req'[x].value = Merged(x) /\ req'[x].state # "done"
    <3>1. req[x].left = <<"getProfile", "putProfile">>
      BY <1>3, <1>5 DEF ReadProfile, Reads, At, UpdateLeft
    <3>2. Tail(<<"getProfile", "putProfile">>) # <<>>
      OBVIOUS
    <3> QED
      BY <1>3, <2>1, <3>1, <3>2, Rewritten DEF MovedTo
  <2>3. ASSUME NEW s \in Updates', Lone(s)'
        PROVE  /\ s # x /\ s \in Updates /\ Lone(s) /\ OnlyTheNew(s)' = OnlyTheNew(s)
               /\ Undone(s) \subseteq Undone(s)'
    BY <1>2, <2>2, <2>3, LoneWas DEF Lone, Done
  <2>4. OnlyTheNew(x)' \subseteq req'[x].value
    BY <1>1, <2>2 DEF OnlyTheNew, Merged
  <2>5. ASSUME NEW s \in Updates', Lone(s)' PROVE OnlyTheNew(s)' \subseteq req'[x].value \cup Undone(s)'
    <3>1. <<s, x>> \in before
      BY <1>1, <2>3, <2>5, LoneBefore
    <3>2. OnlyTheNew(s) \subseteq profile \cup Undone(s) /\ asked[x].removes \subseteq Undone(s)
      BY <1>1, <2>3, <2>5, <3>1 DEF ProfileInv, Undone
    <3> QED
      BY <2>2, <2>3, <2>5, <3>2 DEF Merged
  <2>6. \A u \in Updates' : u # x /\ At(u, "putProfile")' => At(u, "putProfile") /\ OnlyTheNew(u)' = OnlyTheNew(u)
    BY <1>2, LoneWas DEF At, Running
  <2> QED
    BY <1>2, <2>1, <2>3, <2>4, <2>5, <2>6 DEF ProfileInv
<1>6. CASE PutProfile(x)
  <2>1. MovedTo(x, req[x]) /\ profile' = req[x].value /\ At(x, "putProfile")
    BY <1>3, <1>6, MovesMoves DEF PutProfile
  <2>2. req'[x].state = "done"
    <3>1. req[x].left = <<"putProfile">>
      BY <1>3, <2>1 DEF At, UpdateLeft
    <3>2. Tail(<<"putProfile">>) = <<>>
      OBVIOUS
    <3> QED
      BY <2>1, <3>1, <3>2 DEF MovedTo
  <2>3. ASSUME NEW s \in Updates', Lone(s)'
        PROVE  /\ s \in Updates /\ OnlyTheNew(s)' = OnlyTheNew(s) /\ Undone(s) \subseteq Undone(s)'
               /\ s # x => Lone(s)
    BY <1>2, <2>3, LoneWas DEF Lone, Done
  <2>4. \A s \in Updates' : Lone(s)' => OnlyTheNew(s)' \subseteq profile' \cup Undone(s)'
    BY <1>1, <2>1, <2>3 DEF ProfileInv
  <2>5. ASSUME NEW u \in Updates', At(u, "putProfile")'
        PROVE  u # x /\ u \in Updates /\ At(u, "putProfile") /\ req'[u] = req[u] /\ OnlyTheNew(u)' = OnlyTheNew(u)
    BY <1>2, <2>2, <2>5, LoneWas DEF At, Running
  <2>6. ASSUME NEW u \in Updates', At(u, "putProfile")' PROVE ~Lone(x)'
    <3>1. HandlerInv' /\ Lone(x)' => <<x, u>> \in before'
      <4> SUFFICES ASSUME Lone(x)' PROVE <<x, u>> \in before'
        OBVIOUS
      <4>1. ~Crossed(x, u)' /\ x \in Updates' /\ u # x
        BY <1>1, <2>5, <2>6, LoneWas DEF Lone, CrossAny, Updates
      <4>2. <<u, x>> \notin before'
        BY <1>1, <2>5, <2>6, UpdatesFixed DEF HandlerInv, Fixed, Ended, Running, At
      <4> QED
        BY <1>1, <2>5, <2>6, <4>1, <4>2 DEF Crossed, Updates, Of
    <3>2. <<x, u>> \notin before
      BY <1>1, <2>5, <2>6, UpdatesFixed DEF HandlerInv, Fixed, Ended, Running
    <3> QED
      BY <1>1, <3>1, <3>2
  <2>7. \A s, u \in Updates' : Lone(s)' /\ u # s /\ At(u, "putProfile")' =>
            OnlyTheNew(s)' \subseteq req'[u].value \cup Undone(s)'
    BY <2>3, <2>5, <2>6 DEF ProfileInv
  <2>8. \A u \in Updates' : At(u, "putProfile")' => OnlyTheNew(u)' \subseteq req'[u].value
    BY <2>5 DEF ProfileInv
  <2> QED
    BY <2>4, <2>7, <2>8 DEF ProfileInv
<1> QED
  BY <1>1, <1>4, <1>5, <1>6, FixedSteps DEF HandleStep

LEMMA ProfileStep ==
  ASSUME HandlerInv, HandlerInv', ProfileInv, Steps
  PROVE  ProfileInv'
<1>1. ASSUME NEW x \in Slots, ArriveStep(x) PROVE ProfileInv'
  <2>1. \A u \in Updates' : u # x => u \in Updates /\ req'[u] = req[u]
    BY <1>1 DEF ArriveStep, OthersStay, Updates, Of, Began, Op
  <2>2. ~Done(x)' /\ (x \in Updates' => ~At(x, "putProfile")')
    BY <1>1, Programs DEF ArriveStep, ArrivedAt, Done, At, Running, Updates, Of, Op
  <2> QED
    BY <1>1, <2>1, <2>2, ProfileElsewhere DEF ArriveStep
<1>2. ASSUME NEW x \in Slots, HandleStep(x) PROVE ProfileInv'
  <2>1. CASE Op(x) = "updateProfile"
    BY <1>2, <2>1, ProfileHandled
  <2>2. CASE Op(x) # "updateProfile"
    <3>1. profile' = profile
      BY <1>2, <2>2 DEF HandleStep, Handles
    <3>2. \A u \in Updates' : u \in Updates /\ req'[u] = req[u]
      BY <1>2, <2>2 DEF HandleStep, OthersStay, Updates, Of, Began, Op
    <3> QED
      BY <3>1, <3>2, ProfileElsewhere
  <2> QED
    BY <2>1, <2>2
<1>3. CASE StopStep
  <2>1. \A u \in Updates' : Running(u)' \/ Done(u)' => u \in Updates /\ req'[u] = req[u]
    BY <1>3 DEF StopStep, Updates, Of, Fixed, FixedOps, Began, Op, Running, Done
  <2> QED
    BY <1>3, <2>1, ProfileElsewhere DEF StopStep
<1>4. CASE NoStep
  BY <1>4, ProfileElsewhere DEF NoStep, Updates, Of, Began, Op
<1> QED
  BY <1>1, <1>2, <1>3, <1>4 DEF Steps

\* What an update of the profile adds is there until a later update removes it, if no other
\* update crossed it: putProfile stores the whole profile, and between an update's
\* getProfile and its putProfile another may have been stored (app.ts, PATCH /v1/profile).
THEOREM UpdatesKept == Spec => []UpdatesAreKept
<1>1. Init => ProfileInv
  BY DEF Init, RequestsInit, ProfileInv, Updates, Of, Began, Fresh
<1>2. HandlerInv /\ HandlerInv' /\ ProfileInv /\ [Next]_vars => ProfileInv'
  BY NextSteps, ProfileStep
<1>3. ProfileInv => UpdatesAreKept
  BY DEF ProfileInv, UpdatesAreKept, Lone, Undone, OnlyTheNew
<1> QED
  BY <1>1, <1>2, <1>3, HandlersHold, PTL DEF Spec

-----------------------------------------------------------------------------
(* Connectors.  Once the provider's row is dropped, a credential that is in *)
(* it, or in the hands of a request that began later, was stored by a       *)
(* connect that had not ended when the disconnection began.                 *)

Drops == {d \in Of({"disconnect"}) : Done(d) /\ asked[d].connector = Firebase}
Uses == {u \in Of({"useConnector"}) : asked[u].connector = Firebase}
StoredSince(x, d) == \E c \in Of({"connect"}) : asked[c].secret = x /\ <<c, d>> \notin before

Held(u, d) ==
    /\ At(u, "token") \/ At(u, "send") => StoredSince(req[u].row.secret, d)
    /\ Done(u) => StoredSince(req[u].value, d)

CredentialInv ==
    /\ connector = [c \in ConnectorIds |-> connector[c]]
    /\ \A d \in Drops : connector[Firebase] # None => StoredSince(connector[Firebase].secret, d)
    /\ \A d \in Drops, u \in Uses : <<d, u>> \in before => Held(u, d)

LEMMA ConnectorsFixed ==
  /\ \A d \in Drops : d \in Slots /\ Began(d) /\ Fixed(d) /\ Op(d) = "disconnect"
  /\ \A u \in Uses : u \in Slots /\ Began(u) /\ Fixed(u) /\ Op(u) = "useConnector"
  BY DEF Drops, Uses, Of, Fixed, FixedOps

LEMMA StoredStays ==
  ASSUME Steps, NEW d \in Slots, Began(d), NEW x, StoredSince(x, d)
  PROVE  StoredSince(x, d)'
<1>1. PICK c \in Of({"connect"}) : asked[c].secret = x /\ <<c, d>> \notin before
  BY DEF StoredSince
<1>2. c \in Of({"connect"})'
  BY AskedStays, BeganStays DEF Of, Fixed, FixedOps
<1>3. <<c, d>> \notin before'
  BY <1>1, BeforeStays DEF Of
<1> QED
  BY <1>1, <1>2, <1>3, AskedStays DEF StoredSince

LEMMA HeldStays ==
  ASSUME Steps, NEW d \in Slots, Began(d), NEW u, req'[u] = req[u], Held(u, d)
  PROVE  Held(u, d)'
<1>1. ASSUME At(u, "token")' \/ At(u, "send")' PROVE StoredSince(req[u].row.secret, d)'
  <2>1. PICK x : x = req[u].row.secret
    OBVIOUS
  <2>2. StoredSince(x, d)'
    BY <1>1, <2>1, StoredStays DEF Held, At, Running
  <2> QED
    BY <2>1, <2>2
<1>2. ASSUME Done(u)' PROVE StoredSince(req[u].value, d)'
  <2>1. PICK x : x = req[u].value
    OBVIOUS
  <2>2. StoredSince(x, d)'
    BY <1>2, <2>1, StoredStays DEF Held, Done
  <2> QED
    BY <2>1, <2>2
<1> QED
  BY <1>1, <1>2 DEF Held

\* A step of no disconnection, that leaves the provider's row sound.
LEMMA CredentialElsewhere ==
  ASSUME CredentialInv, Steps, connector' = [c \in ConnectorIds |-> connector'[c]],
         connector'[Firebase] = connector[Firebase] \/
            \A d \in Drops : connector'[Firebase] # None => StoredSince(connector[Firebase].secret, d)',
         Drops' \subseteq Drops,
         \A u \in Uses' : (u \in Uses /\ req'[u] = req[u]) \/
                          \A d \in Drops' : <<d, u>> \in before' => Held(u, d)'
  PROVE  CredentialInv'
<1>1. ASSUME NEW d \in Drops', connector'[Firebase] # None
      PROVE  StoredSince(connector[Firebase].secret, d)'
  <2>1. d \in Drops /\ d \in Slots /\ Began(d)
    BY <1>1, ConnectorsFixed
  <2>2. CASE connector'[Firebase] = connector[Firebase]
    <3>1. PICK x : x = connector[Firebase].secret
      OBVIOUS
    <3>2. StoredSince(x, d)
      BY <1>1, <2>1, <2>2, <3>1 DEF CredentialInv
    <3>3. StoredSince(x, d)'
      BY <2>1, <3>2, StoredStays
    <3> QED
      BY <2>2, <3>1, <3>3
  <2> QED
    BY <1>1, <2>1, <2>2
<1>2. ASSUME NEW d \in Drops', NEW u \in Uses', <<d, u>> \in before'
      PROVE  Held(u, d)'
  <2>1. CASE u \in Uses /\ req'[u] = req[u]
    <3>1. d \in Slots /\ Began(d) /\ d \in Drops /\ <<d, u>> \in before
      BY <1>2, <2>1, BeforeStays, ConnectorsFixed
    <3> QED
      BY <2>1, <3>1, HeldStays DEF CredentialInv
  <2> QED
    BY <1>2, <2>1
<1> QED
  BY <1>1, <1>2 DEF CredentialInv

LEMMA ConnectorSteps ==
  ASSUME HandlerInv, NEW x \in Slots, HandleStep(x), Op(x) \in ConnectorOps
  PROVE  /\ Fixed(x) /\ Running(x) /\ Began(x) /\ IsHandler(req[x]) /\ req[x].state = "running"
         /\ Op(x) \in {"connect", "createConnector"} =>
              Actor(x) \/ Token(x) \/ Verify(x) \/ Existing(x) \/ (Op(x) = "connect" /\ Keep(x)) \/ Add(x)
         /\ Op(x) = "useConnector" => Actor(x) \/ Lookup(x) \/ Token(x) \/ Send(x)
         /\ Op(x) = "disconnect" => Actor(x) \/ Lookup(x) \/ Drop(x)
<1>1. Fixed(x) /\ Running(x) /\ Began(x)
  BY DEF HandleStep, Fixed, FixedOps, ConnectorOps, Running, Began
<1>2. IsHandler(req[x]) /\ req[x].state = "running" /\ req[x].left \in StepsLeft[Op(x)]
  BY <1>1, FixedIsHandler
<1>3. ConnectorStep(x)
  BY <1>1, FixedSteps DEF HandleStep, ConnectorOps
<1>4. ASSUME Op(x) = "connect" PROVE Head(req[x].left) \in {"actor", "token", "verify", "existing", "keep"}
  BY <1>2, <1>4 DEF StepsLeft, ConnectLeft
<1>5. ASSUME Op(x) = "createConnector" PROVE Head(req[x].left) \in {"actor", "add"}
  BY <1>2, <1>5 DEF StepsLeft, AddLeft
<1>6. ASSUME Op(x) = "useConnector" PROVE Head(req[x].left) \in {"actor", "lookup", "token", "send"}
  BY <1>2, <1>6 DEF StepsLeft, UseLeft
<1>7. ASSUME Op(x) = "disconnect" PROVE Head(req[x].left) \in {"actor", "lookup", "drop"}
  BY <1>2, <1>7 DEF StepsLeft, DisconnectLeft
<1>8. /\ Token(x) => Head(req[x].left) = "token"
      /\ Verify(x) => Head(req[x].left) = "verify"
      /\ Existing(x) => Head(req[x].left) = "existing"
      /\ Keep(x) => Head(req[x].left) = "keep"
      /\ Add(x) => Head(req[x].left) = "add"
      /\ Lookup(x) => Head(req[x].left) = "lookup"
      /\ Send(x) => Head(req[x].left) = "send"
      /\ Drop(x) => Head(req[x].left) = "drop"
  BY DEF Token, Verify, Existing, Keep, Add, Lookup, Send, Drop, Reads, At
<1>9. ASSUME Op(x) = "connect"
      PROVE  Actor(x) \/ Token(x) \/ Verify(x) \/ Existing(x) \/ Keep(x)
  BY <1>3, <1>4, <1>8, <1>9 DEF ConnectorStep
<1>10. ASSUME Op(x) = "createConnector" PROVE Actor(x) \/ Add(x)
  BY <1>3, <1>5, <1>8, <1>10 DEF ConnectorStep
<1>11. ASSUME Op(x) = "useConnector" PROVE Actor(x) \/ Lookup(x) \/ Token(x) \/ Send(x)
  BY <1>3, <1>6, <1>8, <1>11 DEF ConnectorStep
<1>12. ASSUME Op(x) = "disconnect" PROVE Actor(x) \/ Lookup(x) \/ Drop(x)
  BY <1>3, <1>7, <1>8, <1>12 DEF ConnectorStep
<1> QED
  BY <1>1, <1>2, <1>9, <1>10, <1>11, <1>12

\* A connect stores its own credential, and another connector is not the provider's.
LEMMA ConnectHandled ==
  ASSUME HandlerInv, CredentialInv, Steps, NEW x \in Slots, HandleStep(x), Op(x) \in {"connect", "createConnector"}
  PROVE  CredentialInv'
<1>1. Fixed(x) /\ Running(x) /\ Began(x) /\ asked' = asked /\ before' = before
  BY ConnectorSteps DEF HandleStep, ConnectorOps
<1>2. Drops' \subseteq Drops /\ \A u \in Uses' : u \in Uses /\ req'[u] = req[u]
  BY <1>1 DEF HandleStep, OthersStay, Drops, Uses, Of, Began, Op, Done
<1>3. CASE connector' = connector
  BY <1>2, <1>3, CredentialElsewhere DEF CredentialInv
<1>4. CASE Op(x) = "connect" /\ Keep(x)
  <2>1. connector' = [connector EXCEPT ![Firebase] = Kept(x)] /\ Firebase \in ConnectorIds
    BY <1>4 DEF Keep, ConnectorIds
  <2>2. connector' = [c \in ConnectorIds |-> connector'[c]] /\ connector'[Firebase].secret = asked[x].secret
    BY <2>1 DEF CredentialInv, Kept, Credential
  <2>3. ASSUME NEW d \in Drops PROVE StoredSince(connector[Firebase].secret, d)'
    <3>1. <<x, d>> \notin before
      BY <1>1, ConnectorsFixed DEF HandlerInv, Ended, Running
    <3>2. x \in Of({"connect"})'
      BY <1>1, <1>4, AskedStays, BeganStays DEF Of
    <3> QED
      BY <1>1, <2>2, <3>1, <3>2 DEF StoredSince
  <2> QED
    BY <1>2, <2>2, <2>3, CredentialElsewhere
<1>5. CASE Add(x) /\ connector' # connector
  <2>1. connector' = [connector EXCEPT ![x] = [secret |-> asked[x].secret, label |-> asked[x].secret, by |-> By(x)]]
    BY <1>5 DEF Add
  <2>2. connector' = [c \in ConnectorIds |-> connector'[c]] /\ connector'[Firebase] = connector[Firebase]
    BY <2>1, ProviderAssumption DEF CredentialInv, ConnectorIds
  <2> QED
    BY <1>2, <2>2, CredentialElsewhere
<1> QED
  BY <1>3, <1>4, <1>5, ConnectorSteps DEF Actor, Token, Verify, Existing, connectorVars, ConnectorOps

\* A use is sent with the row it looked up, which is the provider's.
LEMMA UseHandled ==
  ASSUME HandlerInv, CredentialInv, Steps, NEW x \in Slots, HandleStep(x), Op(x) = "useConnector"
  PROVE  CredentialInv'
<1>1. /\ Fixed(x) /\ Running(x) /\ Began(x) /\ asked' = asked /\ before' = before
      /\ IsHandler(req[x]) /\ req[x].state = "running"
  BY ConnectorSteps DEF HandleStep, ConnectorOps
<1>2. Drops' \subseteq Drops /\ \A u \in Uses' : u \in Uses /\ (u # x => req'[u] = req[u])
  BY <1>1 DEF HandleStep, OthersStay, Drops, Uses, Of, Began, Op, Done
<1>3. connector' = connector
  BY ConnectorSteps DEF Actor, Token, Lookup, Send, connectorVars, ConnectorOps
<1>4. SUFFICES ASSUME NEW d \in Drops', x \in Uses', <<d, x>> \in before' PROVE Held(x, d)'
  BY <1>2, <1>3, CredentialElsewhere DEF CredentialInv
<1>5. /\ req[x].left \in UseLeft /\ asked[x].connector = Firebase
      /\ d \in Drops /\ d \in Slots /\ Began(d) /\ <<d, x>> \in before
  BY <1>1, <1>2, <1>4, FixedIsHandler, ConnectorsFixed DEF StepsLeft, Uses
<1>6. CASE RefusedThere(x)
  BY <1>6 DEF RefusedThere, Held, At, Running, Done
<1>7. CASE Actor(x) /\ ~RefusedThere(x)
  <2>1. req[x].left = <<"actor", "lookup", "token", "send">>
    BY <1>5, <1>7 DEF Actor, Reads, At, UseLeft
  <2>2. Tail(<<"actor", "lookup", "token", "send">>) = <<"lookup", "token", "send">>
    OBVIOUS
  <2>3. MovedTo(x, req[x])
    BY <1>1, <1>7, ReadsEnds DEF Actor
  <2>4. req'[x].state = "running" /\ Head(req'[x].left) = "lookup"
    BY <2>1, <2>2, <2>3 DEF MovedTo
  <2> QED
    BY <2>4 DEF Held, At, Running, Done
<1>8. CASE Lookup(x) /\ ~RefusedThere(x)
  <2> DEFINE r == [req[x] EXCEPT !.row = connector[Firebase]]
  <2>1. IsHandler(r) /\ r.left = req[x].left /\ r.state = "running" /\ r.row = connector[Firebase]
    BY Zenon, <1>1, Rewritten
  <2>2. Reads(x, "lookup", connector[Firebase] # None, r)
    BY <1>5, <1>8 DEF Lookup
  <2> HIDE DEF r
  <2>3. MovedTo(x, r) /\ connector[Firebase] # None
    BY <1>1, <1>8, <2>1, <2>2, ReadsEnds
  <2>4. req'[x].row = connector[Firebase]
    BY <2>1, <2>3 DEF MovedTo
  <2>5. req'[x].state = "running"
    <3>1. req[x].left = <<"lookup", "token", "send">>
      BY <1>5, <1>8 DEF Lookup, Reads, At, UseLeft
    <3>2. Tail(<<"lookup", "token", "send">>) # <<>>
      OBVIOUS
    <3> QED
      BY <2>3, <3>1, <3>2 DEF MovedTo
  <2>6. PICK y : y = connector[Firebase].secret
    OBVIOUS
  <2>7. StoredSince(y, d)'
    BY <1>5, <2>3, <2>6, StoredStays DEF CredentialInv
  <2> QED
    BY <2>4, <2>5, <2>6, <2>7 DEF Held, Done
<1>9. CASE Token(x) /\ ~RefusedThere(x)
  <2>1. MovedTo(x, req[x]) /\ At(x, "token")
    BY <1>1, <1>9, MovesMoves, RefusesStops DEF Token
  <2>2. req'[x].row = req[x].row /\ req'[x].state = "running"
    <3>1. req[x].left = <<"token", "send">>
      BY <1>5, <2>1 DEF At, UseLeft
    <3>2. Tail(<<"token", "send">>) # <<>>
      OBVIOUS
    <3> QED
      BY <2>1, <3>1, <3>2 DEF MovedTo
  <2>3. PICK y : y = req[x].row.secret
    OBVIOUS
  <2>4. StoredSince(y, d)'
    BY <1>2, <1>4, <1>5, <2>1, <2>3, StoredStays DEF CredentialInv, Held
  <2> QED
    BY <2>2, <2>3, <2>4 DEF Held, Done
<1>10. CASE Send(x) /\ ~RefusedThere(x)
  <2> DEFINE r == [req[x] EXCEPT !.value = req[x].row.secret]
  <2>1. IsHandler(r) /\ r.left = req[x].left /\ r.state = "running" /\ r.value = req[x].row.secret
    BY Zenon, <1>1, Rewritten
  <2>2. Reads(x, "send", UnderBase(x), r) /\ At(x, "send")
    BY <1>10 DEF Send, Reads
  <2> HIDE DEF r
  <2>3. MovedTo(x, r)
    BY <1>1, <1>10, <2>1, <2>2, ReadsEnds
  <2>4. req'[x].value = req[x].row.secret /\ req'[x].state = "done"
    <3>1. req[x].left = <<"send">>
      BY <1>5, <2>2 DEF At, UseLeft
    <3>2. Tail(<<"send">>) = <<>>
      OBVIOUS
    <3> QED
      BY <2>1, <2>3, <3>1, <3>2 DEF MovedTo
  <2>5. PICK y : y = req[x].row.secret
    OBVIOUS
  <2>6. StoredSince(y, d)'
    BY <1>2, <1>4, <1>5, <2>2, <2>5, StoredStays DEF CredentialInv, Held
  <2> QED
    BY <2>4, <2>5, <2>6 DEF Held, At, Running
<1> QED
  BY <1>6, <1>7, <1>8, <1>9, <1>10, ConnectorSteps DEF ConnectorOps

\* A disconnection drops the row, and no request began after it yet.
LEMMA DisconnectHandled ==
  ASSUME HandlerInv, CredentialInv, Steps, NEW x \in Slots, HandleStep(x), Op(x) = "disconnect"
  PROVE  CredentialInv'
<1>1. /\ Fixed(x) /\ Running(x) /\ Began(x) /\ asked' = asked /\ before' = before
      /\ IsHandler(req[x]) /\ req[x].state = "running" /\ req[x].left \in DisconnectLeft
  BY ConnectorSteps, FixedIsHandler DEF HandleStep, ConnectorOps, StepsLeft
<1>2. /\ \A d \in Drops' : d # x => d \in Drops
      /\ \A u \in Uses' : u \in Uses /\ u # x /\ req'[u] = req[u]
  BY <1>1 DEF HandleStep, OthersStay, Drops, Uses, Of, Began, Op, Done
<1>3. CASE Drop(x)
  <2>1. connector' = [connector EXCEPT ![asked[x].connector] = None]
    BY <1>3 DEF Drop
  <2>2. /\ connector' = [c \in ConnectorIds |-> connector'[c]]
        /\ connector'[Firebase] = connector[Firebase] \/ connector'[Firebase] = None
        /\ asked[x].connector = Firebase => connector'[Firebase] = None
    BY <2>1 DEF CredentialInv, ConnectorIds
  <2>3. ASSUME NEW d \in Drops', connector'[Firebase] # None PROVE StoredSince(connector[Firebase].secret, d)'
    <3>1. d \in Drops /\ d \in Slots /\ Began(d)
      BY <1>1, <1>2, <2>2, <2>3, ConnectorsFixed DEF Drops
    <3>2. PICK y : y = connector[Firebase].secret
      OBVIOUS
    <3>3. StoredSince(y, d)'
      BY <2>2, <2>3, <3>1, <3>2, StoredStays DEF CredentialInv
    <3> QED
      BY <2>2, <2>3, <3>2, <3>3
  <2>4. ASSUME NEW d \in Drops', NEW u \in Uses', <<d, u>> \in before' PROVE Held(u, d)'
    <3>1. d # x
      BY <1>1, <1>2, <2>4, ConnectorsFixed DEF HandlerInv, Ended, Running
    <3>2. d \in Drops /\ d \in Slots /\ Began(d) /\ Held(u, d)
      BY <1>1, <1>2, <2>4, <3>1, ConnectorsFixed DEF CredentialInv
    <3> QED
      BY <1>2, <3>2, HeldStays
  <2> QED
    BY <2>2, <2>3, <2>4 DEF CredentialInv
<1>4. CASE (Actor(x) \/ Lookup(x)) /\ ~Drop(x)
  <2>1. connector' = connector
    BY <1>4 DEF Actor, Lookup, connectorVars
  <2>2. ~Done(x)'
    <3>1. CASE RefusedThere(x)
      BY <3>1 DEF RefusedThere, Done
    <3>2. CASE \E r : MovedTo(x, r)
      <4>1. req[x].left \in {<<"actor", "lookup", "drop">>, <<"lookup", "drop">>}
        BY <1>1, <1>4 DEF Actor, Lookup, Reads, At, DisconnectLeft
      <4>2. Tail(<<"actor", "lookup", "drop">>) # <<>> /\ Tail(<<"lookup", "drop">>) # <<>>
        OBVIOUS
      <4> QED
        BY <3>2, <4>1, <4>2 DEF MovedTo, Done
    <3> QED
      BY <1>1, <3>1, <3>2 DEF HandleStep
  <2> QED
    BY <1>2, <2>1, <2>2, CredentialElsewhere DEF Drops, CredentialInv
<1> QED
  BY <1>3, <1>4, ConnectorSteps DEF ConnectorOps

LEMMA CredentialStep ==
  ASSUME HandlerInv, CredentialInv, Steps
  PROVE  CredentialInv'
<1>1. ASSUME NEW x \in Slots, ArriveStep(x) PROVE CredentialInv'
  <2>1. Drops' \subseteq Drops /\ \A u \in Uses' : u # x => u \in Uses /\ req'[u] = req[u]
    BY <1>1 DEF ArriveStep, ArrivedAt, OthersStay, Drops, Uses, Of, Began, Op, Done
  <2>2. ASSUME x \in Uses', NEW d PROVE Held(x, d)'
    BY <1>1, <2>2, Programs DEF ArriveStep, ArrivedAt, Held, Done, At, Running, Uses, Of, Op
  <2> QED
    BY <1>1, <2>1, <2>2, CredentialElsewhere DEF ArriveStep, connectorVars, CredentialInv
<1>2. ASSUME NEW x \in Slots, HandleStep(x) PROVE CredentialInv'
  <2>1. CASE Op(x) \in ConnectorOps
    BY <1>2, <2>1, ConnectHandled, UseHandled, DisconnectHandled DEF ConnectorOps
  <2>2. CASE Op(x) \notin ConnectorOps
    <3>1. connector' = connector
      BY <1>2, <2>2 DEF HandleStep, Handles, connectorVars, ConnectorOps, ConnectorProgram
    <3>2. Drops' \subseteq Drops /\ \A u \in Uses' : u \in Uses /\ req'[u] = req[u]
      BY <1>2, <2>2 DEF HandleStep, OthersStay, Drops, Uses, Of, Began, Op, Done, ConnectorOps
    <3> QED
      BY <3>1, <3>2, CredentialElsewhere DEF CredentialInv
  <2> QED
    BY <2>1, <2>2
<1>3. CASE StopStep
  <2>1. Drops' \subseteq Drops
    BY <1>3 DEF StopStep, Drops, Of, Fixed, FixedOps, Began, Op, Done
  <2>2. ASSUME NEW u \in Uses' PROVE (u \in Uses /\ req'[u] = req[u]) \/ \A d \in Drops' : Held(u, d)'
    BY <1>3, <2>2 DEF StopStep, Uses, Of, Fixed, FixedOps, Began, Op, Held, At, Done, Running
  <2> QED
    BY <1>3, <2>1, <2>2, CredentialElsewhere DEF StopStep, connectorVars, CredentialInv
<1>4. CASE NoStep
  BY <1>4, CredentialElsewhere DEF NoStep, Drops, Uses, Of, Began, Op, Done, connectorVars, CredentialInv
<1> QED
  BY <1>1, <1>2, <1>3, <1>4 DEF Steps

\* A request that is made through a provider after it was disconnected is never sent with
\* a credential from before: useConnector reads the row once and then uses it, and
\* disconnect deletes the row (connector-service.ts).
THEOREM DisconnectedUnused == Spec => []DisconnectedIsUnused
<1>1. Init => CredentialInv
  BY DEF Init, RequestsInit, ConnectorsInit, CredentialInv, Drops, Uses, Of, Began, Fresh
<1>2. HandlerInv /\ CredentialInv /\ [Next]_vars => CredentialInv'
  BY NextSteps, CredentialStep
<1>3. CredentialInv => DisconnectedIsUnused
  BY DEF CredentialInv, DisconnectedIsUnused, Drops, Uses, Held, StoredSince
<1> QED
  BY <1>1, <1>2, <1>3, HandlersHold, PTL DEF Spec

-----------------------------------------------------------------------------
(* Dates.  The search answers the first minute that it tries and that the   *)
(* expression selects, and for plain fields this is what standard cron says.*)

\* Of some minutes one is the first.
LEMMA FirstExists ==
  ASSUME NEW S \in SUBSET Nat, S # {}
  PROVE  \E m \in S : \A n \in S : m <= n
<1> DEFINE R == OpToRel(<, Nat)
<1>1. IsWellFoundedOn(R, Nat)
  BY NatLessThanWellFounded
<1>2. ASSUME NEW m \in S, NEW n \in S, n < m PROVE <<n, m>> \in R
  BY <1>2 DEF OpToRel
<1> HIDE DEF R
<1>3. PICK m \in S : \A n \in S : <<n, m>> \notin R
  BY <1>1, WFMin
<1>4. ASSUME NEW n \in S PROVE m <= n
  <2>1. ~(n < m)
    BY <1>2, <1>3
  <2>2. n \in Nat /\ m \in Nat
    OBVIOUS
  <2> QED
    BY <2>1, <2>2
<1> QED
  BY <1>4

\* A field that is a star selects every minute that is shown.
LEMMA StarSelects ==
  ASSUME NEW e \in Expressions, NEW f \in {"day", "weekday"}, NEW m \in DOMAIN Local,
         Starred(e, f), e[f][1].step = 0, Len(e[f]) = 1
  PROVE  Matches(e, f, m)
<1> DEFINE v == Local[m][f]   seg == e[f][1]
<1>1. f \in Fields /\ v \in Least(f)..Greatest(f) /\ (f = "weekday" => v # 7)
  BY ClockAssumption DEF Fields
<1>2. Least(f) \in Int /\ Greatest(f) \in Int
  BY <1>1, FieldsAssumption
<1>3. seg \in Segments(e, f)
  BY <1>1 DEF Expressions, Segments
<1>4. StepOf(seg) = 1 /\ Start(f, seg) = Least(f) /\ End(f, seg) = Greatest(f)
  <2>1. seg.step = 0 /\ seg.base = Star
    BY DEF Starred
  <2> HIDE DEF seg
  <2>2. StepOf(seg) = 1
    BY <2>1 DEF StepOf
  <2>3. Start(f, seg) = Least(f)
    BY <2>1 DEF Start
  <2>4. End(f, seg) = Greatest(f)
    <3>1. Len(Star) # 1 /\ Len(Star) # 2
      BY DEF Star
    <3> QED
      BY <2>1, <3>1 DEF End
  <2> QED
    BY <2>2, <2>3, <2>4
<1>5. v \in Start(f, seg)..End(f, seg) /\ (v - Start(f, seg)) % StepOf(seg) = 0
  BY <1>1, <1>2, <1>4
<1>6. v \in UNION {{w \in Start(f, g)..End(f, g) : (w - Start(f, g)) % StepOf(g) = 0} : g \in Segments(e, f)}
  BY <1>3, <1>5
<1> QED
  BY <1>1, <1>6 DEF Matches, Selected

\* With plain fields for days, the code selects the minutes that standard cron does.
LEMMA PlainIsStandard ==
  ASSUME NEW e \in Expressions, PlainDays(e), NEW m \in DOMAIN Local
  PROVE  Occurs(e, m) <=> Standard(e, m)
<1>1. \A f \in {"day", "weekday"} : Wildcard(e, f) <=> Starred(e, f)
  BY DEF PlainDays, Wildcard, Starred
<1>2. \A f \in {"day", "weekday"} : Starred(e, f) => Matches(e, f, m)
  BY StarSelects DEF PlainDays
<1> QED
  BY <1>1, <1>2 DEF Occurs, Standard, DayMatches

LEMMA DateIsFirst ==
  ASSUME NEW e \in Expressions, NEW now \in Nat, Tried(now) \subseteq DOMAIN Local, PlainDays(e),
         HasOccurrence(e, now)
  PROVE  IsFirst(e, now, NextCronOccurrence(e, now))
<1> DEFINE date == NextCronOccurrence(e, now)
<1>1. Occurrences(e, now) \in SUBSET Nat /\ Occurrences(e, now) # {}
  BY HorizonAssumption DEF HasOccurrence, Occurrences, Tried
<1>2. date \in Occurrences(e, now) /\ \A n \in Occurrences(e, now) : date <= n
  BY <1>1, FirstExists DEF NextCronOccurrence
<1> HIDE DEF date
<1>3. date \in Tried(now) /\ Standard(e, date)
  BY <1>2, PlainIsStandard DEF Occurrences
<1>4. ASSUME NEW m \in (now + 1)..(date - 1) PROVE ~Standard(e, m)
  <2>1. m \in Tried(now) /\ m < date
    BY <1>3, HorizonAssumption DEF Tried
  <2>2. m \notin Occurrences(e, now)
    BY <1>1, <1>2, <2>1
  <2> QED
    BY <2>1, <2>2, PlainIsStandard DEF Occurrences
<1>5. date > now
  BY <1>3, HorizonAssumption DEF Tried
<1> QED
  BY <1>3, <1>4, <1>5 DEF IsFirst, date

LEMMA NoDate ==
  ASSUME NEW e \in Expressions, NEW now \in Nat, Tried(now) \subseteq DOMAIN Local,
         ~HasOccurrence(e, now), IsValid(e), PlainDays(e), NEW m \in Tried(now)
  PROVE  ~Standard(e, m)
  BY PlainIsStandard DEF HasOccurrence, Occurrences

DateInv ==
    /\ \A s \in Dated : /\ HasOccurrence(asked[s].cron, asked[s].now)
                        /\ req[s].value = NextCronOccurrence(asked[s].cron, asked[s].now)
    /\ \A s \in Of({"createSchedule"}) : RefusedAt(s, "date") /\ faults = 0 =>
          ~HasOccurrence(asked[s].cron, asked[s].now)

LEMMA DateStep ==
  ASSUME HandlerInv, DateInv, Steps
  PROVE  DateInv'
<1>1. ASSUME NEW x \in Slots, ArriveStep(x) PROVE DateInv'
  <2>1. \A s \in Slots : s # x => req'[s] = req[s]
    BY <1>1 DEF ArriveStep, OthersStay
  <2>2. ~Done(x)' /\ ~RefusedAt(x, "date")'
    BY <1>1 DEF ArriveStep, ArrivedAt, Done, RefusedAt
  <2> QED
    BY <1>1, <2>1, <2>2 DEF ArriveStep, DateInv, Dated, Of, Began, Op, Done, RefusedAt
<1>2. ASSUME NEW x \in Slots, HandleStep(x) PROVE DateInv'
  <2>1. UNCHANGED <<asked, faults>> /\ \A s \in Slots : s # x => req'[s] = req[s]
    BY <1>2 DEF HandleStep, OthersStay
  <2>2. CASE Op(x) # "createSchedule"
    BY <2>1, <2>2 DEF DateInv, Dated, Of, Began, Op, Done, RefusedAt
  <2>3. CASE Op(x) = "createSchedule"
    <3>1. /\ Fixed(x) /\ Running(x) /\ IsHandler(req[x]) /\ req[x].state = "running" /\ req[x].left \in ScheduleLeft
          /\ Began(x)
      BY <1>2, <2>3, FixedIsHandler DEF HandleStep, Fixed, FixedOps, StepsLeft, Running, Began
    <3>2. GetAgent(x) \/ FindHome(x) \/ FirstRun(x)
      BY <1>2, <2>3, <3>1, FixedSteps DEF HandleStep
    <3>3. /\ Done(x)' => HasOccurrence(asked[x].cron, asked[x].now)
                           /\ req'[x].value = NextCronOccurrence(asked[x].cron, asked[x].now)
          /\ RefusedAt(x, "date")' => ~HasOccurrence(asked[x].cron, asked[x].now)
      <4>1. CASE GetAgent(x) \/ FindHome(x)
        <5>1. Head(req[x].left) # "date" /\ Tail(req[x].left) # <<>>
          <6>1. req[x].left \in {<<"getAgent", "home", "date">>, <<"home", "date">>}
            BY <3>1, <4>1 DEF GetAgent, FindHome, Reads, At, ScheduleLeft
          <6>2. Tail(<<"getAgent", "home", "date">>) # <<>> /\ Tail(<<"home", "date">>) # <<>>
            OBVIOUS
          <6>3. Head(<<"getAgent", "home", "date">>) # "date" /\ Head(<<"home", "date">>) # "date"
            OBVIOUS
          <6> QED
            BY <6>1, <6>2, <6>3
        <5>2. MovedTo(x, req[x]) \/ RefusedThere(x)
          BY <3>1, <4>1, ReadsEnds DEF GetAgent, FindHome
        <5> QED
          BY <5>1, <5>2 DEF MovedTo, RefusedThere, Done, RefusedAt
      <4>2. CASE FirstRun(x)
        <5> DEFINE r == [req[x] EXCEPT !.value = NextCronOccurrence(asked[x].cron, asked[x].now)]
        <5>1. /\ IsHandler(r) /\ r.left = req[x].left /\ r.state = "running"
              /\ r.value = NextCronOccurrence(asked[x].cron, asked[x].now)
          <6> DEFINE v == NextCronOccurrence(asked[x].cron, asked[x].now)
          <6> HIDE DEF v
          <6>1. /\ IsHandler([req[x] EXCEPT !.value = v]) /\ [req[x] EXCEPT !.value = v].left = req[x].left
                /\ [req[x] EXCEPT !.value = v].state = "running" /\ [req[x] EXCEPT !.value = v].value = v
            BY <3>1, Valued
          <6> QED
            BY <6>1 DEF v
        <5>2. IF HasOccurrence(asked[x].cron, asked[x].now) THEN Moves(x, r) ELSE Refuses(x)
          BY <4>2 DEF FirstRun
        <5> HIDE DEF r
        <5>3. IF HasOccurrence(asked[x].cron, asked[x].now) THEN MovedTo(x, r) ELSE RefusedThere(x)
          BY <3>1, <5>1, <5>2, MovesMoves, RefusesStops
        <5> QED
          BY <5>1, <5>3 DEF MovedTo, RefusedThere, Done, RefusedAt
      <4> QED
        BY <3>2, <4>1, <4>2
    <3> QED
      BY <2>1, <3>1, <3>3 DEF DateInv, Dated, Of, Began, Op, Done, RefusedAt
  <2> QED
    BY <2>2, <2>3
<1>3. CASE StopStep
  BY <1>3 DEF StopStep, DateInv, Dated, Of, Began, Op, Done, Fixed, FixedOps
<1>4. CASE NoStep
  BY <1>4 DEF NoStep, DateInv, Dated, Of, Began, Op, Done, RefusedAt
<1> QED
  BY <1>1, <1>2, <1>3, <1>4 DEF Steps

\* A schedule gets the first date of its expression after now, and is refused for its
\* expression only if there is none in the time searched (nextCronOccurrence, cron.ts),
\* whatever the calendar, the expression and the length of the search.
THEOREM FirstDates == Spec => []FirstDate
<1>1. Init => DateInv
  BY DEF Init, RequestsInit, DateInv, Dated, Of, Began, Fresh
<1>2. HandlerInv /\ DateInv /\ [Next]_vars => DateInv'
  BY NextSteps, DateStep
<1>3. HandlerInv /\ DateInv => FirstDate
  <2> SUFFICES ASSUME HandlerInv, DateInv PROVE FirstDate
    OBVIOUS
  <2>1. ASSUME NEW s \in Of({"createSchedule"})
        PROVE  /\ asked[s].cron \in Expressions /\ asked[s].now \in Nat
               /\ Tried(asked[s].now) \subseteq DOMAIN Local
    BY <2>1, InputsAssumption DEF HandlerInv, Of, Op, Fixed, FixedOps, WellFormed
  <2>2. \A s \in Dated : PlainDays(asked[s].cron) => IsFirst(asked[s].cron, asked[s].now, req[s].value)
    BY <2>1, DateIsFirst DEF DateInv, Dated
  <2>3. ASSUME NEW s \in Of({"createSchedule"}), RefusedAt(s, "date"), faults = 0,
               IsValid(asked[s].cron), PlainDays(asked[s].cron)
        PROVE  \A m \in Tried(asked[s].now) : ~Standard(asked[s].cron, m)
    BY <2>1, <2>3, NoDate DEF DateInv
  <2> QED
    BY <2>2, <2>3 DEF FirstDate
<1> QED
  BY <1>1, <1>2, <1>3, HandlersHold, PTL DEF Spec
-----------------------------------------------------------------------------
(* Every handler.  What is left of it is the rest of one of the ways it may *)
(* take through its steps, and it holds at each step what the step needs.   *)

\* The ways of the handlers: their programs, or what these turn into by what is found.
ClearRest == <<"check", "erase", "getAgent", "putAgent", "look", "store">>
Ways == [
    read |-> {<<"read">>},
    updateProfile |-> {<<"getProfile", "putProfile">>},
    createSchedule |-> {<<"getAgent", "home", "date">>},
    connect |-> {<<"actor", "token", "verify", "existing", "keep">>},
    createConnector |-> {<<"actor", "add">>},
    useConnector |-> {<<"actor", "lookup", "token", "send">>},
    disconnect |-> {<<"actor", "lookup", "drop">>},
    createAgent |-> {<<"enlist">>},
    duplicateAgent |-> {<<"getAgent", "enlist">>},
    updateAgent |-> {<<"getAgent", "putAgent">>},
    deleteAgent |-> {<<"survey", "dismiss">>, <<"detach", "dismiss">>},
    createConversation |-> {<<"look", "store">>},
    updateConversation |-> {<<"get", "save">>},
    deleteConversation |-> {<<"check", "erase">>},
    clearConversation |-> {<<"open", "check", "erase", "getAgent", "putAgent", "look", "store">>,
                           <<"interrupt", "check", "erase", "getAgent", "putAgent", "look", "store">>},
    sendMessage |-> {<<"address", "attach", "commit", "touch">>},
    sendCollaborationMessage |-> {<<"meet">>, <<"get", "save", "say", "touch">>,
                                  <<"look", "store", "getTask", "putTask", "say", "touch">>},
    requestAgentHelp |-> {<<"ask", "newTask", "look", "store", "getTask", "putTask", "commit", "touch">>},
    readAgentHelp |-> {<<"readHelp">>},
    upload |-> {<<"stage", "validate", "move", "record", "announce">>},
    rename |-> {<<"getArtifact", "putArtifact">>},
    download |-> {<<"openFile">>}]

StepNames ==
    {"read", "getProfile", "putProfile", "home", "date", "actor", "token", "verify", "existing", "keep", "add",
     "lookup", "send", "drop", "enlist", "getAgent", "putAgent", "survey", "detach", "dismiss", "look", "store",
     "get", "save", "check", "erase", "open", "interrupt", "address", "attach", "commit", "touch", "meet",
     "getTask", "putTask", "say", "ask", "newTask", "readHelp", "stage", "validate", "move", "record",
     "announce", "getArtifact", "putArtifact", "openFile"}

From(p, k) == SubSeq(p, k, Len(p))
RestsOf(op) == UNION {{From(p, k) : k \in 1..Len(p)} : p \in Ways[op]}

LEMMA FromGoesOn ==
  ASSUME NEW S, NEW p \in Seq(S), NEW k \in 1..Len(p)
  PROVE  /\ From(p, k) # <<>> /\ Head(From(p, k)) = p[k]
         /\ Tail(From(p, k)) = IF k = Len(p) THEN <<>> ELSE From(p, k + 1)
<1>1. Len(p) \in Nat
  BY LenProperties
<1>2. Head(From(p, k)) = p[k] /\ Tail(From(p, k)) = From(p, k + 1)
  BY <1>1, HeadTailOfSubSeq DEF From
<1>3. k = Len(p) => From(p, k + 1) = <<>>
  BY <1>1, SubSeqEmpty DEF From
<1>4. From(p, k) # <<>>
  <2>1. Len(From(p, k)) = Len(p) - k + 1
    BY <1>1, SubSeqProperties, ElementOfSeq DEF From
  <2> QED
    BY <1>1, <2>1, EmptySeq
<1> QED
  BY <1>2, <1>3, <1>4

LEMMA Joined ==
  ASSUME NEW S, NEW s \in Seq(S), NEW t \in Seq(S), NEW u \in Seq(S), Len(u) = Len(s) + Len(t),
         \A i \in 1..Len(s) : u[i] = s[i], \A i \in 1..Len(t) : u[Len(s) + i] = t[i]
  PROVE  s \o t = u
<1>1. Len(s) \in Nat /\ Len(t) \in Nat
  BY LenProperties
<1>2. s \o t \in Seq(S) /\ Len(s \o t) = Len(u)
  BY ConcatProperties
<1>3. ASSUME NEW i \in 1..Len(u) PROVE (s \o t)[i] = u[i]
  <2>1. CASE i <= Len(s)
    BY <1>1, <2>1, ConcatProperties
  <2>2. CASE ~(i <= Len(s))
    <3>1. i - Len(s) \in 1..Len(t) /\ Len(s) + (i - Len(s)) = i
      BY <1>1, <2>2
    <3> QED
      BY <1>1, <2>2, <3>1, ConcatProperties
  <2> QED
    BY <2>1, <2>2
<1> QED
  BY <1>2, <1>3, SeqEqual

\* The steps of each handler, in no order.
StepsOf == [
    read |-> {"read"},
    updateProfile |-> {"getProfile", "putProfile"},
    createSchedule |-> {"getAgent", "home", "date"},
    connect |-> {"actor", "token", "verify", "existing", "keep"},
    createConnector |-> {"actor", "add"},
    useConnector |-> {"actor", "lookup", "token", "send"},
    disconnect |-> {"actor", "lookup", "drop"},
    createAgent |-> {"enlist"},
    duplicateAgent |-> {"getAgent", "enlist"},
    updateAgent |-> {"getAgent", "putAgent"},
    deleteAgent |-> {"survey", "dismiss", "detach"},
    createConversation |-> {"look", "store"},
    updateConversation |-> {"get", "save"},
    deleteConversation |-> {"check", "erase"},
    clearConversation |-> {"open", "check", "erase", "getAgent", "putAgent", "look", "store", "interrupt"},
    sendMessage |-> {"address", "attach", "commit", "touch"},
    sendCollaborationMessage |-> {"meet", "get", "save", "say", "touch", "look", "store", "getTask", "putTask"},
    requestAgentHelp |-> {"ask", "newTask", "look", "store", "getTask", "putTask", "commit", "touch"},
    readAgentHelp |-> {"readHelp"},
    upload |-> {"stage", "validate", "move", "record", "announce"},
    rename |-> {"getArtifact", "putArtifact"},
    download |-> {"openFile"}]

\* A way is a sequence of steps, and they are the handler's.
LEMMA WaysAreOfSteps ==
  ASSUME NEW op \in DOMAIN Ways, NEW p \in Ways[op]
  PROVE  p \in Seq(StepNames) /\ \A k \in 1..Len(p) : p[k] \in StepsOf[op]
<1> DEFINE Goal == p \in Seq(StepNames) /\ \A k \in 1..Len(p) : p[k] \in StepsOf[op]
<1>1. ASSUME op = "read" PROVE Goal
  <2>1. Ways["read"] = {<<"read">>}
    BY DEF Ways
  <2>2. StepsOf["read"] = {"read"}
    BY DEF StepsOf
  <2>3. <<"read">> \in Seq(StepNames)
    BY DEF StepNames
  <2>4. p = <<"read">>
    BY <1>1, <2>1
  <2>5. ASSUME NEW k \in 1..Len(p) PROVE p[k] \in {"read"}
    BY <2>4
  <2> QED
    BY <1>1, <2>2, <2>3, <2>4, <2>5
<1>2. ASSUME op = "updateProfile" PROVE Goal
  <2>1. Ways["updateProfile"] = {<<"getProfile", "putProfile">>}
    BY DEF Ways
  <2>2. StepsOf["updateProfile"] = {"getProfile", "putProfile"}
    BY DEF StepsOf
  <2>3. <<"getProfile", "putProfile">> \in Seq(StepNames)
    BY DEF StepNames
  <2>4. p = <<"getProfile", "putProfile">>
    BY <1>2, <2>1
  <2>5. ASSUME NEW k \in 1..Len(p) PROVE p[k] \in {"getProfile", "putProfile"}
    BY <2>4
  <2> QED
    BY <1>2, <2>2, <2>3, <2>4, <2>5
<1>3. ASSUME op = "createSchedule" PROVE Goal
  <2>1. Ways["createSchedule"] = {<<"getAgent", "home", "date">>}
    BY DEF Ways
  <2>2. StepsOf["createSchedule"] = {"getAgent", "home", "date"}
    BY DEF StepsOf
  <2>3. <<"getAgent", "home", "date">> \in Seq(StepNames)
    BY DEF StepNames
  <2>4. p = <<"getAgent", "home", "date">>
    BY <1>3, <2>1
  <2>5. ASSUME NEW k \in 1..Len(p) PROVE p[k] \in {"getAgent", "home", "date"}
    BY <2>4
  <2> QED
    BY <1>3, <2>2, <2>3, <2>4, <2>5
<1>4. ASSUME op = "connect" PROVE Goal
  <2>1. Ways["connect"] = {<<"actor", "token", "verify", "existing", "keep">>}
    BY DEF Ways
  <2>2. StepsOf["connect"] = {"actor", "token", "verify", "existing", "keep"}
    BY DEF StepsOf
  <2>3. <<"actor", "token", "verify", "existing", "keep">> \in Seq(StepNames)
    BY DEF StepNames
  <2>4. p = <<"actor", "token", "verify", "existing", "keep">>
    BY <1>4, <2>1
  <2>5. ASSUME NEW k \in 1..Len(p) PROVE p[k] \in {"actor", "token", "verify", "existing", "keep"}
    BY <2>4
  <2> QED
    BY <1>4, <2>2, <2>3, <2>4, <2>5
<1>5. ASSUME op = "createConnector" PROVE Goal
  <2>1. Ways["createConnector"] = {<<"actor", "add">>}
    BY DEF Ways
  <2>2. StepsOf["createConnector"] = {"actor", "add"}
    BY DEF StepsOf
  <2>3. <<"actor", "add">> \in Seq(StepNames)
    BY DEF StepNames
  <2>4. p = <<"actor", "add">>
    BY <1>5, <2>1
  <2>5. ASSUME NEW k \in 1..Len(p) PROVE p[k] \in {"actor", "add"}
    BY <2>4
  <2> QED
    BY <1>5, <2>2, <2>3, <2>4, <2>5
<1>6. ASSUME op = "useConnector" PROVE Goal
  <2>1. Ways["useConnector"] = {<<"actor", "lookup", "token", "send">>}
    BY DEF Ways
  <2>2. StepsOf["useConnector"] = {"actor", "lookup", "token", "send"}
    BY DEF StepsOf
  <2>3. <<"actor", "lookup", "token", "send">> \in Seq(StepNames)
    BY DEF StepNames
  <2>4. p = <<"actor", "lookup", "token", "send">>
    BY <1>6, <2>1
  <2>5. ASSUME NEW k \in 1..Len(p) PROVE p[k] \in {"actor", "lookup", "token", "send"}
    BY <2>4
  <2> QED
    BY <1>6, <2>2, <2>3, <2>4, <2>5
<1>7. ASSUME op = "disconnect" PROVE Goal
  <2>1. Ways["disconnect"] = {<<"actor", "lookup", "drop">>}
    BY DEF Ways
  <2>2. StepsOf["disconnect"] = {"actor", "lookup", "drop"}
    BY DEF StepsOf
  <2>3. <<"actor", "lookup", "drop">> \in Seq(StepNames)
    BY DEF StepNames
  <2>4. p = <<"actor", "lookup", "drop">>
    BY <1>7, <2>1
  <2>5. ASSUME NEW k \in 1..Len(p) PROVE p[k] \in {"actor", "lookup", "drop"}
    BY <2>4
  <2> QED
    BY <1>7, <2>2, <2>3, <2>4, <2>5
<1>8. ASSUME op = "createAgent" PROVE Goal
  <2>1. Ways["createAgent"] = {<<"enlist">>}
    BY DEF Ways
  <2>2. StepsOf["createAgent"] = {"enlist"}
    BY DEF StepsOf
  <2>3. <<"enlist">> \in Seq(StepNames)
    BY DEF StepNames
  <2>4. p = <<"enlist">>
    BY <1>8, <2>1
  <2>5. ASSUME NEW k \in 1..Len(p) PROVE p[k] \in {"enlist"}
    BY <2>4
  <2> QED
    BY <1>8, <2>2, <2>3, <2>4, <2>5
<1>9. ASSUME op = "duplicateAgent" PROVE Goal
  <2>1. Ways["duplicateAgent"] = {<<"getAgent", "enlist">>}
    BY DEF Ways
  <2>2. StepsOf["duplicateAgent"] = {"getAgent", "enlist"}
    BY DEF StepsOf
  <2>3. <<"getAgent", "enlist">> \in Seq(StepNames)
    BY DEF StepNames
  <2>4. p = <<"getAgent", "enlist">>
    BY <1>9, <2>1
  <2>5. ASSUME NEW k \in 1..Len(p) PROVE p[k] \in {"getAgent", "enlist"}
    BY <2>4
  <2> QED
    BY <1>9, <2>2, <2>3, <2>4, <2>5
<1>10. ASSUME op = "updateAgent" PROVE Goal
  <2>1. Ways["updateAgent"] = {<<"getAgent", "putAgent">>}
    BY DEF Ways
  <2>2. StepsOf["updateAgent"] = {"getAgent", "putAgent"}
    BY DEF StepsOf
  <2>3. <<"getAgent", "putAgent">> \in Seq(StepNames)
    BY DEF StepNames
  <2>4. p = <<"getAgent", "putAgent">>
    BY <1>10, <2>1
  <2>5. ASSUME NEW k \in 1..Len(p) PROVE p[k] \in {"getAgent", "putAgent"}
    BY <2>4
  <2> QED
    BY <1>10, <2>2, <2>3, <2>4, <2>5
<1>11. ASSUME op = "deleteAgent" PROVE Goal
  <2>1. Ways["deleteAgent"] = {<<"survey", "dismiss">>, <<"detach", "dismiss">>}
    BY DEF Ways
  <2>2. StepsOf["deleteAgent"] = {"survey", "dismiss", "detach"}
    BY DEF StepsOf
  <2>3. <<"survey", "dismiss">> \in Seq(StepNames)
    BY DEF StepNames
  <2>4. <<"detach", "dismiss">> \in Seq(StepNames)
    BY DEF StepNames
  <2>5. ASSUME NEW k \in 1..Len(p) PROVE p[k] \in {"survey", "dismiss", "detach"}
    BY <1>11, <2>1
  <2> QED
    BY <1>11, <2>1, <2>2, <2>3, <2>4, <2>5
<1>12. ASSUME op = "createConversation" PROVE Goal
  <2>1. Ways["createConversation"] = {<<"look", "store">>}
    BY DEF Ways
  <2>2. StepsOf["createConversation"] = {"look", "store"}
    BY DEF StepsOf
  <2>3. <<"look", "store">> \in Seq(StepNames)
    BY DEF StepNames
  <2>4. p = <<"look", "store">>
    BY <1>12, <2>1
  <2>5. ASSUME NEW k \in 1..Len(p) PROVE p[k] \in {"look", "store"}
    BY <2>4
  <2> QED
    BY <1>12, <2>2, <2>3, <2>4, <2>5
<1>13. ASSUME op = "updateConversation" PROVE Goal
  <2>1. Ways["updateConversation"] = {<<"get", "save">>}
    BY DEF Ways
  <2>2. StepsOf["updateConversation"] = {"get", "save"}
    BY DEF StepsOf
  <2>3. <<"get", "save">> \in Seq(StepNames)
    BY DEF StepNames
  <2>4. p = <<"get", "save">>
    BY <1>13, <2>1
  <2>5. ASSUME NEW k \in 1..Len(p) PROVE p[k] \in {"get", "save"}
    BY <2>4
  <2> QED
    BY <1>13, <2>2, <2>3, <2>4, <2>5
<1>14. ASSUME op = "deleteConversation" PROVE Goal
  <2>1. Ways["deleteConversation"] = {<<"check", "erase">>}
    BY DEF Ways
  <2>2. StepsOf["deleteConversation"] = {"check", "erase"}
    BY DEF StepsOf
  <2>3. <<"check", "erase">> \in Seq(StepNames)
    BY DEF StepNames
  <2>4. p = <<"check", "erase">>
    BY <1>14, <2>1
  <2>5. ASSUME NEW k \in 1..Len(p) PROVE p[k] \in {"check", "erase"}
    BY <2>4
  <2> QED
    BY <1>14, <2>2, <2>3, <2>4, <2>5
<1>15. ASSUME op = "clearConversation" PROVE Goal
  <2>1. Ways["clearConversation"] = {<<"open", "check", "erase", "getAgent", "putAgent", "look", "store">>,
                                     <<"interrupt", "check", "erase", "getAgent", "putAgent", "look", "store">>}
    BY DEF Ways
  <2>2. StepsOf["clearConversation"] = {"open", "check", "erase", "getAgent", "putAgent", "look", "store",
                                        "interrupt"}
    BY DEF StepsOf
  <2>3. <<"open", "check", "erase", "getAgent", "putAgent", "look", "store">> \in Seq(StepNames)
    BY DEF StepNames
  <2>4. <<"interrupt", "check", "erase", "getAgent", "putAgent", "look", "store">> \in Seq(StepNames)
    BY DEF StepNames
  <2>5. ASSUME NEW k \in 1..Len(p)
        PROVE  p[k] \in {"open", "check", "erase", "getAgent", "putAgent", "look", "store", "interrupt"}
    BY <1>15, <2>1
  <2> QED
    BY <1>15, <2>1, <2>2, <2>3, <2>4, <2>5
<1>16. ASSUME op = "sendMessage" PROVE Goal
  <2>1. Ways["sendMessage"] = {<<"address", "attach", "commit", "touch">>}
    BY DEF Ways
  <2>2. StepsOf["sendMessage"] = {"address", "attach", "commit", "touch"}
    BY DEF StepsOf
  <2>3. <<"address", "attach", "commit", "touch">> \in Seq(StepNames)
    BY DEF StepNames
  <2>4. p = <<"address", "attach", "commit", "touch">>
    BY <1>16, <2>1
  <2>5. ASSUME NEW k \in 1..Len(p) PROVE p[k] \in {"address", "attach", "commit", "touch"}
    BY <2>4
  <2> QED
    BY <1>16, <2>2, <2>3, <2>4, <2>5
<1>17. ASSUME op = "sendCollaborationMessage" PROVE Goal
  <2>1. Ways["sendCollaborationMessage"] = {<<"meet">>, <<"get", "save", "say", "touch">>,
                                            <<"look", "store", "getTask", "putTask", "say", "touch">>}
    BY DEF Ways
  <2>2. StepsOf["sendCollaborationMessage"] = {"meet", "get", "save", "say", "touch", "look", "store",
                                               "getTask", "putTask"}
    BY DEF StepsOf
  <2>3. <<"meet">> \in Seq(StepNames)
    BY DEF StepNames
  <2>4. <<"get", "save", "say", "touch">> \in Seq(StepNames)
    BY DEF StepNames
  <2>5. <<"look", "store", "getTask", "putTask", "say", "touch">> \in Seq(StepNames)
    BY DEF StepNames
  <2>6. ASSUME NEW k \in 1..Len(p)
        PROVE  p[k] \in {"meet", "get", "save", "say", "touch", "look", "store", "getTask", "putTask"}
    BY <1>17, <2>1
  <2> QED
    BY <1>17, <2>1, <2>2, <2>3, <2>4, <2>5, <2>6
<1>18. ASSUME op = "requestAgentHelp" PROVE Goal
  <2>1. Ways["requestAgentHelp"] = {<<"ask", "newTask", "look", "store", "getTask", "putTask", "commit", "touch">>}
    BY DEF Ways
  <2>2. StepsOf["requestAgentHelp"] = {"ask", "newTask", "look", "store", "getTask", "putTask", "commit",
                                       "touch"}
    BY DEF StepsOf
  <2>3. <<"ask", "newTask", "look", "store", "getTask", "putTask", "commit", "touch">> \in Seq(StepNames)
    BY DEF StepNames
  <2>4. p = <<"ask", "newTask", "look", "store", "getTask", "putTask", "commit", "touch">>
    BY <1>18, <2>1
  <2>5. ASSUME NEW k \in 1..Len(p)
        PROVE  p[k] \in {"ask", "newTask", "look", "store", "getTask", "putTask", "commit", "touch"}
    BY <2>4
  <2> QED
    BY <1>18, <2>2, <2>3, <2>4, <2>5
<1>19. ASSUME op = "readAgentHelp" PROVE Goal
  <2>1. Ways["readAgentHelp"] = {<<"readHelp">>}
    BY DEF Ways
  <2>2. StepsOf["readAgentHelp"] = {"readHelp"}
    BY DEF StepsOf
  <2>3. <<"readHelp">> \in Seq(StepNames)
    BY DEF StepNames
  <2>4. p = <<"readHelp">>
    BY <1>19, <2>1
  <2>5. ASSUME NEW k \in 1..Len(p) PROVE p[k] \in {"readHelp"}
    BY <2>4
  <2> QED
    BY <1>19, <2>2, <2>3, <2>4, <2>5
<1>20. ASSUME op = "upload" PROVE Goal
  <2>1. Ways["upload"] = {<<"stage", "validate", "move", "record", "announce">>}
    BY DEF Ways
  <2>2. StepsOf["upload"] = {"stage", "validate", "move", "record", "announce"}
    BY DEF StepsOf
  <2>3. <<"stage", "validate", "move", "record", "announce">> \in Seq(StepNames)
    BY DEF StepNames
  <2>4. p = <<"stage", "validate", "move", "record", "announce">>
    BY <1>20, <2>1
  <2>5. ASSUME NEW k \in 1..Len(p) PROVE p[k] \in {"stage", "validate", "move", "record", "announce"}
    BY <2>4
  <2> QED
    BY <1>20, <2>2, <2>3, <2>4, <2>5
<1>21. ASSUME op = "rename" PROVE Goal
  <2>1. Ways["rename"] = {<<"getArtifact", "putArtifact">>}
    BY DEF Ways
  <2>2. StepsOf["rename"] = {"getArtifact", "putArtifact"}
    BY DEF StepsOf
  <2>3. <<"getArtifact", "putArtifact">> \in Seq(StepNames)
    BY DEF StepNames
  <2>4. p = <<"getArtifact", "putArtifact">>
    BY <1>21, <2>1
  <2>5. ASSUME NEW k \in 1..Len(p) PROVE p[k] \in {"getArtifact", "putArtifact"}
    BY <2>4
  <2> QED
    BY <1>21, <2>2, <2>3, <2>4, <2>5
<1>22. ASSUME op = "download" PROVE Goal
  <2>1. Ways["download"] = {<<"openFile">>}
    BY DEF Ways
  <2>2. StepsOf["download"] = {"openFile"}
    BY DEF StepsOf
  <2>3. <<"openFile">> \in Seq(StepNames)
    BY DEF StepNames
  <2>4. p = <<"openFile">>
    BY <1>22, <2>1
  <2>5. ASSUME NEW k \in 1..Len(p) PROVE p[k] \in {"openFile"}
    BY <2>4
  <2> QED
    BY <1>22, <2>2, <2>3, <2>4, <2>5
<1> QED
  BY <1>1, <1>2, <1>3, <1>4, <1>5, <1>6, <1>7, <1>8, <1>9, <1>10, <1>11,
     <1>12, <1>13, <1>14, <1>15, <1>16, <1>17, <1>18, <1>19, <1>20, <1>21, <1>22 DEF Ways

\* What is left of a handler goes on along its way.
LEMMA RestsGoOn ==
  ASSUME NEW op \in DOMAIN Ways, NEW l \in RestsOf(op)
  PROVE  /\ l # <<>> /\ Head(l) \in StepsOf[op]
         /\ Tail(l) = <<>> \/ Tail(l) \in RestsOf(op)
         /\ \E p \in Ways[op] : \E k \in 1..Len(p) :
               /\ Len(p) \in Nat /\ Head(l) = p[k]
               /\ Tail(l) = IF k = Len(p) THEN <<>> ELSE From(p, k + 1)
               /\ k # Len(p) => /\ Tail(l) # <<>> /\ Head(Tail(l)) = p[k + 1]
                                /\ Tail(Tail(l)) = IF k + 1 = Len(p) THEN <<>> ELSE From(p, k + 2)
<1>0. PICK p \in Ways[op] : \E k \in 1..Len(p) : l = From(p, k)
  BY DEF RestsOf
<1>1. PICK k \in 1..Len(p) : l = From(p, k)
  BY <1>0
<1>2. p \in Seq(StepNames) /\ p[k] \in StepsOf[op]
  BY <1>1, WaysAreOfSteps
<1>3. Len(p) \in Nat
  BY <1>2, LenProperties
<1>4. l # <<>> /\ Head(l) = p[k] /\ Tail(l) = IF k = Len(p) THEN <<>> ELSE From(p, k + 1)
  BY <1>1, <1>2, FromGoesOn
<1>5. ASSUME k # Len(p)
      PROVE  /\ k + 1 \in 1..Len(p) /\ Tail(l) # <<>> /\ Head(Tail(l)) = p[k + 1]
             /\ Tail(Tail(l)) = IF k + 1 = Len(p) THEN <<>> ELSE From(p, k + 2)
  <2>1. k + 1 \in 1..Len(p) /\ (k + 1) + 1 = k + 2
    BY <1>3, <1>5
  <2> QED
    BY <1>2, <1>4, <1>5, <2>1, FromGoesOn
<1>6. Tail(l) = <<>> \/ Tail(l) \in RestsOf(op)
  BY <1>4, <1>5 DEF RestsOf
<1> QED
  BY <1>1, <1>2, <1>3, <1>4, <1>5, <1>6

\* Whose steps they are.
LEMMA StepsAreOf ==
  ASSUME NEW op \in DOMAIN Ways, NEW h \in StepsOf[op]
  PROVE  /\ h \in {"address", "attach"} => op = "sendMessage"
         /\ h = "commit" => op \in {"sendMessage", "requestAgentHelp"}
         /\ h \in {"open", "interrupt"} => op = "clearConversation"
         /\ h \in {"survey", "detach", "dismiss"} => op = "deleteAgent"
         /\ h \in {"meet", "say"} => op = "sendCollaborationMessage"
         /\ h \in {"ask", "newTask"} => op = "requestAgentHelp"
         /\ h \in {"getTask", "putTask"} => op \in {"sendCollaborationMessage", "requestAgentHelp"}
         /\ h \in {"get", "save"} => op \in {"updateConversation", "sendCollaborationMessage"}
         /\ h \in {"look", "store"} =>
               op \in {"createConversation", "clearConversation", "sendCollaborationMessage", "requestAgentHelp"}
         /\ h = "touch" => op \in {"sendMessage", "sendCollaborationMessage", "requestAgentHelp"}
         /\ h \in {"stage", "validate", "move", "record", "announce"} => op = "upload"
         /\ h \in {"getArtifact", "putArtifact"} => op = "rename"
         /\ h \in {"existing", "keep", "verify"} => op = "connect"
         /\ h = "add" => op = "createConnector"
         /\ h = "getAgent" => op \in {"duplicateAgent", "updateAgent", "clearConversation", "createSchedule"}
         /\ h \in {"lookup", "send"} => op \in {"useConnector", "disconnect"}
         /\ h \in {"date", "home"} => op = "createSchedule"
         /\ h = "send" => op = "useConnector"
         /\ h \in {"getProfile", "putProfile"} => op = "updateProfile"
         /\ h = "enlist" => op \in {"createAgent", "duplicateAgent"}
         /\ h = "putAgent" => op \in {"updateAgent", "clearConversation"}
         /\ h \in StepNames
<1>1. CASE op = "read"
  BY <1>1 DEF StepsOf, StepNames
<1>2. CASE op = "updateProfile"
  BY <1>2 DEF StepsOf, StepNames
<1>3. CASE op = "createSchedule"
  BY <1>3 DEF StepsOf, StepNames
<1>4. CASE op = "connect"
  BY <1>4 DEF StepsOf, StepNames
<1>5. CASE op = "createConnector"
  BY <1>5 DEF StepsOf, StepNames
<1>6. CASE op = "useConnector"
  BY <1>6 DEF StepsOf, StepNames
<1>7. CASE op = "disconnect"
  BY <1>7 DEF StepsOf, StepNames
<1>8. CASE op = "createAgent"
  BY <1>8 DEF StepsOf, StepNames
<1>9. CASE op = "duplicateAgent"
  BY <1>9 DEF StepsOf, StepNames
<1>10. CASE op = "updateAgent"
  BY <1>10 DEF StepsOf, StepNames
<1>11. CASE op = "deleteAgent"
  BY <1>11 DEF StepsOf, StepNames
<1>12. CASE op = "createConversation"
  BY <1>12 DEF StepsOf, StepNames
<1>13. CASE op = "updateConversation"
  BY <1>13 DEF StepsOf, StepNames
<1>14. CASE op = "deleteConversation"
  BY <1>14 DEF StepsOf, StepNames
<1>15. CASE op = "clearConversation"
  BY <1>15 DEF StepsOf, StepNames
<1>16. CASE op = "sendMessage"
  BY <1>16 DEF StepsOf, StepNames
<1>17. CASE op = "sendCollaborationMessage"
  BY <1>17 DEF StepsOf, StepNames
<1>18. CASE op = "requestAgentHelp"
  BY <1>18 DEF StepsOf, StepNames
<1>19. CASE op = "readAgentHelp"
  BY <1>19 DEF StepsOf, StepNames
<1>20. CASE op = "upload"
  BY <1>20 DEF StepsOf, StepNames
<1>21. CASE op = "rename"
  BY <1>21 DEF StepsOf, StepNames
<1>22. CASE op = "download"
  BY <1>22 DEF StepsOf, StepNames
<1> QED
  BY <1>1, <1>2, <1>3, <1>4, <1>5, <1>6, <1>7, <1>8, <1>9, <1>10, <1>11,
     <1>12, <1>13, <1>14, <1>15, <1>16, <1>17, <1>18, <1>19, <1>20, <1>21, <1>22 DEF Ways

-----------------------------------------------------------------------------
(* Requests: that they go their ways, and which ended before which began.   *)

LEMMA JoinedSteps ==
  /\ ClearSteps = <<"open", "check", "erase", "getAgent", "putAgent", "look", "store">>
  /\ LinkSteps = <<"look", "store", "getTask", "putTask">>
  /\ HelpSteps = <<"ask", "newTask", "look", "store", "getTask", "putTask", "commit", "touch">>
  /\ LinkSteps \o <<"say", "touch">> = <<"look", "store", "getTask", "putTask", "say", "touch">>
  /\ ChangeSteps \o <<"say", "touch">> = <<"get", "save", "say", "touch">>
  /\ <<"interrupt">> \o Tail(ClearSteps) = <<"interrupt", "check", "erase", "getAgent", "putAgent", "look", "store">>
  /\ <<>> \o Tail(ClearSteps) = <<"check", "erase", "getAgent", "putAgent", "look", "store">>
<1> DEFINE J(s, t, u) == /\ s \in Seq(StepNames) /\ t \in Seq(StepNames) /\ u \in Seq(StepNames)
                         /\ Len(u) = Len(s) + Len(t)
                         /\ \A i \in 1..Len(s) : u[i] = s[i]
                         /\ \A i \in 1..Len(t) : u[Len(s) + i] = t[i]
<1>0. \A s, t, u : J(s, t, u) => s \o t = u
  BY Joined
<1>1. <<"open">> \o <<"check", "erase">>
        = <<"open", "check", "erase">>
  <2>1. <<"open">> \in Seq(StepNames)
    BY DEF StepNames
  <2>2. <<"check", "erase">> \in Seq(StepNames)
    BY DEF StepNames
  <2>3. <<"open", "check", "erase">> \in Seq(StepNames)
    BY DEF StepNames
  <2>4. J(<<"open">>, <<"check", "erase">>,
          <<"open", "check", "erase">>)
    BY <2>1, <2>2, <2>3
  <2> QED
    BY <1>0, <2>4
<1>2. <<"open", "check", "erase">> \o <<"getAgent", "putAgent">>
        = <<"open", "check", "erase", "getAgent", "putAgent">>
  <2>1. <<"open", "check", "erase">> \in Seq(StepNames)
    BY DEF StepNames
  <2>2. <<"getAgent", "putAgent">> \in Seq(StepNames)
    BY DEF StepNames
  <2>3. <<"open", "check", "erase", "getAgent", "putAgent">> \in Seq(StepNames)
    BY DEF StepNames
  <2>4. J(<<"open", "check", "erase">>, <<"getAgent", "putAgent">>,
          <<"open", "check", "erase", "getAgent", "putAgent">>)
    BY <2>1, <2>2, <2>3
  <2> QED
    BY <1>0, <2>4
<1>3. <<"open", "check", "erase", "getAgent", "putAgent">> \o <<"look", "store">>
        = <<"open", "check", "erase", "getAgent", "putAgent", "look", "store">>
  <2>1. <<"open", "check", "erase", "getAgent", "putAgent">> \in Seq(StepNames)
    BY DEF StepNames
  <2>2. <<"look", "store">> \in Seq(StepNames)
    BY DEF StepNames
  <2>3. <<"open", "check", "erase", "getAgent", "putAgent", "look", "store">> \in Seq(StepNames)
    BY DEF StepNames
  <2>4. J(<<"open", "check", "erase", "getAgent", "putAgent">>, <<"look", "store">>,
          <<"open", "check", "erase", "getAgent", "putAgent", "look", "store">>)
    BY <2>1, <2>2, <2>3
  <2> QED
    BY <1>0, <2>4
<1>4. <<"look", "store">> \o <<"getTask", "putTask">>
        = <<"look", "store", "getTask", "putTask">>
  <2>1. <<"look", "store">> \in Seq(StepNames)
    BY DEF StepNames
  <2>2. <<"getTask", "putTask">> \in Seq(StepNames)
    BY DEF StepNames
  <2>3. <<"look", "store", "getTask", "putTask">> \in Seq(StepNames)
    BY DEF StepNames
  <2>4. J(<<"look", "store">>, <<"getTask", "putTask">>,
          <<"look", "store", "getTask", "putTask">>)
    BY <2>1, <2>2, <2>3
  <2> QED
    BY <1>0, <2>4
<1>5. <<"ask", "newTask">> \o <<"look", "store", "getTask", "putTask">>
        = <<"ask", "newTask", "look", "store", "getTask", "putTask">>
  <2>1. <<"ask", "newTask">> \in Seq(StepNames)
    BY DEF StepNames
  <2>2. <<"look", "store", "getTask", "putTask">> \in Seq(StepNames)
    BY DEF StepNames
  <2>3. <<"ask", "newTask", "look", "store", "getTask", "putTask">> \in Seq(StepNames)
    BY DEF StepNames
  <2>4. J(<<"ask", "newTask">>, <<"look", "store", "getTask", "putTask">>,
          <<"ask", "newTask", "look", "store", "getTask", "putTask">>)
    BY <2>1, <2>2, <2>3
  <2> QED
    BY <1>0, <2>4
<1>6. <<"ask", "newTask", "look", "store", "getTask", "putTask">> \o <<"commit", "touch">>
        = <<"ask", "newTask", "look", "store", "getTask", "putTask", "commit", "touch">>
  <2>1. <<"ask", "newTask", "look", "store", "getTask", "putTask">> \in Seq(StepNames)
    BY DEF StepNames
  <2>2. <<"commit", "touch">> \in Seq(StepNames)
    BY DEF StepNames
  <2>3. <<"ask", "newTask", "look", "store", "getTask", "putTask", "commit", "touch">> \in Seq(StepNames)
    BY DEF StepNames
  <2>4. J(<<"ask", "newTask", "look", "store", "getTask", "putTask">>, <<"commit", "touch">>,
          <<"ask", "newTask", "look", "store", "getTask", "putTask", "commit", "touch">>)
    BY <2>1, <2>2, <2>3
  <2> QED
    BY <1>0, <2>4
<1>7. <<"look", "store", "getTask", "putTask">> \o <<"say", "touch">>
        = <<"look", "store", "getTask", "putTask", "say", "touch">>
  <2>1. <<"look", "store", "getTask", "putTask">> \in Seq(StepNames)
    BY DEF StepNames
  <2>2. <<"say", "touch">> \in Seq(StepNames)
    BY DEF StepNames
  <2>3. <<"look", "store", "getTask", "putTask", "say", "touch">> \in Seq(StepNames)
    BY DEF StepNames
  <2>4. J(<<"look", "store", "getTask", "putTask">>, <<"say", "touch">>,
          <<"look", "store", "getTask", "putTask", "say", "touch">>)
    BY <2>1, <2>2, <2>3
  <2> QED
    BY <1>0, <2>4
<1>8. <<"get", "save">> \o <<"say", "touch">>
        = <<"get", "save", "say", "touch">>
  <2>1. <<"get", "save">> \in Seq(StepNames)
    BY DEF StepNames
  <2>2. <<"say", "touch">> \in Seq(StepNames)
    BY DEF StepNames
  <2>3. <<"get", "save", "say", "touch">> \in Seq(StepNames)
    BY DEF StepNames
  <2>4. J(<<"get", "save">>, <<"say", "touch">>,
          <<"get", "save", "say", "touch">>)
    BY <2>1, <2>2, <2>3
  <2> QED
    BY <1>0, <2>4
<1>9. <<"interrupt">> \o <<"check", "erase", "getAgent", "putAgent", "look", "store">>
        = <<"interrupt", "check", "erase", "getAgent", "putAgent", "look", "store">>
  <2>1. <<"interrupt">> \in Seq(StepNames)
    BY DEF StepNames
  <2>2. <<"check", "erase", "getAgent", "putAgent", "look", "store">> \in Seq(StepNames)
    BY DEF StepNames
  <2>3. <<"interrupt", "check", "erase", "getAgent", "putAgent", "look", "store">> \in Seq(StepNames)
    BY DEF StepNames
  <2>4. J(<<"interrupt">>, <<"check", "erase", "getAgent", "putAgent", "look", "store">>,
          <<"interrupt", "check", "erase", "getAgent", "putAgent", "look", "store">>)
    BY <2>1, <2>2, <2>3
  <2> QED
    BY <1>0, <2>4
<1>10. <<>> \o <<"check", "erase", "getAgent", "putAgent", "look", "store">>
        = <<"check", "erase", "getAgent", "putAgent", "look", "store">>
  <2>1. <<>> \in Seq(StepNames)
    BY DEF StepNames
  <2>2. <<"check", "erase", "getAgent", "putAgent", "look", "store">> \in Seq(StepNames)
    BY DEF StepNames
  <2>3. <<"check", "erase", "getAgent", "putAgent", "look", "store">> \in Seq(StepNames)
    BY DEF StepNames
  <2>4. J(<<>>, <<"check", "erase", "getAgent", "putAgent", "look", "store">>,
          <<"check", "erase", "getAgent", "putAgent", "look", "store">>)
    BY <2>1, <2>2, <2>3
  <2> QED
    BY <1>0, <2>4
<1>11. ClearSteps = <<"open", "check", "erase", "getAgent", "putAgent", "look", "store">>
  BY <1>1, <1>2, <1>3, Zenon DEF ClearSteps, RemoveSteps, UpdateAgentSteps, CreateSteps
<1>12. LinkSteps = <<"look", "store", "getTask", "putTask">>
  BY <1>4, Zenon DEF LinkSteps, CreateSteps
<1>13. HelpSteps = <<"ask", "newTask", "look", "store", "getTask", "putTask", "commit", "touch">>
  BY <1>5, <1>6, <1>12, Zenon DEF HelpSteps
<1>14. Tail(ClearSteps) = <<"check", "erase", "getAgent", "putAgent", "look", "store">>
  <2>1. Tail(<<"open", "check", "erase", "getAgent", "putAgent", "look", "store">>)
          = <<"check", "erase", "getAgent", "putAgent", "look", "store">>
    OBVIOUS
  <2> QED
    BY <1>11, <2>1, Zenon
<1> QED
  BY <1>7, <1>8, <1>9, <1>10, <1>11, <1>12, <1>13, <1>14, Zenon DEF ChangeSteps

\* What a handler begins with.
Begins(op, h) ==
    /\ h \notin {"putTask", "keep", "putProfile", "save", "getTask", "say", "attach", "commit", "touch", "store", "erase"}
    /\ op = "updateAgent" => h = "getAgent"
    /\ op = "deleteAgent" => h = "survey"
    /\ op = "clearConversation" => h = "open"
    /\ op = "sendMessage" => h = "address"
    /\ op = "sendCollaborationMessage" => h = "meet"
    /\ op = "requestAgentHelp" => h = "ask"
    /\ op = "upload" => h = "stage"
    /\ op = "rename" => h = "getArtifact"

\* A program is a way of its handler.
LEMMA ProgramsAreWays ==
  ASSUME NEW op \in Routes
  PROVE  /\ op \in DOMAIN Ways /\ Program(op) \in Ways[op] /\ Program(op) # <<>>
         /\ Begins(op, Head(Program(op)))
<1> DEFINE Goal == Program(op) \in Ways[op] /\ Program(op) # <<>> /\ Begins(op, Head(Program(op)))
<1>0. op \in DOMAIN Ways
  BY DEF Routes, Ways, ChatProgram, ArtifactProgram, ConnectorProgram, OtherProgram
<1>1. ASSUME op = "read" PROVE Goal
  <2>1. Program("read") = <<"read">>
    BY DEF Program, ChatProgram, ArtifactProgram, ConnectorProgram, OtherProgram
  <2>2. <<"read">> \in Ways["read"]
    BY DEF Ways
  <2>3. <<"read">> # <<>> /\ Begins("read", Head(<<"read">>))
    BY DEF Begins
  <2> QED
    BY <1>1, <2>1, <2>2, <2>3
<1>2. ASSUME op = "updateProfile" PROVE Goal
  <2>1. Program("updateProfile") = <<"getProfile", "putProfile">>
    BY DEF Program, ChatProgram, ArtifactProgram, ConnectorProgram, OtherProgram
  <2>2. <<"getProfile", "putProfile">> \in Ways["updateProfile"]
    BY DEF Ways
  <2>3. <<"getProfile", "putProfile">> # <<>> /\ Begins("updateProfile", Head(<<"getProfile", "putProfile">>))
    BY DEF Begins
  <2> QED
    BY <1>2, <2>1, <2>2, <2>3
<1>3. ASSUME op = "createSchedule" PROVE Goal
  <2>1. Program("createSchedule") = <<"getAgent", "home", "date">>
    BY DEF Program, ChatProgram, ArtifactProgram, ConnectorProgram, OtherProgram
  <2>2. <<"getAgent", "home", "date">> \in Ways["createSchedule"]
    BY DEF Ways
  <2>3. <<"getAgent", "home", "date">> # <<>> /\ Begins("createSchedule", Head(<<"getAgent", "home", "date">>))
    BY DEF Begins
  <2> QED
    BY <1>3, <2>1, <2>2, <2>3
<1>4. ASSUME op = "connect" PROVE Goal
  <2>1. Program("connect") = <<"actor", "token", "verify", "existing", "keep">>
    BY DEF Program, ChatProgram, ArtifactProgram, ConnectorProgram, OtherProgram
  <2>2. <<"actor", "token", "verify", "existing", "keep">> \in Ways["connect"]
    BY DEF Ways
  <2>3. <<"actor", "token", "verify", "existing", "keep">> # <<>> /\ Begins("connect", Head(<<"actor", "token", "verify", "existing", "keep">>))
    BY DEF Begins
  <2> QED
    BY <1>4, <2>1, <2>2, <2>3
<1>5. ASSUME op = "createConnector" PROVE Goal
  <2>1. Program("createConnector") = <<"actor", "add">>
    BY DEF Program, ChatProgram, ArtifactProgram, ConnectorProgram, OtherProgram
  <2>2. <<"actor", "add">> \in Ways["createConnector"]
    BY DEF Ways
  <2>3. <<"actor", "add">> # <<>> /\ Begins("createConnector", Head(<<"actor", "add">>))
    BY DEF Begins
  <2> QED
    BY <1>5, <2>1, <2>2, <2>3
<1>6. ASSUME op = "useConnector" PROVE Goal
  <2>1. Program("useConnector") = <<"actor", "lookup", "token", "send">>
    BY DEF Program, ChatProgram, ArtifactProgram, ConnectorProgram, OtherProgram
  <2>2. <<"actor", "lookup", "token", "send">> \in Ways["useConnector"]
    BY DEF Ways
  <2>3. <<"actor", "lookup", "token", "send">> # <<>> /\ Begins("useConnector", Head(<<"actor", "lookup", "token", "send">>))
    BY DEF Begins
  <2> QED
    BY <1>6, <2>1, <2>2, <2>3
<1>7. ASSUME op = "disconnect" PROVE Goal
  <2>1. Program("disconnect") = <<"actor", "lookup", "drop">>
    BY DEF Program, ChatProgram, ArtifactProgram, ConnectorProgram, OtherProgram
  <2>2. <<"actor", "lookup", "drop">> \in Ways["disconnect"]
    BY DEF Ways
  <2>3. <<"actor", "lookup", "drop">> # <<>> /\ Begins("disconnect", Head(<<"actor", "lookup", "drop">>))
    BY DEF Begins
  <2> QED
    BY <1>7, <2>1, <2>2, <2>3
<1>8. ASSUME op = "createAgent" PROVE Goal
  <2>1. Program("createAgent") = <<"enlist">>
    BY DEF Program, ChatProgram, ArtifactProgram, ConnectorProgram, OtherProgram
  <2>2. <<"enlist">> \in Ways["createAgent"]
    BY DEF Ways
  <2>3. <<"enlist">> # <<>> /\ Begins("createAgent", Head(<<"enlist">>))
    BY DEF Begins
  <2> QED
    BY <1>8, <2>1, <2>2, <2>3
<1>9. ASSUME op = "duplicateAgent" PROVE Goal
  <2>1. Program("duplicateAgent") = <<"getAgent", "enlist">>
    BY DEF Program, ChatProgram, ArtifactProgram, ConnectorProgram, OtherProgram
  <2>2. <<"getAgent", "enlist">> \in Ways["duplicateAgent"]
    BY DEF Ways
  <2>3. <<"getAgent", "enlist">> # <<>> /\ Begins("duplicateAgent", Head(<<"getAgent", "enlist">>))
    BY DEF Begins
  <2> QED
    BY <1>9, <2>1, <2>2, <2>3
<1>10. ASSUME op = "updateAgent" PROVE Goal
  <2>1. Program("updateAgent") = <<"getAgent", "putAgent">>
    BY DEF Program, ChatProgram, ArtifactProgram, ConnectorProgram, OtherProgram, UpdateAgentSteps
  <2>2. <<"getAgent", "putAgent">> \in Ways["updateAgent"]
    BY DEF Ways
  <2>3. <<"getAgent", "putAgent">> # <<>> /\ Begins("updateAgent", Head(<<"getAgent", "putAgent">>))
    BY DEF Begins
  <2> QED
    BY <1>10, <2>1, <2>2, <2>3
<1>11. ASSUME op = "deleteAgent" PROVE Goal
  <2>1. Program("deleteAgent") = <<"survey", "dismiss">>
    BY DEF Program, ChatProgram, ArtifactProgram, ConnectorProgram, OtherProgram
  <2>2. <<"survey", "dismiss">> \in Ways["deleteAgent"]
    BY DEF Ways
  <2>3. <<"survey", "dismiss">> # <<>> /\ Begins("deleteAgent", Head(<<"survey", "dismiss">>))
    BY DEF Begins
  <2> QED
    BY <1>11, <2>1, <2>2, <2>3
<1>12. ASSUME op = "createConversation" PROVE Goal
  <2>1. Program("createConversation") = <<"look", "store">>
    BY DEF Program, ChatProgram, ArtifactProgram, ConnectorProgram, OtherProgram, CreateSteps
  <2>2. <<"look", "store">> \in Ways["createConversation"]
    BY DEF Ways
  <2>3. <<"look", "store">> # <<>> /\ Begins("createConversation", Head(<<"look", "store">>))
    BY DEF Begins
  <2> QED
    BY <1>12, <2>1, <2>2, <2>3
<1>13. ASSUME op = "updateConversation" PROVE Goal
  <2>1. Program("updateConversation") = <<"get", "save">>
    BY DEF Program, ChatProgram, ArtifactProgram, ConnectorProgram, OtherProgram, ChangeSteps
  <2>2. <<"get", "save">> \in Ways["updateConversation"]
    BY DEF Ways
  <2>3. <<"get", "save">> # <<>> /\ Begins("updateConversation", Head(<<"get", "save">>))
    BY DEF Begins
  <2> QED
    BY <1>13, <2>1, <2>2, <2>3
<1>14. ASSUME op = "deleteConversation" PROVE Goal
  <2>1. Program("deleteConversation") = <<"check", "erase">>
    BY DEF Program, ChatProgram, ArtifactProgram, ConnectorProgram, OtherProgram, RemoveSteps
  <2>2. <<"check", "erase">> \in Ways["deleteConversation"]
    BY DEF Ways
  <2>3. <<"check", "erase">> # <<>> /\ Begins("deleteConversation", Head(<<"check", "erase">>))
    BY DEF Begins
  <2> QED
    BY <1>14, <2>1, <2>2, <2>3
<1>15. ASSUME op = "clearConversation" PROVE Goal
  <2>1. Program("clearConversation") = ClearSteps
    BY DEF Program, ChatProgram, ArtifactProgram, ConnectorProgram, OtherProgram
  <2>2. <<"open", "check", "erase", "getAgent", "putAgent", "look", "store">> \in Ways["clearConversation"]
    BY DEF Ways
  <2>3. <<"open", "check", "erase", "getAgent", "putAgent", "look", "store">> # <<>> /\ Begins("clearConversation", Head(<<"open", "check", "erase", "getAgent", "putAgent", "look", "store">>))
    BY DEF Begins
  <2> QED
    BY <1>15, <2>1, <2>2, <2>3, JoinedSteps, Zenon
<1>16. ASSUME op = "sendMessage" PROVE Goal
  <2>1. Program("sendMessage") = <<"address", "attach", "commit", "touch">>
    BY DEF Program, ChatProgram, ArtifactProgram, ConnectorProgram, OtherProgram, SendSteps
  <2>2. <<"address", "attach", "commit", "touch">> \in Ways["sendMessage"]
    BY DEF Ways
  <2>3. <<"address", "attach", "commit", "touch">> # <<>> /\ Begins("sendMessage", Head(<<"address", "attach", "commit", "touch">>))
    BY DEF Begins
  <2> QED
    BY <1>16, <2>1, <2>2, <2>3
<1>17. ASSUME op = "sendCollaborationMessage" PROVE Goal
  <2>1. Program("sendCollaborationMessage") = <<"meet">>
    BY DEF Program, ChatProgram, ArtifactProgram, ConnectorProgram, OtherProgram
  <2>2. <<"meet">> \in Ways["sendCollaborationMessage"]
    BY DEF Ways
  <2>3. <<"meet">> # <<>> /\ Begins("sendCollaborationMessage", Head(<<"meet">>))
    BY DEF Begins
  <2> QED
    BY <1>17, <2>1, <2>2, <2>3
<1>18. ASSUME op = "requestAgentHelp" PROVE Goal
  <2>1. Program("requestAgentHelp") = HelpSteps
    BY DEF Program, ChatProgram, ArtifactProgram, ConnectorProgram, OtherProgram
  <2>2. <<"ask", "newTask", "look", "store", "getTask", "putTask", "commit", "touch">> \in Ways["requestAgentHelp"]
    BY DEF Ways
  <2>3. <<"ask", "newTask", "look", "store", "getTask", "putTask", "commit", "touch">> # <<>> /\ Begins("requestAgentHelp", Head(<<"ask", "newTask", "look", "store", "getTask", "putTask", "commit", "touch">>))
    BY DEF Begins
  <2> QED
    BY <1>18, <2>1, <2>2, <2>3, JoinedSteps, Zenon
<1>19. ASSUME op = "readAgentHelp" PROVE Goal
  <2>1. Program("readAgentHelp") = <<"readHelp">>
    BY DEF Program, ChatProgram, ArtifactProgram, ConnectorProgram, OtherProgram
  <2>2. <<"readHelp">> \in Ways["readAgentHelp"]
    BY DEF Ways
  <2>3. <<"readHelp">> # <<>> /\ Begins("readAgentHelp", Head(<<"readHelp">>))
    BY DEF Begins
  <2> QED
    BY <1>19, <2>1, <2>2, <2>3
<1>20. ASSUME op = "upload" PROVE Goal
  <2>1. Program("upload") = <<"stage", "validate", "move", "record", "announce">>
    BY DEF Program, ChatProgram, ArtifactProgram, ConnectorProgram, OtherProgram, UploadSteps
  <2>2. <<"stage", "validate", "move", "record", "announce">> \in Ways["upload"]
    BY DEF Ways
  <2>3. <<"stage", "validate", "move", "record", "announce">> # <<>> /\ Begins("upload", Head(<<"stage", "validate", "move", "record", "announce">>))
    BY DEF Begins
  <2> QED
    BY <1>20, <2>1, <2>2, <2>3
<1>21. ASSUME op = "rename" PROVE Goal
  <2>1. Program("rename") = <<"getArtifact", "putArtifact">>
    BY DEF Program, ChatProgram, ArtifactProgram, ConnectorProgram, OtherProgram
  <2>2. <<"getArtifact", "putArtifact">> \in Ways["rename"]
    BY DEF Ways
  <2>3. <<"getArtifact", "putArtifact">> # <<>> /\ Begins("rename", Head(<<"getArtifact", "putArtifact">>))
    BY DEF Begins
  <2> QED
    BY <1>21, <2>1, <2>2, <2>3
<1>22. ASSUME op = "download" PROVE Goal
  <2>1. Program("download") = <<"openFile">>
    BY DEF Program, ChatProgram, ArtifactProgram, ConnectorProgram, OtherProgram
  <2>2. <<"openFile">> \in Ways["download"]
    BY DEF Ways
  <2>3. <<"openFile">> # <<>> /\ Begins("download", Head(<<"openFile">>))
    BY DEF Begins
  <2> QED
    BY <1>22, <2>1, <2>2, <2>3
<1> QED
  BY <1>0, <1>1, <1>2, <1>3, <1>4, <1>5, <1>6, <1>7, <1>8, <1>9, <1>10, <1>11,
     <1>12, <1>13, <1>14, <1>15, <1>16, <1>17, <1>18, <1>19, <1>20, <1>21, <1>22 DEF Ways

LEMMA ProgramsBegin ==
  ASSUME NEW op \in Routes
  PROVE  /\ op \in DOMAIN Ways /\ Program(op) # <<>> /\ Program(op) \in RestsOf(op)
         /\ Begins(op, Head(Program(op)))
<1>1. /\ op \in DOMAIN Ways /\ Program(op) \in Ways[op] /\ Program(op) # <<>> /\ Program(op) \in Seq(StepNames)
      /\ Begins(op, Head(Program(op)))
  BY ProgramsAreWays, WaysAreOfSteps
<1> DEFINE p == Program(op)
<1>2. Len(p) \in Nat /\ Len(p) # 0
  BY <1>1, EmptySeq, LenProperties
<1>3. From(p, 1) = p /\ 1 \in 1..Len(p)
  BY <1>1, <1>2, SubSeqFull DEF From
<1> QED
  BY <1>1, <1>3 DEF RestsOf

\* A handler and its request.
GoesItsWay(s) ==
    /\ IsHandler(req[s]) /\ req[s].state \in States
    /\ req[s].state = "waiting" => req[s] = Fresh
    /\ Began(s) => asked[s] # None
    /\ Running(s) => req[s].left \in RestsOf(Op(s))
    /\ req[s].state \in {"refused", "lost"} => req[s].left # <<>>
    /\ Done(s) => req[s].left = <<>>

RequestInv ==
    /\ req = [s \in Slots |-> req[s]]
    /\ asked \in Mixes /\ database \in {"memory", "postgres"}
    /\ faults \in 0..MaxFaults
    /\ before \subseteq Slots \X Slots
    /\ \A s \in Slots : GoesItsWay(s)
    /\ \A s, t \in Slots : <<s, t>> \in before => Ended(s) /\ Began(t)

LEMMA AskedWell ==
  ASSUME RequestInv, NEW s \in Slots, asked[s] # None
  PROVE  WellFormed(asked[s]) /\ Op(s) \in Routes /\ Op(s) \in DOMAIN Ways
<1>1. WellFormed(asked[s])
  BY InputsAssumption DEF RequestInv
<1>2. Op(s) \in Routes
  BY <1>1 DEF WellFormed, Op
<1> QED
  BY <1>1, <1>2, ProgramsBegin

LEMMA RunningIs ==
  ASSUME RequestInv, NEW s \in Slots, Running(s)
  PROVE  /\ IsHandler(req[s]) /\ req[s].state = "running" /\ Began(s)
         /\ WellFormed(asked[s]) /\ Op(s) \in DOMAIN Ways
         /\ req[s].left \in RestsOf(Op(s)) /\ req[s].left # <<>>
         /\ Head(req[s].left) \in StepsOf[Op(s)]
<1>1. GoesItsWay(s) /\ Began(s)
  BY DEF RequestInv, Running, Began
<1>2. asked[s] # None
  BY <1>1 DEF GoesItsWay
<1> QED
  BY <1>1, <1>2, AskedWell, RestsGoOn DEF GoesItsWay, Running

\* The handler of s goes on with these variables.
Becomes(s, i, w, a, t, d, v, l) ==
    /\ UNCHANGED <<database, asked, before, faults>>
    /\ req' = [req EXCEPT ![s] =
          [state |-> IF l = <<>> THEN "done" ELSE "running", left |-> l, id |-> i, row |-> w, agent |-> a,
           task |-> t, todo |-> d, value |-> v]]

LEMMA GoesBecomes ==
  ASSUME NEW s, NEW r, IsHandler(r), r.state = "running", Goes(s, r)
  PROVE  Becomes(s, r.id, r.row, r.agent, r.task, r.todo, r.value, r.left)
<1>1. (IF r.left = <<>> THEN [r EXCEPT !.state = "done"] ELSE r) =
          [state |-> IF r.left = <<>> THEN "done" ELSE "running", left |-> r.left, id |-> r.id, row |-> r.row,
           agent |-> r.agent, task |-> r.task, todo |-> r.todo, value |-> r.value]
  BY DEF IsHandler
<1> QED
  BY <1>1, Zenon DEF Goes, Becomes

LEMMA WithLeft ==
  ASSUME NEW r, IsHandler(r), NEW l
  PROVE  [r EXCEPT !.left = l] =
            [state |-> r.state, left |-> l, id |-> r.id, row |-> r.row, agent |-> r.agent,
             task |-> r.task, todo |-> r.todo, value |-> r.value]
  BY DEF IsHandler

LEMMA MovesBecomes ==
  ASSUME NEW s, NEW r, IsHandler(r), r.state = "running", Moves(s, r)
  PROVE  Becomes(s, r.id, r.row, r.agent, r.task, r.todo, r.value, Tail(r.left))
<1> DEFINE q == [state |-> r.state, left |-> Tail(r.left), id |-> r.id, row |-> r.row, agent |-> r.agent,
                 task |-> r.task, todo |-> r.todo, value |-> r.value]
<1>1. /\ IsHandler(q) /\ q.state = "running" /\ q.left = Tail(r.left)
      /\ q.id = r.id /\ q.row = r.row /\ q.agent = r.agent /\ q.task = r.task /\ q.todo = r.todo /\ q.value = r.value
  BY DEF IsHandler
<1>2. Goes(s, q)
  BY WithLeft DEF Moves
<1> HIDE DEF q
<1>3. Becomes(s, q.id, q.row, q.agent, q.task, q.todo, q.value, q.left)
  BY <1>1, <1>2, GoesBecomes
<1> QED
  BY <1>1, <1>3

\* What the handler of s is then.
LEMMA BecameIs ==
  ASSUME RequestInv, NEW s \in Slots, NEW i, NEW w, NEW a, NEW t, NEW d, NEW v, NEW l,
         Becomes(s, i, w, a, t, d, v, l)
  PROVE  /\ IsHandler(req'[s])
         /\ req'[s].id = i /\ req'[s].row = w /\ req'[s].agent = a /\ req'[s].task = t /\ req'[s].todo = d
         /\ req'[s].value = v /\ req'[s].left = l
         /\ req'[s].state = IF l = <<>> THEN "done" ELSE "running"
         /\ \A u \in Slots : u # s => req'[u] = req[u]
         /\ req' = [u \in Slots |-> req'[u]]
         /\ UNCHANGED <<database, asked, before, faults>> /\ Op(s)' = Op(s)
<1>1. req'[s] = [state |-> IF l = <<>> THEN "done" ELSE "running", left |-> l, id |-> i, row |-> w, agent |-> a,
                 task |-> t, todo |-> d, value |-> v]
  BY DEF Becomes, RequestInv
<1>2. \A u \in Slots : u # s => req'[u] = req[u]
  BY DEF Becomes, RequestInv
<1>3. req' = [u \in Slots |-> req'[u]]
  BY DEF Becomes, RequestInv
<1> QED
  BY <1>1, <1>2, <1>3 DEF Becomes, IsHandler, Op

LEMMA BecomesInv ==
  ASSUME RequestInv, NEW s \in Slots, Running(s), NEW i, NEW w, NEW a, NEW t, NEW d, NEW v, NEW l,
         l = <<>> \/ l \in RestsOf(Op(s)), Becomes(s, i, w, a, t, d, v, l)
  PROVE  RequestInv'
<1>1. /\ req' = [u \in Slots |-> req'[u]] /\ UNCHANGED <<database, asked, before, faults>>
      /\ IsHandler(req'[s]) /\ req'[s].left = l /\ req'[s].state = (IF l = <<>> THEN "done" ELSE "running")
      /\ \A u \in Slots : u # s => req'[u] = req[u]
  BY BecameIs
<1>2. ASSUME NEW u \in Slots PROVE GoesItsWay(u)' /\ (Ended(u) => Ended(u)') /\ (Began(u) => Began(u)')
  <2>1. CASE u = s
    BY <1>1, <2>1, RunningIs DEF GoesItsWay, RequestInv, States, Began, Running, Done, Ended, Op
  <2>2. CASE u # s
    BY <1>1, <2>2 DEF GoesItsWay, RequestInv, Began, Running, Done, Ended, Op
  <2> QED
    BY <2>1, <2>2
<1> QED
  BY <1>1, <1>2 DEF RequestInv

\* A handler that stops keeps its variables.
StopsIn(s, state) ==
    /\ IsHandler(req'[s]) /\ req'[s].state = state
    /\ req'[s].left = req[s].left /\ req'[s].row = req[s].row /\ req'[s].id = req[s].id
    /\ req'[s].agent = req[s].agent
Stops(s, state) ==
    /\ \A u \in Slots : u # s => req'[u] = req[u]
    /\ req' = [u \in Slots |-> req'[u]]
    /\ StopsIn(s, state)

LEMMA RefusesStopsIt ==
  ASSUME RequestInv, NEW s \in Slots, Running(s), req' = [req EXCEPT ![s].state = "refused"]
  PROVE  Stops(s, "refused")
<1>1. req'[s] = [req[s] EXCEPT !.state = "refused"]
  BY DEF RequestInv
<1>2. IsHandler(req[s])
  BY RunningIs
<1>3. /\ IsHandler(req'[s]) /\ req'[s].state = "refused"
      /\ req'[s].left = req[s].left /\ req'[s].row = req[s].row /\ req'[s].id = req[s].id
      /\ req'[s].agent = req[s].agent
  BY <1>1, <1>2 DEF IsHandler
<1> QED
  BY <1>3 DEF RequestInv, Stops, StopsIn

LEMMA StopsInv ==
  ASSUME RequestInv, NEW s \in Slots, Running(s), Stops(s, "refused"), UNCHANGED <<database, asked, before>>,
         faults' \in 0..MaxFaults
  PROVE  RequestInv'
<1>1. ASSUME NEW u \in Slots PROVE GoesItsWay(u)' /\ (Ended(u) => Ended(u)') /\ (Began(u) => Began(u)')
  <2>1. CASE u = s
    BY <2>1, RunningIs DEF Stops, StopsIn, GoesItsWay, RequestInv, States, Began, Running, Done, Ended, Op
  <2>2. CASE u # s
    BY <2>2 DEF Stops, StopsIn, GoesItsWay, RequestInv, Began, Running, Done, Ended, Op
  <2> QED
    BY <2>1, <2>2
<1> QED
  BY <1>1 DEF RequestInv, Stops, StopsIn

\* What each change of the variables makes of a handler.
LEMMA WithRow ==
  ASSUME NEW r, IsHandler(r), NEW x
  PROVE  [r EXCEPT !.row = x] =
            [state |-> r.state, left |-> r.left, id |-> r.id, row |-> x,
             agent |-> r.agent, task |-> r.task, todo |-> r.todo, value |-> r.value]
  BY DEF IsHandler

LEMMA WithValue ==
  ASSUME NEW r, IsHandler(r), NEW x
  PROVE  [r EXCEPT !.value = x] =
            [state |-> r.state, left |-> r.left, id |-> r.id, row |-> r.row,
             agent |-> r.agent, task |-> r.task, todo |-> r.todo, value |-> x]
  BY DEF IsHandler

LEMMA WithId ==
  ASSUME NEW r, IsHandler(r), NEW x
  PROVE  [r EXCEPT !.id = x] =
            [state |-> r.state, left |-> r.left, id |-> x, row |-> r.row,
             agent |-> r.agent, task |-> r.task, todo |-> r.todo, value |-> r.value]
  BY DEF IsHandler

LEMMA WithTodoLeft ==
  ASSUME NEW r, IsHandler(r), NEW x, NEW y
  PROVE  [r EXCEPT !.todo = x, !.left = y] =
            [state |-> r.state, left |-> y, id |-> r.id, row |-> r.row,
             agent |-> r.agent, task |-> r.task, todo |-> x, value |-> r.value]
<1> DEFINE f == [r EXCEPT !.todo = x]
           g == [f EXCEPT !.left = y]
<1>1. f = [state |-> r.state, left |-> r.left, id |-> r.id, row |-> r.row,
         agent |-> r.agent, task |-> r.task, todo |-> x, value |-> r.value]
  BY DEF IsHandler
<1> HIDE DEF f
<1>2. g = [state |-> r.state, left |-> y, id |-> r.id, row |-> r.row,
         agent |-> r.agent, task |-> r.task, todo |-> x, value |-> r.value]
  BY <1>1 DEF IsHandler
<1> HIDE DEF g
<1>3. g = [r EXCEPT !.todo = x, !.left = y]
  BY DEF f, g
<1> QED
  BY <1>2, <1>3, Zenon

LEMMA WithIdLeft ==
  ASSUME NEW r, IsHandler(r), NEW x, NEW y
  PROVE  [r EXCEPT !.id = x, !.left = y] =
            [state |-> r.state, left |-> y, id |-> x, row |-> r.row,
             agent |-> r.agent, task |-> r.task, todo |-> r.todo, value |-> r.value]
<1> DEFINE f == [r EXCEPT !.id = x]
           g == [f EXCEPT !.left = y]
<1>1. f = [state |-> r.state, left |-> r.left, id |-> x, row |-> r.row,
         agent |-> r.agent, task |-> r.task, todo |-> r.todo, value |-> r.value]
  BY DEF IsHandler
<1> HIDE DEF f
<1>2. g = [state |-> r.state, left |-> y, id |-> x, row |-> r.row,
         agent |-> r.agent, task |-> r.task, todo |-> r.todo, value |-> r.value]
  BY <1>1 DEF IsHandler
<1> HIDE DEF g
<1>3. g = [r EXCEPT !.id = x, !.left = y]
  BY DEF f, g
<1> QED
  BY <1>2, <1>3, Zenon

LEMMA WithRowLeft ==
  ASSUME NEW r, IsHandler(r), NEW x, NEW y
  PROVE  [r EXCEPT !.row = x, !.left = y] =
            [state |-> r.state, left |-> y, id |-> r.id, row |-> x,
             agent |-> r.agent, task |-> r.task, todo |-> r.todo, value |-> r.value]
<1> DEFINE f == [r EXCEPT !.row = x]
           g == [f EXCEPT !.left = y]
<1>1. f = [state |-> r.state, left |-> r.left, id |-> r.id, row |-> x,
         agent |-> r.agent, task |-> r.task, todo |-> r.todo, value |-> r.value]
  BY DEF IsHandler
<1> HIDE DEF f
<1>2. g = [state |-> r.state, left |-> y, id |-> r.id, row |-> x,
         agent |-> r.agent, task |-> r.task, todo |-> r.todo, value |-> r.value]
  BY <1>1 DEF IsHandler
<1> HIDE DEF g
<1>3. g = [r EXCEPT !.row = x, !.left = y]
  BY DEF f, g
<1> QED
  BY <1>2, <1>3, Zenon

LEMMA WithRowTodo ==
  ASSUME NEW r, IsHandler(r), NEW x, NEW y
  PROVE  [r EXCEPT !.row = x, !.todo = y] =
            [state |-> r.state, left |-> r.left, id |-> r.id, row |-> x,
             agent |-> r.agent, task |-> r.task, todo |-> y, value |-> r.value]
<1> DEFINE f == [r EXCEPT !.row = x]
           g == [f EXCEPT !.todo = y]
<1>1. f = [state |-> r.state, left |-> r.left, id |-> r.id, row |-> x,
         agent |-> r.agent, task |-> r.task, todo |-> r.todo, value |-> r.value]
  BY DEF IsHandler
<1> HIDE DEF f
<1>2. g = [state |-> r.state, left |-> r.left, id |-> r.id, row |-> x,
         agent |-> r.agent, task |-> r.task, todo |-> y, value |-> r.value]
  BY <1>1 DEF IsHandler
<1> HIDE DEF g
<1>3. g = [r EXCEPT !.row = x, !.todo = y]
  BY DEF f, g
<1> QED
  BY <1>2, <1>3, Zenon

LEMMA WithTaskRow ==
  ASSUME NEW r, IsHandler(r), NEW x, NEW y
  PROVE  [r EXCEPT !.task = x, !.row = y] =
            [state |-> r.state, left |-> r.left, id |-> r.id, row |-> y,
             agent |-> r.agent, task |-> x, todo |-> r.todo, value |-> r.value]
<1> DEFINE f == [r EXCEPT !.task = x]
           g == [f EXCEPT !.row = y]
<1>1. f = [state |-> r.state, left |-> r.left, id |-> r.id, row |-> r.row,
         agent |-> r.agent, task |-> x, todo |-> r.todo, value |-> r.value]
  BY DEF IsHandler
<1> HIDE DEF f
<1>2. g = [state |-> r.state, left |-> r.left, id |-> r.id, row |-> y,
         agent |-> r.agent, task |-> x, todo |-> r.todo, value |-> r.value]
  BY <1>1 DEF IsHandler
<1> HIDE DEF g
<1>3. g = [r EXCEPT !.task = x, !.row = y]
  BY DEF f, g
<1> QED
  BY <1>2, <1>3, Zenon

\* A step that changes no variable, and one that changes the row, the value or the id.
Plain(s) ==
    Becomes(s, req[s].id, req[s].row, req[s].agent, req[s].task, req[s].todo, req[s].value, Tail(req[s].left))
GetsRow(s, x) ==
    Becomes(s, req[s].id, x, req[s].agent, req[s].task, req[s].todo, req[s].value, Tail(req[s].left))
GetsValue(s, x) ==
    Becomes(s, req[s].id, req[s].row, req[s].agent, req[s].task, req[s].todo, x, Tail(req[s].left))
GetsId(s, x, l) ==
    Becomes(s, x, req[s].row, req[s].agent, req[s].task, req[s].todo, req[s].value, l)
\* Without its present step, or not: what becomes of a loop, or of a handler that ends.
GoesWith(s, d, l) ==
    Becomes(s, req[s].id, req[s].row, req[s].agent, req[s].task, d, req[s].value, l)

LEMMA MovesAre ==
  ASSUME RequestInv, NEW s \in Slots, Running(s), NEW x
  PROVE  /\ Moves(s, req[s]) => Plain(s)
         /\ Moves(s, [req[s] EXCEPT !.row = x]) => GetsRow(s, x)
         /\ Moves(s, [req[s] EXCEPT !.value = x]) => GetsValue(s, x)
         /\ Moves(s, [req[s] EXCEPT !.id = x]) => GetsId(s, x, Tail(req[s].left))
<1> DEFINE R(ii, ww, vv) ==
             [state |-> req[s].state, left |-> req[s].left, id |-> ii, row |-> ww, agent |-> req[s].agent,
              task |-> req[s].task, todo |-> req[s].todo, value |-> vv]
<1>0. IsHandler(req[s]) /\ req[s].state = "running"
  BY RunningIs
<1>1. \A ii, ww, vv : Moves(s, R(ii, ww, vv)) =>
         Becomes(s, ii, ww, req[s].agent, req[s].task, req[s].todo, vv, Tail(req[s].left))
  <2> TAKE ii, ww, vv
  <2> DEFINE r == R(ii, ww, vv)
  <2>1. /\ IsHandler(r) /\ r.state = "running" /\ r.left = req[s].left /\ r.id = ii /\ r.row = ww
        /\ r.agent = req[s].agent /\ r.task = req[s].task /\ r.todo = req[s].todo /\ r.value = vv
    BY <1>0 DEF IsHandler
  <2> HIDE DEF r
  <2>2. Moves(s, r) => Becomes(s, ii, ww, req[s].agent, req[s].task, req[s].todo, vv, Tail(req[s].left))
    BY <2>1, MovesBecomes
  <2> QED
    BY <2>2 DEF r
<1>2. [req[s] EXCEPT !.row = x] = R(req[s].id, x, req[s].value)
  BY <1>0, WithRow, Zenon
<1>3. [req[s] EXCEPT !.value = x] = R(req[s].id, req[s].row, x)
  BY <1>0, WithValue, Zenon
<1>4. [req[s] EXCEPT !.id = x] = R(x, req[s].row, req[s].value)
  BY <1>0, WithId, Zenon
<1>5. Moves(s, req[s]) => Plain(s)
  BY <1>0, MovesBecomes DEF Plain
<1> HIDE DEF R
<1> QED
  BY <1>1, <1>2, <1>3, <1>4, <1>5, Zenon DEF GetsRow, GetsValue, GetsId

\* The steps of the loops and of the handlers whose way depends on what they find.
LEMMA GoesAre ==
  ASSUME RequestInv, NEW s \in Slots, Running(s), NEW i, NEW w, NEW a, NEW t, NEW d, NEW l
  PROVE  /\ Goes(s, req[s]) => GoesWith(s, req[s].todo, req[s].left)
         /\ Goes(s, [req[s] EXCEPT !.left = l]) => GoesWith(s, req[s].todo, l)
         /\ Goes(s, [req[s] EXCEPT !.todo = d, !.left = l]) => GoesWith(s, d, l)
         /\ Goes(s, [req[s] EXCEPT !.id = i, !.left = l]) => GetsId(s, i, l)
         /\ Goes(s, [req[s] EXCEPT !.row = w, !.left = l]) =>
               Becomes(s, req[s].id, w, req[s].agent, req[s].task, req[s].todo, req[s].value, l)
         /\ Goes(s, [req[s] EXCEPT !.todo = d, !.agent = a, !.row = w, !.left = l]) =>
               Becomes(s, req[s].id, w, a, req[s].task, d, req[s].value, l)
         /\ Goes(s, [req[s] EXCEPT !.id = i, !.row = w, !.todo = d, !.left = l]) =>
               Becomes(s, i, w, req[s].agent, req[s].task, d, req[s].value, l)
         /\ Moves(s, [req[s] EXCEPT !.row = w, !.todo = d]) =>
               Becomes(s, req[s].id, w, req[s].agent, req[s].task, d, req[s].value, Tail(req[s].left))
         /\ Moves(s, [req[s] EXCEPT !.task = t, !.row = w]) =>
               Becomes(s, req[s].id, w, req[s].agent, t, req[s].todo, req[s].value, Tail(req[s].left))
<1> DEFINE R(ll, ii, ww, aa, tt, dd) ==
             [state |-> req[s].state, left |-> ll, id |-> ii, row |-> ww, agent |-> aa, task |-> tt,
              todo |-> dd, value |-> req[s].value]
<1>0. IsHandler(req[s]) /\ req[s].state = "running"
  BY RunningIs
<1>1. \A ll, ii, ww, aa, tt, dd :
         /\ Goes(s, R(ll, ii, ww, aa, tt, dd)) => Becomes(s, ii, ww, aa, tt, dd, req[s].value, ll)
         /\ Moves(s, R(ll, ii, ww, aa, tt, dd)) => Becomes(s, ii, ww, aa, tt, dd, req[s].value, Tail(ll))
  <2> TAKE ll, ii, ww, aa, tt, dd
  <2> DEFINE r == R(ll, ii, ww, aa, tt, dd)
  <2>1. /\ IsHandler(r) /\ r.state = "running" /\ r.left = ll /\ r.id = ii /\ r.row = ww
        /\ r.agent = aa /\ r.task = tt /\ r.todo = dd /\ r.value = req[s].value
    BY <1>0 DEF IsHandler
  <2> HIDE DEF r
  <2>2. /\ Goes(s, r) => Becomes(s, ii, ww, aa, tt, dd, req[s].value, ll)
        /\ Moves(s, r) => Becomes(s, ii, ww, aa, tt, dd, req[s].value, Tail(ll))
    BY <2>1, GoesBecomes, MovesBecomes
  <2> QED
    BY <2>2 DEF r
<1>2. [req[s] EXCEPT !.left = l] = R(l, req[s].id, req[s].row, req[s].agent, req[s].task, req[s].todo)
  BY <1>0, WithLeft, Zenon
<1>3. [req[s] EXCEPT !.todo = d, !.left = l] = R(l, req[s].id, req[s].row, req[s].agent, req[s].task, d)
  BY <1>0, WithTodoLeft, Zenon
<1>4. [req[s] EXCEPT !.id = i, !.left = l] = R(l, i, req[s].row, req[s].agent, req[s].task, req[s].todo)
  BY <1>0, WithIdLeft, Zenon
<1>5. [req[s] EXCEPT !.row = w, !.left = l] = R(l, req[s].id, w, req[s].agent, req[s].task, req[s].todo)
  BY <1>0, WithRowLeft, Zenon
<1>6. [req[s] EXCEPT !.todo = d, !.agent = a, !.row = w, !.left = l] = R(l, req[s].id, w, a, req[s].task, d)
  <2> DEFINE f == [req[s] EXCEPT !.todo = d]
             g == [f EXCEPT !.agent = a]
             h == [g EXCEPT !.row = w]
             k == [h EXCEPT !.left = l]
  <2>1. f = [state |-> req[s].state, left |-> req[s].left, id |-> req[s].id, row |-> req[s].row,
             agent |-> req[s].agent, task |-> req[s].task, todo |-> d, value |-> req[s].value]
    BY <1>0 DEF IsHandler
  <2> HIDE DEF f
  <2>2. g = [state |-> req[s].state, left |-> req[s].left, id |-> req[s].id, row |-> req[s].row,
             agent |-> a, task |-> req[s].task, todo |-> d, value |-> req[s].value]
    BY <1>0, <2>1 DEF IsHandler
  <2> HIDE DEF g
  <2>3. h = [state |-> req[s].state, left |-> req[s].left, id |-> req[s].id, row |-> w,
             agent |-> a, task |-> req[s].task, todo |-> d, value |-> req[s].value]
    BY <1>0, <2>2 DEF IsHandler
  <2> HIDE DEF h
  <2>4. k = [state |-> req[s].state, left |-> l, id |-> req[s].id, row |-> w,
             agent |-> a, task |-> req[s].task, todo |-> d, value |-> req[s].value]
    BY <1>0, <2>3 DEF IsHandler
  <2> HIDE DEF k
  <2>5. k = [req[s] EXCEPT !.todo = d, !.agent = a, !.row = w, !.left = l]
    BY DEF f, g, h, k
  <2> QED
    BY <2>4, <2>5, Zenon
<1>7. [req[s] EXCEPT !.id = i, !.row = w, !.todo = d, !.left = l] = R(l, i, w, req[s].agent, req[s].task, d)
  <2> DEFINE f == [req[s] EXCEPT !.id = i]
             g == [f EXCEPT !.row = w]
             h == [g EXCEPT !.todo = d]
             k == [h EXCEPT !.left = l]
  <2>1. f = [state |-> req[s].state, left |-> req[s].left, id |-> i, row |-> req[s].row,
             agent |-> req[s].agent, task |-> req[s].task, todo |-> req[s].todo, value |-> req[s].value]
    BY <1>0 DEF IsHandler
  <2> HIDE DEF f
  <2>2. g = [state |-> req[s].state, left |-> req[s].left, id |-> i, row |-> w,
             agent |-> req[s].agent, task |-> req[s].task, todo |-> req[s].todo, value |-> req[s].value]
    BY <1>0, <2>1 DEF IsHandler
  <2> HIDE DEF g
  <2>3. h = [state |-> req[s].state, left |-> req[s].left, id |-> i, row |-> w,
             agent |-> req[s].agent, task |-> req[s].task, todo |-> d, value |-> req[s].value]
    BY <1>0, <2>2 DEF IsHandler
  <2> HIDE DEF h
  <2>4. k = [state |-> req[s].state, left |-> l, id |-> i, row |-> w,
             agent |-> req[s].agent, task |-> req[s].task, todo |-> d, value |-> req[s].value]
    BY <1>0, <2>3 DEF IsHandler
  <2> HIDE DEF k
  <2>5. k = [req[s] EXCEPT !.id = i, !.row = w, !.todo = d, !.left = l]
    BY DEF f, g, h, k
  <2> QED
    BY <2>4, <2>5, Zenon
<1>8. [req[s] EXCEPT !.row = w, !.todo = d] = R(req[s].left, req[s].id, w, req[s].agent, req[s].task, d)
  BY <1>0, WithRowTodo, Zenon
<1>9. [req[s] EXCEPT !.task = t, !.row = w] = R(req[s].left, req[s].id, w, req[s].agent, t, req[s].todo)
  BY <1>0, WithTaskRow, Zenon
<1>10. Goes(s, req[s]) => GoesWith(s, req[s].todo, req[s].left)
  BY <1>0, GoesBecomes DEF GoesWith
<1> HIDE DEF R
<1> QED
  BY <1>1, <1>2, <1>3, <1>4, <1>5, <1>6, <1>7, <1>8, <1>9, <1>10, Zenon DEF GoesWith, GetsId

\* The steps at which a handler holds a copy of a conversation to write back, and what comes
\* before and after those that write.
CopySteps == {"save", "getTask", "putTask", "say", "attach", "commit", "touch"}
Writes(h, n) ==
    /\ h \in CopySteps => h # "touch" /\ n \in CopySteps
    /\ h = "store" => n = "getTask"
    /\ n = "store" => h = "look"
    /\ n = "getTask" => h = "store"
    /\ n = "say" => h \in {"save", "putTask"}
    /\ n = "touch" => h \in {"say", "commit"}
    /\ n = "erase" => h = "check"
    /\ n = "dismiss" => h \in {"survey", "detach"}

\* What comes after what: the steps that write what a step before them read, and the last ones.
Follows(h, n) ==
    /\ h = "look" => n = "store"
    /\ h = "newTask" => n = "look"
    /\ h = "ask" => n = "newTask"
    /\ n \notin {"get", "ask", "meet", "open", "survey", "address", "stage", "detach", "interrupt"}
    /\ n = "putTask" => h = "getTask"
    /\ n = "putProfile" => h = "getProfile"
    /\ n = "putArtifact" => h = "getArtifact"
    /\ n = "keep" => h = "existing"
    /\ n = "save" => h = "get"
    /\ n = "newTask" => h = "ask"
    /\ n = "attach" => h = "address"
    /\ n = "validate" => h = "stage"
    /\ n = "move" => h = "validate"
    /\ n = "record" => h = "move"
    /\ n = "announce" => h = "record"
    /\ n = "commit" => h \in {"attach", "putTask"}
    /\ n \in {"look", "store"} => h \in {"look", "putAgent", "newTask"}
    /\ Writes(h, n)
NeverLast == {"look", "get", "open", "attach", "address", "stage", "validate", "move", "record", "getTask", "ask", "newTask"}

LEMMA WaysGoOn ==
  ASSUME NEW op \in DOMAIN Ways, NEW p \in Ways[op], NEW k \in 1..Len(p)
  PROVE  IF k = Len(p) THEN p[k] \notin NeverLast ELSE Follows(p[k], p[k + 1])
<1> DEFINE Goal(q, j) == IF j = Len(q) THEN q[j] \notin NeverLast ELSE Follows(q[j], q[j + 1])
<1>1. ASSUME op = "read" PROVE Goal(p, k)
  <2>1. Ways["read"] = {<<"read">>}
    BY DEF Ways
  <2>2. ASSUME NEW j \in 1..Len(<<"read">>) PROVE Goal(<<"read">>, j)
    BY DEF Follows, NeverLast, Writes, CopySteps
  <2>3. p = <<"read">>
    BY <1>1, <2>1
  <2> HIDE DEF Goal
  <2> QED
    BY <2>2, <2>3
<1>2. ASSUME op = "updateProfile" PROVE Goal(p, k)
  <2>1. Ways["updateProfile"] = {<<"getProfile", "putProfile">>}
    BY DEF Ways
  <2>2. ASSUME NEW j \in 1..Len(<<"getProfile", "putProfile">>) PROVE Goal(<<"getProfile", "putProfile">>, j)
    BY DEF Follows, NeverLast, Writes, CopySteps
  <2>3. p = <<"getProfile", "putProfile">>
    BY <1>2, <2>1
  <2> HIDE DEF Goal
  <2> QED
    BY <2>2, <2>3
<1>3. ASSUME op = "createSchedule" PROVE Goal(p, k)
  <2>1. Ways["createSchedule"] = {<<"getAgent", "home", "date">>}
    BY DEF Ways
  <2>2. ASSUME NEW j \in 1..Len(<<"getAgent", "home", "date">>) PROVE Goal(<<"getAgent", "home", "date">>, j)
    BY DEF Follows, NeverLast, Writes, CopySteps
  <2>3. p = <<"getAgent", "home", "date">>
    BY <1>3, <2>1
  <2> HIDE DEF Goal
  <2> QED
    BY <2>2, <2>3
<1>4. ASSUME op = "connect" PROVE Goal(p, k)
  <2>1. Ways["connect"] = {<<"actor", "token", "verify", "existing", "keep">>}
    BY DEF Ways
  <2>2. ASSUME NEW j \in 1..Len(<<"actor", "token", "verify", "existing", "keep">>) PROVE Goal(<<"actor", "token", "verify", "existing", "keep">>, j)
    BY DEF Follows, NeverLast, Writes, CopySteps
  <2>3. p = <<"actor", "token", "verify", "existing", "keep">>
    BY <1>4, <2>1
  <2> HIDE DEF Goal
  <2> QED
    BY <2>2, <2>3
<1>5. ASSUME op = "createConnector" PROVE Goal(p, k)
  <2>1. Ways["createConnector"] = {<<"actor", "add">>}
    BY DEF Ways
  <2>2. ASSUME NEW j \in 1..Len(<<"actor", "add">>) PROVE Goal(<<"actor", "add">>, j)
    BY DEF Follows, NeverLast, Writes, CopySteps
  <2>3. p = <<"actor", "add">>
    BY <1>5, <2>1
  <2> HIDE DEF Goal
  <2> QED
    BY <2>2, <2>3
<1>6. ASSUME op = "useConnector" PROVE Goal(p, k)
  <2>1. Ways["useConnector"] = {<<"actor", "lookup", "token", "send">>}
    BY DEF Ways
  <2>2. ASSUME NEW j \in 1..Len(<<"actor", "lookup", "token", "send">>) PROVE Goal(<<"actor", "lookup", "token", "send">>, j)
    BY DEF Follows, NeverLast, Writes, CopySteps
  <2>3. p = <<"actor", "lookup", "token", "send">>
    BY <1>6, <2>1
  <2> HIDE DEF Goal
  <2> QED
    BY <2>2, <2>3
<1>7. ASSUME op = "disconnect" PROVE Goal(p, k)
  <2>1. Ways["disconnect"] = {<<"actor", "lookup", "drop">>}
    BY DEF Ways
  <2>2. ASSUME NEW j \in 1..Len(<<"actor", "lookup", "drop">>) PROVE Goal(<<"actor", "lookup", "drop">>, j)
    BY DEF Follows, NeverLast, Writes, CopySteps
  <2>3. p = <<"actor", "lookup", "drop">>
    BY <1>7, <2>1
  <2> HIDE DEF Goal
  <2> QED
    BY <2>2, <2>3
<1>8. ASSUME op = "createAgent" PROVE Goal(p, k)
  <2>1. Ways["createAgent"] = {<<"enlist">>}
    BY DEF Ways
  <2>2. ASSUME NEW j \in 1..Len(<<"enlist">>) PROVE Goal(<<"enlist">>, j)
    BY DEF Follows, NeverLast, Writes, CopySteps
  <2>3. p = <<"enlist">>
    BY <1>8, <2>1
  <2> HIDE DEF Goal
  <2> QED
    BY <2>2, <2>3
<1>9. ASSUME op = "duplicateAgent" PROVE Goal(p, k)
  <2>1. Ways["duplicateAgent"] = {<<"getAgent", "enlist">>}
    BY DEF Ways
  <2>2. ASSUME NEW j \in 1..Len(<<"getAgent", "enlist">>) PROVE Goal(<<"getAgent", "enlist">>, j)
    BY DEF Follows, NeverLast, Writes, CopySteps
  <2>3. p = <<"getAgent", "enlist">>
    BY <1>9, <2>1
  <2> HIDE DEF Goal
  <2> QED
    BY <2>2, <2>3
<1>10. ASSUME op = "updateAgent" PROVE Goal(p, k)
  <2>1. Ways["updateAgent"] = {<<"getAgent", "putAgent">>}
    BY DEF Ways
  <2>2. ASSUME NEW j \in 1..Len(<<"getAgent", "putAgent">>) PROVE Goal(<<"getAgent", "putAgent">>, j)
    BY DEF Follows, NeverLast, Writes, CopySteps
  <2>3. p = <<"getAgent", "putAgent">>
    BY <1>10, <2>1
  <2> HIDE DEF Goal
  <2> QED
    BY <2>2, <2>3
<1>11. ASSUME op = "deleteAgent" PROVE Goal(p, k)
  <2>1. Ways["deleteAgent"] = {<<"survey", "dismiss">>,
                              <<"detach", "dismiss">>}
    BY DEF Ways
  <2>2. ASSUME NEW j \in 1..Len(<<"survey", "dismiss">>) PROVE Goal(<<"survey", "dismiss">>, j)
    BY DEF Follows, NeverLast, Writes, CopySteps
  <2>3. ASSUME NEW j \in 1..Len(<<"detach", "dismiss">>) PROVE Goal(<<"detach", "dismiss">>, j)
    BY DEF Follows, NeverLast, Writes, CopySteps
  <2>4. p = <<"survey", "dismiss">> \/ p = <<"detach", "dismiss">>
    BY <1>11, <2>1
  <2> HIDE DEF Goal
  <2> QED
    BY <2>2, <2>3, <2>4
<1>12. ASSUME op = "createConversation" PROVE Goal(p, k)
  <2>1. Ways["createConversation"] = {<<"look", "store">>}
    BY DEF Ways
  <2>2. ASSUME NEW j \in 1..Len(<<"look", "store">>) PROVE Goal(<<"look", "store">>, j)
    BY DEF Follows, NeverLast, Writes, CopySteps
  <2>3. p = <<"look", "store">>
    BY <1>12, <2>1
  <2> HIDE DEF Goal
  <2> QED
    BY <2>2, <2>3
<1>13. ASSUME op = "updateConversation" PROVE Goal(p, k)
  <2>1. Ways["updateConversation"] = {<<"get", "save">>}
    BY DEF Ways
  <2>2. ASSUME NEW j \in 1..Len(<<"get", "save">>) PROVE Goal(<<"get", "save">>, j)
    BY DEF Follows, NeverLast, Writes, CopySteps
  <2>3. p = <<"get", "save">>
    BY <1>13, <2>1
  <2> HIDE DEF Goal
  <2> QED
    BY <2>2, <2>3
<1>14. ASSUME op = "deleteConversation" PROVE Goal(p, k)
  <2>1. Ways["deleteConversation"] = {<<"check", "erase">>}
    BY DEF Ways
  <2>2. ASSUME NEW j \in 1..Len(<<"check", "erase">>) PROVE Goal(<<"check", "erase">>, j)
    BY DEF Follows, NeverLast, Writes, CopySteps
  <2>3. p = <<"check", "erase">>
    BY <1>14, <2>1
  <2> HIDE DEF Goal
  <2> QED
    BY <2>2, <2>3
<1>15. ASSUME op = "clearConversation" PROVE Goal(p, k)
  <2>1. Ways["clearConversation"] = {<<"open", "check", "erase", "getAgent", "putAgent", "look", "store">>,
                                    <<"interrupt", "check", "erase", "getAgent", "putAgent", "look", "store">>}
    BY DEF Ways
  <2>2. ASSUME NEW j \in 1..Len(<<"open", "check", "erase", "getAgent", "putAgent", "look", "store">>) PROVE Goal(<<"open", "check", "erase", "getAgent", "putAgent", "look", "store">>, j)
    BY DEF Follows, NeverLast, Writes, CopySteps
  <2>3. ASSUME NEW j \in 1..Len(<<"interrupt", "check", "erase", "getAgent", "putAgent", "look", "store">>) PROVE Goal(<<"interrupt", "check", "erase", "getAgent", "putAgent", "look", "store">>, j)
    BY DEF Follows, NeverLast, Writes, CopySteps
  <2>4. p = <<"open", "check", "erase", "getAgent", "putAgent", "look", "store">> \/ p = <<"interrupt", "check", "erase", "getAgent", "putAgent", "look", "store">>
    BY <1>15, <2>1
  <2> HIDE DEF Goal
  <2> QED
    BY <2>2, <2>3, <2>4
<1>16. ASSUME op = "sendMessage" PROVE Goal(p, k)
  <2>1. Ways["sendMessage"] = {<<"address", "attach", "commit", "touch">>}
    BY DEF Ways
  <2>2. ASSUME NEW j \in 1..Len(<<"address", "attach", "commit", "touch">>) PROVE Goal(<<"address", "attach", "commit", "touch">>, j)
    BY DEF Follows, NeverLast, Writes, CopySteps
  <2>3. p = <<"address", "attach", "commit", "touch">>
    BY <1>16, <2>1
  <2> HIDE DEF Goal
  <2> QED
    BY <2>2, <2>3
<1>17. ASSUME op = "sendCollaborationMessage" PROVE Goal(p, k)
  <2>1. Ways["sendCollaborationMessage"] = {<<"meet">>,
                                           <<"get", "save", "say", "touch">>,
                                           <<"look", "store", "getTask", "putTask", "say", "touch">>}
    BY DEF Ways
  <2>2. ASSUME NEW j \in 1..Len(<<"meet">>) PROVE Goal(<<"meet">>, j)
    BY DEF Follows, NeverLast, Writes, CopySteps
  <2>3. ASSUME NEW j \in 1..Len(<<"get", "save", "say", "touch">>) PROVE Goal(<<"get", "save", "say", "touch">>, j)
    BY DEF Follows, NeverLast, Writes, CopySteps
  <2>4. ASSUME NEW j \in 1..Len(<<"look", "store", "getTask", "putTask", "say", "touch">>) PROVE Goal(<<"look", "store", "getTask", "putTask", "say", "touch">>, j)
    BY DEF Follows, NeverLast, Writes, CopySteps
  <2>5. p = <<"meet">> \/ p = <<"get", "save", "say", "touch">> \/ p = <<"look", "store", "getTask", "putTask", "say", "touch">>
    BY <1>17, <2>1
  <2> HIDE DEF Goal
  <2> QED
    BY <2>2, <2>3, <2>4, <2>5
<1>18. ASSUME op = "requestAgentHelp" PROVE Goal(p, k)
  <2>1. Ways["requestAgentHelp"] = {<<"ask", "newTask", "look", "store", "getTask", "putTask", "commit", "touch">>}
    BY DEF Ways
  <2>2. ASSUME NEW j \in 1..Len(<<"ask", "newTask", "look", "store", "getTask", "putTask", "commit", "touch">>) PROVE Goal(<<"ask", "newTask", "look", "store", "getTask", "putTask", "commit", "touch">>, j)
    BY DEF Follows, NeverLast, Writes, CopySteps
  <2>3. p = <<"ask", "newTask", "look", "store", "getTask", "putTask", "commit", "touch">>
    BY <1>18, <2>1
  <2> HIDE DEF Goal
  <2> QED
    BY <2>2, <2>3
<1>19. ASSUME op = "readAgentHelp" PROVE Goal(p, k)
  <2>1. Ways["readAgentHelp"] = {<<"readHelp">>}
    BY DEF Ways
  <2>2. ASSUME NEW j \in 1..Len(<<"readHelp">>) PROVE Goal(<<"readHelp">>, j)
    BY DEF Follows, NeverLast, Writes, CopySteps
  <2>3. p = <<"readHelp">>
    BY <1>19, <2>1
  <2> HIDE DEF Goal
  <2> QED
    BY <2>2, <2>3
<1>20. ASSUME op = "upload" PROVE Goal(p, k)
  <2>1. Ways["upload"] = {<<"stage", "validate", "move", "record", "announce">>}
    BY DEF Ways
  <2>2. ASSUME NEW j \in 1..Len(<<"stage", "validate", "move", "record", "announce">>) PROVE Goal(<<"stage", "validate", "move", "record", "announce">>, j)
    BY DEF Follows, NeverLast, Writes, CopySteps
  <2>3. p = <<"stage", "validate", "move", "record", "announce">>
    BY <1>20, <2>1
  <2> HIDE DEF Goal
  <2> QED
    BY <2>2, <2>3
<1>21. ASSUME op = "rename" PROVE Goal(p, k)
  <2>1. Ways["rename"] = {<<"getArtifact", "putArtifact">>}
    BY DEF Ways
  <2>2. ASSUME NEW j \in 1..Len(<<"getArtifact", "putArtifact">>) PROVE Goal(<<"getArtifact", "putArtifact">>, j)
    BY DEF Follows, NeverLast, Writes, CopySteps
  <2>3. p = <<"getArtifact", "putArtifact">>
    BY <1>21, <2>1
  <2> HIDE DEF Goal
  <2> QED
    BY <2>2, <2>3
<1>22. ASSUME op = "download" PROVE Goal(p, k)
  <2>1. Ways["download"] = {<<"openFile">>}
    BY DEF Ways
  <2>2. ASSUME NEW j \in 1..Len(<<"openFile">>) PROVE Goal(<<"openFile">>, j)
    BY DEF Follows, NeverLast, Writes, CopySteps
  <2>3. p = <<"openFile">>
    BY <1>22, <2>1
  <2> HIDE DEF Goal
  <2> QED
    BY <2>2, <2>3
<1> QED
  BY <1>1, <1>2, <1>3, <1>4, <1>5, <1>6, <1>7, <1>8, <1>9, <1>10, <1>11, <1>12, <1>13, <1>14, <1>15, <1>16, <1>17, <1>18, <1>19, <1>20, <1>21, <1>22 DEF Ways

LEMMA WhatFollows ==
  ASSUME NEW op \in DOMAIN Ways, NEW l \in RestsOf(op)
  PROVE  /\ Tail(l) # <<>> => Follows(Head(l), Head(Tail(l)))
         /\ Head(l) \in NeverLast => Tail(l) # <<>>
         /\ Tail(l) # <<>> => Tail(Tail(l)) = <<>> \/ Tail(Tail(l)) \in RestsOf(op)
<1>1. PICK p \in Ways[op] : \E k \in 1..Len(p) :
               /\ Len(p) \in Nat /\ Head(l) = p[k]
               /\ Tail(l) = IF k = Len(p) THEN <<>> ELSE From(p, k + 1)
               /\ k # Len(p) => /\ Tail(l) # <<>> /\ Head(Tail(l)) = p[k + 1]
                                /\ Tail(Tail(l)) = IF k + 1 = Len(p) THEN <<>> ELSE From(p, k + 2)
  BY RestsGoOn
<1>2. PICK k \in 1..Len(p) :
               /\ Len(p) \in Nat /\ Head(l) = p[k]
               /\ Tail(l) = IF k = Len(p) THEN <<>> ELSE From(p, k + 1)
               /\ k # Len(p) => /\ Tail(l) # <<>> /\ Head(Tail(l)) = p[k + 1]
                                /\ Tail(Tail(l)) = IF k + 1 = Len(p) THEN <<>> ELSE From(p, k + 2)
  BY <1>1
<1>3. IF k = Len(p) THEN p[k] \notin NeverLast ELSE Follows(p[k], p[k + 1])
  BY <1>2, WaysGoOn
<1>4. Tail(l) # <<>> => Tail(Tail(l)) = <<>> \/ Tail(Tail(l)) \in RestsOf(op)
  BY RestsGoOn
<1> QED
  BY <1>2, <1>3, <1>4

\* The rows of conversations that may be stored.
GoodChats == {c \in Chats : Cardinality(c.members) \in 1..MaxMembers}

\* What the handler of s holds if its next step is h.
HoldsAt(s, h, i, w, a, t, d, v) ==
    LET op == Op(s)
    IN /\ op \in ForAgents => By(s) \in AgentIds /\ asked[s].task \in TaskIds
       /\ op = "updateAgent" /\ h # "getAgent" => a \in AgentIds
       /\ op = "deleteAgent" /\ h # "survey" => \A item \in d : item[2] \in GoodChats
       /\ op = "createConversation" => w \in GoodChats
       /\ op = "updateConversation" => i \in ChatIds /\ d = {} /\ (h = "save" => w \in GoodChats)
       /\ op = "deleteConversation" => TRUE
       /\ op = "clearConversation" =>
             i \in ChatIds /\ (h # "open" => w \in GoodChats /\ a \in AgentIds /\ d \subseteq Present(run))
       /\ op = "sendMessage" => i \in ChatIds /\ (h # "address" => w \in GoodChats /\ a \in AgentIds)
       /\ op = "sendCollaborationMessage" =>
             /\ t = asked[s].task
             /\ h # "meet" => w \in GoodChats
             /\ h \notin {"meet", "look", "store"} => i \in ChatIds
             /\ h = "get" => d # {} /\ d \subseteq AgentIds /\ Cardinality(d) \in 1..MaxMembers
       /\ op = "requestAgentHelp" =>
             /\ h # "ask" => w \in GoodChats /\ a \in AgentIds /\ t = s
             /\ h \notin {"ask", "newTask", "look", "store"} => i \in ChatIds
       /\ h = "putTask" => v \in Tasks
       /\ h = "keep" => w \in ConnectorRows \cup {None}
       /\ h = "putProfile" => v \subseteq Keys /\ Cardinality(v) <= MaxProfile
Holds(s) ==
    HoldsAt(s, Head(req[s].left), req[s].id, req[s].row, req[s].agent, req[s].task, req[s].todo, req[s].value)
RowsHeld == \A s \in Slots : Running(s) => Holds(s)

\* The handler of s goes on along its way and holds what it needs, or stops.
Proceeds(s) ==
    \/ Refuses(s)
    \/ \E i, w, a, t, d, v, l :
          /\ Becomes(s, i, w, a, t, d, v, l)
          /\ l = <<>> \/ (l \in RestsOf(Op(s)) /\ HoldsAt(s, Head(l), i, w, a, t, d, v))

LEMMA ProceedsInv ==
  ASSUME RequestInv, RowsHeld, NEW s \in Slots, Running(s), Proceeds(s), Present(run) \subseteq Present(run)'
  PROVE  RequestInv' /\ RowsHeld'
<1>1. CASE Refuses(s)
  <2>1. Stops(s, "refused") /\ UNCHANGED <<database, asked, before, faults>>
    BY <1>1, RefusesStopsIt DEF Refuses
  <2>2. RequestInv'
    BY <2>1, StopsInv DEF RequestInv
  <2>3. ASSUME NEW u \in Slots, Running(u)' PROVE Holds(u)'
    <3>1. u # s /\ req'[u] = req[u] /\ Running(u)
      BY <2>1, <2>3 DEF Stops, StopsIn, Running
    <3>2. Holds(u)
      BY <3>1 DEF RowsHeld
    <3> QED
      BY <2>1, <3>1, <3>2 DEF Holds, HoldsAt, Op, By
  <2> QED
    BY <2>2, <2>3 DEF RowsHeld
<1>2. CASE \E i, w, a, t, d, v, l :
             /\ Becomes(s, i, w, a, t, d, v, l)
             /\ l = <<>> \/ (l \in RestsOf(Op(s)) /\ HoldsAt(s, Head(l), i, w, a, t, d, v))
  <2>1. PICK i, w, a, t, d, v, l :
             /\ Becomes(s, i, w, a, t, d, v, l)
             /\ l = <<>> \/ (l \in RestsOf(Op(s)) /\ HoldsAt(s, Head(l), i, w, a, t, d, v))
    BY <1>2
  <2>2. RequestInv'
    BY <2>1, BecomesInv
  <2>3. /\ req'[s].id = i /\ req'[s].row = w /\ req'[s].agent = a /\ req'[s].task = t /\ req'[s].todo = d
        /\ req'[s].value = v /\ req'[s].left = l
        /\ req'[s].state = IF l = <<>> THEN "done" ELSE "running"
        /\ \A u \in Slots : u # s => req'[u] = req[u]
        /\ asked' = asked
    BY <2>1, BecameIs
  <2>4. ASSUME NEW u \in Slots, Running(u)' PROVE Holds(u)'
    <3>1. CASE u = s
      <4>1. l # <<>>
        BY <2>3, <2>4, <3>1 DEF Running
      <4>2. HoldsAt(s, Head(l), i, w, a, t, d, v)
        BY <2>1, <4>1
      <4>3. HoldsAt(s, Head(l), i, w, a, t, d, v)'
        BY <2>3, <4>2 DEF HoldsAt, Op, By
      <4> QED
        BY <2>3, <3>1, <4>3 DEF Holds
    <3>2. CASE u # s
      <4>1. req'[u] = req[u] /\ Holds(u)
        BY <2>3, <2>4, <3>2 DEF Running, RowsHeld
      <4> QED
        BY <2>3, <4>1 DEF Holds, HoldsAt, Op, By
    <3> QED
      BY <3>1, <3>2
  <2> QED
    BY <2>2, <2>4 DEF RowsHeld
<1> QED
  BY <1>1, <1>2 DEF Proceeds

\* What is known of a handler at a step, and of the step after it.
Establishing == {"getAgent", "survey", "get", "open", "address", "meet", "getTask", "ask", "existing", "getProfile", "store"}
LEMMA AtStep ==
  ASSUME RequestInv, RowsHeld, NEW s \in Slots, NEW h, At(s, h)
  PROVE  /\ Running(s) /\ Head(req[s].left) = h /\ Holds(s) /\ WellFormed(asked[s])
         /\ Op(s) \in DOMAIN Ways /\ h \in StepsOf[Op(s)] /\ req[s].left \in RestsOf(Op(s))
         /\ HoldsAt(s, h, req[s].id, req[s].row, req[s].agent, req[s].task, req[s].todo, req[s].value)
         /\ Tail(req[s].left) = <<>> \/ (Tail(req[s].left) \in RestsOf(Op(s)) /\ Follows(h, Head(Tail(req[s].left))))
         /\ h \in NeverLast => Tail(req[s].left) # <<>>
         /\ Tail(req[s].left) # <<>> => Tail(Tail(req[s].left)) = <<>> \/ Tail(Tail(req[s].left)) \in RestsOf(Op(s))
<1>1. Running(s) /\ Head(req[s].left) = h /\ Holds(s)
  BY DEF At, RowsHeld
<1>2. WellFormed(asked[s]) /\ Op(s) \in DOMAIN Ways /\ req[s].left \in RestsOf(Op(s)) /\ Head(req[s].left) \in StepsOf[Op(s)]
  BY <1>1, RunningIs
<1> QED
  BY <1>1, <1>2, RestsGoOn, WhatFollows DEF Holds

\* A step that changes no variable, and is not one that reads what a later one writes.
LEMMA PlainProceeds ==
  ASSUME RequestInv, RowsHeld, NEW s \in Slots, NEW h, At(s, h), h \notin Establishing,
         Moves(s, req[s]) \/ Refuses(s)
  PROVE  Proceeds(s)
<1>1. CASE Moves(s, req[s])
  <2>1. Plain(s)
    BY <1>1, MovesAre DEF At
  <2>2. ASSUME Tail(req[s].left) # <<>>
        PROVE  HoldsAt(s, Head(Tail(req[s].left)), req[s].id, req[s].row, req[s].agent, req[s].task,
                       req[s].todo, req[s].value)
    <3> DEFINE n == Head(Tail(req[s].left))
    <3>1. /\ HoldsAt(s, h, req[s].id, req[s].row, req[s].agent, req[s].task, req[s].todo, req[s].value)
          /\ Follows(h, n)
      BY <2>2, AtStep
    <3> HIDE DEF n
    <3>2. HoldsAt(s, n, req[s].id, req[s].row, req[s].agent, req[s].task, req[s].todo, req[s].value)
      BY <3>1 DEF HoldsAt, Follows, Establishing
    <3> QED
      BY <3>2 DEF n
  <2>3. Tail(req[s].left) = <<>> \/ Tail(req[s].left) \in RestsOf(Op(s))
    BY AtStep
  <2> QED
    BY <2>1, <2>2, <2>3 DEF Plain, Proceeds
<1>2. CASE Refuses(s)
  BY <1>2 DEF Proceeds
<1> QED
  BY <1>1, <1>2

\* The steps that change no variable of the handler.
LEMMA PlainSteps ==
  ASSUME RequestInv, RowsHeld, NEW s \in Slots,
         Enlist(s) \/ PutAgent(s) \/ Dismiss(s) \/ Save(s) \/ Check(s) \/ Erase(s) \/ Touch(s) \/ Say(s) \/
         NewTask(s) \/ ReadHelp(s) \/ Stage(s) \/ Move(s) \/ Record(s) \/ Announce(s) \/ PutArtifact(s) \/
         Download(s) \/ Actor(s) \/ Token(s) \/ Verify(s) \/ Keep(s) \/ Add(s) \/ Drop(s) \/
         PutProfile(s) \/ FindHome(s) \/ Read(s)
  PROVE  Proceeds(s) /\ Running(s)
<1>1. Enlist(s) => At(s, "enlist") /\ (Moves(s, req[s]) \/ Refuses(s))
  BY DEF Enlist, Reads
<1>2. PutAgent(s) => At(s, "putAgent") /\ (Moves(s, req[s]) \/ Refuses(s))
  BY DEF PutAgent, Reads
<1>3. Dismiss(s) => At(s, "dismiss") /\ (Moves(s, req[s]) \/ Refuses(s))
  BY DEF Dismiss, Reads
<1>4. Save(s) => At(s, "save") /\ (Moves(s, req[s]) \/ Refuses(s))
  BY DEF Save, Reads
<1>5. Check(s) => At(s, "check") /\ (Moves(s, req[s]) \/ Refuses(s))
  BY DEF Check, Reads
<1>6. Erase(s) => At(s, "erase") /\ (Moves(s, req[s]) \/ Refuses(s))
  BY DEF Erase, Reads
<1>7. Touch(s) => At(s, "touch") /\ (Moves(s, req[s]) \/ Refuses(s))
  BY DEF Touch, Reads
<1>8. Say(s) => At(s, "say") /\ (Moves(s, req[s]) \/ Refuses(s))
  BY DEF Say, Reads
<1>9. NewTask(s) => At(s, "newTask") /\ (Moves(s, req[s]) \/ Refuses(s))
  BY DEF NewTask, Reads
<1>10. ReadHelp(s) => At(s,
              "readHelp") /\ (Moves(s, req[s]) \/ Refuses(s))
  BY DEF ReadHelp, Reads
<1>11. Stage(s) => At(s, "stage") /\ (Moves(s, req[s]) \/ Refuses(s))
  BY DEF Stage, Reads
<1>12. Move(s) => At(s, "move") /\ (Moves(s, req[s]) \/ Refuses(s))
  BY DEF Move, Reads
<1>13. Record(s) => At(s, "record") /\ (Moves(s, req[s]) \/ Refuses(s))
  BY DEF Record, Reads
<1>14. Announce(s) => At(s, "announce") /\ (Moves(s, req[s]) \/ Refuses(s))
  BY DEF Announce, Reads
<1>15. PutArtifact(s) => At(s, "putArtifact") /\ (Moves(s, req[s]) \/ Refuses(s))
  BY DEF PutArtifact, Reads
<1>16. Download(s) => At(s, "openFile") /\ (Moves(s, req[s]) \/ Refuses(s))
  BY DEF Download, Reads
<1>17. Actor(s) => At(s, "actor") /\ (Moves(s, req[s]) \/ Refuses(s))
  BY DEF Actor, Reads
<1>18. Token(s) => At(s, "token") /\ (Moves(s, req[s]) \/ Refuses(s))
  BY DEF Token, Reads
<1>19. Verify(s) => At(s, "verify") /\ (Moves(s, req[s]) \/ Refuses(s))
  BY DEF Verify, Reads
<1>20. Keep(s) => At(s, "keep") /\ (Moves(s, req[s]) \/ Refuses(s))
  BY DEF Keep, Reads
<1>21. Add(s) => At(s,
              "add") /\ (Moves(s, req[s]) \/ Refuses(s))
  BY DEF Add, Reads
<1>22. Drop(s) => At(s, "drop") /\ (Moves(s, req[s]) \/ Refuses(s))
  BY DEF Drop, Reads
<1>23. PutProfile(s) => At(s, "putProfile") /\ (Moves(s, req[s]) \/ Refuses(s))
  BY DEF PutProfile, Reads
<1>24. FindHome(s) => At(s, "home") /\ (Moves(s, req[s]) \/ Refuses(s))
  BY DEF FindHome, Reads
<1>25. Read(s) => At(s, "read") /\ (Moves(s, req[s]) \/ Refuses(s))
  BY DEF Read, Reads
<1>26. \A h : At(s, h) /\ h \notin Establishing /\ (Moves(s, req[s]) \/ Refuses(s)) => Proceeds(s) /\ Running(s)
  BY PlainProceeds DEF At
<1>27. \A h \in {"enlist", "putAgent", "dismiss", "save", "check", "erase", "touch", "say", "newTask",
              "readHelp", "stage", "move", "record", "announce", "putArtifact", "openFile", "actor", "token", "verify", "keep",
              "add", "drop", "putProfile", "home", "read"} : h \notin Establishing
  BY DEF Establishing
<1> QED
  BY <1>1, <1>2, <1>3, <1>4, <1>5, <1>6, <1>7, <1>8, <1>9, <1>10, <1>11, <1>12, <1>13, <1>14, <1>15,
     <1>16, <1>17, <1>18, <1>19, <1>20, <1>21, <1>22, <1>23, <1>24, <1>25, <1>26, <1>27

\* Those that change the row or the value.
LEMMA RowProceeds ==
  ASSUME RequestInv, RowsHeld, NEW s \in Slots, NEW h, At(s, h), NEW x, Moves(s, [req[s] EXCEPT !.row = x]),
         Tail(req[s].left) # <<>> => HoldsAt(s, Head(Tail(req[s].left)), req[s].id, x, req[s].agent,
                                             req[s].task, req[s].todo, req[s].value)
  PROVE  Proceeds(s)
<1>1. GetsRow(s, x)
  BY MovesAre DEF At
<1>2. Tail(req[s].left) = <<>> \/ Tail(req[s].left) \in RestsOf(Op(s))
  BY AtStep
<1> QED
  BY <1>1, <1>2 DEF GetsRow, Proceeds

LEMMA ValueProceeds ==
  ASSUME RequestInv, RowsHeld, NEW s \in Slots, NEW h, At(s, h), NEW x, Moves(s, [req[s] EXCEPT !.value = x]),
         Tail(req[s].left) # <<>> => HoldsAt(s, Head(Tail(req[s].left)), req[s].id, req[s].row, req[s].agent,
                                             req[s].task, req[s].todo, x)
  PROVE  Proceeds(s)
<1>1. GetsValue(s, x)
  BY MovesAre DEF At
<1>2. Tail(req[s].left) = <<>> \/ Tail(req[s].left) \in RestsOf(Op(s))
  BY AtStep
<1> QED
  BY <1>1, <1>2 DEF GetsValue, Proceeds

\* What the tables of agents, conversations, tasks, runs and connectors may hold.
TablesTyped ==
    /\ ChatsTypeOK /\ ConnectorsTypeOK
    /\ profile \subseteq Keys /\ Cardinality(profile) <= MaxProfile

LEMMA StoredChats ==
  ASSUME TablesTyped
  PROVE  /\ \A c \in Present(chat) : c \in ChatIds /\ chat[c] \in GoodChats
         /\ \A c \in ChatIds : chat[c] # None => chat[c] \in GoodChats
         /\ \A t \in TaskIds : task[t] # None => task[t] \in Tasks
  BY DEF TablesTyped, ChatsTypeOK, Present, GoodChats

LEMMA FiniteMembers ==
  ASSUME NEW S \in SUBSET AgentIds
  PROVE  IsFiniteSet(S) /\ Cardinality(S) \in Nat /\ (S # {} => Cardinality(S) >= 1)
<1>1. IsFiniteSet(AgentIds)
  BY WorkspaceAssumption, FS_Union DEF AgentIds
<1>2. IsFiniteSet(S)
  BY <1>1, FS_Subset
<1>3. Cardinality(S) \in Nat /\ (Cardinality(S) = 0 <=> S = {})
  BY <1>2, FS_CardinalityType, FS_EmptySet
<1> QED
  BY <1>2, <1>3

\* The steps that change the row or the value of the handler.
LEMMA RowSteps ==
  ASSUME RequestInv, RowsHeld, TablesTyped, NEW s \in Slots
  PROVE  /\ Address(s) => Proceeds(s)
         /\ Existing(s) => Proceeds(s)
         /\ Lookup(s) => Proceeds(s)
         /\ Validate(s) => Proceeds(s)
         /\ GetArtifact(s) => Proceeds(s)
<1> DEFINE Holding(n, x) == HoldsAt(s, n, req[s].id, x, req[s].agent, req[s].task, req[s].todo, req[s].value)
           n == Head(Tail(req[s].left))
<1>1. ASSUME Address(s) PROVE Proceeds(s)
  <2>1. CASE Refuses(s)
    BY <2>1 DEF Proceeds
  <2>2. CASE ~Refuses(s)
    <3>1. /\ At(s, "address") /\ Moves(s, [req[s] EXCEPT !.row = chat[req[s].id]])
          /\ chat[req[s].id] # None /\ req[s].agent \in agents
      BY <1>1, <2>2 DEF Address, Reads
    <3>2. Holding("address", req[s].row) /\ (Tail(req[s].left) # <<>> => Follows("address", n))
          /\ Op(s) = "sendMessage"
      BY <3>1, AtStep, StepsAreOf
    <3>3. chat[req[s].id] \in GoodChats /\ req[s].agent \in AgentIds
      BY <3>1, <3>2, StoredChats DEF HoldsAt, TablesTyped, ChatsTypeOK
    <3> HIDE DEF n
    <3>4. Tail(req[s].left) # <<>> => Holding(n, chat[req[s].id])
      BY <3>2, <3>3 DEF HoldsAt, Follows, ForAgents
    <3> QED
      BY <3>1, <3>4, RowProceeds DEF n
  <2> QED
    BY <2>1, <2>2
<1>2. ASSUME Existing(s) PROVE Proceeds(s)
  <2>1. At(s, "existing") /\ Moves(s, [req[s] EXCEPT !.row = connector[Firebase]])
    BY <1>2 DEF Existing
  <2>2. Holding("existing", req[s].row) /\ (Tail(req[s].left) # <<>> => Follows("existing", n)) /\ Op(s) = "connect"
    BY <2>1, AtStep, StepsAreOf
  <2>3. connector[Firebase] \in ConnectorRows \cup {None}
    BY DEF TablesTyped, ConnectorsTypeOK, ConnectorIds
  <2> HIDE DEF n
  <2>4. Tail(req[s].left) # <<>> => Holding(n, connector[Firebase])
    BY <2>2, <2>3 DEF HoldsAt, Follows, ForAgents
  <2> QED
    BY <2>1, <2>4, RowProceeds DEF n
<1>3. ASSUME NEW h \in {"lookup", "validate", "getArtifact"}, NEW x, At(s, h), Moves(s, [req[s] EXCEPT !.row = x])
      PROVE  Proceeds(s)
  <2>1. /\ Holding(h, req[s].row) /\ (Tail(req[s].left) # <<>> => Follows(h, n))
        /\ Op(s) \in {"useConnector", "disconnect", "upload", "rename"}
    BY <1>3, AtStep, StepsAreOf
  <2> HIDE DEF n
  <2>2. Tail(req[s].left) # <<>> => Holding(n, x)
    BY <1>3, <2>1 DEF HoldsAt, Follows, ForAgents
  <2> QED
    BY <1>3, <2>2, RowProceeds DEF n
<1>4. Lookup(s) => At(s, "lookup") /\ (Refuses(s) \/ \E x : Moves(s, [req[s] EXCEPT !.row = x]))
  BY DEF Lookup, Reads
<1>5. Validate(s) => At(s, "validate") /\ (Refuses(s) \/ \E x : Moves(s, [req[s] EXCEPT !.row = x]))
  BY DEF Validate
<1>6. GetArtifact(s) => At(s, "getArtifact") /\ (Refuses(s) \/ \E x : Moves(s, [req[s] EXCEPT !.row = x]))
  BY DEF GetArtifact, Reads
<1>7. Refuses(s) => Proceeds(s)
  BY DEF Proceeds
<1> QED
  BY <1>1, <1>2, <1>3, <1>4, <1>5, <1>6, <1>7

LEMMA ValueSteps ==
  ASSUME RequestInv, RowsHeld, TablesTyped, NEW s \in Slots
  PROVE  /\ GetTask(s) => Proceeds(s)
         /\ PutTask(s) => Proceeds(s)
         /\ ReadProfile(s) => Proceeds(s)
         /\ Send(s) => Proceeds(s)
         /\ FirstRun(s) => Proceeds(s)
<1> DEFINE Holding(n, x) == HoldsAt(s, n, req[s].id, req[s].row, req[s].agent, req[s].task, req[s].todo, x)
           n == Head(Tail(req[s].left))
<1>0. Refuses(s) => Proceeds(s)
  BY DEF Proceeds
<1>1. ASSUME GetTask(s) PROVE Proceeds(s)
  <2>1. CASE ~Refuses(s)
    <3>1. At(s, "getTask") /\ Moves(s, [req[s] EXCEPT !.value = task[req[s].task]]) /\ task[req[s].task] # None
      BY <1>1, <2>1 DEF GetTask, Reads
    <3>2. /\ Holding("getTask", req[s].value) /\ (Tail(req[s].left) # <<>> => Follows("getTask", n))
          /\ Op(s) \in {"sendCollaborationMessage", "requestAgentHelp"}
      BY <3>1, AtStep, StepsAreOf
    <3>3. req[s].task \in TaskIds
      BY <3>2 DEF HoldsAt, ForAgents, TaskIds
    <3>4. task[req[s].task] \in Tasks
      BY <3>1, <3>3, StoredChats
    <3> HIDE DEF n
    <3>5. Tail(req[s].left) # <<>> => Holding(n, task[req[s].task])
      BY <3>2, <3>4 DEF HoldsAt, Follows, ForAgents
    <3> QED
      BY <3>1, <3>5, ValueProceeds DEF n
  <2> QED
    BY <1>0, <2>1
<1>2. ASSUME PutTask(s) PROVE Proceeds(s)
  <2>1. At(s, "putTask") /\ Moves(s, [req[s] EXCEPT !.value = None])
    BY <1>2 DEF PutTask
  <2>2. /\ Holding("putTask", req[s].value) /\ (Tail(req[s].left) # <<>> => Follows("putTask", n))
        /\ Op(s) \in {"sendCollaborationMessage", "requestAgentHelp"}
    BY <2>1, AtStep, StepsAreOf
  <2> HIDE DEF n
  <2>3. Tail(req[s].left) # <<>> => Holding(n, None)
    BY <2>2 DEF HoldsAt, Follows, ForAgents
  <2> QED
    BY <2>1, <2>3, ValueProceeds DEF n
<1>3. ASSUME ReadProfile(s) PROVE Proceeds(s)
  <2>1. CASE ~Refuses(s)
    <3>1. /\ At(s, "getProfile") /\ Moves(s, [req[s] EXCEPT !.value = Merged(s)])
          /\ Cardinality(Merged(s)) <= MaxProfile
      BY <1>3, <2>1 DEF ReadProfile, Reads
    <3>2. /\ Holding("getProfile", req[s].value) /\ (Tail(req[s].left) # <<>> => Follows("getProfile", n))
          /\ Op(s) = "updateProfile" /\ WellFormed(asked[s])
      BY <3>1, AtStep, StepsAreOf
    <3>3. Merged(s) \subseteq Keys
      BY <3>2 DEF Merged, TablesTyped, WellFormed
    <3> HIDE DEF n
    <3>4. Tail(req[s].left) # <<>> => Holding(n, Merged(s))
      BY <3>1, <3>2, <3>3 DEF HoldsAt, Follows, ForAgents
    <3> QED
      BY <3>1, <3>4, ValueProceeds DEF n
  <2> QED
    BY <1>0, <2>1
<1>4. ASSUME NEW h \in {"send", "date"}, NEW x, At(s, h), Moves(s, [req[s] EXCEPT !.value = x])
      PROVE  Proceeds(s)
  <2>1. /\ Holding(h, req[s].value) /\ (Tail(req[s].left) # <<>> => Follows(h, n))
        /\ Op(s) \in {"useConnector", "createSchedule"}
    BY <1>4, AtStep, StepsAreOf
  <2> HIDE DEF n
  <2>2. Tail(req[s].left) # <<>> => Holding(n, x)
    BY <1>4, <2>1 DEF HoldsAt, Follows, ForAgents
  <2> QED
    BY <1>4, <2>2, ValueProceeds DEF n
<1>5. Send(s) => At(s, "send") /\ (Refuses(s) \/ \E x : Moves(s, [req[s] EXCEPT !.value = x]))
  BY DEF Send, Reads
<1>6. FirstRun(s) => At(s, "date") /\ (Refuses(s) \/ \E x : Moves(s, [req[s] EXCEPT !.value = x]))
  BY DEF FirstRun
<1> QED
  BY <1>0, <1>1, <1>2, <1>3, <1>4, <1>5, <1>6

\* The steps after which the way of a handler, or what it is about, depends on what they find.
LEMMA LoopGoes ==
  ASSUME RequestInv, NEW s \in Slots, Running(s), NEW item, Goes(s, Rest(s, item))
  PROVE  LET d == req[s].todo \ {item}
         IN GoesWith(s, d, IF d = {} THEN Tail(req[s].left) ELSE req[s].left)
<1> DEFINE d == req[s].todo \ {item}
           l == IF d = {} THEN Tail(req[s].left) ELSE req[s].left
<1>1. Rest(s, item) = [req[s] EXCEPT !.todo = d, !.left = l]
  BY Zenon DEF Rest
<1>2. Goes(s, [req[s] EXCEPT !.todo = d, !.left = l])
  BY <1>1, Zenon
<1> HIDE DEF d, l
<1>3. GoesWith(s, d, l)
  BY Zenon, <1>2, GoesAre
<1> QED
  BY <1>3 DEF d, l

LEMMA LoopProceeds ==
  ASSUME RequestInv, RowsHeld, NEW s \in Slots, NEW h \in {"detach", "interrupt"}, At(s, h),
         NEW item, Goes(s, Rest(s, item))
  PROVE  Proceeds(s)
<1> DEFINE d == req[s].todo \ {item}
           l == IF d = {} THEN Tail(req[s].left) ELSE req[s].left
           Holding(n) == HoldsAt(s, n, req[s].id, req[s].row, req[s].agent, req[s].task, d, req[s].value)
           n == Head(Tail(req[s].left))
<1>1. GoesWith(s, d, l)
  BY LoopGoes DEF At
<1>2. /\ HoldsAt(s, h, req[s].id, req[s].row, req[s].agent, req[s].task, req[s].todo, req[s].value)
      /\ Tail(req[s].left) # <<>> => Follows(h, n)
      /\ Op(s) \in {"deleteAgent", "clearConversation"}
      /\ Head(req[s].left) = h
  <2>1. /\ HoldsAt(s, h, req[s].id, req[s].row, req[s].agent, req[s].task, req[s].todo, req[s].value)
        /\ Op(s) \in DOMAIN Ways /\ h \in StepsOf[Op(s)]
        /\ Head(req[s].left) = h
        /\ Tail(req[s].left) = <<>> \/ Follows(h, n)
    BY AtStep, Zenon
  <2>2. Op(s) \in {"deleteAgent", "clearConversation"}
    BY <2>1, StepsAreOf
  <2> QED
    BY <2>1, <2>2
<1>3. d \subseteq req[s].todo
  OBVIOUS
<1>4. req[s].left \in RestsOf(Op(s)) /\ (Tail(req[s].left) = <<>> \/ Tail(req[s].left) \in RestsOf(Op(s)))
  BY AtStep, Zenon
<1> HIDE DEF n, d
<1>5. Holding(h) /\ (Tail(req[s].left) # <<>> => Holding(n))
  BY <1>2, <1>3 DEF HoldsAt, Follows, ForAgents
<1>6. l = <<>> \/ (l \in RestsOf(Op(s)) /\ Holding(Head(l)))
  BY <1>2, <1>4, <1>5 DEF n
<1> HIDE DEF l
<1> QED
  BY <1>1, <1>6 DEF GoesWith, Proceeds

LEMMA IdProceeds ==
  ASSUME RequestInv, RowsHeld, NEW s \in Slots, At(s, "look") \/ At(s, "store"),
         NEW x \in ChatIds, NEW l, GetsId(s, x, l),
         l = <<>> \/ (l \in RestsOf(Op(s)) /\ Follows("store", Head(l)))
  PROVE  Proceeds(s)
<1> DEFINE Holding(n, y) == HoldsAt(s, n, y, req[s].row, req[s].agent, req[s].task, req[s].todo, req[s].value)
           m == Head(l)
<1>1. /\ Holding("look", req[s].id) \/ Holding("store", req[s].id)
      /\ Op(s) \in {"createConversation", "clearConversation", "sendCollaborationMessage", "requestAgentHelp"}
  BY AtStep, StepsAreOf
<1> HIDE DEF m
<1>2. l # <<>> => Follows("store", m)
  BY DEF m
<1>3. l # <<>> => Holding(m, x)
  BY <1>1, <1>2 DEF HoldsAt, Follows, ForAgents
<1> QED
  BY <1>3 DEF GetsId, Proceeds, m

LEMMA LooksProceed ==
  ASSUME RequestInv, RowsHeld, TablesTyped, NEW s \in Slots, Look(s) \/ Store(s)
  PROVE  Proceeds(s)
<1>0. Refuses(s) => Proceeds(s)
  BY DEF Proceeds
<1>1. ASSUME Store(s) PROVE Proceeds(s)
  <2>1. At(s, "store") /\ Moves(s, [req[s] EXCEPT !.id = s]) /\ s \in ChatIds
    BY <1>1 DEF Store, ChatIds
  <2>2. GetsId(s, s, Tail(req[s].left))
    BY <2>1, MovesAre DEF At
  <2>3. Tail(req[s].left) = <<>> \/ (Tail(req[s].left) \in RestsOf(Op(s)) /\ Follows("store", Head(Tail(req[s].left))))
    BY <2>1, AtStep
  <2> QED
    BY <2>1, <2>2, <2>3, IdProceeds
<1>2. ASSUME Look(s), ~Refuses(s) PROVE Proceeds(s)
  <2>0. At(s, "look")
    BY <1>2 DEF Look
  <2>1. CASE Moves(s, req[s])
    <3>1. "look" \notin Establishing
      BY DEF Establishing
    <3> QED
      BY <2>0, <2>1, <3>1, PlainProceeds
  <2>2. CASE ~Moves(s, req[s])
    <3> DEFINE x == CHOOSE c \in Same(req[s].row) : TRUE
               l == Tail(Tail(req[s].left))
    <3>1. Same(req[s].row) # {} /\ Goes(s, [req[s] EXCEPT !.id = x, !.left = l])
      BY <1>2, <2>2 DEF Look
    <3>2. x \in ChatIds
      BY <3>1, StoredChats DEF Same
    <3>3. Tail(req[s].left) \in RestsOf(Op(s)) /\ Head(Tail(req[s].left)) = "store" /\ Op(s) \in DOMAIN Ways
      BY <2>0, AtStep DEF NeverLast, Follows
    <3>4. l = <<>> \/ (l \in RestsOf(Op(s)) /\ Follows("store", Head(l)))
      BY Zenon, <3>3, WhatFollows, RestsGoOn
    <3> HIDE DEF x, l
    <3>5. GetsId(s, x, l)
      BY Zenon, <2>0, <3>1, GoesAre DEF At
    <3> QED
      BY <2>0, <3>2, <3>4, <3>5, IdProceeds
  <2> QED
    BY <2>1, <2>2
<1> QED
  BY <1>0, <1>1, <1>2

LEMMA GetAgentProceeds ==
  ASSUME RequestInv, RowsHeld, TablesTyped, NEW s \in Slots, GetAgent(s)
  PROVE  Proceeds(s)
<1>0. Refuses(s) => Proceeds(s)
  BY DEF Proceeds
<1>1. CASE ~Refuses(s)
  <2> DEFINE Holding(n) ==
               HoldsAt(s, n, req[s].id, req[s].row, req[s].agent, req[s].task, req[s].todo, req[s].value)
             n == Head(Tail(req[s].left))
  <2>1. At(s, "getAgent") /\ Moves(s, req[s]) /\ req[s].agent \in agents
    BY <1>1 DEF GetAgent, Reads, AgentFound
  <2>2. /\ Holding("getAgent") /\ (Tail(req[s].left) # <<>> => Follows("getAgent", n))
        /\ Op(s) \in {"duplicateAgent", "updateAgent", "clearConversation", "createSchedule"}
        /\ Tail(req[s].left) = <<>> \/ Tail(req[s].left) \in RestsOf(Op(s))
    BY <2>1, AtStep, StepsAreOf
  <2>3. req[s].agent \in AgentIds
    BY <2>1 DEF TablesTyped, ChatsTypeOK
  <2> HIDE DEF n
  <2>4. Tail(req[s].left) # <<>> => Holding(n)
    BY <2>2, <2>3 DEF HoldsAt, Follows, ForAgents
  <2>5. Plain(s)
    BY <2>1, MovesAre DEF At
  <2> QED
    BY <2>2, <2>4, <2>5 DEF Plain, Proceeds, n
<1> QED
  BY <1>0, <1>1

LEMMA CommitProceeds ==
  ASSUME RequestInv, RowsHeld, NEW s \in Slots, Commit(s)
  PROVE  Proceeds(s)
<1>1. At(s, "commit") /\ "commit" \notin Establishing
  BY DEF Commit, Establishing
<1>2. CASE Goes(s, [req[s] EXCEPT !.left = <<>>])
  <2>1. GoesWith(s, req[s].todo, <<>>)
    BY Zenon, <1>1, <1>2, GoesAre DEF At
  <2> QED
    BY Zenon, <2>1 DEF GoesWith, Proceeds
<1>3. CASE ~Goes(s, [req[s] EXCEPT !.left = <<>>])
  <2>1. Moves(s, req[s]) \/ Refuses(s)
    BY <1>3 DEF Commit
  <2> QED
    BY <1>1, <2>1, PlainProceeds
<1> QED
  BY <1>2, <1>3

LEMMA AttachProceeds ==
  ASSUME RequestInv, RowsHeld, NEW s \in Slots, Attach(s)
  PROVE  Proceeds(s)
<1>0. Refuses(s) => Proceeds(s)
  BY DEF Proceeds
<1>1. /\ At(s, "attach") /\ Op(s) = "sendMessage"
      /\ HoldsAt(s, "attach", req[s].id, req[s].row, req[s].agent, req[s].task, req[s].todo, req[s].value)
      /\ Tail(req[s].left) # <<>> => Follows("attach", Head(Tail(req[s].left)))
      /\ req[s].left \in RestsOf(Op(s)) /\ Head(req[s].left) = "attach"
  <2>1. At(s, "attach")
    BY DEF Attach
  <2> QED
    BY <2>1, AtStep, StepsAreOf
<1>2. CASE Goes(s, req[s])
  <2>1. GoesWith(s, req[s].todo, req[s].left)
    BY Zenon, <1>1, <1>2, GoesAre DEF At
  <2> QED
    BY <1>1, <2>1 DEF GoesWith, Proceeds
<1>3. CASE Moves(s, [req[s] EXCEPT !.value = asked[s].attachments])
  <2> DEFINE n == Head(Tail(req[s].left))
  <2>1. Tail(req[s].left) # <<>> => Follows("attach", n)
    BY <1>1
  <2> HIDE DEF n
  <2>2. Tail(req[s].left) # <<>> =>
           HoldsAt(s, n, req[s].id, req[s].row, req[s].agent, req[s].task, req[s].todo, asked[s].attachments)
    BY <1>1, <2>1 DEF HoldsAt, Follows, ForAgents
  <2> QED
    BY <1>1, <1>3, <2>2, ValueProceeds DEF n
<1> QED
  BY <1>0, <1>2, <1>3 DEF Attach

LEMMA PairIsGood ==
  ASSUME NEW a \in AgentIds, NEW b \in AgentIds, NEW t \in TaskIds
  PROVE  TaskChat({a, b}, t) \in GoodChats
<1>1. Cardinality({a, b}) \in 1..2
  <2>1. CASE a = b
    <3>1. {a, b} = {a}
      BY <2>1
    <3> QED
      BY <3>1, FS_Singleton
  <2>2. CASE a # b
    <3>1. IsFiniteSet({a}) /\ Cardinality({a}) = 1 /\ b \notin {a} /\ {a} \cup {b} = {a, b}
      BY <2>2, FS_Singleton
    <3>2. Cardinality({a} \cup {b}) = 2
      BY <3>1, FS_AddElement
    <3> QED
      BY <3>1, <3>2
  <2> QED
    BY <2>1, <2>2
<1>2. 2 <= MaxMembers /\ MaxMembers \in Nat
  BY WorkspaceAssumption
<1> QED
  BY <1>1, <1>2 DEF TaskChat, GoodChats, Chats

LEMMA OneIsGood ==
  ASSUME NEW a \in AgentIds
  PROVE  [kind |-> "direct", members |-> {a}, task |-> None] \in GoodChats
<1>1. Cardinality({a}) = 1
  BY FS_Singleton
<1>2. 1 <= MaxMembers /\ MaxMembers \in Nat
  BY WorkspaceAssumption
<1> QED
  BY <1>1, <1>2 DEF GoodChats, Chats

\* A handler that opens a conversation has its whole way before it.
LEMMA OpensBegin ==
  ASSUME NEW l \in RestsOf("clearConversation"), Head(l) = "open"
  PROVE  l = <<"open", "check", "erase", "getAgent", "putAgent", "look", "store">>
<1> DEFINE o == <<"open", "check", "erase", "getAgent", "putAgent", "look", "store">>
           i == <<"interrupt", "check", "erase", "getAgent", "putAgent", "look", "store">>
<1>1. PICK p \in Ways["clearConversation"] : \E k \in 1..Len(p) : l = From(p, k)
  BY DEF RestsOf
<1>2. PICK k \in 1..Len(p) : l = From(p, k)
  BY <1>1
<1>3. p \in Seq(StepNames) /\ "clearConversation" \in DOMAIN Ways
  BY <1>1, WaysAreOfSteps DEF Ways
<1>4. p[k] = "open"
  BY <1>2, <1>3, FromGoesOn
<1>5. p = o \/ p = i
  BY <1>1 DEF Ways
<1>6. p = o /\ k = 1
  <2>1. ASSUME p = i PROVE FALSE
    <3>1. k \in 1..7 /\ i[k] = "open"
      BY <1>2, <1>4, <2>1
    <3> QED
      BY <3>1
  <2>2. p = o
    BY <1>5, <2>1
  <2>3. k \in 1..7 /\ o[k] = "open"
    BY <1>2, <1>4, <2>2
  <2> QED
    BY <2>2, <2>3
<1>7. From(o, 1) = o
  BY <1>3, <1>6, SubSeqFull DEF From
<1> QED
  BY <1>2, <1>6, <1>7

LEMMA WaysBegin ==
  /\ <<"dismiss">> \in RestsOf("deleteAgent") /\ <<"detach", "dismiss">> \in RestsOf("deleteAgent")
  /\ <<"say", "touch">> \in RestsOf("sendCollaborationMessage")
  /\ <<"get", "save", "say", "touch">> \in RestsOf("sendCollaborationMessage")
  /\ <<"look", "store", "getTask", "putTask", "say", "touch">> \in RestsOf("sendCollaborationMessage")
  /\ \A p \in Ways["clearConversation"] : p \in RestsOf("clearConversation")
<1>1. ASSUME NEW op \in DOMAIN Ways, NEW p \in Ways[op], p # <<>> PROVE p \in RestsOf(op)
  <2>1. p \in Seq(StepNames)
    BY <1>1, WaysAreOfSteps
  <2>2. Len(p) \in Nat /\ Len(p) # 0
    BY <1>1, <2>1, EmptySeq, LenProperties
  <2>3. From(p, 1) = p /\ 1 \in 1..Len(p)
    BY <2>1, <2>2, SubSeqFull DEF From
  <2> QED
    BY <2>3 DEF RestsOf
<1>2. /\ <<"survey", "dismiss">> \in Ways["deleteAgent"] /\ <<"detach", "dismiss">> \in Ways["deleteAgent"]
      /\ <<"get", "save", "say", "touch">> \in Ways["sendCollaborationMessage"]
      /\ <<"look", "store", "getTask", "putTask", "say", "touch">> \in Ways["sendCollaborationMessage"]
      /\ {"deleteAgent", "sendCollaborationMessage", "clearConversation"} \subseteq DOMAIN Ways
      /\ \A p \in Ways["clearConversation"] : p # <<>>
  BY DEF Ways
<1>3. <<"survey", "dismiss">> \in RestsOf("deleteAgent") /\ <<"detach", "dismiss">> \in RestsOf("deleteAgent")
  BY <1>1, <1>2
<1>4. <<"dismiss">> \in RestsOf("deleteAgent")
  <2>1. Tail(<<"survey", "dismiss">>) = <<"dismiss">> /\ <<"dismiss">> # <<>>
    OBVIOUS
  <2> QED
    BY <1>2, <1>3, <2>1, RestsGoOn
<1>5. /\ <<"get", "save", "say", "touch">> \in RestsOf("sendCollaborationMessage")
      /\ <<"look", "store", "getTask", "putTask", "say", "touch">> \in RestsOf("sendCollaborationMessage")
  BY <1>1, <1>2
<1>6. <<"say", "touch">> \in RestsOf("sendCollaborationMessage")
  <2>1. /\ Tail(<<"get", "save", "say", "touch">>) = <<"save", "say", "touch">>
        /\ Tail(<<"save", "say", "touch">>) = <<"say", "touch">>
        /\ <<"save", "say", "touch">> # <<>> /\ <<"say", "touch">> # <<>>
    OBVIOUS
  <2>2. <<"save", "say", "touch">> \in RestsOf("sendCollaborationMessage")
    BY <1>2, <1>5, <2>1, RestsGoOn
  <2>3. \A l \in RestsOf("sendCollaborationMessage") : Tail(l) = <<>> \/ Tail(l) \in RestsOf("sendCollaborationMessage")
    BY <1>2, RestsGoOn
  <2>4. \/ Tail(<<"save", "say", "touch">>) = <<>>
        \/ Tail(<<"save", "say", "touch">>) \in RestsOf("sendCollaborationMessage")
    BY <2>2, <2>3, Zenon
  <2> QED
    BY <2>1, <2>4
<1> QED
  BY <1>1, <1>2, <1>3, <1>4, <1>5, <1>6

LEMMA SurveyProceeds ==
  ASSUME RequestInv, RowsHeld, TablesTyped, NEW s \in Slots, Survey(s)
  PROVE  Proceeds(s)
<1>0. Refuses(s) => Proceeds(s)
  BY DEF Proceeds
<1>1. CASE ~Refuses(s)
  <2> DEFINE theirs == {<<c, chat[c]>> : c \in {d \in Present(chat) : req[s].agent \in chat[d].members}}
             l == IF theirs = {} THEN <<"dismiss">> ELSE <<"detach", "dismiss">>
  <2>1. At(s, "survey") /\ Goes(s, [req[s] EXCEPT !.todo = theirs, !.left = l])
    BY <1>1 DEF Survey
  <2>2. /\ HoldsAt(s, "survey", req[s].id, req[s].row, req[s].agent, req[s].task, req[s].todo, req[s].value)
        /\ Op(s) = "deleteAgent"
    BY <2>1, AtStep, StepsAreOf
  <2>3. \A item \in theirs : item[2] \in GoodChats
    BY StoredChats
  <2>4. l \in RestsOf(Op(s)) /\ Head(l) \in {"dismiss", "detach"}
    BY <2>2, WaysBegin
  <2> HIDE DEF theirs, l
  <2>5. GoesWith(s, theirs, l)
    BY Zenon, <2>1, GoesAre DEF At
  <2>6. HoldsAt(s, Head(l), req[s].id, req[s].row, req[s].agent, req[s].task, theirs, req[s].value)
    BY <2>2, <2>3, <2>4 DEF HoldsAt, ForAgents
  <2> QED
    BY <2>4, <2>5, <2>6 DEF GoesWith, Proceeds
<1> QED
  BY <1>0, <1>1

LEMMA GetProceeds ==
  ASSUME RequestInv, RowsHeld, TablesTyped, NEW s \in Slots, Get(s)
  PROVE  Proceeds(s)
<1>0. Refuses(s) => Proceeds(s)
  BY DEF Proceeds
<1>1. CASE ~Refuses(s)
  <2> DEFINE c == req[s].id
             w == [chat[c] EXCEPT !.members = NewMembers(s)]
             n == Head(Tail(req[s].left))
             ok == chat[c] # None /\ KnownActor(s) /\ NewMembers(s) \subseteq agents
  <2>1. /\ At(s, "get") /\ chat[c] # None /\ ok
        /\ Moves(s, [req[s] EXCEPT !.row = IF ok THEN w ELSE @, !.todo = {}])
    BY <1>1 DEF Get, Reads
  <2>2. Moves(s, [req[s] EXCEPT !.row = w, !.todo = {}])
    BY <2>1
  <2>3. /\ HoldsAt(s, "get", req[s].id, req[s].row, req[s].agent, req[s].task, req[s].todo, req[s].value)
        /\ Op(s) \in {"updateConversation", "sendCollaborationMessage"} /\ WellFormed(asked[s])
        /\ Tail(req[s].left) # <<>> => Follows("get", n)
        /\ Tail(req[s].left) = <<>> \/ Tail(req[s].left) \in RestsOf(Op(s))
    BY <2>1, AtStep, StepsAreOf
  <2>4. c \in ChatIds /\ chat[c] \in GoodChats
    BY <2>1, <2>3, StoredChats DEF HoldsAt
  <2>5. NewMembers(s) \subseteq AgentIds /\ Cardinality(NewMembers(s)) \in 1..MaxMembers
    BY <2>3 DEF NewMembers, HoldsAt, WellFormed, Op
  <2>6. w \in GoodChats
    BY Zenon, <2>4, <2>5 DEF GoodChats, Chats
  <2> HIDE DEF w, n, ok
  <2>7. Becomes(s, req[s].id, w, req[s].agent, req[s].task, {}, req[s].value, Tail(req[s].left))
    BY Zenon, <2>1, <2>2, GoesAre DEF At
  <2>8. Tail(req[s].left) # <<>> => HoldsAt(s, n, req[s].id, w, req[s].agent, req[s].task, {}, req[s].value)
    BY <2>3, <2>4, <2>6 DEF HoldsAt, Follows, ForAgents
  <2> QED
    BY <2>3, <2>7, <2>8 DEF Proceeds, n
<1> QED
  BY <1>0, <1>1

LEMMA AskProceeds ==
  ASSUME RequestInv, RowsHeld, TablesTyped, NEW s \in Slots, AskHelp(s)
  PROVE  Proceeds(s)
<1>0. Refuses(s) => Proceeds(s)
  BY DEF Proceeds
<1>1. CASE ~Refuses(s)
  <2> DEFINE w == TaskChat({By(s), req[s].agent}, s)
             n == Head(Tail(req[s].left))
  <2>1. /\ At(s, "ask") /\ Moves(s, [req[s] EXCEPT !.task = s, !.row = w])
        /\ {By(s), req[s].agent} \subseteq agents
    BY <1>1 DEF AskHelp, Reads
  <2>2. /\ HoldsAt(s, "ask", req[s].id, req[s].row, req[s].agent, req[s].task, req[s].todo, req[s].value)
        /\ Op(s) = "requestAgentHelp"
        /\ Tail(req[s].left) # <<>> => Follows("ask", n)
        /\ Tail(req[s].left) = <<>> \/ Tail(req[s].left) \in RestsOf(Op(s))
    BY <2>1, AtStep, StepsAreOf
  <2>3. req[s].agent \in AgentIds /\ By(s) \in AgentIds
    BY <2>1 DEF TablesTyped, ChatsTypeOK
  <2>4. w \in GoodChats
    BY <2>3, PairIsGood DEF TaskIds
  <2> HIDE DEF w, n
  <2>5. Becomes(s, req[s].id, w, req[s].agent, s, req[s].todo, req[s].value, Tail(req[s].left))
    BY Zenon, <2>1, GoesAre DEF At
  <2>6. n = "newTask" \/ Tail(req[s].left) = <<>>
    BY <2>2 DEF Follows
  <2>7. Tail(req[s].left) # <<>> => HoldsAt(s, n, req[s].id, w, req[s].agent, s, req[s].todo, req[s].value)
    BY <2>2, <2>3, <2>4, <2>6 DEF HoldsAt, ForAgents
  <2> QED
    BY <2>2, <2>5, <2>7 DEF Proceeds, n
<1> QED
  BY <1>0, <1>1

LEMMA OpenProceeds ==
  ASSUME RequestInv, RowsHeld, TablesTyped, NEW s \in Slots, Open(s)
  PROVE  Proceeds(s)
<1>0. Refuses(s) => Proceeds(s)
  BY DEF Proceeds
<1>1. CASE ~Refuses(s)
  <2> DEFINE c == req[s].id
             a == CHOOSE m \in chat[c].members : TRUE
             active == ActiveIn(c)
             l == (IF active = {} THEN <<>> ELSE <<"interrupt">>) \o Tail(req[s].left)
             w == Direct(a)
  <2>1. /\ At(s, "open") /\ chat[c] # None /\ Cardinality(chat[c].members) = 1
        /\ Goes(s, [req[s] EXCEPT !.todo = active, !.agent = a, !.row = w, !.left = l])
    BY <1>1 DEF Open
  <2>2. /\ HoldsAt(s, "open", req[s].id, req[s].row, req[s].agent, req[s].task, req[s].todo, req[s].value)
        /\ Op(s) = "clearConversation" /\ req[s].left \in RestsOf("clearConversation")
        /\ Head(req[s].left) = "open"
    BY <2>1, AtStep, StepsAreOf
  <2>3. a \in AgentIds
    <3>1. chat[c].members \subseteq AgentIds
      BY <2>1, <2>2, StoredChats DEF HoldsAt, GoodChats, Chats
    <3>2. chat[c].members # {}
      BY <2>1, FS_EmptySet
    <3> QED
      BY <3>1, <3>2
  <2>4. w \in GoodChats
    BY <2>3, OneIsGood DEF Direct
  <2>5. active \subseteq Present(run)
    BY DEF ActiveIn, Active, TablesTyped, ChatsTypeOK, Present
  <2>6. Tail(req[s].left) = Tail(ClearSteps)
    BY <2>2, OpensBegin, JoinedSteps
  <2>7. l \in RestsOf("clearConversation") /\ l # <<>> /\ Head(l) \in {"check", "interrupt"}
    <3> DEFINE o == <<"open", "check", "erase", "getAgent", "putAgent", "look", "store">>
               r == <<"check", "erase", "getAgent", "putAgent", "look", "store">>
               i == <<"interrupt", "check", "erase", "getAgent", "putAgent", "look", "store">>
    <3>1. o \in RestsOf("clearConversation") /\ i \in RestsOf("clearConversation") /\ "clearConversation" \in DOMAIN Ways
      BY WaysBegin DEF Ways
    <3>2. Tail(o) = r /\ r # <<>> /\ i # <<>> /\ Head(r) = "check" /\ Head(i) = "interrupt"
      OBVIOUS
    <3>3. CASE active = {}
      <4>1. l = <<>> \o Tail(ClearSteps)
        BY <2>6, <3>3
      <4>2. l = r
        BY <4>1, JoinedSteps
      <4> HIDE DEF o, r, l, active
      <4> QED
        BY <3>1, <3>2, <4>2, RestsGoOn
    <3>4. CASE active # {}
      <4>1. l = <<"interrupt">> \o Tail(ClearSteps)
        BY <2>6, <3>4
      <4>2. l = i
        BY Zenon, <4>1, JoinedSteps
      <4> HIDE DEF o, r, i, l, active
      <4> QED
        BY <3>1, <3>2, <4>2
    <3> QED
      BY <3>3, <3>4
  <2> HIDE DEF l, w, a, active
  <2>8. Becomes(s, req[s].id, w, a, req[s].task, active, req[s].value, l)
    BY Zenon, <2>1, GoesAre DEF At
  <2>9. HoldsAt(s, Head(l), req[s].id, w, a, req[s].task, active, req[s].value)
    BY <2>2, <2>3, <2>4, <2>5, <2>7 DEF HoldsAt, ForAgents
  <2> QED
    BY <2>2, <2>7, <2>8, <2>9 DEF Proceeds
<1> QED
  BY <1>0, <1>1

LEMMA MeetProceeds ==
  ASSUME RequestInv, RowsHeld, TablesTyped, NEW s \in Slots, Meet(s)
  PROVE  Proceeds(s)
<1>0. Refuses(s) => Proceeds(s)
  BY DEF Proceeds
<1>1. CASE ~Refuses(s)
  <2> DEFINE t == asked[s].task
             pair == {By(s), req[s].agent}
             c == task[t].chat
             members == chat[c].members \cup pair
             Holding(n, i, w, d) == HoldsAt(s, n, i, w, req[s].agent, req[s].task, d, req[s].value)
  <2>1. At(s, "meet") /\ pair \subseteq agents /\ task[t] # None
    BY Zenon, <1>1 DEF Meet
  <2>2. Holding("meet", req[s].id, req[s].row, req[s].todo) /\ Op(s) = "sendCollaborationMessage"
    BY <2>1, AtStep, StepsAreOf
  <2>3. t \in TaskIds /\ By(s) \in AgentIds /\ req[s].agent \in AgentIds /\ task[t] \in Tasks
    BY <2>1, <2>2, StoredChats DEF HoldsAt, ForAgents, TablesTyped, ChatsTypeOK
  <2>4. CASE c = None
    <3> DEFINE w == TaskChat(pair, t)
               l == <<"look", "store", "getTask", "putTask", "say", "touch">>
    <3>1. Goes(s, [req[s] EXCEPT !.row = w, !.left = l])
      BY <1>1, <2>4, JoinedSteps DEF Meet
    <3>2. w \in GoodChats
      BY <2>3, PairIsGood
    <3>3. l \in RestsOf(Op(s)) /\ Head(l) = "look"
      BY <2>2, WaysBegin
    <3> HIDE DEF w, l
    <3>4. Becomes(s, req[s].id, w, req[s].agent, req[s].task, req[s].todo, req[s].value, l)
      BY Zenon, <2>1, <3>1, GoesAre DEF At
    <3>5. Holding("look", req[s].id, w, req[s].todo)
      BY <2>2, <3>2 DEF HoldsAt, ForAgents
    <3> QED
      BY <3>3, <3>4, <3>5 DEF Proceeds
  <2>5. CASE c # None
    <3> DEFINE w == chat[c]
               d == IF members = chat[c].members THEN {} ELSE members
               l == IF members = chat[c].members THEN <<"say", "touch">> ELSE <<"get", "save", "say", "touch">>
    <3>1. /\ chat[c] # None /\ Cardinality(members) <= MaxMembers
          /\ Goes(s, [req[s] EXCEPT !.id = c, !.row = w, !.todo = d, !.left = l])
      BY Zenon, <1>1, <2>1, <2>5, JoinedSteps DEF Meet
    <3>2. c \in ChatIds
      BY Zenon, <2>3, <2>5 DEF Tasks
    <3>3. w \in GoodChats
      BY Zenon, <3>1, <3>2, StoredChats
    <3>4. members \subseteq AgentIds /\ members # {}
      BY <2>3, <3>3 DEF GoodChats, Chats
    <3>5. Cardinality(members) \in 1..MaxMembers
      <4>1. Cardinality(members) \in Nat /\ Cardinality(members) >= 1
        BY Zenon, <3>4, FiniteMembers
      <4>2. MaxMembers \in Nat /\ Cardinality(members) <= MaxMembers
        BY Zenon, <3>1, WorkspaceAssumption
      <4> HIDE DEF members
      <4> QED
        BY <4>1, <4>2
    <3>6. /\ l \in RestsOf(Op(s))
          /\ Head(l) = "say" \/ (Head(l) = "get" /\ d = members)
      BY <2>2, WaysBegin
    <3> HIDE DEF w, d, l, members
    <3>7. Becomes(s, c, w, req[s].agent, req[s].task, d, req[s].value, l)
      BY Zenon, <2>1, <3>1, GoesAre DEF At
    <3>8. Holding(Head(l), c, w, d)
      BY <2>2, <3>2, <3>3, <3>4, <3>5, <3>6 DEF HoldsAt, ForAgents
    <3> QED
      BY Zenon, <3>6, <3>7, <3>8 DEF Proceeds
  <2> QED
    BY Zenon, <2>4, <2>5
<1> QED
  BY <1>0, <1>1

\* Every step of a handler.
LEMMA StepsProceed ==
  ASSUME RequestInv, RowsHeld, TablesTyped, NEW s \in Slots, Handles(s)
  PROVE  Proceeds(s) /\ Running(s)
<1>1. ChatStep(s) => Proceeds(s) /\ Running(s)
  <2>1. Detach(s) \/ Interrupt(s) => Proceeds(s) /\ Running(s)
    <3>1. ASSUME Detach(s) PROVE Proceeds(s) /\ Running(s)
      <4>1. At(s, "detach") /\ \E item : Goes(s, Rest(s, item))
        BY <3>1 DEF Detach
      <4> QED
        BY <4>1, LoopProceeds DEF At
    <3>2. ASSUME Interrupt(s) PROVE Proceeds(s) /\ Running(s)
      <4>1. At(s, "interrupt") /\ (Refuses(s) \/ \E item : Goes(s, Rest(s, item)))
        BY <3>2 DEF Interrupt
      <4> QED
        BY <4>1, LoopProceeds DEF At, Proceeds
    <3> QED
      BY <3>1, <3>2
  <2>2. /\ GetAgent(s) \/ Survey(s) \/ Look(s) \/ Store(s) \/ Get(s) \/ Open(s) => Proceeds(s)
        /\ Address(s) \/ Commit(s) \/ Meet(s) \/ GetTask(s) \/ PutTask(s) \/ AskHelp(s) => Proceeds(s)
    BY Zenon, GetAgentProceeds, SurveyProceeds, LooksProceed, GetProceeds, OpenProceeds, RowSteps, CommitProceeds,
       MeetProceeds, ValueSteps, AskProceeds
  <2>3. /\ GetAgent(s) \/ Survey(s) \/ Look(s) \/ Store(s) \/ Get(s) \/ Open(s) => Running(s)
        /\ Address(s) \/ Commit(s) \/ Meet(s) \/ GetTask(s) \/ PutTask(s) \/ AskHelp(s) => Running(s)
    BY Zenon DEF GetAgent, Survey, Look, Store, Get, Open, Address, Commit, Meet, GetTask, PutTask, AskHelp, Reads, At
  <2> QED
    BY <2>1, <2>2, <2>3, PlainSteps DEF ChatStep
<1>2. ArtifactStep(s) => Proceeds(s) /\ Running(s)
  <2>1. Validate(s) \/ GetArtifact(s) \/ Attach(s) => Proceeds(s)
    BY RowSteps, AttachProceeds
  <2>2. Validate(s) \/ GetArtifact(s) \/ Attach(s) => Running(s)
    BY DEF Validate, GetArtifact, Attach, Reads, At
  <2> QED
    BY <2>1, <2>2, PlainSteps DEF ArtifactStep
<1>3. ConnectorStep(s) => Proceeds(s) /\ Running(s)
  <2>1. Existing(s) \/ Lookup(s) \/ Send(s) => Proceeds(s)
    BY RowSteps, ValueSteps
  <2>2. Existing(s) \/ Lookup(s) \/ Send(s) => Running(s)
    BY DEF Existing, Lookup, Send, Reads, At
  <2> QED
    BY <2>1, <2>2, PlainSteps DEF ConnectorStep
<1>4. ReadProfile(s) \/ FirstRun(s) => Proceeds(s)
  BY ValueSteps
<1>5. ReadProfile(s) \/ FirstRun(s) => Running(s)
  BY DEF ReadProfile, FirstRun, Reads, At
<1> QED
  BY <1>1, <1>2, <1>3, <1>4, <1>5, PlainSteps DEF Handles

\* A handler begins with its arguments.
LEMMA ArgumentsAre ==
  ASSUME NEW s
  PROVE  LET q == Arguments(s)
         IN /\ IsHandler(q) /\ q.id = asked[s].chat /\ q.task = asked[s].task /\ q.todo = {}
            /\ q.row = IF Op(s) = "createConversation"
                         THEN [kind |-> asked[s].kind, members |-> asked[s].members, task |-> asked[s].task] ELSE None
<1> DEFINE a == asked[s].chat
           b == asked[s].task
           c == IF Op(s) = "createSchedule" /\ By(s) # User THEN By(s) ELSE asked[s].agent
           d == IF Op(s) = "createConversation"
                  THEN [kind |-> asked[s].kind, members |-> asked[s].members, task |-> asked[s].task] ELSE None
           e == Fresh
           f == [e EXCEPT !.id = a]
           g == [f EXCEPT !.task = b]
           h == [g EXCEPT !.agent = c]
           r == [h EXCEPT !.row = d]
<1>1. r = Arguments(s)
  BY Zenon DEF Arguments
<1>2. IsHandler(e) /\ e.todo = {}
  BY DEF IsHandler, Fresh
<1> HIDE DEF a, b, c, d, e
<1>3. f = [state |-> e.state, left |-> e.left, id |-> a, row |-> e.row,
          agent |-> e.agent, task |-> e.task, todo |-> e.todo, value |-> e.value]
  BY <1>2 DEF IsHandler
<1> HIDE DEF f
<1>4. g = [state |-> e.state, left |-> e.left, id |-> a, row |-> e.row,
          agent |-> e.agent, task |-> b, todo |-> e.todo, value |-> e.value]
  BY <1>3 DEF IsHandler
<1> HIDE DEF g
<1>5. h = [state |-> e.state, left |-> e.left, id |-> a, row |-> e.row,
          agent |-> c, task |-> b, todo |-> e.todo, value |-> e.value]
  BY <1>4 DEF IsHandler
<1> HIDE DEF h
<1>6. r = [state |-> e.state, left |-> e.left, id |-> a, row |-> d,
          agent |-> c, task |-> b, todo |-> e.todo, value |-> e.value]
  BY <1>5 DEF IsHandler
<1> HIDE DEF r
<1>7. IsHandler(r) /\ r.id = a /\ r.task = b /\ r.todo = {} /\ r.row = d
  BY <1>2, <1>6 DEF IsHandler
<1> QED
  BY <1>1, <1>7 DEF a, b, d

LEMMA ArriveIs ==
  ASSUME RequestInv, NEW s \in Slots, Arrive(s)
  PROVE  LET a == asked[s]
             row == IF Op(s) = "createConversation"
                      THEN [kind |-> a.kind, members |-> a.members, task |-> a.task] ELSE None
         IN /\ req[s].state = "waiting" /\ a # None /\ Op(s) \in Routes
            /\ \A u \in Slots : u # s => req'[u] = req[u]
            /\ req' = [u \in Slots |-> req'[u]]
            /\ IsHandler(req'[s])
            /\ Admitted(s) => /\ req'[s].state = "running" /\ req'[s].left = Program(Op(s))
                              /\ req'[s].id = a.chat /\ req'[s].task = a.task /\ req'[s].todo = {}
                              /\ req'[s].row = row
            /\ ~Admitted(s) => req'[s].state = "refused" /\ req'[s].left = <<"admission">>
<1> DEFINE a == asked[s]
           row == IF Op(s) = "createConversation"
                    THEN [kind |-> a.kind, members |-> a.members, task |-> a.task] ELSE None
           q == Arguments(s)
           r == [q EXCEPT !.left = Program(Op(s))]
           x == [r EXCEPT !.state = "running"]
           y == [r EXCEPT !.state = "refused"]
           z == [y EXCEPT !.left = <<"admission">>]
<1> HIDE DEF row
<1>0. IsHandler(q) /\ q.id = a.chat /\ q.task = a.task /\ q.todo = {} /\ q.row = row
  BY ArgumentsAre DEF row
<1> HIDE DEF q
<1>1. /\ IsHandler(r) /\ r.left = Program(Op(s)) /\ r.id = a.chat /\ r.task = a.task /\ r.todo = {} /\ r.row = row
  BY <1>0 DEF IsHandler
<1> HIDE DEF r
<1>2. /\ IsHandler(x) /\ x.state = "running" /\ x.left = Program(Op(s)) /\ x.id = a.chat /\ x.task = a.task
      /\ x.todo = {} /\ x.row = row
  BY <1>1 DEF IsHandler
<1>3. IsHandler(y) /\ y.state = "refused"
  BY <1>1 DEF IsHandler
<1> HIDE DEF x, y
<1>4. IsHandler(z) /\ z.state = "refused" /\ z.left = <<"admission">>
  BY <1>3 DEF IsHandler
<1> HIDE DEF z
<1>5. req' = [req EXCEPT ![s] = IF Admitted(s) THEN x ELSE z] /\ req[s].state = "waiting" /\ a # None
  <2>1. z = [r EXCEPT !.state = "refused", !.left = <<"admission">>]
    BY Zenon DEF z, y
  <2> QED
    BY <2>1, Zenon DEF Arrive, Arrives, x, r, q
<1>6. req'[s] = IF Admitted(s) THEN x ELSE z
  BY <1>5 DEF RequestInv
<1>7. req' = [u \in Slots |-> req'[u]] /\ \A u \in Slots : u # s => req'[u] = req[u]
  BY <1>5 DEF RequestInv
<1>8. Op(s) \in Routes
  BY <1>5, AskedWell
<1> QED
  BY <1>2, <1>4, <1>5, <1>6, <1>7, <1>8 DEF row

LEMMA ArriveInv ==
  ASSUME RequestInv, RowsHeld, NEW s \in Slots, Arrive(s)
  PROVE  RequestInv' /\ RowsHeld'
<1> DEFINE a == asked[s]
           row == IF Op(s) = "createConversation"
                    THEN [kind |-> a.kind, members |-> a.members, task |-> a.task] ELSE None
<1>1. /\ req[s].state = "waiting" /\ a # None /\ Op(s) \in Routes
      /\ \A u \in Slots : u # s => req'[u] = req[u]
      /\ req' = [u \in Slots |-> req'[u]]
      /\ IsHandler(req'[s])
      /\ Admitted(s) => /\ req'[s].state = "running" /\ req'[s].left = Program(Op(s))
                        /\ req'[s].id = a.chat /\ req'[s].task = a.task /\ req'[s].todo = {}
                        /\ req'[s].row = row
      /\ ~Admitted(s) => req'[s].state = "refused" /\ req'[s].left = <<"admission">>
  BY ArriveIs
<1>2. /\ UNCHANGED <<database, asked, faults, run>>
      /\ before' = before \cup {<<t, s>> : t \in {u \in Slots : Ended(u)}}
  BY DEF Arrive, Arrives, chatVars
<1>3. /\ Program(Op(s)) # <<>> /\ Program(Op(s)) \in RestsOf(Op(s))
      /\ Begins(Op(s), Head(Program(Op(s)))) /\ WellFormed(a)
  BY <1>1, ProgramsBegin, AskedWell
<1>4. GoesItsWay(s)'
  BY <1>1, <1>2, <1>3 DEF GoesItsWay, States, Began, Running, Done, Op
<1>5. \A u \in Slots : u # s => GoesItsWay(u)'
  BY <1>1, <1>2 DEF GoesItsWay, Began, Running, Done, Op, RequestInv
<1>6. Began(s)' /\ \A u \in Slots : (Ended(u) => Ended(u)') /\ (Began(u) => Began(u)')
  BY <1>1 DEF Began, Ended
<1>7. ASSUME NEW t \in Slots, NEW u \in Slots, <<t, u>> \in before'
      PROVE  Ended(t)' /\ Began(u)'
  BY <1>2, <1>6, <1>7 DEF RequestInv
<1>8. RequestInv'
  <2>1. before' \subseteq Slots \X Slots
    BY <1>2 DEF RequestInv
  <2> QED
    BY <1>1, <1>2, <1>4, <1>5, <1>7, <2>1 DEF RequestInv
<1>9. Admitted(s) => HoldsAt(s, Head(Program(Op(s))), a.chat, row, req'[s].agent, a.task, {}, req'[s].value)
  <2> DEFINE h == Head(Program(Op(s)))
  <2>1. ASSUME Admitted(s) PROVE Op(s) = "createConversation" => row \in GoodChats
    BY <1>3, <2>1 DEF Admitted, GoodChats, Chats, WellFormed
  <2>2. Begins(Op(s), h)
    BY <1>3
  <2> HIDE DEF h, row
  <2>3. ASSUME Admitted(s)
        PROVE  HoldsAt(s, h, a.chat, row, req'[s].agent, a.task, {}, req'[s].value)
    <3>1. Op(s) \in ForAgents => By(s) \in AgentIds /\ a.task \in TaskIds
      BY <1>3, <2>3 DEF Admitted, WellFormed, By
    <3>2. Op(s) \in {"updateConversation", "clearConversation", "sendMessage"} => a.chat \in ChatIds
      BY <1>3 DEF WellFormed, Op
    <3> QED
      BY <2>1, <2>2, <2>3, <3>1, <3>2 DEF HoldsAt, Begins
  <2> QED
    BY <2>3 DEF h
<1>10. RowsHeld'
  <2>1. ASSUME NEW u \in Slots, Running(u)' PROVE Holds(u)'
    <3>1. CASE u = s
      BY <1>1, <1>2, <1>9, <2>1, <3>1 DEF Running, Holds, HoldsAt, Op, By
    <3>2. CASE u # s
      BY <1>1, <1>2, <2>1, <3>2 DEF RowsHeld, Running, Holds, HoldsAt, Op, By
    <3> QED
      BY <3>1, <3>2
  <2> QED
    BY <2>1 DEF RowsHeld
<1> QED
  BY <1>8, <1>10

LEMMA FailsInv ==
  ASSUME RequestInv, RowsHeld, NEW s \in Slots, Fails(s)
  PROVE  RequestInv' /\ RowsHeld' /\ Stops(s, "refused") /\ Running(s)
<1>1. /\ Running(s) /\ faults' = faults + 1 /\ faults < MaxFaults /\ UNCHANGED <<database, asked, before, run>>
      /\ req' = [req EXCEPT ![s].state = "refused"]
  BY DEF Fails, Breaks, chatVars
<1>2. Stops(s, "refused")
  BY <1>1, RefusesStopsIt
<1>3. faults' \in 0..MaxFaults
  BY <1>1, WorkspaceAssumption DEF RequestInv
<1>4. RequestInv'
  BY <1>1, <1>2, <1>3, StopsInv
<1>5. ASSUME NEW u \in Slots, Running(u)' PROVE Holds(u)'
  <2>1. u # s /\ req'[u] = req[u] /\ Holds(u)
    BY <1>2, <1>5 DEF Stops, StopsIn, Running, RowsHeld
  <2> QED
    BY <1>1, <2>1 DEF Holds, HoldsAt, Op, By
<1> QED
  BY <1>1, <1>2, <1>4, <1>5 DEF RowsHeld

LEMMA RestartInv ==
  ASSUME RequestInv, Restart
  PROVE  /\ RequestInv' /\ RowsHeld' /\ UNCHANGED <<database, asked, before>>
         /\ \A s \in Slots : IF Running(s) THEN StopsIn(s, "lost") ELSE req'[s] = req[s]
<1>1. /\ faults' = faults + 1 /\ faults < MaxFaults /\ UNCHANGED <<database, asked, before>>
      /\ req' = [s \in Slots |-> IF Running(s) THEN [req[s] EXCEPT !.state = "lost"] ELSE req[s]]
  BY DEF Restart, Crash
<1>2. ASSUME NEW s \in Slots PROVE IF Running(s) THEN StopsIn(s, "lost") ELSE req'[s] = req[s]
  <2>1. CASE Running(s)
    <3>1. req'[s] = [req[s] EXCEPT !.state = "lost"] /\ IsHandler(req[s])
      BY <1>1, <2>1, RunningIs
    <3>2. StopsIn(s, "lost")
      BY <3>1 DEF IsHandler, StopsIn
    <3> QED
      BY <2>1, <3>2
  <2> QED
    BY <1>1, <2>1
<1>3. faults' \in 0..MaxFaults
  BY <1>1, WorkspaceAssumption DEF RequestInv
<1>4. ASSUME NEW s \in Slots PROVE GoesItsWay(s)' /\ ~Running(s)' /\ (Ended(s) => Ended(s)') /\ (Began(s) => Began(s)')
  <2>1. CASE Running(s)
    <3>1. IsHandler(req'[s]) /\ req'[s].state = "lost" /\ req'[s].left = req[s].left
      BY <1>2, <2>1 DEF StopsIn
    <3>2. req[s].left # <<>> /\ Began(s) /\ (Began(s) => asked[s] # None)
      BY <2>1, RunningIs DEF RequestInv, GoesItsWay
    <3> QED
      BY <1>1, <2>1, <3>1, <3>2 DEF GoesItsWay, States, Began, Running, Done, Ended, Op
  <2>2. CASE ~Running(s)
    <3>1. req'[s] = req[s]
      BY <1>2, <2>2
    <3> QED
      BY <1>1, <2>2, <3>1 DEF RequestInv, GoesItsWay, Began, Running, Done, Ended, Op
  <2> QED
    BY <2>1, <2>2
<1>5. req' = [s \in Slots |-> req'[s]]
  BY <1>1
<1>6. RequestInv'
  BY <1>1, <1>3, <1>4, <1>5 DEF RequestInv
<1> QED
  BY <1>1, <1>2, <1>4, <1>6 DEF RowsHeld

\* A run that ends is still there.
LEMMA RunDeactivated ==
  ASSUME run \in [Slots -> Runs \cup {None}], NEW r \in Slots, run[r] # None,
         run' = [run EXCEPT ![r].active = FALSE]
  PROVE  run' \in [Slots -> Runs \cup {None}] /\ Present(run) \subseteq Present(run)'
<1>1. run[r] \in Runs /\ None \notin Runs
  BY WorkspaceAssumption
<1>2. [run[r] EXCEPT !.active = FALSE] \in Runs
  BY <1>1 DEF Runs
<1>3. run' = [run EXCEPT ![r] = [run[r] EXCEPT !.active = FALSE]]
  OBVIOUS
<1> QED
  BY <1>1, <1>2, <1>3 DEF Present

-----------------------------------------------------------------------------
(* What the tables hold.                                                    *)

LEMMA ChatsAre ==
  ChatsTypeOK <=> /\ agents \subseteq AgentIds
                  /\ chat \in [ChatIds -> GoodChats \cup {None}]
                  /\ task \in [TaskIds -> Tasks \cup {None}]
                  /\ run \in [Slots -> Runs \cup {None}]
<1>1. ASSUME chat \in [ChatIds -> Chats \cup {None}]
      PROVE  (\A c \in Present(chat) : Cardinality(chat[c].members) \in 1..MaxMembers) <=>
                chat \in [ChatIds -> GoodChats \cup {None}]
  BY <1>1 DEF Present, GoodChats
<1>2. chat \in [ChatIds -> GoodChats \cup {None}] => chat \in [ChatIds -> Chats \cup {None}]
  BY DEF GoodChats
<1> QED
  BY <1>1, <1>2 DEF ChatsTypeOK

\* The steps that store a conversation store one that may be stored.
LEMMA ChatWritten ==
  ASSUME chat \in [ChatIds -> GoodChats \cup {None}], NEW c, NEW row \in GoodChats \cup {None},
         chat' = [chat EXCEPT ![c] = row]
  PROVE  chat' \in [ChatIds -> GoodChats \cup {None}]
OBVIOUS

LEMMA DetachedIsGood ==
  ASSUME NEW row \in GoodChats, NEW a
  PROVE  Detached(row, a) \in GoodChats \cup {None}
<1>1. CASE row.kind # "direct" /\ row.members # {a}
  <2> DEFINE M == row.members \ {a}
  <2>1. row \in Chats /\ row.members \subseteq AgentIds /\ Cardinality(row.members) \in 1..MaxMembers
    BY DEF GoodChats, Chats
  <2>2. row.members # {}
    BY <2>1, FS_EmptySet
  <2>3. M # {} /\ M \subseteq row.members /\ M \subseteq AgentIds
    BY <1>1, <2>1, <2>2
  <2>4. Cardinality(M) \in Nat /\ Cardinality(M) >= 1 /\ IsFiniteSet(row.members)
    BY <2>1, <2>3, FiniteMembers
  <2>5. Cardinality(M) <= Cardinality(row.members)
    BY <2>3, <2>4, FS_Subset
  <2>6. MaxMembers \in Nat
    BY WorkspaceAssumption
  <2>7. Cardinality(M) \in 1..MaxMembers
    <3> HIDE DEF M
    <3> QED
      BY <2>1, <2>4, <2>5, <2>6
  <2>8. Detached(row, a) = [row EXCEPT !.members = M]
    BY <1>1 DEF Detached, Without
  <2> HIDE DEF M
  <2>9. [row EXCEPT !.members = M] \in GoodChats
    BY <2>1, <2>3, <2>7 DEF GoodChats, Chats
  <2> QED
    BY <2>8, <2>9
<1>2. CASE ~(row.kind # "direct" /\ row.members # {a})
  BY <1>2 DEF Detached
<1> QED
  BY <1>1, <1>2

LEMMA ChatStepTyped ==
  ASSUME RequestInv, RowsHeld, TablesTyped, NEW s \in Slots, ChatStep(s)
  PROVE  ChatsTypeOK' /\ Present(run) \subseteq Present(run)'
<1> DEFINE SameRest == UNCHANGED <<agents, chat, task, run>>
           Chat1 == UNCHANGED <<agents, task, run>> /\ \E c : \E row \in GoodChats \cup {None} : chat' = [chat EXCEPT ![c] = row]
           Agents1 == UNCHANGED <<chat, task, run>> /\ agents' \subseteq AgentIds
           Task1 == UNCHANGED <<agents, chat, run>> /\ \E t : \E row \in Tasks : task' = [task EXCEPT ![t] = row]
           Run1 == UNCHANGED <<agents, chat, task>> /\ run' \in [Slots -> Runs \cup {None}] /\ Present(run) \subseteq Present(run)'
<1>0. /\ agents \subseteq AgentIds
      /\ chat \in [ChatIds -> GoodChats \cup {None}]
      /\ task \in [TaskIds -> Tasks \cup {None}]
      /\ run \in [Slots -> Runs \cup {None}]
  BY Zenon, ChatsAre DEF TablesTyped
<1>1. \/ GetAgent(s) \/ Survey(s) \/ Look(s) \/ Get(s) \/ Check(s) \/ Open(s) \/ Address(s) \/ Meet(s)
      \/ GetTask(s) \/ Say(s) \/ AskHelp(s) \/ ReadHelp(s)
      => SameRest
  BY Zenon DEF GetAgent, Survey, Look, Get, Check, Open, Address, Meet, GetTask, Say, AskHelp, ReadHelp, chatVars
<1>2. ASSUME Enlist(s) \/ PutAgent(s) \/ Dismiss(s) PROVE Agents1
  <2>1. ASSUME PutAgent(s) PROVE req[s].agent \in AgentIds
    <3>1. At(s, "putAgent")
      BY <2>1 DEF PutAgent
    <3>2. /\ HoldsAt(s, "putAgent", req[s].id, req[s].row, req[s].agent, req[s].task, req[s].todo, req[s].value)
          /\ Op(s) \in {"updateAgent", "clearConversation"}
      BY <3>1, AtStep, StepsAreOf
    <3> QED
      BY <3>2 DEF HoldsAt
  <2>2. s \in AgentIds
    BY DEF AgentIds
  <2> QED
    BY <1>0, <1>2, <2>1, <2>2 DEF Enlist, PutAgent, Dismiss
<1>3. ASSUME Detach(s) PROVE Chat1
  <2>1. At(s, "detach")
    BY <1>3 DEF Detach
  <2>2. /\ HoldsAt(s, "detach", req[s].id, req[s].row, req[s].agent, req[s].task, req[s].todo, req[s].value)
        /\ Op(s) = "deleteAgent"
    BY <2>1, AtStep, StepsAreOf
  <2>3. \A item \in req[s].todo : item[2] \in GoodChats
    BY <2>2 DEF HoldsAt
  <2>4. \A item \in req[s].todo : Detached(item[2], req[s].agent) \in GoodChats \cup {None}
    BY <2>3, DetachedIsGood
  <2> QED
    BY <1>3, <2>4 DEF Detach
<1>4. ASSUME Store(s) \/ Save(s) \/ Touch(s) PROVE Chat1
  <2>1. PICK h \in {"store", "save", "touch"} : At(s, h) /\ \E c : chat' = [chat EXCEPT ![c] = req[s].row]
    BY <1>4 DEF Store, Save, Touch
  <2>2. /\ HoldsAt(s, h, req[s].id, req[s].row, req[s].agent, req[s].task, req[s].todo, req[s].value)
        /\ h = "store" => Op(s) \in {"createConversation", "clearConversation", "sendCollaborationMessage", "requestAgentHelp"}
        /\ h = "save" => Op(s) \in {"updateConversation", "sendCollaborationMessage"}
        /\ h = "touch" => Op(s) \in {"sendMessage", "sendCollaborationMessage", "requestAgentHelp"}
    BY <2>1, AtStep, StepsAreOf
  <2>3. req[s].row \in GoodChats
    BY <2>2 DEF HoldsAt
  <2> QED
    BY <1>4, <2>1, <2>3 DEF Store, Save, Touch
<1>5. Erase(s) => Chat1
  BY DEF Erase
<1>6. ASSUME Interrupt(s) PROVE Run1
  <2>1. At(s, "interrupt") /\ UNCHANGED <<agents, chat, task>>
    BY <1>6 DEF Interrupt
  <2>2. PICK r \in req[s].todo : run' = [run EXCEPT ![r].active = FALSE]
    BY <1>6 DEF Interrupt
  <2>3. /\ HoldsAt(s, "interrupt", req[s].id, req[s].row, req[s].agent, req[s].task, req[s].todo, req[s].value)
        /\ Op(s) = "clearConversation"
    BY <2>1, AtStep, StepsAreOf
  <2>4. r \in Slots /\ run[r] # None
    BY <1>0, <2>2, <2>3 DEF HoldsAt, Present
  <2> QED
    BY <1>0, <2>1, <2>2, <2>4, RunDeactivated
<1>7. ASSUME Commit(s) PROVE SameRest \/ Run1
  <2>1. CASE ~SameRest
    <3>1. At(s, "commit")
      BY <1>7 DEF Commit
    <3>2. /\ run' = [run EXCEPT ![s] = [agent |-> req[s].agent, chat |-> req[s].id, active |-> TRUE]]
          /\ UNCHANGED <<agents, chat, task>>
      BY <1>7, <2>1 DEF Commit, chatVars
    <3>3. /\ HoldsAt(s, "commit", req[s].id, req[s].row, req[s].agent, req[s].task, req[s].todo, req[s].value)
          /\ Op(s) \in {"sendMessage", "requestAgentHelp"}
      BY <3>1, AtStep, StepsAreOf
    <3>4. req[s].agent \in AgentIds /\ req[s].id \in ChatIds
      BY <3>3 DEF HoldsAt
    <3>5. [agent |-> req[s].agent, chat |-> req[s].id, active |-> TRUE] \in Runs
      BY <3>4 DEF Runs
    <3>6. None \notin Runs
      BY WorkspaceAssumption
    <3> QED
      BY <1>0, <3>2, <3>5, <3>6 DEF Present
  <2> QED
    BY <2>1
<1>8. ASSUME PutTask(s) PROVE Task1
  <2>1. At(s, "putTask") /\ UNCHANGED <<agents, chat, run>>
        /\ task' = [task EXCEPT ![req[s].task] = [req[s].value EXCEPT !.chat = req[s].id]]
    BY <1>8 DEF PutTask
  <2>2. /\ HoldsAt(s, "putTask", req[s].id, req[s].row, req[s].agent, req[s].task, req[s].todo, req[s].value)
        /\ Op(s) \in {"sendCollaborationMessage", "requestAgentHelp"}
    BY <2>1, AtStep, StepsAreOf
  <2>3. req[s].value \in Tasks /\ req[s].id \in ChatIds
    BY <2>2 DEF HoldsAt
  <2>4. [req[s].value EXCEPT !.chat = req[s].id] \in Tasks
    BY <2>3 DEF Tasks
  <2> QED
    BY <2>1, <2>4
<1>9. ASSUME NewTask(s) PROVE Task1
  <2>1. /\ At(s, "newTask") /\ UNCHANGED <<agents, chat, run>>
        /\ task' = [task EXCEPT ![s] = [owner |-> req[s].agent, chat |-> None]]
    BY <1>9 DEF NewTask
  <2>2. /\ HoldsAt(s, "newTask", req[s].id, req[s].row, req[s].agent, req[s].task, req[s].todo, req[s].value)
        /\ Op(s) = "requestAgentHelp"
    BY <2>1, AtStep, StepsAreOf
  <2>3. [owner |-> req[s].agent, chat |-> None] \in Tasks
    BY <2>2 DEF HoldsAt, Tasks
  <2> QED
    BY <2>1, <2>3
<1>10. SameRest \/ Chat1 \/ Agents1 \/ Task1 \/ Run1
  BY <1>1, <1>2, <1>3, <1>4, <1>5, <1>6, <1>7, <1>8, <1>9 DEF ChatStep
<1>11. /\ agents' \subseteq AgentIds
       /\ chat' \in [ChatIds -> GoodChats \cup {None}]
       /\ task' \in [TaskIds -> Tasks \cup {None}]
       /\ run' \in [Slots -> Runs \cup {None}]
       /\ Present(run) \subseteq Present(run)'
  <2>1. CASE SameRest
    BY <1>0, <2>1 DEF Present
  <2>2. CASE Chat1
    BY <1>0, <2>2, ChatWritten DEF Present
  <2>3. CASE Agents1
    BY <1>0, <2>3 DEF Present
  <2>4. CASE Task1
    BY <1>0, <2>4 DEF Present
  <2>5. CASE Run1
    BY <1>0, <2>5
  <2> QED
    BY <1>10, <2>1, <2>2, <2>3, <2>4, <2>5
<1>12. ChatsTypeOK'
  <2>1. chat' \in [ChatIds -> Chats \cup {None}]
    BY <1>11 DEF GoodChats
  <2>2. \A c \in Present(chat)' : Cardinality(chat'[c].members) \in 1..MaxMembers
    BY <1>11 DEF Present, GoodChats
  <2> QED
    BY <1>11, <2>1, <2>2 DEF ChatsTypeOK
<1> QED
  BY <1>11, <1>12

LEMMA ConnectorStepTyped ==
  ASSUME RequestInv, RowsHeld, TablesTyped, NEW s \in Slots, ConnectorStep(s), Op(s) \in DOMAIN ConnectorProgram
  PROVE  ConnectorsTypeOK'
<1> DEFINE SameRest == UNCHANGED connectorVars
           Row1 == UNCHANGED verified /\ \E c : \E row \in ConnectorRows \cup {None} : connector' = [connector EXCEPT ![c] = row]
<1>0. connector \in [ConnectorIds -> ConnectorRows \cup {None}] /\ verified \subseteq Secrets
  BY DEF TablesTyped, ConnectorsTypeOK
<1>1. Actor(s) \/ Token(s) \/ Existing(s) \/ Lookup(s) \/ Send(s) => SameRest
  BY DEF Actor, Token, Existing, Lookup, Send
<1>2. ASSUME NEW h \in {"verify", "keep", "add"}, At(s, h)
      PROVE  /\ Op(s) \in {"connect", "createConnector"}
             /\ asked[s].secret \in Secrets /\ By(s) \in AgentIds \cup {User}
             /\ h = "keep" => req[s].row \in ConnectorRows \cup {None}
  <2>1. /\ WellFormed(asked[s]) /\ Op(s) \in {"connect", "createConnector"}
        /\ HoldsAt(s, h, req[s].id, req[s].row, req[s].agent, req[s].task, req[s].todo, req[s].value)
    BY <1>2, AtStep, StepsAreOf
  <2> QED
    BY <2>1 DEF WellFormed, HoldsAt, Op, By
<1>3. ASSUME Verify(s) PROVE UNCHANGED connector /\ verified' \subseteq Secrets
  <2>1. At(s, "verify")
    BY <1>3 DEF Verify
  <2>2. asked[s].secret \in Secrets
    BY <1>2, <2>1
  <2> QED
    BY <1>0, <1>3, <2>2 DEF Verify
<1>4. ASSUME Keep(s) PROVE Row1
  <2>1. At(s, "keep")
    BY <1>4 DEF Keep
  <2>2. asked[s].secret \in Secrets /\ By(s) \in AgentIds \cup {User} /\ req[s].row \in ConnectorRows \cup {None}
    BY <1>2, <2>1
  <2>3. req[s].row # None => req[s].row.by \in AgentIds \cup {User}
    BY <2>2 DEF ConnectorRows
  <2>4. Kept(s) \in ConnectorRows
    BY <2>2, <2>3 DEF Kept, Credential, ConnectorRows
  <2> QED
    BY <1>4, <2>4 DEF Keep
<1>5. ASSUME Add(s) PROVE SameRest \/ Row1
  <2>1. At(s, "add")
    BY <1>5 DEF Add
  <2>2. asked[s].secret \in Secrets /\ By(s) \in AgentIds \cup {User}
    BY <1>2, <2>1
  <2>3. [secret |-> asked[s].secret, label |-> asked[s].secret, by |-> By(s)] \in ConnectorRows
    BY <2>2 DEF ConnectorRows
  <2> QED
    BY <1>5, <2>3 DEF Add, connectorVars
<1>6. Drop(s) => Row1
  BY DEF Drop
<1>7. CASE SameRest
  BY <1>0, <1>7 DEF connectorVars, ConnectorsTypeOK
<1>8. CASE Row1
  BY <1>0, <1>8 DEF ConnectorsTypeOK
<1>9. CASE Verify(s)
  BY <1>0, <1>3, <1>9 DEF ConnectorsTypeOK
<1> QED
  BY <1>1, <1>4, <1>5, <1>6, <1>7, <1>8, <1>9 DEF ConnectorStep

LEMMA ProfileTyped ==
  ASSUME RequestInv, RowsHeld, TablesTyped, NEW s \in Slots, ReadProfile(s) \/ PutProfile(s)
  PROVE  (profile \subseteq Keys /\ Cardinality(profile) <= MaxProfile)'
<1>1. CASE ReadProfile(s)
  BY <1>1 DEF ReadProfile, TablesTyped
<1>2. CASE PutProfile(s)
  <2>1. At(s, "putProfile") /\ profile' = req[s].value
    BY <1>2 DEF PutProfile
  <2>2. HoldsAt(s, "putProfile", req[s].id, req[s].row, req[s].agent, req[s].task, req[s].todo, req[s].value)
    BY <2>1, AtStep
  <2> QED
    BY <2>1, <2>2 DEF HoldsAt
<1> QED
  BY <1>1, <1>2

\* The requests go their ways and the tables keep their types, whatever the files are.
RowsInv == RequestInv /\ RowsHeld /\ TablesTyped

LEMMA TablesStay ==
  ASSUME TablesTyped, UNCHANGED <<chatVars, connectorVars, profile>>
  PROVE  TablesTyped' /\ Present(run)' = Present(run)
BY DEF TablesTyped, chatVars, connectorVars, ChatsTypeOK, ConnectorsTypeOK, Present

LEMMA HandlesRowsInv ==
  ASSUME RowsInv, NEW s \in Slots, Handles(s)
  PROVE  RowsInv'
<1>0. RequestInv /\ RowsHeld /\ TablesTyped
  BY DEF RowsInv
<1>1. Proceeds(s) /\ Running(s)
  BY <1>0, StepsProceed
<1>2. TablesTyped' /\ Present(run) \subseteq Present(run)'
  <2>1. CASE ChatStep(s) /\ UNCHANGED <<artifactVars, connectorVars, profile>>
    BY <1>0, <2>1, ChatStepTyped DEF TablesTyped, connectorVars, ConnectorsTypeOK
  <2>2. CASE ConnectorStep(s) /\ Op(s) \in DOMAIN ConnectorProgram /\ UNCHANGED <<artifactVars, chatVars, profile>>
    BY <1>0, <2>2, ConnectorStepTyped DEF TablesTyped, chatVars, ChatsTypeOK, Present
  <2>3. CASE (ReadProfile(s) \/ PutProfile(s)) /\ UNCHANGED <<chatVars, artifactVars, connectorVars>>
    BY <1>0, <2>3, ProfileTyped DEF TablesTyped, chatVars, connectorVars, ChatsTypeOK, ConnectorsTypeOK, Present
  <2>4. CASE UNCHANGED <<chatVars, connectorVars, profile>>
    BY <1>0, <2>4, TablesStay
  <2> QED
    BY <2>1, <2>2, <2>3, <2>4 DEF Handles
<1>3. RequestInv' /\ RowsHeld'
  BY <1>0, <1>1, <1>2, ProceedsInv
<1> QED
  BY <1>2, <1>3 DEF RowsInv

LEMMA RunEndsInv ==
  ASSUME RowsInv, RunsEnd
  PROVE  RowsInv'
<1>1. PICK r \in Slots : Active(r) /\ run' = [run EXCEPT ![r].active = FALSE]
  BY DEF RunsEnd, RunEnds
<1>2. UNCHANGED <<requestVars, agents, chat, task, message, artifactVars, connectorVars, profile>>
  BY DEF RunsEnd, RunEnds
<1>3. RequestInv /\ RowsHeld /\ TablesTyped
  BY DEF RowsInv
<1>4. run' \in [Slots -> Runs \cup {None}] /\ Present(run) \subseteq Present(run)'
  BY <1>1, <1>3, RunDeactivated DEF TablesTyped, ChatsTypeOK, Active
<1>5. TablesTyped'
  BY <1>2, <1>3, <1>4 DEF TablesTyped, ChatsTypeOK, ConnectorsTypeOK, connectorVars, Present
<1>6. RequestInv'
  BY <1>2, <1>3 DEF RequestInv, requestVars, GoesItsWay, Began, Running, Done, Ended, Op
<1>7. RowsHeld'
  BY <1>2, <1>3, <1>4 DEF RowsHeld, requestVars, Holds, HoldsAt, Running, Op, By
<1> QED
  BY <1>5, <1>6, <1>7 DEF RowsInv

LEMMA InitRowsInv ==
  Init => RowsInv
<1> SUFFICES ASSUME Init PROVE RowsInv
  OBVIOUS
<1>1. RequestsInit /\ ChatsInit /\ ConnectorsInit /\ profile = {}
  BY DEF Init
<1>2. \A s \in Slots : req[s] = Fresh
  BY <1>1 DEF RequestsInit
<1>3. Fresh.state = "waiting" /\ Fresh.left = <<>> /\ IsHandler(Fresh)
  BY DEF Fresh, IsHandler
<1>4. \A s \in Slots : GoesItsWay(s) /\ ~Running(s)
  BY <1>2, <1>3 DEF GoesItsWay, States, Began, Running, Done
<1>5. RequestInv
  <2>1. req = [s \in Slots |-> req[s]] /\ asked \in Mixes /\ database \in {"memory", "postgres"} /\ before = {}
    BY <1>1 DEF RequestsInit
  <2>2. faults \in 0..MaxFaults
    BY <1>1, WorkspaceAssumption DEF RequestsInit
  <2> QED
    BY <1>4, <2>1, <2>2 DEF RequestInv
<1>6. RowsHeld
  BY <1>4 DEF RowsHeld
<1>7. ChatsTypeOK
  <2>1. Agents \subseteq AgentIds /\ Agents \subseteq ChatIds /\ Group \in ChatIds /\ None \in TaskIds \cup {None}
    BY DEF AgentIds, ChatIds
  <2>2. \A c \in Agents : Direct(c) \in GoodChats
    BY <2>1, OneIsGood DEF Direct
  <2>3. [kind |-> "group", members |-> Agents, task |-> None] \in GoodChats
    BY <2>1, WorkspaceAssumption DEF GoodChats, Chats
  <2>4. chat \in [ChatIds -> GoodChats \cup {None}]
    BY <1>1, <2>2, <2>3 DEF ChatsInit
  <2>5. [owner |-> None, chat |-> None] \in Tasks
    BY DEF Tasks
  <2>6. task \in [TaskIds -> Tasks \cup {None}] /\ run \in [Slots -> Runs \cup {None}] /\ agents \subseteq AgentIds
    BY <1>1, <2>1, <2>5 DEF ChatsInit
  <2> QED
    BY <2>4, <2>6, ChatsAre
<1>8. ConnectorsTypeOK
  <2>1. Old \in Secrets
    BY WorkspaceAssumption
  <2>2. [secret |-> Old, label |-> Old, by |-> User] \in ConnectorRows
    BY <2>1 DEF ConnectorRows
  <2> QED
    BY <1>1, <2>1, <2>2 DEF ConnectorsInit, ConnectorsTypeOK
<1>9. Cardinality({}) <= MaxProfile
  BY FS_EmptySet, WorkspaceAssumption
<1> QED
  BY <1>1, <1>5, <1>6, <1>7, <1>8, <1>9 DEF RowsInv, TablesTyped

LEMMA StepRowsInv ==
  ASSUME RowsInv, [Next]_vars
  PROVE  RowsInv'
<1>0. RequestInv /\ RowsHeld /\ TablesTyped
  BY DEF RowsInv
<1>1. ASSUME NEW s \in Slots, Arrive(s) PROVE RowsInv'
  <2>1. UNCHANGED <<chatVars, connectorVars, profile>>
    BY <1>1 DEF Arrive
  <2> QED
    BY <1>0, <1>1, <2>1, ArriveInv, TablesStay DEF RowsInv
<1>2. ASSUME NEW s \in Slots, Fails(s) PROVE RowsInv'
  <2>1. UNCHANGED <<chatVars, connectorVars, profile>>
    BY <1>2 DEF Fails
  <2> QED
    BY <1>0, <1>2, <2>1, FailsInv, TablesStay DEF RowsInv
<1>3. CASE Restart
  <2>1. UNCHANGED <<chatVars, connectorVars, profile>>
    BY <1>3 DEF Restart
  <2> QED
    BY <1>0, <1>3, <2>1, RestartInv, TablesStay DEF RowsInv
<1>4. CASE UNCHANGED vars
  <2>1. UNCHANGED <<chatVars, connectorVars, profile>> /\ UNCHANGED requestVars /\ UNCHANGED run
    BY <1>4 DEF vars, chatVars
  <2>2. TablesTyped'
    BY <1>0, <2>1, TablesStay
  <2>3. RequestInv'
    BY <1>0, <2>1 DEF RequestInv, requestVars, GoesItsWay, Began, Running, Done, Ended, Op
  <2>4. RowsHeld'
    BY <1>0, <2>1 DEF RowsHeld, requestVars, Holds, HoldsAt, Running, Op, By
  <2> QED
    BY <2>2, <2>3, <2>4 DEF RowsInv
<1> QED
  BY <1>1, <1>2, <1>3, <1>4, HandlesRowsInv, RunEndsInv DEF Next

-----------------------------------------------------------------------------
(* Files, rows and versions of artifacts.                                   *)

LEMMA GreatestExists ==
  ASSUME NEW S \in SUBSET Nat, S # {}, NEW k \in Nat, \A x \in S : x <= k
  PROVE  \E m \in S : \A n \in S : m >= n
<1> DEFINE T == {k - x : x \in S}
<1>0. \A x \in S : x \in Nat /\ k - x \in Nat
  OBVIOUS
<1>1. T \in SUBSET Nat /\ T # {}
  BY <1>0
<1>2. PICK t \in T : \A n \in T : t <= n
  BY <1>1, FirstExists
<1>3. PICK m \in S : t = k - m
  OBVIOUS
<1>4. ASSUME NEW n \in S PROVE m >= n
  <2>1. k - n \in T /\ m \in Nat /\ n \in Nat
    OBVIOUS
  <2>2. k - m <= k - n
    BY <1>2, <1>3, <2>1
  <2> QED
    BY <2>1, <2>2
<1> QED
  BY <1>3, <1>4

\* The versions of an artifact are numbered from one, no further than there are of them.
Family(l) == {a \in Present(artifact) : artifact[a].logical = l}
FamiliesInv ==
    /\ Plan \in blob /\ artifact[Plan] # None
    /\ \A a \in Present(artifact) : /\ artifact[a].logical \in Present(artifact)
                                    /\ artifact[a].version <= Cardinality(Family(artifact[a].logical))

\* An upload and its file and row, by how far it is.
Uploads(s) == Began(s) /\ Op(s) = "upload"
Begun(s) == req[s].state \in {"running", "lost"}
NextStep(s) == Head(req[s].left)
UploadHolds(s) ==
    /\ s \in staged => Uploads(s) /\ Begun(s) /\ NextStep(s) \in {"validate", "move"}
    /\ s \in blob => Uploads(s) /\ (Done(s) \/ (Begun(s) /\ NextStep(s) \in {"record", "announce"}))
    /\ artifact[s] # None => Uploads(s) /\ (Done(s) \/ NextStep(s) = "announce")
    /\ Uploads(s) => /\ At(s, "record") => s \in blob
                     /\ Done(s) \/ (Begun(s) /\ NextStep(s) = "announce") => s \in blob /\ artifact[s] # None

\* What an upload is to record: a first version of its own, or one more of a family whose
\* others are before it, but for those recorded since it began.
NewRows == [logical : ArtifactIds, version : Nat \ {0}, agent : AgentIds \cup {None}, name : {"given", "renamed"}]
VersionHolds(s) ==
    LET row == req[s].row
    IN At(s, "move") \/ At(s, "record") =>
          /\ row \in NewRows
          /\ \/ row.logical = s /\ row.version = 1
             \/ /\ row.logical \in Present(artifact) /\ row.version <= Cardinality(Family(row.logical)) + 1
                /\ \A b \in Family(row.logical) :
                      artifact[b].version < row.version \/ (b \in Slots /\ <<b, s>> \notin before)

\* A row that is written back has the number it had.
RenameHolds(s) ==
    LET row == req[s].row   a == asked[s].parent
    IN At(s, "putArtifact") =>
          /\ row \in ArtifactRows /\ a \in ArtifactIds /\ artifact[a] # None
          /\ row.logical = artifact[a].logical /\ row.version = artifact[a].version

FilesInv ==
    /\ ArtifactsTypeOK /\ FamiliesInv
    /\ \A s \in Slots : UploadHolds(s) /\ VersionHolds(s) /\ RenameHolds(s)
    /\ VersionsDiffer

LEMMA FamiliesAreFinite ==
  ASSUME NEW S \in SUBSET ArtifactIds
  PROVE  IsFiniteSet(S) /\ Cardinality(S) \in Nat /\ Cardinality(S) <= Cardinality(Slots) + 1
<1>1. IsFiniteSet(Slots) /\ Plan \notin Slots
  BY WorkspaceAssumption
<1>2. Cardinality(Slots \cup {Plan}) = Cardinality(Slots) + 1 /\ IsFiniteSet(Slots \cup {Plan})
  BY <1>1, FS_AddElement
<1>3. ArtifactIds = Slots \cup {Plan}
  BY DEF ArtifactIds
<1>4. IsFiniteSet(S) /\ Cardinality(S) <= Cardinality(ArtifactIds)
  BY <1>2, <1>3, FS_Subset
<1> QED
  BY <1>2, <1>3, <1>4, FS_CardinalityType

\* The rows there are stay, with the numbers they have, and no other is added.
SameRows ==
    /\ artifact' \in [ArtifactIds -> ArtifactRows \cup {None}]
    /\ \A a \in ArtifactIds :
          /\ artifact'[a] = None <=> artifact[a] = None
          /\ artifact[a] # None => /\ artifact'[a].logical = artifact[a].logical
                                   /\ artifact'[a].version = artifact[a].version

LEMMA SameFamilies ==
  ASSUME ArtifactsTypeOK, SameRows
  PROVE  /\ Present(artifact)' = Present(artifact)
         /\ \A l : Family(l)' = Family(l)
         /\ \A a \in Present(artifact) : /\ artifact'[a].logical = artifact[a].logical
                                         /\ artifact'[a].version = artifact[a].version
         /\ FamiliesInv /\ Plan \in blob' => FamiliesInv'
<1>1. /\ Present(artifact)' = Present(artifact) /\ Present(artifact) \subseteq ArtifactIds
      /\ \A a \in Present(artifact) : /\ artifact'[a].logical = artifact[a].logical
                                      /\ artifact'[a].version = artifact[a].version
  BY DEF ArtifactsTypeOK, SameRows, Present
<1>2. \A l : Family(l)' = Family(l)
  BY <1>1 DEF Family
<1>3. Plan \in ArtifactIds
  BY DEF ArtifactIds
<1>4. FamiliesInv /\ Plan \in blob' => FamiliesInv'
  BY <1>1, <1>2, <1>3 DEF FamiliesInv, SameRows
<1> QED
  BY <1>1, <1>2, <1>4

\* Nothing changes but for the request s.
But(s) ==
    /\ UNCHANGED <<database, asked>>
    /\ before \subseteq before'
    /\ \A t, u : <<t, u>> \in before' => <<t, u>> \in before \/ (u = s /\ ~Began(s))
    /\ Began(s) => Began(s)'
    /\ \A u \in Slots : u # s => /\ req'[u] = req[u]
                                 /\ u \in staged' <=> u \in staged
                                 /\ u \in blob' <=> u \in blob

LEMMA OthersKeep ==
  ASSUME ArtifactsTypeOK, SameRows, NEW s \in Slots, But(s), NEW u \in Slots, u # s,
         UploadHolds(u), VersionHolds(u), RenameHolds(u)
  PROVE  UploadHolds(u)' /\ VersionHolds(u)' /\ RenameHolds(u)'
<1>1. /\ req'[u] = req[u] /\ asked' = asked /\ Op(u)' = Op(u) /\ (u \in staged' <=> u \in staged) /\ (u \in blob' <=> u \in blob)
      /\ artifact'[u] = None <=> artifact[u] = None
      /\ \A t : <<t, u>> \in before' <=> <<t, u>> \in before
  BY DEF But, SameRows, Op, ArtifactIds
<1>2. UploadHolds(u)'
  BY <1>1 DEF UploadHolds, Uploads, Begun, NextStep, Done, At, Running, Began
<1>3. VersionHolds(u)'
  <2>1. /\ Present(artifact)' = Present(artifact) /\ \A l : Family(l)' = Family(l)
        /\ \A a \in Present(artifact) : artifact'[a].version = artifact[a].version
    BY SameFamilies
  <2>2. \A l : Family(l) \subseteq Present(artifact)
    BY DEF Family
  <2> QED
    BY <1>1, <2>1, <2>2 DEF VersionHolds, At, Running
<1>4. RenameHolds(u)'
  BY <1>1 DEF RenameHolds, At, Running, SameRows
<1> QED
  BY <1>2, <1>3, <1>4

LEMMA StillDiffer ==
  ASSUME ArtifactsTypeOK, SameRows, NEW s \in Slots, But(s), VersionsDiffer, \A u \in Slots : UploadHolds(u)
  PROVE  VersionsDiffer'
<1> SUFFICES ASSUME NEW a \in Present(artifact)', NEW b \in Present(artifact)', a # b,
                    artifact'[a].logical = artifact'[b].logical, artifact'[a].version = artifact'[b].version
             PROVE  database' = "memory" /\ {a, b} \subseteq Slots /\ Crossed(a, b)'
  BY DEF VersionsDiffer
<1>1. a \in Present(artifact) /\ b \in Present(artifact)
  BY SameFamilies
<1>2. artifact[a].logical = artifact[b].logical /\ artifact[a].version = artifact[b].version
  BY <1>1, SameFamilies
<1>3. database = "memory" /\ {a, b} \subseteq Slots /\ Crossed(a, b)
  BY <1>1, <1>2 DEF VersionsDiffer
<1>4. <<a, b>> \notin before' /\ <<b, a>> \notin before'
  BY <1>3 DEF But, Crossed
<1>5. Began(a)' /\ Began(b)'
  BY <1>3 DEF But, Crossed, Began
<1> QED
  BY <1>3, <1>4, <1>5 DEF But, Crossed

LEMMA FilesKept ==
  ASSUME FilesInv, SameRows, NEW s \in Slots, But(s), Plan \in blob',
         staged' \subseteq Slots, blob' \subseteq ArtifactIds, copied' \in [Slots -> SUBSET ArtifactIds],
         UploadHolds(s)', VersionHolds(s)', RenameHolds(s)'
  PROVE  FilesInv'
<1>1. ArtifactsTypeOK /\ FamiliesInv /\ VersionsDiffer
      /\ \A u \in Slots : UploadHolds(u) /\ VersionHolds(u) /\ RenameHolds(u)
  BY DEF FilesInv
<1>2. \A u \in Slots : UploadHolds(u)' /\ VersionHolds(u)' /\ RenameHolds(u)'
  BY <1>1, OthersKeep
<1>3. FamiliesInv' /\ VersionsDiffer'
  BY <1>1, SameFamilies, StillDiffer
<1>4. ArtifactsTypeOK'
  BY DEF ArtifactsTypeOK, SameRows
<1> QED
  BY <1>2, <1>3, <1>4 DEF FilesInv

\* A handler whose next step is one of these takes no other.
LEMMA OnlySteps ==
  ASSUME NEW s \in Slots, Handles(s),
         Head(req[s].left) \in {"getArtifact", "putArtifact", "stage", "validate", "move", "record", "announce"}
  PROVE  /\ ArtifactStep(s) /\ UNCHANGED <<chatVars, connectorVars, profile>>
         /\ Head(req[s].left) \in {"getArtifact", "putArtifact"} => GetArtifact(s) \/ PutArtifact(s)
         /\ Head(req[s].left) \notin {"getArtifact", "putArtifact"} =>
               Stage(s) \/ Validate(s) \/ Move(s) \/ Record(s) \/ Announce(s)
<1>1. ~ChatStep(s)
  BY Zenon DEF ChatStep, Enlist, GetAgent, PutAgent, Survey, Detach, Dismiss, Look, Store, Get, Save, Check, Erase, Open,
         Interrupt, Address, Commit, Touch, Meet, GetTask, PutTask, Say, AskHelp, NewTask, ReadHelp, Reads, At
<1>2. ~ConnectorStep(s)
  BY DEF ConnectorStep, Actor, Token, Verify, Existing, Keep, Add, Lookup, Send, Drop, Reads, At
<1>3. ~(ReadProfile(s) \/ PutProfile(s) \/ FindHome(s) \/ FirstRun(s) \/ Read(s))
  BY DEF ReadProfile, PutProfile, FindHome, FirstRun, Read, Reads, At
<1>4. ArtifactStep(s) /\ UNCHANGED <<chatVars, connectorVars, profile>>
  BY <1>1, <1>2, <1>3 DEF Handles
<1> QED
  BY Zenon, <1>4 DEF ArtifactStep, Stage, Validate, Move, Record, Announce, GetArtifact, PutArtifact, Download, Attach,
              Reads, At

\* A handler that goes on, with the variables it had or with another row.
LEMMA MovesOn ==
  ASSUME RequestInv, NEW s \in Slots, Running(s), NEW x,
         Moves(s, req[s]) \/ Moves(s, [req[s] EXCEPT !.row = x])
  PROVE  /\ req'[s].left = Tail(req[s].left)
         /\ req'[s].state = IF Tail(req[s].left) = <<>> THEN "done" ELSE "running"
         /\ req'[s].row \in {req[s].row, x}
<1> DEFINE l == Tail(req[s].left)
<1>1. Plain(s) \/ GetsRow(s, x)
  BY MovesAre
<1>2. \E w \in {req[s].row, x} :
         Becomes(s, req[s].id, w, req[s].agent, req[s].task, req[s].todo, req[s].value, l)
  BY <1>1 DEF Plain, GetsRow
<1> HIDE DEF l
<1>3. PICK w \in {req[s].row, x} :
         Becomes(s, req[s].id, w, req[s].agent, req[s].task, req[s].todo, req[s].value, l)
  BY <1>2
<1>4. req'[s].left = l /\ req'[s].state = (IF l = <<>> THEN "done" ELSE "running") /\ req'[s].row = w
  BY <1>3, BecameIs
<1> QED
  BY <1>4 DEF l

\* The steps of an upload, one after the other.
LEMMA UploadGoesOn ==
  ASSUME RequestInv, RowsHeld, NEW s \in Slots, Op(s) = "upload", NEW h, At(s, h)
  PROVE  LET l == Tail(req[s].left)
         IN /\ h \in {"stage", "validate", "move", "record", "announce"}
            /\ h = "stage" => l # <<>> /\ Head(l) = "validate"
            /\ h = "validate" => l # <<>> /\ Head(l) = "move"
            /\ h = "move" => l # <<>> /\ Head(l) = "record"
            /\ h = "record" => l # <<>> /\ Head(l) = "announce"
            /\ h = "announce" => l = <<>>
<1> DEFINE l == Tail(req[s].left)   n == Head(l)
<1>1. /\ h \in StepsOf["upload"] /\ "upload" \in DOMAIN Ways
      /\ l = <<>> \/ (l \in RestsOf("upload") /\ Follows(h, n))
      /\ h \in NeverLast => l # <<>>
  BY AtStep
<1> HIDE DEF l
<1>2. l # <<>> => n \in StepsOf["upload"]
  BY <1>1, RestsGoOn
<1> HIDE DEF n
<1>3. StepsOf["upload"] = {"stage", "validate", "move", "record", "announce"}
  BY DEF StepsOf
<1>4. /\ h \in {"stage", "validate", "move", "record", "announce"}
      /\ h = "stage" => l # <<>> /\ n = "validate"
      /\ h = "validate" => l # <<>> /\ n = "move"
      /\ h = "move" => l # <<>> /\ n = "record"
      /\ h = "record" => l # <<>> /\ n = "announce"
      /\ h = "announce" => l = <<>>
  BY <1>1, <1>2, <1>3 DEF Follows, NeverLast
<1> QED
  BY <1>4 DEF l, n

LEMMA ProceedsAlone ==
  ASSUME RequestInv, NEW s \in Slots, Running(s), Proceeds(s)
  PROVE  /\ UNCHANGED <<database, asked, before, faults>>
         /\ \A u \in Slots : u # s => req'[u] = req[u]
         /\ Began(s)'
<1>1. CASE Refuses(s)
  <2>1. Stops(s, "refused") /\ UNCHANGED <<database, asked, before, faults>>
    BY <1>1, RefusesStopsIt DEF Refuses
  <2> QED
    BY <2>1 DEF Stops, StopsIn, Began
<1>2. CASE ~Refuses(s)
  <2>1. PICK i, w, a, t, d, v, l : Becomes(s, i, w, a, t, d, v, l)
    BY <1>2 DEF Proceeds
  <2>2. /\ req'[s].state = IF l = <<>> THEN "done" ELSE "running"
        /\ \A u \in Slots : u # s => req'[u] = req[u]
        /\ UNCHANGED <<database, asked, before, faults>>
    BY <2>1, BecameIs
  <2> QED
    BY <2>2 DEF Began
<1> QED
  BY <1>1, <1>2

\* Only uploads and renames come to the steps that change files and rows.
LEMMA OfFiles ==
  ASSUME RequestInv', UNCHANGED asked, NEW s \in Slots
  PROVE  /\ Running(s)' => /\ Op(s) \in DOMAIN Ways /\ req'[s].left \in RestsOf(Op(s)) /\ NextStep(s)' \in StepsOf[Op(s)]
                           /\ asked[s] # None
         /\ Op(s) # "upload" => ~At(s, "move")' /\ ~At(s, "record")' /\ ~Uploads(s)'
         /\ Op(s) # "rename" => ~At(s, "putArtifact")'
<1>1. Op(s)' = Op(s)
  BY DEF Op
<1>2. ASSUME Running(s)'
      PROVE  /\ Op(s) \in DOMAIN Ways /\ req'[s].left \in RestsOf(Op(s)) /\ Head(req'[s].left) \in StepsOf[Op(s)]
             /\ asked[s] # None
  <2>1. req'[s].left \in RestsOf(Op(s)) /\ asked'[s] # None
    BY <1>1, <1>2 DEF RequestInv, GoesItsWay, Began, Running
  <2>2. WellFormed(asked[s]) /\ Op(s) \in Routes
    <3>1. asked' \in Mixes
      BY DEF RequestInv
    <3>2. WellFormed(asked'[s])
      BY <2>1, <3>1, InputsAssumption
    <3> QED
      BY <3>2 DEF WellFormed, Op
  <2>3. Op(s) \in DOMAIN Ways
    BY <2>2, ProgramsBegin
  <2> QED
    BY <2>1, <2>3, RestsGoOn
<1>3. Running(s)' => /\ Head(req'[s].left) \in {"move", "record"} => Op(s) = "upload"
                     /\ Head(req'[s].left) = "putArtifact" => Op(s) = "rename"
  BY <1>2, StepsAreOf
<1> QED
  BY <1>1, <1>2, <1>3 DEF At, Running, Uploads, NextStep

LEMMA QuietFiles ==
  ASSUME RowsInv, RowsInv', FilesInv, NEW s \in Slots, Handles(s), Op(s) \notin {"upload", "rename"}
  PROVE  FilesInv'
<1>0. RequestInv /\ RowsHeld /\ TablesTyped /\ RequestInv'
  BY DEF RowsInv
<1>1. Proceeds(s) /\ Running(s)
  BY <1>0, StepsProceed
<1>2. UNCHANGED <<database, asked, before>> /\ (\A u \in Slots : u # s => req'[u] = req[u]) /\ Began(s)'
  BY <1>0, <1>1, ProceedsAlone
<1>3. /\ ~At(s, "stage") /\ ~At(s, "validate") /\ ~At(s, "move") /\ ~At(s, "record") /\ ~At(s, "announce")
      /\ ~At(s, "getArtifact") /\ ~At(s, "putArtifact")
  <2>1. Op(s) \in DOMAIN Ways /\ Head(req[s].left) \in StepsOf[Op(s)]
    BY <1>0, <1>1, RunningIs
  <2> QED
    BY <2>1, StepsAreOf DEF At
<1>4. UNCHANGED <<staged, blob, artifact>> /\ copied' \in [Slots -> SUBSET ArtifactIds]
  <2>1. copied \in [Slots -> SUBSET ArtifactIds]
    BY DEF FilesInv, ArtifactsTypeOK
  <2>2. CASE ArtifactStep(s)
    <3>1. Download(s) \/ Attach(s)
      BY <1>3, <2>2 DEF ArtifactStep, Stage, Validate, Move, Record, Announce, GetArtifact, PutArtifact, Reads
    <3>2. CASE Download(s)
      BY <2>1, <3>2 DEF Download, artifactVars
    <3>3. CASE Attach(s)
      <4>1. At(s, "attach")
        BY <3>3 DEF Attach
      <4>2. asked[s].attachments \subseteq ArtifactIds
        BY <1>0, <4>1, AtStep DEF WellFormed
      <4> QED
        BY <2>1, <3>3, <4>2 DEF Attach
    <3> QED
      BY <3>1, <3>2, <3>3
  <2>3. CASE UNCHANGED artifactVars
    BY <2>1, <2>3 DEF artifactVars
  <2> QED
    BY <2>2, <2>3 DEF Handles
<1>5. SameRows
  BY <1>4 DEF SameRows, FilesInv, ArtifactsTypeOK
<1>6. But(s)
  BY <1>1, <1>2, <1>4 DEF But, Began, Running
<1>7. /\ ~At(s, "move")' /\ ~At(s, "record")' /\ ~Uploads(s)' /\ ~At(s, "putArtifact")'
      /\ ~Uploads(s)
  BY <1>0, <1>2, OfFiles DEF Uploads
<1>8. UploadHolds(s)' /\ VersionHolds(s)' /\ RenameHolds(s)'
  <2>1. s \notin staged /\ s \notin blob /\ artifact[s] = None
    BY <1>7 DEF FilesInv, UploadHolds
  <2> QED
    BY <1>4, <1>7, <2>1 DEF UploadHolds, VersionHolds, RenameHolds
<1> QED
  BY <1>4, <1>5, <1>6, <1>8, FilesKept DEF FilesInv, FamiliesInv, ArtifactsTypeOK

LEMMA RenameFiles ==
  ASSUME RowsInv, RowsInv', FilesInv, NEW s \in Slots, Handles(s), Op(s) = "rename"
  PROVE  FilesInv'
<1>0. RequestInv /\ RowsHeld /\ TablesTyped /\ RequestInv'
  BY DEF RowsInv
<1>1. Proceeds(s) /\ Running(s)
  BY <1>0, StepsProceed
<1>2. UNCHANGED <<database, asked, before>> /\ (\A u \in Slots : u # s => req'[u] = req[u]) /\ Began(s)'
  BY <1>0, <1>1, ProceedsAlone
<1> DEFINE a == asked[s].parent
<1>3. a \in ArtifactIds /\ Op(s) \in DOMAIN Ways /\ Head(req[s].left) \in {"getArtifact", "putArtifact"}
  <2>1. WellFormed(asked[s]) /\ Op(s) \in DOMAIN Ways /\ Head(req[s].left) \in StepsOf["rename"]
    BY <1>0, <1>1, RunningIs
  <2>2. StepsOf["rename"] = {"getArtifact", "putArtifact"}
    BY DEF StepsOf
  <2> QED
    BY <2>1, <2>2 DEF WellFormed, Op
<1>4. GetArtifact(s) \/ PutArtifact(s)
  BY <1>3, OnlySteps
<1>5. ~At(s, "move")' /\ ~At(s, "record")' /\ ~Uploads(s)' /\ ~Uploads(s)
  BY <1>0, <1>2, OfFiles DEF Uploads
<1>6. artifact \in [ArtifactIds -> ArtifactRows \cup {None}] /\ None \notin ArtifactRows
  BY WorkspaceAssumption DEF FilesInv, ArtifactsTypeOK
<1>7. UNCHANGED <<staged, blob, copied>> /\ SameRows /\ RenameHolds(s)'
  <2>1. CASE GetArtifact(s)
    <3>1. UNCHANGED artifactVars /\ At(s, "getArtifact")
      BY <2>1 DEF GetArtifact, Reads
    <3>2. SameRows
      BY <1>6, <3>1 DEF SameRows, artifactVars
    <3>3. RenameHolds(s)'
      <4>1. CASE Refuses(s)
        <5>1. ~Running(s)'
          BY <1>0, <1>1, <4>1, RefusesStopsIt DEF Refuses, Stops, StopsIn, Running
        <5> QED
          BY <5>1 DEF RenameHolds, At
      <4>2. CASE ~Refuses(s)
        <5>1. Moves(s, [req[s] EXCEPT !.row = artifact[a]]) /\ artifact[a] # None
          BY <2>1, <4>2 DEF GetArtifact, Reads
        <5>2. GetsRow(s, artifact[a])
          BY <1>0, <1>1, <5>1, MovesAre
        <5>3. req'[s].row = artifact[a]
          BY <1>0, <5>2, BecameIs DEF GetsRow
        <5>4. artifact[a] \in ArtifactRows /\ artifact' = artifact
          BY <1>3, <1>6, <3>1, <5>1 DEF artifactVars
        <5> QED
          BY <1>2, <1>3, <5>1, <5>3, <5>4 DEF RenameHolds
      <4> QED
        BY <4>1, <4>2
    <3> QED
      BY <3>1, <3>2, <3>3 DEF artifactVars
  <2>2. CASE PutArtifact(s)
    <3>1. /\ At(s, "putArtifact") /\ Moves(s, req[s]) /\ UNCHANGED <<staged, blob, copied>>
          /\ artifact' = [artifact EXCEPT ![a] = [req[s].row EXCEPT !.name = "renamed"]]
      BY <2>2 DEF PutArtifact
    <3>2. /\ req[s].row \in ArtifactRows /\ artifact[a] # None
          /\ req[s].row.logical = artifact[a].logical /\ req[s].row.version = artifact[a].version
      BY <3>1 DEF FilesInv, RenameHolds
    <3> DEFINE w == [req[s].row EXCEPT !.name = "renamed"]
    <3>3. w \in ArtifactRows /\ w.logical = req[s].row.logical /\ w.version = req[s].row.version
      BY <3>2 DEF ArtifactRows
    <3> HIDE DEF w
    <3>4. SameRows
      BY <1>3, <1>6, <3>1, <3>2, <3>3 DEF SameRows, w
    <3>5. ~At(s, "putArtifact")'
      <4>2. req'[s].left = Tail(req[s].left) /\ (req'[s].state = "running" => Tail(req[s].left) # <<>>)
        BY <1>0, <1>1, <3>1, MovesOn
      <4>3. Tail(req[s].left) = <<>> \/ Follows("putArtifact", Head(Tail(req[s].left)))
        BY <1>0, <3>1, AtStep
      <4> QED
        BY <4>2, <4>3 DEF At, Running, Follows
    <3> QED
      BY <3>1, <3>4, <3>5 DEF RenameHolds
  <2> QED
    BY <1>4, <2>1, <2>2
<1>8. But(s)
  BY <1>1, <1>2, <1>7 DEF But, Began, Running
<1>9. UploadHolds(s)' /\ VersionHolds(s)'
  <2>1. s \notin staged /\ s \notin blob /\ artifact[s] = None
    BY <1>5 DEF FilesInv, UploadHolds
  <2>2. artifact'[s] = None
    BY <1>7, <2>1 DEF SameRows, ArtifactIds
  <2> QED
    BY <1>5, <1>7, <2>1, <2>2 DEF UploadHolds, VersionHolds
<1> QED
  BY <1>7, <1>8, <1>9, FilesKept DEF FilesInv, FamiliesInv, ArtifactsTypeOK

\* A step of an upload that changes no row.
LEMMA UploadKeeps ==
  ASSUME RowsInv, RowsInv', FilesInv, NEW s \in Slots, Running(s), Op(s) = "upload",
         UNCHANGED <<database, asked, before>>, \A u \in Slots : u # s => req'[u] = req[u], Began(s)',
         UNCHANGED <<artifact, copied>>,
         staged' \in {staged, staged \cup {s}, staged \ {s}}, blob' \in {blob, blob \cup {s}, blob \ {s}},
         UploadHolds(s)', VersionHolds(s)'
  PROVE  FilesInv'
<1>1. SameRows
  BY DEF SameRows, FilesInv, ArtifactsTypeOK
<1>2. But(s)
  BY DEF But, Began, Running
<1>3. Plan # s /\ Plan \in blob'
  BY WorkspaceAssumption DEF FilesInv, FamiliesInv
<1>4. RenameHolds(s)'
  <2>1. ~At(s, "putArtifact")'
    BY OfFiles DEF RowsInv
  <2> QED
    BY <2>1 DEF RenameHolds
<1>5. staged' \subseteq Slots /\ blob' \subseteq ArtifactIds /\ copied' \in [Slots -> SUBSET ArtifactIds]
  BY DEF FilesInv, ArtifactsTypeOK, ArtifactIds
<1> QED
  BY <1>1, <1>2, <1>3, <1>4, <1>5, FilesKept

\* An upload that stops leaves no file that is not recorded.
LEMMA UploadStops ==
  ASSUME NEW s \in Slots, UploadHolds(s), Running(s), StopsIn(s, "refused"), UNCHANGED <<asked, artifact>>,
         s \notin staged', s \notin blob'
  PROVE  UploadHolds(s)' /\ VersionHolds(s)'
<1>1. req'[s].state = "refused" /\ req'[s].left = req[s].left /\ req[s].state = "running"
  BY DEF StopsIn, Running
<1> QED
  BY <1>1 DEF UploadHolds, VersionHolds, Uploads, Began, Begun, Done, At, Running, NextStep, Op

LEMMA StageFiles ==
  ASSUME RowsInv, RowsInv', FilesInv, NEW s \in Slots, Op(s) = "upload", Stage(s)
  PROVE  FilesInv'
<1>0. RequestInv /\ RowsHeld /\ UploadHolds(s) /\ At(s, "stage") /\ Running(s)
  BY DEF RowsInv, FilesInv, Stage, At
<1>1. s \notin staged /\ s \notin blob /\ artifact[s] = None
  BY <1>0 DEF UploadHolds, At, Running, Done, NextStep
<1>2. CASE Moves(s, req[s]) /\ staged' = staged \cup {s}
  <2>1. req'[s].left = Tail(req[s].left) /\ req'[s].state = "running" /\ Head(req'[s].left) = "validate"
    BY <1>0, <1>2, MovesOn, UploadGoesOn
  <2>2. UNCHANGED <<database, asked, before>> /\ \A u \in Slots : u # s => req'[u] = req[u]
    BY <1>2 DEF Moves, Goes, RowsInv, RequestInv
  <2>3. UNCHANGED <<blob, artifact, copied>>
    BY DEF Stage
  <2>4. UploadHolds(s)' /\ VersionHolds(s)'
    BY <1>1, <1>2, <2>1, <2>2, <2>3 DEF UploadHolds, VersionHolds, Uploads, Began, Begun, Done, At, Running, NextStep, Op
  <2>5. Began(s)'
    BY <2>1 DEF Began
  <2> QED
    BY <1>0, <1>2, <2>2, <2>3, <2>4, <2>5, UploadKeeps
<1>3. CASE Refuses(s) /\ UNCHANGED staged
  <2>1. Stops(s, "refused") /\ UNCHANGED <<database, asked, before>>
    BY <1>0, <1>3, RefusesStopsIt DEF Refuses
  <2>2. UNCHANGED <<blob, artifact, copied>>
    BY DEF Stage
  <2>3. UploadHolds(s)' /\ VersionHolds(s)'
    BY <1>0, <1>1, <1>3, <2>1, <2>2, UploadStops DEF Stops
  <2>4. Began(s)'
    BY <2>1 DEF Stops, StopsIn, Began
  <2> QED
    BY <1>0, <1>3, <2>1, <2>2, <2>3, <2>4, UploadKeeps DEF Stops
<1> QED
  BY <1>2, <1>3 DEF Stage

\* The number of a new version is greater than those of its family, and one more than
\* there are of them at most.
LEMMA NextVersionIs ==
  ASSUME ArtifactsTypeOK, FamiliesInv, NEW a \in ArtifactIds, artifact[a] # None
  PROVE  LET l == artifact[a].logical
         IN /\ l \in Present(artifact)
            /\ NextVersion(a) \in Nat \ {0} /\ NextVersion(a) <= Cardinality(Family(l)) + 1
            /\ \A b \in Family(l) : artifact[b].version < NextVersion(a)
<1> DEFINE l == artifact[a].logical   S == VersionsOf(l)   k == Cardinality(Family(l))
<1>1. a \in Present(artifact) /\ Present(artifact) \subseteq ArtifactIds
  BY DEF Present, ArtifactsTypeOK
<1>2. \A b \in Present(artifact) : artifact[b].version \in Nat /\ artifact[b].version >= 1
  <2> TAKE b \in Present(artifact)
  <2>1. artifact[b] \in ArtifactRows
    BY <1>1 DEF Present, ArtifactsTypeOK
  <2>2. Cardinality(Slots) \in Nat
    BY WorkspaceAssumption, FS_CardinalityType
  <2> QED
    BY <2>1, <2>2 DEF ArtifactRows, Versions
<1>3. Family(l) \subseteq ArtifactIds /\ k \in Nat
  BY <1>1, FamiliesAreFinite DEF Family
<1>4. S = {artifact[b].version : b \in Family(l)}
  BY DEF VersionsOf, Family
<1>5. S \in SUBSET Nat /\ S # {} /\ \A x \in S : x <= k /\ x >= 1
  BY <1>1, <1>2, <1>4 DEF Family, FamiliesInv
<1> HIDE DEF S, k
<1>6. PICK m \in S : \A n \in S : m >= n
  BY <1>3, <1>5, GreatestExists
<1>7. Max(S) \in S /\ \A n \in S : Max(S) >= n
  BY <1>6 DEF Max
<1>8. NextVersion(a) = Max(S) + 1
  BY DEF NextVersion, S
<1> DEFINE g == Max(S)
<1> HIDE DEF g
<1>9. g \in Nat /\ g <= k /\ g >= 1 /\ NextVersion(a) = g + 1 /\ \A n \in S : g >= n
  BY <1>5, <1>7, <1>8 DEF g
<1>10. \A b \in Family(l) : artifact[b].version < NextVersion(a)
  <2> TAKE b \in Family(l)
  <2> DEFINE x == artifact[b].version
  <2>1. x \in S /\ x \in Nat
    BY <1>4, <1>5
  <2> HIDE DEF x
  <2>2. x < g + 1
    BY <1>9, <2>1
  <2> QED
    BY <1>9, <2>2 DEF x
<1>12. NextVersion(a) \in Nat \ {0} /\ NextVersion(a) <= k + 1
  BY <1>3, <1>9
<1>11. l \in Present(artifact)
  BY <1>1 DEF FamiliesInv
<1> QED
  BY <1>10, <1>11, <1>12 DEF k

LEMMA ValidateFiles ==
  ASSUME RowsInv, RowsInv', FilesInv, NEW s \in Slots, Op(s) = "upload", Validate(s)
  PROVE  FilesInv'
<1>0. RequestInv /\ RowsHeld /\ TablesTyped /\ UploadHolds(s) /\ At(s, "validate") /\ Running(s)
  BY DEF RowsInv, FilesInv, Validate, At
<1>1. s \notin blob /\ artifact[s] = None
  BY <1>0 DEF UploadHolds, At, Running, Done, NextStep
<1> DEFINE a == asked[s]
           author == IF a.agent = None /\ By(s) # User THEN By(s) ELSE a.agent
           ok == /\ KnownActor(s) /\ author \in agents \cup {None}
                 /\ By(s) # User => author = By(s)
                 /\ a.parent # None => artifact[a.parent] # None
           old == artifact[a.parent]
           row == IF a.parent = None
                    THEN [logical |-> s, version |-> 1, agent |-> author, name |-> "given"]
                    ELSE [logical |-> old.logical, version |-> NextVersion(a.parent), name |-> "given",
                          agent |-> IF author = None THEN old.agent ELSE author]
<1>2. /\ UNCHANGED <<blob, artifact, copied>>
      /\ IF ok THEN Moves(s, [req[s] EXCEPT !.row = row]) /\ UNCHANGED staged
               ELSE Refuses(s) /\ staged' = staged \ {s}
  BY DEF Validate, Discarded
<1>3. CASE ok
  <2>1. /\ row \in NewRows
        /\ \/ row.logical = s /\ row.version = 1
           \/ /\ row.logical \in Present(artifact) /\ row.version <= Cardinality(Family(row.logical)) + 1
              /\ \A b \in Family(row.logical) : artifact[b].version < row.version
    <3>1. author \in AgentIds \cup {None} /\ s \in ArtifactIds
      BY <1>0, <1>3, ChatsAre DEF TablesTyped, ArtifactIds
    <3>2. CASE a.parent = None
      BY <3>1, <3>2 DEF NewRows
    <3>3. CASE a.parent # None
      <4>1. a.parent \in ArtifactIds
        BY <1>0, <3>3, AtStep DEF WellFormed, Op
      <4>2. ArtifactsTypeOK /\ FamiliesInv /\ old # None
        BY <1>3, <3>3 DEF FilesInv
      <4>3. old \in ArtifactRows
        BY <4>1, <4>2 DEF ArtifactsTypeOK
      <4> DEFINE n == NextVersion(a.parent)
      <4>4. /\ old.logical \in Present(artifact) /\ n \in Nat \ {0}
            /\ n <= Cardinality(Family(old.logical)) + 1
            /\ \A b \in Family(old.logical) : artifact[b].version < n
        BY <4>1, <4>2, NextVersionIs
      <4>5. old.logical \in ArtifactIds /\ old.agent \in AgentIds \cup {None}
        BY <4>3 DEF ArtifactRows
      <4> HIDE DEF n, old, author
      <4> DEFINE g == IF author = None THEN old.agent ELSE author
      <4>6. g \in AgentIds \cup {None}
        BY <3>1, <4>5
      <4> HIDE DEF g
      <4>7. row = [logical |-> old.logical, version |-> n, name |-> "given", agent |-> g]
        BY <3>3 DEF n, g
      <4> HIDE DEF row
      <4> QED
        BY <4>4, <4>5, <4>6, <4>7 DEF NewRows
    <3> QED
      BY <3>2, <3>3
  <2> HIDE DEF row, ok
  <2>2. Moves(s, [req[s] EXCEPT !.row = row]) /\ UNCHANGED staged
    BY <1>2, <1>3
  <2>3. GetsRow(s, row)
    BY <1>0, <2>2, MovesAre
  <2>4. /\ req'[s].row = row /\ UNCHANGED <<database, asked, before>>
        /\ \A u \in Slots : u # s => req'[u] = req[u]
    BY <1>0, <2>3, BecameIs DEF GetsRow
  <2>5. req'[s].left = Tail(req[s].left) /\ req'[s].state = "running" /\ Head(req'[s].left) = "move"
    BY <1>0, <2>2, MovesOn, UploadGoesOn
  <2>6. UploadHolds(s)'
    BY <1>0, <1>1, <1>2, <2>2, <2>4, <2>5 DEF UploadHolds, Uploads, Began, Begun, Done, At, Running, NextStep, Op
  <2>7. VersionHolds(s)'
    <3>1. UNCHANGED artifact
      BY <1>2
    <3> QED
      BY <2>1, <2>4, <3>1 DEF VersionHolds, Family, Present
  <2>8. Began(s)'
    BY <2>5 DEF Began
  <2> QED
    BY <1>0, <1>2, <2>2, <2>4, <2>6, <2>7, <2>8, UploadKeeps
<1>4. CASE ~ok
  <2> HIDE DEF row, ok
  <2>1. Refuses(s) /\ staged' = staged \ {s}
    BY <1>2, <1>4
  <2>2. Stops(s, "refused") /\ UNCHANGED <<database, asked, before>>
    BY <1>0, <2>1, RefusesStopsIt DEF Refuses
  <2>3. UploadHolds(s)' /\ VersionHolds(s)'
    BY <1>0, <1>1, <1>2, <2>1, <2>2, UploadStops DEF Stops
  <2>4. Began(s)'
    BY <2>2 DEF Stops, StopsIn, Began
  <2> QED
    BY <1>0, <1>2, <2>1, <2>2, <2>3, <2>4, UploadKeeps DEF Stops
<1> QED
  BY <1>3, <1>4

LEMMA MoveFiles ==
  ASSUME RowsInv, RowsInv', FilesInv, NEW s \in Slots, Op(s) = "upload", Move(s)
  PROVE  FilesInv'
<1>0. RequestInv /\ RowsHeld /\ UploadHolds(s) /\ VersionHolds(s) /\ At(s, "move") /\ Running(s)
  BY DEF RowsInv, FilesInv, Move, At
<1>1. artifact[s] = None /\ Uploads(s)
  <2>1. Uploads(s)
    BY <1>0 DEF Uploads, Began, Running
  <2> QED
    BY <1>0, <2>1 DEF UploadHolds, At, Running, Done, NextStep
<1>2. Moves(s, req[s]) /\ staged' = staged \ {s} /\ blob' = blob \cup {s} /\ UNCHANGED <<artifact, copied>>
  BY DEF Move
<1>3. req'[s].left = Tail(req[s].left) /\ req'[s].state = "running" /\ Head(req'[s].left) = "record"
      /\ req'[s].row = req[s].row
  BY <1>0, <1>2, MovesOn, UploadGoesOn
<1>4. UNCHANGED <<database, asked, before>> /\ \A u \in Slots : u # s => req'[u] = req[u]
  BY <1>2 DEF Moves, Goes, RowsInv, RequestInv
<1>5. UploadHolds(s)'
  BY <1>1, <1>2, <1>3, <1>4 DEF UploadHolds, Uploads, Began, Begun, Done, At, Running, NextStep, Op
<1>6. VersionHolds(s)'
  BY <1>0, <1>2, <1>3, <1>4 DEF VersionHolds, Family, Present
<1>7. Began(s)'
  BY <1>3 DEF Began
<1> QED
  BY <1>0, <1>2, <1>4, <1>5, <1>6, <1>7, UploadKeeps

LEMMA AnnounceFiles ==
  ASSUME RowsInv, RowsInv', FilesInv, NEW s \in Slots, Op(s) = "upload", Announce(s)
  PROVE  FilesInv'
<1>0. RequestInv /\ RowsHeld /\ UploadHolds(s) /\ At(s, "announce") /\ Running(s)
  BY DEF RowsInv, FilesInv, Announce, At
<1>1. s \notin staged /\ s \in blob /\ artifact[s] # None /\ Uploads(s)
  <2>1. Uploads(s) /\ Begun(s) /\ NextStep(s) = "announce"
    BY <1>0 DEF Uploads, Began, Running, Begun, NextStep, At
  <2> QED
    BY <1>0, <2>1 DEF UploadHolds
<1>2. Moves(s, req[s]) /\ UNCHANGED <<staged, blob, artifact, copied>>
  BY DEF Announce, artifactVars
<1>3. req'[s].state = "done"
  BY <1>0, <1>2, MovesOn, UploadGoesOn
<1>4. UNCHANGED <<database, asked, before>> /\ \A u \in Slots : u # s => req'[u] = req[u]
  BY <1>2 DEF Moves, Goes, RowsInv, RequestInv
<1>5. UploadHolds(s)' /\ VersionHolds(s)'
  BY <1>1, <1>2, <1>3, <1>4 DEF UploadHolds, VersionHolds, Uploads, Began, Begun, Done, At, Running, NextStep, Op
<1>6. Began(s)'
  BY <1>3 DEF Began
<1> QED
  BY <1>0, <1>2, <1>4, <1>5, <1>6, UploadKeeps

LEMMA RecordFiles ==
  ASSUME RowsInv, RowsInv', FilesInv, NEW s \in Slots, Op(s) = "upload", Record(s)
  PROVE  FilesInv'
<1> PICK row : row = req[s].row
  OBVIOUS
<1> DEFINE l == row.logical
<1>0. RequestInv /\ RowsHeld /\ UploadHolds(s) /\ VersionHolds(s) /\ At(s, "record") /\ Running(s)
  BY DEF RowsInv, FilesInv, Record, At
<1>1. s \notin staged /\ s \in blob /\ artifact[s] = None /\ Uploads(s)
  <2>1. Uploads(s) /\ NextStep(s) = "record" /\ ~Done(s)
    BY <1>0 DEF Uploads, Began, Running, NextStep, At, Done
  <2> QED
    BY <1>0, <2>1 DEF UploadHolds
<1>2. ArtifactsTypeOK /\ FamiliesInv /\ VersionsDiffer
      /\ \A u \in Slots : UploadHolds(u) /\ VersionHolds(u) /\ RenameHolds(u)
  BY DEF FilesInv
<1>3. CASE NumberIsTaken(s)
  <2>1. Refuses(s) /\ staged' = staged \ {s} /\ blob' = blob \ {s} /\ UNCHANGED <<artifact, copied>>
    BY <1>0, <1>3 DEF Record, TakesBack, Discarded, At
  <2>2. Stops(s, "refused") /\ UNCHANGED <<database, asked, before>>
    BY <1>0, <2>1, RefusesStopsIt DEF Refuses
  <2>3. UploadHolds(s)' /\ VersionHolds(s)'
    BY <1>0, <2>1, <2>2, UploadStops DEF Stops
  <2>4. Began(s)'
    BY <2>2 DEF Stops, StopsIn, Began
  <2> QED
    BY <1>0, <2>1, <2>2, <2>3, <2>4, UploadKeeps DEF Stops
<1>4. CASE ~NumberIsTaken(s)
  <2>1. Moves(s, req[s]) /\ artifact' = [artifact EXCEPT ![s] = row] /\ UNCHANGED <<staged, blob, copied>>
    BY <1>4 DEF Record
  <2>2. req'[s].left = Tail(req[s].left) /\ req'[s].state = "running" /\ Head(req'[s].left) = "announce"
    BY <1>0, <2>1, MovesOn, UploadGoesOn
  <2>3. UNCHANGED <<database, asked, before>> /\ (\A u \in Slots : u # s => req'[u] = req[u]) /\ Began(s)'
    BY <2>1, <2>2 DEF Moves, Goes, RowsInv, RequestInv, Began
  <2>4. /\ row \in NewRows
        /\ \/ l = s /\ row.version = 1
           \/ /\ l \in Present(artifact) /\ row.version <= Cardinality(Family(l)) + 1
              /\ \A b \in Family(l) : artifact[b].version < row.version \/ (b \in Slots /\ <<b, s>> \notin before)
    BY <1>0 DEF VersionHolds
  <2>5. /\ Present(artifact) \subseteq ArtifactIds /\ s \notin Present(artifact) /\ s \in ArtifactIds
        /\ IsFiniteSet(Slots) /\ Cardinality(Slots) \in Nat /\ Plan \notin Slots
    BY <1>1, <1>2, WorkspaceAssumption, FS_CardinalityType DEF Present, ArtifactsTypeOK, ArtifactIds
  <2>6. Family(l) \subseteq ArtifactIds \ {s} /\ Cardinality(Family(l)) \in Nat
        /\ Cardinality(Family(l)) <= Cardinality(Slots) /\ IsFiniteSet(Family(l))
    <3>1. Family(l) \subseteq ArtifactIds \ {s}
      BY <2>5 DEF Family
    <3>2. IsFiniteSet(Slots \ {s}) /\ Cardinality(Slots \ {s}) = Cardinality(Slots) - 1
      BY <2>5, FS_RemoveElement
    <3>3. /\ IsFiniteSet((Slots \ {s}) \cup {Plan})
          /\ Cardinality((Slots \ {s}) \cup {Plan}) = Cardinality(Slots \ {s}) + 1
      BY <2>5, <3>2, FS_AddElement
    <3>4. Family(l) \subseteq (Slots \ {s}) \cup {Plan}
      BY <3>1 DEF ArtifactIds
    <3>5. IsFiniteSet(Family(l)) /\ Cardinality(Family(l)) <= Cardinality((Slots \ {s}) \cup {Plan})
      BY <3>3, <3>4, FS_Subset
    <3>6. Cardinality(Family(l)) \in Nat
      BY <3>5, FS_CardinalityType
    <3> QED
      BY <2>5, <3>1, <3>2, <3>3, <3>5, <3>6
  <2>7. row \in ArtifactRows /\ row.version <= Cardinality(Family(l)) + 1 /\ row.version \in Nat
    <3>1. row.version \in Nat \ {0} /\ row.version <= Cardinality(Family(l)) + 1
      BY <2>4, <2>6 DEF NewRows
    <3>2. row.version \in Versions
      BY <2>5, <2>6, <3>1 DEF Versions
    <3> QED
      BY <2>4, <3>1, <3>2 DEF NewRows, ArtifactRows
  <2>8. row # None
    BY <2>7, WorkspaceAssumption
  <2>9. /\ artifact' \in [ArtifactIds -> ArtifactRows \cup {None}] /\ artifact'[s] = row
        /\ \A a \in ArtifactIds : a # s => artifact'[a] = artifact[a]
        /\ Present(artifact)' = Present(artifact) \cup {s}
    BY <1>2, <2>1, <2>5, <2>7, <2>8 DEF ArtifactsTypeOK, Present
  <2>10. \A k : Family(k)' = Family(k) \cup (IF k = l THEN {s} ELSE {})
    BY <2>5, <2>9 DEF Family
  <2>11. /\ Cardinality(Family(l)') = Cardinality(Family(l)) + 1
         /\ \A k : k # l => Family(k)' = Family(k)
    <3>1. s \notin Family(l) /\ Family(l)' = Family(l) \cup {s}
      BY <2>6, <2>10
    <3> QED
      BY <2>6, <2>10, <3>1, FS_AddElement
  <2>12. \A k : Cardinality(Family(k)) \in Nat /\ Cardinality(Family(k)') \in Nat
                /\ Cardinality(Family(k)) <= Cardinality(Family(k)')
    <3> TAKE k
    <3>1. Family(k) \subseteq ArtifactIds
      BY <2>5 DEF Family
    <3>2. Cardinality(Family(k)) \in Nat
      BY <3>1, FamiliesAreFinite
    <3> QED
      BY <2>11, <3>2
  <2>13. FamiliesInv'
    <3>1. Plan \in blob' /\ artifact'[Plan] # None
      <4>1. Plan \in ArtifactIds /\ Plan # s
        BY <2>5 DEF ArtifactIds
      <4> QED
        BY <1>2, <2>1, <2>9, <4>1 DEF FamiliesInv
    <3>2. ASSUME NEW a \in Present(artifact)', NEW k, k = artifact'[a].logical
          PROVE  k \in Present(artifact)' /\ artifact'[a].version <= Cardinality(Family(k)')
      <4>1. CASE a = s
        <5>1. k = l /\ l \in Present(artifact)'
          BY <2>4, <2>9, <3>2, <4>1
        <5> QED
          BY <2>7, <2>9, <2>11, <4>1, <5>1
      <4>2. CASE a # s
        <5>1. a \in Present(artifact) /\ a \in ArtifactIds /\ artifact'[a] = artifact[a]
          BY <2>5, <2>9, <4>2
        <5> DEFINE v == artifact[a].version
        <5>0. k = artifact[a].logical
          BY <3>2, <5>1
        <5>2. k \in Present(artifact) /\ v <= Cardinality(Family(k)) /\ v \in Nat
          <6>1. artifact[a] \in ArtifactRows
            BY <1>2, <5>1 DEF ArtifactsTypeOK, Present
          <6> QED
            BY <1>2, <2>5, <5>0, <5>1, <6>1 DEF FamiliesInv, ArtifactRows, Versions
        <5>3. v <= Cardinality(Family(k)')
          <6> HIDE DEF v
          <6>1. Cardinality(Family(k)) \in Nat /\ Cardinality(Family(k)') \in Nat
                /\ Cardinality(Family(k)) <= Cardinality(Family(k)')
            BY <2>12
          <6> QED
            BY <5>2, <6>1
        <5> QED
          BY <2>9, <5>1, <5>2, <5>3
      <4> QED
        BY <4>1, <4>2
    <3>3. ASSUME NEW a \in Present(artifact)'
          PROVE  (artifact[a].logical \in Present(artifact) /\ artifact[a].version <= Cardinality(Family(artifact[a].logical)))'
      <4>1. PICK k : k = artifact'[a].logical
        OBVIOUS
      <4>2. k \in Present(artifact)' /\ artifact'[a].version <= Cardinality(Family(k)')
        BY <3>2, <4>1
      <4> QED
        BY <4>1, <4>2 DEF Family
    <3> QED
      BY <3>1, <3>3 DEF FamiliesInv
  <2>14. UploadHolds(s)' /\ VersionHolds(s)' /\ RenameHolds(s)'
    BY <1>1, <2>1, <2>2, <2>3, <2>8, <2>9 DEF UploadHolds, VersionHolds, RenameHolds, Uploads, Began, Begun, Done, At, Running, NextStep, Op
  <2>15. ASSUME NEW u \in Slots, u # s PROVE UploadHolds(u)' /\ VersionHolds(u)' /\ RenameHolds(u)'
    <3>1. /\ req'[u] = req[u] /\ Op(u)' = Op(u) /\ artifact'[u] = artifact[u] /\ asked' = asked /\ before' = before
          /\ staged' = staged /\ blob' = blob
      BY <2>1, <2>3, <2>9, <2>15 DEF Op, ArtifactIds
    <3>2. UploadHolds(u)'
      BY <1>2, <3>1 DEF UploadHolds, Uploads, Began, Begun, Done, At, Running, NextStep
    <3>3. RenameHolds(u)'
      <4>1. RenameHolds(u)
        BY <1>2
      <4>2. asked[u].parent \in ArtifactIds /\ artifact[asked[u].parent] # None =>
               artifact'[asked[u].parent] = artifact[asked[u].parent]
        BY <1>1, <2>9
      <4> QED
        BY <3>1, <4>1, <4>2 DEF RenameHolds, At, Running
    <3>4. VersionHolds(u)'
      <4> PICK w, k : w = req[u].row /\ k = w.logical
        OBVIOUS
      <4> SUFFICES ASSUME At(u, "move") \/ At(u, "record")
                   PROVE  /\ w \in NewRows
                          /\ \/ k = u /\ w.version = 1
                             \/ /\ k \in Present(artifact)' /\ w.version <= Cardinality(Family(k)') + 1
                                /\ \A b \in Family(k)' :
                                      artifact'[b].version < w.version \/ (b \in Slots /\ <<b, u>> \notin before)
        BY <3>1 DEF VersionHolds, At, Running, Family
      <4>1. /\ w \in NewRows
            /\ \/ k = u /\ w.version = 1
               \/ /\ k \in Present(artifact) /\ w.version <= Cardinality(Family(k)) + 1
                  /\ \A b \in Family(k) : artifact[b].version < w.version \/ (b \in Slots /\ <<b, u>> \notin before)
        BY <1>2 DEF VersionHolds
      <4>2. CASE k = u /\ w.version = 1
        BY <4>1, <4>2
      <4>3. CASE ~(k = u /\ w.version = 1)
        <5>1. k \in Present(artifact)'
          BY <2>9, <4>1, <4>3
        <5>2. w.version <= Cardinality(Family(k)') + 1
          <6>1. w.version \in Nat
            BY <4>1 DEF NewRows
          <6>2. w.version <= Cardinality(Family(k)) + 1
            BY <4>1, <4>3
          <6> DEFINE v == w.version
          <6> HIDE DEF v
          <6>3. Cardinality(Family(k)) \in Nat /\ Cardinality(Family(k)') \in Nat
                /\ Cardinality(Family(k)) <= Cardinality(Family(k)')
            BY <2>12
          <6>4. v <= Cardinality(Family(k)') + 1
            BY <6>1, <6>2, <6>3 DEF v
          <6> QED
            BY <6>4 DEF v
        <5>3. ASSUME NEW b \in Family(k)'
              PROVE  artifact'[b].version < w.version \/ (b \in Slots /\ <<b, u>> \notin before)
          <6>1. CASE b = s
            <7>1. <<s, u>> \notin before
              BY <1>0 DEF RequestInv, Ended, Running
            <7> QED
              BY <6>1, <7>1
          <6>2. CASE b # s
            <7>1. b \in Family(k) /\ b \in ArtifactIds
              BY <2>5, <2>10, <6>2 DEF Family
            <7> QED
              BY <2>9, <4>1, <4>3, <6>2, <7>1
          <6> QED
            BY <6>1, <6>2
        <5> QED
          BY <4>1, <5>1, <5>2, <5>3
      <4> QED
        BY <4>2, <4>3
    <3> QED
      BY <3>2, <3>3, <3>4
  <2>16. ASSUME NEW b \in Present(artifact), artifact[b].logical = l, artifact[b].version = row.version
         PROVE  database = "memory" /\ b \in Slots /\ b # s /\ Crossed(s, b)
    <3>1. b \in Family(l) /\ b # s
      BY <1>1, <2>16 DEF Family, Present
    <3>2. l # s
      BY <1>2, <2>5, <2>16 DEF FamiliesInv
    <3>3. b \in Slots /\ <<b, s>> \notin before
      <4>1. artifact[b].version < row.version \/ (b \in Slots /\ <<b, s>> \notin before)
        BY <2>4, <3>1, <3>2
      <4> QED
        BY <2>7, <2>16, <4>1
    <3>4. database = "memory"
      <4>1. row.version \in VersionsOf(l)
        BY <2>16 DEF VersionsOf
      <4> QED
        BY <1>0, <1>4, <4>1 DEF NumberIsTaken, RequestInv
    <3>5. Began(b) /\ Began(s) /\ <<s, b>> \notin before
      <4>1. artifact[b] # None
        BY <2>16 DEF Present
      <4>2. Uploads(b)
        BY <1>2, <3>3, <4>1 DEF UploadHolds
      <4> QED
        BY <1>0, <4>2 DEF Uploads, RequestInv, Ended, Running, Began
    <3> QED
      BY <3>1, <3>3, <3>4, <3>5 DEF Crossed
  <2>17. \A t, u \in Slots : Crossed(t, u) => Crossed(t, u)' /\ Crossed(u, t)'
    <3>1. \A t \in Slots : Began(t) => Began(t)'
      BY <2>3 DEF Began
    <3> QED
      BY <2>3, <3>1 DEF Crossed
  <2>18. VersionsDiffer'
    <3> SUFFICES ASSUME NEW a \in Present(artifact)', NEW b \in Present(artifact)', a # b,
                        artifact'[a].logical = artifact'[b].logical, artifact'[a].version = artifact'[b].version
                 PROVE  database' = "memory" /\ {a, b} \subseteq Slots /\ Crossed(a, b)'
      BY DEF VersionsDiffer
    <3>1. \A c \in Present(artifact)' : c = s \/ (c \in Present(artifact) /\ artifact'[c] = artifact[c])
      BY <2>5, <2>9
    <3>2. CASE a = s
      <4>1. b \in Present(artifact) /\ artifact[b].logical = l /\ artifact[b].version = row.version
        BY <2>9, <3>1, <3>2
      <4>2. database = "memory" /\ b \in Slots /\ Crossed(s, b)
        BY <2>16, <4>1
      <4> QED
        BY <2>3, <2>17, <3>2, <4>2
    <3>3. CASE b = s
      <4>1. a \in Present(artifact) /\ artifact[a].logical = l /\ artifact[a].version = row.version
        BY <2>9, <3>1, <3>3
      <4>2. database = "memory" /\ a \in Slots /\ Crossed(s, a)
        BY <2>16, <4>1
      <4> QED
        BY <2>3, <2>17, <3>3, <4>2
    <3>4. CASE a # s /\ b # s
      <4>1. database = "memory" /\ {a, b} \subseteq Slots /\ Crossed(a, b)
        BY <1>2, <3>1, <3>4 DEF VersionsDiffer
      <4> QED
        BY <2>3, <2>17, <4>1
    <3> QED
      BY <3>2, <3>3, <3>4
  <2>19. ArtifactsTypeOK'
    BY <1>2, <2>1, <2>9 DEF ArtifactsTypeOK
  <2>20. \A u \in Slots : UploadHolds(u)' /\ VersionHolds(u)' /\ RenameHolds(u)'
    BY <2>14, <2>15
  <2> QED
    BY <2>13, <2>18, <2>19, <2>20 DEF FilesInv
<1> QED
  BY <1>3, <1>4

LEMMA UploadFiles ==
  ASSUME RowsInv, RowsInv', FilesInv, NEW s \in Slots, Handles(s), Op(s) = "upload"
  PROVE  FilesInv'
<1>1. Stage(s) \/ Validate(s) \/ Move(s) \/ Record(s) \/ Announce(s)
  <2>1. Head(req[s].left) \in StepsOf["upload"]
    BY StepsProceed, RunningIs DEF RowsInv
  <2>2. StepsOf["upload"] = {"stage", "validate", "move", "record", "announce"}
    BY DEF StepsOf
  <2> QED
    BY <2>1, <2>2, OnlySteps
<1> QED
  BY <1>1, StageFiles, ValidateFiles, MoveFiles, RecordFiles, AnnounceFiles

\* A request begins: it has no file and no row yet.
LEMMA ArriveFiles ==
  ASSUME RowsInv, RowsInv', FilesInv, NEW s \in Slots, Arrive(s)
  PROVE  FilesInv'
<1>0. RequestInv /\ RequestInv' /\ UploadHolds(s)
  BY DEF RowsInv, FilesInv
<1>1. /\ req[s].state = "waiting" /\ asked[s] # None /\ Op(s) \in Routes
      /\ \A u \in Slots : u # s => req'[u] = req[u]
      /\ Admitted(s) => req'[s].state = "running" /\ req'[s].left = Program(Op(s))
      /\ ~Admitted(s) => req'[s].state = "refused" /\ req'[s].left = <<"admission">>
  BY <1>0, ArriveIs
<1>2. /\ UNCHANGED <<staged, blob, artifact, copied, database, asked>>
      /\ before' = before \cup {<<t, s>> : t \in {u \in Slots : Ended(u)}}
  BY DEF Arrive, Arrives, artifactVars
<1>3. s \notin staged /\ s \notin blob /\ artifact[s] = None
  BY <1>0, <1>1 DEF UploadHolds, Uploads, Began
<1>4. SameRows
  BY <1>2 DEF SameRows, FilesInv, ArtifactsTypeOK
<1>5. But(s)
  <2>1. ~Began(s)
    BY <1>1 DEF Began
  <2> QED
    BY <1>1, <1>2, <2>1 DEF But
<1>6. ~At(s, "move")' /\ ~At(s, "record")' /\ ~At(s, "putArtifact")' /\ (Op(s) = "upload" => ~(Begun(s)' /\ NextStep(s)' = "announce"))
      /\ ~Done(s)' /\ Op(s)' = Op(s)
  <2>1. CASE Admitted(s)
    <3>1. Begins(Op(s), Head(Program(Op(s))))
      BY <1>1, ProgramsBegin
    <3>2. /\ Op(s) # "upload" => ~At(s, "move")' /\ ~At(s, "record")'
          /\ Op(s) # "rename" => ~At(s, "putArtifact")'
      BY <1>0, <1>2, OfFiles
    <3>3. Head(req'[s].left) = Head(Program(Op(s))) /\ req'[s].state = "running"
      BY <1>1, <2>1
    <3> DEFINE h == Head(Program(Op(s)))
    <3> HIDE DEF h
    <3>4. Begins(Op(s), h) /\ Head(req'[s].left) = h
      BY <3>1, <3>3 DEF h
    <3> QED
      BY <1>2, <3>2, <3>3, <3>4 DEF Begins, At, Running, Done, Begun, NextStep, Op
  <2>2. CASE ~Admitted(s)
    BY <1>1, <1>2, <2>2 DEF At, Running, Begun, Done, Op
  <2> QED
    BY <2>1, <2>2
<1>7. UploadHolds(s)' /\ VersionHolds(s)' /\ RenameHolds(s)'
  BY <1>2, <1>3, <1>6 DEF UploadHolds, VersionHolds, RenameHolds, Uploads
<1> QED
  BY <1>2, <1>4, <1>5, <1>7, FilesKept DEF FilesInv, FamiliesInv, ArtifactsTypeOK

\* What a step leaves half done is taken back when it fails.
LEMMA FailsFiles ==
  ASSUME RowsInv, FilesInv, NEW s \in Slots, Fails(s)
  PROVE  FilesInv'
<1>0. RequestInv /\ RowsHeld /\ UploadHolds(s)
  BY DEF RowsInv, FilesInv
<1>1. Stops(s, "refused") /\ Running(s)
  BY <1>0, FailsInv
<1>2. /\ UNCHANGED <<database, asked, before, artifact>>
      /\ staged' = staged \ {s} /\ blob' = IF At(s, "record") \/ At(s, "announce") THEN blob \ {s} ELSE blob
      /\ copied' = IF At(s, "attach") THEN [copied EXCEPT ![s] = {}] ELSE copied
  BY DEF Fails, Breaks, TakesBack, Discarded, Directory
<1>3. s \notin staged' /\ s \notin blob'
  <2>1. s \in blob => At(s, "record") \/ At(s, "announce")
    BY <1>0, <1>1 DEF UploadHolds, At, Running, Done, NextStep
  <2> QED
    BY <1>2, <2>1
<1>4. UploadHolds(s)' /\ VersionHolds(s)'
  BY <1>0, <1>1, <1>2, <1>3, UploadStops DEF Stops
<1>5. RenameHolds(s)' /\ Began(s)'
  BY <1>1 DEF Stops, StopsIn, RenameHolds, At, Running, Began
<1>6. SameRows
  BY <1>2 DEF SameRows, FilesInv, ArtifactsTypeOK
<1>7. But(s)
  <2>1. Began(s)
    BY <1>1 DEF Running, Began
  <2> QED
    BY <1>1, <1>2, <1>5, <2>1 DEF But, Stops
<1>8. staged' \subseteq Slots /\ blob' \subseteq ArtifactIds /\ copied' \in [Slots -> SUBSET ArtifactIds] /\ Plan \in blob'
  <2>1. Plan # s
    BY WorkspaceAssumption
  <2> QED
    BY <1>2, <2>1 DEF FilesInv, FamiliesInv, ArtifactsTypeOK
<1> QED
  BY <1>4, <1>5, <1>6, <1>7, <1>8, FilesKept

LEMMA RestartFiles ==
  ASSUME RowsInv, FilesInv, Restart
  PROVE  FilesInv'
<1>1. /\ UNCHANGED <<database, asked, before, staged, blob, artifact, copied>>
      /\ \A s \in Slots : IF Running(s) THEN StopsIn(s, "lost") ELSE req'[s] = req[s]
  BY RestartInv DEF RowsInv, Restart, artifactVars
<1>2. ASSUME NEW s \in Slots PROVE /\ UploadHolds(s)' /\ VersionHolds(s)' /\ RenameHolds(s)' /\ Began(s)' = Began(s)
  <2>1. UploadHolds(s) /\ VersionHolds(s) /\ RenameHolds(s)
    BY DEF FilesInv
  <2>2. CASE Running(s)
    <3>1. req[s].state = "running" /\ req'[s].state = "lost" /\ req'[s].left = req[s].left
      BY <1>1, <2>2 DEF StopsIn, Running
    <3> QED
      BY <1>1, <2>1, <3>1 DEF UploadHolds, VersionHolds, RenameHolds, Uploads, Began, Begun, Done, At, Running, NextStep, Op
  <2>3. CASE ~Running(s)
    <3>1. req'[s] = req[s]
      BY <1>1, <2>3
    <3> QED
      BY <1>1, <2>1, <2>3, <3>1
         DEF UploadHolds, VersionHolds, RenameHolds, Uploads, Began, Begun, Done, At, Running, NextStep, Op
  <2> QED
    BY <2>2, <2>3
<1>3. VersionsDiffer'
  <2>1. \A s, t \in Slots : Crossed(s, t)' = Crossed(s, t)
    BY <1>1, <1>2 DEF Crossed
  <2> QED
    BY <1>1, <2>1 DEF FilesInv, VersionsDiffer, Present
<1>4. ArtifactsTypeOK' /\ FamiliesInv'
  BY <1>1 DEF FilesInv, ArtifactsTypeOK, FamiliesInv, Family, Present
<1> QED
  BY <1>2, <1>3, <1>4 DEF FilesInv

LEMMA QuietStep ==
  ASSUME FilesInv, UNCHANGED <<requestVars, artifactVars>>
  PROVE  FilesInv'
<1>1. UNCHANGED <<database, asked, req, before, staged, blob, artifact, copied>>
  BY DEF requestVars, artifactVars
<1>2. \A s \in Slots : UploadHolds(s)' /\ VersionHolds(s)' /\ RenameHolds(s)'
  BY <1>1 DEF FilesInv, UploadHolds, VersionHolds, RenameHolds, Uploads, Began, Begun, Done, At, Running, NextStep, Op,
              Family, Present
<1>3. VersionsDiffer'
  BY <1>1 DEF FilesInv, VersionsDiffer, Crossed, Began, Present
<1>4. ArtifactsTypeOK' /\ FamiliesInv'
  BY <1>1 DEF FilesInv, ArtifactsTypeOK, FamiliesInv, Family, Present
<1> QED
  BY <1>2, <1>3, <1>4 DEF FilesInv

LEMMA StepFilesInv ==
  ASSUME RowsInv, RowsInv', FilesInv, [Next]_vars
  PROVE  FilesInv'
<1>1. ASSUME NEW s \in Slots, Handles(s) PROVE FilesInv'
  BY <1>1, QuietFiles, RenameFiles, UploadFiles
<1>2. CASE RunsEnd \/ UNCHANGED vars
  BY <1>2, QuietStep DEF RunsEnd, RunEnds, vars, requestVars
<1> QED
  BY <1>1, <1>2, ArriveFiles, FailsFiles, RestartFiles DEF Next

LEMMA InitFilesInv ==
  ASSUME Init
  PROVE  FilesInv
<1>1. /\ staged = {} /\ blob = {Plan} /\ req = [s \in Slots |-> Fresh] /\ copied = [s \in Slots |-> {}]
      /\ artifact = [a \in ArtifactIds |->
            IF a = Plan THEN [logical |-> Plan, version |-> 1, agent |-> None, name |-> "given"] ELSE None]
  BY DEF Init, RequestsInit, ArtifactsInit
<1>2. Plan \in ArtifactIds /\ Plan \notin Slots /\ 1 \in Versions
  <2>1. Cardinality(Slots) \in Nat
    BY WorkspaceAssumption, FS_CardinalityType
  <2> QED
    BY <2>1, WorkspaceAssumption DEF ArtifactIds, Versions
<1> DEFINE row == [logical |-> Plan, version |-> 1, agent |-> None, name |-> "given"]
<1>3. row \in ArtifactRows /\ row # None /\ row.logical = Plan /\ row.version = 1
  BY <1>2, WorkspaceAssumption DEF ArtifactRows
<1>4. artifact[Plan] = row /\ artifact \in [ArtifactIds -> ArtifactRows \cup {None}]
      /\ \A a \in ArtifactIds : a # Plan => artifact[a] = None
  <2> HIDE DEF row
  <2> QED
    BY <1>1, <1>2, <1>3 DEF row
<1> HIDE DEF row
<1>5. Present(artifact) = {Plan} /\ Family(Plan) = {Plan}
  BY <1>2, <1>3, <1>4 DEF Present, Family
<1>6. ArtifactsTypeOK
  BY <1>1, <1>2, <1>4 DEF ArtifactsTypeOK, ArtifactIds
<1>7. FamiliesInv
  <2>1. Cardinality({Plan}) = 1
    BY FS_Singleton
  <2> QED
    BY <1>1, <1>3, <1>4, <1>5, <2>1 DEF FamiliesInv
<1>8. ASSUME NEW s \in Slots PROVE UploadHolds(s) /\ VersionHolds(s) /\ RenameHolds(s)
  <2>1. req[s].state = "waiting" /\ artifact[s] = None /\ s \notin staged /\ s \notin blob
    BY <1>1, <1>2, <1>4 DEF Fresh, ArtifactIds
  <2> QED
    BY <2>1 DEF UploadHolds, VersionHolds, RenameHolds, Uploads, Began, At, Running
<1>9. VersionsDiffer
  BY <1>5 DEF VersionsDiffer
<1> QED
  BY <1>6, <1>7, <1>8, <1>9 DEF FilesInv

-----------------------------------------------------------------------------
(* Messages and what they carry.                                            *)

\* A message that is not sent yet is not stored, and what one with a key carries is in its
\* directory from the time it is about to be stored.
CarryHolds(s) ==
    /\ message[s] # None => Began(s)
    /\ message[s] # None /\ message[s].key # None =>
          Op(s) = "sendMessage" /\ message[s].attachments \subseteq copied[s]
    /\ Op(s) = "sendMessage" => /\ At(s, "address") \/ At(s, "attach") => message[s] = None
                                /\ At(s, "commit") => req[s].value \subseteq copied[s]
CarryInv == message = [s \in Slots |-> message[s]] /\ \A s \in Slots : CarryHolds(s)

\* What a step about conversations makes of the messages.
LEMMA MessagesAre ==
  ASSUME message = [m \in Slots |-> message[m]], NEW s \in Slots, ChatStep(s)
  PROVE  /\ message' = [m \in Slots |-> message'[m]]
         /\ \A m \in Slots : m # s => message'[m] \in {message[m], None}
         /\ \/ message'[s] \in {message[s], None}
            \/ At(s, "say") /\ message'[s].key = None
            \/ /\ At(s, "commit") /\ Moves(s, req[s])
               /\ message'[s].key = asked[s].key /\ message'[s].attachments = req[s].value
         /\ message' # message => At(s, "say") \/ At(s, "commit") \/ At(s, "detach") \/ At(s, "erase")
<1> DEFINE Goal == /\ message' = [m \in Slots |-> message'[m]]
                   /\ \A m \in Slots : m # s => message'[m] \in {message[m], None}
                   /\ \/ message'[s] \in {message[s], None}
                      \/ At(s, "say") /\ message'[s].key = None
                      \/ /\ At(s, "commit") /\ Moves(s, req[s])
                         /\ message'[s].key = asked[s].key /\ message'[s].attachments = req[s].value
                   /\ message' # message => At(s, "say") \/ At(s, "commit") \/ At(s, "detach") \/ At(s, "erase")
<1>1. UNCHANGED message => Goal
  OBVIOUS
<1>2. ASSUME NEW c, message' = MessagesWithout(c), At(s, "detach") \/ At(s, "erase") PROVE Goal
  BY <1>2 DEF MessagesWithout
<1>3. CASE Detach(s)
  <2>1. At(s, "detach")
    BY <1>3 DEF Detach
  <2>2. UNCHANGED message \/ \E c : message' = MessagesWithout(c)
    BY <1>3 DEF Detach
  <2> QED
    BY <1>1, <1>2, <2>1, <2>2
<1>4. CASE Erase(s)
  BY <1>2, <1>4 DEF Erase
<1>5. CASE Commit(s)
  <2>1. CASE UNCHANGED message
    BY <1>1, <2>1
  <2>2. CASE ~UNCHANGED message
    <3> DEFINE x == [chat |-> req[s].id, key |-> asked[s].key, attachments |-> req[s].value]
    <3>1. At(s, "commit") /\ Moves(s, req[s]) /\ message' = [message EXCEPT ![s] = x]
      BY <1>5, <2>2 DEF Commit, chatVars
    <3>2. x.key = asked[s].key /\ x.attachments = req[s].value
      OBVIOUS
    <3> HIDE DEF x
    <3> QED
      BY <3>1, <3>2
  <2> QED
    BY <2>1, <2>2
<1>6. CASE Say(s)
  <2> DEFINE x == [chat |-> req[s].id, key |-> None, attachments |-> None]
  <2>1. At(s, "say") /\ (UNCHANGED message \/ message' = [message EXCEPT ![s] = x])
    BY <1>6 DEF Say
  <2>2. x.key = None
    OBVIOUS
  <2> HIDE DEF x
  <2> QED
    BY <1>1, <2>1, <2>2
<1>7. CASE ~(Detach(s) \/ Erase(s) \/ Commit(s) \/ Say(s))
  <2>1. UNCHANGED message
    BY Zenon, <1>7 DEF ChatStep, Enlist, GetAgent, PutAgent, Survey, Dismiss, Look, Store, Get, Save, Check, Open, Interrupt,
                Address, Touch, Meet, GetTask, PutTask, AskHelp, NewTask, ReadHelp, chatVars
  <2> HIDE DEF Goal
  <2> QED
    BY Zenon, <1>1, <2>1
<1> QED
  BY <1>3, <1>4, <1>5, <1>6, <1>7

\* Nothing of the others changes but for messages that are deleted.
LEMMA OthersCarry ==
  ASSUME CarryInv, UNCHANGED asked, NEW s \in Slots,
         message' = [m \in Slots |-> message'[m]],
         \A u \in Slots : u # s => /\ req'[u] = req[u] /\ message'[u] \in {message[u], None}
                                   /\ copied'[u] = copied[u],
         CarryHolds(s)'
  PROVE  CarryInv'
<1>1. ASSUME NEW u \in Slots, u # s PROVE CarryHolds(u)'
  BY <1>1 DEF CarryInv, CarryHolds, Began, At, Running, Op
<1> QED
  BY <1>1 DEF CarryInv

LEMMA OnlySends ==
  ASSUME NEW s \in Slots, Handles(s), Head(req[s].left) \in {"address", "attach", "commit", "touch"}
  PROVE  /\ Address(s) \/ Attach(s) \/ Commit(s) \/ Touch(s)
         /\ Address(s) \/ Commit(s) \/ Touch(s) => UNCHANGED artifactVars
         /\ Attach(s) => UNCHANGED chatVars
<1>1. ~ConnectorStep(s)
  BY DEF ConnectorStep, Actor, Token, Verify, Existing, Keep, Add, Lookup, Send, Drop, Reads, At
<1>2. ~(ReadProfile(s) \/ PutProfile(s) \/ FindHome(s) \/ FirstRun(s) \/ Read(s))
  BY Zenon DEF ReadProfile, PutProfile, FindHome, FirstRun, Read, Reads, At
<1>3. ChatStep(s) => Address(s) \/ Commit(s) \/ Touch(s)
  BY Zenon DEF ChatStep, Enlist, GetAgent, PutAgent, Survey, Detach, Dismiss, Look, Store, Get, Save, Check, Erase, Open,
         Interrupt, Meet, GetTask, PutTask, Say, AskHelp, NewTask, ReadHelp, Reads, At
<1>4. ArtifactStep(s) => Attach(s)
  BY DEF ArtifactStep, Stage, Validate, Move, Record, Announce, GetArtifact, PutArtifact, Download, Reads, At
<1>5. /\ ChatStep(s) => Head(req[s].left) # "attach"
      /\ ArtifactStep(s) => Head(req[s].left) = "attach"
  BY <1>3, <1>4 DEF Address, Commit, Touch, Attach, Reads, At
<1>6. /\ Address(s) \/ Commit(s) \/ Touch(s) => Head(req[s].left) # "attach"
      /\ Attach(s) => Head(req[s].left) = "attach"
  BY DEF Address, Commit, Touch, Attach, Reads, At
<1> QED
  BY <1>1, <1>2, <1>3, <1>4, <1>5, <1>6 DEF Handles

\* The steps of a message, one after the other.
LEMMA SendGoesOn ==
  ASSUME RequestInv, RowsHeld, NEW s \in Slots, Op(s) = "sendMessage", NEW h, At(s, h)
  PROVE  LET l == Tail(req[s].left)
         IN /\ h \in {"address", "attach", "commit", "touch"}
            /\ l # <<>> => /\ Head(l) # "address"
                           /\ Head(l) = "attach" => h = "address"
                           /\ Head(l) = "commit" => h = "attach"
<1> DEFINE l == Tail(req[s].left)   n == Head(l)
<1>1. h \in StepsOf["sendMessage"] /\ (l # <<>> => Follows(h, n))
  BY AtStep
<1> HIDE DEF l, n
<1>2. StepsOf["sendMessage"] = {"address", "attach", "commit", "touch"}
  BY DEF StepsOf
<1>3. /\ h \in {"address", "attach", "commit", "touch"}
      /\ l # <<>> => n # "address" /\ (n = "attach" => h = "address") /\ (n = "commit" => h = "attach")
  BY <1>1, <1>2 DEF Follows
<1> QED
  BY <1>3 DEF l, n

\* A handler that stops where it is loses nothing of what it stored.
LEMMA StopsCarry ==
  ASSUME CarryInv, NEW s \in Slots, Stops(s, "refused"), UNCHANGED <<asked, message>>, Running(s),
         \A u \in Slots : u # s => copied'[u] = copied[u],
         copied'[s] = copied[s] \/ (At(s, "attach") /\ Op(s) = "sendMessage")
  PROVE  CarryInv'
<1>1. CarryHolds(s)'
  <2>1. ~Running(s)' /\ Began(s)' /\ Op(s)' = Op(s)
    BY DEF Stops, StopsIn, Running, Began, Op
  <2> QED
    BY <2>1 DEF CarryInv, CarryHolds, At
<1> QED
  BY <1>1, OthersCarry DEF Stops, CarryInv

LEMMA SendCarries ==
  ASSUME RowsInv, CarryInv, NEW s \in Slots, Handles(s), Op(s) = "sendMessage",
         copied \in [Slots -> SUBSET ArtifactIds]
  PROVE  CarryInv'
<1>0. RequestInv /\ RowsHeld /\ Running(s) /\ CarryHolds(s) /\ Op(s) = "sendMessage" /\ Began(s)
  BY StepsProceed DEF RowsInv, CarryInv, Running, Began
<1>1. Address(s) \/ Attach(s) \/ Commit(s) \/ Touch(s)
  <2>1. At(s, Head(req[s].left))
    BY <1>0 DEF At
  <2>2. Head(req[s].left) \in {"address", "attach", "commit", "touch"}
    BY <1>0, <2>1, SendGoesOn
  <2> QED
    BY <2>2, OnlySends
<1>2. Refuses(s) => Stops(s, "refused") /\ UNCHANGED asked
  BY <1>0, RefusesStopsIt DEF Refuses
<1>3. \A r : Goes(s, r) => UNCHANGED asked /\ \A u \in Slots : u # s => req'[u] = req[u]
  BY <1>0 DEF Goes, RequestInv
<1>4. CASE Address(s)
  <2>1. UNCHANGED <<message, copied>>
    BY <1>4, OnlySends DEF Address, chatVars, artifactVars, Reads, At
  <2>2. At(s, "address") /\ (Refuses(s) \/ \E x : Moves(s, [req[s] EXCEPT !.row = x]))
    BY <1>4 DEF Address, Reads
  <2>3. CASE Refuses(s)
    BY <1>0, <1>2, <2>1, <2>3, StopsCarry
  <2>4. CASE \E x : Moves(s, [req[s] EXCEPT !.row = x])
    <3>1. req'[s].left = Tail(req[s].left)
          /\ req'[s].state = IF Tail(req[s].left) = <<>> THEN "done" ELSE "running"
      BY <1>0, <2>4, MovesOn
    <3>2. ~At(s, "address")' /\ ~At(s, "commit")' /\ Began(s)'
      BY <1>0, <2>2, <3>1, SendGoesOn DEF At, Running, Began
    <3>3. UNCHANGED asked /\ \A u \in Slots : u # s => req'[u] = req[u]
      BY <1>3, <2>4 DEF Moves
    <3>4. CarryHolds(s)'
      BY <1>0, <2>1, <2>2, <3>2, <3>3 DEF CarryHolds, Op
    <3> QED
      BY <2>1, <3>3, <3>4, OthersCarry DEF CarryInv
  <2> QED
    BY <2>2, <2>3, <2>4
<1>5. CASE Attach(s)
  <2>1. At(s, "attach") /\ UNCHANGED message
    BY <1>5, OnlySends DEF Attach, At, chatVars
  <2>2. message[s] = None
    BY <1>0, <2>1 DEF CarryHolds
  <2>3. \A x : copied' = [copied EXCEPT ![s] = x] => \A u \in Slots : u # s => copied'[u] = copied[u]
    OBVIOUS
  <2>4. \/ Moves(s, [req[s] EXCEPT !.value = asked[s].attachments]) /\ asked[s].attachments \subseteq copied[s] /\ copied' = copied
        \/ Goes(s, req[s]) /\ \A u \in Slots : u # s => copied'[u] = copied[u]
        \/ Refuses(s) /\ \A u \in Slots : u # s => copied'[u] = copied[u]
    BY <1>5, <2>3 DEF Attach, Directory
  <2>5. CASE Moves(s, [req[s] EXCEPT !.value = asked[s].attachments]) /\ asked[s].attachments \subseteq copied[s]
             /\ copied' = copied
    <3> DEFINE x == asked[s].attachments   l == Tail(req[s].left)
    <3>1. GetsValue(s, x)
      BY <1>0, <2>5, MovesAre
    <3>2. l # <<>> => Head(l) # "address" /\ Head(l) # "attach"
      BY <1>0, <2>1, SendGoesOn
    <3>3. Becomes(s, req[s].id, req[s].row, req[s].agent, req[s].task, req[s].todo, x, l)
      BY <3>1 DEF GetsValue
    <3> HIDE DEF x, l
    <3>4. req'[s].value = x /\ req'[s].left = l /\ req'[s].state = IF l = <<>> THEN "done" ELSE "running"
      BY <1>0, <3>3, BecameIs
    <3>5. ~At(s, "address")' /\ ~At(s, "attach")' /\ Began(s)' /\ req'[s].value \subseteq copied'[s]
      BY <2>5, <3>2, <3>4 DEF At, Running, Began, x
    <3>6. UNCHANGED asked /\ \A u \in Slots : u # s => req'[u] = req[u]
      BY <1>3, <2>5 DEF Moves
    <3>7. CarryHolds(s)'
      BY <2>1, <2>2, <3>5 DEF CarryHolds
    <3> QED
      BY <2>1, <2>5, <3>6, <3>7, OthersCarry DEF CarryInv
  <2>6. CASE Goes(s, req[s]) /\ \A u \in Slots : u # s => copied'[u] = copied[u]
    <3>1. GoesWith(s, req[s].todo, req[s].left)
      BY Zenon, <1>0, <2>6, GoesAre
    <3>2. req'[s].left = req[s].left /\ req[s].left # <<>>
      BY <1>0, <3>1, BecameIs, RunningIs DEF GoesWith
    <3>3. req'[s].state = "running"
      BY <1>0, <3>1, <3>2, BecameIs DEF GoesWith
    <3>4. UNCHANGED asked /\ \A u \in Slots : u # s => req'[u] = req[u]
      BY <1>3, <2>6
    <3>5. CarryHolds(s)'
      BY <2>1, <2>2, <3>2, <3>3 DEF CarryHolds, At
    <3> QED
      BY Zenon, <2>1, <2>6, <3>4, <3>5, OthersCarry DEF CarryInv
  <2>7. CASE Refuses(s) /\ \A u \in Slots : u # s => copied'[u] = copied[u]
    BY <1>0, <1>2, <2>1, <2>7, StopsCarry
  <2> QED
    BY <2>4, <2>5, <2>6, <2>7
<1>6. CASE Commit(s)
  <2>1. At(s, "commit") /\ UNCHANGED copied
    BY <1>6, OnlySends DEF Commit, artifactVars, At
  <2>2. \/ Goes(s, [req[s] EXCEPT !.left = <<>>]) /\ UNCHANGED message
        \/ Refuses(s) /\ UNCHANGED message
        \/ Moves(s, req[s])
    BY <1>6 DEF Commit, chatVars
  <2>3. ChatStep(s)
    BY <1>6 DEF ChatStep
  <2>4. CASE Goes(s, [req[s] EXCEPT !.left = <<>>]) /\ UNCHANGED message
    <3>1. GoesWith(s, req[s].todo, <<>>)
      BY Zenon, <1>0, <2>4, GoesAre
    <3>2. req'[s].state = "done"
      BY <1>0, <3>1, BecameIs DEF GoesWith
    <3>3. UNCHANGED asked /\ \A u \in Slots : u # s => req'[u] = req[u]
      BY <1>3, <2>4
    <3>4. CarryHolds(s)'
      BY <1>0, <2>1, <2>4, <3>2, <3>3 DEF CarryHolds, At, Running, Began, Op
    <3> QED
      BY Zenon, <2>1, <2>4, <3>3, <3>4, OthersCarry DEF CarryInv
  <2>5. CASE Refuses(s) /\ UNCHANGED message
    BY <1>0, <1>2, <2>1, <2>5, StopsCarry
  <2>6. CASE Moves(s, req[s])
    <3>1. req'[s].left = Tail(req[s].left)
          /\ req'[s].state = IF Tail(req[s].left) = <<>> THEN "done" ELSE "running"
      BY <1>0, <2>6, MovesOn
    <3>2. ~At(s, "address")' /\ ~At(s, "attach")' /\ ~At(s, "commit")' /\ Began(s)'
      BY <1>0, <2>1, <3>1, SendGoesOn DEF At, Running, Began
    <3>3. UNCHANGED asked /\ \A u \in Slots : u # s => req'[u] = req[u]
      BY <1>3, <2>6 DEF Moves
    <3>4. /\ message' = [m \in Slots |-> message'[m]]
          /\ \A m \in Slots : m # s => message'[m] \in {message[m], None}
          /\ \/ message'[s] \in {message[s], None}
             \/ message'[s].key = None
             \/ message'[s].attachments = req[s].value
      BY <2>3, MessagesAre DEF CarryInv
    <3>5. CarryHolds(s)'
      BY <1>0, <2>1, <3>2, <3>3, <3>4 DEF CarryHolds, Op
    <3> QED
      BY <2>1, <3>3, <3>4, <3>5, OthersCarry
  <2> QED
    BY <2>2, <2>4, <2>5, <2>6
<1>7. CASE Touch(s)
  <2>1. At(s, "touch") /\ Moves(s, req[s]) /\ UNCHANGED <<message, copied>>
    BY <1>7, OnlySends DEF Touch, artifactVars, At
  <2>2. req'[s].left = Tail(req[s].left)
        /\ req'[s].state = IF Tail(req[s].left) = <<>> THEN "done" ELSE "running"
    BY <1>0, <2>1, MovesOn
  <2>3. ~At(s, "address")' /\ ~At(s, "attach")' /\ ~At(s, "commit")' /\ Began(s)'
    BY <1>0, <2>1, <2>2, SendGoesOn DEF At, Running, Began
  <2>4. UNCHANGED asked /\ \A u \in Slots : u # s => req'[u] = req[u]
    BY <1>3, <2>1 DEF Moves
  <2>5. CarryHolds(s)'
    BY <1>0, <2>1, <2>3, <2>4 DEF CarryHolds, Op
  <2> QED
    BY <2>1, <2>4, <2>5, OthersCarry DEF CarryInv
<1> QED
  BY <1>1, <1>4, <1>5, <1>6, <1>7

LEMMA OthersSteps ==
  ASSUME RowsInv, CarryInv, NEW s \in Slots, Handles(s), Op(s) # "sendMessage"
  PROVE  CarryInv'
<1>0. RequestInv /\ RowsHeld /\ TablesTyped /\ CarryHolds(s)
  BY DEF RowsInv, CarryInv
<1>1. Proceeds(s) /\ Running(s) /\ Began(s)
  BY <1>0, StepsProceed DEF Running, Began
<1>2. UNCHANGED asked /\ (\A u \in Slots : u # s => req'[u] = req[u]) /\ Began(s)' /\ Op(s)' = Op(s)
  BY <1>0, <1>1, ProceedsAlone DEF Op
<1>3. UNCHANGED copied
  <2>1. Head(req[s].left) # "attach"
    BY <1>0, <1>1, RunningIs, StepsAreOf
  <2>2. ArtifactStep(s) => UNCHANGED copied
    BY <2>1 DEF ArtifactStep, Stage, Validate, Move, Record, Announce, GetArtifact, PutArtifact, Download, Attach,
                TakesBack, At, artifactVars
  <2> QED
    BY <2>2 DEF Handles, artifactVars
<1>4. /\ message' = [m \in Slots |-> message'[m]]
      /\ \A m \in Slots : m # s => message'[m] \in {message[m], None}
      /\ message'[s] \in {message[s], None} \/ message'[s].key = None
  <2>1. CASE ChatStep(s)
    <3>1. asked[s].key = None
      BY <1>0, <1>1, RunningIs DEF WellFormed, Op
    <3> QED
      BY <2>1, <3>1, MessagesAre DEF CarryInv
  <2>2. CASE UNCHANGED chatVars
    BY <2>2 DEF chatVars, CarryInv
  <2> QED
    BY <2>1, <2>2 DEF Handles
<1>5. CarryHolds(s)'
  BY <1>0, <1>2, <1>3, <1>4 DEF CarryHolds
<1> QED
  BY <1>2, <1>3, <1>4, <1>5, OthersCarry

LEMMA StepCarryInv ==
  ASSUME RowsInv, RowsInv', FilesInv, CarryInv, [Next]_vars
  PROVE  CarryInv'
<1>0. RequestInv /\ RequestInv' /\ RowsHeld /\ copied \in [Slots -> SUBSET ArtifactIds]
  BY DEF RowsInv, FilesInv, ArtifactsTypeOK
<1>1. ASSUME NEW s \in Slots, Handles(s) PROVE CarryInv'
  BY <1>0, <1>1, SendCarries, OthersSteps
<1>2. ASSUME NEW s \in Slots, Arrive(s) PROVE CarryInv'
  <2>1. /\ req[s].state = "waiting" /\ asked[s] # None /\ Op(s) \in Routes
        /\ \A u \in Slots : u # s => req'[u] = req[u]
        /\ Admitted(s) => req'[s].state = "running" /\ req'[s].left = Program(Op(s))
        /\ ~Admitted(s) => req'[s].state = "refused" /\ req'[s].left = <<"admission">>
    BY <1>0, <1>2, ArriveIs
  <2>2. UNCHANGED <<copied, message, asked>>
    BY <1>2 DEF Arrive, Arrives, artifactVars, chatVars
  <2>3. message[s] = None
    BY <2>1 DEF CarryInv, CarryHolds, Began
  <2>4. Op(s) = "sendMessage" => ~At(s, "commit")'
    <3>1. Begins(Op(s), Head(Program(Op(s))))
      BY <2>1, ProgramsBegin
    <3>2. Op(s) = "sendMessage" => Head(Program(Op(s))) = "address"
      BY <3>1 DEF Begins
    <3> QED
      BY <2>1, <3>2 DEF At, Running
  <2>5. CarryHolds(s)'
    BY <2>2, <2>3, <2>4 DEF CarryHolds, Op
  <2> QED
    BY <2>1, <2>2, <2>5, OthersCarry DEF CarryInv
<1>3. ASSUME NEW s \in Slots, Fails(s) PROVE CarryInv'
  <2>1. Stops(s, "refused") /\ Running(s)
    BY <1>0, <1>3, FailsInv
  <2>2. UNCHANGED <<asked, message>> /\ copied' = IF At(s, "attach") THEN [copied EXCEPT ![s] = {}] ELSE copied
    BY <1>3 DEF Fails, Breaks, TakesBack, Directory, chatVars
  <2>3. At(s, "attach") => Op(s) = "sendMessage"
    BY <1>0, AtStep, StepsAreOf
  <2> QED
    BY <1>0, <2>1, <2>2, <2>3, StopsCarry
<1>4. CASE Restart
  <2>1. /\ UNCHANGED <<asked, message, copied>>
        /\ \A s \in Slots : IF Running(s) THEN StopsIn(s, "lost") ELSE req'[s] = req[s]
    BY <1>0, <1>4, RestartInv DEF Restart, artifactVars, chatVars
  <2>2. ASSUME NEW s \in Slots PROVE CarryHolds(s)'
    <3>1. (Began(s) => Began(s)') /\ (Running(s)' => req'[s] = req[s])
      BY <2>1 DEF StopsIn, Running, Began
    <3> QED
      BY <2>1, <3>1 DEF CarryInv, CarryHolds, At, Running, Op
  <2> QED
    BY <2>1, <2>2 DEF CarryInv
<1>5. CASE RunsEnd \/ UNCHANGED vars
  <2>1. UNCHANGED <<asked, req, message, copied>>
    BY <1>5 DEF RunsEnd, RunEnds, vars, requestVars, chatVars, artifactVars
  <2> QED
    BY <2>1 DEF CarryInv, CarryHolds, At, Running, Op, Began
<1> QED
  BY <1>1, <1>2, <1>3, <1>4, <1>5 DEF Next

LEMMA InitCarryInv ==
  ASSUME Init
  PROVE  CarryInv
<1>1. message = [s \in Slots |-> None] /\ req = [s \in Slots |-> Fresh]
  BY DEF Init, RequestsInit, ChatsInit
<1>2. \A s \in Slots : message[s] = None /\ req[s].state = "waiting"
  BY <1>1 DEF Fresh
<1> QED
  BY <1>1, <1>2 DEF CarryInv, CarryHolds, At, Running

-----------------------------------------------------------------------------
WorkspaceInv == RowsInv /\ FilesInv /\ CarryInv

LEMMA WorkspaceInvHolds ==
  Spec => []WorkspaceInv
<1>1. Init => WorkspaceInv
  BY InitRowsInv, InitFilesInv, InitCarryInv DEF WorkspaceInv
<1>2. WorkspaceInv /\ [Next]_vars => WorkspaceInv'
  BY StepRowsInv, StepFilesInv, StepCarryInv DEF WorkspaceInv
<1> QED
  BY <1>1, <1>2, PTL DEF Spec

\* Every table keeps its type, whatever is asked and however the handlers interleave: no
\* conversation loses its last member or gains one past the limit, no version is numbered
\* past the uploads there are, and a handler has a step to take for as long as it runs.
THEOREM WorkspaceTyped ==
  Spec => []TypeOK
<1>1. WorkspaceInv => TypeOK
  <2> SUFFICES ASSUME WorkspaceInv PROVE TypeOK
    OBVIOUS
  <2>1. RequestsTypeOK
    <3>1. ASSUME NEW s \in Slots
          PROVE  /\ req[s].state \in States
                 /\ req[s].left = <<>> <=> req[s].state \in {"waiting", "done"}
      <4>1. GoesItsWay(s)
        BY DEF WorkspaceInv, RowsInv, RequestInv
      <4>2. Running(s) => req[s].left # <<>>
        BY RunningIs DEF WorkspaceInv, RowsInv
      <4> QED
        BY <4>1, <4>2 DEF GoesItsWay, States, Fresh, Running, Done
    <3> QED
      BY <3>1 DEF RequestsTypeOK, WorkspaceInv, RowsInv, RequestInv
  <2> QED
    BY <2>1 DEF TypeOK, WorkspaceInv, RowsInv, FilesInv, TablesTyped
<1> QED
  BY <1>1, WorkspaceInvHolds, PTL

\* The file of a recorded artifact is there unless its announcement failed, a stored message
\* has in its directory what it carries, two versions have different numbers unless their
\* uploads crossed over the tables in memory, and an upload that ended leaves no file that
\* no row names: for any number of requests, errors and crashes.
THEOREM ArtifactsSound ==
  Spec => []ArtifactsAreSound
<1>1. WorkspaceInv => ArtifactsAreSound
  <2> SUFFICES ASSUME WorkspaceInv PROVE ArtifactsAreSound
    OBVIOUS
  <2>1. /\ \A s \in Slots : UploadHolds(s) /\ CarryHolds(s) /\ GoesItsWay(s)
        /\ artifact \in [ArtifactIds -> ArtifactRows \cup {None}] /\ Plan \in blob /\ VersionsDiffer
        /\ DOMAIN message = Slots
    BY DEF WorkspaceInv, RowsInv, RequestInv, FilesInv, FamiliesInv, ArtifactsTypeOK, CarryInv
  <2>2. RecordsHaveContent
    <3> SUFFICES ASSUME NEW a \in Present(artifact), a \notin blob
                 PROVE  a \in Slots /\ RefusedAt(a, "announce")
      BY DEF RecordsHaveContent
    <3>1. a \in Slots /\ artifact[a] # None
      BY <2>1 DEF Present, ArtifactIds
    <3>2. Uploads(a) /\ ~Done(a) /\ ~Begun(a) /\ NextStep(a) = "announce"
      BY <2>1, <3>1 DEF UploadHolds
    <3>3. req[a].state \in States
      BY <2>1, <3>1 DEF GoesItsWay
    <3> QED
      BY <3>1, <3>2, <3>3 DEF RefusedAt, Uploads, Began, Begun, Done, States, NextStep
  <2>3. AttachmentsAreThere
    BY <2>1 DEF AttachmentsAreThere, Present, CarryHolds, Directory
  <2>4. NothingIsLeft
    BY <2>1 DEF NothingIsLeft, UploadHolds, Begun, Done
  <2> QED
    BY <2>1, <2>2, <2>3, <2>4 DEF ArtifactsAreSound
<1> QED
  BY <1>1, WorkspaceInvHolds, PTL
=============================================================================
