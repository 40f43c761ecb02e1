----------------------------- MODULE MCWorkspace -----------------------------
(* Mixes of two or three requests, and cron expressions over a small calendar. *)
EXTENDS Workspace

CONSTANTS r1, r2, r3, a1, a2, x, y, name, phone, pin

TwoAgents == {a1, a2}
ThreeFields == {name, phone, pin}

Blank == [op |-> "read", tool |-> None, by |-> User, agent |-> None, chat |-> None,
          kind |-> "group", members |-> {}, task |-> None, key |-> None, attachments |-> {},
          parent |-> None, connector |-> Firebase, secret |-> None, url |-> "public", adds |-> {}, removes |-> {},
          cron |-> None, now |-> 0]
Asks(o) == [Blank EXCEPT !.op = o]
Calls(a, t) == [Blank EXCEPT !.by = a, !.tool = t]

Mix(p, q, r) == [s \in Slots |-> CASE s = r1 -> p [] s = r2 -> q [] s = r3 -> r]

Message(a, c, k) == [Asks("sendMessage") EXCEPT !.agent = a, !.chat = c, !.key = k]
Carry(k) == [Message(a1, a1, k) EXCEPT !.attachments = {Plan}]
CreateChat(a) == [Asks("createConversation") EXCEPT !.kind = "direct", !.members = {a}]
ClearChat(a) == [Asks("clearConversation") EXCEPT !.chat = a]
DeleteChat(c) == [Asks("deleteConversation") EXCEPT !.chat = c]
Change(c, m) == [Asks("updateConversation") EXCEPT !.chat = c, !.members = m]
DeleteAgent(a) == [Asks("deleteAgent") EXCEPT !.agent = a]
Help(a, b) == [Calls(a, "request_agent_help") EXCEPT !.agent = b, !.task = Work]
Tell(a, b) == [Calls(a, "message_agent") EXCEPT !.agent = b, !.task = Work]

ChatMixes == {
    Mix(Message(a1, a1, r1), ClearChat(a1), CreateChat(a1)),
    Mix(Message(a1, Group, r1), Change(Group, {a2}), DeleteAgent(a2)),
    Mix(Message(a1, a1, r1), DeleteChat(a1), CreateChat(a1)),
    Mix(Help(a1, a2), [Calls(a2, "read_agent_help") EXCEPT !.task = r1],
        [Calls(a1, "delete_agent") EXCEPT !.agent = a2]),
    Mix(Tell(a1, a2), Tell(a2, a1), DeleteAgent(a1)),
    Mix(Tell(a1, a2), DeleteChat(r1), Tell(a2, a1)),
    Mix(Message(a1, a1, r1), ClearChat(a1), DeleteAgent(a1)),
    Mix([Calls(a1, "duplicate_agent") EXCEPT !.agent = a2], [Calls(a1, "update_agent") EXCEPT !.agent = a2],
        DeleteAgent(a2)),
    Mix(Calls(a1, "create_agent"), Change(Group, {a1, r1}), DeleteAgent(r1)),
    Mix(Message(a1, a1, r1), Change(a2, {a1}), CreateChat(a2)),
    Mix(Tell(User, a2), Calls(a1, "list_agents"), [ClearChat(a2) EXCEPT !.by = a1])}

Upload(p, by) == [Asks("upload") EXCEPT !.parent = p, !.by = by]
ArtifactMixes == {
    Mix(Upload(Plan, User), Upload(Plan, a1), Upload(Plan, User)),
    Mix(Upload(None, User), Upload(r1, a1), [Asks("download") EXCEPT !.parent = r2]),
    Mix(Carry(r1), Carry(r1), [Asks("rename") EXCEPT !.parent = Plan]),
    Mix(Upload(None, User), [Asks("rename") EXCEPT !.parent = r1], Upload(r1, User)),
    Mix(Upload(None, User), [Carry(r2) EXCEPT !.attachments = {Plan, r1}], Carry(r2))}

Connect(s) == [Asks("connect") EXCEPT !.secret = s]
Disconnect == Calls(a1, "disconnect_connector")
Uses == Calls(a2, "connector_request")
ConnectorMixes == {
    Mix(Connect(y), Disconnect, Uses),
    Mix([Calls(a1, "connect_connector") EXCEPT !.secret = y], Asks("disconnect"), DeleteAgent(a1)),
    Mix([Calls(a1, "create_connector") EXCEPT !.secret = y, !.url = "local"],
        [Calls(a2, "connector_request") EXCEPT !.url = "outside"], Calls(a1, "list_connectors")),
    Mix([Calls(a1, "create_connector") EXCEPT !.secret = y, !.connector = r1],
        [Uses EXCEPT !.connector = r1], [Disconnect EXCEPT !.connector = r1])}

Remember(f) == [Calls(a1, "remember_user_info") EXCEPT !.adds = f]
ProfileMixes == {
    Mix(Remember({name}), Remember({phone}), [Asks("updateProfile") EXCEPT !.removes = {name}]),
    Mix(Remember({name, pin}), Remember({name, phone}), Remember({phone}))}

(* A month of three days, a day of two hours, an hour of two minutes; the second hour of
   the second day is shown twice, as when summer time ends. *)
SmallBounds == [minute |-> <<0, 1>>, hour |-> <<0, 1>>, day |-> <<1, 3>>, month |-> <<1, 2>>,
                weekday |-> <<0, 7>>]
Shown(m) == IF m < 8 THEN m ELSE m - 2
SmallCalendar == [m \in 0..100 |->
    LET n == Shown(m)   d == n \div 4
    IN [minute |-> n % 2, hour |-> (n \div 2) % 2, day |-> 1 + (d % 3), month |-> 1 + ((d \div 3) % 2),
        weekday |-> d % 7]]

One(base, step) == <<[base |-> base, step |-> step]>>
Every == One(Star, 0)
EveryOther == One(Star, 2)
MinuteFields == {Every, One(<<1>>, 0), One(<<0>>, 2), One(Star, 3)}
DayFields == {Every, EveryOther, One(<<2>>, 0), One(<<1, 2>>, 0), One(<<2, 1>>, 0)}
WeekdayFields == {Every, EveryOther, One(<<5, 7>>, 0), One(<<1>>, 2), One(<<3>>, 0) \o One(<<7>>, 0)}
MonthFields == {Every, One(<<2>>, 0)}
Schedule(e, now) == [Calls(a1, "create_schedule") EXCEPT !.agent = a1, !.cron = e, !.now = now]
CronMixes(days, weekdays) ==
    {Mix(Schedule([minute |-> m, hour |-> Every, day |-> d, month |-> n, weekday |-> w], now), None, None) :
        m \in MinuteFields, d \in days, n \in MonthFields, w \in weekdays, now \in {3, 6}}

\* An agent's schedule in its direct conversation, the user's in a named one.
HomeMixes ==
    LET daily == [minute |-> One(<<0>>, 0), hour |-> Every, day |-> Every, month |-> Every, weekday |-> Every]
    IN {Mix(Schedule(daily, 3), [Asks("createSchedule") EXCEPT !.agent = a2, !.chat = Group, !.cron = daily],
            DeleteChat(a1))}

AllMixes == ChatMixes \cup HomeMixes \cup ArtifactMixes \cup ConnectorMixes \cup ProfileMixes
                \cup CronMixes(DayFields, WeekdayFields)
SteppedDays == CronMixes({EveryOther}, {Every})
=============================================================================
