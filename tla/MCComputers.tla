---------------------------- MODULE MCComputers ----------------------------
EXTENDS Computers

CONSTANTS r1, r2, r3

Asked(a, b, c) == (r1 :> a) @@ (r2 :> b) @@ (r3 :> c)

\* Two requests that may each need a computer; the user who takes over, next to an agent
\* and to a refresh; the user who takes over and acts or returns control.
AgentsAndUser == {Asked({"agentActs"}, {"agentActs", "create", "remove"}, {}),
                  Asked({"takeover"}, {"list"}, {"agentExecs"}),
                  Asked({"takeover"}, {"userExecs", "userActs", "agentActs", "return"}, {})}

\* An agent, and the user who takes over.
AgentAndTakeover == {Asked({"agentActs"}, {"takeover"}, {})}
=============================================================================
