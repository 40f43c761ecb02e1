----------------------------- MODULE Connectors -----------------------------
(***************************************************************************)
(* Connectors (services/api/src/connectors): credentials of services, kept  *)
(* encrypted in one row per provider or per connector an agent or the user  *)
(* makes, and put into the requests that are sent through them.             *)
(***************************************************************************)
EXTENDS Conversations

CONSTANTS Firebase,  \* a built-in provider, connected at first
          Secrets,   \* credentials
          Old        \* the one it is connected with

ASSUME ProviderAssumption == Firebase \notin Slots

VARIABLES
    connector,   \* the connector rows
    verified     \* the credentials a provider has accepted

connectorVars == <<connector, verified>>

ConnectorIds == {Firebase} \cup Slots
ConnectorRows == [secret : Secrets, label : Secrets, by : AgentIds \cup {User}]

ConnectorsTypeOK ==
    /\ connector \in [ConnectorIds -> ConnectorRows \cup {None}]
    /\ verified \subseteq Secrets

ConnectorsInit ==
    /\ connector = [c \in ConnectorIds |->
          IF c = Firebase THEN [secret |-> Old, label |-> Old, by |-> User] ELSE None]
    /\ verified = {Old}

ConnectorProgram == [
    connect |-> <<"actor", "token", "verify", "existing", "keep">>,
    createConnector |-> <<"actor", "add">>,
    useConnector |-> <<"actor", "lookup", "token", "send">>,
    disconnect |-> <<"actor", "lookup", "drop">>]

Actor(s) ==
    /\ Reads(s, "actor", KnownActor(s), req[s])
    /\ UNCHANGED connectorVars

\* firebaseAccessToken: Firebase is asked for an access token first, and may refuse; what
\* is sent to other services is the credential itself.
ForFirebase(s) == asked[s].connector = Firebase
Token(s) ==
    /\ At(s, "token")
    /\ Moves(s, req[s]) \/ (ForFirebase(s) /\ Refuses(s))
    /\ UNCHANGED connectorVars

\* The provider accepts the credential and names its account, or the handler throws.
Verify(s) ==
    /\ At(s, "verify")
    /\ \/ Moves(s, req[s]) /\ verified' = verified \cup {asked[s].secret}
       \/ Refuses(s) /\ UNCHANGED verified
    /\ UNCHANGED connector

\* A connection that exists keeps who made it.
Existing(s) ==
    /\ At(s, "existing") /\ Moves(s, [req[s] EXCEPT !.row = connector[Firebase]])
    /\ UNCHANGED connectorVars

\* The row that is stored, over the one that was read.
OldCredential(s) == IF req[s].row # None THEN req[s].row.secret ELSE asked[s].secret
Credential(s) == asked[s].secret
Kept(s) == [secret |-> Credential(s), label |-> asked[s].secret,
            by |-> IF req[s].row = None THEN By(s) ELSE req[s].row.by]

Keep(s) ==
    /\ At(s, "keep") /\ Moves(s, req[s])
    /\ connector' = [connector EXCEPT ![Firebase] = Kept(s)]
    /\ UNCHANGED verified

\* normalizeBaseUrl: only a public host over HTTPS.
PublicHost(s) == asked[s].url = "public"

\* createCustom: a connector of its own, whose credential no provider verifies.
Add(s) ==
    /\ At(s, "add")
    /\ IF PublicHost(s)
         THEN /\ Moves(s, req[s])
              /\ connector' = [connector EXCEPT ![s] =
                    [secret |-> asked[s].secret, label |-> asked[s].secret, by |-> By(s)]]
         ELSE Refuses(s) /\ UNCHANGED connector
    /\ UNCHANGED verified

\* record: by its id, or by its provider.
Lookup(s) ==
    LET c == asked[s].connector
    IN /\ Reads(s, "lookup", connector[c] # None, [req[s] EXCEPT !.row = connector[c]])
       /\ UNCHANGED connectorVars

\* The request is sent with the credential of the row that was read, to a path under the
\* connector's address.
UnderBase(s) == asked[s].url # "outside"
Send(s) ==
    /\ Reads(s, "send", UnderBase(s), [req[s] EXCEPT !.value = req[s].row.secret])
    /\ UNCHANGED connectorVars

Drop(s) ==
    /\ At(s, "drop") /\ Moves(s, req[s])
    /\ connector' = [connector EXCEPT ![asked[s].connector] = None]
    /\ UNCHANGED verified

ConnectorStep(s) ==
    Actor(s) \/ Token(s) \/ Verify(s) \/ Existing(s) \/ Keep(s) \/ Add(s) \/ Lookup(s) \/ Send(s) \/ Drop(s)
=============================================================================
