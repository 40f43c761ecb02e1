----------------------------- MODULE AgentTools -----------------------------
(***************************************************************************)
(* The tools an agent has for its work with the team                        *)
(* (services/collaboration-mcp/src/server.ts): each turns its input into    *)
(* one request to the API, or two, in the name of the agent.  The functions *)
(* give the operation of the API a tool asks for; the tools for tasks,      *)
(* schedules and the computer ask for those of other modules.               *)
(***************************************************************************)
EXTENDS TLC

ProfileTools == [
    get_user_profile |-> "read",
    remember_user_info |-> "updateProfile"]

ConnectorTools == [
    list_connectors |-> "read",
    connect_connector |-> "connect",
    create_connector |-> "createConnector",
    connector_request |-> "useConnector",
    delete_connector |-> "disconnect",
    disconnect_connector |-> "disconnect"]

TeamTools == [
    list_agents |-> "read",
    inspect_agent |-> "read",
    create_agent |-> "createAgent",
    update_agent |-> "updateAgent",
    duplicate_agent |-> "duplicateAgent",
    delete_agent |-> "deleteAgent"]

MessageTools == [
    message_agent |-> "sendCollaborationMessage",
    request_agent_help |-> "requestAgentHelp",
    read_agent_help |-> "readAgentHelp"]

JobTools == [
    list_schedules |-> "read",
    create_schedule |-> "createSchedule"]

Tools == ProfileTools @@ ConnectorTools @@ TeamTools @@ MessageTools @@ JobTools
=============================================================================
