----------------------------- MODULE MCClients -----------------------------
(* Small instances of Clients for TLC. *)
EXTENDS Clients

CONSTANTS e1, e2

OneEmitter == {e1}
TwoEmitters == {e1, e2}
AllApps == {"desktop", "web", "native"}
=============================================================================
