--------------------------- MODULE MCCodexBridge ---------------------------
(* Small instances of CodexBridge for TLC. *)
EXTENDS CodexBridge

CONSTANTS x1, x2

TwoExecutions == {x1, x2}
=============================================================================
