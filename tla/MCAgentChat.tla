---------------------------- MODULE MCAgentChat ----------------------------
(* The instance of AgentChat that TLC checks. *)
EXTENDS AgentChat
=============================================================================
