----------------------- MODULE MCApprovalStateMachine -----------------------
(* Three calls to two tools; the four kinds of policy. *)
EXTENDS ApprovalStateMachine

CONSTANTS read_tool, write_tool

MCPolicies ==
  {[kind |-> "None"], [kind |-> "AcceptAll"], [kind |-> "DenyAll"],
   [kind |-> "Custom", rules |-> [n \in {read_tool} |-> "Approve"], default |-> "Ask"],
   [kind |-> "Custom", rules |-> [n \in {write_tool} |-> "Ask"], default |-> "Deny"]}

MCToolName == {read_tool, write_tool}
=============================================================================
