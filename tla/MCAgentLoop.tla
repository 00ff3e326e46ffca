----------------------------- MODULE MCAgentLoop -----------------------------
(* Two turns, two attempts, two hooks; answers with no call, one, two, the     *)
(* same id twice; policies that approve, deny, ask, and mix.                   *)
EXTENDS AgentLoop

CONSTANTS tc1, tc2, read_tool, write_tool

MCToolCallId == {tc1, tc2}

MCToolName == {read_tool, write_tool}

MCPolicies ==
  {[kind |-> "None"], [kind |-> "AcceptAll"], [kind |-> "DenyAll"],
   [kind |-> "Custom", rules |-> [n \in {read_tool} |-> "Approve"], default |-> "Ask"],
   [kind |-> "Custom", rules |-> [n \in {write_tool} |-> "Deny"], default |-> "Approve"]}

\* And the two configurations in which nothing is asked of the model.
MCConfigs ==
  [approval_policy : MCPolicies, max_turns : {2}, max_attempts : {2}]
  \cup {[approval_policy |-> [kind |-> "AcceptAll"], max_turns |-> t, max_attempts |-> 2 - t] : t \in {0, 2}}

MCCall(i, n) == [id |-> i, name |-> n]

MCProposals ==
  {<<>>,
   <<MCCall(tc1, read_tool)>>,
   <<MCCall(tc1, read_tool), MCCall(tc2, write_tool)>>,
   <<MCCall(tc2, write_tool), MCCall(tc1, read_tool)>>,
   <<MCCall(tc1, read_tool), MCCall(tc1, write_tool)>>}

\* Nothing, or enough to pass the threshold; two of the latter saturate.
MCUsages == {0, 2}
=============================================================================
