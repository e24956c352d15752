------------------------------ MODULE MCPushed ------------------------------
(***************************************************************************)
(* What the hub pushes to its clients: the feed, the status and the buffer *)
(* of the MCP server.  The three share no variable, so that each is run    *)
(* with the others at rest: a behaviour of all of them is one of each, and *)
(* no property speaks of two.                                              *)
(*                                                                         *)
(* Pages of one activity and a feed cut to two: a page is on its way while *)
(* the feed is cut, and every page but the last has one after it.  Two     *)
(* instants to a millisecond: a page can end within one, and two           *)
(* activities can have the same instant.  Two loads of the status overlap; *)
(* two days and two stamps give every order of reports.  A buffer for two  *)
(* messages and a limit of one per minute, with two calls and three        *)
(* messages of others.                                                     *)
(***************************************************************************)
EXTENDS ActivityFeed, StatusPanel, McpServer

VARIABLE part      \* which of the three is run

vars == <<part, feedVars, panelVars, mcpVars>>

Init ==
    /\ part \in {"feed", "panel", "mcp"}
    /\ FeedInit /\ PanelInit /\ McpInit
    /\ part # "feed" => at = [n \in 1..Stored |-> 0]

Next ==
    /\ UNCHANGED part
    /\ \/ part = "feed" /\ FeedNext /\ UNCHANGED <<panelVars, mcpVars>>
       \/ part = "panel" /\ PanelNext /\ UNCHANGED <<feedVars, mcpVars>>
       \/ part = "mcp" /\ McpNext /\ UNCHANGED <<feedVars, panelVars>>

\* The fairness of PanelFairSpec, where the panel is run, and that of McpFairSpec.
Fairness ==
    /\ WF_panelVars(part = "panel" /\ EmitsStatus)
    /\ \A l \in Loads : WF_panelVars(part = "panel" /\ LoadStep(l))
    /\ \A s \in Sends : WF_mcpVars(Answer(s)) /\ WF_mcpVars(TakeSent(s))

Spec == Init /\ [][Next]_vars /\ Fairness

\* PanelSettles (StatusPanel.tla), where the panel is run.
PanelRunSettles == part = "panel" => PanelSettles
=============================================================================
