---------------------------- MODULE TokenClients ----------------------------
(***************************************************************************)
(* The clients of one account at one hub: the tabs of a browser with their *)
(* cookies, and the processes of a machine with their files.               *)
(***************************************************************************)
EXTENDS ScriptAuth, BrowserAuth

vars == <<hubVars, budget, scriptVars, browserVars>>

TypeOK == HubTypeOK /\ ScriptTypeOK /\ BrowserTypeOK

Init == HubInit /\ ScriptInit /\ BrowserInit

Next ==
    \/ ScriptNext /\ UNCHANGED browserVars
    \/ BrowserNext /\ UNCHANGED scriptVars

Spec == Init /\ [][Next]_vars

(***************************************************************************)
(* A process that is not killed goes on, requests are answered, and the    *)
(* clock passes the age at which a lock file is stale.  Nobody has to call *)
(* and nothing has to fail.                                                *)
(***************************************************************************)
Fairness ==
    /\ \A p \in Scripts : WF_vars(ScriptStep(p) /\ UNCHANGED browserVars)
    /\ \A p \in Plugins : WF_vars(PluginStep(p) /\ UNCHANGED browserVars)
    /\ \A t \in Tabs : WF_vars(BrowserStep(t) /\ UNCHANGED scriptVars)
    /\ WF_vars(OrphanAges /\ UNCHANGED browserVars)

FairSpec == Spec /\ Fairness
=============================================================================
