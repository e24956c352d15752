---------------------------- MODULE StatusPanel ----------------------------
(***************************************************************************)
(* The status of the agent and its model usage, from the tables of the hub *)
(* (server/index.ts) to the panel of a browser (client/src/App.tsx).  Both *)
(* are loaded every 30 seconds, whether or not the last load has come to   *)
(* its end, and the status is pushed as well.                              *)
(***************************************************************************)
EXTENDS Naturals, SequencesExt

CONSTANTS
    Days, Stamps,  \* usageDate and updatedAt of the reports on model usage
    Loads,         \* slots for GET /api/status in flight
    MaxUpdates,    \* bound: changes of the status, reports on the usage
    MaxBreaks      \* bound: lost links, failing requests

ASSUME PanelAssumption ==
    /\ Days \subseteq Nat \ {0} /\ Stamps \subseteq Nat \ {0}
    /\ MaxUpdates \in Nat /\ MaxBreaks \in Nat

VARIABLES
    status,        \* how often the status was set
    telling,       \* status-updates still to be emitted
    usage,         \* usage[d]: updatedAt of the snapshot stored for day d, or 0
    reported,      \* history: reported[d], the newest updatedAt reported for d
    panel,         \* what the status panel shows
    load,          \* load[l]: where the load in slot l stands, and what it has got
    joined,        \* the browser's socket is connected
    updates, breaks

reports == <<status, telling, usage, reported>>
panelBudget == <<updates, breaks>>
panelVars == <<reports, panel, load, joined, panelBudget>>

Nothing == [loaded |-> FALSE, status |-> 0, day |-> 0, stamp |-> 0]
Refused == [Nothing EXCEPT !.loaded = TRUE]   \* the body of an answer 500
NoLoad == [pc |-> "idle", got |-> Refused]

Snapshot == [loaded : BOOLEAN, status : 0..status, day : Days \cup {0}, stamp : Stamps \cup {0}]

\* A snapshot has a day exactly if it has a stamp.
Paired(s) == s.day = 0 <=> s.stamp = 0

PanelTypeOK ==
    /\ status \in Nat /\ telling \subseteq 1..status
    /\ usage \in [Days -> Stamps \cup {0}] /\ reported \in [Days -> Stamps \cup {0}]
    /\ panel \in Snapshot /\ Paired(panel)
    /\ load \in [Loads -> [pc : {"idle", "usage", "answer"}, got : Snapshot]]
    /\ \A l \in Loads : Paired(load[l].got)
    /\ joined \in BOOLEAN
    /\ updates \in 0..MaxUpdates /\ breaks \in 0..MaxBreaks

PanelInit ==
    /\ status = 1 /\ telling = {}
    /\ usage = [d \in Days |-> 0] /\ reported = usage
    /\ panel = Nothing /\ load = [l \in Loads |-> NoLoad]
    /\ joined = FALSE
    /\ updates = MaxUpdates /\ breaks = MaxBreaks

Change == updates > 0 /\ updates' = updates - 1 /\ UNCHANGED breaks
Break == breaks > 0 /\ breaks' = breaks - 1 /\ UNCHANGED updates

-----------------------------------------------------------------------------
(***************************************************************************)
(* PUT /api/service/status: one row, and an event after it.                *)
(***************************************************************************)
PutStatus ==
    /\ Change
    /\ status' = status + 1 /\ telling' = telling \cup {status'}
    /\ UNCHANGED <<usage, reported, panel, load, joined>>

\* Handlers emit in any order; a panel that has not been loaded ignores them.
EmitStatus(v) ==
    /\ v \in telling
    /\ telling' = telling \ {v}
    /\ panel' = IF joined /\ panel.loaded THEN [panel EXCEPT !.status = v] ELSE panel
    /\ UNCHANGED <<status, usage, reported, load, joined, panelBudget>>

(***************************************************************************)
(* PUT /api/service/model-usage: "older updates cannot overwrite newer     *)
(* snapshots".                                                             *)
(***************************************************************************)
Overwrite(d, s) == [usage EXCEPT ![d] = s]

Upsert(d, s) == IF s >= usage[d] THEN [usage EXCEPT ![d] = s] ELSE usage

PutUsage(d, s) ==
    /\ Change
    /\ usage' = Upsert(d, s)
    /\ reported' = [reported EXCEPT ![d] = Max({@, s})]
    /\ UNCHANGED <<status, telling, panel, load, joined>>

(***************************************************************************)
(* GET /api/status reads the status, then the usage of the latest day that *)
(* has one, and its answer replaces the panel.                             *)
(***************************************************************************)
ReadStatus(l) ==
    /\ load[l].pc = "idle"
    /\ load' = [load EXCEPT ![l].pc = "usage", ![l].got.status = status]
    /\ UNCHANGED <<reports, panel, joined, panelBudget>>

\* The day it is, whether or not it was reported on.
Today(u) == Max(Days \cup {0})

LatestDay(u) == Max({d \in Days : u[d] > 0} \cup {0})

ReadUsage(l) ==
    /\ load[l].pc = "usage"
    /\ LET d == LatestDay(usage) IN
       load' = [load EXCEPT ![l].pc = "answer", ![l].got.day = d,
                            ![l].got.stamp = IF d = 0 THEN 0 ELSE usage[d]]
    /\ UNCHANGED <<reports, panel, joined, panelBudget>>

TakeStatus(l) ==
    /\ load[l].pc = "answer"
    /\ panel' = load[l].got /\ load' = [load EXCEPT ![l] = NoLoad]
    /\ UNCHANGED <<reports, joined, panelBudget>>

\* The request fails, or is answered 500, and the panel takes that for the status.
LoseLoad(l) ==
    /\ load[l].pc # "idle" /\ Break
    /\ load' = [load EXCEPT ![l] = NoLoad] /\ panel' \in {panel, Refused}
    /\ UNCHANGED <<reports, joined>>

Join ==
    /\ ~joined /\ joined' = TRUE
    /\ UNCHANGED <<reports, panel, load, panelBudget>>

Part ==
    /\ joined /\ joined' = FALSE /\ Break
    /\ UNCHANGED <<reports, panel, load>>

-----------------------------------------------------------------------------
LoadStep(l) == ReadStatus(l) \/ ReadUsage(l) \/ TakeStatus(l)
EmitsStatus == \E v \in telling : EmitStatus(v)

PanelNext ==
    \/ PutStatus \/ (\E d \in Days, s \in Stamps : PutUsage(d, s)) \/ EmitsStatus
    \/ (\E l \in Loads : LoadStep(l) \/ LoseLoad(l)) \/ Join \/ Part

PanelSpec == PanelInit /\ [][PanelNext]_panelVars

(***************************************************************************)
(* The hub's handlers emit in the end, a load comes to its end, and the    *)
(* next one is started, also after one that failed.                        *)
(***************************************************************************)
PanelFairSpec ==
    PanelSpec /\ WF_panelVars(EmitsStatus) /\ \A l \in Loads : WF_panelVars(LoadStep(l))

-----------------------------------------------------------------------------
(***************************************************************************)
(* In the end the panel shows the status last set and, of the latest day,  *)
(* the newest snapshot reported, in whatever order reports, events and     *)
(* overlapping loads have arrived ("Keep latest update for each day",      *)
(* index.ts).                                                              *)
(***************************************************************************)
PanelSettles ==
    <>[](/\ panel.status = status
         /\ panel.day = LatestDay(reported)
         /\ panel.day # 0 => panel.stamp = reported[panel.day])
=============================================================================
