------------------------- MODULE TokenClientsProofs -------------------------
(***************************************************************************)
(* Theorems about TokenClients for any number of scripts, plugins, tabs    *)
(* and calls.  Beyond the types the inductive invariant says who holds the *)
(* lock, that what the files and the lock's holder have was not exchanged  *)
(* before, that no pair of the browser is also one of the machine's, and   *)
(* that while tabs refresh one at a time the cookie can be exchanged or is *)
(* about to be replaced.                                                   *)
(***************************************************************************)
EXTENDS TokenClients, TLAPS

-----------------------------------------------------------------------------
(***************************************************************************)
(* What a step at the hub does to the numbers: nothing, or one new pair.   *)
(***************************************************************************)
HubStep == HubTypeOK' /\ issued \in Nat /\ issued' \in {issued, issued + 1}

LEMMA HubStays ==
    ASSUME HubTypeOK, UNCHANGED hubVars, UNCHANGED budget \/ CountCall \/ CountFault
    PROVE  HubStep
  BY BoundAssumption DEF HubTypeOK, HubStep, hubVars, budget, CountCall, CountFault

LEMMA HubIssues ==
    ASSUME HubTypeOK, Issue, UNCHANGED budget \/ CountCall
    PROVE  HubStep /\ issued' = issued + 1
  BY BoundAssumption DEF HubTypeOK, HubStep, Issue, budget, CountCall

LEMMA HubExchanges ==
    ASSUME HubTypeOK, NEW n, Exchange(n), UNCHANGED budget
    PROVE  HubStep /\ issued' = issued + 1
  BY BoundAssumption DEF HubTypeOK, HubStep, Exchange, budget

LEMMA HubExpires ==
    ASSUME HubTypeOK, NEW n, ExpireAccess(n)
    PROVE  HubStep /\ issued' = issued
  BY BoundAssumption DEF HubTypeOK, HubStep, ExpireAccess, CountFault

LEMMA HubRevokes ==
    ASSUME HubTypeOK, RevokeAll
    PROVE  HubStep /\ issued' = issued
  BY BoundAssumption DEF HubTypeOK, HubStep, RevokeAll, CountFault

LEMMA ScriptSame ==
    ASSUME ScriptTypeOK, HubStep, UNCHANGED scriptVars PROVE ScriptTypeOK'
<1>1. \A n \in 0..issued : n \in 0..issued'
  BY DEF HubStep
<1>2. held \in [Procs -> 0..issued]
  BY DEF ScriptTypeOK
<1>3. held \in [Procs -> 0..issued']
  BY <1>1, <1>2
<1> QED
  BY <1>1, <1>3 DEF ScriptTypeOK, scriptVars

LEMMA BrowserSame ==
    ASSUME BrowserTypeOK, HubStep, UNCHANGED browserVars PROVE BrowserTypeOK'
<1>1. \A n \in 0..issued : n \in 0..issued'
  BY DEF HubStep
<1>2. fetch \in [Tabs -> [Fetches -> [pc : {"idle"} \cup Calling, n : 0..issued']]]
  BY <1>1 DEF BrowserTypeOK
<1>3. promise \in [Tabs -> [pc : {"none", "posted", "answered"}, n : 0..issued']]
  BY <1>1 DEF BrowserTypeOK
<1>4. jar \in [auth : 0..issued', refresh : 0..issued', csrf : BOOLEAN]
  BY <1>1 DEF BrowserTypeOK
<1> QED
  BY <1>2, <1>3, <1>4 DEF BrowserTypeOK, browserVars

-----------------------------------------------------------------------------
(***************************************************************************)
(* Types of the machine's variables.                                       *)
(***************************************************************************)
PcType ==
    /\ pc \in [Procs -> {"idle"} \cup Waiting \cup Inside \cup Plugged]
    /\ \A p \in Scripts : pc[p] \notin Plugged
    /\ \A p \in Plugins : pc[p] \in {"idle"} \cup Plugged

HeldType == held \in [Procs -> 0..issued]
SkipType == skip \in [Procs -> BOOLEAN]

LEMMA ScriptGoto ==
    ASSUME PcType, NEW p \in Scripts, NEW there \in {"idle"} \cup Waiting \cup Inside, Goto(p, there)
    PROVE  PcType'
  BY ProcessAssumption DEF PcType, Goto, Waiting, Inside, Plugged, Procs

LEMMA PluginGoto ==
    ASSUME PcType, NEW p \in Plugins, NEW there \in {"idle"} \cup Plugged, Goto(p, there)
    PROVE  PcType'
  BY ProcessAssumption DEF PcType, Goto, Waiting, Inside, Plugged, Procs

LEMMA IdleGoto ==
    ASSUME PcType, NEW p \in Procs, Goto(p, "idle")
    PROVE  PcType'
  BY ScriptGoto, PluginGoto DEF Procs

LEMMA HoldType ==
    ASSUME HeldType, HubStep, NEW p \in Procs, NEW n \in 0..issued', Hold(p, n)
    PROVE  HeldType'
  BY DEF HeldType, HubStep, Hold

LEMMA KeepHeld ==
    ASSUME HeldType, HubStep, held' = held
    PROVE  HeldType'
  BY DEF HeldType, HubStep

LEMMA LeaveTypes ==
    ASSUME PcType, HeldType, SkipType, HubStep, NEW p \in Procs, Leave(p)
    PROVE  PcType' /\ HeldType' /\ SkipType'
<1>1. None \in 0..issued'
  BY DEF HubStep, HubTypeOK, None
<1>2. PcType' /\ HeldType'
  BY <1>1, IdleGoto, HoldType DEF Leave
<1>3. SkipType'
  BY DEF Leave, SkipType
<1> QED
  BY <1>2, <1>3

\* What is left to show of a step once the functions have their types.
LEMMA ScriptTyped ==
    ASSUME ScriptTypeOK, HubStep, PcType', HeldType', SkipType',
           lock' \in Scripts \cup {lock, Free, Orphan}, old' \in BOOLEAN,
           tokenFile' \in 0..issued', refreshFile' \in 0..issued', env' = env,
           risky' \in BOOLEAN, cut' \in BOOLEAN, replayed' \in BOOLEAN
    PROVE  ScriptTypeOK'
<1>1. env \in 0..issued'
  BY DEF HubStep, ScriptTypeOK
<1> QED
  BY <1>1 DEF ScriptTypeOK, PcType, HeldType, SkipType

LEMMA ScriptParts ==
    ASSUME ScriptTypeOK, HubStep
    PROVE  /\ PcType /\ HeldType /\ SkipType
           /\ lock \in Scripts \cup {Free, Orphan}
           /\ tokenFile \in 0..issued' /\ refreshFile \in 0..issued' /\ None \in 0..issued'
           /\ old \in BOOLEAN /\ risky \in BOOLEAN /\ cut \in BOOLEAN /\ replayed \in BOOLEAN
  BY DEF ScriptTypeOK, HubStep, HubTypeOK, PcType, HeldType, SkipType, None

-----------------------------------------------------------------------------
(***************************************************************************)
(* Every step of the machine respects the types.                           *)
(***************************************************************************)
LEMMA CallTypes ==
    ASSUME HubTypeOK, ScriptTypeOK, NEW p \in Procs, NEW skipping \in BOOLEAN, Call(p, skipping)
    PROVE  HubStep /\ ScriptTypeOK'
<1>1. HubStep
  BY HubStays DEF Call
<1>2. PcType'
  BY <1>1, ScriptParts, ScriptGoto, PluginGoto DEF Call, Waiting, Plugged, Procs
<1>3. HeldType' /\ SkipType'
  BY <1>1, ScriptParts, KeepHeld DEF Call, SkipType
<1> QED
  BY <1>1, <1>2, <1>3, ScriptParts, ScriptTyped DEF Call, locking, files, marks

LEMMA LockTypes ==
    ASSUME HubTypeOK, ScriptTypeOK, NEW p \in Scripts,
           TryAcquire(p) \/ IsLockStale(p) \/ RemoveStale(p) \/ Sleep(p) \/ ReleaseLock(p)
    PROVE  HubStep /\ ScriptTypeOK'
<1> USE DEF locking, files, marks
<1>0. p \in Procs /\ UNCHANGED hubVars /\ UNCHANGED budget
  BY DEF TryAcquire, IsLockStale, RemoveStale, Sleep, ReleaseLock, Procs
<1>1. HubStep
  BY <1>0, HubStays
<1>2. CASE TryAcquire(p)
  <2>1. PcType'
    BY <1>1, <1>2, ScriptParts, ScriptGoto DEF TryAcquire, Waiting, Inside
  <2>2. HeldType' /\ SkipType'
    BY <1>1, <1>2, ScriptParts, KeepHeld DEF TryAcquire, SkipType
  <2> QED
    BY <1>1, <1>2, <2>1, <2>2, ScriptParts, ScriptTyped DEF TryAcquire
<1>3. CASE IsLockStale(p)
  <2>1. PcType'
    BY <1>1, <1>3, ScriptParts, ScriptGoto DEF IsLockStale, Waiting
  <2>2. HeldType' /\ SkipType'
    BY <1>1, <1>3, ScriptParts, KeepHeld DEF IsLockStale, SkipType
  <2>3. risky' \in BOOLEAN
    BY <1>1, <1>3, ScriptParts DEF IsLockStale
  <2> QED
    BY <1>1, <1>3, <2>1, <2>2, <2>3, ScriptParts, ScriptTyped DEF IsLockStale
<1>4. CASE RemoveStale(p)
  <2>1. PcType'
    BY <1>1, <1>4, ScriptParts, ScriptGoto DEF RemoveStale, Waiting
  <2>2. HeldType' /\ SkipType'
    BY <1>1, <1>4, ScriptParts, KeepHeld DEF RemoveStale, SkipType
  <2> QED
    BY <1>1, <1>4, <2>1, <2>2, ScriptParts, ScriptTyped DEF RemoveStale
<1>5. CASE Sleep(p)
  <2>1. PcType' /\ HeldType' /\ SkipType'
    <3>1. CASE Goto(p, "open") /\ UNCHANGED <<skip, held>>
      BY <1>1, <3>1, ScriptParts, ScriptGoto, KeepHeld DEF Waiting, SkipType
    <3>2. CASE Leave(p)
      BY <1>0, <1>1, <3>2, ScriptParts, LeaveTypes
    <3> QED
      BY <1>5, <3>1, <3>2 DEF Sleep
  <2> QED
    BY <1>1, <1>5, <2>1, ScriptParts, ScriptTyped DEF Sleep
<1>6. CASE ReleaseLock(p)
  <2>1. PcType' /\ HeldType' /\ SkipType'
    BY <1>0, <1>1, <1>6, ScriptParts, LeaveTypes DEF ReleaseLock
  <2> QED
    BY <1>1, <1>6, <2>1, ScriptParts, ScriptTyped DEF ReleaseLock
<1> QED
  BY <1>1, <1>2, <1>3, <1>4, <1>5, <1>6

LEMMA CallbackTypes ==
    ASSUME HubTypeOK, ScriptTypeOK, NEW p \in Scripts,
           \/ LoadHubToken(p) \/ ValidateHubToken(p) \/ LoadRefreshToken(p)
           \/ TakeExchanged(p) \/ SaveRefreshToken(p) \/ SaveHubToken(p)
    PROVE  HubStep /\ ScriptTypeOK'
<1> USE DEF locking, files, marks
<1>0. p \in Procs /\ UNCHANGED hubVars /\ (UNCHANGED budget \/ CountFault)
  BY DEF LoadHubToken, ValidateHubToken, LoadRefreshToken, TakeExchanged, SaveRefreshToken,
         SaveHubToken, Procs
<1>1. HubStep
  BY <1>0, HubStays
<1>h. held[p] \in 0..issued' /\ env \in 0..issued'
  BY <1>0, <1>1 DEF ScriptTypeOK, HubStep
<1>2. CASE LoadHubToken(p)
  <2>1. PcType'
    BY <1>1, <1>2, ScriptParts, ScriptGoto DEF LoadHubToken, Inside
  <2>2. HeldType' /\ SkipType'
    BY <1>0, <1>1, <1>2, ScriptParts, KeepHeld, HoldType DEF LoadHubToken, SkipType
  <2> QED
    BY <1>1, <1>2, <2>1, <2>2, ScriptParts, ScriptTyped DEF LoadHubToken
<1>3. CASE ValidateHubToken(p)
  <2>1. PcType'
    BY <1>1, <1>3, ScriptParts, ScriptGoto DEF ValidateHubToken, Inside
  <2>2. HeldType' /\ SkipType'
    BY <1>1, <1>3, ScriptParts, KeepHeld DEF ValidateHubToken, SkipType
  <2> QED
    BY <1>1, <1>3, <2>1, <2>2, ScriptParts, ScriptTyped DEF ValidateHubToken
<1>4. CASE LoadRefreshToken(p)
  <2>1. PcType'
    BY <1>1, <1>4, ScriptParts, ScriptGoto DEF LoadRefreshToken, Inside
  <2>2. HeldType' /\ SkipType'
    BY <1>0, <1>1, <1>h, <1>4, ScriptParts, KeepHeld, HoldType DEF LoadRefreshToken, SkipType
  <2> QED
    BY <1>1, <1>4, <2>1, <2>2, ScriptParts, ScriptTyped DEF LoadRefreshToken
<1>5. CASE TakeExchanged(p)
  <2>1. PcType'
    BY <1>1, <1>5, ScriptParts, ScriptGoto DEF TakeExchanged, Inside
  <2>2. HeldType' /\ SkipType'
    BY <1>1, <1>5, ScriptParts, KeepHeld DEF TakeExchanged, SkipType
  <2> QED
    BY <1>1, <1>h, <1>5, <2>1, <2>2, ScriptParts, ScriptTyped DEF TakeExchanged
<1>6. CASE SaveRefreshToken(p)
  <2>1. PcType'
    BY <1>1, <1>6, ScriptParts, ScriptGoto DEF SaveRefreshToken, Inside
  <2>2. HeldType' /\ SkipType'
    BY <1>1, <1>6, ScriptParts, KeepHeld DEF SaveRefreshToken, SkipType
  <2> QED
    BY <1>1, <1>h, <1>6, <2>1, <2>2, ScriptParts, ScriptTyped DEF SaveRefreshToken
<1>7. CASE SaveHubToken(p)
  <2>1. PcType'
    BY <1>1, <1>7, ScriptParts, ScriptGoto DEF SaveHubToken, Inside
  <2>2. HeldType' /\ SkipType'
    BY <1>1, <1>7, ScriptParts, KeepHeld DEF SaveHubToken, SkipType
  <2> QED
    BY <1>1, <1>h, <1>7, <2>1, <2>2, ScriptParts, ScriptTyped DEF SaveHubToken
<1> QED
  BY <1>1, <1>2, <1>3, <1>4, <1>5, <1>6, <1>7

LEMMA RequestTypes ==
    ASSUME HubTypeOK, ScriptTypeOK, NEW p \in Scripts,
           RefreshHubTokens(p) \/ LoginToHub(p) \/ RefreshFails(p) \/ LoginFails(p)
    PROVE  HubStep /\ ScriptTypeOK'
<1> USE DEF locking, files, marks
<1>0. p \in Procs
  BY DEF Procs
<1>1. CASE RefreshHubTokens(p)
  <2>1. HubStep
    BY <1>1, HubExchanges, HubStays DEF RefreshHubTokens, Refuse
  <2>2. PcType'
    BY <1>1, <2>1, ScriptParts, ScriptGoto DEF RefreshHubTokens, Inside
  <2>3. issued' \in 0..issued' /\ None \in 0..issued'
    BY <2>1 DEF HubStep, HubTypeOK, None
  <2>4. HeldType'
    BY <1>0, <1>1, <2>1, <2>3, ScriptParts, HoldType DEF RefreshHubTokens
  <2>5. SkipType' /\ replayed' \in BOOLEAN
    BY <1>1, <2>1, ScriptParts DEF RefreshHubTokens, SkipType
  <2> QED
    BY <1>1, <2>1, <2>2, <2>4, <2>5, ScriptParts, ScriptTyped DEF RefreshHubTokens
<1>2. CASE LoginToHub(p)
  <2>1. HubStep
    BY <1>2, HubIssues DEF LoginToHub
  <2>2. PcType'
    BY <1>2, <2>1, ScriptParts, ScriptGoto DEF LoginToHub, Inside
  <2>3. issued' \in 0..issued'
    BY <2>1 DEF HubStep, HubTypeOK
  <2>4. HeldType' /\ SkipType'
    BY <1>0, <1>2, <2>1, <2>3, ScriptParts, HoldType DEF LoginToHub, SkipType
  <2> QED
    BY <1>2, <2>1, <2>2, <2>4, ScriptParts, ScriptTyped DEF LoginToHub
<1>3. CASE RefreshFails(p)
  <2>1. HubStep
    BY <1>3, HubStays DEF RefreshFails
  <2>2. PcType'
    BY <1>3, <2>1, ScriptParts, ScriptGoto DEF RefreshFails, Inside
  <2>3. HeldType' /\ SkipType'
    BY <1>0, <1>3, <2>1, ScriptParts, HoldType DEF RefreshFails, SkipType
  <2> QED
    BY <1>3, <2>1, <2>2, <2>3, ScriptParts, ScriptTyped DEF RefreshFails
<1>4. CASE LoginFails(p)
  <2>1. HubStep
    BY <1>4, HubStays DEF LoginFails
  <2>2. PcType'
    BY <1>4, <2>1, ScriptParts, ScriptGoto DEF LoginFails, Inside
  <2>3. HeldType' /\ SkipType'
    BY <1>4, <2>1, ScriptParts, KeepHeld DEF LoginFails, SkipType
  <2> QED
    BY <1>4, <2>1, <2>2, <2>3, ScriptParts, ScriptTyped DEF LoginFails
<1> QED
  BY <1>1, <1>2, <1>3, <1>4

LEMMA PluginTypes ==
    ASSUME HubTypeOK, ScriptTypeOK, NEW p \in Plugins, PluginStep(p)
    PROVE  HubStep /\ ScriptTypeOK'
<1> USE DEF locking, files, marks
<1>0. p \in Procs
  BY DEF Procs
<1>1. CASE PluginLoad(p)
  <2>1. HubStep
    BY <1>1, HubStays DEF PluginLoad
  <2>2. PcType'
    BY <1>1, <2>1, ScriptParts, PluginGoto DEF PluginLoad, Plugged
  <2>3. HeldType' /\ SkipType'
    BY <1>0, <1>1, <2>1, ScriptParts, HoldType, KeepHeld DEF PluginLoad, SkipType
  <2> QED
    BY <1>1, <2>1, <2>2, <2>3, ScriptParts, ScriptTyped DEF PluginLoad
<1>2. CASE PluginValidate(p)
  <2>1. HubStep
    BY <1>2, HubStays DEF PluginValidate
  <2>2. PcType' /\ HeldType' /\ SkipType'
    <3>1. CASE Leave(p)
      BY <1>0, <2>1, <3>1, ScriptParts, LeaveTypes
    <3>2. CASE Goto(p, "p-login") /\ UNCHANGED <<skip, held>>
      BY <2>1, <3>2, ScriptParts, PluginGoto, KeepHeld DEF Plugged, SkipType
    <3> QED
      BY <1>2, <3>1, <3>2 DEF PluginValidate
  <2> QED
    BY <1>2, <2>1, <2>2, ScriptParts, ScriptTyped DEF PluginValidate
<1>3. CASE PluginLogin(p)
  <2>1. HubStep
    BY <1>3, HubIssues DEF PluginLogin
  <2>2. PcType'
    BY <1>3, <2>1, ScriptParts, PluginGoto DEF PluginLogin, Plugged
  <2>3. issued' \in 0..issued'
    BY <2>1 DEF HubStep, HubTypeOK
  <2>4. HeldType' /\ SkipType'
    BY <1>0, <1>3, <2>1, <2>3, ScriptParts, HoldType DEF PluginLogin, SkipType
  <2> QED
    BY <1>3, <2>1, <2>2, <2>4, ScriptParts, ScriptTyped DEF PluginLogin
<1>4. CASE PluginSave(p)
  <2>1. HubStep
    BY <1>4, HubStays DEF PluginSave
  <2>2. PcType' /\ HeldType' /\ SkipType'
    BY <1>0, <1>4, <2>1, ScriptParts, LeaveTypes DEF PluginSave
  <2>3. held[p] \in 0..issued'
    BY <1>0, <2>1 DEF ScriptTypeOK, HubStep
  <2> QED
    BY <1>4, <2>1, <2>2, <2>3, ScriptParts, ScriptTyped DEF PluginSave
<1> QED
  BY <1>1, <1>2, <1>3, <1>4 DEF PluginStep

LEMMA TimeTypes ==
    ASSUME HubTypeOK, ScriptTypeOK,
           OrphanAges \/ HolderIsSlow \/ TokenExpires \/ \E p \in Procs : Kill(p)
    PROVE  HubStep /\ ScriptTypeOK'
<1> USE DEF locking, files, marks
<1>1. CASE OrphanAges \/ HolderIsSlow
  <2>1. HubStep
    BY <1>1, HubStays DEF OrphanAges, HolderIsSlow
  <2>2. PcType' /\ HeldType' /\ SkipType'
    BY <1>1, <2>1, ScriptParts, KeepHeld DEF OrphanAges, HolderIsSlow, PcType, SkipType
  <2> QED
    BY <1>1, <2>1, <2>2, ScriptParts, ScriptTyped DEF OrphanAges, HolderIsSlow
<1>2. CASE TokenExpires
  BY <1>2, HubExpires, ScriptSame DEF TokenExpires
<1>3. ASSUME NEW p \in Procs, Kill(p) PROVE HubStep /\ ScriptTypeOK'
  <2>1. HubStep
    BY <1>3, HubStays DEF Kill
  <2>2. PcType' /\ HeldType' /\ SkipType'
    BY <1>3, <2>1, ScriptParts, LeaveTypes DEF Kill
  <2>3. cut' \in BOOLEAN
    BY <1>3, <2>1, ScriptParts DEF Kill
  <2> QED
    BY <1>3, <2>1, <2>2, <2>3, ScriptParts, ScriptTyped DEF Kill
<1> QED
  BY <1>1, <1>2, <1>3

LEMMA ScriptTypes ==
    ASSUME HubTypeOK, ScriptTypeOK, ScriptNext
    PROVE  HubStep /\ ScriptTypeOK'
<1>1. ASSUME NEW p \in Procs, NEW skipping \in BOOLEAN, Call(p, skipping)
      PROVE  HubStep /\ ScriptTypeOK'
  BY <1>1, CallTypes
<1>2. ASSUME NEW p \in Scripts, ScriptStep(p) \/ RefreshFails(p) \/ LoginFails(p)
      PROVE  HubStep /\ ScriptTypeOK'
  BY <1>2, LockTypes, CallbackTypes, RequestTypes DEF ScriptStep
<1>3. ASSUME NEW p \in Plugins, PluginStep(p)
      PROVE  HubStep /\ ScriptTypeOK'
  BY <1>3, PluginTypes
<1> QED
  BY <1>1, <1>2, <1>3, TimeTypes DEF ScriptNext

-----------------------------------------------------------------------------
(***************************************************************************)
(* Types of the browser's variables.                                       *)
(***************************************************************************)
JarType == jar \in [auth : 0..issued, refresh : 0..issued, csrf : BOOLEAN]
PromiseType == promise \in [Tabs -> [pc : {"none", "posted", "answered"}, n : 0..issued]]
FetchType == fetch \in [Tabs -> [Fetches -> [pc : {"idle"} \cup Calling, n : 0..issued]]]
TabType == tab \in [Tabs -> {"app", "login"}]

LEMMA BrowserTyped ==
    ASSUME JarType', PromiseType', FetchType', TabType',
           contested' \in BOOLEAN, failed' \in BOOLEAN, expelled' \in BOOLEAN
    PROVE  BrowserTypeOK'
  BY DEF BrowserTypeOK, JarType, PromiseType, FetchType, TabType

\* The parts after a step that does not touch them.
LEMMA BrowserParts ==
    ASSUME BrowserTypeOK, HubStep
    PROVE  /\ jar' = jar => JarType'
           /\ promise' = promise => PromiseType'
           /\ fetch' = fetch => FetchType'
           /\ tab' = tab => TabType'
           /\ contested \in BOOLEAN /\ failed \in BOOLEAN /\ expelled \in BOOLEAN
           /\ jar.auth \in 0..issued' /\ jar.refresh \in 0..issued' /\ jar.csrf \in BOOLEAN
           /\ jar = [auth |-> jar.auth, refresh |-> jar.refresh, csrf |-> jar.csrf]
           /\ None \in 0..issued' /\ issued' \in 0..issued'
<1>1. \A n \in 0..issued : n \in 0..issued'
  BY DEF HubStep
<1>2. fetch \in [Tabs -> [Fetches -> [pc : {"idle"} \cup Calling, n : 0..issued']]]
  BY <1>1 DEF BrowserTypeOK
<1>3. promise \in [Tabs -> [pc : {"none", "posted", "answered"}, n : 0..issued']]
  BY <1>1 DEF BrowserTypeOK
<1>4. jar \in [auth : 0..issued', refresh : 0..issued', csrf : BOOLEAN]
  BY <1>1 DEF BrowserTypeOK
<1>5. None \in 0..issued' /\ issued' \in 0..issued'
  BY DEF HubStep, HubTypeOK, None
<1>6. jar.auth \in 0..issued' /\ jar.refresh \in 0..issued' /\ jar.csrf \in BOOLEAN
  BY <1>4
<1>7. jar = [auth |-> jar.auth, refresh |-> jar.refresh, csrf |-> jar.csrf]
  BY <1>4
<1> QED
  BY <1>2, <1>3, <1>4, <1>5, <1>6, <1>7
     DEF BrowserTypeOK, JarType, PromiseType, FetchType, TabType

LEMMA MoveType ==
    ASSUME BrowserTypeOK, HubStep, NEW t \in Tabs, NEW f \in Fetches,
           NEW there \in {"idle"} \cup Calling, NEW n \in 0..issued', Move(t, f, there, n)
    PROVE  FetchType'
<1>1. \A m \in 0..issued : m \in 0..issued'
  BY DEF HubStep
<1>2. fetch \in [Tabs -> [Fetches -> [pc : {"idle"} \cup Calling, n : 0..issued']]]
  BY <1>1 DEF BrowserTypeOK
<1> DEFINE r == [pc |-> there, n |-> n]
           R == [pc : {"idle"} \cup Calling, n : 0..issued']
           F == [fetch[t] EXCEPT ![f] = r]
<1>3. r \in R
  OBVIOUS
<1>4. fetch' = [fetch EXCEPT ![t] = F]
  BY DEF Move
<1> HIDE DEF r, R
<1>5. F \in [Fetches -> R]
  BY <1>2, <1>3 DEF R
<1> HIDE DEF F
<1>6. fetch' \in [Tabs -> [Fetches -> R]]
  BY <1>2, <1>4, <1>5 DEF R
<1> QED
  BY <1>6 DEF FetchType, R

LEMMA PromiseTyped ==
    ASSUME BrowserTypeOK, HubStep, NEW t \in Tabs,
           NEW there \in {"none", "posted", "answered"}, NEW n \in 0..issued',
           promise' = [promise EXCEPT ![t] = [pc |-> there, n |-> n]]
    PROVE  PromiseType'
<1>1. promise \in [Tabs -> [pc : {"none", "posted", "answered"}, n : 0..issued']]
  BY DEF HubStep, BrowserTypeOK
<1> DEFINE r == [pc |-> there, n |-> n]
           R == [pc : {"none", "posted", "answered"}, n : 0..issued']
<1>2. r \in R
  OBVIOUS
<1>3. promise' = [promise EXCEPT ![t] = r]
  OBVIOUS
<1> HIDE DEF r, R
<1>4. promise' \in [Tabs -> R]
  BY <1>1, <1>2, <1>3 DEF R
<1> QED
  BY <1>4 DEF PromiseType, R

LEMMA ForgetTypes ==
    ASSUME BrowserTypeOK, HubStep, NEW t \in Tabs, Forget(t)
    PROVE  PromiseType' /\ FetchType'
<1>1. PromiseType'
  BY BrowserParts, PromiseTyped DEF Forget, NoRefresh
<1>2. fetch \in [Tabs -> [Fetches -> [pc : {"idle"} \cup Calling, n : 0..issued']]]
  BY DEF HubStep, BrowserTypeOK
<1>3. NoFetch \in [pc : {"idle"} \cup Calling, n : 0..issued']
  BY BrowserParts DEF NoFetch
<1> DEFINE F == [f \in Fetches |-> NoFetch]
           R == [pc : {"idle"} \cup Calling, n : 0..issued']
<1> HIDE DEF R
<1>4. F \in [Fetches -> R] /\ fetch' = [fetch EXCEPT ![t] = F]
  BY <1>3 DEF Forget, R
<1> HIDE DEF F
<1>5. fetch' \in [Tabs -> [Fetches -> R]]
  BY <1>2, <1>4 DEF R
<1> QED
  BY <1>1, <1>5 DEF FetchType, R

LEMMA RedirectTypes ==
    ASSUME BrowserTypeOK, HubStep, NEW t \in Tabs, RedirectToLogin(t)
    PROVE  JarType' /\ PromiseType' /\ FetchType' /\ TabType' /\ expelled' \in BOOLEAN
<1>1. PromiseType' /\ FetchType'
  BY ForgetTypes DEF RedirectToLogin
<1>2. TabType'
  BY DEF RedirectToLogin, BrowserTypeOK, TabType
<1>3. jar' = [auth |-> jar.auth, refresh |-> jar.refresh, csrf |-> FALSE]
  BY DEF RedirectToLogin, BrowserTypeOK
<1>4. JarType'
  BY <1>3, BrowserParts DEF JarType
<1> QED
  BY <1>1, <1>2, <1>4 DEF RedirectToLogin

(***************************************************************************)
(* Every step of the browser respects the types.                           *)
(***************************************************************************)
LEMMA TabTypes ==
    ASSUME HubTypeOK, BrowserTypeOK, NEW t \in Tabs, LogIn(t) \/ OpenApp(t) \/ RefreshLost(t)
    PROVE  HubStep /\ BrowserTypeOK'
<1>1. CASE LogIn(t)
  <2>1. HubStep
    BY <1>1, HubIssues DEF LogIn
  <2>2. JarType'
    BY <1>1, <2>1, BrowserParts DEF LogIn, JarType
  <2>3. TabType'
    BY <1>1 DEF LogIn, BrowserTypeOK, TabType
  <2> QED
    BY <1>1, <2>1, <2>2, <2>3, BrowserParts, BrowserTyped DEF LogIn
<1>2. CASE OpenApp(t)
  <2>1. HubStep
    BY <1>2, HubStays DEF OpenApp
  <2>2. PromiseType' /\ FetchType'
    BY <1>2, <2>1, ForgetTypes DEF OpenApp
  <2>3. TabType'
    BY <1>2 DEF OpenApp, BrowserTypeOK, TabType
  <2> QED
    BY <1>2, <2>1, <2>2, <2>3, BrowserParts, BrowserTyped DEF OpenApp
<1>3. CASE RefreshLost(t)
  <2>1. HubStep
    BY <1>3, HubStays DEF RefreshLost
  <2>2. PromiseType'
    BY <1>3, <2>1, BrowserParts, PromiseTyped DEF RefreshLost
  <2> QED
    BY <1>3, <2>1, <2>2, BrowserParts, BrowserTyped DEF RefreshLost
<1> QED
  BY <1>1, <1>2, <1>3

LEMMA FetchTypes ==
    ASSUME HubTypeOK, BrowserTypeOK, NEW t \in Tabs, NEW f \in Fetches,
           ApiFetch(t, f) \/ FirstAnswer(t, f) \/ SecondAnswer(t, f)
    PROVE  HubStep /\ BrowserTypeOK'
<1>1. CASE ApiFetch(t, f)
  <2>1. HubStep
    BY <1>1, HubStays DEF ApiFetch
  <2>2. FetchType'
    BY <1>1, <2>1, BrowserParts, MoveType DEF ApiFetch, Calling
  <2> QED
    BY <1>1, <2>1, <2>2, BrowserParts, BrowserTyped DEF ApiFetch
<1>2. CASE FirstAnswer(t, f)
  <2>1. HubStep
    BY <1>2, HubStays DEF FirstAnswer
  <2>2. FetchType'
    BY <1>2, <2>1, BrowserParts, MoveType DEF FirstAnswer, Calling
  <2>3. PromiseType'
    BY <1>2, <2>1, BrowserParts, PromiseTyped DEF FirstAnswer, TryRefresh
  <2>4. contested' \in BOOLEAN
    BY <1>2, <2>1, BrowserParts DEF FirstAnswer, TryRefresh
  <2> QED
    BY <1>2, <2>1, <2>2, <2>3, <2>4, BrowserParts, BrowserTyped DEF FirstAnswer
<1>3. CASE SecondAnswer(t, f)
  <2>1. HubStep
    BY <1>3, HubStays DEF SecondAnswer
  <2>2. JarType' /\ PromiseType' /\ FetchType' /\ TabType' /\ expelled' \in BOOLEAN
    <3>1. CASE Move(t, f, "idle", None) /\ UNCHANGED <<tab, promise, jar, expelled>>
      BY <2>1, <3>1, BrowserParts, MoveType
    <3>2. CASE RedirectToLogin(t)
      BY <2>1, <3>2, RedirectTypes
    <3> QED
      BY <1>3, <3>1, <3>2 DEF SecondAnswer
  <2> QED
    BY <1>3, <2>1, <2>2, BrowserParts, BrowserTyped DEF SecondAnswer
<1> QED
  BY <1>1, <1>2, <1>3

LEMMA RefreshTypes ==
    ASSUME HubTypeOK, BrowserTypeOK, NEW t \in Tabs, RefreshAtHub(t) \/ RefreshAnswer(t)
    PROVE  HubStep /\ BrowserTypeOK'
<1>1. CASE RefreshAtHub(t)
  <2>1. HubStep
    BY <1>1, HubExchanges, HubStays DEF RefreshAtHub, Refuse
  <2>2. PromiseType'
    BY <1>1, <2>1, BrowserParts, PromiseTyped DEF RefreshAtHub
  <2> QED
    BY <1>1, <2>1, <2>2, BrowserParts, BrowserTyped DEF RefreshAtHub
<1>2. CASE RefreshAnswer(t)
  <2>1. HubStep
    BY <1>2, HubStays DEF RefreshAnswer
  <2>2. CASE promise[t].n = None
    <3>1. JarType' /\ PromiseType' /\ FetchType' /\ TabType' /\ expelled' \in BOOLEAN
      BY <1>2, <2>1, <2>2, RedirectTypes DEF RefreshAnswer
    <3> QED
      BY <1>2, <2>1, <3>1, BrowserParts, BrowserTyped DEF RefreshAnswer
  <2>3. CASE promise[t].n # None
    <3>1. promise[t].n \in 0..issued'
      BY <2>1 DEF HubStep, BrowserTypeOK
    <3>2. jar' = [auth |-> promise[t].n, refresh |-> promise[t].n, csrf |-> TRUE]
      BY <1>2, <2>3 DEF RefreshAnswer
    <3>3. JarType' /\ jar'.auth \in 0..issued'
      BY <3>1, <3>2 DEF JarType
    <3>4. PromiseType'
      BY <1>2, <2>1, <2>3, BrowserParts, PromiseTyped DEF RefreshAnswer, NoRefresh
    <3>5. FetchType'
      <4> DEFINE R == [pc : {"idle"} \cup Calling, n : 0..issued']
                 r == [pc |-> "again", n |-> jar'.auth]
                 F == [f \in Fetches |-> IF fetch[t][f].pc = "waiting" THEN r ELSE fetch[t][f]]
      <4>1. r \in R
        BY <3>3 DEF Calling
      <4>2. fetch \in [Tabs -> [Fetches -> R]]
        BY <2>1 DEF BrowserTypeOK, HubStep
      <4>3. fetch' = [fetch EXCEPT ![t] = F]
        BY <1>2, <2>3 DEF RefreshAnswer
      <4> HIDE DEF r, R
      <4>4. F \in [Fetches -> R]
        BY <4>1, <4>2
      <4> HIDE DEF F
      <4>5. fetch' \in [Tabs -> [Fetches -> R]]
        BY <4>2, <4>3, <4>4
      <4> QED
        BY <4>5 DEF FetchType, R
    <3> QED
      BY <1>2, <2>1, <2>3, <3>3, <3>4, <3>5, BrowserParts, BrowserTyped DEF RefreshAnswer
  <2> QED
    BY <2>2, <2>3
<1> QED
  BY <1>1, <1>2

LEMMA BrowserTypes ==
    ASSUME HubTypeOK, BrowserTypeOK, BrowserNext
    PROVE  HubStep /\ BrowserTypeOK'
<1>1. CASE CookiesExpire
  <2>1. HubStep
    BY <1>1, HubExpires DEF CookiesExpire
  <2>2. jar' = [auth |-> None, refresh |-> jar.refresh, csrf |-> FALSE]
    BY <1>1 DEF CookiesExpire, BrowserTypeOK
  <2>3. JarType'
    BY <2>1, <2>2, BrowserParts DEF JarType
  <2> QED
    BY <1>1, <2>1, <2>3, BrowserParts, BrowserTyped DEF CookiesExpire
<1>2. CASE AllRevoked
  <2>1. HubStep
    BY <1>2, HubRevokes DEF AllRevoked
  <2> QED
    BY <1>2, <2>1, BrowserParts, BrowserTyped DEF AllRevoked
<1> QED
  BY <1>1, <1>2, TabTypes, FetchTypes, RefreshTypes DEF BrowserNext, BrowserStep

(***************************************************************************)
(* Type correctness: every number in a file, a cookie, a process or a tab  *)
(* is that of a pair the hub has issued, or none.                          *)
(***************************************************************************)
LEMMA TypeStep == TypeOK /\ [Next]_vars => TypeOK' /\ HubStep
<1> SUFFICES ASSUME TypeOK, [Next]_vars PROVE TypeOK' /\ HubStep
  OBVIOUS
<1> USE DEF TypeOK
<1>1. CASE ScriptNext /\ UNCHANGED browserVars
  BY <1>1, ScriptTypes, BrowserSame DEF HubStep
<1>2. CASE BrowserNext /\ UNCHANGED scriptVars
  BY <1>2, BrowserTypes, ScriptSame DEF HubStep
<1>3. CASE UNCHANGED vars
  BY <1>3, HubStays, ScriptSame, BrowserSame DEF vars, HubStep
<1> QED
  BY <1>1, <1>2, <1>3 DEF Next

THEOREM TypeCorrect == Spec => []TypeOK
<1>1. Init => TypeOK
  <2> SUFFICES ASSUME Init PROVE TypeOK
    OBVIOUS
  <2>1. HubTypeOK
    BY BoundAssumption DEF Init, HubInit, HubTypeOK
  <2>2. None \in 0..issued /\ 1 \in 0..issued
    BY DEF Init, HubInit, None
  <2>3. ScriptTypeOK
    <3>1. pc \in [Procs -> {"idle"}] /\ \A p \in Procs : pc[p] = "idle"
      BY DEF Init, ScriptInit
    <3>2. held \in [Procs -> 0..issued] /\ skip \in [Procs -> BOOLEAN]
      BY <2>2 DEF Init, ScriptInit
    <3>3. {tokenFile, refreshFile, env} \subseteq 0..issued
      BY <2>2 DEF Init, ScriptInit
    <3> QED
      BY <3>1, <3>2, <3>3 DEF Init, ScriptInit, ScriptTypeOK, Plugged, Procs
  <2>4. BrowserTypeOK
    <3>1. PromiseType
      BY <2>2 DEF Init, BrowserInit, PromiseType, NoRefresh
    <3>2. NoFetch \in [pc : {"idle"} \cup Calling, n : 0..issued]
      BY <2>2 DEF NoFetch
    <3>3. FetchType
      BY <3>2 DEF Init, BrowserInit, FetchType
    <3>4. JarType
      BY <2>2 DEF Init, BrowserInit, JarType
    <3> QED
      BY <3>1, <3>3, <3>4
         DEF Init, BrowserInit, BrowserTypeOK, PromiseType, FetchType, JarType
  <2> QED
    BY <2>1, <2>3, <2>4 DEF TypeOK
<1> QED
  BY <1>1, TypeStep, PTL DEF Spec

-----------------------------------------------------------------------------
(***************************************************************************)
(* The lock.  Unless it was broken, its file is that of the script inside; *)
(* who goes to remove the file is alone in it, and the file is that of a   *)
(* killed process; and a living holder's file is never stale.              *)
(***************************************************************************)
Holders == \A p \in Scripts : pc[p] \in Inside => lock = p
Removers == \A p \in Scripts : At(p, "unlink") => lock = Orphan /\ old
OneRemover == \A p, q \in Scripts : At(p, "unlink") /\ At(q, "unlink") => p = q
FreshHolder == lock \in Scripts => ~old

LockInv == ~risky => Holders /\ Removers /\ OneRemover /\ FreshHolder

LEMMA LockMove ==
    ASSUME TypeOK, LockInv, NEW p \in Procs, NEW there, Goto(p, there), UNCHANGED locking,
           p \in Scripts => (there \notin Inside \cup {"unlink"} \/ (there \in Inside /\ pc[p] \in Inside))
    PROVE  LockInv'
<1>1. \A q \in Scripts : pc'[q] = IF q = p THEN there ELSE pc[q]
  BY DEF TypeOK, ScriptTypeOK, Goto, Procs
<1> QED
  BY <1>1 DEF LockInv, Holders, Removers, OneRemover, FreshHolder, At, Inside, locking

LEMMA LockKept ==
    ASSUME LockInv, UNCHANGED <<pc, locking>> PROVE LockInv'
  BY DEF LockInv, Holders, Removers, OneRemover, FreshHolder, At, locking

LEMMA LockScript ==
    ASSUME TypeOK, LockInv, NEW p \in Scripts,
           TryAcquire(p) \/ IsLockStale(p) \/ RemoveStale(p) \/ Sleep(p) \/ ReleaseLock(p)
    PROVE  LockInv'
<1> USE ProcessAssumption DEF LockInv, Holders, Removers, OneRemover, FreshHolder
<1>0. p \in Procs /\ pc \in [Procs -> {"idle"} \cup Waiting \cup Inside \cup Plugged]
      /\ lock \in Scripts \cup {Free, Orphan} /\ old \in BOOLEAN /\ Scripts \subseteq Procs
  BY DEF Procs, TypeOK, ScriptTypeOK
<1>f. Free # Orphan
  BY DEF Free, Orphan
<1>1. CASE TryAcquire(p)
  <2>1. CASE lock = Free
    <3>1. pc' = [pc EXCEPT ![p] = "cached"] /\ lock' = p /\ old' = FALSE /\ risky' = risky
      BY <1>1, <2>1 DEF TryAcquire, Goto
    <3>2. \A q \in Scripts : q # p => pc'[q] = pc[q]
      BY <1>0, <3>1
    <3>3. pc'[p] = "cached"
      BY <1>0, <3>1
    <3>4. ~risky => \A q \in Scripts : pc[q] \notin Inside /\ ~At(q, "unlink")
      BY <2>1, <1>f
    <3> QED
      BY <3>1, <3>2, <3>3, <3>4 DEF At, Inside
  <2>2. CASE lock # Free
    <3>1. Goto(p, "stat") /\ UNCHANGED locking
      BY <1>1, <2>2 DEF TryAcquire, locking
    <3> QED
      BY <1>0, <3>1, LockMove DEF Inside
  <2> QED
    BY <2>1, <2>2
<1>2. CASE IsLockStale(p)
  <2>1. CASE lock # Free /\ old
    <3>1. /\ pc' = [pc EXCEPT ![p] = "unlink"] /\ UNCHANGED <<lock, old>>
          /\ risky' = (risky \/ \E q \in Scripts \ {p} : At(q, "unlink"))
      BY <1>2, <2>1 DEF IsLockStale, Goto
    <3>2. \A q \in Scripts : q # p => pc'[q] = pc[q]
      BY <1>0, <3>1
    <3>3. pc'[p] = "unlink"
      BY <1>0, <3>1
    <3>4. ~risky => lock = Orphan /\ old
      BY <1>0, <2>1
    <3> QED
      BY <3>1, <3>2, <3>3, <3>4 DEF At, Inside
  <2>2. CASE ~(lock # Free /\ old)
    <3>1. Goto(p, "sleep") /\ UNCHANGED locking
      BY <1>2, <2>2 DEF IsLockStale, locking
    <3> QED
      BY <1>0, <3>1, LockMove DEF Inside
  <2> QED
    BY <2>1, <2>2
<1>3. CASE RemoveStale(p)
  <2>1. /\ pc' = [pc EXCEPT ![p] = "open"] /\ lock' = Free /\ old' = FALSE /\ risky' = risky
        /\ pc[p] = "unlink"
    BY <1>3 DEF RemoveStale, Goto, At
  <2>2. \A q \in Scripts : q # p => pc'[q] = pc[q]
    BY <1>0, <2>1
  <2>3. pc'[p] = "open"
    BY <1>0, <2>1
  <2>4. ~risky => \A q \in Scripts : q # p => pc[q] \notin Inside /\ ~At(q, "unlink")
    BY <2>1 DEF At
  <2> QED
    BY <2>1, <2>2, <2>3, <2>4 DEF At, Inside
<1>4. CASE Sleep(p)
  <2>1. (Goto(p, "open") \/ Goto(p, "idle")) /\ UNCHANGED locking
    BY <1>4 DEF Sleep, Leave
  <2> QED
    BY <1>0, <2>1, LockMove DEF Inside
<1>5. CASE ReleaseLock(p)
  <2>1. /\ pc' = [pc EXCEPT ![p] = "idle"] /\ lock' = Free /\ old' = FALSE /\ risky' = risky
        /\ pc[p] \in Inside
    BY <1>5 DEF ReleaseLock, Leave, Goto, At, Inside
  <2>2. \A q \in Scripts : q # p => pc'[q] = pc[q]
    BY <1>0, <2>1
  <2>3. pc'[p] = "idle"
    BY <1>0, <2>1
  <2>4. ~risky => \A q \in Scripts : q # p => pc[q] \notin Inside /\ ~At(q, "unlink")
    BY <2>1
  <2> QED
    BY <2>1, <2>2, <2>3, <2>4 DEF At, Inside
<1> QED
  BY <1>1, <1>2, <1>3, <1>4, <1>5

LEMMA LockOthers ==
    ASSUME TypeOK, LockInv,
           \/ \E p \in Procs : (\E skipping \in BOOLEAN : Call(p, skipping)) \/ Kill(p)
           \/ OrphanAges \/ HolderIsSlow \/ TokenExpires
    PROVE  LockInv'
<1> USE ProcessAssumption
<1>0. /\ pc \in [Procs -> {"idle"} \cup Waiting \cup Inside \cup Plugged]
      /\ lock \in Scripts \cup {Free, Orphan} /\ old \in BOOLEAN /\ Scripts \subseteq Procs
  BY DEF Procs, TypeOK, ScriptTypeOK
<1>1. ASSUME NEW p \in Procs, NEW skipping \in BOOLEAN, Call(p, skipping) PROVE LockInv'
  <2>1. (Goto(p, "open") \/ (Goto(p, "p-cached") /\ p \notin Scripts)) /\ UNCHANGED locking
    BY <1>1 DEF Call
  <2> QED
    BY <2>1, LockMove DEF Inside
<1>2. ASSUME NEW p \in Procs, Kill(p) PROVE LockInv'
  <2>1. /\ pc' = [pc EXCEPT ![p] = "idle"] /\ old' = old /\ risky' = risky
        /\ lock' = IF lock = p THEN Orphan ELSE lock
    BY <1>2 DEF Kill, Leave, Goto
  <2>2. \A q \in Scripts : q # p => pc'[q] = pc[q]
    BY <1>0, <2>1
  <2>3. pc'[p] = "idle"
    BY <1>0, <2>1
  <2> QED
    BY <1>0, <2>1, <2>2, <2>3 DEF At, Inside, LockInv, Holders, Removers, OneRemover, FreshHolder
<1>3. CASE OrphanAges
  BY <1>0, <1>3 DEF OrphanAges, LockInv, Holders, Removers, OneRemover, FreshHolder, At
<1>4. CASE HolderIsSlow
  BY <1>4 DEF HolderIsSlow, LockInv
<1>5. CASE TokenExpires
  BY <1>5, LockKept DEF TokenExpires, scriptVars, locking
<1> QED
  BY <1>1, <1>2, <1>3, <1>4, <1>5

LEMMA LockStep ==
    ASSUME TypeOK, LockInv, ScriptNext PROVE LockInv'
<1>1. ASSUME NEW p \in Scripts, ScriptStep(p) \/ RefreshFails(p) \/ LoginFails(p) PROVE LockInv'
  <2>1. CASE TryAcquire(p) \/ IsLockStale(p) \/ RemoveStale(p) \/ Sleep(p) \/ ReleaseLock(p)
    BY <2>1, LockScript
  <2>2. CASE \/ LoadHubToken(p) \/ ValidateHubToken(p) \/ LoadRefreshToken(p) \/ RefreshHubTokens(p)
             \/ TakeExchanged(p) \/ SaveRefreshToken(p) \/ LoginToHub(p) \/ SaveHubToken(p)
             \/ RefreshFails(p) \/ LoginFails(p)
    <3>1. /\ \E there \in Inside : Goto(p, there)
          /\ pc[p] \in Inside /\ UNCHANGED locking
      BY <2>2 DEF LoadHubToken, ValidateHubToken, LoadRefreshToken, RefreshHubTokens,
                  TakeExchanged, SaveRefreshToken, LoginToHub, SaveHubToken, RefreshFails, LoginFails,
                  At, Inside
    <3>2. PICK there \in Inside : Goto(p, there)
      BY <3>1
    <3> QED
      BY <3>1, <3>2, LockMove DEF Procs
  <2> QED
    BY <1>1, <2>1, <2>2 DEF ScriptStep
<1>2. ASSUME NEW p \in Plugins, PluginStep(p) PROVE LockInv'
  <2>1. (\E there \in {"idle"} \cup Plugged : Goto(p, there)) /\ UNCHANGED locking
    BY <1>2 DEF PluginStep, PluginLoad, PluginValidate, PluginLogin, PluginSave, Leave, Plugged
  <2>2. PICK there \in {"idle"} \cup Plugged : Goto(p, there)
    BY <2>1
  <2> QED
    BY <2>1, <2>2, LockMove, ProcessAssumption DEF Procs
<1> QED
  BY <1>1, <1>2, LockOthers DEF ScriptNext

(***************************************************************************)
(* Mutual exclusion in withTokenLock, for any number of scripts: two are   *)
(* inside at once only if the lock file of a living holder passed for      *)
(* stale, or two scripts found the same stale file.                        *)
(***************************************************************************)
LEMMA LockCorrect == Spec => []LockInv
<1>1. Init => LockInv
  BY DEF Init, ScriptInit, LockInv, Holders, Removers, OneRemover, FreshHolder, At, Inside,
         Procs, Free
<1>2. TypeOK /\ LockInv /\ [Next]_vars => LockInv'
  BY LockStep, LockKept DEF Next, vars, scriptVars, locking
<1> QED
  BY <1>1, <1>2, TypeCorrect, PTL DEF Spec

THEOREM ExclusionHolds == Spec => []Exclusive
<1>1. LockInv => Exclusive
  BY DEF LockInv, Holders, Exclusive
<1> QED
  BY <1>1, LockCorrect, PTL

-----------------------------------------------------------------------------
(***************************************************************************)
(* No pair is at home in both places: what a cookie, a refresh or a        *)
(* request of the browser has is not in a file or a process.               *)
(***************************************************************************)
Mine == {jar.auth, jar.refresh} \cup {promise[t].n : t \in Tabs}
        \cup UNION {{fetch[t][f].n : f \in Fetches} : t \in Tabs}
Theirs == {tokenFile, refreshFile, env} \cup {held[p] : p \in Procs}

Apart == \A n \in Mine : n \in Theirs => n = None

LEMMA MineIssued == TypeOK => \A n \in Mine : n \in 0..issued
  BY DEF TypeOK, BrowserTypeOK, Mine

LEMMA TheirsIssued == TypeOK => \A n \in Theirs : n \in 0..issued
  BY DEF TypeOK, ScriptTypeOK, Theirs

\* Nothing appears among the machine's pairs but none, and a pair just issued.
LEMMA TheirsGrow ==
    ASSUME TypeOK, ScriptNext, NEW n \in Theirs'
    PROVE  n \in Theirs \/ n = None \/ n = issued + 1
<1> DEFINE New(m) == m \in Theirs \/ m = None \/ m = issued + 1
<1> USE DEF files
<1>0. held \in [Procs -> 0..issued] /\ issued \in Nat
  BY DEF TypeOK, ScriptTypeOK, HubTypeOK
<1>1. \A p \in Procs : held[p] \in Theirs
  BY DEF Theirs
<1>2. tokenFile \in Theirs /\ refreshFile \in Theirs /\ env \in Theirs
  BY DEF Theirs
<1> HIDE DEF New
<1>h. \A p \in Procs : \A m : Hold(p, m) /\ New(m) => \A q \in Procs : New(held'[q])
  BY <1>0, <1>1 DEF Hold, New
<1>k. held' = held => \A q \in Procs : New(held'[q])
  BY <1>1 DEF New
<1>l. \A p \in Procs : Leave(p) => \A q \in Procs : New(held'[q])
  BY <1>h DEF Leave, New
<1>f. New(tokenFile) /\ New(refreshFile) /\ New(env) /\ New(None) /\ New(issued + 1)
      /\ \A q \in Procs : New(held[q])
  BY <1>1, <1>2 DEF New
<1> DEFINE Good == /\ New(tokenFile') /\ New(refreshFile') /\ New(env')
                   /\ \A q \in Procs : New(held'[q])
<1>3. ASSUME NEW p \in Procs, (\E skipping \in BOOLEAN : Call(p, skipping)) \/ Kill(p)
      PROVE  Good
  BY <1>3, <1>k, <1>l, <1>f DEF Call, Kill
<1>4. ASSUME NEW p \in Scripts, ScriptStep(p) PROVE Good
  <2>0. p \in Procs
    BY DEF Procs
  <2>1. CASE TryAcquire(p) \/ IsLockStale(p) \/ RemoveStale(p)
    BY <2>1, <1>k, <1>f DEF TryAcquire, IsLockStale, RemoveStale
  <2>2. CASE Sleep(p) \/ ReleaseLock(p)
    BY <2>0, <2>2, <1>k, <1>l, <1>f DEF Sleep, ReleaseLock
  <2>3. CASE LoadHubToken(p) \/ LoadRefreshToken(p)
    BY <2>0, <2>3, <1>k, <1>h, <1>f DEF LoadHubToken, LoadRefreshToken
  <2>4. CASE ValidateHubToken(p) \/ TakeExchanged(p) \/ SaveRefreshToken(p) \/ SaveHubToken(p)
    BY <2>0, <2>4, <1>k, <1>f DEF ValidateHubToken, TakeExchanged, SaveRefreshToken, SaveHubToken
  <2>5. CASE RefreshHubTokens(p)
    <3>1. Hold(p, issued + 1) \/ Hold(p, None)
      BY <2>5 DEF RefreshHubTokens, Exchange
    <3> QED
      BY <2>0, <2>5, <3>1, <1>h, <1>f DEF RefreshHubTokens
  <2>6. CASE LoginToHub(p)
    BY <2>0, <2>6, <1>h, <1>f DEF LoginToHub, Issue
  <2> QED
    BY <1>4, <2>1, <2>2, <2>3, <2>4, <2>5, <2>6 DEF ScriptStep
<1>5. ASSUME NEW p \in Scripts, RefreshFails(p) \/ LoginFails(p) PROVE Good
  BY <1>5, <1>h, <1>k, <1>f DEF RefreshFails, LoginFails, Procs
<1>6. ASSUME NEW p \in Plugins, PluginStep(p) PROVE Good
  <2>0. p \in Procs
    BY DEF Procs
  <2>1. CASE PluginLoad(p)
    BY <2>0, <2>1, <1>h, <1>k, <1>f DEF PluginLoad
  <2>2. CASE PluginValidate(p)
    BY <2>0, <2>2, <1>l, <1>k, <1>f DEF PluginValidate
  <2>3. CASE PluginLogin(p)
    BY <2>0, <2>3, <1>h, <1>f DEF PluginLogin, Issue
  <2>4. CASE PluginSave(p)
    BY <2>0, <2>4, <1>l, <1>f DEF PluginSave
  <2> QED
    BY <1>6, <2>1, <2>2, <2>3, <2>4 DEF PluginStep
<1>7. ASSUME OrphanAges \/ HolderIsSlow \/ TokenExpires PROVE Good
  BY <1>7, <1>k, <1>f DEF OrphanAges, HolderIsSlow, TokenExpires, scriptVars
<1>8. Good
  BY <1>3, <1>4, <1>5, <1>6, <1>7 DEF ScriptNext
<1> QED
  BY <1>8 DEF Theirs, New

\* And nothing among the browser's.
LEMMA MineGrow ==
    ASSUME TypeOK, BrowserNext, NEW n \in Mine'
    PROVE  n \in Mine \/ n = None \/ n = issued + 1
<1> DEFINE New(m) == m \in Mine \/ m = None \/ m = issued + 1
<1>0. /\ fetch \in [Tabs -> [Fetches -> [pc : {"idle"} \cup Calling, n : 0..issued]]]
      /\ promise \in [Tabs -> [pc : {"none", "posted", "answered"}, n : 0..issued]]
      /\ jar \in [auth : 0..issued, refresh : 0..issued, csrf : BOOLEAN]
  BY DEF TypeOK, BrowserTypeOK
<1>1. /\ New(jar.auth) /\ New(jar.refresh) /\ New(None) /\ New(issued + 1)
      /\ \A t \in Tabs : New(promise[t].n)
      /\ \A t \in Tabs, f \in Fetches : New(fetch[t][f].n)
  BY DEF Mine
<1> HIDE DEF New
<1> DEFINE GoodJar == New(jar'.auth) /\ New(jar'.refresh)
           GoodPromise == \A t \in Tabs : New(promise'[t].n)
           GoodFetch == \A t \in Tabs, f \in Fetches : New(fetch'[t][f].n)
<1>k. /\ jar' = jar => GoodJar
      /\ promise' = promise => GoodPromise
      /\ fetch' = fetch => GoodFetch
  BY <1>1
<1>p. ASSUME NEW t \in Tabs, NEW there, NEW m, New(m),
             promise' = [promise EXCEPT ![t] = [pc |-> there, n |-> m]]
      PROVE  GoodPromise
  <2> DEFINE r == [pc |-> there, n |-> m]
  <2>1. r.n = m /\ promise' = [promise EXCEPT ![t] = r]
    BY <1>p
  <2> HIDE DEF r
  <2>2. \A u \in Tabs : promise'[u] = IF u = t THEN r ELSE promise[u]
    BY <1>0, <2>1
  <2> QED
    BY <1>1, <1>p, <2>1, <2>2
<1>m. ASSUME NEW t \in Tabs, NEW f \in Fetches, NEW there, NEW m, New(m), Move(t, f, there, m)
      PROVE  GoodFetch
  <2> DEFINE r == [pc |-> there, n |-> m]
  <2>1. r.n = m /\ fetch' = [fetch EXCEPT ![t][f] = r]
    BY <1>m DEF Move
  <2> HIDE DEF r
  <2>2. \A u \in Tabs, g \in Fetches : fetch'[u][g] = IF u = t /\ g = f THEN r ELSE fetch[u][g]
    BY <1>0, <2>1
  <2> QED
    BY <1>1, <1>m, <2>1, <2>2
<1>f. ASSUME NEW t \in Tabs, Forget(t) PROVE GoodPromise /\ GoodFetch
  <2>1. GoodPromise
    BY <1>1, <1>f, <1>p DEF Forget, NoRefresh
  <2> DEFINE F == [f \in Fetches |-> NoFetch]
  <2>2. fetch' = [fetch EXCEPT ![t] = F] /\ \A f \in Fetches : F[f].n = None
    BY <1>f DEF Forget, NoFetch
  <2> HIDE DEF F
  <2>3. \A u \in Tabs : fetch'[u] = IF u = t THEN F ELSE fetch[u]
    BY <1>0, <2>2
  <2> QED
    BY <1>1, <2>1, <2>2, <2>3
<1>r. ASSUME NEW t \in Tabs, RedirectToLogin(t) PROVE GoodJar /\ GoodPromise /\ GoodFetch
  <2>1. GoodJar
    BY <1>0, <1>1, <1>r DEF RedirectToLogin
  <2> QED
    BY <1>f, <1>r, <2>1 DEF RedirectToLogin
<1>2. ASSUME NEW t \in Tabs, LogIn(t) \/ OpenApp(t) \/ RefreshLost(t)
      PROVE  GoodJar /\ GoodPromise /\ GoodFetch
  <2>1. CASE LogIn(t)
    BY <1>1, <1>k, <2>1 DEF LogIn, Issue
  <2>2. CASE OpenApp(t)
    BY <1>k, <1>f, <2>2 DEF OpenApp
  <2>3. CASE RefreshLost(t)
    BY <1>1, <1>k, <1>p, <2>3 DEF RefreshLost
  <2> QED
    BY <1>2, <2>1, <2>2, <2>3
<1>3. ASSUME NEW t \in Tabs, RefreshAtHub(t) PROVE GoodJar /\ GoodPromise /\ GoodFetch
  BY <1>1, <1>k, <1>p, <1>3 DEF RefreshAtHub, Exchange
<1>4. ASSUME NEW t \in Tabs, RefreshAnswer(t) PROVE GoodJar /\ GoodPromise /\ GoodFetch
  <2>1. CASE promise[t].n = None
    BY <1>r, <1>4, <2>1 DEF RefreshAnswer
  <2>2. CASE promise[t].n # None
    <3>1. /\ jar' = [auth |-> promise[t].n, refresh |-> promise[t].n, csrf |-> TRUE]
          /\ promise' = [promise EXCEPT ![t] = NoRefresh]
          /\ fetch' = [fetch EXCEPT ![t] = [f \in Fetches |->
                  IF @[f].pc = "waiting" THEN [pc |-> "again", n |-> jar'.auth] ELSE @[f]]]
      BY <1>4, <2>2 DEF RefreshAnswer
    <3>2. GoodJar
      BY <1>1, <3>1
    <3>3. GoodPromise
      BY <1>1, <1>p, <3>1 DEF NoRefresh
    <3> DEFINE r == [pc |-> "again", n |-> jar'.auth]
               F == [f \in Fetches |-> IF fetch[t][f].pc = "waiting" THEN r ELSE fetch[t][f]]
    <3>4. fetch' = [fetch EXCEPT ![t] = F] /\ r.n = jar'.auth
      BY <3>1
    <3> HIDE DEF r
    <3>5. \A f \in Fetches : New(F[f].n)
      BY <1>1, <3>2, <3>4
    <3> HIDE DEF F
    <3>6. \A u \in Tabs : fetch'[u] = IF u = t THEN F ELSE fetch[u]
      BY <1>0, <3>4
    <3> QED
      BY <1>1, <3>2, <3>3, <3>5, <3>6
  <2> QED
    BY <2>1, <2>2
<1>5. ASSUME NEW t \in Tabs, NEW f \in Fetches,
             ApiFetch(t, f) \/ FirstAnswer(t, f) \/ SecondAnswer(t, f)
      PROVE  GoodJar /\ GoodPromise /\ GoodFetch
  <2>1. CASE ApiFetch(t, f)
    BY <1>1, <1>k, <1>m, <2>1 DEF ApiFetch
  <2>2. CASE FirstAnswer(t, f)
    <3>1. GoodPromise
      BY <1>1, <1>k, <1>p, <2>2 DEF FirstAnswer, TryRefresh
    <3>2. GoodFetch
      BY <1>1, <1>m, <2>2 DEF FirstAnswer
    <3> QED
      BY <1>k, <2>2, <3>1, <3>2 DEF FirstAnswer
  <2>3. CASE SecondAnswer(t, f)
    BY <1>1, <1>k, <1>m, <1>r, <2>3 DEF SecondAnswer
  <2> QED
    BY <1>5, <2>1, <2>2, <2>3
<1>6. ASSUME CookiesExpire PROVE GoodJar /\ GoodPromise /\ GoodFetch
  <2>1. GoodJar
    BY <1>0, <1>1, <1>6 DEF CookiesExpire
  <2> QED
    BY <1>k, <1>6, <2>1 DEF CookiesExpire
<1>7. ASSUME AllRevoked PROVE GoodJar /\ GoodPromise /\ GoodFetch
  BY <1>k, <1>7 DEF AllRevoked
<1>8. GoodJar /\ GoodPromise /\ GoodFetch
  BY <1>2, <1>3, <1>4, <1>5, <1>6, <1>7 DEF BrowserNext, BrowserStep
<1>9. New(n)
  BY <1>8 DEF Mine
<1> QED
  BY <1>9 DEF New

LEMMA ApartStep == TypeOK /\ Apart /\ [Next]_vars => Apart'
<1> SUFFICES ASSUME TypeOK, Apart, [Next]_vars PROVE Apart'
  OBVIOUS
<1>0. issued \in Nat
  BY DEF TypeOK, HubTypeOK
<1>1. CASE ScriptNext /\ UNCHANGED browserVars
  <2>1. Mine' = Mine
    BY <1>1 DEF browserVars, Mine
  <2> QED
    BY <1>0, <1>1, <2>1, MineIssued, TheirsGrow DEF Apart
<1>2. CASE BrowserNext /\ UNCHANGED scriptVars
  <2>1. Theirs' = Theirs
    BY <1>2 DEF scriptVars, Theirs
  <2> QED
    BY <1>0, <1>2, <2>1, TheirsIssued, MineGrow DEF Apart
<1>3. CASE UNCHANGED vars
  BY <1>3 DEF vars, scriptVars, browserVars, Apart, Mine, Theirs
<1> QED
  BY <1>1, <1>2, <1>3 DEF Next

LEMMA ApartCorrect == Spec => []Apart
<1>1. Init => Apart
  BY DEF Init, BrowserInit, Apart, Mine, NoRefresh, NoFetch
<1> QED
  BY <1>1, ApartStep, TypeCorrect, PTL DEF Spec

-----------------------------------------------------------------------------
(***************************************************************************)
(* Refresh tokens of the machine.  What a script is about to present, or   *)
(* has just got, is not spent; and the file holds a spent one only while   *)
(* the script that spent it is on its way to it.                           *)
(***************************************************************************)
Carrying == {"exchange", "exchanged", "loggedin", "save"}
Replacing(p) == pc[p] \in {"exchanged", "save"}

Carried == \A p \in Scripts : pc[p] \in Carrying => held[p] \notin spent
Filed == refreshFile \in spent => \E p \in Scripts : Replacing(p)

ReplayInv == ~risky /\ ~cut /\ env = None => ~replayed /\ Carried /\ Filed

\* A step of one process that spends nothing.
LEMMA ReplayMove ==
    ASSUME TypeOK, ReplayInv, NEW p \in Procs, NEW there, Goto(p, there),
           \A q \in Procs \ {p} : held'[q] = held[q],
           UNCHANGED <<spent, env, replayed>>, risky => risky', cut => cut',
           p \in Scripts /\ there \in Carrying => held'[p] \notin spent \/ risky \/ cut \/ env # None,
           \/ refreshFile' = refreshFile /\ (Replacing(p) => there \in {"exchanged", "save"} \/ cut')
           \/ refreshFile' \notin spent
           \/ risky \/ cut \/ env # None
    PROVE  ReplayInv'
<1>1. Scripts \subseteq Procs /\ \A q \in Procs : pc'[q] = IF q = p THEN there ELSE pc[q]
  BY DEF TypeOK, ScriptTypeOK, Goto, Procs
<1> QED
  BY <1>1 DEF ReplayInv, Carried, Filed, Replacing

\* Nobody is at two places, and who carries a token is inside.
LEMMA CarriersInside ==
    \A p \in Scripts : (pc[p] \in Carrying => pc[p] \in Inside) /\ (Replacing(p) => pc[p] \in Inside)
  BY DEF Carrying, Replacing, Inside

LEMMA NoneUnspent == TypeOK => None \notin spent /\ issued + 1 \notin spent /\ None \notin live
  BY DEF TypeOK, HubTypeOK, None

LEMMA HeldOther ==
    ASSUME TypeOK, NEW p \in Procs, NEW n, Hold(p, n)
    PROVE  held'[p] = n /\ \A q \in Procs \ {p} : held'[q] = held[q]
  BY DEF TypeOK, ScriptTypeOK, Hold

LEMMA ReplayScript ==
    ASSUME TypeOK, LockInv, ReplayInv, NEW p \in Scripts, ScriptStep(p)
    PROVE  ReplayInv'
<1> USE NoneUnspent DEF locking, files, marks, hubVars
<1>0. p \in Procs
  BY DEF Procs
<1>1. CASE TryAcquire(p)
  <2>1. PICK there \in {"cached", "stat"} : Goto(p, there)
    BY <1>1 DEF TryAcquire
  <2> QED
    BY <1>0, <1>1, <2>1, ReplayMove DEF TryAcquire, At, Carrying, Replacing
<1>2. CASE IsLockStale(p)
  <2>1. PICK there \in {"unlink", "sleep"} : Goto(p, there)
    BY <1>2 DEF IsLockStale
  <2>2. risky => risky'
    BY <1>2 DEF IsLockStale
  <2> QED
    BY <1>0, <1>2, <2>1, <2>2, ReplayMove DEF IsLockStale, At, Carrying, Replacing
<1>3. CASE RemoveStale(p)
  BY <1>0, <1>3, ReplayMove DEF RemoveStale, At, Carrying, Replacing
<1>4. CASE Sleep(p)
  <2>1. CASE Goto(p, "open") /\ UNCHANGED <<skip, held>>
    BY <1>0, <1>4, <2>1, ReplayMove DEF Sleep, At, Carrying, Replacing
  <2>2. CASE Leave(p)
    BY <1>0, <1>4, <2>2, HeldOther, ReplayMove DEF Sleep, Leave, At, Carrying, Replacing
  <2> QED
    BY <1>4, <2>1, <2>2 DEF Sleep
<1>5. CASE ReleaseLock(p)
  BY <1>0, <1>5, HeldOther, ReplayMove DEF ReleaseLock, Leave, At, Carrying, Replacing
<1>6. CASE LoadHubToken(p)
  <2>1. PICK there \in {"refresh", "validate"} : Goto(p, there)
    BY <1>6 DEF LoadHubToken
  <2>2. \A q \in Procs \ {p} : held'[q] = held[q]
    BY <1>0, <1>6, HeldOther DEF LoadHubToken
  <2> QED
    BY <1>0, <1>6, <2>1, <2>2, ReplayMove DEF LoadHubToken, At, Carrying, Replacing
<1>7. CASE ValidateHubToken(p)
  <2>1. PICK there \in {"close", "refresh"} : Goto(p, there)
    BY <1>7 DEF ValidateHubToken
  <2> QED
    BY <1>0, <1>7, <2>1, ReplayMove DEF ValidateHubToken, At, Carrying, Replacing
<1>8. CASE LoadRefreshToken(p)
  <2>1. PICK there \in {"login", "exchange"} : Goto(p, there)
    BY <1>8 DEF LoadRefreshToken
  <2>2. \A q \in Procs \ {p} : held'[q] = held[q]
    BY <1>0, <1>8, HeldOther DEF LoadRefreshToken
  <2>3. pc[p] = "refresh" /\ pc[p] \in Inside
    BY <1>8 DEF LoadRefreshToken, At, Inside
  <2>4. ~risky => \A q \in Scripts : Replacing(q) => q = p
    BY <2>3, CarriersInside DEF LockInv, Holders
  <2>5. ~risky /\ ~cut /\ env = None => refreshFile \notin spent
    BY <2>3, <2>4 DEF ReplayInv, Filed, Replacing
  <2>6. there = "exchange" => held'[p] = IF env # None THEN env ELSE refreshFile
    BY <1>0, <1>8, <2>1, HeldOther DEF LoadRefreshToken, Goto, TypeOK, ScriptTypeOK
  <2>7. there \in Carrying => there = "exchange"
    BY <2>1 DEF Carrying
  <2> QED
    BY <1>0, <1>8, <2>1, <2>2, <2>3, <2>5, <2>6, <2>7, ReplayMove DEF LoadRefreshToken, Replacing
<1>9. CASE RefreshHubTokens(p)
  <2>1. pc[p] = "exchange" /\ pc[p] \in Inside /\ pc[p] \in Carrying
    BY <1>9 DEF RefreshHubTokens, At, Inside, Carrying
  <2>2. ~risky => \A q \in Scripts : pc[q] \in Carrying => q = p
    BY <2>1, CarriersInside DEF LockInv, Holders
  <2>3. /\ Scripts \subseteq Procs
        /\ \A q \in Procs : pc'[q] = IF q = p THEN "exchanged" ELSE pc[q]
    BY <1>9 DEF RefreshHubTokens, Goto, TypeOK, ScriptTypeOK, Procs
  <2>4. held'[p] \notin spent'
    <3>1. CASE Exchange(held[p]) /\ Hold(p, issued')
      <4>1. held'[p] = issued + 1 /\ spent' = spent \cup {held[p]} /\ held[p] # issued + 1
        BY <1>0, <3>1, HeldOther DEF Exchange, TypeOK, ScriptTypeOK, HubTypeOK
      <4> QED
        BY <4>1
    <3>2. CASE Refuse(held[p]) /\ Hold(p, None)
      BY <1>0, <3>2, HeldOther DEF Refuse
    <3> QED
      BY <1>9, <3>1, <3>2 DEF RefreshHubTokens
  <2>5. replayed' = (replayed \/ held[p] \in spent) /\ UNCHANGED <<risky, cut, env>>
    BY <1>9 DEF RefreshHubTokens
  <2>6. Replacing(p)'
    BY <1>0, <2>3 DEF Replacing
  <2>7. ~risky => \A q \in Scripts : q # p => pc'[q] \notin Carrying
    BY <2>2, <2>3
  <2>8. ~risky /\ ~cut /\ env = None => ~replayed'
    BY <2>1, <2>5 DEF ReplayInv, Carried
  <2> QED
    BY <2>4, <2>5, <2>6, <2>7, <2>8 DEF ReplayInv, Carried, Filed
<1>10. CASE TakeExchanged(p)
  <2>1. CASE held[p] = None
    BY <1>0, <1>10, <2>1, ReplayMove DEF TakeExchanged, At, Carrying, Replacing
  <2>2. CASE held[p] # None
    <3>1. Goto(p, "save") /\ UNCHANGED <<refreshFile, held>>
      BY <1>10, <2>2 DEF TakeExchanged
    <3>2. held[p] \notin spent \/ risky \/ cut \/ env # None
      BY <1>10 DEF TakeExchanged, At, ReplayInv, Carried, Carrying
    <3> QED
      BY <1>0, <1>10, <3>1, <3>2, ReplayMove DEF TakeExchanged
  <2> QED
    BY <2>1, <2>2
<1>11. CASE SaveRefreshToken(p)
  <2>1. held[p] \notin spent \/ risky \/ cut \/ env # None
    BY <1>11 DEF SaveRefreshToken, At, ReplayInv, Carried, Carrying
  <2> QED
    BY <1>0, <1>11, <2>1, ReplayMove DEF SaveRefreshToken, Carrying
<1>12. CASE LoginToHub(p)
  <2>1. held'[p] = issued + 1 /\ \A q \in Procs \ {p} : held'[q] = held[q]
    BY <1>0, <1>12, HeldOther DEF LoginToHub, Issue
  <2> QED
    BY <1>0, <1>12, <2>1, ReplayMove DEF LoginToHub, Issue, At, Replacing
<1>13. CASE SaveHubToken(p)
  <2>1. held[p] \notin spent \/ risky \/ cut \/ env # None
    BY <1>13 DEF SaveHubToken, At, ReplayInv, Carried, Carrying
  <2> QED
    BY <1>0, <1>13, <2>1, ReplayMove DEF SaveHubToken
<1> QED
  BY <1>1, <1>2, <1>3, <1>4, <1>5, <1>6, <1>7, <1>8, <1>9, <1>10, <1>11, <1>12, <1>13
     DEF ScriptStep

LEMMA ReplayOthers ==
    ASSUME TypeOK, ReplayInv, ScriptNext, ~\E p \in Scripts : ScriptStep(p)
    PROVE  ReplayInv'
<1> USE NoneUnspent DEF locking, files, marks, hubVars
<1>1. ASSUME NEW p \in Procs, NEW skipping \in BOOLEAN, Call(p, skipping) PROVE ReplayInv'
  <2>1. PICK there \in {"open", "p-cached"} : Goto(p, there)
    BY <1>1 DEF Call
  <2> QED
    BY <1>1, <2>1, ReplayMove DEF Call, At, Carrying, Replacing
<1>2. ASSUME NEW p \in Procs, Kill(p) PROVE ReplayInv'
  <2>1. cut' = (cut \/ Replacing(p))
    BY <1>2 DEF Kill, Replacing
  <2> QED
    BY <1>2, <2>1, HeldOther, ReplayMove DEF Kill, Leave, Carrying
<1>3. ASSUME NEW p \in Scripts, RefreshFails(p) \/ LoginFails(p) PROVE ReplayInv'
  <2>0. p \in Procs
    BY DEF Procs
  <2>1. CASE RefreshFails(p)
    BY <2>0, <2>1, HeldOther, ReplayMove DEF RefreshFails
  <2>2. CASE LoginFails(p)
    BY <2>0, <2>2, ReplayMove DEF LoginFails, Carrying, Replacing
  <2> QED
    BY <1>3, <2>1, <2>2
<1>4. ASSUME NEW p \in Plugins, PluginStep(p) PROVE ReplayInv'
  <2>0. p \in Procs /\ p \notin Scripts
    BY ProcessAssumption DEF Procs
  <2>1. PICK there \in {"idle"} \cup Plugged : Goto(p, there)
    BY <1>4 DEF PluginStep, PluginLoad, PluginValidate, PluginLogin, PluginSave, Leave, Plugged
  <2>2. UNCHANGED <<spent, env, replayed, refreshFile, risky, cut>>
    BY <1>4 DEF PluginStep, PluginLoad, PluginValidate, PluginLogin, PluginSave, Issue
  <2>3. \A q \in Procs \ {p} : held'[q] = held[q]
    BY <1>4, <2>0, HeldOther
       DEF PluginStep, PluginLoad, PluginValidate, PluginLogin, PluginSave, Leave
  <2>4. ~Replacing(p)
    BY <1>4 DEF PluginStep, PluginLoad, PluginValidate, PluginLogin, PluginSave, At, Replacing
  <2> QED
    BY <2>0, <2>1, <2>2, <2>3, <2>4, ReplayMove
<1>5. CASE OrphanAges \/ HolderIsSlow \/ TokenExpires
  BY <1>5 DEF OrphanAges, HolderIsSlow, TokenExpires, ExpireAccess, scriptVars,
              ReplayInv, Carried, Filed, Replacing
<1> QED
  BY <1>1, <1>2, <1>3, <1>4, <1>5 DEF ScriptNext

\* The browser spends only what is its own.
LEMMA SpentByBrowser ==
    ASSUME TypeOK, Apart, BrowserNext
    PROVE  \A n \in Theirs : n \in spent' => n \in spent
<1>1. ASSUME NEW t \in Tabs, RefreshAtHub(t) PROVE \A n \in Theirs : n \in spent' => n \in spent
  <2>1. CASE Exchange(promise[t].n)
    <3>1. promise[t].n \in Mine /\ promise[t].n # None
      BY <2>1, NoneUnspent DEF Mine, Exchange
    <3> QED
      BY <2>1, <3>1 DEF Exchange, Apart
  <2>2. CASE Refuse(promise[t].n)
    BY <2>2 DEF Refuse, hubVars
  <2> QED
    BY <1>1, <2>1, <2>2 DEF RefreshAtHub
<1>2. ASSUME ~\E t \in Tabs : RefreshAtHub(t) PROVE spent' = spent
  BY <1>2 DEF BrowserNext, BrowserStep, LogIn, OpenApp, ApiFetch, FirstAnswer, SecondAnswer,
              RefreshAnswer, RefreshLost, CookiesExpire, AllRevoked, Issue, ExpireAccess,
              RevokeAll, hubVars
<1> QED
  BY <1>1, <1>2

LEMMA ReplayStep ==
    ASSUME TypeOK, LockInv, Apart, ReplayInv, [Next]_vars
    PROVE  ReplayInv'
<1>1. CASE ScriptNext /\ UNCHANGED browserVars
  BY <1>1, ReplayScript, ReplayOthers
<1>2. CASE BrowserNext /\ UNCHANGED scriptVars
  <2>1. refreshFile \in Theirs /\ \A p \in Scripts : held[p] \in Theirs
    BY DEF Theirs, Procs
  <2> QED
    BY <1>2, <2>1, SpentByBrowser DEF scriptVars, ReplayInv, Carried, Filed, Replacing
<1>3. CASE UNCHANGED vars
  BY <1>3 DEF vars, hubVars, scriptVars, ReplayInv, Carried, Filed, Replacing
<1> QED
  BY <1>1, <1>2, <1>3 DEF Next

(***************************************************************************)
(* No script presents a refresh token that was exchanged before, for any   *)
(* number of scripts, plugins and tabs, unless the lock was broken, or a   *)
(* script was killed between the exchange and the file.                    *)
(***************************************************************************)
THEOREM NoReplayHolds == Spec => []NoReplay
<1>1. Init => ReplayInv
  BY DEF Init, HubInit, ScriptInit, ReplayInv, Carried, Filed, Carrying, Procs
<1>2. ReplayInv => NoReplay
  BY DEF ReplayInv, NoReplay
<1> QED
  BY <1>1, <1>2, ReplayStep, TypeCorrect, LockCorrect, ApartCorrect, PTL DEF Spec

-----------------------------------------------------------------------------
(***************************************************************************)
(* The tabs.  While they refresh one at a time and no refresh has failed,  *)
(* the refresh token that is posted can be exchanged, the pair that is on  *)
(* its way back is accepted, and an open app has a cookie that can be      *)
(* exchanged, or is about to be replaced.                                  *)
(***************************************************************************)
Refreshing(t) == promise[t].pc # "none"

\* Only an open app waits for anything.
TabShape ==
    \A t \in Tabs : /\ Refreshing(t) => tab[t] = "app"
                    /\ \A f \in Fetches : ~Fetching(t, f, "idle") => tab[t] = "app"

Smooth == ~contested /\ ~failed

OneRefresh == \A t, u \in Tabs : Refreshing(t) /\ Refreshing(u) => t = u
Posted == \A t \in Tabs : promise[t].pc = "posted" => promise[t].n \in live
Answered ==
    \A t \in Tabs : promise[t].pc = "answered" =>
        promise[t].n \in live \cap good /\ promise[t].n # jar.auth
Replaceable == jar.refresh \in live \/ \E t \in Tabs : promise[t].pc = "answered"
Equipped == (jar.csrf \/ \E t \in Tabs : tab[t] = "app") => Replaceable
Repeated == \A t \in Tabs, f \in Fetches : Fetching(t, f, "again") => fetch[t][f].n \in good

TabInv ==
    Smooth => ~expelled /\ OneRefresh /\ Posted /\ Answered /\ Equipped /\ Repeated

LEMMA TabFacts ==
    ASSUME TypeOK
    PROVE  /\ fetch \in [Tabs -> [Fetches -> [pc : {"idle"} \cup Calling, n : 0..issued]]]
           /\ promise \in [Tabs -> [pc : {"none", "posted", "answered"}, n : 0..issued]]
           /\ jar \in [auth : 0..issued, refresh : 0..issued, csrf : BOOLEAN]
           /\ tab \in [Tabs -> {"app", "login"}]
           /\ None \notin live /\ None \notin good /\ issued + 1 \notin live
           /\ issued \in Nat /\ issued + 1 \notin 0..issued
  BY DEF TypeOK, BrowserTypeOK, HubTypeOK, None

\* How the functions look after a step at one tab.
LEMMA PromiseAt ==
    ASSUME TypeOK, NEW t \in Tabs, NEW there, NEW n,
           promise' = [promise EXCEPT ![t] = [pc |-> there, n |-> n]]
    PROVE  /\ promise'[t].pc = there /\ promise'[t].n = n
           /\ \A u \in Tabs : u # t => promise'[u] = promise[u]
<1> DEFINE r == [pc |-> there, n |-> n]
<1>1. r.pc = there /\ r.n = n /\ promise' = [promise EXCEPT ![t] = r]
  OBVIOUS
<1> HIDE DEF r
<1> QED
  BY <1>1, TabFacts

LEMMA MoveAt ==
    ASSUME TypeOK, NEW t \in Tabs, NEW f \in Fetches, NEW there, NEW n, Move(t, f, there, n)
    PROVE  /\ fetch'[t][f].pc = there /\ fetch'[t][f].n = n
           /\ \A u \in Tabs, g \in Fetches : u # t \/ g # f => fetch'[u][g] = fetch[u][g]
<1> DEFINE r == [pc |-> there, n |-> n]
<1>1. r.pc = there /\ r.n = n /\ fetch' = [fetch EXCEPT ![t][f] = r]
  BY DEF Move
<1> HIDE DEF r
<1> QED
  BY <1>1, TabFacts

LEMMA ForgetAt ==
    ASSUME TypeOK, NEW t \in Tabs, Forget(t)
    PROVE  /\ promise'[t].pc = "none"
           /\ \A f \in Fetches : fetch'[t][f].pc = "idle"
           /\ \A u \in Tabs : u # t => promise'[u] = promise[u] /\ fetch'[u] = fetch[u]
<1>1. promise'[t].pc = "none" /\ \A u \in Tabs : u # t => promise'[u] = promise[u]
  BY PromiseAt DEF Forget, NoRefresh
<1> DEFINE F == [f \in Fetches |-> NoFetch]
<1>2. fetch' = [fetch EXCEPT ![t] = F] /\ \A f \in Fetches : F[f].pc = "idle"
  BY DEF Forget, NoFetch
<1> HIDE DEF F
<1> QED
  BY <1>1, <1>2, TabFacts

\* The functions after an answer that brings a pair.
LEMMA AnswerAt ==
    ASSUME TypeOK, NEW t \in Tabs, RefreshAnswer(t), promise[t].n # None
    PROVE  /\ jar' = [auth |-> promise[t].n, refresh |-> promise[t].n, csrf |-> TRUE]
           /\ promise'[t].pc = "none"
           /\ \A u \in Tabs : u # t => promise'[u] = promise[u] /\ fetch'[u] = fetch[u]
           /\ \A f \in Fetches :
                 IF Fetching(t, f, "waiting")
                 THEN fetch'[t][f].pc = "again" /\ fetch'[t][f].n = promise[t].n
                 ELSE fetch'[t][f] = fetch[t][f]
<1>1. /\ jar' = [auth |-> promise[t].n, refresh |-> promise[t].n, csrf |-> TRUE]
      /\ promise' = [promise EXCEPT ![t] = NoRefresh]
      /\ fetch' = [fetch EXCEPT ![t] = [f \in Fetches |->
              IF @[f].pc = "waiting" THEN [pc |-> "again", n |-> jar'.auth] ELSE @[f]]]
  BY DEF RefreshAnswer
<1>2. promise'[t].pc = "none" /\ \A u \in Tabs : u # t => promise'[u] = promise[u]
  BY <1>1, PromiseAt DEF NoRefresh
<1> DEFINE r == [pc |-> "again", n |-> jar'.auth]
           F == [f \in Fetches |-> IF fetch[t][f].pc = "waiting" THEN r ELSE fetch[t][f]]
<1>3. fetch' = [fetch EXCEPT ![t] = F] /\ r.pc = "again" /\ r.n = promise[t].n
  BY <1>1
<1> HIDE DEF r
<1>4. \A f \in Fetches : F[f] = IF fetch[t][f].pc = "waiting" THEN r ELSE fetch[t][f]
  OBVIOUS
<1> HIDE DEF F
<1>5. fetch'[t] = F /\ \A u \in Tabs : u # t => fetch'[u] = fetch[u]
  BY <1>3, TabFacts
<1> QED
  BY <1>1, <1>2, <1>3, <1>4, <1>5 DEF Fetching

LEMMA ShapeStep == TypeOK /\ TabShape /\ [Next]_vars => TabShape'
<1> SUFFICES ASSUME TypeOK, TabShape, [Next]_vars PROVE TabShape'
  OBVIOUS
<1> USE TabFacts DEF TabShape, Refreshing, Fetching
<1>1. ASSUME NEW t \in Tabs, LogIn(t) PROVE TabShape'
  BY <1>1 DEF LogIn
<1>2. ASSUME NEW t \in Tabs, OpenApp(t) PROVE TabShape'
  BY <1>2, ForgetAt DEF OpenApp
<1>3. ASSUME NEW t \in Tabs, RefreshLost(t) PROVE TabShape'
  BY <1>3, PromiseAt DEF RefreshLost
<1>4. ASSUME NEW t \in Tabs, RefreshAtHub(t) PROVE TabShape'
  <2>1. PICK n : promise' = [promise EXCEPT ![t] = [pc |-> "answered", n |-> n]]
    BY <1>4 DEF RefreshAtHub
  <2> QED
    BY <1>4, <2>1, PromiseAt DEF RefreshAtHub
<1>5. ASSUME NEW t \in Tabs, RedirectToLogin(t) PROVE TabShape'
  BY <1>5, ForgetAt DEF RedirectToLogin
<1>6. ASSUME NEW t \in Tabs, RefreshAnswer(t) PROVE TabShape'
  <2>1. CASE promise[t].n = None
    BY <1>5, <1>6, <2>1 DEF RefreshAnswer
  <2>2. CASE promise[t].n # None
    <3>1. tab' = tab
      BY <1>6, <2>2 DEF RefreshAnswer
    <3>2. \A f \in Fetches : fetch'[t][f].pc # "idle" => fetch[t][f].pc # "idle"
      BY <1>6, <2>2, AnswerAt
    <3>3. /\ promise'[t].pc = "none"
          /\ \A u \in Tabs : u # t => promise'[u] = promise[u] /\ fetch'[u] = fetch[u]
      BY <1>6, <2>2, AnswerAt
    <3>4. ASSUME NEW u \in Tabs
          PROVE  /\ promise'[u].pc # "none" => tab'[u] = "app"
                 /\ \A f \in Fetches : fetch'[u][f].pc # "idle" => tab'[u] = "app"
      <4>1. CASE u = t
        BY <3>1, <3>2, <3>3, <4>1
      <4>2. CASE u # t
        BY <3>1, <3>3, <4>2
      <4> QED
        BY <4>1, <4>2
    <3> QED
      BY <3>4
  <2> QED
    BY <2>1, <2>2
<1>7. ASSUME NEW t \in Tabs, NEW f \in Fetches, ApiFetch(t, f) PROVE TabShape'
  BY <1>7, MoveAt DEF ApiFetch
<1>8. ASSUME NEW t \in Tabs, NEW f \in Fetches, FirstAnswer(t, f) PROVE TabShape'
  <2>1. tab[t] = "app" /\ tab' = tab
    BY <1>8 DEF FirstAnswer
  <2>2. PICK there, n : Move(t, f, there, n)
    BY <1>8 DEF FirstAnswer
  <2>3. \A u \in Tabs : u # t => promise'[u] = promise[u]
    BY <1>8, PromiseAt DEF FirstAnswer, TryRefresh
  <2>4. \A u \in Tabs, g \in Fetches : u # t => fetch'[u][g] = fetch[u][g]
    BY <2>2, MoveAt
  <2>5. ASSUME NEW u \in Tabs
        PROVE  /\ promise'[u].pc # "none" => tab'[u] = "app"
               /\ \A g \in Fetches : fetch'[u][g].pc # "idle" => tab'[u] = "app"
    <3>1. CASE u = t
      BY <2>1, <3>1
    <3>2. CASE u # t
      BY <2>1, <2>3, <2>4, <3>2
    <3> QED
      BY <3>1, <3>2
  <2> QED
    BY <2>5
<1>9. ASSUME NEW t \in Tabs, NEW f \in Fetches, SecondAnswer(t, f) PROVE TabShape'
  <2>1. CASE Move(t, f, "idle", None) /\ UNCHANGED <<tab, promise, jar, expelled>>
    <3>1. \A u \in Tabs, g \in Fetches :
             IF u = t /\ g = f THEN fetch'[u][g].pc = "idle" ELSE fetch'[u][g] = fetch[u][g]
      BY <2>1, MoveAt
    <3> QED
      BY <2>1, <3>1
  <2> QED
    BY <1>5, <1>9, <2>1 DEF SecondAnswer
<1>10. CASE CookiesExpire \/ AllRevoked
  BY <1>10 DEF CookiesExpire, AllRevoked
<1>11. CASE UNCHANGED browserVars
  BY <1>11 DEF browserVars
<1> QED
  BY <1>1, <1>2, <1>3, <1>4, <1>6, <1>7, <1>8, <1>9, <1>10, <1>11
     DEF Next, BrowserNext, BrowserStep, vars

-----------------------------------------------------------------------------
\* The machine neither spends nor expires what is the browser's.
LEMMA ScriptHub ==
    ASSUME TypeOK, Apart, ScriptNext, NEW n \in Mine
    PROVE  (n \in live => n \in live') /\ (n \in good => n \in good')
<1> DEFINE Kept == (n \in live => n \in live') /\ (n \in good => n \in good')
<1> USE TabFacts DEF hubVars
<1>1. ASSUME NEW p \in Scripts, RefreshHubTokens(p) PROVE Kept
  <2>1. held[p] \in Theirs
    BY DEF Theirs, Procs
  <2>2. CASE Exchange(held[p])
    <3>1. held[p] \in live /\ live' = (live \ {held[p]}) \cup {issued'} /\ good' = good \cup {issued'}
      BY <2>2 DEF Exchange
    <3>2. n # held[p]
      BY <2>1, <3>1 DEF Apart
    <3> QED
      BY <3>1, <3>2
  <2>3. CASE Refuse(held[p])
    BY <2>3 DEF Refuse
  <2> QED
    BY <1>1, <2>2, <2>3 DEF RefreshHubTokens
<1>2. ASSUME TokenExpires PROVE Kept
  <2>1. tokenFile \in Theirs /\ tokenFile # None /\ live' = live /\ good' = good \ {tokenFile}
    BY <1>2 DEF TokenExpires, ExpireAccess, Theirs
  <2> QED
    BY <2>1 DEF Apart
<1>3. ASSUME NEW p \in Procs, LoginToHub(p) \/ PluginLogin(p) PROVE Kept
  BY <1>3 DEF LoginToHub, PluginLogin, Issue
<1>4. ASSUME NEW p \in Procs, (\E skipping \in BOOLEAN : Call(p, skipping)) \/ Kill(p) PROVE Kept
  BY <1>4 DEF Call, Kill
<1>5. ASSUME NEW p \in Scripts, ScriptStep(p) \/ RefreshFails(p) \/ LoginFails(p) PROVE Kept
  <2>1. p \in Procs
    BY DEF Procs
  <2> QED
    BY <1>1, <1>3, <1>5, <2>1
       DEF ScriptStep, TryAcquire, IsLockStale, RemoveStale, Sleep, ReleaseLock, LoadHubToken,
           ValidateHubToken, LoadRefreshToken, TakeExchanged, SaveRefreshToken, SaveHubToken,
           RefreshFails, LoginFails
<1>6. ASSUME NEW p \in Plugins, PluginStep(p) PROVE Kept
  <2>1. p \in Procs
    BY DEF Procs
  <2> QED
    BY <1>3, <1>6, <2>1 DEF PluginStep, PluginLoad, PluginValidate, PluginSave
<1>7. ASSUME OrphanAges \/ HolderIsSlow PROVE Kept
  BY <1>7 DEF OrphanAges, HolderIsSlow
<1> QED
  BY <1>2, <1>4, <1>5, <1>6, <1>7 DEF ScriptNext

LEMMA TabsUntouched ==
    ASSUME TypeOK, TabInv, UNCHANGED browserVars,
           \A n \in Mine : (n \in live => n \in live') /\ (n \in good => n \in good')
    PROVE  TabInv'
<1>1. /\ jar.refresh \in Mine
      /\ \A t \in Tabs : promise[t].n \in Mine
      /\ \A t \in Tabs, f \in Fetches : fetch[t][f].n \in Mine
  BY DEF Mine
<1>2. Smooth' = Smooth /\ expelled' = expelled /\ OneRefresh' = OneRefresh
  BY DEF browserVars, Smooth, OneRefresh, Refreshing
<1>3. Posted => Posted'
  BY <1>1 DEF browserVars, Posted
<1>4. Answered => Answered'
  BY <1>1 DEF browserVars, Answered
<1>5. Equipped => Equipped'
  BY <1>1 DEF browserVars, Equipped, Replaceable
<1>6. Repeated => Repeated'
  BY <1>1 DEF browserVars, Repeated, Fetching
<1> QED
  BY <1>2, <1>3, <1>4, <1>5, <1>6 DEF TabInv

LEMMA TabLogIn ==
    ASSUME TypeOK, TabInv, NEW t \in Tabs, LogIn(t) PROVE TabInv'
<1>1. /\ live' = live \cup {issued + 1} /\ good' = good \cup {issued + 1}
      /\ jar'.auth = issued + 1 /\ jar'.refresh = issued + 1
      /\ UNCHANGED <<promise, fetch, contested, failed, expelled>>
  BY DEF LogIn, Issue
<1>2. \A u \in Tabs : promise[u].n # issued + 1
  BY TabFacts
<1> QED
  BY <1>1, <1>2 DEF TabInv, Smooth, OneRefresh, Posted, Answered, Equipped, Replaceable, Repeated,
                    Refreshing, Fetching

LEMMA TabOpenApp ==
    ASSUME TypeOK, TabShape, TabInv, NEW t \in Tabs, OpenApp(t) PROVE TabInv'
<1>1. /\ jar.csrf /\ ~Refreshing(t)
      /\ UNCHANGED <<live, good, jar, contested, failed, expelled>>
  BY TabFacts DEF OpenApp, TabShape, hubVars
<1>2. /\ promise'[t].pc = "none" /\ promise[t].pc = "none"
      /\ \A u \in Tabs : u # t => promise'[u] = promise[u]
  BY <1>1, ForgetAt DEF OpenApp, Refreshing
<1>3. \A u \in Tabs, f \in Fetches : fetch'[u][f].pc # "idle" => fetch'[u][f] = fetch[u][f]
  BY ForgetAt DEF OpenApp
<1>4. OneRefresh => OneRefresh'
  BY <1>2 DEF OneRefresh, Refreshing
<1>5. (Posted => Posted') /\ (Answered => Answered')
  BY <1>1, <1>2 DEF Posted, Answered
<1>6. Equipped => Equipped'
  BY <1>1, <1>2 DEF Equipped, Replaceable
<1>7. Repeated => Repeated'
  BY <1>1, <1>3 DEF Repeated, Fetching
<1> QED
  BY <1>1, <1>4, <1>5, <1>6, <1>7 DEF TabInv, Smooth

LEMMA TabRefreshAtHub ==
    ASSUME TypeOK, TabInv, NEW t \in Tabs, RefreshAtHub(t) PROVE TabInv'
<1>1. promise[t].pc = "posted" /\ UNCHANGED <<jar, tab, fetch, contested, failed, expelled>>
  BY DEF RefreshAtHub
<1>2. CASE ~Smooth
  BY <1>1, <1>2 DEF TabInv, Smooth
<1>3. CASE Smooth
  <2>1. promise[t].n \in live /\ \A u \in Tabs : u # t => promise[u].pc = "none"
    BY <1>1, <1>3 DEF TabInv, Posted, OneRefresh, Refreshing
  <2>2. /\ Exchange(promise[t].n)
        /\ promise' = [promise EXCEPT ![t] = [pc |-> "answered", n |-> issued']]
    BY <2>1 DEF RefreshAtHub, Refuse
  <2>3. /\ live' = (live \ {promise[t].n}) \cup {issued + 1} /\ good' = good \cup {issued + 1}
        /\ issued' = issued + 1
    BY <2>2 DEF Exchange
  <2>4. /\ promise'[t].pc = "answered" /\ promise'[t].n = issued + 1
        /\ \A u \in Tabs : u # t => promise'[u] = promise[u]
    BY <2>2, <2>3, PromiseAt
  <2>5. OneRefresh' /\ Posted'
    BY <2>1, <2>4 DEF OneRefresh, Posted, Refreshing
  <2>6. Answered'
    <3>1. jar.auth # issued + 1
      BY TabFacts
    <3> QED
      BY <1>1, <2>1, <2>3, <2>4, <3>1 DEF Answered
  <2>7. Equipped'
    BY <2>4 DEF Equipped, Replaceable
  <2>8. Repeated'
    BY <1>1, <1>3, <2>3 DEF TabInv, Repeated, Fetching
  <2> QED
    BY <1>1, <1>3, <2>5, <2>6, <2>7, <2>8 DEF TabInv
<1> QED
  BY <1>2, <1>3

LEMMA TabRefreshAnswer ==
    ASSUME TypeOK, TabInv, NEW t \in Tabs, RefreshAnswer(t) PROVE TabInv'
<1>1. promise[t].pc = "answered" /\ UNCHANGED <<live, good, contested, failed>>
  BY DEF RefreshAnswer, hubVars
<1>2. CASE ~Smooth
  BY <1>1, <1>2 DEF TabInv, Smooth
<1>3. CASE Smooth
  <2>1. promise[t].n \in live \cap good /\ \A u \in Tabs : u # t => promise[u].pc = "none"
    BY <1>1, <1>3 DEF TabInv, Answered, OneRefresh, Refreshing
  <2>2. promise[t].n # None
    BY <2>1, TabFacts
  <2>3. /\ jar' = [auth |-> promise[t].n, refresh |-> promise[t].n, csrf |-> TRUE]
        /\ promise'[t].pc = "none"
        /\ \A u \in Tabs : u # t => promise'[u] = promise[u] /\ fetch'[u] = fetch[u]
    BY <2>2, AnswerAt
  <2>4. \A f \in Fetches : IF Fetching(t, f, "waiting")
                           THEN fetch'[t][f].pc = "again" /\ fetch'[t][f].n = promise[t].n
                           ELSE fetch'[t][f] = fetch[t][f]
    BY <2>2, AnswerAt
  <2>5. expelled' = expelled
    BY <2>2 DEF RefreshAnswer
  <2>6. \A u \in Tabs : promise'[u].pc = "none"
    BY <2>1, <2>3
  <2>7. OneRefresh' /\ Posted' /\ Answered'
    BY <2>6 DEF OneRefresh, Posted, Answered, Refreshing
  <2>8. Equipped'
    <3>1. jar'.refresh = promise[t].n
      BY <2>3
    <3> QED
      BY <1>1, <2>1, <3>1 DEF Equipped, Replaceable
  <2>9. Repeated'
    <3>1. Repeated
      BY <1>3 DEF TabInv
    <3>2. ASSUME NEW u \in Tabs, NEW f \in Fetches, fetch'[u][f].pc = "again"
          PROVE  fetch'[u][f].n \in good
      <4>1. CASE u = t /\ Fetching(t, f, "waiting")
        BY <2>1, <2>4, <4>1
      <4>2. CASE ~(u = t /\ Fetching(t, f, "waiting"))
        <5>1. fetch'[u][f] = fetch[u][f]
          BY <2>3, <2>4, <4>2
        <5> QED
          BY <3>1, <3>2, <5>1 DEF Repeated, Fetching
      <4> QED
        BY <4>1, <4>2
    <3> QED
      BY <1>1, <3>2 DEF Repeated, Fetching
  <2> QED
    BY <1>1, <1>3, <2>5, <2>7, <2>8, <2>9 DEF TabInv, Smooth
<1> QED
  BY <1>2, <1>3

LEMMA TabFetches ==
    ASSUME TypeOK, TabShape, TabInv, NEW t \in Tabs, NEW f \in Fetches,
           ApiFetch(t, f) \/ FirstAnswer(t, f) \/ SecondAnswer(t, f)
    PROVE  TabInv'
<1>0. UNCHANGED <<live, good, failed>>
  BY DEF ApiFetch, FirstAnswer, SecondAnswer, hubVars
<1>m. ASSUME NEW there, NEW n, Move(t, f, there, n), there # "again", Repeated PROVE Repeated'
  BY <1>0, <1>m, MoveAt DEF Repeated, Fetching
<1>1. CASE ApiFetch(t, f)
  <2>1. UNCHANGED <<jar, tab, promise, contested, expelled>> /\ Move(t, f, "sent", jar.auth)
    BY <1>1 DEF ApiFetch
  <2>2. Repeated => Repeated'
    BY <1>m, <2>1
  <2> QED
    BY <1>0, <2>1, <2>2
       DEF TabInv, Smooth, OneRefresh, Posted, Answered, Equipped, Replaceable, Refreshing
<1>2. CASE FirstAnswer(t, f)
  <2>1. UNCHANGED <<jar, tab, expelled>>
    BY <1>2 DEF FirstAnswer
  <2>2. Repeated => Repeated'
    BY <1>2, <1>m DEF FirstAnswer
  <2>3. CASE UNCHANGED <<promise, contested>>
    BY <1>0, <2>1, <2>2, <2>3
       DEF TabInv, Smooth, OneRefresh, Posted, Answered, Equipped, Replaceable, Refreshing
  <2>4. CASE ~UNCHANGED <<promise, contested>>
    <3>1. /\ promise[t].pc = "none"
          /\ promise' = [promise EXCEPT ![t] = [pc |-> "posted", n |-> jar.refresh]]
          /\ contested' = (contested \/ PostedElsewhere(t))
      BY <1>2, <2>4 DEF FirstAnswer, TryRefresh
    <3>2. /\ promise'[t].pc = "posted" /\ promise'[t].n = jar.refresh
          /\ \A u \in Tabs : u # t => promise'[u] = promise[u]
      BY <3>1, PromiseAt
    <3>3. CASE ~Smooth'
      BY <3>3 DEF TabInv
    <3>4. CASE Smooth'
      <4>1. Smooth /\ \A u \in Tabs : promise[u].pc = "none"
        BY <1>0, <3>1, <3>4 DEF Smooth, PostedElsewhere
      <4>2. tab[t] = "app"
        BY <1>2 DEF FirstAnswer, TabShape, Fetching
      <4>3. jar.refresh \in live
        BY <4>1, <4>2 DEF TabInv, Equipped, Replaceable
      <4>4. OneRefresh' /\ Posted' /\ Answered'
        BY <1>0, <3>2, <4>1, <4>3 DEF OneRefresh, Posted, Answered, Refreshing
      <4>5. Equipped'
        BY <1>0, <2>1, <4>3 DEF Equipped, Replaceable
      <4> QED
        BY <2>1, <2>2, <4>1, <4>4, <4>5 DEF TabInv
    <3> QED
      BY <3>3, <3>4
  <2> QED
    BY <2>3, <2>4
<1>3. CASE SecondAnswer(t, f)
  <2>1. contested' = contested
    BY <1>3 DEF SecondAnswer
  <2>2. CASE ~Smooth
    BY <1>0, <2>1, <2>2 DEF TabInv, Smooth
  <2>3. CASE Smooth
    <3>1. fetch[t][f].n \in good
      BY <1>3, <2>3 DEF SecondAnswer, TabInv, Repeated
    <3>2. Move(t, f, "idle", None) /\ UNCHANGED <<tab, promise, jar, expelled>>
      BY <1>3, <3>1 DEF SecondAnswer
    <3>3. Repeated => Repeated'
      BY <1>m, <3>2
    <3> QED
      BY <1>0, <2>1, <3>2, <3>3
         DEF TabInv, Smooth, OneRefresh, Posted, Answered, Equipped, Replaceable, Refreshing
  <2> QED
    BY <2>2, <2>3
<1> QED
  BY <1>1, <1>2, <1>3

LEMMA TabCookiesExpire ==
    ASSUME TypeOK, TabInv, CookiesExpire PROVE TabInv'
<1>1. /\ good' = good \ {jar.auth} /\ jar'.csrf = FALSE /\ jar'.refresh = jar.refresh
      /\ jar'.auth = None
      /\ \A t \in Tabs, f \in Fetches : ~Fetching(t, f, "again")
      /\ UNCHANGED <<live, tab, promise, fetch, contested, failed, expelled>>
  BY TabFacts DEF CookiesExpire, ExpireAccess
<1>2. OneRefresh' = OneRefresh /\ (Posted => Posted') /\ Repeated'
  BY <1>1 DEF OneRefresh, Posted, Repeated, Refreshing, Fetching
<1>3. Answered => Answered'
  BY <1>1, TabFacts DEF Answered
<1>4. Equipped => Equipped'
  BY <1>1 DEF Equipped, Replaceable
<1> QED
  BY <1>1, <1>2, <1>3, <1>4 DEF TabInv, Smooth

LEMMA TabStep ==
    ASSUME TypeOK, Apart, TabShape, TabInv, [Next]_vars
    PROVE  TabInv'
<1>1. CASE ScriptNext /\ UNCHANGED browserVars
  BY <1>1, ScriptHub, TabsUntouched
<1>2. CASE BrowserNext /\ UNCHANGED scriptVars
  <2>1. ASSUME NEW t \in Tabs, RefreshLost(t) PROVE TabInv'
    BY <2>1 DEF RefreshLost, TabInv, Smooth
  <2>2. ASSUME AllRevoked PROVE TabInv'
    BY <2>2 DEF AllRevoked, TabInv, Smooth
  <2> QED
    BY <1>2, <2>1, <2>2, TabLogIn, TabOpenApp, TabRefreshAtHub, TabRefreshAnswer, TabFetches,
       TabCookiesExpire
       DEF BrowserNext, BrowserStep
<1>3. CASE UNCHANGED vars
  BY <1>3, TabsUntouched DEF vars, hubVars
<1> QED
  BY <1>1, <1>2, <1>3 DEF Next

(***************************************************************************)
(* For any number of tabs and calls, no tab is sent to the login page      *)
(* unless two tabs refreshed at the same time, or a refresh failed.        *)
(***************************************************************************)
THEOREM NotExpelledHolds == Spec => []NotExpelled
<1>1. Init => TabShape /\ TabInv
  BY DEF Init, BrowserInit, TabShape, TabInv, OneRefresh, Posted, Answered, Equipped, Repeated,
         Refreshing, Fetching, NoRefresh, NoFetch
<1>2. TabInv => NotExpelled
  BY DEF TabInv, Smooth, NotExpelled
<1> QED
  BY <1>1, <1>2, ShapeStep, TabStep, TypeCorrect, ApartCorrect, PTL DEF Spec
=============================================================================
