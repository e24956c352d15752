----------------------------- MODULE ScriptAuth -----------------------------
(***************************************************************************)
(* Processes on one machine that share the hub's tokens in two files:      *)
(* scripts and bridges (scripts/lib/hub-auth.ts), which take turns through *)
(* a lock file, and the OpenClaw plugin (openclaw-extension/src/auth.ts),  *)
(* which uses the file of the access token without it.  Every access to a  *)
(* file and every request is a step; a process may be killed between two   *)
(* of them, and a slow request keeps the lock for longer than the others   *)
(* respect it.                                                             *)
(***************************************************************************)
EXTENDS HubTokens

CONSTANTS Scripts, Plugins

Free == "free"
Orphan == "orphan"         \* the lock file of a process that was killed

ASSUME ProcessAssumption == Scripts \cap Plugins = {} /\ Free \notin Scripts /\ Orphan \notin Scripts

VARIABLES
    lock,          \* who created the lock file that exists; or Free, or Orphan
    old,           \* it was created more than LOCK_STALE_MS ago
    tokenFile,     \* .swissclaw-token
    refreshFile,   \* .swissclaw-refresh-token
    env,           \* HUB_REFRESH_TOKEN
    pc,            \* pc[p]: where process p stands
    skip,          \* skip[p]: skipCachedToken, or forceLogin
    held,          \* held[p]: the token p has read or got
    risky,         \* history: the lock file was, or could be, taken from its owner
    cut,           \* history: a script was killed between an exchange and its file
    replayed       \* history: a spent refresh token was presented

scriptVars == <<lock, old, tokenFile, refreshFile, env, pc, skip, held, risky, cut, replayed>>

Procs == Scripts \cup Plugins

\* withTokenLock outside and inside the callback, and the plugin's function.
Waiting == {"open", "stat", "unlink", "sleep"}
Inside == {"cached", "validate", "refresh", "exchange", "exchanged", "login", "loggedin",
           "save", "close"}
Plugged == {"p-cached", "p-validate", "p-login", "p-save"}

ScriptTypeOK ==
    /\ lock \in Scripts \cup {Free, Orphan} /\ old \in BOOLEAN
    /\ {tokenFile, refreshFile, env} \subseteq 0..issued
    /\ pc \in [Procs -> {"idle"} \cup Waiting \cup Inside \cup Plugged]
    /\ \A p \in Scripts : pc[p] \notin Plugged
    /\ \A p \in Plugins : pc[p] \in {"idle"} \cup Plugged
    /\ skip \in [Procs -> BOOLEAN] /\ held \in [Procs -> 0..issued]
    /\ risky \in BOOLEAN /\ cut \in BOOLEAN /\ replayed \in BOOLEAN

ScriptInit ==
    /\ lock = Free /\ old = FALSE
    /\ tokenFile = None /\ refreshFile = None /\ env \in {None, 1}
    /\ pc = [p \in Procs |-> "idle"]
    /\ skip = [p \in Procs |-> FALSE] /\ held = [p \in Procs |-> None]
    /\ risky = FALSE /\ cut = FALSE /\ replayed = FALSE

At(p, here) == pc[p] = here
Goto(p, there) == pc' = [pc EXCEPT ![p] = there]
Hold(p, n) == held' = [held EXCEPT ![p] = n]

\* The function returns, throws, or dies with its process.
Leave(p) ==
    /\ Goto(p, "idle") /\ Hold(p, None)
    /\ skip' = [skip EXCEPT ![p] = FALSE]

locking == <<lock, old, risky>>
files == <<tokenFile, refreshFile, env>>
marks == <<cut, replayed>>

-----------------------------------------------------------------------------
(***************************************************************************)
(* ensureHubAuth is called, with the cached token or (after a 401) not.    *)
(***************************************************************************)
Call(p, skipping) ==
    /\ At(p, "idle") /\ CountCall
    /\ Goto(p, IF p \in Scripts THEN "open" ELSE "p-cached")
    /\ skip' = [skip EXCEPT ![p] = skipping]
    /\ UNCHANGED <<hubVars, locking, files, held, marks>>

(***************************************************************************)
(* tryAcquireLock: openSync with 'wx' creates the file or fails.           *)
(***************************************************************************)
TryAcquireUnlessMine(p) ==
    /\ At(p, "open")
    /\ Goto(p, "cached") /\ lock' = p /\ old' = FALSE
    /\ UNCHANGED <<hubVars, budget, risky, files, skip, held, marks>>

TryAcquire(p) ==
    /\ At(p, "open")
    /\ IF lock = Free
       THEN Goto(p, "cached") /\ lock' = p /\ old' = FALSE
       ELSE Goto(p, "stat") /\ UNCHANGED <<lock, old>>
    /\ UNCHANGED <<hubVars, budget, risky, files, skip, held, marks>>

(***************************************************************************)
(* isLockStale: by the age of the file that is there now.  Two processes   *)
(* that both find it stale will both remove what is there by then.         *)
(***************************************************************************)
NeverStale(p) ==
    /\ At(p, "stat")
    /\ Goto(p, "sleep") /\ UNCHANGED risky
    /\ UNCHANGED <<hubVars, budget, lock, old, files, skip, held, marks>>

IsLockStale(p) ==
    /\ At(p, "stat")
    /\ IF lock # Free /\ old
       THEN /\ Goto(p, "unlink")
            /\ risky' = (risky \/ \E q \in Scripts \ {p} : At(q, "unlink"))
       ELSE Goto(p, "sleep") /\ UNCHANGED risky
    /\ UNCHANGED <<hubVars, budget, lock, old, files, skip, held, marks>>

\* unlinkSync by name, and back to the head of the loop.
RemoveStale(p) ==
    /\ At(p, "unlink")
    /\ Goto(p, "open") /\ lock' = Free /\ old' = FALSE
    /\ UNCHANGED <<hubVars, budget, risky, files, skip, held, marks>>

\* sleep(250), or the error after LOCK_TIMEOUT_MS.
Sleep(p) ==
    /\ At(p, "sleep")
    /\ \/ Goto(p, "open") /\ UNCHANGED <<skip, held>>
       \/ Leave(p)
    /\ UNCHANGED <<hubVars, budget, locking, files, marks>>

\* releaseLock: unlinkSync by name again, whoever created the file.
ReleaseLock(p) ==
    /\ At(p, "close")
    /\ Leave(p) /\ lock' = Free /\ old' = FALSE
    /\ UNCHANGED <<hubVars, budget, risky, files, marks>>

-----------------------------------------------------------------------------
(***************************************************************************)
(* The callback of ensureHubAuth: the cached token if the hub takes it ... *)
(***************************************************************************)
LoadHubToken(p) ==
    /\ At(p, "cached")
    /\ IF skip[p] \/ tokenFile = None
       THEN Goto(p, "refresh") /\ UNCHANGED held
       ELSE Goto(p, "validate") /\ Hold(p, tokenFile)
    /\ UNCHANGED <<hubVars, budget, locking, files, skip, marks>>

\* A request that fails counts as a token that is refused.
ValidateHubToken(p) ==
    /\ At(p, "validate")
    /\ \/ held[p] \in good /\ Goto(p, "close") /\ UNCHANGED <<tokenFile, budget>>
       \/ /\ IF held[p] \in good THEN CountFault ELSE UNCHANGED budget
          /\ Goto(p, "refresh") /\ tokenFile' = None
    /\ UNCHANGED <<hubVars, locking, refreshFile, env, skip, held, marks>>

(***************************************************************************)
(* ... else the refresh token (that of the environment first) is exchanged *)
(* for a new pair ...                                                      *)
(***************************************************************************)
LoadRefreshToken(p) ==
    /\ At(p, "refresh")
    /\ LET n == IF env # None THEN env ELSE refreshFile IN
       IF n = None THEN Goto(p, "login") /\ UNCHANGED held
                   ELSE Goto(p, "exchange") /\ Hold(p, n)
    /\ UNCHANGED <<hubVars, budget, locking, files, skip, marks>>

RefreshHubTokens(p) ==
    /\ At(p, "exchange")
    /\ Goto(p, "exchanged")
    /\ \/ Exchange(held[p]) /\ Hold(p, issued')
       \/ Refuse(held[p]) /\ Hold(p, None)
    /\ replayed' = (replayed \/ held[p] \in spent)
    /\ UNCHANGED <<budget, locking, files, skip, cut>>

\* The request fails, or its answer is lost: null.
RefreshFails(p) ==
    /\ pc[p] \in {"exchange", "exchanged"} /\ CountFault
    /\ Goto(p, "exchanged") /\ Hold(p, None)
    /\ UNCHANGED <<hubVars, locking, files, skip, marks>>

\* saveHubToken with the new one; or clearRefreshToken, and on to the login.
TakeExchanged(p) ==
    /\ At(p, "exchanged")
    /\ IF held[p] = None
       THEN Goto(p, "login") /\ refreshFile' = None /\ UNCHANGED tokenFile
       ELSE Goto(p, "save") /\ tokenFile' = held[p] /\ UNCHANGED refreshFile
    /\ UNCHANGED <<hubVars, budget, locking, env, skip, held, marks>>

\* saveRefreshToken.
SaveFirstOnly(p) ==
    /\ At(p, "save")
    /\ Goto(p, "close") /\ refreshFile' = IF refreshFile = None THEN held[p] ELSE refreshFile
    /\ UNCHANGED <<hubVars, budget, locking, tokenFile, env, skip, held, marks>>

SaveRefreshToken(p) ==
    /\ At(p, "save")
    /\ Goto(p, "close") /\ refreshFile' = held[p]
    /\ UNCHANGED <<hubVars, budget, locking, tokenFile, env, skip, held, marks>>

(***************************************************************************)
(* ... else a login, whose pair is saved in the same way.                  *)
(***************************************************************************)
LoginToHub(p) ==
    /\ At(p, "login")
    /\ Issue
    /\ Goto(p, "loggedin") /\ Hold(p, issued')
    /\ UNCHANGED <<budget, locking, files, skip, marks>>

SaveHubToken(p) ==
    /\ At(p, "loggedin")
    /\ Goto(p, "save") /\ tokenFile' = held[p]
    /\ UNCHANGED <<hubVars, budget, locking, refreshFile, env, skip, held, marks>>

\* The login fails or its answer is lost: an error, through the finally block.
LoginFails(p) ==
    /\ pc[p] \in {"login", "loggedin"} /\ CountFault
    /\ Goto(p, "close")
    /\ UNCHANGED <<hubVars, locking, files, skip, held, marks>>

-----------------------------------------------------------------------------
(***************************************************************************)
(* The plugin: load, validate, clear, log in, save; no lock, and no use of *)
(* the refresh token that comes with a login.                              *)
(***************************************************************************)
PluginLoad(p) ==
    /\ At(p, "p-cached")
    /\ IF ~skip[p] /\ tokenFile # None
       THEN Goto(p, "p-validate") /\ Hold(p, tokenFile) /\ UNCHANGED tokenFile
       ELSE Goto(p, "p-login") /\ tokenFile' = None /\ UNCHANGED held
    /\ UNCHANGED <<hubVars, budget, locking, refreshFile, env, skip, marks>>

PluginValidate(p) ==
    /\ At(p, "p-validate")
    /\ \/ held[p] \in good /\ Leave(p) /\ UNCHANGED <<tokenFile, budget>>
       \/ /\ IF held[p] \in good THEN CountFault ELSE UNCHANGED budget
          /\ Goto(p, "p-login") /\ tokenFile' = None /\ UNCHANGED <<skip, held>>
    /\ UNCHANGED <<hubVars, locking, refreshFile, env, marks>>

PluginLogin(p) ==
    /\ At(p, "p-login")
    /\ Issue
    /\ Goto(p, "p-save") /\ Hold(p, issued')
    /\ UNCHANGED <<budget, locking, files, skip, marks>>

PluginSave(p) ==
    /\ At(p, "p-save")
    /\ Leave(p) /\ tokenFile' = held[p]
    /\ UNCHANGED <<hubVars, budget, locking, refreshFile, env, marks>>

-----------------------------------------------------------------------------
(***************************************************************************)
(* Time and death.  The lock file of a killed process stays; that of a     *)
(* living one becomes stale only when a request takes two minutes.  A call *)
(* of the plugin whose login fails ends like a killed one.                 *)
(***************************************************************************)
OrphanAges ==
    /\ lock = Orphan /\ ~old /\ old' = TRUE
    /\ UNCHANGED <<hubVars, budget, lock, risky, files, pc, skip, held, marks>>

HolderIsSlow ==
    /\ lock \in Scripts /\ ~old /\ old' = TRUE /\ CountFault
    /\ risky' = TRUE
    /\ UNCHANGED <<hubVars, lock, files, pc, skip, held, marks>>

Kill(p) ==
    /\ ~At(p, "idle") /\ CountFault
    /\ Leave(p)
    /\ lock' = IF lock = p THEN Orphan ELSE lock
    /\ cut' = (cut \/ pc[p] \in {"exchanged", "save"})
    /\ UNCHANGED <<hubVars, old, risky, files, replayed>>

TokenExpires ==
    /\ tokenFile # None /\ ExpireAccess(tokenFile)
    /\ UNCHANGED scriptVars

-----------------------------------------------------------------------------
ScriptStep(p) ==
    \/ TryAcquire(p) \/ IsLockStale(p) \/ RemoveStale(p) \/ Sleep(p) \/ ReleaseLock(p)
    \/ LoadHubToken(p) \/ ValidateHubToken(p) \/ LoadRefreshToken(p) \/ RefreshHubTokens(p)
    \/ TakeExchanged(p) \/ SaveRefreshToken(p) \/ LoginToHub(p) \/ SaveHubToken(p)

PluginStep(p) == PluginLoad(p) \/ PluginValidate(p) \/ PluginLogin(p) \/ PluginSave(p)

ScriptNext ==
    \/ \E p \in Procs : (\E skipping \in BOOLEAN : Call(p, skipping)) \/ Kill(p)
    \/ \E p \in Scripts : ScriptStep(p) \/ RefreshFails(p) \/ LoginFails(p)
    \/ \E p \in Plugins : PluginStep(p)
    \/ OrphanAges \/ HolderIsSlow \/ TokenExpires

-----------------------------------------------------------------------------
(***************************************************************************)
(* Mutual exclusion: two scripts are inside withTokenLock at the same time *)
(* only if a holder was so slow that its lock file passed for stale, or    *)
(* two scripts found the same stale file (each removes whatever file is    *)
(* there by then).  Crashes, timeouts and the plugin do not break it.      *)
(***************************************************************************)
Exclusive ==
    \A p, q \in Scripts : pc[p] \in Inside /\ pc[q] \in Inside /\ p # q => risky

(***************************************************************************)
(* "Exchange a refresh token for a new session token + rotated refresh     *)
(* token" (hub-auth.ts): no script presents a refresh token that has       *)
(* already been exchanged, unless the lock was broken as above, or a       *)
(* script was killed on the way to the file.  (With no token in the        *)
(* environment, which is the same for ever.)                               *)
(***************************************************************************)
NoReplay == replayed => risky \/ cut \/ env # None

(***************************************************************************)
(* Every call of ensureHubAuth ends, with a token or with an error.        *)
(***************************************************************************)
CallsEnd == \A p \in Procs : ~At(p, "idle") ~> At(p, "idle")
=============================================================================
