---------------------------- MODULE BrowserAuth ----------------------------
(***************************************************************************)
(* The tabs of one browser (client/src/api.ts).  They share the cookies    *)
(* and nothing else: a request that is answered 401 waits for a refresh,   *)
(* of which there is at most one per tab, and is repeated once; if it is   *)
(* refused again, the tab goes to the login page and expires the one       *)
(* cookie it can reach, that of the CSRF token.                            *)
(***************************************************************************)
EXTENDS HubTokens

CONSTANTS
    Tabs,
    Fetches        \* slots for calls of apiFetch in flight, in every tab

VARIABLES
    jar,           \* the cookies: [auth, refresh] and csrf
    tab,           \* tab[t]: "app" or "login"
    promise,       \* promise[t]: the refresh under way, refreshPromise
    fetch,         \* fetch[t][f]: where the call in slot f stands
    contested,     \* history: two tabs refreshed at the same time
    failed,        \* history: a refresh failed on the way, or its token was revoked
    expelled       \* history: a tab was sent to the login page

browserVars == <<jar, tab, promise, fetch, contested, failed, expelled>>

\* "sent" and "again": the first and the second request; "waiting" for tryRefresh.
Calling == {"sent", "waiting", "again"}

NoRefresh == [pc |-> "none", n |-> None]

BrowserTypeOK ==
    /\ jar \in [auth : 0..issued, refresh : 0..issued, csrf : BOOLEAN]
    /\ tab \in [Tabs -> {"app", "login"}]
    /\ promise \in [Tabs -> [pc : {"none", "posted", "answered"}, n : 0..issued]]
    /\ fetch \in [Tabs -> [Fetches -> [pc : {"idle"} \cup Calling, n : 0..issued]]]
    /\ contested \in BOOLEAN /\ failed \in BOOLEAN /\ expelled \in BOOLEAN

NoFetch == [pc |-> "idle", n |-> None]

BrowserInit ==
    /\ jar = [auth |-> None, refresh |-> None, csrf |-> FALSE]
    /\ tab = [t \in Tabs |-> "login"]
    /\ promise = [t \in Tabs |-> NoRefresh]
    /\ fetch = [t \in Tabs |-> [f \in Fetches |-> NoFetch]]
    /\ contested = FALSE /\ failed = FALSE /\ expelled = FALSE

Fetching(t, f, pc) == fetch[t][f].pc = pc
Move(t, f, pc, n) == fetch' = [fetch EXCEPT ![t][f] = [pc |-> pc, n |-> n]]

\* A page is loaded: what the old one was waiting for is gone.
Forget(t) ==
    /\ promise' = [promise EXCEPT ![t] = NoRefresh]
    /\ fetch' = [fetch EXCEPT ![t] = [f \in Fetches |-> NoFetch]]

-----------------------------------------------------------------------------
(***************************************************************************)
(* The user logs in, or opens the app in another tab; the app looks for    *)
(* the CSRF cookie and goes to the login page without one.                 *)
(***************************************************************************)
LogIn(t) ==
    /\ tab[t] = "login" /\ CountCall
    /\ Issue
    /\ jar' = [auth |-> issued', refresh |-> issued', csrf |-> TRUE]
    /\ tab' = [tab EXCEPT ![t] = "app"]
    /\ UNCHANGED <<promise, fetch, contested, failed, expelled>>

OpenApp(t) ==
    /\ tab[t] = "login" /\ jar.csrf
    /\ tab' = [tab EXCEPT ![t] = "app"]
    /\ Forget(t)
    /\ UNCHANGED <<hubVars, budget, jar, contested, failed, expelled>>

-----------------------------------------------------------------------------
(***************************************************************************)
(* apiFetch: the request goes out with the cookies of the moment.          *)
(***************************************************************************)
ApiFetch(t, f) ==
    /\ tab[t] = "app" /\ Fetching(t, f, "idle") /\ CountCall
    /\ Move(t, f, "sent", jar.auth)
    /\ UNCHANGED <<hubVars, jar, tab, promise, contested, failed, expelled>>

\* The answer of the first request; after a 401, tryRefresh.
PostedElsewhere(t) == \E u \in Tabs \ {t} : promise[u].pc # "none"

RefreshAgain(t) ==
    /\ promise' = [promise EXCEPT ![t] = [pc |-> "posted", n |-> jar.refresh]]
    /\ contested' = (contested \/ PostedElsewhere(t))

TryRefresh(t) ==
    IF promise[t].pc = "none"
    THEN /\ promise' = [promise EXCEPT ![t] = [pc |-> "posted", n |-> jar.refresh]]
         /\ contested' = (contested \/ PostedElsewhere(t))
    ELSE UNCHANGED <<promise, contested>>

FirstAnswer(t, f) ==
    /\ Fetching(t, f, "sent")
    /\ IF fetch[t][f].n \in good
       THEN Move(t, f, "idle", None) /\ UNCHANGED <<promise, contested>>
       ELSE Move(t, f, "waiting", None) /\ TryRefresh(t)
    /\ UNCHANGED <<hubVars, budget, jar, tab, failed, expelled>>

(***************************************************************************)
(* POST /auth/refresh at the hub, with the cookie it was sent with; the    *)
(* hub leaves the cookies alone when it refuses.                           *)
(***************************************************************************)
RefreshAtHub(t) ==
    /\ promise[t].pc = "posted"
    /\ \/ /\ Exchange(promise[t].n)
          /\ promise' = [promise EXCEPT ![t] = [pc |-> "answered", n |-> issued']]
       \/ /\ Refuse(promise[t].n)
          /\ promise' = [promise EXCEPT ![t] = [pc |-> "answered", n |-> None]]
    /\ UNCHANGED <<budget, jar, tab, fetch, contested, failed, expelled>>

RefreshLost(t) ==
    /\ promise[t].pc # "none" /\ CountFault
    /\ promise' = [promise EXCEPT ![t] = [pc |-> "answered", n |-> None]]
    /\ failed' = TRUE
    /\ UNCHANGED <<hubVars, jar, tab, fetch, contested, expelled>>

(***************************************************************************)
(* The answer: new cookies or none, and everybody who awaits the promise   *)
(* goes on.  The first one whose request is refused again, or was not      *)
(* repeated, takes the page to the login.                                  *)
(***************************************************************************)
RedirectToLogin(t) ==
    /\ tab' = [tab EXCEPT ![t] = "login"]
    /\ Forget(t)
    /\ jar' = [jar EXCEPT !.csrf = FALSE]
    /\ expelled' = TRUE

RefreshAnswer(t) ==
    /\ promise[t].pc = "answered"
    /\ IF promise[t].n = None
       THEN RedirectToLogin(t)
       ELSE /\ jar' = [auth |-> promise[t].n, refresh |-> promise[t].n, csrf |-> TRUE]
            /\ promise' = [promise EXCEPT ![t] = NoRefresh]
            /\ fetch' = [fetch EXCEPT ![t] = [f \in Fetches |->
                             IF @[f].pc = "waiting" THEN [pc |-> "again", n |-> jar'.auth] ELSE @[f]]]
            /\ UNCHANGED <<tab, expelled>>
    /\ UNCHANGED <<hubVars, budget, contested, failed>>

\* The answer of the second request.
SecondAnswer(t, f) ==
    /\ Fetching(t, f, "again")
    /\ IF fetch[t][f].n \in good
       THEN Move(t, f, "idle", None) /\ UNCHANGED <<tab, promise, jar, expelled>>
       ELSE RedirectToLogin(t)
    /\ UNCHANGED <<hubVars, budget, contested, failed>>

-----------------------------------------------------------------------------
(***************************************************************************)
(* A day after they were set the session and the cookies of both tokens    *)
(* but the refresh token are gone (no request takes that long).            *)
(***************************************************************************)
CookiesExpire ==
    /\ \A t \in Tabs, f \in Fetches : ~Fetching(t, f, "again")
    /\ ExpireAccess(jar.auth)
    /\ jar' = [jar EXCEPT !.auth = None, !.csrf = FALSE]
    /\ UNCHANGED <<tab, promise, fetch, contested, failed, expelled>>

AllRevoked ==
    /\ RevokeAll
    /\ failed' = TRUE
    /\ UNCHANGED <<jar, tab, promise, fetch, contested, expelled>>

BrowserStep(t) ==
    \/ RefreshAtHub(t) \/ RefreshAnswer(t)
    \/ \E f \in Fetches : FirstAnswer(t, f) \/ SecondAnswer(t, f)

BrowserNext ==
    \/ \E t \in Tabs :
          \/ LogIn(t) \/ OpenApp(t) \/ RefreshLost(t) \/ BrowserStep(t)
          \/ \E f \in Fetches : ApiFetch(t, f)
    \/ CookiesExpire \/ AllRevoked

-----------------------------------------------------------------------------
(***************************************************************************)
(* "Coalesce concurrent refresh attempts into a single request" (api.ts):  *)
(* no tab is sent to the login page because several of its own requests    *)
(* were refused at once, or because another tab has refreshed before; only *)
(* when two tabs refresh at the same time, or the refresh itself fails.    *)
(***************************************************************************)
NotExpelled == expelled => contested \/ failed
=============================================================================
