----------------------------- MODULE AuthTokens -----------------------------
(***************************************************************************)
(* Sessions, refresh tokens and the lock of one account: routes/auth.ts,   *)
(* /api/login of index.ts and the stores of middleware/auth.ts.  Every row *)
(* carries the id of its user and every statement names one user, so the   *)
(* accounts are independent and one is enough.                             *)
(*                                                                         *)
(* A handler is a chain of statements on the pool, each of them a step; a  *)
(* password is compared between two of them, with the hash the first one   *)
(* read.  A row of either table is "live" until it expires, is revoked or  *)
(* is deleted by the clean-up; no statement tells these three apart, and   *)
(* no statement makes a row live again.                                    *)
(***************************************************************************)
EXTENDS Naturals

CONSTANTS
    Reqs,          \* slots for requests in flight
    Tokens,        \* refresh tokens (random, never used twice)
    Sessions,      \* session tokens (likewise)
    None,          \* no token
    MaxAttempts,   \* MAX_FAILED_ATTEMPTS (5)
    MaxWrong,      \* bound: wrong passwords
    MaxFaults      \* bound: failing queries

ASSUME AuthAssumption ==
    /\ None \notin Tokens \cup Sessions
    /\ MaxAttempts \in Nat \ {0} /\ MaxWrong \in Nat /\ MaxFaults \in Nat

VARIABLES
    refresh,    \* refresh[t]: the row of t in refresh_tokens
    session,    \* session[s]: the row of s in sessions
    attempts,   \* users.failed_login_attempts
    locked,     \* users.locked_until is in the future
    req,        \* req[r]: where the handler in slot r stands
    chain,      \* history: chain[t] is the token of the login that t descends from
    used,       \* history: times t was exchanged for another
    wrong,      \* wrong passwords so far
    faults      \* queries that may still fail

rows == <<refresh, session, attempts, locked>>
history == <<chain, used, wrong>>
vars == <<rows, req, history, faults>>

Row == {"none", "live", "dead"}

Idle == [pc |-> "idle", t |-> None, s |-> None, n |-> 0, barred |-> FALSE]

\* The statement a handler waits for.
Query == {"punish", "reset", "issue both", "issue session", "issue token",
          "rotate", "check lock", "unissue", "open",
          "end session", "end token", "change", "end sessions", "end tokens"}

Request == [pc : Query \cup {"idle"}, t : Tokens \cup {None}, s : Sessions \cup {None},
            n : Nat, barred : BOOLEAN]

TypeOK ==
    /\ refresh \in [Tokens -> Row] /\ session \in [Sessions -> Row]
    /\ attempts \in Nat /\ locked \in BOOLEAN
    /\ req \in [Reqs -> Request]
    /\ chain \in [Tokens -> Tokens \cup {None}]
    /\ \A t \in Tokens : refresh[t] = "none" <=> chain[t] = None
    /\ used \in [Tokens -> Nat] /\ wrong \in 0..MaxWrong /\ faults \in 0..MaxFaults

Init ==
    /\ refresh = [t \in Tokens |-> "none"] /\ session = [s \in Sessions |-> "none"]
    /\ attempts = 0 /\ locked = FALSE
    /\ req = [r \in Reqs |-> Idle]
    /\ chain = [t \in Tokens |-> None] /\ used = [t \in Tokens |-> 0]
    /\ wrong = 0 /\ faults = MaxFaults

At(r, pc) == req[r].pc = pc
Begin(r, q) == At(r, "idle") /\ req' = [req EXCEPT ![r] = q]
Goto(r, pc) == req' = [req EXCEPT ![r].pc = pc]
Finish(r) == req' = [req EXCEPT ![r] = Idle]

Kill(table, S) == [x \in DOMAIN table |-> IF x \in S /\ table[x] = "live" THEN "dead" ELSE table[x]]

\* The lock is off: whoever came in while it was on is not barred any more.
Unbar == [r \in Reqs |-> [req[r] EXCEPT !.barred = FALSE]]

-----------------------------------------------------------------------------
(***************************************************************************)
(* Login with a password: SELECT of the user (423 if locked), compare.  A  *)
(* wrong password writes the counter it read, plus one.                    *)
(***************************************************************************)
Login(r, right) ==
    /\ ~locked
    /\ right \/ wrong < MaxWrong
    /\ Begin(r, [Idle EXCEPT !.n = attempts,
                             !.pc = IF ~right THEN "punish"
                                    ELSE IF attempts > 0 THEN "reset" ELSE "issue both"])
    /\ wrong' = IF right THEN wrong ELSE wrong + 1
    /\ UNCHANGED <<rows, chain, used, faults>>

Punish(r) ==
    /\ At(r, "punish")
    /\ attempts' = req[r].n + 1
    /\ locked' = (attempts' >= MaxAttempts)
    /\ req' = [(IF locked' THEN req ELSE Unbar) EXCEPT ![r] = Idle]
    /\ UNCHANGED <<refresh, session, history, faults>>

Reset(r) ==
    /\ At(r, "reset")
    /\ attempts' = 0 /\ locked' = FALSE
    /\ req' = [Unbar EXCEPT ![r].pc = "issue both"]
    /\ UNCHANGED <<refresh, session, history, faults>>

(***************************************************************************)
(* createSession and createRefreshToken run in parallel (Promise.all).  A  *)
(* login with Google comes here without a compare, and clears the counter  *)
(* and the lock in the end.                                                *)
(***************************************************************************)
GoogleLogin(r) ==
    /\ ~locked
    /\ Begin(r, [Idle EXCEPT !.pc = "issue both"])
    /\ UNCHANGED <<rows, history, faults>>

NewSession(s) == session[s] = "none" /\ session' = [session EXCEPT ![s] = "live"]
NewToken(t, c) ==
    /\ refresh[t] = "none"
    /\ refresh' = [refresh EXCEPT ![t] = "live"]
    /\ chain' = [chain EXCEPT ![t] = c]

IssueSession(r) ==
    /\ \E s \in Sessions :
          /\ NewSession(s)
          /\ \/ /\ At(r, "issue both")
                /\ req' = [req EXCEPT ![r].pc = "issue token", ![r].s = s]
             \/ At(r, "issue session") /\ Finish(r)
    /\ UNCHANGED <<refresh, attempts, locked, history, faults>>

IssueToken(r) ==
    /\ \E t \in Tokens :
          /\ NewToken(t, t)
          /\ \/ /\ At(r, "issue both")
                /\ req' = [req EXCEPT ![r].pc = "issue session", ![r].t = t]
             \/ At(r, "issue token") /\ Finish(r)
    /\ UNCHANGED <<session, attempts, locked, used, wrong, faults>>

(***************************************************************************)
(* POST /auth/refresh.  validateAndRotate: UPDATE ... SET revoked_at WHERE *)
(* token = t AND revoked_at IS NULL (401 if it hits nothing), then INSERT  *)
(* of the next token.                                                      *)
(***************************************************************************)
RefreshUnchecked(r, t) ==
    /\ refresh[t] # "none"
    /\ Begin(r, [Idle EXCEPT !.pc = "rotate", !.t = t, !.barred = locked])
    /\ refresh' = [refresh EXCEPT ![t] = "dead"]
    /\ used' = [used EXCEPT ![t] = @ + 1]
    /\ UNCHANGED <<session, attempts, locked, chain, wrong, faults>>

RefreshAndKeep(r, t) ==
    /\ refresh[t] = "live"
    /\ Begin(r, [Idle EXCEPT !.pc = "rotate", !.t = t, !.barred = locked])
    /\ UNCHANGED <<rows, history, faults>>

Refresh(r, t) ==
    /\ refresh[t] = "live"
    /\ Begin(r, [Idle EXCEPT !.pc = "rotate", !.t = t, !.barred = locked])
    /\ refresh' = [refresh EXCEPT ![t] = "dead"]
    /\ used' = [used EXCEPT ![t] = @ + 1]
    /\ UNCHANGED <<session, attempts, locked, chain, wrong, faults>>

Rotate(r) ==
    /\ At(r, "rotate")
    /\ \E t \in Tokens :
          /\ NewToken(t, chain[req[r].t])
          /\ req' = [req EXCEPT ![r].pc = "check lock", ![r].t = t]
    /\ UNCHANGED <<session, attempts, locked, used, wrong, faults>>

\* SELECT locked_until; a locked account loses the token it was just given.
CheckNothing(r) ==
    /\ At(r, "check lock")
    /\ Goto(r, "open")
    /\ UNCHANGED <<rows, history, faults>>

CheckLock(r) ==
    /\ At(r, "check lock")
    /\ IF locked THEN Goto(r, "unissue") ELSE Goto(r, "open")
    /\ UNCHANGED <<rows, history, faults>>

Unissue(r) ==
    /\ At(r, "unissue")
    /\ refresh' = Kill(refresh, {req[r].t})
    /\ Finish(r)
    /\ UNCHANGED <<session, attempts, locked, history, faults>>

OpenSession(r) ==
    /\ At(r, "open")
    /\ \E s \in Sessions : NewSession(s)
    /\ Finish(r)
    /\ UNCHANGED <<refresh, attempts, locked, history, faults>>

-----------------------------------------------------------------------------
(***************************************************************************)
(* POST /auth/logout: validateSession (otherwise nothing happens), then    *)
(* revokeSession, then the refresh token if the client sent one.  A        *)
(* failing revokeSession is logged and swallowed.                          *)
(***************************************************************************)
Logout(r, s, t) ==
    /\ session[s] = "live"
    /\ Begin(r, [Idle EXCEPT !.pc = "end session", !.s = s, !.t = t])
    /\ UNCHANGED <<rows, history, faults>>

Swallowed(table) == UNCHANGED table /\ faults > 0 /\ faults' = faults - 1

EndSession(r) ==
    /\ At(r, "end session")
    /\ \/ session' = Kill(session, {req[r].s}) /\ UNCHANGED faults
       \/ Swallowed(session)
    /\ IF req[r].t = None THEN Finish(r) ELSE Goto(r, "end token")
    /\ UNCHANGED <<refresh, attempts, locked, history>>

EndToken(r) ==
    /\ At(r, "end token")
    /\ refresh' = Kill(refresh, {req[r].t})
    /\ Finish(r)
    /\ UNCHANGED <<session, attempts, locked, history, faults>>

(***************************************************************************)
(* POST /auth/change-password: validateSession, SELECT and compare, UPDATE *)
(* of the hash, then all sessions (a failure is swallowed) and all refresh *)
(* tokens of the user.                                                     *)
(***************************************************************************)
ChangePassword(r, s) ==
    /\ session[s] = "live"
    /\ Begin(r, [Idle EXCEPT !.pc = "change"])
    /\ UNCHANGED <<rows, history, faults>>

Change(r) ==
    /\ At(r, "change")
    /\ Goto(r, "end sessions")
    /\ UNCHANGED <<rows, history, faults>>

EndSessions(r) ==
    /\ At(r, "end sessions")
    /\ \/ session' = Kill(session, Sessions) /\ UNCHANGED faults
       \/ Swallowed(session)
    /\ Goto(r, "end tokens")
    /\ UNCHANGED <<refresh, attempts, locked, history>>

EndTokens(r) ==
    /\ At(r, "end tokens")
    /\ refresh' = Kill(refresh, Tokens)
    /\ Finish(r)
    /\ UNCHANGED <<session, attempts, locked, history, faults>>

-----------------------------------------------------------------------------
(***************************************************************************)
(* One statement each: the lock runs out, an administrator unlocks the     *)
(* account or a Google login clears it; an administrator changes the role. *)
(***************************************************************************)
Unlock ==
    /\ attempts' \in {0, attempts} /\ locked' = FALSE
    /\ req' = Unbar
    /\ UNCHANGED <<refresh, session, history, faults>>

RoleChange ==
    /\ session' = Kill(session, Sessions)
    /\ UNCHANGED <<refresh, attempts, locked, req, history, faults>>

Expire ==
    /\ \/ (\E t \in Tokens : refresh' = Kill(refresh, {t})) /\ UNCHANGED session
       \/ (\E s \in Sessions : session' = Kill(session, {s})) /\ UNCHANGED refresh
    /\ UNCHANGED <<attempts, locked, req, history, faults>>

(***************************************************************************)
(* A query fails and the handler ends with a 500 (or, in validateAndRotate,*)
(* with a 401).  Of two parallel INSERTs the other one is not called off.  *)
(***************************************************************************)
QueryFails(r) ==
    /\ faults > 0 /\ faults' = faults - 1
    /\ \/ /\ req[r].pc \in Query \ {"issue both", "end session", "end sessions"}
          /\ Finish(r)
       \/ /\ At(r, "issue both")
          /\ \E other \in {"issue session", "issue token"} : Goto(r, other)
    /\ UNCHANGED <<rows, history>>

\* The server stops and is started again.
Restart ==
    /\ req' = [r \in Reqs |-> Idle]
    /\ UNCHANGED <<rows, history, faults>>

Step(r) ==
    \/ Punish(r) \/ Reset(r) \/ IssueSession(r) \/ IssueToken(r)
    \/ Rotate(r) \/ CheckLock(r) \/ Unissue(r) \/ OpenSession(r)
    \/ EndSession(r) \/ EndToken(r) \/ Change(r) \/ EndSessions(r) \/ EndTokens(r)
    \/ QueryFails(r)

\* The tokens of an answer are nobody's before the handler has ended.
Minting == {"issue session", "issue token", "check lock", "unissue", "open"}
KnownTokens ==
    {t \in Tokens : refresh[t] # "none" /\ \A r \in Reqs : req[r].pc \in Minting => req[r].t # t}
KnownSessions ==
    {s \in Sessions : session[s] # "none" /\ \A r \in Reqs : req[r].pc \in Minting => req[r].s # s}

Arrive(r) ==
    \/ \E right \in BOOLEAN : Login(r, right)
    \/ GoogleLogin(r)
    \/ \E t \in KnownTokens : Refresh(r, t)
    \/ \E s \in KnownSessions, t \in KnownTokens \cup {None} : Logout(r, s, t)
    \/ \E s \in KnownSessions : ChangePassword(r, s)

Next ==
    \/ \E r \in Reqs : Arrive(r) \/ Step(r)
    \/ Unlock \/ RoleChange \/ Expire \/ Restart

Spec == Init /\ [][Next]_vars

-----------------------------------------------------------------------------
(***************************************************************************)
(* "single-use rotation" (middleware/auth.ts): however many requests       *)
(* present a refresh token at the same time, it is exchanged once.         *)
(***************************************************************************)
SingleUse == \A t \in Tokens : used[t] <= 1

(***************************************************************************)
(* A login is worth one usable refresh token at any time, counting the one *)
(* a rotation is about to store: two clients of one login, retries,        *)
(* failures and restarts never split the chain in two.                     *)
(***************************************************************************)
Carries(r, c) == At(r, "rotate") /\ chain[req[r].t] = c

OneLivePerChain ==
    \A c \in Tokens :
        /\ \A t, u \in Tokens :
              {refresh[t], refresh[u]} = {"live"} /\ chain[t] = c /\ chain[u] = c => t = u
        /\ \A t \in Tokens, r \in Reqs :
              ~(refresh[t] = "live" /\ chain[t] = c /\ Carries(r, c))
        /\ \A q, r \in Reqs : Carries(q, c) /\ Carries(r, c) => q = r

(***************************************************************************)
(* "Account is locked" (routes/auth.ts): a request that came in while the  *)
(* account was locked, and during which the lock was never off, opens no   *)
(* session, whatever other requests do to the counter and the lock.        *)
(***************************************************************************)
LockHonoured ==
    [][\A r \in Reqs : req[r].barred /\ At(r, "open") /\ At(r, "idle")'
          => session' = session]_vars

(***************************************************************************)
(* The two tables implement chains of logins that end for good.            *)
(***************************************************************************)
StateOf(c) ==
    IF \E t \in Tokens : refresh[t] = "live" /\ chain[t] = c THEN "usable"
    ELSE IF \E r \in Reqs : Carries(r, c) THEN "passing"
    ELSE IF chain[c] = c THEN "ended"
    ELSE "none"

Logins == INSTANCE TokenChains WITH Chains <- Tokens, state <- [c \in Tokens |-> StateOf(c)]

ImplementsTokenChains == Logins!Spec
=============================================================================
