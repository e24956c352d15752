----------------------------- MODULE UserAdmin -----------------------------
(***************************************************************************)
(* The administration of accounts (server/routes/admin.ts) with the panel  *)
(* it is used from (client/src/components/UserManagement.tsx).             *)
(*                                                                         *)
(* A request is let in by the session and the role its sender has on       *)
(* arrival; what follows are single statements, with those of other        *)
(* requests in between and no transaction around them.  A row of           *)
(* security_logs refers to its user and keeps the user's row from being    *)
(* deleted; sessions and refresh tokens go with it.                        *)
(***************************************************************************)
EXTENDS Naturals

CONSTANTS
    Users,         \* ids of accounts, each used once
    SameMail,      \* SameMail[u]: the ids that have u's address, u among them
    Viewer,        \* the administrator at the panel
    Reqs,          \* slots for requests in flight
    MaxEvents,     \* bound: requests, logins and attempts
    MaxFaults      \* bound: failing statements, lost answers and restarts

ASSUME UserAssumption ==
    /\ Viewer \in Users
    /\ SameMail \in [Users -> SUBSET Users] /\ \A u \in Users : u \in SameMail[u]
    /\ MaxEvents \in Nat /\ MaxFaults \in Nat

VARIABLES
    role,          \* role[u]; "none" without a row
    deleted,       \* ids whose row was deleted
    session,       \* users with a session that is accepted
    token,         \* users with a refresh token that is accepted
    logged,        \* users some row of security_logs refers to
    req,           \* req[r]: where the request in slot r stands
    list,          \* what the panel shows, a copy of role
    lapped,        \* history: two removals overlapped, and no request came in alone since
    astray,        \* history: what the panel shows may be out of date
    left, faults

tables == <<role, deleted, session, token, logged>>
panel == <<list, astray>>
budget == <<left, faults>>
vars == <<tables, req, panel, lapped, budget>>

Roles == {"none", "user", "admin"}
Ops == {"list", "create", "patch", "delete", "unlock"}

\* The statement a request is waiting for, and the answer on its way to the panel's load.
Steps == {"idle", "lookup", "insert", "update", "revoke", "clear", "sessions", "remove",
          "unlock", "log", "load", "answer"}

Idle == [at |-> "idle", op |-> "list", by |-> Viewer, on |-> Viewer, to |-> "none",
         touched |-> FALSE, fresh |-> FALSE, rows |-> <<>>]

RequestType ==
    [at : Steps, op : Ops, by : Users, on : Users, to : Roles, touched : BOOLEAN,
     fresh : BOOLEAN, rows : {<<>>} \cup [Users -> Roles]]

At(r, step) == req[r].at = step

TypeOK ==
    /\ role \in [Users -> Roles]
    /\ \A u \in deleted \cup session \cup token \cup logged : u \in Users
    /\ \A u \in session \cup token \cup logged : role[u] # "none"
    /\ \A u \in deleted : role[u] = "none"
    /\ req \in [Reqs -> RequestType]
    /\ \A r \in Reqs : At(r, "answer") => req[r].rows \in [Users -> Roles]
    /\ list \in [Users -> Roles]
    /\ lapped \in BOOLEAN /\ astray \in BOOLEAN
    /\ left \in 0..MaxEvents /\ faults \in 0..MaxFaults

Exists(u) == role[u] # "none"
MailTaken(u) == \E v \in SameMail[u] : Exists(v)

Init ==
    /\ role \in [Users -> Roles] /\ role[Viewer] = "admin"
    /\ \A u \in Users : \A v \in SameMail[u] \ {u} : ~(Exists(u) /\ Exists(v))
    /\ deleted = {} /\ session = {Viewer} /\ token = {Viewer} /\ logged = {Viewer}
    /\ req = [r \in Reqs |-> Idle]
    /\ list = role
    /\ lapped = FALSE /\ astray = FALSE
    /\ left = MaxEvents /\ faults = MaxFaults

Quiet == \A r \in Reqs : At(r, "idle")
Goto(r, step) == req' = [req EXCEPT ![r].at = step]
Finish(r) == req' = [req EXCEPT ![r] = Idle]

Spend == left > 0 /\ left' = left - 1 /\ UNCHANGED faults
Fault == faults > 0 /\ faults' = faults - 1 /\ UNCHANGED left

-----------------------------------------------------------------------------
(***************************************************************************)
(* A request arrives: requireAuth and requireRole read session and role in *)
(* one statement, and nobody looks at them again.                          *)
(***************************************************************************)
MayRemoveAdmin(q) == q.op = "delete" \/ (q.op = "patch" /\ q.to = "user")

\* Some request in flight may take an administrator away.
Removing == \E s \in Reqs : MayRemoveAdmin(req[s])

Arrive(r, q) ==
    /\ At(r, "idle") /\ q.by \in session /\ role[q.by] = "admin"
    /\ Spend
    /\ req' = [s \in Reqs |-> IF s = r THEN q ELSE [req[s] EXCEPT !.fresh = FALSE]]
    /\ lapped' = (Removing /\ (lapped \/ MayRemoveAdmin(q)))
    /\ astray' = (astray \/ ~Quiet \/ q.by # Viewer)
    /\ UNCHANGED <<tables, list>>

\* The panel is opened: fetchUsers.
OpenPanel(r) == Arrive(r, [Idle EXCEPT !.at = "load"])

CreateUser(r, a, u, x) ==
    /\ ~Exists(u) /\ u \notin deleted
    /\ \A s \in Reqs : ~(req[s].op = "create" /\ req[s].on = u)
    /\ Arrive(r, [Idle EXCEPT !.at = "lookup", !.op = "create", !.by = a, !.on = u, !.to = x])

\* The role is left alone if x is "none"; nobody may take the own one away.
PatchAnyone(r, a, u, x) ==
    Arrive(r, [Idle EXCEPT !.at = "update", !.op = "patch", !.by = a, !.on = u, !.to = x])

PatchUser(r, a, u, x) ==
    /\ ~(a = u /\ x = "user")
    /\ Arrive(r, [Idle EXCEPT !.at = "update", !.op = "patch", !.by = a, !.on = u, !.to = x])

DeleteUser(r, a, u) ==
    /\ a # u
    /\ Arrive(r, [Idle EXCEPT !.at = "revoke", !.op = "delete", !.by = a, !.on = u])

Unlock(r, a, u) ==
    Arrive(r, [Idle EXCEPT !.at = "unlock", !.op = "unlock", !.by = a, !.on = u])

-----------------------------------------------------------------------------
(***************************************************************************)
(* Creation: a look for the address, then the INSERT, which the unique     *)
(* indices refuse if somebody was faster, or for a google_id another row   *)
(* has (500 instead of 409).                                               *)
(***************************************************************************)
Lookup(r) ==
    /\ At(r, "lookup")
    /\ IF MailTaken(req[r].on) THEN Finish(r) ELSE Goto(r, "insert")
    /\ UNCHANGED <<tables, panel, lapped, budget>>

Insert(r) ==
    /\ At(r, "insert")
    /\ \/ Finish(r) /\ UNCHANGED role
       \/ ~MailTaken(req[r].on) /\ Goto(r, "log")
          /\ role' = [role EXCEPT ![req[r].on] = req[r].to]
    /\ UNCHANGED <<deleted, session, token, logged, panel, lapped, budget>>

(***************************************************************************)
(* Update: 404 if there is no row, 500 if the google_id it gives is that   *)
(* of another row; a role that was given, even the same one, ends the      *)
(* sessions of the user, unless that statement fails.                      *)
(***************************************************************************)
Update(r) ==
    /\ At(r, "update")
    /\ LET q == req[r] IN
       \/ Finish(r) /\ UNCHANGED role
       \/ /\ Exists(q.on)
          /\ role' = IF q.to = "none" THEN role ELSE [role EXCEPT ![q.on] = q.to]
          /\ Goto(r, IF q.to = "none" THEN "log" ELSE "revoke")
    /\ UNCHANGED <<deleted, session, token, logged, panel, lapped, budget>>

\* revokeAllUserSessions, whose failure nobody hears of.
Revoke(r) ==
    /\ At(r, "revoke")
    /\ Goto(r, IF req[r].op = "patch" THEN "log" ELSE "clear")
    /\ \/ session' = session \ {req[r].on} /\ UNCHANGED budget
       \/ Fault /\ UNCHANGED session
    /\ UNCHANGED <<role, deleted, token, logged, panel, lapped>>

(***************************************************************************)
(* Deletion: the user's rows of security_logs, the sessions, the user.     *)
(***************************************************************************)
ClearLogsOfSender(r) ==
    /\ At(r, "clear")
    /\ logged' = logged \ {req[r].by}
    /\ req' = [req EXCEPT ![r].at = "sessions", ![r].touched = FALSE]
    /\ UNCHANGED <<role, deleted, session, token, panel, lapped, budget>>

ClearLogs(r) ==
    /\ At(r, "clear")
    /\ logged' = logged \ {req[r].on}
    /\ req' = [req EXCEPT ![r].at = "sessions", ![r].touched = FALSE]
    /\ UNCHANGED <<role, deleted, session, token, panel, lapped, budget>>

ClearSessions(r) ==
    /\ At(r, "sessions")
    /\ session' = session \ {req[r].on}
    /\ Goto(r, "remove")
    /\ UNCHANGED <<role, deleted, token, logged, panel, lapped, budget>>

RemoveRowOnly(r) ==
    /\ At(r, "remove")
    /\ LET u == req[r].on IN
       IF Exists(u) /\ u \notin logged
       THEN /\ role' = [role EXCEPT ![u] = "none"] /\ deleted' = deleted \cup {u}
            /\ Goto(r, "log")
       ELSE Finish(r) /\ UNCHANGED <<role, deleted>>
    /\ UNCHANGED <<session, token, logged, panel, lapped, budget>>

\* 404 without a row, 500 if a new row of security_logs refers to it.
Remove(r) ==
    /\ At(r, "remove")
    /\ LET u == req[r].on IN
       IF Exists(u) /\ u \notin logged
       THEN /\ role' = [role EXCEPT ![u] = "none"] /\ deleted' = deleted \cup {u}
            /\ session' = session \ {u} /\ token' = token \ {u}
            /\ Goto(r, "log")
       ELSE Finish(r) /\ UNCHANGED <<role, deleted, session, token>>
    /\ UNCHANGED <<logged, panel, lapped, budget>>

ClearLock(r) ==
    /\ At(r, "unlock")
    /\ IF Exists(req[r].on) THEN Goto(r, "log") ELSE Finish(r)
    /\ UNCHANGED <<tables, panel, lapped, budget>>

-----------------------------------------------------------------------------
(***************************************************************************)
(* logSecurityEvent and the answer.  The row refers to the sender; if the  *)
(* sender's row is gone, or the statement fails, there is none and nobody  *)
(* hears of it.  The panel loads the list again.                           *)
(***************************************************************************)
\* u gets a row of security_logs, whatever requests about u are doing.
LogOf(u, reqs) ==
    IF Exists(u)
    THEN /\ logged' = logged \cup {u}
         /\ req' = [s \in Reqs |-> [reqs[s] EXCEPT !.touched = @ \/ reqs[s].on = u]]
    ELSE logged' = logged /\ req' = reqs

After(r) == [req EXCEPT ![r] = IF @.by = Viewer THEN [Idle EXCEPT !.at = "load"] ELSE Idle]

LogAndLeave(r) ==
    /\ At(r, "log")
    /\ LogOf(req[r].by, [req EXCEPT ![r] = Idle])
    /\ UNCHANGED <<role, deleted, session, token, panel, lapped, budget>>

Log(r) ==
    /\ At(r, "log")
    /\ \/ LogOf(req[r].by, After(r)) /\ UNCHANGED budget
       \/ Fault /\ req' = After(r) /\ UNCHANGED logged
    /\ UNCHANGED <<role, deleted, session, token, panel, lapped>>

\* GET /api/admin/users, which has to be let in like everything else.
ReadUsers(r) ==
    /\ At(r, "load")
    /\ IF Viewer \in session /\ role[Viewer] = "admin"
       THEN /\ req' = [req EXCEPT ![r].at = "answer", ![r].rows = role,
                                  ![r].fresh = \A s \in Reqs \ {r} : At(s, "idle")]
            /\ UNCHANGED astray
       ELSE Finish(r) /\ astray' = TRUE
    /\ UNCHANGED <<tables, list, lapped, budget>>

TakeList(r) ==
    /\ At(r, "answer")
    /\ Finish(r)
    /\ list' = req[r].rows /\ astray' = ~req[r].fresh
    /\ UNCHANGED <<tables, lapped, budget>>

\* A statement fails (500), or the answer gets lost: the panel shows an error and its old list.
QueryFails(r) ==
    /\ req[r].at \notin {"idle", "revoke", "log"} /\ Fault
    /\ Finish(r)
    /\ astray' = (astray \/ req[r].at \in {"load", "answer"})
    /\ UNCHANGED <<tables, list, lapped>>

Restart ==
    /\ ~Quiet /\ Fault
    /\ req' = [r \in Reqs |-> Idle]
    /\ astray' = TRUE
    /\ UNCHANGED <<tables, list, lapped>>

-----------------------------------------------------------------------------
(***************************************************************************)
(* Users come and go: logins and refreshes open sessions, sessions expire, *)
(* and every attempt to log in, good or bad, is logged.                    *)
(***************************************************************************)
SignIn(u) ==
    /\ Exists(u) /\ u \notin session \cap token /\ Spend
    /\ session' = session \cup {u} /\ token' = token \cup {u}
    /\ UNCHANGED <<role, deleted, logged, req, panel, lapped>>

Refresh(u) ==
    /\ u \in token \ session
    /\ session' = session \cup {u}
    /\ UNCHANGED <<role, deleted, token, logged, req, panel, lapped, budget>>

SessionEnds(u) ==
    /\ u \in session /\ Spend
    /\ session' = session \ {u}
    /\ UNCHANGED <<role, deleted, token, logged, req, panel, lapped>>

Attempt(u) ==
    /\ Exists(u) /\ Spend
    /\ LogOf(u, req)
    /\ UNCHANGED <<role, deleted, session, token, panel, lapped>>

Known == {u \in Users : Exists(u) \/ u \in deleted}

Request(r) ==
    \/ OpenPanel(r)
    \/ \E a \in session :
          \/ \E u \in Users, x \in {"user", "admin"} : CreateUser(r, a, u, x)
          \/ \E u \in Known :
                \/ \E x \in Roles : PatchUser(r, a, u, x)
                \/ DeleteUser(r, a, u) \/ Unlock(r, a, u)

Step(r) ==
    \/ Lookup(r) \/ Insert(r) \/ Update(r) \/ Revoke(r) \/ ClearLogs(r) \/ ClearSessions(r)
    \/ Remove(r) \/ ClearLock(r) \/ Log(r) \/ ReadUsers(r) \/ TakeList(r)

Next ==
    \/ \E r \in Reqs : Request(r) \/ Step(r) \/ QueryFails(r)
    \/ Restart
    \/ \E u \in Users : SignIn(u) \/ Refresh(u) \/ SessionEnds(u) \/ Attempt(u)

Spec == Init /\ [][Next]_vars

-----------------------------------------------------------------------------
(***************************************************************************)
(* The checks against removing oneself keep one administrator, unless two  *)
(* demotions or deletions overlap: two administrators who demote each      *)
(* other at the same time leave none.  An overlap that left one is         *)
(* forgotten with the next request that is let in when it is past.         *)
(***************************************************************************)
AdminRemains == lapped \/ \E u \in Users : role[u] = "admin"

(***************************************************************************)
(* When a deletion comes to its last statement, only what the user did, or *)
(* somebody tried in the user's name, since its log was cleared can still  *)
(* keep the account from being deleted.                                    *)
(***************************************************************************)
BlockedOnlyByUse ==
    \A r \in Reqs : At(r, "remove") /\ req[r].on \in logged => req[r].touched

(***************************************************************************)
(* When nothing is under way the panel shows the accounts as they are,     *)
(* after every outcome of its own requests: 404, 409, 500 half-way, or a   *)
(* list that could not be loaded and is then loaded again; unless its      *)
(* requests overlapped or somebody else made one since the last load.      *)
(***************************************************************************)
PanelTrue == Quiet /\ ~astray => list = role
=============================================================================
