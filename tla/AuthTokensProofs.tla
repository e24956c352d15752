-------------------------- MODULE AuthTokensProofs --------------------------
(***************************************************************************)
(* Proofs about AuthTokens, for every set of requests in flight, tokens    *)
(* and sessions and every bound.  Only three actions give a chain to       *)
(* somebody: IssueToken, Refresh and Rotate.  Every other step is a Lapse: *)
(* tokens may die and rotations may be abandoned, and nothing appears.     *)
(***************************************************************************)
EXTENDS AuthTokens, TLAPS

-----------------------------------------------------------------------------
(***************************************************************************)
(* Type correctness.                                                       *)
(***************************************************************************)
LEMMA KillType ==
    ASSUME NEW D, NEW table \in [D -> Row], NEW S
    PROVE  /\ Kill(table, S) \in [D -> Row]
           /\ \A x \in D : \/ Kill(table, S)[x] = table[x]
                           \/ table[x] = "live" /\ Kill(table, S)[x] = "dead"
           /\ \A x \in D : Kill(table, S)[x] = "none" <=> table[x] = "none"
  BY DEF Kill, Row

LEMMA UnbarType == ASSUME req \in [Reqs -> Request] PROVE Unbar \in [Reqs -> Request]
<1>1. ASSUME NEW r \in Reqs PROVE [req[r] EXCEPT !.barred = FALSE] \in Request
  <2>1. req[r] \in Request
    OBVIOUS
  <2> QED
    BY <2>1 DEF Request
<1> QED
  BY <1>1 DEF Unbar

LEMMA IdleType == Idle \in Request
  BY AuthAssumption DEF Idle, Request

LEMMA MoveType ==
    ASSUME NEW q \in Request, NEW pc \in Query \cup {"idle"}
    PROVE  [q EXCEPT !.pc = pc] \in Request
  BY DEF Request


LEMMA FinishType ==
    ASSUME req \in [Reqs -> Request], NEW r \in Reqs, Finish(r)
    PROVE  req' \in [Reqs -> Request]
  BY IdleType DEF Finish

LEMMA GotoType ==
    ASSUME req \in [Reqs -> Request], NEW r \in Reqs, NEW pc \in Query \cup {"idle"}, Goto(r, pc)
    PROVE  req' \in [Reqs -> Request]
<1>1. [req[r] EXCEPT !.pc = pc] \in Request
  BY MoveType
<1> QED
  BY <1>1 DEF Goto

LEMMA BeginType ==
    ASSUME req \in [Reqs -> Request], NEW r \in Reqs, NEW q \in Request, Begin(r, q)
    PROVE  req' \in [Reqs -> Request]
  BY DEF Begin

LEMMA NewTokenType ==
    ASSUME TypeOK, NEW t \in Tokens, NEW c \in Tokens, NewToken(t, c)
    PROVE  /\ refresh' \in [Tokens -> Row] /\ chain' \in [Tokens -> Tokens \cup {None}]
           /\ \A u \in Tokens : refresh'[u] = "none" <=> chain'[u] = None
           /\ refresh[t] = "none" /\ refresh'[t] = "live" /\ chain'[t] = c
           /\ \A u \in Tokens \ {t} : refresh'[u] = refresh[u] /\ chain'[u] = chain[u]
  BY AuthAssumption DEF TypeOK, NewToken, Row

LEMMA NewSessionType ==
    ASSUME TypeOK, NEW s \in Sessions, NewSession(s) PROVE session' \in [Sessions -> Row]
  BY DEF TypeOK, NewSession, Row

-----------------------------------------------------------------------------
(***************************************************************************)
(* The inductive invariant.  A rotation in flight has killed its token,    *)
(* which makes the token of a chain and the rotation of it exclude each    *)
(* other; the token of the login is the root of its own chain, so a fresh  *)
(* token starts a chain nobody is in.                                      *)
(***************************************************************************)
UseInv ==
    \A t \in Tokens : used[t] <= 1 /\ (refresh[t] # "dead" => used[t] = 0)

RotateInv ==
    \A r \in Reqs : At(r, "rotate") => req[r].t \in Tokens /\ refresh[req[r].t] = "dead"

RootInv ==
    \A t \in Tokens : chain[t] \in Tokens => chain[chain[t]] = chain[t]

IInv == TypeOK /\ UseInv /\ RotateInv /\ RootInv /\ OneLivePerChain

(***************************************************************************)
(* Tokens may die, rotations may be abandoned, nothing appears.            *)
(***************************************************************************)
Lapse ==
    /\ chain' = chain /\ used' = used
    /\ \A t \in Tokens : \/ refresh'[t] = refresh[t]
                         \/ refresh[t] = "live" /\ refresh'[t] = "dead"
    /\ \A r \in Reqs : At(r, "rotate")' => At(r, "rotate") /\ req'[r].t = req[r].t

LEMMA FinishLapse ==
    ASSUME TypeOK, NEW r \in Reqs, Finish(r)
    PROVE  \A q \in Reqs : At(q, "rotate")' => At(q, "rotate") /\ req'[q].t = req[q].t
  BY DEF TypeOK, Finish, At, Idle

LEMMA GotoLapse ==
    ASSUME TypeOK, NEW r \in Reqs, NEW pc \in Query, pc # "rotate", Goto(r, pc)
    PROVE  \A q \in Reqs : At(q, "rotate")' => At(q, "rotate") /\ req'[q].t = req[q].t
<1>1. req'[r].pc = pc
  BY DEF Goto, TypeOK, Request
<1>2. \A q \in Reqs \ {r} : req'[q] = req[q]
  BY DEF Goto, TypeOK
<1> QED
  BY <1>1, <1>2 DEF At

LEMMA UnbarLapse ==
    ASSUME TypeOK
    PROVE  \A q \in Reqs : Unbar[q].pc = req[q].pc /\ Unbar[q].t = req[q].t
<1>1. ASSUME NEW q \in Reqs
      PROVE  /\ [req[q] EXCEPT !.barred = FALSE].pc = req[q].pc
             /\ [req[q] EXCEPT !.barred = FALSE].t = req[q].t
  <2>1. req[q] \in Request
    BY DEF TypeOK
  <2> QED
    BY <2>1 DEF Request
<1> QED
  BY <1>1 DEF Unbar

LEMMA BeginLapse ==
    ASSUME TypeOK, NEW r \in Reqs, NEW q \in Request, q.pc # "rotate", Begin(r, q)
    PROVE  \A p \in Reqs : At(p, "rotate")' => At(p, "rotate") /\ req'[p].t = req[p].t
  BY DEF TypeOK, Begin, At

LEMMA BeginTypes ==
    ASSUME NEW pc \in Query
    PROVE  /\ \A n \in Nat : [Idle EXCEPT !.n = n, !.pc = pc] \in Request
           /\ [Idle EXCEPT !.pc = pc] \in Request
           /\ \A s \in Sessions, t \in Tokens \cup {None} :
                 [Idle EXCEPT !.pc = pc, !.s = s, !.t = t] \in Request
           /\ \A t \in Tokens, b \in BOOLEAN :
                 [Idle EXCEPT !.pc = pc, !.t = t, !.barred = b] \in Request
  BY AuthAssumption DEF Idle, Request

-----------------------------------------------------------------------------
(***************************************************************************)
(* The steps that only let tokens lapse, one by one.                       *)
(***************************************************************************)
LEMMA LoginSafe ==
    ASSUME TypeOK, NEW r \in Reqs, NEW right \in BOOLEAN, Login(r, right)
    PROVE  TypeOK' /\ Lapse
<1> DEFINE pc == IF ~right THEN "punish" ELSE IF attempts > 0 THEN "reset" ELSE "issue both"
           q == [Idle EXCEPT !.n = attempts, !.pc = pc]
<1>1. pc \in Query /\ pc # "rotate"
  BY DEF Query
<1>2. q \in Request /\ q.pc = pc
  <2> HIDE DEF pc
  <2> QED
    BY <1>1, BeginTypes, AuthAssumption DEF TypeOK, Idle
<1>3. Begin(r, q)
  BY DEF Login
<1> HIDE DEF q
<1>4. req' \in [Reqs -> Request]
  BY <1>2, <1>3, BeginType DEF TypeOK
<1>5. wrong' \in 0..MaxWrong
  BY AuthAssumption DEF Login, TypeOK
<1>6. TypeOK'
  BY <1>4, <1>5 DEF Login, TypeOK, rows
<1>7. \A p \in Reqs : At(p, "rotate")' => At(p, "rotate") /\ req'[p].t = req[p].t
  BY <1>1, <1>2, <1>3, BeginLapse
<1> QED
  BY <1>6, <1>7 DEF Login, Lapse, rows

LEMMA PunishSafe == ASSUME TypeOK, NEW r \in Reqs, Punish(r) PROVE TypeOK' /\ Lapse
<1> DEFINE left == IF locked' THEN req ELSE Unbar
<1>1. left \in [Reqs -> Request]
  BY UnbarType DEF TypeOK
<1>2. \A q \in Reqs : left[q].pc = req[q].pc /\ left[q].t = req[q].t
  BY UnbarLapse
<1>3. req' = [left EXCEPT ![r] = Idle]
  BY DEF Punish
<1> HIDE DEF left
<1>4. req' \in [Reqs -> Request]
  BY <1>1, <1>3, IdleType
<1>5. attempts' \in Nat /\ locked' \in BOOLEAN
  <2>1. req[r].n \in Nat
    BY DEF TypeOK, Request
  <2> QED
    BY <2>1, AuthAssumption DEF Punish
<1>6. TypeOK'
  BY <1>4, <1>5 DEF Punish, TypeOK, history
<1>7. \A q \in Reqs : At(q, "rotate")' => At(q, "rotate") /\ req'[q].t = req[q].t
  BY <1>1, <1>2, <1>3 DEF At, Idle
<1> QED
  BY <1>6, <1>7 DEF Punish, Lapse, history

LEMMA ResetSafe == ASSUME TypeOK, NEW r \in Reqs, Reset(r) PROVE TypeOK' /\ Lapse
<1>1. Unbar \in [Reqs -> Request] /\ req' = [Unbar EXCEPT ![r].pc = "issue both"]
  BY UnbarType DEF TypeOK, Reset
<1>2. \A q \in Reqs : Unbar[q].pc = req[q].pc /\ Unbar[q].t = req[q].t
  BY UnbarLapse
<1>3. req' \in [Reqs -> Request]
  <2>1. [Unbar[r] EXCEPT !.pc = "issue both"] \in Request
    BY <1>1, MoveType DEF Query
  <2> QED
    BY <1>1, <2>1
<1>4. TypeOK'
  BY <1>3 DEF Reset, TypeOK, history
<1>5. \A q \in Reqs : At(q, "rotate")' => At(q, "rotate") /\ req'[q].t = req[q].t
  <2>1. req'[r].pc = "issue both"
    BY <1>1 DEF Request
  <2>2. \A q \in Reqs \ {r} : req'[q] = Unbar[q]
    BY <1>1
  <2> QED
    BY <1>2, <2>1, <2>2 DEF At
<1> QED
  BY <1>4, <1>5 DEF Reset, Lapse, history

LEMMA GoogleLoginSafe == ASSUME TypeOK, NEW r \in Reqs, GoogleLogin(r) PROVE TypeOK' /\ Lapse
<1> DEFINE q == [Idle EXCEPT !.pc = "issue both"]
<1>1. q \in Request /\ q.pc = "issue both" /\ Begin(r, q)
  BY BeginTypes DEF GoogleLogin, Query, Idle
<1> HIDE DEF q
<1>2. req' \in [Reqs -> Request]
  BY <1>1, BeginType DEF TypeOK
<1>3. \A p \in Reqs : At(p, "rotate")' => At(p, "rotate") /\ req'[p].t = req[p].t
  BY <1>1, BeginLapse
<1> QED
  BY <1>2, <1>3 DEF GoogleLogin, TypeOK, Lapse, rows, history

LEMMA IssueSessionSafe == ASSUME TypeOK, NEW r \in Reqs, IssueSession(r) PROVE TypeOK' /\ Lapse
<1>1. PICK s \in Sessions :
         /\ NewSession(s)
         /\ \/ /\ At(r, "issue both")
               /\ req' = [req EXCEPT ![r].pc = "issue token", ![r].s = s]
            \/ At(r, "issue session") /\ Finish(r)
  BY DEF IssueSession
<1>2. session' \in [Sessions -> Row]
  BY <1>1, NewSessionType
<1>3. /\ req' \in [Reqs -> Request]
      /\ \A p \in Reqs : At(p, "rotate")' => At(p, "rotate") /\ req'[p].t = req[p].t
  <2>1. CASE At(r, "issue session") /\ Finish(r)
    BY <2>1, FinishType, FinishLapse DEF TypeOK
  <2>2. CASE req' = [req EXCEPT ![r].pc = "issue token", ![r].s = s]
    <3> DEFINE q == [req[r] EXCEPT !.pc = "issue token", !.s = s]
    <3>1. q \in Request /\ q.pc = "issue token"
      BY DEF TypeOK, Request, Query
    <3>2. req' = [req EXCEPT ![r] = q]
      BY <2>2
    <3> HIDE DEF q
    <3> QED
      BY <3>1, <3>2 DEF TypeOK, At
  <2> QED
    BY <1>1, <2>1, <2>2
<1> QED
  BY <1>2, <1>3 DEF IssueSession, TypeOK, Lapse, history

LEMMA CheckLockSafe == ASSUME TypeOK, NEW r \in Reqs, CheckLock(r) PROVE TypeOK' /\ Lapse
<1>1. PICK pc \in {"unissue", "open"} : Goto(r, pc)
  BY DEF CheckLock
<1>2. req' \in [Reqs -> Request]
  BY <1>1, GotoType DEF TypeOK, Query
<1>3. \A p \in Reqs : At(p, "rotate")' => At(p, "rotate") /\ req'[p].t = req[p].t
  BY <1>1, GotoLapse DEF Query
<1> QED
  BY <1>2, <1>3 DEF CheckLock, TypeOK, Lapse, rows, history

\* The statements that revoke refresh tokens: of one token, of all of them.
LEMMA KillSafe ==
    ASSUME TypeOK, NEW r \in Reqs, NEW S, refresh' = Kill(refresh, S), Finish(r),
           UNCHANGED <<session, attempts, locked, history, faults>>
    PROVE  TypeOK' /\ Lapse
<1>1. req' \in [Reqs -> Request]
  BY FinishType DEF TypeOK
<1>2. /\ refresh' \in [Tokens -> Row]
      /\ \A t \in Tokens : \/ refresh'[t] = refresh[t]
                           \/ refresh[t] = "live" /\ refresh'[t] = "dead"
      /\ \A t \in Tokens : refresh'[t] = "none" <=> refresh[t] = "none"
  BY KillType DEF TypeOK
<1>3. \A p \in Reqs : At(p, "rotate")' => At(p, "rotate") /\ req'[p].t = req[p].t
  BY FinishLapse
<1> QED
  BY <1>1, <1>2, <1>3 DEF TypeOK, Lapse, history

LEMMA UnissueSafe == ASSUME TypeOK, NEW r \in Reqs, Unissue(r) PROVE TypeOK' /\ Lapse
  BY KillSafe DEF Unissue

LEMMA EndTokenSafe == ASSUME TypeOK, NEW r \in Reqs, EndToken(r) PROVE TypeOK' /\ Lapse
  BY KillSafe DEF EndToken

LEMMA EndTokensSafe == ASSUME TypeOK, NEW r \in Reqs, EndTokens(r) PROVE TypeOK' /\ Lapse
  BY KillSafe DEF EndTokens

LEMMA OpenSessionSafe == ASSUME TypeOK, NEW r \in Reqs, OpenSession(r) PROVE TypeOK' /\ Lapse
<1>1. session' \in [Sessions -> Row]
  BY NewSessionType DEF OpenSession
<1>2. req' \in [Reqs -> Request]
  BY FinishType DEF TypeOK, OpenSession
<1>3. \A p \in Reqs : At(p, "rotate")' => At(p, "rotate") /\ req'[p].t = req[p].t
  BY FinishLapse DEF OpenSession
<1> QED
  BY <1>1, <1>2, <1>3 DEF OpenSession, TypeOK, Lapse, history

LEMMA LogoutSafe ==
    ASSUME TypeOK, NEW r \in Reqs, NEW s \in Sessions, NEW t \in Tokens \cup {None}, Logout(r, s, t)
    PROVE  TypeOK' /\ Lapse
<1> DEFINE q == [Idle EXCEPT !.pc = "end session", !.s = s, !.t = t]
<1>1. q \in Request /\ q.pc = "end session" /\ Begin(r, q)
  BY BeginTypes DEF Logout, Query, Idle
<1> HIDE DEF q
<1>2. req' \in [Reqs -> Request]
  BY <1>1, BeginType DEF TypeOK
<1>3. \A p \in Reqs : At(p, "rotate")' => At(p, "rotate") /\ req'[p].t = req[p].t
  BY <1>1, BeginLapse
<1> QED
  BY <1>2, <1>3 DEF Logout, TypeOK, Lapse, rows, history

LEMMA ChangePasswordSafe ==
    ASSUME TypeOK, NEW r \in Reqs, NEW s \in Sessions, ChangePassword(r, s)
    PROVE  TypeOK' /\ Lapse
<1> DEFINE q == [Idle EXCEPT !.pc = "change"]
<1>1. q \in Request /\ q.pc = "change" /\ Begin(r, q)
  BY BeginTypes DEF ChangePassword, Query, Idle
<1> HIDE DEF q
<1>2. req' \in [Reqs -> Request]
  BY <1>1, BeginType DEF TypeOK
<1>3. \A p \in Reqs : At(p, "rotate")' => At(p, "rotate") /\ req'[p].t = req[p].t
  BY <1>1, BeginLapse
<1> QED
  BY <1>2, <1>3 DEF ChangePassword, TypeOK, Lapse, rows, history

LEMMA ChangeSafe == ASSUME TypeOK, NEW r \in Reqs, Change(r) PROVE TypeOK' /\ Lapse
<1>1. req' \in [Reqs -> Request]
  BY GotoType DEF TypeOK, Query, Change
<1>2. \A p \in Reqs : At(p, "rotate")' => At(p, "rotate") /\ req'[p].t = req[p].t
  BY GotoLapse DEF Query, Change
<1> QED
  BY <1>1, <1>2 DEF Change, TypeOK, Lapse, rows, history

LEMMA SessionsType ==
    ASSUME TypeOK, NEW S,
           \/ session' = Kill(session, S) /\ UNCHANGED faults
           \/ Swallowed(session)
    PROVE  session' \in [Sessions -> Row] /\ faults' \in 0..MaxFaults
<1>1. session' \in [Sessions -> Row]
  BY KillType DEF TypeOK, Swallowed
<1>2. faults' \in 0..MaxFaults
  BY AuthAssumption DEF TypeOK, Swallowed
<1> QED
  BY <1>1, <1>2

LEMMA EndSessionSafe == ASSUME TypeOK, NEW r \in Reqs, EndSession(r) PROVE TypeOK' /\ Lapse
<1>1. session' \in [Sessions -> Row] /\ faults' \in 0..MaxFaults
  BY SessionsType DEF EndSession
<1>2. /\ req' \in [Reqs -> Request]
      /\ \A p \in Reqs : At(p, "rotate")' => At(p, "rotate") /\ req'[p].t = req[p].t
  <2>1. CASE Finish(r)
    BY <2>1, FinishType, FinishLapse DEF TypeOK
  <2>2. CASE Goto(r, "end token")
    BY <2>2, GotoType, GotoLapse DEF TypeOK, Query
  <2> QED
    BY <2>1, <2>2 DEF EndSession
<1> QED
  BY <1>1, <1>2 DEF EndSession, TypeOK, Lapse, history

LEMMA EndSessionsSafe == ASSUME TypeOK, NEW r \in Reqs, EndSessions(r) PROVE TypeOK' /\ Lapse
<1>1. session' \in [Sessions -> Row] /\ faults' \in 0..MaxFaults
  BY SessionsType DEF EndSessions
<1>2. /\ req' \in [Reqs -> Request]
      /\ \A p \in Reqs : At(p, "rotate")' => At(p, "rotate") /\ req'[p].t = req[p].t
  BY GotoType, GotoLapse DEF TypeOK, Query, EndSessions
<1> QED
  BY <1>1, <1>2 DEF EndSessions, TypeOK, Lapse, history

LEMMA UnlockSafe == ASSUME TypeOK, Unlock PROVE TypeOK' /\ Lapse
<1>1. req' \in [Reqs -> Request]
  BY UnbarType DEF TypeOK, Unlock
<1>2. \A p \in Reqs : At(p, "rotate")' => At(p, "rotate") /\ req'[p].t = req[p].t
  BY UnbarLapse DEF Unlock, At
<1>3. attempts' \in Nat /\ locked' \in BOOLEAN
  <2>1. (attempts' = 0 \/ attempts' = attempts) /\ attempts \in Nat
    BY DEF Unlock, TypeOK
  <2>2. locked' \in BOOLEAN
    BY DEF Unlock
  <2> QED
    BY <2>1, <2>2
<1>4. TypeOK'
  BY <1>1, <1>3 DEF Unlock, TypeOK, history
<1>5. Lapse
  BY <1>2 DEF Unlock, Lapse, history
<1> QED
  BY <1>4, <1>5

LEMMA RoleChangeSafe == ASSUME TypeOK, RoleChange PROVE TypeOK' /\ Lapse
<1>1. session' \in [Sessions -> Row]
  BY KillType DEF TypeOK, RoleChange
<1> QED
  BY <1>1 DEF RoleChange, TypeOK, Lapse, history, At

LEMMA ExpireSafe == ASSUME TypeOK, Expire PROVE TypeOK' /\ Lapse
<1>1. CASE (\E t \in Tokens : refresh' = Kill(refresh, {t})) /\ UNCHANGED session
  <2>1. /\ refresh' \in [Tokens -> Row]
        /\ \A t \in Tokens : \/ refresh'[t] = refresh[t]
                             \/ refresh[t] = "live" /\ refresh'[t] = "dead"
        /\ \A t \in Tokens : refresh'[t] = "none" <=> refresh[t] = "none"
    BY <1>1, KillType DEF TypeOK
  <2> QED
    BY <1>1, <2>1 DEF Expire, TypeOK, Lapse, history, At
<1>2. CASE (\E s \in Sessions : session' = Kill(session, {s})) /\ UNCHANGED refresh
  <2>1. session' \in [Sessions -> Row]
    BY <1>2, KillType DEF TypeOK
  <2> QED
    BY <1>2, <2>1 DEF Expire, TypeOK, Lapse, history, At
<1> QED
  BY <1>1, <1>2 DEF Expire

LEMMA QueryFailsSafe == ASSUME TypeOK, NEW r \in Reqs, QueryFails(r) PROVE TypeOK' /\ Lapse
<1>1. faults' \in 0..MaxFaults
  <2>1. faults \in 0..MaxFaults /\ faults > 0 /\ faults' = faults - 1
    BY DEF QueryFails, TypeOK
  <2> QED
    BY <2>1, AuthAssumption
<1>2. /\ req' \in [Reqs -> Request]
      /\ \A p \in Reqs : At(p, "rotate")' => At(p, "rotate") /\ req'[p].t = req[p].t
  <2>1. CASE Finish(r)
    BY <2>1, FinishType, FinishLapse DEF TypeOK
  <2>2. CASE \E other \in {"issue session", "issue token"} : Goto(r, other)
    BY <2>2, GotoType, GotoLapse DEF TypeOK, Query
  <2> QED
    BY <2>1, <2>2 DEF QueryFails
<1> QED
  BY <1>1, <1>2 DEF QueryFails, TypeOK, Lapse, rows, history

LEMMA RestartSafe == ASSUME TypeOK, Restart PROVE TypeOK' /\ Lapse
  BY IdleType DEF Restart, TypeOK, Lapse, rows, history, At, Idle

LEMMA StutterSafe == ASSUME TypeOK, UNCHANGED vars PROVE TypeOK' /\ Lapse
  BY DEF vars, rows, history, TypeOK, Lapse, At

\* The steps that give a chain to somebody.
Gives ==
    \E r \in Reqs :
        \/ IssueToken(r) \/ Rotate(r)
        \/ \E t \in Tokens : Refresh(r, t)

LEMMA OthersSafe == ASSUME TypeOK, [Next]_vars, ~Gives PROVE TypeOK' /\ Lapse
<1>1. CASE UNCHANGED vars
  BY <1>1, StutterSafe
<1>2. CASE Unlock \/ RoleChange \/ Expire \/ Restart
  BY <1>2, UnlockSafe, RoleChangeSafe, ExpireSafe, RestartSafe
<1>3. ASSUME NEW r \in Reqs, Arrive(r) PROVE TypeOK' /\ Lapse
  <2>1. KnownTokens \subseteq Tokens /\ KnownSessions \subseteq Sessions
    BY DEF KnownTokens, KnownSessions
  <2>2. ASSUME NEW right \in BOOLEAN, Login(r, right) PROVE TypeOK' /\ Lapse
    BY <2>2, LoginSafe
  <2>3. CASE GoogleLogin(r)
    BY <2>3, GoogleLoginSafe
  <2>4. ASSUME NEW s \in KnownSessions, NEW t \in KnownTokens \cup {None}, Logout(r, s, t)
        PROVE TypeOK' /\ Lapse
    BY <2>1, <2>4, LogoutSafe
  <2>5. ASSUME NEW s \in KnownSessions, ChangePassword(r, s) PROVE TypeOK' /\ Lapse
    BY <2>1, <2>5, ChangePasswordSafe
  <2>6. ASSUME NEW t \in KnownTokens, Refresh(r, t) PROVE FALSE
    BY <2>1, <2>6 DEF Gives
  <2> QED
    BY <1>3, <2>2, <2>3, <2>4, <2>5, <2>6 DEF Arrive
<1>4. ASSUME NEW r \in Reqs, Step(r) PROVE TypeOK' /\ Lapse
  <2>1. ~IssueToken(r) /\ ~Rotate(r)
    BY DEF Gives
  <2> QED
    BY <1>4, <2>1, PunishSafe, ResetSafe, IssueSessionSafe, CheckLockSafe, UnissueSafe,
       OpenSessionSafe, EndSessionSafe, EndTokenSafe, ChangeSafe, EndSessionsSafe,
       EndTokensSafe, QueryFailsSafe DEF Step
<1> QED
  BY <1>1, <1>2, <1>3, <1>4 DEF Next

-----------------------------------------------------------------------------
(***************************************************************************)
(* The invariant is preserved: by a lapse, and by the three other actions. *)
(***************************************************************************)
LEMMA LapseInv == ASSUME IInv, TypeOK', Lapse PROVE IInv'
<1> USE DEF IInv, Lapse
<1>1. UseInv'
  BY DEF UseInv, TypeOK, Row
<1>2. RotateInv'
  BY DEF RotateInv, At, TypeOK, Row
<1>3. RootInv'
  BY DEF RootInv
<1>4. \A r \in Reqs, c \in Tokens : Carries(r, c)' => Carries(r, c)
  BY DEF Carries
<1>5. \A t \in Tokens : refresh'[t] = "live" => refresh[t] = "live"
  OBVIOUS
<1>6. OneLivePerChain'
  BY <1>4, <1>5 DEF OneLivePerChain
<1> QED
  BY <1>1, <1>2, <1>3, <1>6

LEMMA IssueTokenFacts ==
    ASSUME IInv, NEW r \in Reqs, IssueToken(r)
    PROVE  \E t \in Tokens :
              /\ NewToken(t, t)
              /\ TypeOK'
              /\ \A q \in Reqs : At(q, "rotate")' => At(q, "rotate") /\ req'[q].t = req[q].t
<1>1. PICK t \in Tokens :
         /\ NewToken(t, t)
         /\ \/ /\ At(r, "issue both")
               /\ req' = [req EXCEPT ![r].pc = "issue session", ![r].t = t]
            \/ At(r, "issue token") /\ Finish(r)
  BY DEF IssueToken
<1>2. /\ req' \in [Reqs -> Request]
      /\ \A q \in Reqs : At(q, "rotate")' => At(q, "rotate") /\ req'[q].t = req[q].t
  <2>1. CASE At(r, "issue token") /\ Finish(r)
    BY <2>1, FinishType, FinishLapse DEF IInv, TypeOK
  <2>2. CASE req' = [req EXCEPT ![r].pc = "issue session", ![r].t = t]
    <3> DEFINE q == [req[r] EXCEPT !.pc = "issue session", !.t = t]
    <3>1. q \in Request /\ q.pc = "issue session"
      BY DEF IInv, TypeOK, Request, Query
    <3>2. req' = [req EXCEPT ![r] = q]
      BY <2>2
    <3> HIDE DEF q
    <3> QED
      BY <3>1, <3>2 DEF IInv, TypeOK, At
  <2> QED
    BY <1>1, <2>1, <2>2
<1>3. /\ refresh' \in [Tokens -> Row] /\ chain' \in [Tokens -> Tokens \cup {None}]
      /\ \A u \in Tokens : refresh'[u] = "none" <=> chain'[u] = None
  BY <1>1, NewTokenType DEF IInv
<1>4. TypeOK'
  BY <1>2, <1>3 DEF IssueToken, IInv, TypeOK
<1> QED
  BY <1>1, <1>2, <1>4

LEMMA IssueTokenInv == ASSUME IInv, NEW r \in Reqs, IssueToken(r) PROVE IInv'
<1> USE AuthAssumption DEF IInv
<1>1. PICK t \in Tokens :
         /\ NewToken(t, t) /\ TypeOK'
         /\ \A q \in Reqs : At(q, "rotate")' => At(q, "rotate") /\ req'[q].t = req[q].t
  BY IssueTokenFacts
<1>2. /\ refresh[t] = "none" /\ refresh'[t] = "live" /\ chain'[t] = t
      /\ \A u \in Tokens \ {t} : refresh'[u] = refresh[u] /\ chain'[u] = chain[u]
  BY <1>1, NewTokenType
<1>3. UseInv'
  BY <1>2 DEF UseInv, IssueToken
<1>4. RotateInv'
  BY <1>1, <1>2 DEF RotateInv
<1>5. \A u \in Tokens : chain[u] # t
  BY <1>2 DEF RootInv, TypeOK
<1>6. RootInv'
  BY <1>1, <1>2, <1>5 DEF RootInv
<1>7. \A q \in Reqs, c \in Tokens : Carries(q, c)' => Carries(q, c) /\ c # t
  <2> SUFFICES ASSUME NEW q \in Reqs, NEW c \in Tokens, Carries(q, c)'
               PROVE  Carries(q, c) /\ c # t
    OBVIOUS
  <2>1. At(q, "rotate") /\ req'[q].t = req[q].t /\ chain'[req'[q].t] = c
    BY <1>1 DEF Carries
  <2>2. req[q].t \in Tokens \ {t}
    BY <1>2, <2>1 DEF RotateInv
  <2> QED
    BY <1>2, <1>5, <2>1, <2>2 DEF Carries
<1>8. OneLivePerChain'
  BY <1>2, <1>5, <1>7 DEF OneLivePerChain
<1> QED
  BY <1>1, <1>3, <1>4, <1>6, <1>8

LEMMA RefreshFacts ==
    ASSUME IInv, NEW r \in Reqs, NEW t \in Tokens, Refresh(r, t)
    PROVE  /\ TypeOK'
           /\ refresh[t] = "live" /\ refresh'[t] = "dead" /\ used'[t] = used[t] + 1
           /\ \A u \in Tokens \ {t} : refresh'[u] = refresh[u] /\ used'[u] = used[u]
           /\ At(r, "rotate")' /\ req'[r].t = t /\ ~At(r, "rotate")
           /\ \A q \in Reqs \ {r} : req'[q] = req[q]
           /\ chain' = chain
<1> DEFINE q == [Idle EXCEPT !.pc = "rotate", !.t = t, !.barred = locked]
<1>1. q \in Request /\ q.pc = "rotate" /\ q.t = t /\ Begin(r, q)
  <2>1. locked \in BOOLEAN
    BY DEF IInv, TypeOK
  <2> QED
    BY <2>1, BeginTypes DEF Refresh, Query, Idle
<1> HIDE DEF q
<1>2. req' \in [Reqs -> Request]
  BY <1>1, BeginType DEF IInv, TypeOK
<1>3. /\ At(r, "rotate")' /\ req'[r].t = t /\ ~At(r, "rotate")
      /\ \A p \in Reqs \ {r} : req'[p] = req[p]
  BY <1>1 DEF Begin, At, IInv, TypeOK
<1>4. /\ refresh[t] = "live" /\ refresh'[t] = "dead" /\ used'[t] = used[t] + 1
      /\ \A u \in Tokens \ {t} : refresh'[u] = refresh[u] /\ used'[u] = used[u]
  BY DEF Refresh, IInv, TypeOK
<1>5. refresh' \in [Tokens -> Row] /\ used' \in [Tokens -> Nat]
  BY DEF Refresh, IInv, TypeOK, Row
<1>6. TypeOK'
  BY <1>2, <1>4, <1>5 DEF Refresh, IInv, TypeOK
<1> QED
  BY <1>3, <1>4, <1>6 DEF Refresh

LEMMA RefreshInv == ASSUME IInv, NEW r \in Reqs, NEW t \in Tokens, Refresh(r, t) PROVE IInv'
<1> USE DEF IInv
<1>1. /\ TypeOK'
      /\ refresh[t] = "live" /\ refresh'[t] = "dead" /\ used'[t] = used[t] + 1
      /\ \A u \in Tokens \ {t} : refresh'[u] = refresh[u] /\ used'[u] = used[u]
      /\ At(r, "rotate")' /\ req'[r].t = t /\ ~At(r, "rotate")
      /\ \A q \in Reqs \ {r} : req'[q] = req[q]
      /\ chain' = chain
  BY RefreshFacts
<1>2. UseInv'
  <2>1. used[t] = 0
    BY <1>1 DEF UseInv
  <2> QED
    BY <1>1, <2>1 DEF UseInv
<1>3. RotateInv'
  BY <1>1 DEF RotateInv, At
<1>4. RootInv'
  BY <1>1 DEF RootInv
<1>5. /\ \A q \in Reqs \ {r}, c \in Tokens : Carries(q, c)' => Carries(q, c)
      /\ \A c \in Tokens : Carries(r, c)' => chain[t] = c
  BY <1>1 DEF Carries, At
<1>6. OneLivePerChain'
  <2>1. ASSUME NEW c \in Tokens, NEW u \in Tokens, NEW v \in Tokens,
               {refresh'[u], refresh'[v]} = {"live"}, chain'[u] = c, chain'[v] = c
        PROVE  u = v
    BY <1>1, <2>1 DEF OneLivePerChain
  <2>2. ASSUME NEW c \in Tokens, NEW u \in Tokens, NEW q \in Reqs,
               refresh'[u] = "live", chain'[u] = c, Carries(q, c)'
        PROVE  FALSE
    <3>1. u # t /\ refresh[u] = "live" /\ chain[u] = c
      BY <1>1, <2>2
    <3>2. CASE q = r
      BY <1>1, <1>5, <2>2, <3>1, <3>2 DEF OneLivePerChain
    <3>3. CASE q # r
      BY <1>5, <2>2, <3>1, <3>3 DEF OneLivePerChain
    <3> QED
      BY <3>2, <3>3
  <2>3. ASSUME NEW c \in Tokens, NEW p \in Reqs, NEW q \in Reqs, Carries(p, c)', Carries(q, c)'
        PROVE  p = q
    BY <1>1, <1>5, <2>3 DEF OneLivePerChain
  <2> QED
    BY <2>1, <2>2, <2>3 DEF OneLivePerChain
<1> QED
  BY <1>1, <1>2, <1>3, <1>4, <1>6

LEMMA RotateFacts ==
    ASSUME IInv, NEW r \in Reqs, Rotate(r)
    PROVE  \E t \in Tokens :
              /\ TypeOK'
              /\ At(r, "rotate") /\ chain[req[r].t] \in Tokens
              /\ refresh[t] = "none" /\ refresh'[t] = "live" /\ chain'[t] = chain[req[r].t]
              /\ \A u \in Tokens \ {t} : refresh'[u] = refresh[u] /\ chain'[u] = chain[u]
              /\ ~At(r, "rotate")' /\ \A q \in Reqs \ {r} : req'[q] = req[q]
              /\ used' = used
<1> USE DEF IInv
<1>1. PICK t \in Tokens :
         /\ NewToken(t, chain[req[r].t])
         /\ req' = [req EXCEPT ![r].pc = "check lock", ![r].t = t]
  BY DEF Rotate
<1>2. At(r, "rotate") /\ chain[req[r].t] \in Tokens
  <2>1. req[r].t \in Tokens /\ refresh[req[r].t] = "dead"
    BY DEF Rotate, RotateInv
  <2> QED
    BY <2>1 DEF TypeOK, Rotate
<1>3. /\ refresh' \in [Tokens -> Row] /\ chain' \in [Tokens -> Tokens \cup {None}]
      /\ \A u \in Tokens : refresh'[u] = "none" <=> chain'[u] = None
      /\ refresh[t] = "none" /\ refresh'[t] = "live" /\ chain'[t] = chain[req[r].t]
      /\ \A u \in Tokens \ {t} : refresh'[u] = refresh[u] /\ chain'[u] = chain[u]
  BY <1>1, <1>2, NewTokenType
<1>4. /\ req' \in [Reqs -> Request] /\ ~At(r, "rotate")'
      /\ \A q \in Reqs \ {r} : req'[q] = req[q]
  <2> DEFINE q == [req[r] EXCEPT !.pc = "check lock", !.t = t]
  <2>1. q \in Request /\ q.pc = "check lock"
    BY DEF TypeOK, Request, Query
  <2>2. req' = [req EXCEPT ![r] = q]
    BY <1>1
  <2> HIDE DEF q
  <2> QED
    BY <2>1, <2>2 DEF TypeOK, At
<1>5. TypeOK'
  BY <1>3, <1>4 DEF Rotate, TypeOK
<1> QED
  BY <1>2, <1>3, <1>4, <1>5 DEF Rotate

LEMMA RotateStepInv == ASSUME IInv, NEW r \in Reqs, Rotate(r) PROVE IInv'
<1> USE AuthAssumption DEF IInv
<1>1. PICK t \in Tokens :
         /\ TypeOK'
         /\ At(r, "rotate") /\ chain[req[r].t] \in Tokens
         /\ refresh[t] = "none" /\ refresh'[t] = "live" /\ chain'[t] = chain[req[r].t]
         /\ \A u \in Tokens \ {t} : refresh'[u] = refresh[u] /\ chain'[u] = chain[u]
         /\ ~At(r, "rotate")' /\ \A q \in Reqs \ {r} : req'[q] = req[q]
         /\ used' = used
  BY RotateFacts
<1> DEFINE d == chain[req[r].t]
<1>2. UseInv'
  BY <1>1 DEF UseInv
<1>3. RotateInv'
  BY <1>1 DEF RotateInv, At
<1>4. /\ \A u \in Tokens : chain[u] # t
      /\ chain[d] = d /\ req[r].t \in Tokens
  BY <1>1 DEF RootInv, TypeOK, RotateInv
<1>5. RootInv'
  BY <1>1, <1>4 DEF RootInv
<1>6. \A q \in Reqs, c \in Tokens : Carries(q, c)' => Carries(q, c) /\ q # r
  <2> SUFFICES ASSUME NEW q \in Reqs, NEW c \in Tokens, Carries(q, c)'
               PROVE  Carries(q, c) /\ q # r
    OBVIOUS
  <2>1. q # r /\ At(q, "rotate") /\ req'[q] = req[q] /\ chain'[req[q].t] = c
    BY <1>1 DEF Carries, At
  <2>2. req[q].t \in Tokens \ {t}
    BY <1>1, <2>1 DEF RotateInv
  <2> QED
    BY <1>1, <2>1, <2>2 DEF Carries
<1>7. Carries(r, d) /\ d \in Tokens
  BY <1>1 DEF Carries
<1>8. OneLivePerChain'
  <2> HIDE DEF d
  <2>1. ASSUME NEW c \in Tokens, NEW u \in Tokens, NEW v \in Tokens,
               {refresh'[u], refresh'[v]} = {"live"}, chain'[u] = c, chain'[v] = c
        PROVE  u = v
    <3>1. ASSUME NEW w \in Tokens \ {t}, refresh'[w] = "live", chain'[w] = d PROVE FALSE
      BY <1>1, <1>7, <3>1 DEF OneLivePerChain
    <3>2. chain'[t] = d
      BY <1>1 DEF d
    <3> QED
      BY <1>1, <2>1, <3>1, <3>2 DEF OneLivePerChain
  <2>2. ASSUME NEW c \in Tokens, NEW u \in Tokens, NEW q \in Reqs,
               refresh'[u] = "live", chain'[u] = c, Carries(q, c)'
        PROVE  FALSE
    <3>1. Carries(q, c) /\ q # r
      BY <1>6, <2>2
    <3>2. CASE u = t
      <4>1. c = d
        BY <1>1, <2>2, <3>2 DEF d
      <4> QED
        BY <1>7, <3>1, <4>1 DEF OneLivePerChain
    <3>3. CASE u # t
      BY <1>1, <2>2, <3>1, <3>3 DEF OneLivePerChain
    <3> QED
      BY <3>2, <3>3
  <2>3. ASSUME NEW c \in Tokens, NEW p \in Reqs, NEW q \in Reqs, Carries(p, c)', Carries(q, c)'
        PROVE  p = q
    BY <1>6, <2>3 DEF OneLivePerChain
  <2> QED
    BY <2>1, <2>2, <2>3 DEF OneLivePerChain
<1> QED
  BY <1>1, <1>2, <1>3, <1>5, <1>8

LEMMA InitInv == Init => IInv
<1> SUFFICES ASSUME Init PROVE IInv
  OBVIOUS
<1>1. TypeOK
  <2>1. req \in [Reqs -> Request]
    BY IdleType DEF Init
  <2>2. attempts \in Nat /\ wrong \in 0..MaxWrong /\ faults \in 0..MaxFaults
    BY AuthAssumption DEF Init
  <2>4. locked \in BOOLEAN
    BY DEF Init
  <2>3. /\ refresh \in [Tokens -> Row] /\ session \in [Sessions -> Row]
        /\ chain \in [Tokens -> Tokens \cup {None}] /\ used \in [Tokens -> Nat]
        /\ \A t \in Tokens : refresh[t] = "none" <=> chain[t] = None
    BY DEF Init, Row
  <2> QED
    BY <2>1, <2>2, <2>3, <2>4 DEF TypeOK
<1>2. UseInv /\ RotateInv /\ RootInv /\ OneLivePerChain
  BY AuthAssumption DEF Init, UseInv, RotateInv, RootInv, OneLivePerChain, Carries, At, Idle
<1> QED
  BY <1>1, <1>2 DEF IInv

LEMMA StepInv == IInv /\ [Next]_vars => IInv'
<1> SUFFICES ASSUME IInv, [Next]_vars PROVE IInv'
  OBVIOUS
<1>1. CASE Gives
  BY <1>1, IssueTokenInv, RefreshInv, RotateStepInv DEF Gives
<1>2. CASE ~Gives
  BY <1>2, OthersSafe, LapseInv DEF IInv
<1> QED
  BY <1>1, <1>2

(***************************************************************************)
(* IInv holds in every reachable state.                                    *)
(***************************************************************************)
THEOREM Invariance == Spec => []IInv
  BY InitInv, StepInv, PTL DEF Spec

(***************************************************************************)
(* The rows, the handlers and the chains always have their types, and a    *)
(* token belongs to a chain exactly when it is stored.                     *)
(***************************************************************************)
THEOREM TypeCorrect == Spec => []TypeOK
<1>1. IInv => TypeOK
  BY DEF IInv
<1> QED
  BY <1>1, Invariance, PTL

(***************************************************************************)
(* No refresh token is ever exchanged twice.                               *)
(***************************************************************************)
THEOREM ExchangedOnce == Spec => []SingleUse
<1>1. IInv => SingleUse
  BY DEF IInv, UseInv, SingleUse
<1> QED
  BY <1>1, Invariance, PTL

(***************************************************************************)
(* A login never has two usable refresh tokens, nor one beside a rotation  *)
(* under way.                                                              *)
(***************************************************************************)
THEOREM NeverSplit == Spec => []OneLivePerChain
<1>1. IInv => OneLivePerChain
  BY DEF IInv
<1> QED
  BY <1>1, Invariance, PTL

-----------------------------------------------------------------------------
(***************************************************************************)
(* The refinement.  A chain changes its state only as TokenChains allows:  *)
(* the three giving actions start, pass and resume it, and a lapse ends    *)
(* any number of chains.                                                   *)
(***************************************************************************)
Alive(c) == \E t \in Tokens : refresh[t] = "live" /\ chain[t] = c
Carried(c) == \E r \in Reqs : Carries(r, c)

LEMMA StateIs ==
    ASSUME NEW c
    PROVE  StateOf(c) = IF Alive(c) THEN "usable"
                        ELSE IF Carried(c) THEN "passing"
                        ELSE IF chain[c] = c THEN "ended" ELSE "none"
  BY DEF StateOf, Alive, Carried

\* Whoever has a chain has one that a login started, and shares it with nobody.
LEMMA ChainFacts ==
    ASSUME IInv, NEW c \in Tokens
    PROVE  /\ Alive(c) => chain[c] = c
           /\ Carried(c) => chain[c] = c
           /\ ~(Alive(c) /\ Carried(c))
<1>1. Alive(c) => chain[c] = c
  BY DEF IInv, RootInv, Alive
<1>2. Carried(c) => chain[c] = c
  BY DEF IInv, RootInv, RotateInv, Carried, Carries
<1>3. ~(Alive(c) /\ Carried(c))
  BY DEF IInv, OneLivePerChain, Alive, Carried
<1> QED
  BY <1>1, <1>2, <1>3

States == [c \in Tokens |-> StateOf(c)]

\* One chain moves, the others stay.
LEMMA OneMoves ==
    ASSUME NEW c \in Tokens, NEW from, NEW to,
           StateOf(c) = from, StateOf(c)' = to,
           \A d \in Tokens \ {c} : StateOf(d)' = StateOf(d)
    PROVE  Logins!Move(c, from, to)
  BY DEF Logins!Move

LEMMA LapseRefines == ASSUME IInv, Lapse PROVE [Logins!Next]_States
<1>1. \A c \in Tokens : (Alive(c)' => Alive(c)) /\ (Carried(c)' => Carried(c))
  BY DEF Alive, Carried, Carries, Lapse
<1> DEFINE S == {c \in Tokens : StateOf(c)' # StateOf(c)}
<1>2. ASSUME NEW c \in S PROVE StateOf(c) \in {"usable", "passing"} /\ StateOf(c)' = "ended"
  <2>1. chain'[c] = chain[c]
    BY DEF Lapse
  <2>2. StateOf(c)' = IF Alive(c)' THEN "usable"
                      ELSE IF Carried(c)' THEN "passing"
                      ELSE IF chain'[c] = c THEN "ended" ELSE "none"
    BY DEF StateOf, Alive, Carried
  <2> QED
    BY <1>1, <2>1, <2>2, StateIs, ChainFacts
<1>3. Logins!End(S)
  <2>1. [c \in Tokens |-> StateOf(c)]' =
          [c \in Tokens |-> IF c \in S THEN "ended" ELSE [d \in Tokens |-> StateOf(d)][c]]
    BY <1>2
  <2>2. \A c \in S : [d \in Tokens |-> StateOf(d)][c] \in {"usable", "passing"}
    BY <1>2
  <2> HIDE DEF S
  <2> QED
    BY <2>1, <2>2 DEF Logins!End
<1> QED
  BY <1>3 DEF Logins!Next

LEMMA IssueTokenRefines == ASSUME IInv, NEW r \in Reqs, IssueToken(r) PROVE Logins!Next
<1>1. PICK t \in Tokens :
         /\ NewToken(t, t)
         /\ \A q \in Reqs : At(q, "rotate")' => At(q, "rotate") /\ req'[q].t = req[q].t
         /\ \A q \in Reqs : At(q, "rotate") => At(q, "rotate")' /\ req'[q].t = req[q].t
  <2>1. \A q \in Reqs : At(q, "rotate") => q # r
    BY DEF IssueToken, At
  <2>2. \A q \in Reqs \ {r} : req'[q] = req[q]
    BY DEF IssueToken, Finish, IInv, TypeOK
  <2> QED
    BY <2>1, <2>2, IssueTokenFacts DEF At
<1>2. /\ refresh[t] = "none" /\ refresh'[t] = "live" /\ chain'[t] = t
      /\ \A u \in Tokens \ {t} : refresh'[u] = refresh[u] /\ chain'[u] = chain[u]
  BY <1>1, NewTokenType DEF IInv
<1>3. chain[t] = None /\ \A u \in Tokens : chain[u] # t
  BY <1>2, AuthAssumption DEF IInv, TypeOK, RootInv
<1>4. \A q \in Reqs : At(q, "rotate") => req[q].t \in Tokens \ {t}
  BY <1>2 DEF IInv, RotateInv
<1>5. StateOf(t) = "none" /\ StateOf(t)' = "usable"
  <2>1. ~Alive(t) /\ ~Carried(t) /\ chain[t] # t
    BY <1>3, <1>4, AuthAssumption DEF Alive, Carried, Carries
  <2>2. Alive(t)'
    BY <1>2 DEF Alive
  <2> QED
    BY <2>1, <2>2, StateIs DEF StateOf, Alive
<1>6. ASSUME NEW c \in Tokens \ {t} PROVE StateOf(c)' = StateOf(c)
  <2>1. Alive(c)' <=> Alive(c)
    BY <1>2 DEF Alive
  <2>2. Carried(c)' <=> Carried(c)
    BY <1>1, <1>2, <1>4 DEF Carried, Carries
  <2>3. chain'[c] = chain[c]
    BY <1>2
  <2> QED
    BY <2>1, <2>2, <2>3 DEF StateOf, Alive, Carried
<1> QED
  BY <1>5, <1>6, OneMoves DEF Logins!Next, Logins!Start

LEMMA RefreshRefines ==
    ASSUME IInv, NEW r \in Reqs, NEW t \in Tokens, Refresh(r, t)
    PROVE  Logins!Next
<1>1. /\ refresh[t] = "live" /\ refresh'[t] = "dead"
      /\ \A u \in Tokens \ {t} : refresh'[u] = refresh[u]
      /\ At(r, "rotate")' /\ req'[r].t = t /\ ~At(r, "rotate")
      /\ \A q \in Reqs \ {r} : req'[q] = req[q]
      /\ chain' = chain
  BY RefreshFacts
<1>2. PICK d \in Tokens : d = chain[t]
  BY <1>1 DEF IInv, TypeOK
<1>3. StateOf(d) = "usable" /\ StateOf(d)' = "passing"
  <2>1. Alive(d)
    BY <1>1, <1>2 DEF Alive
  <2>2. ~Alive(d)'
    BY <1>1, <1>2 DEF Alive, IInv, OneLivePerChain
  <2>3. Carried(d)'
    BY <1>1, <1>2 DEF Carried, Carries
  <2> QED
    BY <2>1, <2>2, <2>3 DEF StateOf, Alive, Carried
<1>4. ASSUME NEW c \in Tokens \ {d} PROVE StateOf(c)' = StateOf(c)
  <2>1. Alive(c)' <=> Alive(c)
    BY <1>1, <1>2 DEF Alive
  <2>2. Carried(c)' <=> Carried(c)
    BY <1>1, <1>2 DEF Carried, Carries, At
  <2> QED
    BY <1>1, <2>1, <2>2 DEF StateOf, Alive, Carried
<1> QED
  BY <1>2, <1>3, <1>4, OneMoves DEF Logins!Next, Logins!Pass

LEMMA RotateRefines == ASSUME IInv, NEW r \in Reqs, Rotate(r) PROVE Logins!Next
<1>1. PICK t \in Tokens :
         /\ At(r, "rotate") /\ chain[req[r].t] \in Tokens
         /\ refresh[t] = "none" /\ refresh'[t] = "live" /\ chain'[t] = chain[req[r].t]
         /\ \A u \in Tokens \ {t} : refresh'[u] = refresh[u] /\ chain'[u] = chain[u]
         /\ ~At(r, "rotate")' /\ \A q \in Reqs \ {r} : req'[q] = req[q]
  BY RotateFacts
<1>2. PICK d \in Tokens : d = chain[req[r].t]
  BY <1>1
<1>3. /\ \A q \in Reqs : At(q, "rotate") => req[q].t \in Tokens \ {t}
      /\ \A u \in Tokens : chain[u] # t
      /\ chain[t] = None
  BY <1>1, AuthAssumption DEF IInv, RotateInv, RootInv, TypeOK
<1>4. StateOf(d) = "passing" /\ StateOf(d)' = "usable"
  <2>1. Carried(d)
    BY <1>1, <1>2 DEF Carried, Carries
  <2>2. ~Alive(d)
    BY <2>1, ChainFacts
  <2>3. Alive(d)'
    BY <1>1, <1>2 DEF Alive
  <2> QED
    BY <2>1, <2>2, <2>3 DEF StateOf, Alive, Carried
<1>5. ASSUME NEW c \in Tokens \ {d} PROVE StateOf(c)' = StateOf(c)
  <2>1. Alive(c)' <=> Alive(c)
    BY <1>1, <1>2 DEF Alive
  <2>2. Carried(c)' <=> Carried(c)
    <3>1. ASSUME NEW q \in Reqs PROVE Carries(q, c)' <=> Carries(q, c)
      <4>1. CASE q = r
        BY <1>1, <1>2, <4>1 DEF Carries
      <4>2. CASE q # r
        BY <1>1, <1>3, <4>2 DEF Carries, At
      <4> QED
        BY <4>1, <4>2
    <3> QED
      BY <3>1 DEF Carried
  <2>3. chain'[c] = c <=> chain[c] = c
    BY <1>1, <1>2, <1>3, AuthAssumption
  <2> QED
    BY <2>1, <2>2, <2>3 DEF StateOf, Alive, Carried
<1> QED
  BY <1>4, <1>5, OneMoves DEF Logins!Next, Logins!Resume

LEMMA InitRefines == Init => Logins!Init
<1> SUFFICES ASSUME Init, NEW c \in Tokens PROVE StateOf(c) = "none"
  BY DEF Logins!Init
<1> QED
  BY AuthAssumption DEF Init, StateOf, Carries, At, Idle

LEMMA StepRefines == IInv /\ [Next]_vars => [Logins!Next]_States
<1> SUFFICES ASSUME IInv, [Next]_vars PROVE [Logins!Next]_States
  OBVIOUS
<1>1. CASE Gives
  BY <1>1, IssueTokenRefines, RefreshRefines, RotateRefines DEF Gives
<1>2. CASE ~Gives
  BY <1>2, OthersSafe, LapseRefines DEF IInv
<1> QED
  BY <1>1, <1>2

(***************************************************************************)
(* The tables implement TokenChains: a login whose chain has ended stays   *)
(* ended, and only the holder of a chain passes it on.                     *)
(***************************************************************************)
THEOREM Refinement == Spec => ImplementsTokenChains
<1>1. Init => Logins!Init
  BY InitRefines
<1>2. IInv /\ [Next]_vars => [Logins!Next]_[c \in Tokens |-> StateOf(c)]
  BY StepRefines DEF States
<1> QED
  BY <1>1, <1>2, Invariance, PTL DEF Spec, ImplementsTokenChains, Logins!Spec

-----------------------------------------------------------------------------
(***************************************************************************)
(* The lock.  A request is barred only while the lock is on, and a barred  *)
(* request never comes to the statement that opens a session: it meets the *)
(* lock at "check lock".                                                   *)
(***************************************************************************)
BarInv == \A r \in Reqs : req[r].barred => locked /\ ~At(r, "open")

\* Unless the lock goes off, it is enough to look at the slot that moves.
LEMMA OneBar ==
    ASSUME TypeOK, BarInv, NEW r \in Reqs, locked' = locked,
           \A q \in Reqs \ {r} : req'[q] = req[q],
           req'[r].barred => locked /\ req'[r].pc # "open"
    PROVE  BarInv'
  BY DEF BarInv, At

LEMMA FinishBar ==
    ASSUME TypeOK, NEW r \in Reqs, Finish(r)
    PROVE  ~req'[r].barred /\ \A q \in Reqs \ {r} : req'[q] = req[q]
  BY DEF TypeOK, Finish, Idle

LEMMA GotoBar ==
    ASSUME TypeOK, NEW r \in Reqs, NEW pc, Goto(r, pc)
    PROVE  /\ req'[r].barred = req[r].barred /\ req'[r].pc = pc
           /\ \A q \in Reqs \ {r} : req'[q] = req[q]
  BY DEF TypeOK, Goto, Request

LEMMA UnbarBar == ASSUME TypeOK, NEW r \in Reqs PROVE ~Unbar[r].barred
<1>1. req[r] \in Request
  BY DEF TypeOK
<1>2. ~[req[r] EXCEPT !.barred = FALSE].barred
  BY <1>1 DEF Request
<1> QED
  BY <1>2 DEF Unbar

LEMMA ArriveBar == ASSUME TypeOK, BarInv, NEW r \in Reqs, Arrive(r) PROVE BarInv'
<1>1. \A q \in Reqs \ {r} : req'[q] = req[q]
  BY DEF Arrive, Login, GoogleLogin, Refresh, Logout, ChangePassword, Begin, TypeOK
<1>2. locked' = locked
  BY DEF Arrive, Login, GoogleLogin, Refresh, Logout, ChangePassword, rows
<1>3. req'[r].barred => locked /\ req'[r].pc # "open"
  <2>1. ASSUME NEW right \in BOOLEAN, Login(r, right) PROVE ~req'[r].barred
    BY <2>1 DEF Login, Begin, Idle, TypeOK
  <2>2. CASE GoogleLogin(r)
    BY <2>2 DEF GoogleLogin, Begin, Idle, TypeOK
  <2>3. ASSUME NEW t \in KnownTokens, Refresh(r, t)
        PROVE  req'[r].barred = locked /\ req'[r].pc = "rotate"
    BY <2>3 DEF Refresh, Begin, Idle, TypeOK
  <2>4. ASSUME NEW s \in KnownSessions, NEW t \in KnownTokens \cup {None}, Logout(r, s, t)
        PROVE  ~req'[r].barred
    BY <2>4 DEF Logout, Begin, Idle, TypeOK
  <2>5. ASSUME NEW s \in KnownSessions, ChangePassword(r, s) PROVE ~req'[r].barred
    BY <2>5 DEF ChangePassword, Begin, Idle, TypeOK
  <2> QED
    BY <2>1, <2>2, <2>3, <2>4, <2>5 DEF Arrive
<1> QED
  BY <1>1, <1>2, <1>3, OneBar

LEMMA StepBar == ASSUME TypeOK, BarInv, NEW r \in Reqs, Step(r) PROVE BarInv'
<1>1. CASE Punish(r)
  <2>1. CASE locked'
    BY <1>1, <2>1 DEF Punish, BarInv, At, TypeOK, Idle
  <2>2. CASE ~locked'
    <3>1. \A q \in Reqs : req'[q] = IF q = r THEN Idle ELSE Unbar[q]
      BY <1>1, <2>2, UnbarType DEF Punish, TypeOK
    <3> QED
      BY <3>1, UnbarBar DEF BarInv, Idle
  <2> QED
    BY <2>1, <2>2
<1>2. CASE Reset(r)
  <2>1. \A q \in Reqs : req'[q].barred = Unbar[q].barred
    <3>1. Unbar \in [Reqs -> Request]
      BY UnbarType DEF TypeOK
    <3> QED
      BY <1>2, <3>1 DEF Reset, Request
  <2> QED
    BY <2>1, UnbarBar DEF BarInv
<1>3. CASE IssueSession(r) \/ IssueToken(r) \/ Rotate(r)
  <2>1. locked' = locked
    BY <1>3 DEF IssueSession, IssueToken, Rotate
  <2>2. \A q \in Reqs \ {r} : req'[q] = req[q]
    BY <1>3 DEF IssueSession, IssueToken, Rotate, Finish, TypeOK
  <2>3. req'[r].barred => req[r].barred /\ req'[r].pc # "open"
    <3>1. req[r] \in Request
      BY DEF TypeOK
    <3>2. CASE Finish(r)
      BY <3>2, FinishBar
    <3>3. CASE \E s \in Sessions : req' = [req EXCEPT ![r].pc = "issue token", ![r].s = s]
      <4>1. PICK s \in Sessions : req' = [req EXCEPT ![r].pc = "issue token", ![r].s = s]
        BY <3>3
      <4> DEFINE q == [req[r] EXCEPT !.pc = "issue token", !.s = s]
      <4>2. q.barred = req[r].barred /\ q.pc = "issue token"
        BY <3>1 DEF Request
      <4>3. req'[r] = q
        BY <4>1 DEF TypeOK
      <4> QED
        BY <4>2, <4>3
    <3>4. CASE \E t \in Tokens, pc \in {"issue session", "check lock"} :
                 req' = [req EXCEPT ![r].pc = pc, ![r].t = t]
      <4>1. PICK t \in Tokens, pc \in {"issue session", "check lock"} :
               req' = [req EXCEPT ![r].pc = pc, ![r].t = t]
        BY <3>4
      <4> DEFINE q == [req[r] EXCEPT !.pc = pc, !.t = t]
      <4>2. q.barred = req[r].barred /\ q.pc = pc
        BY <3>1 DEF Request
      <4>3. req'[r] = q
        BY <4>1 DEF TypeOK
      <4> QED
        BY <4>2, <4>3
    <3> QED
      BY <1>3, <3>2, <3>3, <3>4 DEF IssueSession, IssueToken, Rotate
  <2> QED
    BY <2>1, <2>2, <2>3, OneBar DEF BarInv
<1>4. CASE CheckLock(r)
  <2>1. CASE locked /\ Goto(r, "unissue")
    <3>1. locked' = locked
      BY <1>4 DEF CheckLock, rows
    <3>2. req'[r].pc = "unissue" /\ \A q \in Reqs \ {r} : req'[q] = req[q]
      BY <2>1, GotoBar
    <3> QED
      BY <2>1, <3>1, <3>2, OneBar
  <2>2. CASE ~locked /\ Goto(r, "open")
    <3>1. ~req'[r].barred
      BY <2>2, GotoBar DEF BarInv
    <3> QED
      BY <1>4, <2>2, <3>1, GotoBar, OneBar DEF CheckLock, rows
  <2> QED
    BY <1>4, <2>1, <2>2 DEF CheckLock
<1>5. CASE Unissue(r) \/ OpenSession(r) \/ EndToken(r) \/ EndTokens(r)
  BY <1>5, FinishBar, OneBar DEF Unissue, OpenSession, EndToken, EndTokens
<1>6. CASE EndSession(r) \/ Change(r) \/ EndSessions(r)
  <2>1. locked' = locked
    BY <1>6 DEF EndSession, Change, EndSessions, rows
  <2>2. Finish(r) \/ \E pc \in {"end token", "end sessions", "end tokens"} : Goto(r, pc)
    BY <1>6 DEF EndSession, Change, EndSessions
  <2> QED
    BY <2>1, <2>2, FinishBar, GotoBar, OneBar DEF BarInv
<1>7. CASE QueryFails(r)
  BY <1>7, FinishBar, GotoBar, OneBar DEF QueryFails, BarInv, rows
<1> QED
  BY <1>1, <1>2, <1>3, <1>4, <1>5, <1>6, <1>7 DEF Step

LEMMA NextBar == TypeOK /\ BarInv /\ [Next]_vars => BarInv'
<1> SUFFICES ASSUME TypeOK, BarInv, [Next]_vars PROVE BarInv'
  OBVIOUS
<1>1. CASE Unlock
  BY <1>1, UnbarBar DEF Unlock, BarInv
<1>2. CASE RoleChange \/ Expire \/ UNCHANGED vars
  BY <1>2 DEF RoleChange, Expire, vars, rows, BarInv, At
<1>3. CASE Restart
  BY <1>3 DEF Restart, Idle, BarInv
<1> QED
  BY <1>1, <1>2, <1>3, ArriveBar, StepBar DEF Next

(***************************************************************************)
(* No session is opened by a request that met a locked account and a lock  *)
(* that stayed on.                                                         *)
(***************************************************************************)
THEOREM LockHolds == Spec => LockHonoured
<1>1. Init => BarInv
  BY DEF Init, BarInv, Idle
<1>2. BarInv /\ [Next]_vars =>
        [\A r \in Reqs : req[r].barred /\ At(r, "open") /\ At(r, "idle")' => session' = session]_vars
  BY DEF BarInv
<1> QED
  BY <1>1, <1>2, NextBar, TypeCorrect, PTL DEF Spec, LockHonoured

=============================================================================
