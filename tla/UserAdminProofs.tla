-------------------------- MODULE UserAdminProofs --------------------------
(***************************************************************************)
(* Theorems about UserAdmin for every set of accounts and any number of    *)
(* requests.  The inductive invariant adds to the types what a request     *)
(* carries from its arrival to its last statement: whoever may take an     *)
(* administrator away is one, acts on somebody else, and (unless two such  *)
(* requests overlapped) is the only one to do so; and an account being     *)
(* created does not exist and has one creator.                             *)
(***************************************************************************)
EXTENDS UserAdmin, TLAPS

OpInv ==
    \A r \in Reqs :
        /\ At(r, "update") => req[r].op = "patch"
        /\ At(r, "revoke") => req[r].op \in {"patch", "delete"}
        /\ req[r].at \in {"clear", "sessions", "remove"} => req[r].op = "delete"

CreateInv ==
    /\ \A r \in Reqs : req[r].at \in {"lookup", "insert"} =>
          req[r].op = "create" /\ ~Exists(req[r].on) /\ req[r].on \notin deleted
    /\ \A r, s \in Reqs :
          req[r].op = "create" /\ req[s].op = "create" /\ req[r].on = req[s].on => r = s

OneRemover ==
    /\ \E u \in Users : role[u] = "admin"
    /\ \A r \in Reqs : MayRemoveAdmin(req[r]) => role[req[r].by] = "admin" /\ req[r].by # req[r].on
    /\ \A r, s \in Reqs : MayRemoveAdmin(req[r]) /\ MayRemoveAdmin(req[s]) => r = s

AdminInv == lapped \/ OneRemover

UseInv ==
    \A r \in Reqs :
        req[r].at \in {"sessions", "remove"} /\ req[r].on \in logged => req[r].touched

IInv == TypeOK /\ OpInv /\ CreateInv /\ AdminInv /\ UseInv

-----------------------------------------------------------------------------
(***************************************************************************)
(* What a step leaves of a request: who does what to whom, or nothing but  *)
(* the load of a list.                                                     *)
(***************************************************************************)
Over(s) == req'[s].op = "list" /\ req'[s].at \in {"idle", "load"}

Same(s) ==
    /\ req'[s].op = req[s].op /\ req'[s].by = req[s].by
    /\ req'[s].on = req[s].on /\ req'[s].to = req[s].to

Stays(s) == Same(s) /\ req'[s].at = req[s].at

LEMMA IdleType == Idle \in RequestType /\ [Idle EXCEPT !.at = "load"] \in RequestType
  BY UserAssumption DEF Idle, RequestType, Steps, Ops, Roles

LEMMA InitInv == Init => IInv
<1> SUFFICES ASSUME Init PROVE IInv
  OBVIOUS
<1>1. TypeOK
  <2>1. req \in [Reqs -> RequestType]
    BY IdleType DEF Init
  <2>2. \A r \in Reqs : ~At(r, "answer")
    BY DEF Init, At, Idle
  <2>3. left \in 0..MaxEvents /\ faults \in 0..MaxFaults
    BY UserAssumption DEF Init
  <2>4. list \in [Users -> Roles] /\ role \in [Users -> Roles] /\ lapped \in BOOLEAN /\ astray \in BOOLEAN
    BY DEF Init
  <2> QED
    BY <2>1, <2>2, <2>3, <2>4, UserAssumption DEF Init, TypeOK
<1>2. OpInv /\ CreateInv /\ UseInv
  BY DEF Init, OpInv, CreateInv, UseInv, Idle, At
<1>3. AdminInv
  BY UserAssumption DEF Init, AdminInv, OneRemover, MayRemoveAdmin, Idle
<1> QED
  BY <1>1, <1>2, <1>3 DEF IInv

\* No administrator is lost, and no request that may take one away is new.
LEMMA AdminKept ==
    ASSUME AdminInv, lapped' = lapped, TypeOK,
           \A s \in Reqs : Over(s) \/ Same(s),
           \A u \in Users : role[u] = "admin" => role'[u] = "admin"
    PROVE  AdminInv'
<1>1. \A s \in Reqs : MayRemoveAdmin(req'[s]) => Same(s) /\ MayRemoveAdmin(req[s])
  BY DEF MayRemoveAdmin, Over, Same
<1>2. \A s \in Reqs : req[s].by \in Users
  BY DEF TypeOK, RequestType
<1>3. CASE lapped
  BY <1>3 DEF AdminInv
<1>4. CASE ~lapped
  <2>1. OneRemover
    BY <1>4 DEF AdminInv
  <2>2. OneRemover'
    BY <1>1, <1>2, <2>1 DEF OneRemover, Same
  <2> QED
    BY <2>2 DEF AdminInv
<1> QED
  BY <1>3, <1>4

\* Creators go on or end, and nobody else creates or deletes what they create.
LEMMA CreateKept ==
    ASSUME CreateInv, TypeOK,
           \A s \in Reqs : Over(s) \/ Same(s),
           \A s \in Reqs : req'[s].at \in {"lookup", "insert"} => Same(s) /\ req[s].at \in {"lookup", "insert"},
           \A s \in Reqs : req'[s].at \in {"lookup", "insert"} /\ role[req[s].on] = "none"
                              => role'[req[s].on] = "none",
           \A u \in deleted' : u \in deleted \/ role[u] # "none"
    PROVE  CreateInv'
  BY DEF CreateInv, Over, Same, Exists

LEMMA OpKept ==
    ASSUME OpInv, TypeOK, \A s \in Reqs : Over(s) \/ Stays(s)
    PROVE  OpInv'
  BY DEF OpInv, Over, Same, Stays, At

\* A statement that takes request r on, and one that ends it.
LEMMA GotoFacts ==
    ASSUME TypeOK, NEW r \in Reqs, NEW x \in Steps, Goto(r, x)
    PROVE  /\ req' \in [Reqs -> RequestType]
           /\ \A s \in Reqs : /\ Same(s) /\ req'[s].touched = req[s].touched
                              /\ req'[s].rows = req[s].rows /\ req'[s].fresh = req[s].fresh
                              /\ req'[s].at = IF s = r THEN x ELSE req[s].at
  BY DEF TypeOK, Goto, Same, RequestType

LEMMA FinishFacts ==
    ASSUME TypeOK, NEW r \in Reqs, Finish(r)
    PROVE  /\ req' \in [Reqs -> RequestType]
           /\ req'[r] = Idle
           /\ \A s \in Reqs \ {r} : req'[s] = req[s]
  BY IdleType DEF TypeOK, Finish

LEMMA IdleFacts ==
    /\ Idle.at = "idle" /\ Idle.op = "list"
    /\ [Idle EXCEPT !.at = "load"].at = "load" /\ [Idle EXCEPT !.at = "load"].op = "list"
  BY DEF Idle

LEMMA FinishOver ==
    ASSUME TypeOK, NEW r \in Reqs, Finish(r)
    PROVE  /\ Over(r) /\ req'[r].at = "idle"
           /\ \A s \in Reqs \ {r} : Stays(s) /\ req'[s] = req[s]
  BY FinishFacts, IdleFacts DEF Over, Stays, Same

\* The budgets stay in their bounds.
LEMMA BudgetType ==
    ASSUME TypeOK, Spend \/ Fault \/ UNCHANGED budget
    PROVE  left' \in 0..MaxEvents /\ faults' \in 0..MaxFaults
  BY UserAssumption DEF TypeOK, Spend, Fault, budget

\* The requests are typed: what is left of TypeOK when the tables are as they were.
LEMMA TypeKept ==
    ASSUME TypeOK, req' \in [Reqs -> RequestType],
           \A s \in Reqs : req'[s].at = "answer" => req'[s].rows \in [Users -> Roles],
           UNCHANGED <<tables, list, lapped>>, astray' \in BOOLEAN,
           Spend \/ Fault \/ UNCHANGED budget
    PROVE  TypeOK'
<1>1. left' \in 0..MaxEvents /\ faults' \in 0..MaxFaults
  BY BudgetType
<1> QED
  BY <1>1 DEF TypeOK, tables, At

(***************************************************************************)
(* A step that changes no table: each request stays, goes on or ends.      *)
(***************************************************************************)
LEMMA TablesKept ==
    ASSUME IInv, TypeOK', UNCHANGED <<tables, lapped>>,
           \A s \in Reqs : Over(s) \/ (Stays(s) /\ req'[s].touched = req[s].touched)
    PROVE  IInv'
<1> USE DEF IInv
<1>1. OpInv'
  BY OpKept
<1>2. CreateInv'
  BY CreateKept DEF tables, Over, Stays
<1>3. AdminInv'
  BY AdminKept DEF tables, Stays
<1>4. UseInv'
  BY DEF UseInv, tables, Over, Stays, Same
<1> QED
  BY <1>1, <1>2, <1>3, <1>4

LEMMA LookupInv == ASSUME IInv, NEW r \in Reqs, Lookup(r) PROVE IInv'
<1> USE DEF IInv
<1> UNCHANGED <<tables, list, lapped>> /\ astray' = astray /\ UNCHANGED budget
  BY DEF Lookup, panel
<1>1. CASE Finish(r)
  <2>1. TypeOK'
    BY <1>1, FinishFacts, FinishOver, TypeKept DEF TypeOK, At
  <2> QED
    BY <1>1, <2>1, FinishOver, TablesKept, Zenon DEF Stays
<1>2. CASE Goto(r, "insert")
  <2>1. "insert" \in Steps
    BY DEF Steps
  <2>2. TypeOK'
    BY <1>2, <2>1, GotoFacts, TypeKept DEF TypeOK, At
  <2>3. OpInv' /\ UseInv'
    BY <1>2, <2>1, GotoFacts DEF OpInv, UseInv, At, Same, tables
  <2>4. CreateInv'
    BY <1>2, <2>1, GotoFacts, CreateKept DEF tables, Lookup, At
  <2>5. AdminInv'
    BY <1>2, <2>1, GotoFacts, AdminKept DEF tables
  <2> QED
    BY <2>2, <2>3, <2>4, <2>5
<1> QED
  BY <1>1, <1>2 DEF Lookup

\* A row is added: the account did not exist, so no role of an administrator is touched.
LEMMA InsertInv == ASSUME IInv, NEW r \in Reqs, Insert(r) PROVE IInv'
<1> USE DEF IInv
<1>0. "log" \in Steps
  BY DEF Steps
<1>1. CASE Finish(r) /\ UNCHANGED role
  <2>1. UNCHANGED <<tables, list, lapped>> /\ astray' = astray /\ UNCHANGED budget
    BY <1>1 DEF Insert, tables, panel
  <2>2. TypeOK'
    BY <1>1, <2>1, FinishFacts, FinishOver, TypeKept DEF TypeOK, At
  <2> QED
    BY <1>1, <2>1, <2>2, FinishOver, TablesKept, Zenon DEF Stays
<1>2. CASE Goto(r, "log") /\ role' = [role EXCEPT ![req[r].on] = req[r].to]
  <2>1. /\ Goto(r, "log") /\ role' = [role EXCEPT ![req[r].on] = req[r].to] /\ At(r, "insert")
        /\ UNCHANGED <<deleted, session, token, logged, panel, lapped, budget>>
    BY <1>2 DEF Insert
  <2>2. /\ req[r].on \in Users /\ req[r].to \in Roles /\ req[r].op = "create"
        /\ role[req[r].on] = "none" /\ req[r].on \notin deleted
    BY <2>1 DEF TypeOK, RequestType, CreateInv, Exists, At
  <2>3. /\ role' \in [Users -> Roles]
        /\ \A u \in Users : u # req[r].on => role'[u] = role[u]
    BY <2>1, <2>2 DEF TypeOK
  <2>4. TypeOK'
    <3>1. left' \in 0..MaxEvents /\ faults' \in 0..MaxFaults
      BY <2>1, BudgetType
    <3>2. /\ req' \in [Reqs -> RequestType]
          /\ \A s \in Reqs : At(s, "answer")' => req'[s].rows \in [Users -> Roles]
      BY <1>0, <2>1, GotoFacts DEF TypeOK, At
    <3> QED
      BY <2>1, <2>2, <2>3, <3>1, <3>2 DEF TypeOK, panel
  <2>5. OpInv' /\ UseInv'
    BY <1>0, <2>1, GotoFacts DEF OpInv, UseInv, At, Same
  <2>6. CreateInv'
    <3>1. \A s \in Reqs : req'[s].at \in {"lookup", "insert"} => s # r /\ req[s].at \in {"lookup", "insert"}
      BY <1>0, <2>1, GotoFacts
    <3>2. \A s \in Reqs : req[s].at \in {"lookup", "insert"} /\ s # r => req[s].on # req[r].on
      BY <2>2 DEF CreateInv
    <3>3. \A s \in Reqs : req[s].on \in Users
      BY DEF TypeOK, RequestType
    <3> QED
      BY <1>0, <2>1, <2>3, <3>1, <3>2, <3>3, GotoFacts, CreateKept
  <2>7. AdminInv'
    BY <1>0, <2>1, <2>2, <2>3, GotoFacts, AdminKept
  <2> QED
    BY <2>4, <2>5, <2>6, <2>7
<1> QED
  BY <1>1, <1>2 DEF Insert

\* The role of somebody else: whoever takes an administrator away is one, and stays one.
LEMMA UpdateInv == ASSUME IInv, NEW r \in Reqs, Update(r) PROVE IInv'
<1> USE DEF IInv
<1>0. "log" \in Steps /\ "revoke" \in Steps
  BY DEF Steps
<1>1. CASE Finish(r) /\ UNCHANGED role
  <2>1. UNCHANGED <<tables, list, lapped>> /\ astray' = astray /\ UNCHANGED budget
    BY <1>1 DEF Update, tables, panel
  <2>2. TypeOK'
    BY <1>1, <2>1, FinishFacts, FinishOver, TypeKept DEF TypeOK, At
  <2> QED
    BY <1>1, <2>1, <2>2, FinishOver, TablesKept, Zenon DEF Stays
<1>2. CASE /\ Exists(req[r].on)
           /\ role' = IF req[r].to = "none" THEN role ELSE [role EXCEPT ![req[r].on] = req[r].to]
           /\ Goto(r, IF req[r].to = "none" THEN "log" ELSE "revoke")
  <2> PICK x \in {"log", "revoke"} : Goto(r, x)
    BY <1>2
  <2>1. /\ At(r, "update") /\ req[r].op = "patch"
        /\ role' = IF req[r].to = "none" THEN role ELSE [role EXCEPT ![req[r].on] = req[r].to]
        /\ UNCHANGED <<deleted, session, token, logged, panel, lapped, budget>>
    BY <1>2 DEF Update, OpInv
  <2>2. req[r].on \in Users /\ req[r].to \in Roles /\ role[req[r].on] # "none"
    BY <1>2 DEF TypeOK, RequestType, Exists
  <2>3. /\ role' \in [Users -> Roles]
        /\ \A u \in Users : (role'[u] = "none") <=> (role[u] = "none")
        /\ \A u \in Users : u # req[r].on => role'[u] = role[u]
        /\ req[r].to # "user" /\ role[req[r].on] = "admin" => role'[req[r].on] = "admin"
    BY <2>1, <2>2 DEF TypeOK, Roles
  <2>f. /\ req' \in [Reqs -> RequestType]
        /\ \A s \in Reqs : /\ Same(s) /\ req'[s].touched = req[s].touched
                           /\ req'[s].rows = req[s].rows
                           /\ req'[s].at = IF s = r THEN x ELSE req[s].at
    BY <1>0, GotoFacts
  <2>4. TypeOK'
    <3>1. left' \in 0..MaxEvents /\ faults' \in 0..MaxFaults
      BY <2>1, BudgetType
    <3>2. \A s \in Reqs : At(s, "answer")' => req'[s].rows \in [Users -> Roles]
      BY <2>f DEF TypeOK, At
    <3> QED
      BY <2>1, <2>3, <2>f, <3>1, <3>2 DEF TypeOK, panel
  <2>5. OpInv' /\ UseInv'
    BY <2>f, <2>1 DEF OpInv, UseInv, At, Same
  <2>6. CreateInv'
    <3>1. \A s \in Reqs : req[s].on \in Users
      BY DEF TypeOK, RequestType
    <3> QED
      BY <2>f, <2>1, <2>3, <3>1, CreateKept
  <2>7. CASE ~MayRemoveAdmin(req[r])
    <3>1. req[r].to # "user"
      BY <2>1, <2>7 DEF MayRemoveAdmin
    <3>2. AdminInv'
      BY <2>f, <2>1, <2>3, <3>1, AdminKept
    <3> QED
      BY <2>4, <2>5, <2>6, <3>2
  <2>8. CASE MayRemoveAdmin(req[r])
    <3>1. CASE lapped
      <4> AdminInv'
        BY <2>1, <3>1 DEF AdminInv
      <4> QED
        BY <2>4, <2>5, <2>6
    <3>2. CASE OneRemover
      <4>1. /\ req[r].by \in Users /\ role'[req[r].by] = "admin"
            /\ \A s \in Reqs : MayRemoveAdmin(req[s]) => s = r
        BY <2>3, <2>8, <3>2 DEF OneRemover, TypeOK, RequestType
      <4>2. \A s \in Reqs : MayRemoveAdmin(req'[s]) => s = r
        BY <2>f, <4>1 DEF MayRemoveAdmin, Same
      <4>3. req'[r].by = req[r].by /\ req[r].by # req'[r].on
        BY <2>f, <2>8, <3>2 DEF OneRemover, Same
      <4>4. OneRemover'
        BY <4>1, <4>2, <4>3 DEF OneRemover
      <4> QED
        BY <2>4, <2>5, <2>6, <4>4 DEF AdminInv
    <3> QED
      BY <3>1, <3>2 DEF AdminInv
  <2> QED
    BY <2>7, <2>8
<1> QED
  BY <1>1, <1>2 DEF Update

(***************************************************************************)
(* The statements of a deletion before its last one.                       *)
(***************************************************************************)
LEMMA SessionsType ==
    ASSUME TypeOK, UNCHANGED <<role, deleted, list, lapped>>, astray' \in BOOLEAN,
           session' \subseteq session, token' \subseteq token, logged' \subseteq logged,
           req' \in [Reqs -> RequestType],
           \A s \in Reqs : req'[s].at = "answer" => req'[s].rows \in [Users -> Roles],
           Spend \/ Fault \/ UNCHANGED budget
    PROVE  TypeOK'
<1>1. left' \in 0..MaxEvents /\ faults' \in 0..MaxFaults
  BY BudgetType
<1> QED
  BY <1>1 DEF TypeOK, At

LEMMA RevokeInv == ASSUME IInv, NEW r \in Reqs, Revoke(r) PROVE IInv'
<1> USE DEF IInv
<1>0. "log" \in Steps /\ "clear" \in Steps
  BY DEF Steps
<1> PICK x \in {"log", "clear"} : Goto(r, x) /\ (x = "clear" => req[r].op # "patch")
  BY DEF Revoke
<1>1. /\ req' \in [Reqs -> RequestType]
      /\ \A s \in Reqs : /\ Same(s) /\ req'[s].touched = req[s].touched
                         /\ req'[s].rows = req[s].rows
                         /\ req'[s].at = IF s = r THEN x ELSE req[s].at
  BY <1>0, GotoFacts
<1>2. /\ At(r, "revoke") /\ UNCHANGED <<role, deleted, token, logged, panel, lapped>>
      /\ session' \subseteq session /\ (Fault \/ UNCHANGED budget)
  BY DEF Revoke
<1>3. TypeOK'
  BY <1>1, <1>2, SessionsType DEF TypeOK, At, panel
<1>4. OpInv' /\ UseInv'
  BY <1>1, <1>2 DEF OpInv, UseInv, At, Same
<1>5. CreateInv'
  BY <1>1, <1>2, CreateKept
<1>6. AdminInv'
  BY <1>1, <1>2, AdminKept
<1> QED
  BY <1>3, <1>4, <1>5, <1>6

LEMMA ClearLogsInv == ASSUME IInv, NEW r \in Reqs, ClearLogs(r) PROVE IInv'
<1> USE DEF IInv
<1>0. "sessions" \in Steps /\ FALSE \in BOOLEAN
  BY DEF Steps
<1>1. /\ req' \in [Reqs -> RequestType]
      /\ \A s \in Reqs : /\ Same(s) /\ (s # r => req'[s].touched = req[s].touched)
                         /\ req'[s].rows = req[s].rows
                         /\ req'[s].at = IF s = r THEN "sessions" ELSE req[s].at
  <2> DEFINE q == [[req[r] EXCEPT !.at = "sessions"] EXCEPT !.touched = FALSE]
  <2>1. req' = [req EXCEPT ![r] = q]
    BY DEF ClearLogs, TypeOK
  <2>2. req[r] \in RequestType
    BY DEF TypeOK
  <2>3. /\ q \in RequestType /\ q.at = "sessions"
        /\ q.op = req[r].op /\ q.by = req[r].by /\ q.on = req[r].on /\ q.to = req[r].to
        /\ q.rows = req[r].rows
    BY <1>0, <2>2 DEF RequestType
  <2> HIDE DEF q
  <2> QED
    BY <2>1, <2>3 DEF TypeOK, Same
<1>2. /\ At(r, "clear") /\ UNCHANGED <<role, deleted, session, token, panel, lapped, budget>>
      /\ logged' = logged \ {req[r].on}
  BY DEF ClearLogs
<1>3. TypeOK'
  BY <1>1, <1>2, SessionsType DEF TypeOK, At, panel
<1>4. OpInv' /\ UseInv'
  BY <1>1, <1>2 DEF OpInv, UseInv, At, Same
<1>5. CreateInv'
  BY <1>1, <1>2, CreateKept
<1>6. AdminInv'
  BY <1>1, <1>2, AdminKept
<1> QED
  BY <1>3, <1>4, <1>5, <1>6

LEMMA ClearSessionsInv == ASSUME IInv, NEW r \in Reqs, ClearSessions(r) PROVE IInv'
<1> USE DEF IInv
<1>0. "remove" \in Steps
  BY DEF Steps
<1>1. /\ req' \in [Reqs -> RequestType]
      /\ \A s \in Reqs : /\ Same(s) /\ req'[s].touched = req[s].touched
                         /\ req'[s].rows = req[s].rows
                         /\ req'[s].at = IF s = r THEN "remove" ELSE req[s].at
  BY <1>0, GotoFacts DEF ClearSessions
<1>2. /\ At(r, "sessions") /\ UNCHANGED <<role, deleted, token, logged, panel, lapped, budget>>
      /\ session' = session \ {req[r].on}
  BY DEF ClearSessions
<1>3. TypeOK'
  BY <1>1, <1>2, SessionsType DEF TypeOK, At, panel
<1>4. OpInv' /\ UseInv'
  BY <1>1, <1>2 DEF OpInv, UseInv, At, Same
<1>5. CreateInv'
  BY <1>1, <1>2, CreateKept
<1>6. AdminInv'
  BY <1>1, <1>2, AdminKept
<1> QED
  BY <1>3, <1>4, <1>5, <1>6

\* The only one who may remove administrators removes somebody else.
LEMMA RemoveInv == ASSUME IInv, NEW r \in Reqs, Remove(r) PROVE IInv'
<1> USE DEF IInv
<1>0. "log" \in Steps /\ "none" \in Roles
  BY DEF Steps, Roles
<1>1. CASE Finish(r) /\ UNCHANGED <<role, deleted, session, token>>
  <2>1. UNCHANGED <<tables, list, lapped>> /\ astray' = astray /\ UNCHANGED budget
    BY <1>1 DEF Remove, tables, panel
  <2>2. TypeOK'
    BY <1>1, <2>1, FinishFacts, FinishOver, TypeKept DEF TypeOK, At
  <2> QED
    BY <1>1, <2>1, <2>2, FinishOver, TablesKept, Zenon DEF Stays
<1>2. CASE Exists(req[r].on) /\ req[r].on \notin logged
  <2> PICK u \in Users : u = req[r].on
    BY DEF TypeOK, RequestType
  <2>1. /\ At(r, "remove") /\ req[r].op = "delete" /\ Goto(r, "log")
        /\ role' = [role EXCEPT ![u] = "none"] /\ deleted' = deleted \cup {u}
        /\ session' = session \ {u} /\ token' = token \ {u}
        /\ UNCHANGED <<logged, panel, lapped, budget>>
    <3>1. At(r, "remove") /\ req[r].op = "delete"
      BY DEF Remove, OpInv, At
    <3> QED
      BY <1>2, <3>1 DEF Remove
  <2>2. /\ role' \in [Users -> Roles] /\ role'[u] = "none"
        /\ \A v \in Users : v # u => role'[v] = role[v]
    BY <1>0, <2>1 DEF TypeOK
  <2>f. /\ req' \in [Reqs -> RequestType]
        /\ \A s \in Reqs : /\ Same(s) /\ req'[s].touched = req[s].touched
                           /\ req'[s].rows = req[s].rows
                           /\ req'[s].at = IF s = r THEN "log" ELSE req[s].at
    BY <1>0, <2>1, GotoFacts
  <2>3. TypeOK'
    <3>1. left' \in 0..MaxEvents /\ faults' \in 0..MaxFaults
      BY <2>1, BudgetType
    <3>2. \A s \in Reqs : At(s, "answer")' => req'[s].rows \in [Users -> Roles]
      BY <2>f DEF TypeOK, At
    <3>3. /\ \A v \in deleted' \cup session' \cup token' \cup logged' : v \in Users
          /\ \A v \in session' \cup token' \cup logged' : role'[v] # "none"
          /\ \A v \in deleted' : role'[v] = "none"
      BY <1>2, <2>1, <2>2 DEF TypeOK
    <3> QED
      BY <2>1, <2>2, <2>f, <3>1, <3>2, <3>3 DEF TypeOK, panel
  <2>4. OpInv' /\ UseInv'
    BY <2>f, <2>1 DEF OpInv, UseInv, At, Same
  <2>5. CreateInv'
    <3>1. \A s \in Reqs : req[s].on \in Users
      BY DEF TypeOK, RequestType
    <3>2. \A v \in deleted' : v \in deleted \/ role[v] # "none"
      BY <1>2, <2>1 DEF Exists
    <3> QED
      BY <2>f, <2>1, <2>2, <3>1, <3>2, CreateKept
  <2>6. AdminInv'
    <3>1. CASE lapped
      BY <2>1, <3>1 DEF AdminInv
    <3>2. CASE OneRemover
      <4>1. /\ req[r].by \in Users /\ role'[req[r].by] = "admin"
            /\ \A s \in Reqs : MayRemoveAdmin(req[s]) => s = r
        BY <2>1, <2>2, <3>2 DEF OneRemover, MayRemoveAdmin, TypeOK, RequestType
      <4>2. \A s \in Reqs : MayRemoveAdmin(req'[s]) => s = r
        BY <2>f, <4>1 DEF MayRemoveAdmin, Same
      <4>3. req'[r].by = req[r].by /\ req[r].by # req'[r].on
        BY <2>f, <2>1, <3>2 DEF OneRemover, Same, MayRemoveAdmin
      <4>4. OneRemover'
        BY <4>1, <4>2, <4>3 DEF OneRemover
      <4> QED
        BY <4>4 DEF AdminInv
    <3> QED
      BY <3>1, <3>2 DEF AdminInv
  <2> QED
    BY <2>3, <2>4, <2>5, <2>6
<1> QED
  BY <1>1, <1>2 DEF Remove

LEMMA ClearLockInv == ASSUME IInv, NEW r \in Reqs, ClearLock(r) PROVE IInv'
<1> USE DEF IInv
<1> UNCHANGED <<tables, list, lapped>> /\ astray' = astray /\ UNCHANGED budget
  BY DEF ClearLock, panel
<1>1. CASE Finish(r)
  <2>1. TypeOK'
    BY <1>1, FinishFacts, FinishOver, TypeKept DEF TypeOK, At
  <2> QED
    BY <1>1, <2>1, FinishOver, TablesKept, Zenon DEF Stays
<1>2. CASE Goto(r, "log")
  <2>1. "log" \in Steps
    BY DEF Steps
  <2>2. TypeOK'
    BY <1>2, <2>1, GotoFacts, TypeKept DEF TypeOK, At
  <2>3. OpInv' /\ UseInv'
    BY <1>2, <2>1, GotoFacts DEF OpInv, UseInv, At, Same, tables
  <2>4. CreateInv'
    BY <1>2, <2>1, GotoFacts, CreateKept DEF tables
  <2>5. AdminInv'
    BY <1>2, <2>1, GotoFacts, AdminKept DEF tables
  <2> QED
    BY <2>2, <2>3, <2>4, <2>5
<1> QED
  BY <1>1, <1>2 DEF ClearLock

(***************************************************************************)
(* A row of the log: what is about its user remembers it.                  *)
(***************************************************************************)
LEMMA LogOfFacts ==
    ASSUME TypeOK, NEW u \in Users, NEW reqs \in [Reqs -> RequestType], LogOf(u, reqs)
    PROVE  /\ req' \in [Reqs -> RequestType]
           /\ \A s \in Reqs : /\ req'[s].at = reqs[s].at /\ req'[s].op = reqs[s].op
                              /\ req'[s].by = reqs[s].by /\ req'[s].on = reqs[s].on
                              /\ req'[s].to = reqs[s].to /\ req'[s].rows = reqs[s].rows
                              /\ req'[s].fresh = reqs[s].fresh
           /\ \A s \in Reqs : reqs[s].touched => req'[s].touched
           /\ \A v \in logged' : v \in logged \/ (v = u /\ role[v] # "none")
           /\ \A v \in logged' \ logged : \A s \in Reqs : reqs[s].on = v => req'[s].touched
<1>1. CASE Exists(u)
  <2>1. /\ logged' = logged \cup {u}
        /\ req' = [s \in Reqs |-> [reqs[s] EXCEPT !.touched = @ \/ reqs[s].on = u]]
    BY <1>1 DEF LogOf
  <2>2. \A s \in Reqs : (reqs[s].touched \/ reqs[s].on = u) \in BOOLEAN
    OBVIOUS
  <2> QED
    BY <1>1, <2>1, <2>2 DEF Exists, RequestType
<1>2. CASE ~Exists(u)
  BY <1>2 DEF LogOf
<1> QED
  BY <1>1, <1>2

\* The invariant after a row of the log and the end of some requests.
LEMMA LoggedInv ==
    ASSUME IInv, UNCHANGED <<role, deleted, session, token, panel, lapped>>,
           Spend \/ Fault \/ UNCHANGED budget,
           NEW u \in Users, NEW reqs \in [Reqs -> RequestType],
           \A s \in Reqs : reqs[s] = req[s] \/ (reqs[s].op = "list" /\ reqs[s].at \in {"idle", "load"}),
           LogOf(u, reqs)
    PROVE  IInv'
<1> USE DEF IInv
<1>1. /\ req' \in [Reqs -> RequestType]
      /\ \A s \in Reqs : Over(s) \/ (/\ Stays(s) /\ (req[s].touched => req'[s].touched)
                                     /\ req'[s].rows = req[s].rows)
  BY LogOfFacts DEF Over, Stays, Same
<1>2. TypeOK'
  <2>1. left' \in 0..MaxEvents /\ faults' \in 0..MaxFaults
    BY BudgetType
  <2>2. \A v \in logged' : v \in Users /\ role[v] # "none"
    BY LogOfFacts DEF TypeOK
  <2>3. \A s \in Reqs : At(s, "answer")' => req'[s].rows \in [Users -> Roles]
    BY <1>1 DEF TypeOK, At, Over, Stays
  <2> QED
    BY <1>1, <2>1, <2>2, <2>3 DEF TypeOK, panel
<1>3. OpInv'
  BY <1>1, OpKept
<1>4. CreateInv'
  BY <1>1, CreateKept DEF Over, Stays
<1>5. AdminInv'
  BY <1>1, AdminKept DEF Stays
<1>6. UseInv'
  <2> SUFFICES ASSUME NEW s \in Reqs, req'[s].at \in {"sessions", "remove"}, req'[s].on \in logged'
               PROVE  req'[s].touched
    BY DEF UseInv
  <2>1. reqs[s] = req[s] /\ req[s].at \in {"sessions", "remove"} /\ req'[s].on = req[s].on
    BY LogOfFacts
  <2>2. CASE req[s].on \in logged
    BY <2>1, <2>2, LogOfFacts DEF UseInv
  <2>3. CASE req[s].on \in logged' \ logged
    BY <2>1, <2>3, LogOfFacts
  <2> QED
    BY <2>1, <2>2, <2>3
<1> QED
  BY <1>2, <1>3, <1>4, <1>5, <1>6

LEMMA AfterFacts ==
    ASSUME TypeOK, NEW r \in Reqs
    PROVE  /\ After(r) \in [Reqs -> RequestType]
           /\ After(r)[r].op = "list" /\ After(r)[r].at \in {"idle", "load"}
           /\ \A s \in Reqs \ {r} : After(r)[s] = req[s]
  BY IdleType, IdleFacts DEF After, TypeOK

LEMMA LogInv == ASSUME IInv, NEW r \in Reqs, Log(r) PROVE IInv'
<1> USE DEF IInv
<1>0. PICK d : d = After(r)
  OBVIOUS
<1>1. /\ d \in [Reqs -> RequestType]
      /\ \A s \in Reqs : d[s] = req[s] \/ (d[s].op = "list" /\ d[s].at \in {"idle", "load"})
  BY <1>0, AfterFacts
<1>2. CASE LogOf(req[r].by, After(r)) /\ UNCHANGED budget
  <2> PICK u \in Users : u = req[r].by
    BY DEF TypeOK, RequestType
  <2>1. LogOf(u, d)
    BY <1>0, <1>2 DEF LogOf
  <2>2. UNCHANGED <<role, deleted, session, token, panel, lapped>>
    BY DEF Log
  <2> QED
    BY <1>1, <1>2, <2>1, <2>2, LoggedInv
<1>3. CASE Fault /\ req' = After(r) /\ UNCHANGED logged
  <2>1. UNCHANGED <<tables, list, lapped>> /\ astray' = astray
    BY <1>3 DEF Log, tables, panel
  <2>2. TypeOK'
    BY <1>0, <1>1, <1>3, <2>1, TypeKept DEF TypeOK, At
  <2>3. \A s \in Reqs : Over(s) \/ (Stays(s) /\ req'[s].touched = req[s].touched)
    BY <1>0, <1>1, <1>3 DEF Over, Stays, Same
  <2> QED
    BY <2>1, <2>2, <2>3, TablesKept
<1> QED
  BY <1>2, <1>3 DEF Log

LEMMA AttemptInv == ASSUME IInv, NEW u \in Users, Attempt(u) PROVE IInv'
<1> USE DEF IInv
<1>0. PICK d : d = req
  OBVIOUS
<1>1. d \in [Reqs -> RequestType] /\ \A s \in Reqs : d[s] = req[s]
  BY <1>0 DEF TypeOK
<1>2. LogOf(u, d) /\ Spend
  BY <1>0 DEF Attempt, LogOf
<1>3. UNCHANGED <<role, deleted, session, token, panel, lapped>>
  BY DEF Attempt
<1> QED
  BY <1>1, <1>2, <1>3, LoggedInv

-----------------------------------------------------------------------------
(***************************************************************************)
(* The panel, failures and restarts.                                       *)
(***************************************************************************)
LEMMA ReadUsersInv == ASSUME IInv, NEW r \in Reqs, ReadUsers(r) PROVE IInv'
<1> USE DEF IInv
<1>0. UNCHANGED <<tables, list, lapped, budget>> /\ At(r, "load")
  BY DEF ReadUsers
<1>1. CASE Finish(r) /\ astray' = TRUE
  <2>1. TypeOK'
    BY <1>0, <1>1, FinishFacts, FinishOver, TypeKept DEF TypeOK, At
  <2> QED
    BY <1>0, <1>1, <2>1, FinishOver, TablesKept, Zenon DEF Stays
<1>2. CASE /\ req' = [req EXCEPT ![r].at = "answer", ![r].rows = role,
                                 ![r].fresh = \A s \in Reqs \ {r} : At(s, "idle")]
           /\ UNCHANGED astray
  <2> DEFINE b == \A s \in Reqs \ {r} : At(s, "idle")
  <2> DEFINE q == [[[req[r] EXCEPT !.at = "answer"] EXCEPT !.rows = role] EXCEPT !.fresh = b]
  <2>0. "answer" \in Steps /\ role \in {<<>>} \cup [Users -> Roles] /\ b \in BOOLEAN
    BY DEF TypeOK, Steps
  <2>1. req' = [req EXCEPT ![r] = q]
    BY <1>2 DEF TypeOK
  <2> HIDE DEF b
  <2>2. /\ q \in RequestType /\ q.at = "answer" /\ q.rows = role
        /\ q.op = req[r].op /\ q.by = req[r].by /\ q.on = req[r].on /\ q.to = req[r].to
    <3> DEFINE F == {<<>>} \cup [Users -> Roles]
    <3>1. /\ role \in F /\ req[r] \in [at : Steps, op : Ops, by : Users, on : Users, to : Roles,
                                        touched : BOOLEAN, fresh : BOOLEAN, rows : F]
          /\ RequestType = [at : Steps, op : Ops, by : Users, on : Users, to : Roles,
                            touched : BOOLEAN, fresh : BOOLEAN, rows : F]
      BY <2>0 DEF TypeOK, RequestType
    <3> HIDE DEF F
    <3> QED
      BY <2>0, <3>1
  <2> HIDE DEF q
  <2>3. /\ req' \in [Reqs -> RequestType]
        /\ \A s \in Reqs : Same(s) /\ (s # r => req'[s] = req[s])
        /\ req'[r].at = "answer" /\ req'[r].rows = role
    BY <2>1, <2>2 DEF TypeOK, Same
  <2>4. TypeOK'
    BY <1>0, <1>2, <2>3, TypeKept DEF TypeOK, At
  <2>5. OpInv' /\ UseInv'
    BY <1>0, <2>3 DEF OpInv, UseInv, At, Same, tables
  <2>6. CreateInv'
    BY <1>0, <2>3, CreateKept DEF tables
  <2>7. AdminInv'
    BY <1>0, <2>3, AdminKept DEF tables
  <2> QED
    BY <2>4, <2>5, <2>6, <2>7
<1> QED
  BY <1>1, <1>2 DEF ReadUsers

LEMMA TakeListInv == ASSUME IInv, NEW r \in Reqs, TakeList(r) PROVE IInv'
<1> USE DEF IInv
<1>1. /\ UNCHANGED <<tables, lapped, budget>> /\ Finish(r) /\ At(r, "answer")
      /\ list' = req[r].rows /\ astray' = ~req[r].fresh
  BY DEF TakeList
<1>2. TypeOK'
  <2>1. left' \in 0..MaxEvents /\ faults' \in 0..MaxFaults
    BY <1>1, BudgetType
  <2>2. list' \in [Users -> Roles]
    BY <1>1 DEF TypeOK
  <2>3. astray' \in BOOLEAN
    BY <1>1
  <2>4. req' \in [Reqs -> RequestType] /\ \A s \in Reqs : At(s, "answer")' => req'[s].rows \in [Users -> Roles]
    BY <1>1, FinishFacts, FinishOver DEF TypeOK, At
  <2> QED
    BY <1>1, <2>1, <2>2, <2>3, <2>4 DEF TypeOK, tables
<1> QED
  BY <1>1, <1>2, FinishOver, TablesKept, Zenon DEF Stays

LEMMA QueryFailsInv == ASSUME IInv, NEW r \in Reqs, QueryFails(r) PROVE IInv'
<1> USE DEF IInv
<1>1. /\ UNCHANGED <<tables, list, lapped>> /\ Finish(r) /\ Fault
      /\ astray' = (astray \/ req[r].at \in {"load", "answer"})
  BY DEF QueryFails
<1>2. astray' \in BOOLEAN
  BY <1>1
<1>3. TypeOK'
  BY <1>1, <1>2, FinishFacts, FinishOver, TypeKept DEF TypeOK, At
<1> QED
  BY <1>1, <1>3, FinishOver, TablesKept, Zenon DEF Stays

LEMMA RestartInv == ASSUME IInv, Restart PROVE IInv'
<1> USE DEF IInv
<1>1. /\ UNCHANGED <<tables, list, lapped>> /\ Fault /\ astray' = TRUE
      /\ req' \in [Reqs -> RequestType] /\ \A s \in Reqs : Over(s) /\ req'[s].at = "idle"
  BY IdleType, IdleFacts DEF Restart, Over
<1>2. TypeOK'
  BY <1>1, TypeKept
<1> QED
  BY <1>1, <1>2, TablesKept

\* Sessions come and go.
LEMMA SessionsInv ==
    ASSUME IInv, NEW u \in Users, SignIn(u) \/ Refresh(u) \/ SessionEnds(u)
    PROVE  IInv'
<1> USE DEF IInv
<1>1. /\ UNCHANGED <<role, deleted, logged, req, panel, lapped>> /\ (Spend \/ UNCHANGED budget)
      /\ \A v \in session' \cup token' : v \in session \cup token \/ (v = u /\ Exists(u))
  BY DEF SignIn, Refresh, SessionEnds
<1>2. TypeOK'
  <2>1. left' \in 0..MaxEvents /\ faults' \in 0..MaxFaults
    BY <1>1, BudgetType
  <2> QED
    BY <1>1, <2>1 DEF TypeOK, panel, At, Exists
<1>3. OpInv' /\ CreateInv' /\ UseInv'
  BY <1>1 DEF OpInv, CreateInv, UseInv, At, Exists
<1>4. AdminInv'
  BY <1>1 DEF AdminInv, OneRemover
<1> QED
  BY <1>2, <1>3, <1>4

-----------------------------------------------------------------------------
(***************************************************************************)
(* A request arrives: its sender is an administrator.                      *)
(***************************************************************************)
Proper(q) ==
    /\ q.at \in {"load", "lookup", "update", "revoke", "unlock"}
    /\ q.at = "update" => q.op = "patch"
    /\ q.at = "revoke" => q.op = "delete"
    /\ q.at = "lookup" => q.op = "create" /\ ~Exists(q.on) /\ q.on \notin deleted
    /\ q.op = "create" => \A s \in Reqs : ~(req[s].op = "create" /\ req[s].on = q.on)
    /\ MayRemoveAdmin(q) => q.by # q.on

LEMMA ArriveInv ==
    ASSUME IInv, NEW r \in Reqs, NEW q \in RequestType, Proper(q), Arrive(r, q)
    PROVE  IInv'
<1> USE DEF IInv
<1>1. /\ role[q.by] = "admin" /\ q.by \in Users /\ Spend /\ UNCHANGED <<tables, list>>
      /\ lapped' = (Removing /\ (lapped \/ MayRemoveAdmin(q)))
      /\ astray' = (astray \/ ~Quiet \/ q.by # Viewer)
      /\ At(r, "idle")
  BY DEF Arrive, RequestType
<1>2. /\ req' \in [Reqs -> RequestType] /\ req'[r] = q
      /\ \A s \in Reqs \ {r} : /\ Stays(s) /\ req'[s].touched = req[s].touched
                               /\ req'[s].rows = req[s].rows
  BY DEF Arrive, TypeOK, RequestType, Stays, Same
<1>3. TypeOK'
  <2>1. left' \in 0..MaxEvents /\ faults' \in 0..MaxFaults
    BY <1>1, BudgetType
  <2>2. lapped' \in BOOLEAN
    BY <1>1 DEF TypeOK
  <2>3. astray' \in BOOLEAN
    BY <1>1 DEF TypeOK
  <2>4. \A s \in Reqs : At(s, "answer")' => req'[s].rows \in [Users -> Roles]
    BY <1>2 DEF TypeOK, At, Stays, Proper
  <2> QED
    BY <1>1, <1>2, <2>1, <2>2, <2>3, <2>4 DEF TypeOK, tables
<1>4. OpInv' /\ UseInv'
  BY <1>1, <1>2 DEF OpInv, UseInv, At, Stays, Same, Proper, tables
<1>5. CreateInv'
  BY <1>1, <1>2 DEF CreateInv, Stays, Same, Proper, tables, Exists
<1>6. AdminInv'
  <2>1. CASE lapped'
    BY <2>1 DEF AdminInv
  <2>2. CASE ~lapped'
    <3>0. (~Removing) \/ (OneRemover /\ ~MayRemoveAdmin(q))
      BY <1>1, <2>2 DEF AdminInv
    <3>2. \A s \in Reqs \ {r} : /\ MayRemoveAdmin(req'[s]) <=> MayRemoveAdmin(req[s])
                                /\ req'[s].by = req[s].by /\ req'[s].on = req[s].on
      BY <1>2 DEF MayRemoveAdmin, Stays, Same
    <3>3. MayRemoveAdmin(q) => q.by # q.on
      BY DEF Proper
    <3>4. role' = role
      BY <1>1 DEF tables
    <3> HIDE DEF IInv
    <3>5. CASE ~Removing
      <4>1. \A s \in Reqs : MayRemoveAdmin(req'[s]) => s = r
        BY <3>2, <3>5 DEF Removing
      <4>2. OneRemover'
        BY <1>1, <1>2, <3>3, <3>4, <4>1 DEF OneRemover
      <4> QED
        BY <4>2 DEF AdminInv
    <3>6. CASE OneRemover /\ ~MayRemoveAdmin(q)
      <4>1. OneRemover'
        BY <1>1, <1>2, <3>2, <3>4, <3>6 DEF OneRemover
      <4> QED
        BY <4>1 DEF AdminInv
    <3> QED
      BY <3>0, <3>5, <3>6
  <2> QED
    BY <2>1, <2>2
<1> QED
  BY <1>3, <1>4, <1>5, <1>6

\* Every request that may be made is proper.
LEMMA RequestInv == ASSUME IInv, NEW r \in Reqs, Request(r) PROVE IInv'
<1> USE DEF IInv, MayRemoveAdmin
<1>0. session \subseteq Users /\ Viewer \in Users /\ Known \subseteq Users
  BY UserAssumption DEF TypeOK, Known
<1>1. CASE OpenPanel(r)
  <2>1. PICK q : q = [Idle EXCEPT !.at = "load"]
    OBVIOUS
  <2>2. q \in RequestType /\ Proper(q)
    BY <2>1, IdleType, IdleFacts DEF Proper
  <2> QED
    BY <1>1, <2>1, <2>2, ArriveInv DEF OpenPanel
<1>2. ASSUME NEW a \in session, NEW u \in Users, NEW x \in {"user", "admin"}, CreateUser(r, a, u, x)
      PROVE  IInv'
  <2> DEFINE q == [Idle EXCEPT !.at = "lookup", !.op = "create", !.by = a, !.on = u, !.to = x]
  <2>1. q.at = "lookup" /\ q.op = "create" /\ q.by = a /\ q.on = u /\ q.to = x
    BY DEF Idle
  <2>2. Arrive(r, q)
    BY <1>2 DEF CreateUser
  <2>3. q \in RequestType
    BY <1>0 DEF Idle, RequestType, Steps, Ops, Roles
  <2> HIDE DEF q
  <2>4. Proper(q)
    BY <1>2, <2>1 DEF Proper, CreateUser
  <2> QED
    BY <2>2, <2>3, <2>4, ArriveInv
<1>3. ASSUME NEW a \in session, NEW u \in Known, NEW x \in Roles, PatchUser(r, a, u, x)
      PROVE  IInv'
  <2> DEFINE q == [Idle EXCEPT !.at = "update", !.op = "patch", !.by = a, !.on = u, !.to = x]
  <2>1. q.at = "update" /\ q.op = "patch" /\ q.by = a /\ q.on = u /\ q.to = x
    BY DEF Idle
  <2>2. Arrive(r, q)
    BY <1>3 DEF PatchUser
  <2>3. q \in RequestType
    BY <1>0 DEF Idle, RequestType, Steps, Ops, Roles
  <2> HIDE DEF q
  <2>4. Proper(q)
    BY <1>3, <2>1 DEF Proper, PatchUser
  <2> QED
    BY <2>2, <2>3, <2>4, ArriveInv
<1>4. ASSUME NEW a \in session, NEW u \in Known, DeleteUser(r, a, u)
      PROVE  IInv'
  <2> DEFINE q == [Idle EXCEPT !.at = "revoke", !.op = "delete", !.by = a, !.on = u]
  <2>1. q.at = "revoke" /\ q.op = "delete" /\ q.by = a /\ q.on = u /\ q.to = "none"
    BY DEF Idle
  <2>2. Arrive(r, q)
    BY <1>4 DEF DeleteUser
  <2>3. q \in RequestType
    BY <1>0 DEF Idle, RequestType, Steps, Ops, Roles
  <2> HIDE DEF q
  <2>4. Proper(q)
    BY <1>4, <2>1 DEF Proper, DeleteUser
  <2> QED
    BY <2>2, <2>3, <2>4, ArriveInv
<1>5. ASSUME NEW a \in session, NEW u \in Known, Unlock(r, a, u)
      PROVE  IInv'
  <2> DEFINE q == [Idle EXCEPT !.at = "unlock", !.op = "unlock", !.by = a, !.on = u]
  <2>1. q.at = "unlock" /\ q.op = "unlock" /\ q.by = a /\ q.on = u /\ q.to = "none"
    BY DEF Idle
  <2>2. Arrive(r, q)
    BY <1>5 DEF Unlock
  <2>3. q \in RequestType
    BY <1>0 DEF Idle, RequestType, Steps, Ops, Roles
  <2> HIDE DEF q
  <2>4. Proper(q)
    BY <2>1 DEF Proper
  <2> QED
    BY <2>2, <2>3, <2>4, ArriveInv
<1> QED
  BY <1>1, <1>2, <1>3, <1>4, <1>5 DEF Request

-----------------------------------------------------------------------------
LEMMA StutterInv == ASSUME IInv, UNCHANGED vars PROVE IInv'
<1>1. UNCHANGED <<role, deleted, session, token, logged, req, list, astray, lapped, left, faults>>
  BY DEF vars, tables, panel, budget
<1> QED
  BY <1>1 DEF IInv, TypeOK, OpInv, CreateInv, AdminInv, OneRemover, UseInv, At, Exists

LEMMA StepInv == ASSUME IInv, NEW r \in Reqs, Step(r) PROVE IInv'
  BY LookupInv, InsertInv, UpdateInv, RevokeInv, ClearLogsInv, ClearSessionsInv, RemoveInv,
     ClearLockInv, LogInv, ReadUsersInv, TakeListInv DEF Step

LEMMA NextInv == ASSUME IInv, [Next]_vars PROVE IInv'
  BY RequestInv, StepInv, QueryFailsInv, RestartInv, SessionsInv, AttemptInv, StutterInv DEF Next

LEMMA Inductive == Spec => []IInv
<1>1. Init => IInv
  BY InitInv
<1>2. IInv /\ [Next]_vars => IInv'
  BY NextInv
<1> QED
  BY <1>1, <1>2, PTL DEF Spec

(***************************************************************************)
(* The tables, the requests and the panel keep their types: sessions,      *)
(* tokens and rows of the log belong to accounts that exist.               *)
(***************************************************************************)
THEOREM TypeCorrect == Spec => []TypeOK
<1>1. IInv => TypeOK
  BY DEF IInv
<1> QED
  BY <1>1, Inductive, PTL

(***************************************************************************)
(* The checks against removing oneself keep an administrator for ever, for *)
(* any number of accounts and requests, unless two removals overlap.       *)
(***************************************************************************)
THEOREM AnAdminRemains == Spec => []AdminRemains
<1>1. IInv => AdminRemains
  BY DEF IInv, AdminInv, OneRemover, AdminRemains
<1> QED
  BY <1>1, Inductive, PTL

(***************************************************************************)
(* Only use of the account after its log was cleared keeps a deletion from *)
(* ending.                                                                 *)
(***************************************************************************)
THEOREM OnlyUseBlocks == Spec => []BlockedOnlyByUse
<1>1. IInv => BlockedOnlyByUse
  BY DEF IInv, UseInv, BlockedOnlyByUse, At
<1> QED
  BY <1>1, Inductive, PTL

-----------------------------------------------------------------------------
(***************************************************************************)
(* The panel.  A list on its way is as the table is if nobody came in      *)
(* since it was read, and while the panel is not astray there is at most   *)
(* one request, its own, which loads the list after it has changed a role. *)
(***************************************************************************)
Pending(r) ==
    req[r].at \in {"log", "load", "answer"} \/ (At(r, "revoke") /\ req[r].op = "patch")

FreshInv ==
    \A r \in Reqs : At(r, "answer") /\ req[r].fresh =>
        req[r].rows = role /\ \A s \in Reqs \ {r} : At(s, "idle")

OwnInv ==
    astray \/ /\ \A r, s \in Reqs : r # s => At(r, "idle") \/ At(s, "idle")
              /\ \A r \in Reqs : At(r, "idle") \/ req[r].by = Viewer
              /\ list = role \/ \E r \in Reqs : Pending(r)

PanelInv == FreshInv /\ OwnInv

LEMMA PanelInit == Init => PanelInv
  BY DEF Init, PanelInv, FreshInv, OwnInv, At, Idle

\* A statement of request r: all the others are idle, or the panel is astray.
LEMMA PanelStep ==
    ASSUME TypeOK, PanelInv, NEW r \in Reqs, ~At(r, "idle"),
           \A s \in Reqs \ {r} : /\ req'[s].at = req[s].at /\ req'[s].by = req[s].by
                                  /\ req'[s].fresh = req[s].fresh,
           req'[r].at # "answer", UNCHANGED panel,
           At(r, "idle")' \/ req'[r].by \in {req[r].by, Viewer},
           Pending(r)' \/ (role' = role /\ ~Pending(r))
    PROVE  PanelInv'
<1>1. \A s \in Reqs \ {r} : ~(At(s, "answer") /\ req[s].fresh)
  BY DEF PanelInv, FreshInv
<1>2. FreshInv'
  <2> SUFFICES ASSUME NEW s \in Reqs, At(s, "answer")', req'[s].fresh
               PROVE  FALSE
    BY DEF FreshInv
  <2>1. s # r /\ At(s, "answer") /\ req[s].fresh
    BY DEF At
  <2> QED
    BY <1>1, <2>1
<1>3. OwnInv'
  <2>1. \A s \in Reqs : Pending(s) => ~At(s, "idle")
    BY DEF Pending, At
  <2> QED
    BY <2>1 DEF PanelInv, OwnInv, panel, At
<1> QED
  BY <1>2, <1>3 DEF PanelInv

\* Requests that go on, and requests that end.
LEMMA GotoPanel ==
    ASSUME TypeOK, PanelInv, NEW r \in Reqs, ~At(r, "idle"), NEW x \in Steps \ {"idle", "answer"},
           Goto(r, x), UNCHANGED panel,
           Pending(r)' \/ (role' = role /\ ~Pending(r))
    PROVE  PanelInv'
<1>1. /\ \A s \in Reqs \ {r} : /\ req'[s].at = req[s].at /\ req'[s].by = req[s].by
                               /\ req'[s].fresh = req[s].fresh
      /\ req'[r].at # "answer" /\ req'[r].by = req[r].by
  BY GotoFacts DEF Same
<1> QED
  BY <1>1, PanelStep

LEMMA FinishPanel ==
    ASSUME TypeOK, PanelInv, NEW r \in Reqs, ~At(r, "idle"),
           Finish(r), UNCHANGED panel, role' = role, ~Pending(r)
    PROVE  PanelInv'
<1>1. /\ \A s \in Reqs \ {r} : /\ req'[s].at = req[s].at /\ req'[s].by = req[s].by
                               /\ req'[s].fresh = req[s].fresh
      /\ req'[r].at # "answer" /\ At(r, "idle")'
  BY FinishFacts, IdleFacts DEF At
<1> QED
  BY <1>1, PanelStep

LEMMA PlainPanel ==
    ASSUME IInv, PanelInv, NEW r \in Reqs,
           \/ Lookup(r) \/ Insert(r) \/ Update(r) \/ ClearSessions(r) \/ Remove(r) \/ ClearLock(r)
    PROVE  PanelInv'
<1> USE DEF IInv
<1>1. UNCHANGED panel /\ ~At(r, "idle") /\ ~Pending(r)
  BY DEF Lookup, Insert, Update, ClearSessions, Remove, ClearLock, Pending, At
<1>2. {"insert", "log", "revoke", "remove"} \subseteq Steps \ {"idle", "answer"}
  BY DEF Steps
<1>3. CASE Finish(r) /\ role' = role
  BY <1>1, <1>3, FinishPanel
<1>4. CASE (Goto(r, "insert") \/ Goto(r, "remove")) /\ role' = role
  BY <1>1, <1>2, <1>4, GotoPanel
<1>5. CASE Goto(r, "log")
  <2>1. Pending(r)'
    BY <1>2, <1>5, GotoFacts DEF Pending
  <2> QED
    BY <1>1, <1>2, <1>5, <2>1, GotoPanel
<1>6. CASE Goto(r, "revoke") /\ Update(r)
  <2>1. Pending(r)'
    BY <1>2, <1>6, GotoFacts DEF Pending, At, Update, OpInv, Same
  <2> QED
    BY <1>1, <1>2, <1>6, <2>1, GotoPanel
<1>7. CASE Lookup(r) \/ Insert(r) \/ ClearSessions(r) \/ ClearLock(r)
  BY <1>3, <1>4, <1>5, <1>7 DEF Lookup, Insert, ClearSessions, ClearLock, tables
<1>8. CASE Update(r)
  BY <1>3, <1>5, <1>6, <1>8 DEF Update
<1>9. CASE Remove(r)
  BY <1>3, <1>5, <1>9 DEF Remove
<1> QED
  BY <1>7, <1>8, <1>9

LEMMA RevokePanel == ASSUME IInv, PanelInv, NEW r \in Reqs, Revoke(r) PROVE PanelInv'
<1> USE DEF IInv
<1>1. UNCHANGED panel /\ ~At(r, "idle") /\ role' = role /\ At(r, "revoke")
  BY DEF Revoke, At
<1>2. {"log", "clear"} \subseteq Steps \ {"idle", "answer"}
  BY DEF Steps
<1>3. CASE req[r].op = "patch"
  <2>1. Goto(r, "log")
    BY <1>3 DEF Revoke
  <2>2. Pending(r)'
    BY <1>2, <2>1, GotoFacts DEF Pending
  <2> QED
    BY <1>1, <1>2, <2>1, <2>2, GotoPanel
<1>4. CASE req[r].op # "patch"
  <2>1. Goto(r, "clear") /\ ~Pending(r)
    BY <1>1, <1>4 DEF Revoke, Pending, At
  <2> QED
    BY <1>1, <1>2, <2>1, GotoPanel
<1> QED
  BY <1>3, <1>4

LEMMA ClearLogsPanel == ASSUME IInv, PanelInv, NEW r \in Reqs, ClearLogs(r) PROVE PanelInv'
<1> USE DEF IInv
<1>1. UNCHANGED panel /\ role' = role /\ ~At(r, "idle") /\ ~Pending(r)
  BY DEF ClearLogs, At, Pending
<1>2. /\ \A s \in Reqs \ {r} : /\ req'[s].at = req[s].at /\ req'[s].by = req[s].by
                               /\ req'[s].fresh = req[s].fresh
      /\ req'[r].at # "answer" /\ req'[r].by = req[r].by
  BY DEF ClearLogs, TypeOK, RequestType
<1> QED
  BY <1>1, <1>2, PanelStep

LEMMA LogPanel == ASSUME IInv, PanelInv, NEW r \in Reqs, Log(r) PROVE PanelInv'
<1> USE DEF IInv
<1>0. PICK d : d = After(r)
  OBVIOUS
<1>1. /\ d \in [Reqs -> RequestType] /\ \A s \in Reqs \ {r} : d[s] = req[s]
  BY <1>0, AfterFacts
<1>2. \/ req[r].by = Viewer /\ d[r] = [Idle EXCEPT !.at = "load"]
      \/ req[r].by # Viewer /\ d[r] = Idle
  BY <1>0 DEF After, TypeOK
<1>3. Idle.by = Viewer /\ [Idle EXCEPT !.at = "load"].by = Viewer
  BY DEF Idle
<1>4. \A s \in Reqs : /\ req'[s].at = d[s].at /\ req'[s].by = d[s].by
                      /\ req'[s].fresh = d[s].fresh
  <2>1. CASE LogOf(req[r].by, After(r))
    <3> PICK u \in Users : u = req[r].by
      BY DEF TypeOK, RequestType
    <3>1. LogOf(u, d)
      BY <1>0, <2>1 DEF LogOf
    <3> QED
      BY <1>1, <3>1, LogOfFacts
  <2>2. CASE req' = After(r)
    BY <1>0, <2>2
  <2> QED
    BY <2>1, <2>2 DEF Log
<1>5. UNCHANGED panel /\ role' = role /\ At(r, "log") /\ ~At(r, "idle")
  BY DEF Log, At
<1>6. \A s \in Reqs \ {r} : /\ req'[s].at = req[s].at /\ req'[s].by = req[s].by
                            /\ req'[s].fresh = req[s].fresh
  BY <1>1, <1>4
<1>7. CASE req[r].by = Viewer
  <2>1. req'[r].at = "load" /\ req'[r].by = Viewer
    BY <1>2, <1>3, <1>4, <1>7, IdleFacts
  <2> QED
    BY <1>5, <1>6, <2>1, PanelStep DEF Pending
<1>8. CASE req[r].by # Viewer
  <2>1. req'[r].at = "idle"
    BY <1>2, <1>4, <1>8, IdleFacts
  <2>2. astray /\ astray'
    BY <1>5, <1>8 DEF PanelInv, OwnInv, panel
  <2>3. FreshInv'
    BY <1>5, <1>6, <2>1 DEF PanelInv, FreshInv, At
  <2> QED
    BY <2>2, <2>3 DEF PanelInv, OwnInv
<1> QED
  BY <1>7, <1>8

LEMMA ReadUsersPanel == ASSUME IInv, PanelInv, NEW r \in Reqs, ReadUsers(r) PROVE PanelInv'
<1> USE DEF IInv
<1>0. At(r, "load") /\ role' = role /\ list' = list
  BY DEF ReadUsers, tables
<1>1. CASE Finish(r) /\ astray' = TRUE
  <2>1. req'[r].at = "idle" /\ \A s \in Reqs \ {r} : req'[s] = req[s]
    BY <1>1, FinishFacts, IdleFacts
  <2> QED
    BY <1>0, <1>1, <2>1 DEF PanelInv, FreshInv, OwnInv, At
<1>2. CASE /\ req' = [req EXCEPT ![r].at = "answer", ![r].rows = role,
                                 ![r].fresh = \A s \in Reqs \ {r} : At(s, "idle")]
           /\ UNCHANGED astray
  <2> DEFINE b == \A s \in Reqs \ {r} : At(s, "idle")
  <2>1. /\ \A s \in Reqs \ {r} : req'[s] = req[s]
        /\ req'[r].at = "answer" /\ req'[r].rows = role /\ req'[r].by = req[r].by
        /\ req'[r].fresh = b
    BY <1>2 DEF TypeOK, RequestType
  <2>2. FreshInv'
    BY <1>0, <2>1 DEF PanelInv, FreshInv, At
  <2> HIDE DEF b
  <2>3. OwnInv'
    BY <1>0, <1>2, <2>1 DEF PanelInv, OwnInv, At, Pending
  <2> QED
    BY <2>2, <2>3 DEF PanelInv
<1> QED
  BY <1>1, <1>2 DEF ReadUsers

LEMMA TakeListPanel == ASSUME IInv, PanelInv, NEW r \in Reqs, TakeList(r) PROVE PanelInv'
<1> USE DEF IInv
<1>1. /\ role' = role /\ At(r, "answer") /\ list' = req[r].rows /\ astray' = ~req[r].fresh
      /\ req'[r] = Idle /\ \A s \in Reqs \ {r} : req'[s] = req[s]
  BY FinishFacts DEF TakeList, tables
<1>2. FreshInv'
  BY <1>1, IdleFacts DEF PanelInv, FreshInv, At
<1>3. CASE req[r].fresh
  <2>1. list' = role' /\ \A s \in Reqs : req'[s].at = "idle"
    BY <1>1, <1>3, IdleFacts DEF PanelInv, FreshInv, At
  <2> QED
    BY <1>2, <2>1 DEF PanelInv, OwnInv, At
<1>4. CASE ~req[r].fresh
  BY <1>1, <1>2, <1>4 DEF PanelInv, OwnInv
<1> QED
  BY <1>3, <1>4

LEMMA QueryFailsPanel == ASSUME IInv, PanelInv, NEW r \in Reqs, QueryFails(r) PROVE PanelInv'
<1> USE DEF IInv
<1>1. /\ role' = role /\ list' = list /\ req[r].at \notin {"idle", "revoke", "log"}
      /\ astray' = (astray \/ req[r].at \in {"load", "answer"})
      /\ req'[r] = Idle /\ \A s \in Reqs \ {r} : req'[s] = req[s]
  BY FinishFacts DEF QueryFails, tables
<1>2. FreshInv'
  BY <1>1, IdleFacts DEF PanelInv, FreshInv, At
<1>3. CASE req[r].at \in {"load", "answer"}
  BY <1>1, <1>2, <1>3 DEF PanelInv, OwnInv
<1>4. CASE req[r].at \notin {"load", "answer"}
  <2>0. astray <=> astray'
    BY <1>1, <1>4
  <2>1. ~Pending(r) /\ ~Pending(r)'
    BY <1>1, <1>4, IdleFacts DEF Pending, At
  <2>2. \A s \in Reqs \ {r} : (Pending(s)' <=> Pending(s)) /\ (At(s, "idle")' <=> At(s, "idle"))
    BY <1>1 DEF Pending, At
  <2>3. At(r, "idle")'
    BY <1>1, IdleFacts DEF At
  <2> QED
    BY <1>1, <1>2, <2>0, <2>1, <2>2, <2>3 DEF PanelInv, OwnInv
<1> QED
  BY <1>3, <1>4

LEMMA ArrivePanel ==
    ASSUME IInv, PanelInv, NEW r \in Reqs, NEW q, Arrive(r, q), q.at # "answer"
    PROVE  PanelInv'
<1> USE DEF IInv
<1>1. /\ role' = role /\ list' = list /\ req'[r] = q
      /\ \A s \in Reqs \ {r} : /\ req'[s].at = req[s].at /\ req'[s].by = req[s].by
                               /\ req'[s].fresh = FALSE
      /\ astray' = (astray \/ ~Quiet \/ q.by # Viewer)
  BY DEF Arrive, TypeOK, RequestType, tables
<1>2. FreshInv'
  BY <1>1 DEF FreshInv, At
<1>3. OwnInv'
  <2>1. CASE astray \/ ~Quiet \/ q.by # Viewer
    BY <1>1, <2>1 DEF OwnInv
  <2>2. CASE ~astray /\ Quiet /\ q.by = Viewer
    <3>1. list = role
      BY <2>2 DEF PanelInv, OwnInv, Quiet, Pending, At
    <3>2. \A s \in Reqs \ {r} : At(s, "idle")'
      BY <1>1, <2>2 DEF Quiet, At
    <3> QED
      BY <1>1, <2>2, <3>1, <3>2 DEF OwnInv, At
  <2> QED
    BY <2>1, <2>2
<1> QED
  BY <1>2, <1>3 DEF PanelInv

LEMMA RequestPanel == ASSUME IInv, PanelInv, NEW r \in Reqs, Request(r) PROVE PanelInv'
<1>1. PICK q : Arrive(r, q) /\ q.at # "answer"
  <2>1. [Idle EXCEPT !.at = "load"].at # "answer"
    BY IdleFacts
  <2>4. CASE OpenPanel(r)
    BY <2>1, <2>4 DEF OpenPanel
  <2>5. ASSUME NEW a, NEW u, NEW x, CreateUser(r, a, u, x)
        PROVE  \E p : Arrive(r, p) /\ p.at # "answer"
    <3> DEFINE q == [Idle EXCEPT !.at = "lookup", !.op = "create", !.by = a, !.on = u, !.to = x]
    <3>1. q.at = "lookup"
      BY DEF Idle
    <3>2. Arrive(r, q)
      BY <2>5 DEF CreateUser
    <3> HIDE DEF q
    <3> QED
      BY <3>1, <3>2
  <2>6. ASSUME NEW a, NEW u, NEW x, PatchUser(r, a, u, x)
        PROVE  \E p : Arrive(r, p) /\ p.at # "answer"
    <3> DEFINE q == [Idle EXCEPT !.at = "update", !.op = "patch", !.by = a, !.on = u, !.to = x]
    <3>1. q.at = "update"
      BY DEF Idle
    <3>2. Arrive(r, q)
      BY <2>6 DEF PatchUser
    <3> HIDE DEF q
    <3> QED
      BY <3>1, <3>2
  <2>7. ASSUME NEW a, NEW u, DeleteUser(r, a, u)
        PROVE  \E p : Arrive(r, p) /\ p.at # "answer"
    <3> DEFINE q == [Idle EXCEPT !.at = "revoke", !.op = "delete", !.by = a, !.on = u]
    <3>1. q.at = "revoke"
      BY DEF Idle
    <3>2. Arrive(r, q)
      BY <2>7 DEF DeleteUser
    <3> HIDE DEF q
    <3> QED
      BY <3>1, <3>2
  <2>8. ASSUME NEW a, NEW u, Unlock(r, a, u)
        PROVE  \E p : Arrive(r, p) /\ p.at # "answer"
    <3> DEFINE q == [Idle EXCEPT !.at = "unlock", !.op = "unlock", !.by = a, !.on = u]
    <3>1. q.at = "unlock"
      BY DEF Idle
    <3>2. Arrive(r, q)
      BY <2>8 DEF Unlock
    <3> HIDE DEF q
    <3> QED
      BY <3>1, <3>2
  <2> QED
    BY <2>4, <2>5, <2>6, <2>7, <2>8 DEF Request
<1> QED
  BY <1>1, ArrivePanel

LEMMA OtherPanel ==
    ASSUME IInv, PanelInv,
           \/ Restart \/ UNCHANGED vars
           \/ \E u \in Users : SignIn(u) \/ Refresh(u) \/ SessionEnds(u) \/ Attempt(u)
    PROVE  PanelInv'
<1> USE DEF IInv
<1>1. CASE Restart
  BY <1>1, IdleFacts DEF Restart, PanelInv, FreshInv, OwnInv, At
<1>2. ASSUME NEW u \in Users, Attempt(u)
      PROVE  PanelInv'
  <2>1. PICK d : d = req
    OBVIOUS
  <2>2. d \in [Reqs -> RequestType] /\ LogOf(u, d) /\ role' = role /\ UNCHANGED panel
    BY <1>2, <2>1 DEF Attempt, LogOf, TypeOK
  <2>3. \A s \in Reqs : /\ req'[s].at = req[s].at /\ req'[s].op = req[s].op
                        /\ req'[s].by = req[s].by /\ req'[s].fresh = req[s].fresh
                        /\ req'[s].rows = req[s].rows
    BY <2>1, <2>2, LogOfFacts
  <2> QED
    BY <2>2, <2>3 DEF PanelInv, FreshInv, OwnInv, At, Pending, panel
<1>3. CASE req' = req /\ role' = role /\ UNCHANGED panel
  BY <1>3 DEF PanelInv, FreshInv, OwnInv, At, Pending, panel
<1> QED
  BY <1>1, <1>2, <1>3 DEF SignIn, Refresh, SessionEnds, vars, tables

LEMMA NextPanel == ASSUME IInv, PanelInv, [Next]_vars PROVE PanelInv'
  BY RequestPanel, PlainPanel, RevokePanel, ClearLogsPanel, LogPanel, ReadUsersPanel,
     TakeListPanel, QueryFailsPanel, OtherPanel DEF Next, Step

(***************************************************************************)
(* A panel with nothing under way shows the accounts as they are.          *)
(***************************************************************************)
THEOREM PanelIsTrue == Spec => []PanelTrue
<1>1. Init => PanelInv
  BY PanelInit
<1>2. IInv /\ PanelInv /\ [Next]_vars => PanelInv'
  BY NextPanel
<1>3. PanelInv => PanelTrue
  BY DEF PanelInv, OwnInv, PanelTrue, Quiet, Pending, At
<1> QED
  BY <1>1, <1>2, <1>3, Inductive, PTL DEF Spec
=============================================================================
