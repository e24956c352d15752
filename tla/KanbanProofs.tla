---------------------------- MODULE KanbanProofs ----------------------------
(***************************************************************************)
(* Theorems about the kanban board, for any number of tasks, columns and   *)
(* requests, and any gap and threshold.                                    *)
(*                                                                         *)
(* On the server (KanbanOrder) they rest on one fact about numbers, that a *)
(* renumbering keeps the order and leaves the tasks apart, and on two      *)
(* invariants: AloneInv, of the slots that renumber alone, and Calm, of a  *)
(* board whose requests come one at a time.  What the abstract lists of    *)
(* TaskLists see of a step follows from the order a column is shown in.    *)
(*                                                                         *)
(* In front of it (KanbanClient), for any number of handlers of a board    *)
(* and of requests of other clients, on BoardInv: what a handler that is   *)
(* under way says about the screen and the server, as long as it is the    *)
(* only one.                                                               *)
(***************************************************************************)
EXTENDS KanbanClient, TLAPS, FiniteSetTheorems, WellFoundedInduction, SequenceTheorems

-----------------------------------------------------------------------------
(***************************************************************************)
(* Smallest and largest positions exist.                                   *)
(***************************************************************************)
LEMMA LeastNat ==
    ASSUME NEW S \in SUBSET Nat, S # {}
    PROVE  \E m \in S : \A n \in S : m <= n
<1>1. IsWellFoundedOn(OpToRel(<, Nat), Nat)
  BY NatLessThanWellFounded
<1>2. PICK m \in S : \A n \in S : ~(<<n, m>> \in OpToRel(<, Nat))
  BY <1>1, WFMin
<1>3. ASSUME NEW n \in S PROVE m <= n
  <2>1. ~(<<n, m>> \in OpToRel(<, Nat))
    BY <1>2
  <2>2. n < m => <<n, m>> \in OpToRel(<, Nat)
    BY DEF OpToRel
  <2>3. ~(n < m)
    BY <2>1, <2>2
  <2> QED
    BY <2>3
<1> QED
  BY <1>3

LEMMA MinIs ==
    ASSUME NEW S \in SUBSET Nat, S # {}
    PROVE  Min(S) \in S /\ \A n \in S : Min(S) <= n
  BY LeastNat DEF Min

LEMMA MaxIs ==
    ASSUME NEW S \in SUBSET Nat, S # {}, NEW b \in Nat, \A n \in S : n <= b
    PROVE  Max(S) \in S /\ \A n \in S : n <= Max(S)
<1> DEFINE T == {b - n : n \in S}
<1>1. T \in SUBSET Nat /\ T # {}
  <2>1. \A n \in S : b - n \in Nat
    OBVIOUS
  <2> QED
    BY <2>1
<1>2. PICK m \in T : \A n \in T : m <= n
  BY <1>1, LeastNat
<1>3. PICK x \in S : m = b - x
  OBVIOUS
<1>4. \A n \in S : x >= n
  BY <1>2, <1>3
<1> QED
  BY <1>3, <1>4 DEF Max

-----------------------------------------------------------------------------
(***************************************************************************)
(* The order of the tasks of a column, and their renumbering.              *)
(***************************************************************************)
Precedes(p, t, u) == p[t] < p[u] \/ (p[t] = p[u] /\ t < u)

LEMMA TasksFinite == \A S \in SUBSET Tasks : IsFiniteSet(S) /\ Cardinality(S) \in Nat
<1>1. IsFiniteSet(Tasks)
  BY GapAssumption, FS_Interval DEF Tasks
<1> QED
  BY <1>1, FS_Subset, FS_CardinalityType

LEMMA OneFirst ==
    ASSUME NEW p \in [Tasks -> Nat], NEW t \in Tasks, NEW u \in Tasks, t # u
    PROVE  Precedes(p, t, u) \/ Precedes(p, u, t)
  BY GapAssumption DEF Precedes, Tasks

LEMMA RankGrows ==
    ASSUME NEW S \in SUBSET Tasks, NEW p \in [Tasks -> Nat],
           NEW t \in S, NEW u \in S, Precedes(p, t, u)
    PROVE  Cardinality(Before(p, S, t)) + 1 <= Cardinality(Before(p, S, u))
<1> DEFINE B == Before(p, S, t)
           C == Before(p, S, u)
<1>1. B \in SUBSET S /\ C \in SUBSET S /\ t \notin B /\ t \in C
  BY GapAssumption DEF Before, Tasks, Precedes
<1>2. B \cup {t} \subseteq C
  <2>1. \A v \in S : v \in Nat /\ p[v] \in Nat
    BY GapAssumption DEF Tasks
  <2>2. ASSUME NEW v \in B PROVE v \in C
    BY <2>1, <2>2 DEF Before, Precedes
  <2> QED
    BY <1>1, <2>2
<1>3. IsFiniteSet(B) /\ IsFiniteSet(C) /\ Cardinality(B) \in Nat
  BY <1>1, TasksFinite
<1> HIDE DEF B, C
<1>4. Cardinality(B \cup {t}) = Cardinality(B) + 1
  BY <1>1, <1>3, FS_AddElement
<1>5. Cardinality(B \cup {t}) <= Cardinality(C)
  BY <1>2, <1>3, FS_Subset
<1> QED
  BY <1>4, <1>5 DEF B, C

\* A renumbering keeps the order, and leaves gaps of POSITION_GAP.
LEMMA RenumberSpreads ==
    ASSUME NEW S \in SUBSET Tasks, NEW p \in [Tasks -> Nat],
           NEW t \in S, NEW u \in S, Precedes(p, t, u)
    PROVE  Renumber(S, p)[t] + Gap <= Renumber(S, p)[u]
<1> DEFINE a == Cardinality(Before(p, S, t))
           b == Cardinality(Before(p, S, u))
<1>1. a \in Nat /\ b \in Nat
  BY TasksFinite DEF Before
<1>2. a + 1 <= b
  BY RankGrows
<1>3. Renumber(S, p)[t] = a * Gap /\ Renumber(S, p)[u] = b * Gap
  BY DEF Renumber
<1> HIDE DEF a, b
<1>4. \A k, g \in Nat : k * g \in Nat
  OBVIOUS
<1>5. b * Gap = a * Gap + Gap + (b - a - 1) * Gap
  BY <1>1, GapAssumption
<1>6. (b - a - 1) * Gap \in Nat /\ a * Gap \in Nat
  BY <1>1, <1>2, <1>4, GapAssumption
<1> QED
  BY <1>3, <1>5, <1>6, GapAssumption

LEMMA RenumberType ==
    ASSUME NEW S \in SUBSET Tasks, NEW p \in [Tasks -> Nat]
    PROVE  Renumber(S, p) \in [S -> Nat]
<1>1. \A t \in S : Cardinality(Before(p, S, t)) \in Nat
  BY TasksFinite DEF Before
<1>2. \A k, g \in Nat : k * g \in Nat
  OBVIOUS
<1> QED
  BY <1>1, <1>2, GapAssumption DEF Renumber

\* What the checks say, as a matter of one column.
Spaced(S, p) == \A t, u \in S : t = u \/ p[t] + Threshold <= p[u] \/ p[u] + Threshold <= p[t]

LEMMA NotCrowdedSpaced ==
    ASSUME NEW S \in SUBSET Tasks, NEW p \in [Tasks -> Nat], ~Crowded(S, p)
    PROVE  Spaced(S, p)
  BY GapAssumption DEF Crowded, Spaced

LEMMA RenumberedSpaced ==
    ASSUME NEW S \in SUBSET Tasks, NEW p \in [Tasks -> Nat], NEW q,
           \A t \in S : q[t] = Renumber(S, p)[t]
    PROVE  Spaced(S, q)
<1> SUFFICES ASSUME NEW t \in S, NEW u \in S, t # u
             PROVE  q[t] + Threshold <= q[u] \/ q[u] + Threshold <= q[t]
  BY DEF Spaced
<1>1. q[t] \in Nat /\ q[u] \in Nat
  BY RenumberType
<1>2. q[t] + Gap <= q[u] \/ q[u] + Gap <= q[t]
  BY OneFirst, RenumberSpreads
<1> QED
  BY <1>1, <1>2, GapAssumption

-----------------------------------------------------------------------------
(***************************************************************************)
(* Types.                                                                  *)
(***************************************************************************)
Formed ==
    \A r \in Reqs :
       /\ At(r, "insert") => req[r].c \in Columns /\ req[r].p \in Nat /\ req[r].x = NoTask
       /\ At(r, "update") => req[r].t \in Tasks
       /\ req[r].pc \in {"check", "list", "write"} => req[r].t \in Tasks /\ req[r].c \in Columns

Typed == TypeOK /\ Formed

LEMMA InTasks == \A c : In(c) \in SUBSET Tasks
  BY DEF In

LEMMA AtEndIs ==
    ASSUME TypeOK, NEW c
    PROVE  AtEnd(c) \in Nat /\ \A t \in In(c) : pos[t] + Gap <= AtEnd(c)
<1> DEFINE P == {pos[t] : t \in In(c)}
<1>1. P \in SUBSET Nat /\ (In(c) # {} => P # {})
  BY InTasks DEF TypeOK
<1>2. CASE In(c) = {}
  BY <1>2, GapAssumption DEF AtEnd
<1>3. CASE In(c) # {}
  <2>1. IsFiniteSet(In(c))
    BY InTasks, TasksFinite
  <2>2. PICK b \in Nat : \A n \in P : n <= b
    \* the position of a task that nobody is behind
    <3> DEFINE R(t) == Cardinality({u \in In(c) : Precedes(pos, t, u)})
               Q == {R(t) : t \in In(c)}
    <3>1. \A t \in In(c) : R(t) \in Nat
      <4> TAKE t \in In(c)
      <4>1. {u \in In(c) : Precedes(pos, t, u)} \in SUBSET Tasks
        BY InTasks
      <4> QED
        BY <4>1, TasksFinite
    <3>2. Q \in SUBSET Nat /\ Q # {}
      BY <1>3, <3>1
    <3>3. PICK m \in Q : \A n \in Q : m <= n
      BY <3>2, LeastNat
    <3>4. PICK t \in In(c) : m = R(t)
      OBVIOUS
    <3>5. \A u \in In(c) : pos[u] <= pos[t]
      <4> SUFFICES ASSUME NEW u \in In(c), pos[t] < pos[u] PROVE FALSE
        BY InTasks DEF TypeOK
      <4> DEFINE A == {v \in In(c) : Precedes(pos, u, v)}
                 B == {v \in In(c) : Precedes(pos, t, v)}
      <4>1. A \in SUBSET B /\ u \in B /\ u \notin A
        <5>1. \A v \in In(c) : pos[v] \in Nat /\ v \in Nat
          BY InTasks, GapAssumption DEF TypeOK, Tasks
        <5>2. ASSUME NEW v \in A PROVE v \in B
          BY <5>1, <5>2 DEF Precedes
        <5> QED
          BY <5>1, <5>2 DEF Precedes
      <4>2. IsFiniteSet(A) /\ IsFiniteSet(B) /\ Cardinality(A) \in Nat /\ Cardinality(B) \in Nat
        BY InTasks, TasksFinite
      <4>3. Cardinality(A) <= Cardinality(B) /\ (Cardinality(B) = Cardinality(A) => B = A)
        BY <4>1, <4>2, FS_Subset
      <4>4. R(u) = Cardinality(A) /\ R(t) = Cardinality(B) /\ R(t) <= R(u)
        BY <3>3, <3>4
      <4> HIDE DEF A, B, R
      <4> QED
        BY <4>1, <4>2, <4>3, <4>4
    <3>6. pos[t] \in Nat
      BY InTasks DEF TypeOK
    <3> QED
      BY <3>5, <3>6
  <2>3. Max(P) \in P /\ \A n \in P : n <= Max(P)
    BY <1>1, <1>3, <2>2, MaxIs
  <2>4. AtEnd(c) = Max(P) + Gap
    BY <1>3 DEF AtEnd
  <2>5. \A t \in In(c) : pos[t] \in P
    OBVIOUS
  <2>6. Max(P) \in Nat /\ Gap \in Nat
    BY <1>1, <1>3, <2>3, GapAssumption
  <2>7. \A t \in In(c) : pos[t] \in Nat /\ pos[t] <= Max(P)
    BY <2>3, <2>5, InTasks DEF TypeOK
  <2> HIDE DEF P
  <2> QED
    BY <2>4, <2>6, <2>7
<1> QED
  BY <1>2, <1>3

\* The position of the target, and the neighbours of that position in a column.
Here(x) == IF col[x] = Nowhere THEN 0 ELSE pos[x]
Below(c, x) == {pos[u] : u \in {v \in In(c) : col[x] # Nowhere /\ pos[v] < Here(x)}}
Above(c, x) == {pos[u] : u \in {v \in In(c) : col[x] # Nowhere /\ pos[v] > Here(x)}}

LEMMA BesideIs ==
    ASSUME TypeOK, NEW c, NEW x \in Tasks, NEW after \in BOOLEAN
    PROVE  LET y == Beside(c, x, after) IN
           /\ Here(x) \in Nat /\ y \in Nat
           /\ after /\ Above(c, x) = {} => y = Here(x) + Gap
           /\ after /\ Above(c, x) # {} =>
                 \E m \in Above(c, x) : y = (Here(x) + m) \div 2 /\ \A n \in Above(c, x) : m <= n
           /\ ~after /\ Below(c, x) = {} => y = Here(x) \div 2
           /\ ~after /\ Below(c, x) # {} =>
                 \E m \in Below(c, x) : y = (m + Here(x)) \div 2 /\ \A n \in Below(c, x) : n <= m
<1>1. Here(x) \in Nat
  BY DEF Here, TypeOK
<1>2. Above(c, x) \in SUBSET Nat /\ Below(c, x) \in SUBSET Nat
  BY InTasks DEF Above, Below, TypeOK
<1>3. \A n \in Below(c, x) : n <= Here(x)
  BY <1>1, <1>2 DEF Below
<1>4. Above(c, x) # {} => Min(Above(c, x)) \in Above(c, x) /\ \A n \in Above(c, x) : Min(Above(c, x)) <= n
  BY <1>2, MinIs
<1>5. Below(c, x) # {} => Max(Below(c, x)) \in Below(c, x) /\ \A n \in Below(c, x) : n <= Max(Below(c, x))
  BY <1>1, <1>2, <1>3, MaxIs
<1>6. Beside(c, x, after) =
        IF after
        THEN IF Above(c, x) = {} THEN Here(x) + Gap ELSE (Here(x) + Min(Above(c, x))) \div 2
        ELSE IF Below(c, x) = {} THEN Here(x) \div 2 ELSE (Max(Below(c, x)) + Here(x)) \div 2
  BY DEF Beside, Above, Below, Here
<1>7. \A n \in Nat : n \div 2 \in Nat
  OBVIOUS
<1>8. Beside(c, x, after) \in Nat
  <2>1. CASE after /\ Above(c, x) # {}
    BY <1>1, <1>2, <1>4, <1>6, <1>7, <2>1
  <2>2. CASE ~after /\ Below(c, x) # {}
    BY <1>1, <1>2, <1>5, <1>6, <1>7, <2>2
  <2>3. CASE after /\ Above(c, x) = {}
    BY <1>1, <1>6, <2>3, GapAssumption
  <2>4. CASE ~after /\ Below(c, x) = {}
    BY <1>1, <1>6, <1>7, <2>4
  <2> QED
    BY <2>1, <2>2, <2>3, <2>4
<1> QED
  BY <1>1, <1>4, <1>5, <1>6, <1>8

LEMMA IdleTyped == Idle \in RequestType /\ NoPlan \in [Tasks -> Nat \cup {Unset}]
  BY DEF Idle, NoPlan, RequestType

LEMMA OverTyped ==
    ASSUME NEW N, NEW S, NEW f \in [S -> Nat], NEW g \in [Tasks -> Nat \cup N]
    PROVE  Over(f, g) \in [Tasks -> Nat \cup N]
  BY DEF Over

LEMMA InitTyped == Init => Typed
<1> SUFFICES ASSUME Init PROVE Typed
  OBVIOUS
<1>1. TypeOK
  <2>1. req \in [Reqs -> RequestType]
    BY IdleTyped DEF Init
  <2>2. made \in 0..MaxTasks /\ left \in 0..MaxRequests
    BY GapAssumption DEF Init
  <2>3. col \in [Tasks -> Columns \cup {Nowhere}] /\ pos \in [Tasks -> Nat]
    BY DEF Init
  <2>4. loose \subseteq Columns /\ alone \subseteq Reqs /\ raced \in BOOLEAN
    BY DEF Init
  <2> QED
    BY <2>1, <2>2, <2>3, <2>4 DEF TypeOK
<1>2. Formed
  BY DEF Init, Formed, At, Idle
<1> QED
  BY <1>1, <1>2 DEF Typed

\* A request of the right shape that comes in.
LEMMA BeginTyped ==
    ASSUME Typed, NEW r \in Reqs, NEW q \in RequestType, Begin(r, q),
           UNCHANGED <<col, pos, made, loose>>,
           \/ q.pc = "insert" /\ q.c \in Columns /\ q.p \in Nat /\ q.x = NoTask
           \/ q.pc = "update" /\ q.t \in Tasks
    PROVE  Typed'
<1>1. TypeOK'
  <2>1. left' \in 0..MaxRequests
    BY GapAssumption DEF Begin, Arrive, Typed, TypeOK
  <2>2. req' \in [Reqs -> RequestType]
    BY DEF Begin, Typed, TypeOK
  <2>3. alone' \subseteq Reqs /\ raced' \in BOOLEAN
    BY DEF Begin, Arrive, Typed, TypeOK
  <2> QED
    BY <2>1, <2>2, <2>3 DEF Typed, TypeOK
<1>2. Formed'
  <2> SUFFICES ASSUME NEW s \in Reqs
               PROVE  /\ At(s, "insert")' => req'[s].c \in Columns /\ req'[s].p \in Nat /\ req'[s].x = NoTask
                      /\ At(s, "update")' => req'[s].t \in Tasks
                      /\ req'[s].pc \in {"check", "list", "write"} => req'[s].t \in Tasks /\ req'[s].c \in Columns
    BY DEF Formed
  <2>1. CASE s = r
    BY <2>1 DEF Begin, At, Typed, TypeOK
  <2>2. CASE s # r
    <3>1. req'[s] = req[s]
      BY <2>2 DEF Begin, Typed, TypeOK
    <3> QED
      BY <3>1 DEF Formed, At, Typed
  <2> QED
    BY <2>1, <2>2
<1> QED
  BY <1>1, <1>2 DEF Typed

LEMMA CreateTyped ==
    ASSUME Typed, NEW r \in Reqs, NEW c \in Columns, CreateTask(r, c)
    PROVE  Typed'
<1> DEFINE q == [Idle EXCEPT !.pc = "insert", !.c = c, !.p = AtEnd(c)]
<1>1. AtEnd(c) \in Nat
  BY AtEndIs DEF Typed
<1>2. q \in RequestType
  BY <1>1, IdleTyped DEF RequestType, Idle
<1>3. q.pc = "insert" /\ q.c \in Columns /\ q.p \in Nat /\ q.x = NoTask
  BY <1>1 DEF Idle
<1>4. Begin(r, q) /\ UNCHANGED <<col, pos, made, loose>>
  BY DEF CreateTask
<1> HIDE DEF q
<1> QED
  BY <1>2, <1>3, <1>4, BeginTyped

LEMMA PutTaskTyped ==
    ASSUME Typed, NEW r \in Reqs, NEW t \in Tasks, NEW c \in Columns \cup {Nowhere},
           NEW x \in Tasks \cup {NoTask}, NEW after \in BOOLEAN, NEW p \in Nat \cup {Unset},
           PutTask(r, t, c, x, after, p)
    PROVE  Typed'
<1> DEFINE place == IF x # NoTask /\ c # Nowhere THEN Beside(c, x, after) ELSE p
           q == [pc |-> "update", t |-> t, c |-> c, x |-> x, after |-> after,
                 p |-> place, plan |-> NoPlan]
<1>1. place \in Nat \cup {Unset}
  BY BesideIs DEF Typed
<1>2. NoPlan \in [Tasks -> Nat \cup {Unset}]
  BY IdleTyped
<1>3. q \in RequestType
  BY <1>1, <1>2 DEF RequestType
<1>4. q.pc = "update" /\ q.t \in Tasks
  OBVIOUS
<1>5. Begin(r, q) /\ UNCHANGED <<col, pos, made, loose>>
  BY DEF PutTask
<1> HIDE DEF q
<1> QED
  BY <1>3, <1>4, <1>5, BeginTyped

\* A statement of a request in flight: the others stay, and no request arrives.
LEMMA ReqTyped ==
    ASSUME Typed, NEW r \in Reqs, NEW q \in RequestType,
           req' = [req EXCEPT ![r] = q], UNCHANGED <<raced, left>>,
           \/ q = Idle
           \/ q.t \in Tasks /\ q.c \in Columns /\ q.pc \in {"check", "list", "write"},
           made' \in 0..MaxTasks, col' \in [Tasks -> Columns \cup {Nowhere}],
           pos' \in [Tasks -> Nat], loose' \subseteq Columns, alone' \subseteq Reqs
    PROVE  Typed'
<1>1. TypeOK'
  <2>1. req' \in [Reqs -> RequestType]
    BY DEF Typed, TypeOK
  <2> QED
    BY <2>1 DEF Typed, TypeOK
<1>2. Formed'
  <2> SUFFICES ASSUME NEW s \in Reqs
               PROVE  /\ At(s, "insert")' => req'[s].c \in Columns /\ req'[s].p \in Nat /\ req'[s].x = NoTask
                      /\ At(s, "update")' => req'[s].t \in Tasks
                      /\ req'[s].pc \in {"check", "list", "write"} => req'[s].t \in Tasks /\ req'[s].c \in Columns
    BY DEF Formed
  <2>1. CASE s = r
    <3>1. req'[s] = q
      BY <2>1 DEF Typed, TypeOK
    <3> QED
      BY <3>1 DEF At, Idle
  <2>2. CASE s # r
    <3>1. req'[s] = req[s]
      BY <2>2 DEF Typed, TypeOK
    <3> QED
      BY <3>1 DEF Formed, At, Typed
  <2> QED
    BY <2>1, <2>2
<1> QED
  BY <1>1, <1>2 DEF Typed

LEMMA ReqIs == ASSUME TypeOK, NEW r \in Reqs PROVE req[r] \in RequestType
  BY DEF TypeOK

\* A statement that moves the request on is one that replaces it.
LEMMA GotoIs ==
    ASSUME TypeOK, NEW r \in Reqs, NEW pc, Goto(r, pc)
    PROVE  req' = [req EXCEPT ![r] = [req[r] EXCEPT !.pc = pc]]
  BY DEF Goto, TypeOK

LEMMA InsertTyped == ASSUME Typed, NEW r \in Reqs, Insert(r) PROVE Typed'
<1>1. made \in Nat /\ MaxTasks \in Nat
  BY GapAssumption DEF Typed, TypeOK
<1>2. made' \in 0..MaxTasks /\ made' \in Tasks
  BY <1>1 DEF Insert, Tasks
<1>3. req[r].c \in Columns /\ req[r].p \in Nat
  BY DEF Insert, Typed, Formed
<1>4. col' \in [Tasks -> Columns \cup {Nowhere}] /\ pos' \in [Tasks -> Nat]
  BY <1>3 DEF Insert, Typed, TypeOK
<1>5. loose' \subseteq Columns /\ alone' \subseteq Reqs
  BY DEF Insert, Typed, TypeOK
<1>6. req' = [req EXCEPT ![r] = Idle] /\ UNCHANGED <<raced, left>>
  BY DEF Insert, Finish
<1> QED
  BY <1>2, <1>4, <1>5, <1>6, IdleTyped, ReqTyped

LEMMA UpdateTyped == ASSUME Typed, NEW r \in Reqs, Update(r) PROVE Typed'
<1> DEFINE q == req[r]
           on == [req[r] EXCEPT !.pc = "check"]
<1>1. q \in RequestType /\ q.t \in Tasks
  BY ReqIs DEF Update, Typed, Formed
<1>2. col[q.t] \in Columns \cup {Nowhere}
  BY <1>1 DEF Typed, TypeOK
<1>3. on \in RequestType /\ on.t = q.t /\ on.c = q.c /\ on.pc = "check"
  BY <1>1 DEF RequestType
<1>4. made' \in 0..MaxTasks /\ alone' \subseteq Reqs /\ UNCHANGED <<raced, left>>
  BY DEF Update, Typed, TypeOK, Goto, Finish
<1>5. col' \in [Tasks -> Columns \cup {Nowhere}]
  BY <1>1 DEF Update, Typed, TypeOK, RequestType
<1>6. pos' \in [Tasks -> Nat]
  BY <1>1 DEF Update, Typed, TypeOK, RequestType
<1>7. loose' \subseteq Columns
  BY <1>2 DEF Update, Typed, TypeOK
<1>8. CASE col[q.t] = Nowhere \/ q.c = Nowhere
  <2>1. req' = [req EXCEPT ![r] = Idle]
    BY <1>8 DEF Update, Finish
  <2> QED
    BY <1>4, <1>5, <1>6, <1>7, <2>1, IdleTyped, ReqTyped
<1>9. CASE ~(col[q.t] = Nowhere \/ q.c = Nowhere)
  <2>1. Goto(r, "check")
    BY <1>9 DEF Update
  <2>2. req' = [req EXCEPT ![r] = on]
    BY <2>1, GotoIs DEF Typed
  <2>3. q.c \in Columns
    BY <1>1, <1>9 DEF RequestType
  <2> HIDE DEF on
  <2> QED
    BY <1>1, <1>3, <1>4, <1>5, <1>6, <1>7, <2>2, <2>3, ReqTyped
<1> QED
  BY <1>8, <1>9

LEMMA CheckTyped == ASSUME Typed, NEW r \in Reqs, Check(r) PROVE Typed'
<1> DEFINE on == [req[r] EXCEPT !.pc = "list"]
<1>1. req[r] \in RequestType /\ req[r].t \in Tasks /\ req[r].c \in Columns
  BY ReqIs DEF Check, Typed, Formed, At
<1>2. on \in RequestType /\ on.t \in Tasks /\ on.c \in Columns /\ on.pc = "list"
  BY <1>1 DEF RequestType
<1>3. UNCHANGED <<made, col, pos, raced, left>>
  BY DEF Check, Goto, Finish
<1>4. loose' \subseteq Columns /\ alone' \subseteq Reqs
  BY DEF Check, Typed, TypeOK
<1>5. made' \in 0..MaxTasks /\ col' \in [Tasks -> Columns \cup {Nowhere}] /\ pos' \in [Tasks -> Nat]
  BY <1>3 DEF Typed, TypeOK
<1>6. req' = [req EXCEPT ![r] = on] \/ req' = [req EXCEPT ![r] = Idle]
  BY GotoIs DEF Check, Finish, Typed
<1> HIDE DEF on
<1> QED
  BY <1>2, <1>3, <1>4, <1>5, <1>6, IdleTyped, ReqTyped

LEMMA ListTyped == ASSUME Typed, NEW r \in Reqs, List(r) PROVE Typed'
<1> DEFINE plan == Over(Renumber(In(req[r].c), pos), NoPlan)
           on == [req[r] EXCEPT !.pc = "write", !.plan = plan]
<1>1. req[r] \in RequestType /\ req[r].t \in Tasks /\ req[r].c \in Columns
  BY ReqIs DEF List, Typed, Formed, At
<1>2. plan \in [Tasks -> Nat \cup {Unset}]
  <2>1. Renumber(In(req[r].c), pos) \in [In(req[r].c) -> Nat]
    BY InTasks, RenumberType DEF Typed, TypeOK
  <2> QED
    BY <2>1, IdleTyped, OverTyped
<1>3. on \in RequestType /\ on.t \in Tasks /\ on.c \in Columns /\ on.pc = "write"
  BY <1>1, <1>2 DEF RequestType
<1>4. UNCHANGED <<made, col, pos, raced, left, loose, alone>>
  BY DEF List
<1>5. /\ made' \in 0..MaxTasks /\ col' \in [Tasks -> Columns \cup {Nowhere}] /\ pos' \in [Tasks -> Nat]
      /\ loose' \subseteq Columns /\ alone' \subseteq Reqs
  BY <1>4 DEF Typed, TypeOK
<1>6. req' = [req EXCEPT ![r] = on]
  BY DEF List, Typed, TypeOK
<1> HIDE DEF on
<1> QED
  BY <1>3, <1>4, <1>5, <1>6, ReqTyped

LEMMA WriteTyped == ASSUME Typed, NEW r \in Reqs, Write(r) PROVE Typed'
<1>1. req[r].plan \in [Tasks -> Nat \cup {Unset}]
  BY ReqIs DEF Typed, RequestType
<1>2. pos' \in [Tasks -> Nat]
  BY <1>1 DEF Write, Typed, TypeOK
<1>3. req' = [req EXCEPT ![r] = Idle] /\ UNCHANGED <<raced, left, made, col>>
  BY DEF Write, Finish
<1>4. loose' \subseteq Columns /\ alone' \subseteq Reqs
  BY DEF Write, Typed, TypeOK
<1>5. made' \in 0..MaxTasks /\ col' \in [Tasks -> Columns \cup {Nowhere}]
  BY <1>3 DEF Typed, TypeOK
<1> QED
  BY <1>2, <1>3, <1>4, <1>5, IdleTyped, ReqTyped

\* The requests of one statement: nobody's request changes.
LEMMA ArriveTyped ==
    ASSUME Typed, NEW r \in Reqs, Arrive(r), UNCHANGED <<req, made>>,
           col' \in [Tasks -> Columns \cup {Nowhere}], pos' \in [Tasks -> Nat], loose' \subseteq Columns
    PROVE  Typed'
<1>1. left' \in 0..MaxRequests
  BY GapAssumption DEF Arrive, Typed, TypeOK
<1>2. alone' \subseteq Reqs /\ raced' \in BOOLEAN
  BY DEF Arrive, Typed, TypeOK
<1>3. TypeOK'
  BY <1>1, <1>2 DEF Typed, TypeOK
<1>4. Formed'
  BY DEF Formed, At, Typed
<1> QED
  BY <1>3, <1>4 DEF Typed

LEMMA AskedTyped ==
    ASSUME Typed, NEW c, NEW S \in SUBSET In(c), NEW given \in [S -> Given]
    PROVE  Over([t \in DOMAIN given \cap In(c) |-> given[t]], pos) \in [Tasks -> Nat]
<1>1. [t \in DOMAIN given \cap In(c) |-> given[t]] \in [S -> Nat]
  BY GapAssumption
<1>2. pos \in [Tasks -> Nat \cup {}]
  BY DEF Typed, TypeOK
<1> QED
  BY <1>1, <1>2, OverTyped

LEMMA ReorderTyped ==
    ASSUME Typed, NEW r \in Reqs, NEW c \in Columns, NEW S \in SUBSET In(c),
           NEW given \in [S -> Given], Reorder(r, c, given)
    PROVE  Typed'
<1> DEFINE asked == Over([t \in DOMAIN given \cap In(c) |-> given[t]], pos)
<1>1. asked \in [Tasks -> Nat]
  BY AskedTyped
<1> HIDE DEF asked
<1>2. Over(Renumber(In(c), asked), asked) \in [Tasks -> Nat \cup {}]
  <2>1. Renumber(In(c), asked) \in [In(c) -> Nat]
    BY <1>1, InTasks, RenumberType
  <2> QED
    BY <1>1, <2>1, OverTyped
<1>3. pos' = Over(Renumber(In(c), asked), asked) \/ pos' = asked
  BY DEF Reorder, asked
<1>4. pos' \in [Tasks -> Nat]
  BY <1>1, <1>2, <1>3
<1>5. Arrive(r) /\ UNCHANGED <<col, made, req>> /\ loose' \subseteq Columns
  BY DEF Reorder, Typed, TypeOK
<1>6. col' \in [Tasks -> Columns \cup {Nowhere}]
  BY <1>5 DEF Typed, TypeOK
<1> QED
  BY <1>4, <1>5, <1>6, ArriveTyped

LEMMA DeleteTyped ==
    ASSUME Typed, NEW r \in Reqs, NEW t \in Tasks, DeleteTask(r, t)
    PROVE  Typed'
<1>1. Arrive(r) /\ UNCHANGED <<pos, made, req, loose>>
  BY DEF DeleteTask
<1>2. col' \in [Tasks -> Columns \cup {Nowhere}] /\ pos' \in [Tasks -> Nat] /\ loose' \subseteq Columns
  BY <1>1 DEF DeleteTask, Typed, TypeOK
<1> QED
  BY <1>1, <1>2, ArriveTyped

LEMMA MovesTyped == ASSUME Typed, NEW r \in Reqs, Moves(r) PROVE Typed'
<1>1. PICK t \in On :
        \/ \E x \in On, after \in BOOLEAN, c \in Columns : PutTask(r, t, c, x, after, Unset)
        \/ \E c \in Columns \cup {Nowhere}, p \in Given \cup {Unset} :
              PutTask(r, t, c, NoTask, FALSE, p)
  BY DEF Moves
<1>2. On \in SUBSET Tasks /\ Given \cup {Unset} \in SUBSET (Nat \cup {Unset}) /\ t \in Tasks
  BY GapAssumption DEF On
<1>3. CASE \E x \in On, after \in BOOLEAN, c \in Columns : PutTask(r, t, c, x, after, Unset)
  BY <1>2, <1>3, PutTaskTyped
<1>4. CASE \E c \in Columns \cup {Nowhere}, p \in Given \cup {Unset} : PutTask(r, t, c, NoTask, FALSE, p)
  BY <1>2, <1>4, PutTaskTyped
<1> QED
  BY <1>1, <1>3, <1>4

LEMMA NextTyped == ASSUME Typed, Next PROVE Typed'
<1>1. PICK r \in Reqs : Request(r) \/ Step(r)
  BY DEF Next
<1>2. CASE Step(r)
  BY <1>2, InsertTyped, UpdateTyped, CheckTyped, ListTyped, WriteTyped DEF Step
<1>3. CASE Request(r)
  <2>1. CASE \E c \in Columns : \E S \in SUBSET In(c) : \E given \in [S -> Given] : Reorder(r, c, given)
    BY <2>1, ReorderTyped
  <2> QED
    BY <1>3, <2>1, MovesTyped, CreateTyped, DeleteTyped DEF Request
<1> QED
  BY <1>1, <1>2, <1>3

LEMMA StutterTyped == ASSUME Typed, UNCHANGED vars PROVE Typed'
  BY DEF Typed, TypeOK, Formed, At, vars

(***************************************************************************)
(* Positions are non-negative integers and every request carries what its  *)
(* next statement needs: midpoints, ends of columns and renumberings never *)
(* produce anything else, whatever races.                                  *)
(***************************************************************************)
THEOREM TypeCorrect == Spec => []TypeOK
<1>1. Typed /\ [Next]_vars => Typed'
  BY NextTyped, StutterTyped
<1>2. Typed => TypeOK
  BY DEF Typed
<1> QED
  BY <1>1, <1>2, InitTyped, PTL DEF Spec

-----------------------------------------------------------------------------
(***************************************************************************)
(* A handler changes its own request only, and a request arrives in an     *)
(* idle slot.                                                              *)
(***************************************************************************)
LEMMA OthersStay ==
    ASSUME TypeOK, NEW r \in Reqs, Request(r) \/ Step(r), NEW s \in Reqs, s # r
    PROVE  req'[s] = req[s]
<1>1. CASE Step(r)
  BY <1>1 DEF Step, Insert, Update, Check, List, Write, Goto, Finish, TypeOK
<1>2. CASE Moves(r)
  BY <1>2 DEF Moves, PutTask, Begin, TypeOK
<1>3. CASE Request(r) /\ ~Moves(r)
  BY <1>3 DEF Request, CreateTask, Begin, Reorder, DeleteTask, TypeOK
<1> QED
  BY <1>1, <1>2, <1>3

LEMMA Arrives ==
    ASSUME NEW r \in Reqs, Request(r)
    PROVE  At(r, "idle") /\ Arrive(r)
<1>1. CASE Moves(r)
  BY <1>1 DEF Moves, PutTask, Begin, Arrive
<1>2. CASE ~Moves(r)
  BY <1>2 DEF Request, CreateTask, Begin, Reorder, DeleteTask, Arrive
<1> QED
  BY <1>1, <1>2

-----------------------------------------------------------------------------
(***************************************************************************)
(* A slot that renumbers alone: nobody else is in flight, and what it      *)
(* writes is the renumbering of the column as it is.                       *)
(***************************************************************************)
PlanOf(r) == Over(Renumber(In(req[r].c), pos), NoPlan)

AloneInv ==
    \A r \in alone :
       /\ req[r].pc \in {"list", "write"}
       /\ \A s \in Reqs \ {r} : At(s, "idle")
       /\ At(r, "write") => req[r].plan = PlanOf(r)

LEMMA OnlyOne ==
    ASSUME Typed, AloneInv, NEW r \in Reqs, ~At(r, "idle")
    PROVE  alone \subseteq {r} /\ (req[r].pc \notin {"list", "write"} => alone = {})
  BY DEF AloneInv, Typed, TypeOK

LEMMA AloneStep == ASSUME Typed, AloneInv, Next PROVE AloneInv'
<1>1. PICK r \in Reqs : Request(r) \/ Step(r)
  BY DEF Next
<1>2. CASE Request(r)
  <2>1. alone' = {}
    BY <1>2, Arrives DEF Arrive
  <2> QED
    BY <2>1 DEF AloneInv
<1>3. CASE Insert(r) \/ Update(r)
  <2>1. alone = {}
    BY <1>3, OnlyOne DEF Insert, Update, At
  <2>2. alone' = {}
    BY <1>3, <2>1 DEF Insert, Update
  <2> QED
    BY <2>2 DEF AloneInv
<1>4. CASE Check(r)
  <2>1. alone = {}
    BY <1>4, OnlyOne DEF Check, At
  <2>2. CASE alone' = {}
    BY <2>2 DEF AloneInv
  <2>3. CASE alone' # {}
    <3>1. alone' = {r} /\ Goto(r, "list") /\ \A s \in Reqs \ {r} : At(s, "idle")
      BY <1>4, <2>1, <2>3 DEF Check
    <3>2. req'[r].pc = "list"
      BY <3>1, ReqIs DEF Goto, Typed, TypeOK, RequestType
    <3>3. \A s \in Reqs \ {r} : At(s, "idle")'
      BY <1>4, <3>1, OthersStay DEF At, Step, Typed
    <3> QED
      BY <3>1, <3>2, <3>3 DEF AloneInv, At
  <2> QED
    BY <2>2, <2>3
<1>5. CASE List(r)
  <2>1. alone \subseteq {r} /\ alone' = alone
    BY <1>5, OnlyOne DEF List, At
  <2>2. req'[r].pc = "write" /\ req'[r].c = req[r].c /\ req'[r].plan = PlanOf(r) /\ pos' = pos /\ col' = col
    BY <1>5, ReqIs DEF List, PlanOf, Typed, TypeOK, RequestType
  <2>3. PlanOf(r)' = PlanOf(r)
    BY <2>2 DEF PlanOf, In, Over, Renumber
  <2>4. \A s \in Reqs \ {r} : req'[s] = req[s]
    BY <1>5, OthersStay DEF Step, Typed
  <2> QED
    BY <2>1, <2>2, <2>3, <2>4 DEF AloneInv, At
<1>6. CASE Write(r)
  <2>1. alone \subseteq {r} /\ alone' = alone \ {r}
    BY <1>6, OnlyOne DEF Write, At
  <2>2. alone' = {}
    BY <2>1
  <2> QED
    BY <2>2 DEF AloneInv
<1> QED
  BY <1>1, <1>2, <1>3, <1>4, <1>5, <1>6 DEF Step

LEMMA AloneStutter == ASSUME AloneInv, UNCHANGED vars PROVE AloneInv'
<1>1. PlanOf(0)' = PlanOf(0) /\ \A r : PlanOf(r)' = PlanOf(r)
  BY DEF vars, PlanOf, Over, Renumber, In
<1> QED
  BY <1>1 DEF AloneInv, vars, At

-----------------------------------------------------------------------------
LEMMA SpacedIsApart ==
    ASSUME NEW c \in Columns, Spaced(In(c), pos)
    PROVE  Apart(c)
  BY DEF Spaced, Apart

LEMMA HealsStep ==
    ASSUME Typed, AloneInv, Next, NEW r \in Reqs, NEW c \in Columns, req[r].c = c,
           At(r, "check") \/ (At(r, "write") /\ r \in alone), At(r, "idle")'
    PROVE  Apart(c)'
<1>1. PICK s \in Reqs : Request(s) \/ Step(s)
  BY DEF Next
<1>2. s = r
  BY <1>1, OthersStay DEF At, Typed
<1>3. Check(r) \/ Write(r)
  BY <1>1, <1>2, Arrives DEF At, Step, Insert, Update, List
<1>5. pos \in [Tasks -> Nat] /\ In(c) \in SUBSET Tasks
  BY InTasks DEF Typed, TypeOK
<1>6. In(c)' = In(c)
  <2>1. col' = col
    BY <1>3 DEF Check, Write
  <2> QED
    BY <2>1 DEF In
<1>7. CASE Check(r)
  <2>1. ~Crowded(In(c), pos) /\ pos' = pos /\ col' = col
    BY <1>7, ReqIs DEF Check, Goto, At, Typed, TypeOK, RequestType
  <2> QED
    BY <1>5, <1>6, <2>1, NotCrowdedSpaced DEF Spaced, Apart, In
<1>8. CASE Write(r)
  <2>1. At(r, "write") /\ r \in alone /\ req[r].plan = PlanOf(r)
    BY <1>8 DEF Write, At, AloneInv
  <2>2. \A t \in In(c) : pos'[t] = Renumber(In(c), pos)[t]
    <3>1. Renumber(In(c), pos) \in [In(c) -> Nat]
      BY <1>5, RenumberType
    <3>2. ASSUME NEW t \in In(c) PROVE PlanOf(r)[t] = Renumber(In(c), pos)[t]
      BY <1>5, <3>1 DEF PlanOf, Over
    <3>3. ASSUME NEW t \in In(c) PROVE pos'[t] = PlanOf(r)[t]
      <4>1. PlanOf(r)[t] \in Nat /\ Unset \notin Nat
        BY <3>1, <3>2 DEF Unset
      <4>2. t \in Tasks /\ pos'[t] = IF req[r].plan[t] = Unset THEN pos[t] ELSE req[r].plan[t]
        BY <1>5, <1>8 DEF Write
      <4> QED
        BY <2>1, <4>1, <4>2
    <3> QED
      BY <3>2, <3>3
  <2>3. Spaced(In(c), pos')
    BY <1>5, <2>2, RenumberedSpaced
  <2> QED
    BY <1>6, <2>3 DEF Spaced, Apart
<1> QED
  BY <1>3, <1>7, <1>8

(***************************************************************************)
(* Heals: a PUT that meets nobody from its check on leaves the tasks of    *)
(* its column a threshold apart, whatever racing requests and clients have *)
(* written there before.                                                   *)
(***************************************************************************)
THEOREM HealsHolds == Spec => Heals
<1> DEFINE Inv == Typed /\ AloneInv
           Fact == \A r \in Reqs, c \in Columns :
                     /\ At(r, "check") \/ (At(r, "write") /\ r \in alone)
                     /\ req[r].c = c /\ At(r, "idle")'
                     => Apart(c)'
<1>1. Init => Inv
  BY InitTyped DEF Init, AloneInv
<1>2. Inv /\ [Next]_vars => Inv'
  BY NextTyped, StutterTyped, AloneStep, AloneStutter
<1>3. Inv /\ [Next]_vars => [Fact]_vars
  BY HealsStep
<1>4. Spec => [][Fact]_vars
  BY <1>1, <1>2, <1>3, PTL DEF Spec
<1> QED
  BY <1>4 DEF Heals

-----------------------------------------------------------------------------
(***************************************************************************)
(* A calm board: as long as requests come one at a time, every column that *)
(* no bare position was written into is apart, unless the request in       *)
(* flight is about to see to it; a request aims at the place as it still   *)
(* is; and a task that was to go beside another one stands there.          *)
(***************************************************************************)
Busy(r) == req[r].pc \in {"check", "list", "write"}

OneActive == \A r, s \in Reqs : ~At(r, "idle") /\ ~At(s, "idle") => r = s

AllApart == \A c \in Columns \ loose : Apart(c) \/ \E r \in Reqs : Busy(r) /\ req[r].c = c

SealedAt(r) == req[r].pc \in {"list", "write"} => r \in alone

AimedAt(r) ==
    /\ At(r, "insert") => req[r].p = AtEnd(req[r].c)
    /\ At(r, "update") /\ req[r].x # NoTask /\ req[r].c # Nowhere =>
          req[r].p = Beside(req[r].c, req[r].x, req[r].after)

Wants(r, t, x, after) ==
    /\ req[r].t = t /\ req[r].x = x /\ req[r].after = after
    /\ x # t /\ req[r].c = col[x] /\ col[t] # Nowhere /\ col[x] \in Columns \ loose
    /\ after \/ pos[x] > 0

AsideAt(r) ==
    Busy(r) => \A t, x \in Tasks, after \in BOOLEAN :
                  Wants(r, t, x, after) => NextTo(t, x, after)

SlotInv(r) == SealedAt(r) /\ AimedAt(r) /\ AsideAt(r)

Calm == OneActive /\ AllApart /\ \A r \in Reqs : SlotInv(r)

LEMMA IdleSlot == ASSUME NEW r, At(r, "idle") PROVE SlotInv(r)
  BY DEF At, SlotInv, SealedAt, AimedAt, AsideAt, Busy

\* Only the slot that moves is in flight, before and after its step.
LEMMA OthersIdle ==
    ASSUME Typed, Calm, NEW r \in Reqs, Request(r) \/ Step(r), ~raced'
    PROVE  \A s \in Reqs \ {r} : At(s, "idle") /\ At(s, "idle")'
<1>1. \A s \in Reqs \ {r} : At(s, "idle")
  <2>1. CASE Request(r)
    BY <2>1, Arrives DEF Arrive
  <2>2. CASE Step(r)
    BY <2>2 DEF Step, Insert, Update, Check, List, Write, At, Calm, OneActive
  <2> QED
    BY <2>1, <2>2
<1> QED
  BY <1>1, OthersStay DEF At, Typed

LEMMA CalmNext ==
    ASSUME NEW r \in Reqs, (\A s \in Reqs \ {r} : At(s, "idle"))', AllApart', SlotInv(r)'
    PROVE  Calm'
<1>1. OneActive'
  BY DEF OneActive, At
<1>2. ASSUME NEW s \in Reqs, s # r PROVE SlotInv(s)'
  BY <1>2 DEF At, SlotInv, SealedAt, AimedAt, AsideAt, Busy
<1> QED
  BY <1>1, <1>2 DEF Calm

LEMMA ApartStays ==
    ASSUME NEW c \in Columns, Apart(c), In(c)' \subseteq In(c), \A t \in In(c)' : pos'[t] = pos[t]
    PROVE  Apart(c)'
  BY DEF Apart

\* Before a request arrives, nobody is busy.
LEMMA AllApartBefore ==
    ASSUME Calm, NEW r \in Reqs, ~Busy(r), \A s \in Reqs \ {r} : At(s, "idle")
    PROVE  \A c \in Columns \ loose : Apart(c)
  BY DEF Calm, AllApart, Busy, At

LEMMA SamePlaces ==
    ASSUME UNCHANGED <<col, pos>>
    PROVE  /\ \A c : In(c)' = In(c) /\ AtEnd(c)' = AtEnd(c) /\ Apart(c)' = Apart(c)
           /\ \A c, x, after : Beside(c, x, after)' = Beside(c, x, after)
           /\ \A t, x, after : NextTo(t, x, after)' = NextTo(t, x, after)
<1>1. \A c : In(c)' = In(c)
  BY DEF In
<1>2. \A c : AtEnd(c)' = AtEnd(c) /\ Apart(c)' = Apart(c)
  BY <1>1 DEF AtEnd, Apart
<1>3. ASSUME NEW c, NEW x, NEW after PROVE Beside(c, x, after)' = Beside(c, x, after)
  BY <1>1, ZenonT(60) DEF Beside
<1>4. ASSUME NEW t, NEW x, NEW after PROVE NextTo(t, x, after)' = NextTo(t, x, after)
  BY <1>1 DEF NextTo, Between
<1> QED
  BY <1>1, <1>2, <1>3, <1>4

LEMMA BeginCalm ==
    ASSUME Typed, Calm, NEW r \in Reqs, NEW q \in RequestType, Begin(r, q),
           UNCHANGED <<col, pos, made, loose>>, ~raced',
           \A s \in Reqs \ {r} : At(s, "idle") /\ At(s, "idle")',
           \/ q.pc = "insert" /\ q.p = AtEnd(q.c)
           \/ q.pc = "update" /\ (q.x # NoTask /\ q.c # Nowhere => q.p = Beside(q.c, q.x, q.after))
    PROVE  Calm'
<1>1. req'[r] = q
  BY DEF Begin, Typed, TypeOK
<1>2. ~Busy(r)
  BY DEF Begin, Arrive, At, Busy
<1>3. AllApart'
  BY <1>2, AllApartBefore, SamePlaces DEF AllApart
<1>4. SlotInv(r)'
  <2>1. AimedAt(r)'
    BY <1>1, SamePlaces DEF AimedAt, At
  <2>2. SealedAt(r)' /\ AsideAt(r)'
    BY <1>1 DEF SealedAt, AsideAt, Busy
  <2> QED
    BY <2>1, <2>2 DEF SlotInv
<1> QED
  BY <1>3, <1>4, CalmNext

LEMMA CreateCalm ==
    ASSUME Typed, Calm, NEW r \in Reqs, NEW c \in Columns, CreateTask(r, c), ~raced',
           \A s \in Reqs \ {r} : At(s, "idle") /\ At(s, "idle")'
    PROVE  Calm'
<1> DEFINE q == [Idle EXCEPT !.pc = "insert", !.c = c, !.p = AtEnd(c)]
<1>1. AtEnd(c) \in Nat
  BY AtEndIs DEF Typed
<1>2. q \in RequestType /\ q.pc = "insert" /\ q.p = AtEnd(q.c)
  BY <1>1, IdleTyped DEF RequestType, Idle
<1>3. Begin(r, q) /\ UNCHANGED <<col, pos, made, loose>>
  BY DEF CreateTask
<1> HIDE DEF q
<1> QED
  BY <1>2, <1>3, BeginCalm

LEMMA PutTaskCalm ==
    ASSUME Typed, Calm, NEW r \in Reqs, NEW t \in Tasks, NEW c \in Columns \cup {Nowhere},
           NEW x \in Tasks \cup {NoTask}, NEW after \in BOOLEAN, NEW p \in Nat \cup {Unset},
           PutTask(r, t, c, x, after, p), ~raced',
           \A s \in Reqs \ {r} : At(s, "idle") /\ At(s, "idle")'
    PROVE  Calm'
<1> DEFINE place == IF x # NoTask /\ c # Nowhere THEN Beside(c, x, after) ELSE p
           q == [pc |-> "update", t |-> t, c |-> c, x |-> x, after |-> after,
                 p |-> place, plan |-> NoPlan]
<1>1. place \in Nat \cup {Unset}
  BY BesideIs DEF Typed
<1>2. NoPlan \in [Tasks -> Nat \cup {Unset}]
  BY IdleTyped
<1>3. q \in RequestType
  BY <1>1, <1>2 DEF RequestType
<1>4. q.pc = "update" /\ (q.x # NoTask /\ q.c # Nowhere => q.p = Beside(q.c, q.x, q.after))
  OBVIOUS
<1>5. Begin(r, q) /\ UNCHANGED <<col, pos, made, loose>>
  BY DEF PutTask
<1> HIDE DEF q
<1> QED
  BY <1>3, <1>4, <1>5, BeginCalm

\* In a column that a request leaves apart, and with no request in flight after it.
LEMMA IdleCalm ==
    ASSUME NEW r \in Reqs, (\A s \in Reqs : At(s, "idle"))', (\A c \in Columns \ loose : Apart(c))'
    PROVE  Calm'
<1>1. AllApart'
  BY DEF AllApart
<1>2. SlotInv(r)'
  BY DEF At, SlotInv, SealedAt, AimedAt, AsideAt, Busy
<1> QED
  BY <1>1, <1>2, CalmNext

LEMMA ReorderCalm ==
    ASSUME Typed, Calm, NEW r \in Reqs, NEW c \in Columns, NEW S \in SUBSET In(c),
           NEW given \in [S -> Given], Reorder(r, c, given), ~raced',
           \A s \in Reqs \ {r} : At(s, "idle") /\ At(s, "idle")'
    PROVE  Calm'
<1> DEFINE asked == Over([t \in DOMAIN given \cap In(c) |-> given[t]], pos)
<1>1. asked \in [Tasks -> Nat] /\ In(c) \in SUBSET Tasks
  BY AskedTyped, InTasks
<1>2. \A t \in Tasks : t \notin In(c) => asked[t] = pos[t]
  BY DEF Over
<1> HIDE DEF asked
<1>3. /\ pos' = IF Crowded(In(c), asked) THEN Over(Renumber(In(c), asked), asked) ELSE asked
      /\ loose' = loose \ {c} /\ UNCHANGED <<col, req>> /\ At(r, "idle")
  BY DEF Reorder, Arrive, asked
<1>4. (\A s \in Reqs : At(s, "idle"))'
  BY <1>3 DEF At
<1>5. \A d : In(d)' = In(d)
  BY <1>3 DEF In
<1>6. Apart(c)'
  <2>1. Spaced(In(c), pos')
    <3>1. CASE Crowded(In(c), asked)
      <4>1. Renumber(In(c), asked) \in [In(c) -> Nat]
        BY <1>1, RenumberType
      <4>2. \A t \in In(c) : pos'[t] = Renumber(In(c), asked)[t]
        BY <1>1, <1>3, <3>1, <4>1 DEF Over
      <4> QED
        BY <1>1, <4>2, RenumberedSpaced
    <3>2. CASE ~Crowded(In(c), asked)
      BY <1>1, <1>3, <3>2, NotCrowdedSpaced
    <3> QED
      BY <3>1, <3>2
  <2> QED
    BY <1>5, <2>1 DEF Spaced, Apart
<1>7. ASSUME NEW d \in Columns \ loose', d # c PROVE Apart(d)'
  <2>1. Apart(d)
    <3>1. ~Busy(r)
      BY <1>3 DEF Busy, At
    <3> QED
      BY <1>3, <1>7, <3>1, AllApartBefore
  <2>2. \A t \in In(d) : t \in Tasks /\ t \notin In(c)
    BY <1>7 DEF In
  <2>3. \A t \in In(d) : pos'[t] = pos[t]
    <3>1. CASE Crowded(In(c), asked)
      <4>1. DOMAIN Renumber(In(c), asked) = In(c)
        BY DEF Renumber
      <4> QED
        BY <1>2, <1>3, <2>2, <3>1, <4>1 DEF Over
    <3>2. CASE ~Crowded(In(c), asked)
      BY <1>2, <1>3, <2>2, <3>2
    <3> QED
      BY <3>1, <3>2
  <2> QED
    BY <1>5, <2>1, <2>3, ApartStays
<1> QED
  BY <1>4, <1>6, <1>7, IdleCalm

LEMMA DeleteCalm ==
    ASSUME Typed, Calm, NEW r \in Reqs, NEW t \in Tasks, DeleteTask(r, t), ~raced',
           \A s \in Reqs \ {r} : At(s, "idle") /\ At(s, "idle")'
    PROVE  Calm'
<1>1. At(r, "idle") /\ UNCHANGED <<pos, req, loose>> /\ col' = [col EXCEPT ![t] = Nowhere]
  BY DEF DeleteTask, Arrive
<1>2. (\A s \in Reqs : At(s, "idle"))'
  BY <1>1 DEF At
<1>3. ASSUME NEW d \in Columns \ loose' PROVE Apart(d)'
  <2>1. Apart(d)
    <3>1. ~Busy(r)
      BY <1>1 DEF Busy, At
    <3> QED
      BY <1>1, <1>3, <3>1, AllApartBefore
  <2>2. In(d)' \subseteq In(d)
    BY <1>1, GapAssumption DEF In, Typed, TypeOK
  <2> QED
    BY <1>1, <2>1, <2>2, ApartStays
<1> QED
  BY <1>2, <1>3, IdleCalm

LEMMA InsertCalm ==
    ASSUME Typed, Calm, NEW r \in Reqs, Insert(r), ~raced',
           \A s \in Reqs \ {r} : At(s, "idle") /\ At(s, "idle")'
    PROVE  Calm'
<1> DEFINE n == made + 1
           c == req[r].c
           p == req[r].p
<1>1. /\ At(r, "insert") /\ col' = [col EXCEPT ![n] = c] /\ pos' = [pos EXCEPT ![n] = p]
      /\ req' = [req EXCEPT ![r] = Idle] /\ UNCHANGED loose
  BY DEF Insert, Finish
<1>2. (\A s \in Reqs : At(s, "idle"))'
  BY <1>1 DEF At, Idle, Typed, TypeOK
<1>3. n \in Tasks /\ c \in Columns /\ p \in Nat
  BY GapAssumption DEF Insert, Typed, TypeOK, Formed, Tasks
<1>4. p = AtEnd(c)
  BY <1>1 DEF Calm, SlotInv, AimedAt
<1>5. \A t \in In(c) : pos[t] \in Nat /\ pos[t] + Gap <= p
  BY <1>4, AtEndIs, InTasks DEF Typed, TypeOK
<1> HIDE DEF n, p, c
<1>6. ASSUME NEW d \in Columns \ loose' PROVE Apart(d)'
  <2>1. Apart(d)
    <3>1. ~Busy(r)
      BY <1>1 DEF Busy, At
    <3> QED
      BY <1>1, <1>6, <3>1, AllApartBefore
  <2>2. \A t \in In(d)' : t \in Tasks /\ (t # n => t \in In(d) /\ pos'[t] = pos[t])
    BY <1>1, <1>3 DEF In, Typed, TypeOK
  <2>3. n \in In(d)' => d = c /\ pos'[n] = p
    BY <1>1, <1>3 DEF In, Typed, TypeOK
  <2>4. ASSUME NEW t \in In(d)', NEW u \in In(d)', t # u
        PROVE  pos'[t] + Threshold <= pos'[u] \/ pos'[u] + Threshold <= pos'[t]
    <3>1. CASE t # n /\ u # n
      BY <2>1, <2>2, <2>4, <3>1 DEF Apart
    <3>2. CASE t = n
      BY <1>3, <1>5, <2>2, <2>3, <2>4, <3>2, GapAssumption
    <3>3. CASE u = n
      BY <1>3, <1>5, <2>2, <2>3, <2>4, <3>3, GapAssumption
    <3> QED
      BY <3>1, <3>2, <3>3
  <2> QED
    BY <2>4 DEF Apart
<1> QED
  BY <1>2, <1>6, IdleCalm

LEMMA CheckCalm ==
    ASSUME Typed, Calm, NEW r \in Reqs, Check(r), ~raced',
           \A s \in Reqs \ {r} : At(s, "idle") /\ At(s, "idle")'
    PROVE  Calm'
<1> DEFINE c == req[r].c
<1>1. UNCHANGED <<col, pos>> /\ At(r, "check") /\ c \in Columns
  BY DEF Check, Typed, Formed, At
<1>2. \A d \in Columns \ loose : Apart(d) \/ d = c
  BY DEF Calm, AllApart, Busy, At
<1>3. CASE Crowded(In(c), pos)
  <2>1. Goto(r, "list") /\ UNCHANGED loose /\ alone' = {r}
    BY <1>3 DEF Check
  <2>2. req'[r] = [req[r] EXCEPT !.pc = "list"] /\ req[r] \in RequestType
    BY <2>1, GotoIs, ReqIs DEF Typed, TypeOK
  <2>3. req'[r].pc = "list" /\ req'[r].c = c /\ req'[r].t = req[r].t /\ req'[r].x = req[r].x
          /\ req'[r].after = req[r].after
    BY <2>2 DEF RequestType
  <2>4. AllApart'
    BY <1>1, <1>2, <2>1, <2>3, SamePlaces DEF AllApart, Busy
  <2>5. SealedAt(r)' /\ AimedAt(r)'
    BY <2>1, <2>3 DEF SealedAt, AimedAt, At
  <2>6. AsideAt(r)'
    <3>1. AsideAt(r) /\ Busy(r)
      BY <1>1 DEF Calm, SlotInv, Busy, At
    <3>2. \A t, x \in Tasks, after \in BOOLEAN : Wants(r, t, x, after)' => Wants(r, t, x, after)
      BY <1>1, <2>1, <2>3 DEF Wants
    <3> QED
      BY <1>1, <3>1, <3>2, SamePlaces DEF AsideAt
  <2> QED
    BY <2>4, <2>5, <2>6, CalmNext DEF SlotInv
<1>4. CASE ~Crowded(In(c), pos)
  <2>1. Finish(r) /\ loose' = loose \ {c}
    BY <1>4 DEF Check
  <2>2. (\A s \in Reqs : At(s, "idle"))'
    BY <2>1 DEF Finish, At, Idle, Typed, TypeOK
  <2>3. Apart(c)
    <3>1. Spaced(In(c), pos)
      BY <1>4, InTasks, NotCrowdedSpaced DEF Typed, TypeOK
    <3> QED
      BY <1>1, <3>1, SpacedIsApart
  <2>4. ASSUME NEW d \in Columns \ loose' PROVE Apart(d)'
    BY <1>1, <1>2, <2>1, <2>3, <2>4, SamePlaces
  <2> QED
    BY <2>2, <2>4, IdleCalm
<1> QED
  BY <1>3, <1>4

LEMMA ListCalm ==
    ASSUME Typed, Calm, NEW r \in Reqs, List(r), ~raced',
           \A s \in Reqs \ {r} : At(s, "idle") /\ At(s, "idle")'
    PROVE  Calm'
<1>1. UNCHANGED <<col, pos, loose, alone>> /\ At(r, "list") /\ req[r] \in RequestType
  BY ReqIs DEF List, Typed
<1>2. req'[r].pc = "write" /\ req'[r].c = req[r].c /\ req'[r].t = req[r].t /\ req'[r].x = req[r].x
        /\ req'[r].after = req[r].after
  BY <1>1 DEF List, Typed, TypeOK, RequestType
<1>3. AllApart'
  <2>1. \A d \in Columns \ loose : Apart(d) \/ d = req[r].c
    BY DEF Calm, AllApart, Busy, At
  <2> QED
    BY <1>1, <1>2, <2>1, SamePlaces DEF AllApart, Busy
<1>4. SealedAt(r)' /\ AimedAt(r)'
  BY <1>1, <1>2 DEF Calm, SlotInv, SealedAt, AimedAt, At
<1>5. AsideAt(r)'
  <2>1. AsideAt(r) /\ Busy(r)
    BY <1>1 DEF Calm, SlotInv, Busy, At
  <2>2. \A t, x \in Tasks, after \in BOOLEAN : Wants(r, t, x, after)' => Wants(r, t, x, after)
    BY <1>1, <1>2 DEF Wants
  <2> QED
    BY <1>1, <2>1, <2>2, SamePlaces DEF AsideAt
<1> QED
  BY <1>3, <1>4, <1>5, CalmNext DEF SlotInv

LEMMA WriteCalm ==
    ASSUME Typed, AloneInv, Calm, NEW r \in Reqs, Write(r), ~raced',
           \A s \in Reqs \ {r} : At(s, "idle") /\ At(s, "idle")'
    PROVE  Calm'
<1>1. UNCHANGED <<col, raced, left>> /\ At(r, "write") /\ req' = [req EXCEPT ![r] = Idle]
  BY DEF Write, Finish
<1>2. (\A s \in Reqs : At(s, "idle"))'
  BY <1>1 DEF At, Idle, Typed, TypeOK
<1>3. PICK c \in Columns : req[r].c = c
  BY <1>1 DEF Typed, Formed, At
<1>4. r \in alone /\ Next
  BY <1>1 DEF Calm, SlotInv, SealedAt, At, Next, Step
<1>5. Apart(c)'
  BY <1>1, <1>2, <1>3, <1>4, HealsStep
<1>6. ASSUME NEW d \in Columns \ loose', d # c PROVE Apart(d)'
  <2>1. Apart(d)
    BY <1>3, <1>6 DEF Write, Calm, AllApart, Busy, At
  <2>2. In(d)' = In(d)
    BY <1>1 DEF In
  <2>3. ASSUME NEW t \in In(d) PROVE pos'[t] = pos[t]
    <3>1. t \in Tasks /\ t \notin In(c)
      BY <1>6, InTasks DEF In
    <3>2. req[r].plan = PlanOf(r)
      BY <1>1, <1>4 DEF AloneInv
    <3>3. req[r].plan[t] = Unset
      BY <1>3, <3>1, <3>2 DEF PlanOf, Over, Renumber, NoPlan
    <3> QED
      BY <3>1, <3>3 DEF Write
  <2> QED
    BY <2>1, <2>2, <2>3, ApartStays
<1> QED
  BY <1>2, <1>5, <1>6, IdleCalm DEF Write

-----------------------------------------------------------------------------
(***************************************************************************)
(* The midpoint: with the tasks of the column apart, the new position lies *)
(* next to that of the target.                                             *)
(***************************************************************************)
LEMMA MidpointIs ==
    ASSUME Typed, NEW c \in Columns, Apart(c), NEW x \in In(c), NEW after \in BOOLEAN,
           after \/ pos[x] > 0
    PROVE  LET p == Beside(c, x, after) IN
           /\ p \in Nat
           /\ after => pos[x] < p /\ \A v \in In(c) : pos[x] < pos[v] => p < pos[v]
           /\ ~after => p < pos[x] /\ \A v \in In(c) : pos[v] < pos[x] => pos[v] < p
<1> DEFINE p == Beside(c, x, after)
<1> SUFFICES /\ p \in Nat
             /\ after => pos[x] < p /\ \A v \in In(c) : pos[x] < pos[v] => p < pos[v]
             /\ ~after => p < pos[x] /\ \A v \in In(c) : pos[v] < pos[x] => pos[v] < p
  OBVIOUS
<1>1. x \in Tasks /\ \A v \in In(c) : v \in Tasks /\ pos[v] \in Nat
  BY InTasks DEF Typed, TypeOK
<1>2. col[x] # Nowhere /\ Here(x) = pos[x]
  BY <1>1, GapAssumption DEF In, Here
<1>3. Above(c, x) = {pos[v] : v \in {w \in In(c) : pos[w] > pos[x]}}
  BY <1>2 DEF Above
<1>4. Below(c, x) = {pos[v] : v \in {w \in In(c) : pos[w] < pos[x]}}
  BY <1>2 DEF Below
<1>5. \A v \in In(c) : v = x \/ pos[x] + Threshold <= pos[v] \/ pos[v] + Threshold <= pos[x]
  BY DEF Apart
<1>6. Threshold \in Nat /\ Gap \in Nat /\ 2 <= Threshold /\ Threshold <= Gap
  BY GapAssumption
<1>7. /\ p \in Nat
      /\ after /\ Above(c, x) = {} => p = pos[x] + Gap
      /\ after /\ Above(c, x) # {} =>
            \E m \in Above(c, x) : p = (pos[x] + m) \div 2 /\ \A n \in Above(c, x) : m <= n
      /\ ~after /\ Below(c, x) = {} => p = pos[x] \div 2
      /\ ~after /\ Below(c, x) # {} =>
            \E m \in Below(c, x) : p = (m + pos[x]) \div 2 /\ \A n \in Below(c, x) : n <= m
  BY <1>1, <1>2, BesideIs DEF Typed
<1> HIDE DEF p
<1>8. CASE after /\ Above(c, x) = {}
  <2>1. \A v \in In(c) : ~(pos[x] < pos[v])
    BY <1>1, <1>3, <1>8
  <2>2. p \in Nat /\ pos[x] < p
    BY <1>1, <1>6, <1>7, <1>8
  <2> QED
    BY <1>8, <2>1, <2>2
<1>9. CASE after /\ Above(c, x) # {}
  <2>1. PICK m \in Above(c, x) : p = (pos[x] + m) \div 2 /\ \A n \in Above(c, x) : m <= n
    BY <1>7, <1>9
  <2>2. PICK w \in In(c) : m = pos[w] /\ pos[w] > pos[x]
    BY <1>3, <2>1
  <2>3. m \in Nat /\ pos[x] + 2 <= m
    BY <1>1, <1>5, <1>6, <2>2
  <2>4. pos[x] < p /\ p < m
    BY <1>1, <2>1, <2>3
  <2>5. \A v \in In(c) : pos[x] < pos[v] => m <= pos[v]
    BY <1>1, <1>3, <2>1
  <2>6. ASSUME NEW v \in In(c), pos[x] < pos[v] PROVE p < pos[v]
    BY <1>1, <1>7, <2>3, <2>4, <2>5, <2>6
  <2> QED
    BY <1>7, <1>9, <2>4, <2>6
<1>10. CASE ~after /\ Below(c, x) = {}
  <2>1. \A v \in In(c) : ~(pos[v] < pos[x])
    BY <1>1, <1>4, <1>10
  <2>2. p = pos[x] \div 2 /\ pos[x] > 0
    BY <1>7, <1>10
  <2>3. p < pos[x]
    BY <1>1, <2>2
  <2> QED
    BY <1>7, <1>10, <2>1, <2>3
<1>11. CASE ~after /\ Below(c, x) # {}
  <2>1. PICK m \in Below(c, x) : p = (m + pos[x]) \div 2 /\ \A n \in Below(c, x) : n <= m
    BY <1>7, <1>11
  <2>2. PICK w \in In(c) : m = pos[w] /\ pos[w] < pos[x]
    BY <1>4, <2>1
  <2>3. m \in Nat /\ m + 2 <= pos[x]
    BY <1>1, <1>5, <1>6, <2>2
  <2>4. m < p /\ p < pos[x]
    BY <1>1, <2>1, <2>3
  <2>5. \A v \in In(c) : pos[v] < pos[x] => pos[v] <= m
    BY <1>1, <1>4, <2>1
  <2>6. ASSUME NEW v \in In(c), pos[v] < pos[x] PROVE pos[v] < p
    BY <1>1, <1>7, <2>3, <2>4, <2>5, <2>6
  <2> QED
    BY <1>7, <1>11, <2>4, <2>6
<1> QED
  BY <1>8, <1>9, <1>10, <1>11

LEMMA UpdateCalm ==
    ASSUME Typed, Calm, NEW r \in Reqs, Update(r), ~raced',
           \A s \in Reqs \ {r} : At(s, "idle") /\ At(s, "idle")'
    PROVE  Calm'
<1> DEFINE q == req[r]
<1>1. q \in RequestType /\ q.t \in Tasks /\ At(r, "update")
  BY ReqIs DEF Update, Typed, Formed
<1>2. \A d \in Columns \ loose : Apart(d)
  <2>1. ~Busy(r)
    BY <1>1 DEF Busy, At
  <2> QED
    BY <2>1, AllApartBefore
<1>3. CASE col[q.t] = Nowhere
  <2>1. req' = [req EXCEPT ![r] = Idle] /\ UNCHANGED <<col, pos, loose>>
    BY <1>3 DEF Update, Finish
  <2>2. (\A s \in Reqs : At(s, "idle"))'
    BY <2>1 DEF At, Idle, Typed, TypeOK
  <2>3. (\A d \in Columns \ loose : Apart(d))'
    BY <1>2, <2>1, SamePlaces
  <2> QED
    BY <2>2, <2>3, IdleCalm
<1>4. CASE col[q.t] # Nowhere /\ q.c = Nowhere
  <2>1. /\ req' = [req EXCEPT ![r] = Idle] /\ UNCHANGED col
        /\ pos' = IF q.p = Unset THEN pos ELSE [pos EXCEPT ![q.t] = q.p]
        /\ loose' = IF q.p # Unset THEN loose \cup {col[q.t]} ELSE loose
    BY <1>4 DEF Update, Finish
  <2>2. (\A s \in Reqs : At(s, "idle"))'
    BY <2>1 DEF At, Idle, Typed, TypeOK
  <2>3. ASSUME NEW d \in Columns \ loose' PROVE Apart(d)'
    <3>1. Apart(d) /\ In(d)' = In(d)
      BY <1>2, <2>1, <2>3 DEF In
    <3>2. \A t \in In(d) : pos'[t] = pos[t]
      BY <2>1, <2>3, InTasks DEF In, Typed, TypeOK
    <3> QED
      BY <3>1, <3>2, ApartStays
  <2> QED
    BY <2>2, <2>3, IdleCalm
<1>5. CASE col[q.t] # Nowhere /\ q.c # Nowhere
  <2> DEFINE on == [req[r] EXCEPT !.pc = "check"]
  <2>1. /\ Goto(r, "check") /\ UNCHANGED loose /\ col' = [col EXCEPT ![q.t] = q.c]
        /\ pos' = IF q.p = Unset THEN pos ELSE [pos EXCEPT ![q.t] = q.p]
    BY <1>5 DEF Update
  <2>2. req'[r] = on
    BY <2>1, GotoIs DEF Typed, TypeOK
  <2>3. req'[r].pc = "check" /\ req'[r].c = q.c /\ req'[r].t = q.t /\ req'[r].x = q.x
          /\ req'[r].after = q.after
    BY <1>1, <2>2 DEF RequestType
  <2>4. \A v \in Tasks : v # q.t => col'[v] = col[v] /\ pos'[v] = pos[v]
    BY <2>1 DEF Typed, TypeOK
  <2>5. col'[q.t] = q.c
    BY <1>1, <2>1 DEF Typed, TypeOK
  <2>6. AllApart'
    <3>1. ASSUME NEW d \in Columns \ loose', d # q.c PROVE Apart(d)'
      <4>1. Apart(d)
        BY <1>2, <2>1, <3>1
      <4>2. In(d)' \subseteq In(d) /\ \A v \in In(d)' : pos'[v] = pos[v]
        BY <2>4, <2>5, <3>1 DEF In
      <4> QED
        BY <4>1, <4>2, ApartStays
    <3> QED
      BY <2>3, <3>1 DEF AllApart, Busy
  <2>7. SealedAt(r)' /\ AimedAt(r)'
    BY <2>3 DEF SealedAt, AimedAt, At
  <2>8. AsideAt(r)'
    <3> SUFFICES ASSUME NEW t \in Tasks, NEW x \in Tasks, NEW after \in BOOLEAN, Wants(r, t, x, after)'
                 PROVE  NextTo(t, x, after)'
      BY DEF AsideAt
    <3>1. q.t = t /\ q.x = x /\ q.after = after /\ x # t
      BY <2>3 DEF Wants
    <3>2. q.c = col[x] /\ col'[x] = col[x] /\ pos'[x] = pos[x] /\ col[x] \in Columns \ loose
      BY <2>1, <2>3, <2>4, <3>1 DEF Wants
    <3>3. after \/ pos[x] > 0
      BY <3>2 DEF Wants
    <3> DEFINE c == q.c
               p == Beside(c, x, after)
    <3>4. q.p = p
      BY <1>1, <1>5, <3>1, GapAssumption DEF Calm, SlotInv, AimedAt, NoTask, Tasks
    <3>5. c \in Columns /\ Apart(c) /\ x \in In(c)
      BY <1>2, <3>2 DEF In
    <3>6. /\ p \in Nat
          /\ after => pos[x] < p /\ \A v \in In(c) : pos[x] < pos[v] => p < pos[v]
          /\ ~after => p < pos[x] /\ \A v \in In(c) : pos[v] < pos[x] => pos[v] < p
      BY <3>3, <3>5, MidpointIs
    <3>7. pos'[t] = p /\ col'[t] = col'[x]
      BY <2>1, <2>5, <3>1, <3>2, <3>4, <3>6 DEF Unset, Typed, TypeOK
    <3> HIDE DEF p
    <3>8. ASSUME NEW v \in Tasks, col'[v] = col'[x], v # t, v # x
          PROVE  /\ pos'[v] = pos[v] /\ pos[v] \in Nat /\ pos[x] \in Nat
                 /\ pos[v] # pos[x]
                 /\ after /\ pos[x] < pos[v] => p < pos[v]
                 /\ ~after /\ pos[v] < pos[x] => pos[v] < p
      <4>1. v \in In(c) /\ pos'[v] = pos[v]
        BY <2>4, <3>1, <3>2, <3>8 DEF In
      <4>2. pos[v] \in Nat /\ pos[x] \in Nat
        BY DEF Typed, TypeOK
      <4>3. pos[v] # pos[x]
        BY <3>5, <3>8, <4>1, <4>2, GapAssumption DEF Apart
      <4> QED
        BY <3>6, <4>1, <4>2, <4>3
    <3>9. pos[x] \in Nat
      BY DEF Typed, TypeOK
    <3>10. CASE after
      <4>1. pos'[x] < pos'[t]
        BY <3>2, <3>6, <3>7, <3>10
      <4>2. Between(col[x], x, t)' = {}
        BY <3>2, <3>6, <3>7, <3>8, <3>9, <3>10 DEF Between, In
      <4> QED
        BY <3>7, <3>10, <4>1, <4>2 DEF NextTo
    <3>11. CASE ~after
      <4>1. pos'[t] < pos'[x]
        BY <3>2, <3>6, <3>7, <3>11
      <4>2. Between(col[x], t, x)' = {}
        BY <3>2, <3>6, <3>7, <3>8, <3>9, <3>11 DEF Between, In
      <4> QED
        BY <3>7, <3>11, <4>1, <4>2 DEF NextTo
    <3> QED
      BY <3>10, <3>11
  <2> QED
    BY <2>6, <2>7, <2>8, CalmNext DEF SlotInv
<1> QED
  BY <1>3, <1>4, <1>5

LEMMA CalmStep ==
    ASSUME Typed, AloneInv, raced \/ Calm, Next
    PROVE  (raced \/ Calm)'
<1> SUFFICES ASSUME ~raced' PROVE Calm'
  OBVIOUS
<1>1. PICK r \in Reqs : Request(r) \/ Step(r)
  BY DEF Next
<1>2. Calm
  <2>1. CASE Request(r)
    BY <2>1, Arrives DEF Arrive
  <2>2. CASE Step(r)
    BY <2>2 DEF Step, Insert, Update, Check, List, Write, Goto, Finish
  <2> QED
    BY <1>1, <2>1, <2>2
<1>3. \A s \in Reqs \ {r} : At(s, "idle") /\ At(s, "idle")'
  BY <1>1, <1>2, OthersIdle
<1>4. CASE Step(r)
  BY <1>2, <1>3, <1>4, InsertCalm, UpdateCalm, CheckCalm, ListCalm, WriteCalm DEF Step
<1>5. CASE Moves(r)
  <2>1. PICK t \in On :
          \/ \E x \in On, after \in BOOLEAN, c \in Columns : PutTask(r, t, c, x, after, Unset)
          \/ \E c \in Columns \cup {Nowhere}, p \in Given \cup {Unset} :
                PutTask(r, t, c, NoTask, FALSE, p)
    BY <1>5 DEF Moves
  <2>2. On \in SUBSET Tasks /\ Given \cup {Unset} \in SUBSET (Nat \cup {Unset}) /\ t \in Tasks
    BY GapAssumption DEF On
  <2>3. CASE \E x \in On, after \in BOOLEAN, c \in Columns : PutTask(r, t, c, x, after, Unset)
    <3>1. PICK x \in On, after \in BOOLEAN, c \in Columns : PutTask(r, t, c, x, after, Unset)
      BY <2>3
    <3>2. x \in Tasks \cup {NoTask} /\ c \in Columns \cup {Nowhere} /\ t \in Tasks
      BY <2>2
    <3>3. \A p \in Nat \cup {Unset} : PutTask(r, t, c, x, after, p) => Calm'
      BY <1>2, <1>3, <3>2, PutTaskCalm
    <3> QED
      BY <3>1, <3>3
  <2>4. CASE \E c \in Columns \cup {Nowhere}, p \in Given \cup {Unset} :
               PutTask(r, t, c, NoTask, FALSE, p)
    BY <1>2, <1>3, <2>2, <2>4, PutTaskCalm
  <2> QED
    BY <2>1, <2>3, <2>4
<1>6. CASE Request(r) /\ ~Moves(r)
  <2>1. CASE \E c \in Columns : \E S \in SUBSET In(c) : \E given \in [S -> Given] : Reorder(r, c, given)
    BY <1>2, <1>3, <2>1, ReorderCalm
  <2> QED
    BY <1>2, <1>3, <1>6, <2>1, CreateCalm, DeleteCalm DEF Request
<1> QED
  BY <1>1, <1>4, <1>5, <1>6

LEMMA CalmStutter == ASSUME raced \/ Calm, UNCHANGED vars PROVE (raced \/ Calm)'
<1> SUFFICES ASSUME Calm PROVE Calm'
  BY DEF vars
<1>1. UNCHANGED <<col, pos>> /\ UNCHANGED <<req, loose, alone>>
  BY DEF vars
<1>2. OneActive' /\ AllApart'
  BY <1>1, SamePlaces DEF Calm, OneActive, AllApart, Busy, At
<1>3. ASSUME NEW r \in Reqs PROVE SlotInv(r)'
  <2>1. SlotInv(r)
    BY DEF Calm
  <2>2. AimedAt(r)' /\ SealedAt(r)'
    BY <1>1, <2>1, SamePlaces DEF SlotInv, AimedAt, SealedAt, At
  <2>3. AsideAt(r)'
    <3>1. \A t, x, after : Wants(r, t, x, after)' = Wants(r, t, x, after)
      BY <1>1 DEF Wants
    <3> QED
      BY <1>1, <2>1, <3>1, SamePlaces DEF SlotInv, AsideAt, Busy
  <2> QED
    BY <2>2, <2>3 DEF SlotInv
<1> QED
  BY <1>2, <1>3 DEF Calm

LEMMA InitCalm == Init => AloneInv /\ Calm
<1> SUFFICES ASSUME Init PROVE AloneInv /\ Calm
  OBVIOUS
<1>1. \A r \in Reqs : At(r, "idle")
  BY DEF Init, At, Idle
<1>2. AllApart
  <2>1. \A c \in Columns : In(c) = {}
    BY GapAssumption DEF Init, In
  <2> QED
    BY <2>1 DEF AllApart, Apart
<1>3. OneActive /\ \A r \in Reqs : SlotInv(r)
  BY <1>1, IdleSlot DEF OneActive
<1> QED
  BY <1>2, <1>3 DEF Calm, AloneInv, Init

-----------------------------------------------------------------------------
(***************************************************************************)
(* The renumbering keeps a task beside another one.                        *)
(***************************************************************************)
LEMMA RenumberKeepsBeside ==
    ASSUME Typed, NEW c \in Columns, NEW t \in In(c), NEW u \in In(c), pos[t] < pos[u],
           Between(c, t, u) = {}, UNCHANGED col,
           \A v \in In(c) : pos'[v] = Renumber(In(c), pos)[v]
    PROVE  pos'[t] < pos'[u] /\ Between(c, t, u)' = {}
<1>1. In(c) \in SUBSET Tasks /\ pos \in [Tasks -> Nat] /\ In(c)' = In(c)
  BY InTasks DEF Typed, TypeOK, In
<1>2. \A v \in In(c) : pos[v] \in Nat /\ pos'[v] \in Nat
  BY <1>1, RenumberType
<1>3. Gap \in Nat /\ 2 <= Gap
  BY GapAssumption
<1>4. ASSUME NEW v \in In(c), NEW w \in In(c), pos[v] < pos[w] PROVE pos'[v] + Gap <= pos'[w]
  BY <1>1, <1>4, RenumberSpreads DEF Precedes
<1>5. pos'[t] < pos'[u]
  BY <1>2, <1>3, <1>4
<1>6. ASSUME NEW v \in In(c), v # t, v # u PROVE ~(pos'[t] <= pos'[v] /\ pos'[v] <= pos'[u])
  <2>1. pos[v] < pos[t] \/ pos[u] < pos[v]
    BY <1>2, <1>6 DEF Between
  <2>2. CASE pos[v] < pos[t]
    BY <1>2, <1>3, <1>4, <2>2
  <2>3. CASE pos[u] < pos[v]
    BY <1>2, <1>3, <1>4, <2>3
  <2> QED
    BY <2>1, <2>2, <2>3
<1> QED
  BY <1>1, <1>5, <1>6 DEF Between

LEMMA PlacedStep ==
    ASSUME Typed, AloneInv, raced \/ Calm, Next, NEW r \in Reqs, NEW t \in Tasks, NEW x \in Tasks,
           NEW after \in BOOLEAN, after \/ pos[x] > 0, Asked(r, t, x, after), At(r, "idle")'
    PROVE  NextTo(t, x, after)'
<1>1. Calm /\ ~At(r, "idle")
  BY DEF Asked
<1>2. PICK s \in Reqs : Request(s) \/ Step(s)
  BY DEF Next
<1>3. s = r
  BY <1>1, <1>2, OthersStay DEF At, Typed
<1>4. Step(r)
  BY <1>1, <1>2, <1>3, Arrives
<1>5. /\ req[r].t = t /\ req[r].x = x /\ req[r].after = after /\ req[r].c = col[x]
      /\ x # NoTask /\ x # t /\ col[t] # Nowhere /\ col[x] \in Columns
  BY DEF Asked
<1>6. ~Insert(r)
  BY <1>5 DEF Insert, Typed, Formed
<1>7. ~Update(r)
  <2>1. SUFFICES ASSUME Update(r) PROVE FALSE
    OBVIOUS
  <2>2. Goto(r, "check")
    BY <1>5, <2>1, GapAssumption DEF Update
  <2> QED
    BY <2>2, ReqIs, GotoIs DEF At, Typed, TypeOK, RequestType
<1>8. ~List(r)
  BY ReqIs DEF List, At, Typed, TypeOK, RequestType
<1>9. Check(r) \/ Write(r)
  BY <1>4, <1>6, <1>7, <1>8 DEF Step
<1>10. NextTo(t, x, after)
  <2>1. Busy(r) /\ Wants(r, t, x, after)
    BY <1>5, <1>9 DEF Busy, Wants, Asked, Check, Write, At
  <2> QED
    BY <1>1, <2>1 DEF Calm, SlotInv, AsideAt
<1>11. CASE Check(r)
  <2>1. UNCHANGED <<col, pos>>
    BY <1>11 DEF Check
  <2> QED
    BY <1>10, <2>1, SamePlaces
<1>12. CASE Write(r)
  <2>1. PICK c \in Columns : c = col[x] /\ req[r].c = c
    BY <1>5
  <2>2. UNCHANGED col /\ At(r, "write")
    BY <1>12 DEF Write
  <2>3. req[r].plan = PlanOf(r)
    BY <1>1, <2>2 DEF Calm, SlotInv, SealedAt, AloneInv, At
  <2>4. ASSUME NEW v \in In(c) PROVE pos'[v] = Renumber(In(c), pos)[v]
    <3>1. Renumber(In(c), pos) \in [In(c) -> Nat] /\ v \in Tasks
      BY InTasks, RenumberType DEF Typed, TypeOK
    <3>2. PlanOf(r)[v] = Renumber(In(c), pos)[v] /\ PlanOf(r)[v] \in Nat
      BY <2>1, <3>1 DEF PlanOf, Over
    <3>3. Unset \notin Nat
      BY DEF Unset
    <3>4. pos'[v] = IF req[r].plan[v] = Unset THEN pos[v] ELSE req[r].plan[v]
      BY <1>12, <3>1 DEF Write
    <3> QED
      BY <2>3, <3>2, <3>3, <3>4
  <2>5. t \in In(c) /\ x \in In(c) /\ col'[t] = c /\ col'[x] = c
    BY <1>10, <2>1, <2>2 DEF NextTo, In
  <2>6. CASE after
    BY <1>10, <2>1, <2>2, <2>4, <2>5, <2>6, RenumberKeepsBeside DEF NextTo
  <2>7. CASE ~after
    BY <1>10, <2>1, <2>2, <2>4, <2>5, <2>7, RenumberKeepsBeside DEF NextTo
  <2> QED
    BY <2>6, <2>7
<1> QED
  BY <1>9, <1>11, <1>12

(***************************************************************************)
(* PlacedBeside: while requests come one at a time, a PUT with a target    *)
(* leaves the task directly beside it, on the side asked for, through the  *)
(* integer midpoint and the renumbering that may follow.                   *)
(***************************************************************************)
THEOREM PlacedBesideHolds == Spec => PlacedBeside
<1> DEFINE Inv == Typed /\ AloneInv /\ (raced \/ Calm)
           Fact == \A r \in Reqs, t, x \in Tasks, after \in BOOLEAN :
                     after \/ pos[x] > 0 => Placed(r, t, x, after)
<1>1. Init => Inv
  BY InitTyped, InitCalm
<1>2. Inv /\ [Next]_vars => Inv'
  BY NextTyped, StutterTyped, AloneStep, AloneStutter, CalmStep, CalmStutter
<1>3. Inv /\ [Next]_vars => [Fact]_vars
  BY PlacedStep DEF Placed
<1>4. Spec => [][Fact]_vars
  BY <1>1, <1>2, <1>3, PTL DEF Spec
<1> QED
  BY <1>4 DEF PlacedBeside

-----------------------------------------------------------------------------
(***************************************************************************)
(* The lists of a board: the elements kept by a filter, one after another; *)
(* a list with an element more, less or elsewhere; and a column in the     *)
(* server's order, which shows every task of it once.                      *)
(***************************************************************************)

\* A list over a finite set of places: the n-th place of it exists.
LEMMA RankTaken ==
    ASSUME NEW S \in SUBSET Nat, IsFiniteSet(S), NEW n \in 1..Cardinality(S)
    PROVE  \E k \in S : Cardinality({j \in S : j <= k}) = n
<1> DEFINE c == Cardinality(S)
           upTo(k) == {j \in S : j <= k}
           f == [k \in S |-> Cardinality(upTo(k))]
<1>1. c \in Nat
  BY FS_CardinalityType
<1>2. ASSUME NEW k \in S PROVE IsFiniteSet(upTo(k)) /\ Cardinality(upTo(k)) \in 1..c
  <2>1. upTo(k) \in SUBSET S /\ k \in upTo(k)
    BY <1>2
  <2> HIDE DEF upTo
  <2>2. IsFiniteSet(upTo(k)) /\ Cardinality(upTo(k)) <= c
    BY <2>1, FS_Subset
  <2>3. Cardinality(upTo(k)) \in Nat /\ Cardinality(upTo(k)) # 0
    BY <2>1, <2>2, FS_CardinalityType, FS_EmptySet
  <2> QED
    BY <1>1, <2>2, <2>3
<1>3. ASSUME NEW k \in S, NEW l \in S, k < l PROVE Cardinality(upTo(k)) # Cardinality(upTo(l))
  <2>1. upTo(k) \in SUBSET upTo(l) /\ l \in upTo(l) /\ l \notin upTo(k)
    <3>1. k \in Nat /\ l \in Nat /\ \A j \in S : j \in Nat
      OBVIOUS
    <3>2. \A j \in S : j <= k => j <= l
      BY <1>3, <3>1
    <3>3. ~(l <= k) /\ l <= l
      BY <1>3, <3>1
    <3> QED
      BY <3>2, <3>3
  <2> HIDE DEF upTo
  <2> QED
    BY <1>2, <2>1, FS_Subset
<1>4. f \in [S -> 1..c]
  BY <1>2
<1>5. \A k, l \in S : f[k] = f[l] => k = l
  <2> TAKE k, l \in S
  <2>1. k < l \/ l < k \/ k = l
    OBVIOUS
  <2>2. f[k] = Cardinality(upTo(k)) /\ f[l] = Cardinality(upTo(l))
    OBVIOUS
  <2> HIDE DEF upTo, f
  <2> QED
    BY <1>3, <2>1, <2>2
<1>6. f \in Injection(S, 1..c)
  <2> HIDE DEF f
  <2> QED
    BY <1>4, <1>5 DEF Injection, IsInjective
<1>7. IsFiniteSet(1..c) /\ Cardinality(1..c) = c
  BY <1>1, FS_Interval
<1>8. f \in Surjection(S, 1..c)
  <2> HIDE DEF f
  <2> QED
    BY <1>6, <1>7, FS_Injection
<1>9. PICK k \in S : f[k] = n
  BY <1>8 DEF Surjection
<1> QED
  BY <1>9

\* The places of a list, counted from the top, lead back to the list.
LEMMA NthIs ==
    ASSUME NEW S \in SUBSET Nat, IsFiniteSet(S)
    PROVE  /\ \A n \in 1..Cardinality(S) : Nth(S, n) \in S
           /\ \A k \in S : \E n \in 1..Cardinality(S) : Nth(S, n) = k
<1> DEFINE c == Cardinality(S)
           rank(k) == Cardinality({j \in S : j <= k})
<1>1. ASSUME NEW n \in 1..c PROVE Nth(S, n) \in S /\ rank(Nth(S, n)) = n
  BY <1>1, RankTaken DEF Nth
<1>2. ASSUME NEW n \in 1..c, NEW m \in 1..c, Nth(S, n) = Nth(S, m) PROVE n = m
  BY <1>1, <1>2
<1> DEFINE f == [n \in 1..c |-> Nth(S, n)]
<1>3. c \in Nat
  BY FS_CardinalityType
<1>4. f \in Injection(1..c, S)
  <2>1. f \in [1..c -> S]
    BY <1>1
  <2>2. \A n, m \in 1..c : f[n] = f[m] => n = m
    BY <1>2
  <2> HIDE DEF f, c
  <2> QED
    BY <2>1, <2>2 DEF Injection, IsInjective
<1>5. Cardinality(1..c) = c
  BY <1>3, FS_Interval
<1>6. f \in Surjection(1..c, S)
  <2> HIDE DEF f
  <2>1. Cardinality(1..c) = Cardinality(S)
    BY <1>5
  <2> HIDE DEF c
  <2> QED
    BY <1>4, <2>1, FS_Injection
<1>7. \A k \in S : \E n \in 1..c : f[n] = k
  BY <1>6 DEF Surjection
<1> QED
  BY <1>1, <1>7

LEMMA FirstNumbers ==
    ASSUME NEW n \in Nat
    PROVE  IsFiniteSet(1..n) /\ Cardinality(1..n) = n
  BY FS_Interval

LEMMA RangeIs ==
    ASSUME NEW S, NEW s \in Seq(S)
    PROVE  /\ Range(s) = {s[i] : i \in 1..Len(s)} /\ Range(s) \subseteq S
           /\ DOMAIN s = 1..Len(s) /\ Len(s) \in Nat
  BY RangeOfSeq, RangeEquality, LenProperties

\* A list as long as the set it shows has no element twice.
LEMMA ShowsOnce ==
    ASSUME NEW S, NEW s \in Seq(S), Len(s) = Cardinality(Range(s)),
           NEW i \in 1..Len(s), NEW j \in 1..Len(s), s[i] = s[j]
    PROVE  i = j
<1> DEFINE D == 1..Len(s)
           R == Range(s)
<1>1. Len(s) \in Nat /\ s \in [D -> S] /\ R = {s[k] : k \in D}
  BY RangeIs, LenProperties
<1>2. IsFiniteSet(D) /\ Cardinality(D) = Cardinality(R)
  BY <1>1, FirstNumbers
<1>3. s \in Surjection(D, R)
  <2>1. s \in [D -> R]
    BY <1>1
  <2>2. \A r \in R : \E d \in D : s[d] = r
    BY <1>1
  <2> HIDE DEF D, R
  <2> QED
    BY <2>1, <2>2 DEF Surjection
<1>4. s \in Injection(D, R)
  <2> HIDE DEF D, R
  <2> QED
    BY <1>2, <1>3, FS_SurjSameCardinalityImpliesInj
<1> QED
  BY <1>4 DEF Injection, IsInjective

\* A task is taken out of a list.
LEMMA WithoutIs ==
    ASSUME NEW S, NEW s \in Seq(S), NEW t
    PROVE  /\ Without(s, t) \in Seq(S) /\ Range(Without(s, t)) = Range(s) \ {t}
           /\ Len(s) = Cardinality(Range(s)) => Len(Without(s, t)) = Cardinality(Range(s) \ {t})
<1> DEFINE K == Kept(s, t)
           c == Cardinality(K)
           w == Without(s, t)
<1>1. /\ Range(s) = {s[i] : i \in 1..Len(s)} /\ Range(s) \subseteq S
      /\ DOMAIN s = 1..Len(s) /\ Len(s) \in Nat /\ \A i \in 1..Len(s) : s[i] \in S
  BY RangeIs, ElementOfSeq
<1>2. K = {i \in 1..Len(s) : s[i] # t} /\ K \in SUBSET Nat
  BY <1>1 DEF Kept
<1>3. IsFiniteSet(1..Len(s)) /\ Cardinality(1..Len(s)) = Len(s)
  BY <1>1, FirstNumbers
<1>4. IsFiniteSet(K) /\ c \in Nat
  <2>1. K \subseteq 1..Len(s)
    BY <1>2
  <2> HIDE DEF K
  <2> QED
    BY <1>3, <2>1, FS_Subset, FS_CardinalityType
<1>5. /\ \A n \in 1..c : Nth(K, n) \in K
      /\ \A k \in K : \E n \in 1..c : Nth(K, n) = k
  <2> HIDE DEF K
  <2> QED
    BY <1>2, <1>4, NthIs
<1>6. w = [n \in 1..c |-> s[Nth(K, n)]]
  BY DEF Without
<1> HIDE DEF K, c, w
<1>7. w \in [1..c -> S] /\ \A n \in 1..c : w[n] = s[Nth(K, n)]
  BY <1>1, <1>2, <1>5, <1>6
<1>8. w \in Seq(S) /\ Len(w) = c
  <2>1. w \in UNION {[1..n -> S] : n \in Nat}
    BY <1>4, <1>7
  <2>2. w \in Seq(S)
    BY <2>1, SeqDef
  <2> QED
    BY <1>4, <1>7, <2>2, LenProperties
<1>9. Range(w) = {w[n] : n \in 1..c}
  BY <1>8, RangeIs
<1>10. Range(w) = Range(s) \ {t}
  <2>1. ASSUME NEW n \in 1..c PROVE w[n] \in Range(s) \ {t}
    <3>1. Nth(K, n) \in 1..Len(s) /\ s[Nth(K, n)] # t
      BY <1>2, <1>5
    <3> QED
      BY <1>1, <1>7, <3>1
  <2>2. ASSUME NEW u \in Range(s) \ {t} PROVE \E n \in 1..c : w[n] = u
    <3>1. PICK i \in 1..Len(s) : s[i] = u
      BY <1>1, <2>2
    <3>2. i \in K
      BY <1>2, <2>2, <3>1
    <3>3. PICK n \in 1..c : Nth(K, n) = i
      BY <1>5, <3>2
    <3> QED
      BY <1>7, <3>1, <3>3
  <2> QED
    BY <1>9, <2>1, <2>2
<1>11. ASSUME Len(s) = Cardinality(Range(s)) PROVE c = Cardinality(Range(s) \ {t})
  <2>1. IsFiniteSet(Range(s))
    <3>1. s \in Surjection(1..Len(s), Range(s))
      <4>1. s \in [1..Len(s) -> Range(s)] /\ \A r \in Range(s) : \E d \in 1..Len(s) : s[d] = r
        BY <1>1, LenProperties
      <4> QED
        BY <4>1 DEF Surjection
    <3> QED
      BY <1>3, <3>1, FS_Surjection
  <2>2. CASE t \in Range(s)
    <3>1. PICK i \in 1..Len(s) : s[i] = t
      BY <1>1, <2>2
    <3>2. \A j \in 1..Len(s) : s[j] = t => j = i
      BY <1>11, <3>1, ShowsOnce
    <3>3. K = 1..Len(s) \ {i}
      BY <1>2, <3>1, <3>2
    <3>4. c = Len(s) - 1
      BY <1>3, <3>1, <3>3, FS_RemoveElement DEF c
    <3>5. Cardinality(Range(s) \ {t}) = Cardinality(Range(s)) - 1
      BY <2>1, <2>2, FS_RemoveElement
    <3> QED
      BY <1>11, <3>4, <3>5
  <2>3. CASE t \notin Range(s)
    <3>1. K = 1..Len(s) /\ Range(s) \ {t} = Range(s)
      BY <1>1, <1>2, <2>3
    <3> QED
      BY <1>3, <1>11, <3>1 DEF c
  <2> QED
    BY <2>2, <2>3
<1> QED
  BY <1>8, <1>10, <1>11 DEF w

LEMMA AppendIs ==
    ASSUME NEW S, NEW s \in Seq(S), NEW t \in S
    PROVE  /\ Append(s, t) \in Seq(S) /\ Len(Append(s, t)) = Len(s) + 1
           /\ Range(Append(s, t)) = Range(s) \cup {t}
<1>1. <<t>> \in Seq(S) /\ Range(<<t>>) = {t}
  <2> DEFINE one == <<t>>
  <2>1. one \in Seq(S) /\ Len(one) = 1 /\ one[1] = t
    OBVIOUS
  <2> HIDE DEF one
  <2>2. Range(one) = {one[i] : i \in 1..Len(one)}
    BY <2>1, RangeIs
  <2>3. Range(one) = {t}
    BY <2>1, <2>2
  <2> QED
    BY <2>1, <2>3 DEF one
<1>2. Append(s, t) = s \o <<t>>
  BY AppendIsConcat
<1> QED
  <2>1. Range(s \o <<t>>) = Range(s) \cup {t}
    <3> DEFINE one == <<t>>
    <3>1. one \in Seq(S) /\ Range(one) = {t}
      BY <1>1
    <3> HIDE DEF one
    <3>2. Range(s \o one) = Range(s) \cup {t}
      BY <3>1, RangeConcatenation
    <3> QED
      BY <3>2 DEF one
  <2>2. Append(s, t) \in Seq(S) /\ Len(Append(s, t)) = Len(s) + 1
    BY AppendProperties
  <2> QED
    BY <1>2, <2>1, <2>2

LEMMA RemovedIs ==
    ASSUME NEW S, NEW s \in Seq(S), NEW i \in 1..Len(s)
    PROVE  RemoveAt(s, i) \in Seq(S) /\ Len(RemoveAt(s, i)) = Len(s) - 1
<1> DEFINE a == SubSeq(s, 1, i - 1)
           b == SubSeq(s, i + 1, Len(s))
<1>1. Len(s) \in Nat /\ \A k \in 1..Len(s) : s[k] \in S
  BY ElementOfSeq
<1>2. a \in Seq(S) /\ Len(a) = i - 1
  <2>1. i - 1 \in Int /\ \A k \in 1..(i - 1) : s[k] \in S
    BY <1>1
  <2>2. a \in Seq(S) /\ Len(a) = IF 1 <= i - 1 THEN i - 1 - 1 + 1 ELSE 0
    BY <2>1, SubSeqProperties
  <2> QED
    BY <2>2
<1>3. b \in Seq(S) /\ Len(b) = Len(s) - i
  <2>1. i + 1 \in Int /\ Len(s) \in Int /\ \A k \in (i + 1)..Len(s) : s[k] \in S
    BY <1>1
  <2>2. b \in Seq(S) /\ Len(b) = IF i + 1 <= Len(s) THEN Len(s) - (i + 1) + 1 ELSE 0
    BY <2>1, SubSeqProperties
  <2> QED
    BY <1>1, <2>2
<1>4. RemoveAt(s, i) = a \o b
  BY DEF RemoveAt
<1> HIDE DEF a, b
<1>5. a \o b \in Seq(S) /\ Len(a \o b) = Len(a) + Len(b)
  BY <1>2, <1>3, ConcatProperties
<1> QED
  BY <1>1, <1>2, <1>3, <1>4, <1>5

\* A task is taken out at one place of a list and put in at another.
LEMMA ReinsertedIs ==
    ASSUME NEW S, NEW s \in Seq(S), NEW i \in 1..Len(s), NEW j \in 1..Len(s)
    PROVE  LET n == InsertAt(RemoveAt(s, i), j, s[i])
           IN  n \in Seq(S) /\ Len(n) = Len(s) /\ Range(n) = Range(s)
<1> DEFINE a == SubSeq(s, 1, i - 1)
           b == SubSeq(s, i + 1, Len(s))
           r == RemoveAt(s, i)
           d == SubSeq(r, 1, j - 1)
           e == SubSeq(r, j, Len(r))
           one == <<s[i]>>
<1>1. Len(s) \in Nat /\ \A k \in 1..Len(s) : s[k] \in S
  BY ElementOfSeq
<1>2. a \in Seq(S) /\ Len(a) = i - 1 /\ \A k \in 1..(i - 1) : a[k] = s[k]
  <2>1. i - 1 \in Int /\ \A k \in 1..(i - 1) : s[k] \in S
    BY <1>1
  <2>2. /\ a \in Seq(S) /\ Len(a) = IF 1 <= i - 1 THEN i - 1 - 1 + 1 ELSE 0
        /\ \A k \in 1..(i - 1 - 1 + 1) : a[k] = s[1 + k - 1]
    BY <2>1, SubSeqProperties
  <2> QED
    BY <2>2
<1>3. b \in Seq(S) /\ Len(b) = Len(s) - i /\ \A k \in 1..(Len(s) - i) : b[k] = s[i + k]
  <2>1. i + 1 \in Int /\ Len(s) \in Int /\ \A k \in (i + 1)..Len(s) : s[k] \in S
    BY <1>1
  <2>2. /\ b \in Seq(S) /\ Len(b) = IF i + 1 <= Len(s) THEN Len(s) - (i + 1) + 1 ELSE 0
        /\ \A k \in 1..(Len(s) - (i + 1) + 1) : b[k] = s[(i + 1) + k - 1]
    BY <2>1, SubSeqProperties
  <2> QED
    BY <1>1, <2>2
<1>4. r = a \o b
  BY DEF RemoveAt
<1> HIDE DEF a, b, r
<1>5. r \in Seq(S) /\ Len(r) = Len(s) - 1 /\ Range(r) = Range(a) \cup Range(b)
  <2>1. a \o b \in Seq(S) /\ Len(a \o b) = Len(a) + Len(b)
    BY <1>2, <1>3, ConcatProperties
  <2>2. Range(a \o b) = Range(a) \cup Range(b)
    BY <1>2, <1>3, RangeConcatenation
  <2>3. Len(a) + Len(b) = Len(s) - 1
    BY <1>1, <1>2, <1>3
  <2> QED
    BY <1>4, <2>1, <2>2, <2>3
<1>6. \A k \in 1..Len(r) : r[k] \in S
  BY <1>5, ElementOfSeq
<1>7. d \in Seq(S) /\ Len(d) = j - 1
  <2>1. j - 1 \in Int /\ \A k \in 1..(j - 1) : r[k] \in S
    BY <1>1, <1>5, <1>6
  <2>2. d \in Seq(S) /\ Len(d) = IF 1 <= j - 1 THEN j - 1 - 1 + 1 ELSE 0
    BY <2>1, SubSeqProperties
  <2> QED
    BY <2>2
<1>8. e \in Seq(S) /\ Len(e) = Len(r) - j + 1
  <2>1. j \in Int /\ Len(r) \in Int /\ \A k \in j..Len(r) : r[k] \in S
    BY <1>1, <1>5, <1>6
  <2>2. e \in Seq(S) /\ Len(e) = IF j <= Len(r) THEN Len(r) - j + 1 ELSE 0
    BY <2>1, SubSeqProperties
  <2> QED
    BY <1>1, <1>5, <2>2
<1>9. Range(d \o e) = Range(r)
  <2>1. d \o e = r
    <3>1. 1 \in 1..(Len(r) + 1)
      BY <1>1, <1>5
    <3>2. CASE Len(r) = 0
      <4>1. r = <<>>
        BY <1>5, <3>2, EmptySeq
      <4>2. d = <<>> /\ e = <<>>
        BY <1>1, <1>5, <1>7, <1>8, <3>2, EmptySeq
      <4> QED
        BY <1>5, <4>1, <4>2, ConcatEmptySeq
    <3>3. CASE Len(r) # 0
      <4>1. 1 \in 1..(Len(r) + 1) /\ j - 1 \in (1 - 1)..Len(r) /\ Len(r) \in (j - 1)..Len(r)
        BY <1>1, <1>5, <3>3
      <4>2. SubSeq(r, 1, j - 1) \o SubSeq(r, (j - 1) + 1, Len(r)) = SubSeq(r, 1, Len(r))
        BY <1>5, <4>1, ConcatAdjacentSubSeq
      <4>3. (j - 1) + 1 = j
        OBVIOUS
      <4> QED
        BY <1>5, <4>2, <4>3, SubSeqFull
    <3> QED
      BY <3>2, <3>3
  <2> QED
    BY <2>1
<1> DEFINE n == InsertAt(r, j, s[i])
<1>10. n = d \o one \o e
  BY DEF InsertAt
<1>11. one \in Seq(S) /\ Len(one) = 1 /\ Range(one) = {s[i]}
  <2>1. one \in Seq(S) /\ Len(one) = 1 /\ one[1] = s[i]
    BY <1>1
  <2> HIDE DEF one
  <2> QED
    BY <2>1, RangeIs
<1> HIDE DEF d, e, one, n
<1>12. d \o one \in Seq(S) /\ Len(d \o one) = j /\ Range(d \o one) = Range(d) \cup {s[i]}
  <2>1. d \o one \in Seq(S) /\ Len(d \o one) = Len(d) + Len(one)
    BY <1>7, <1>11, ConcatProperties
  <2>2. Range(d \o one) = Range(d) \cup Range(one)
    BY <1>7, <1>11, RangeConcatenation
  <2> QED
    BY <1>7, <1>11, <2>1, <2>2
<1>13. /\ n \in Seq(S) /\ Len(n) = j + (Len(r) - j + 1)
       /\ Range(n) = Range(d) \cup {s[i]} \cup Range(e)
  <2> DEFINE f == d \o one
  <2>1. f \in Seq(S) /\ Len(f) = j /\ Range(f) = Range(d) \cup {s[i]} /\ n = f \o e
    BY <1>10, <1>12
  <2> HIDE DEF f
  <2>2. f \o e \in Seq(S) /\ Len(f \o e) = Len(f) + Len(e)
    BY <1>8, <2>1, ConcatProperties
  <2>3. Range(f \o e) = Range(f) \cup Range(e)
    BY <1>8, <2>1, RangeConcatenation
  <2> QED
    BY <1>8, <2>1, <2>2, <2>3
<1>14. Range(n) = Range(a) \cup Range(b) \cup {s[i]}
  BY <1>5, <1>7, <1>8, <1>9, <1>13, RangeConcatenation
<1>15. Range(a) \cup Range(b) \cup {s[i]} = Range(s)
  <2>1. /\ Range(a) = {a[k] : k \in 1..Len(a)} /\ Range(b) = {b[k] : k \in 1..Len(b)}
        /\ Range(s) = {s[k] : k \in 1..Len(s)}
    BY <1>2, <1>3, RangeIs
  <2>2. \A k \in 1..Len(a) : k \in 1..Len(s) /\ a[k] = s[k]
    BY <1>1, <1>2
  <2>3. \A k \in 1..Len(b) : i + k \in 1..Len(s) /\ b[k] = s[i + k]
    BY <1>1, <1>3
  <2>4. ASSUME NEW k \in 1..Len(s) PROVE s[k] \in Range(a) \cup Range(b) \cup {s[i]}
    <3>1. CASE k < i
      <4>1. k \in 1..Len(a) /\ a[k] = s[k]
        BY <1>1, <1>2, <3>1
      <4> QED
        BY <2>1, <4>1
    <3>2. CASE k > i
      <4>1. k - i \in 1..Len(b) /\ b[k - i] = s[i + (k - i)] /\ i + (k - i) = k
        BY <1>1, <1>3, <3>2
      <4> QED
        BY <2>1, <4>1
    <3> QED
      BY <1>1, <3>1, <3>2
  <2>5. \A u \in Range(a) : u \in Range(s)
    BY <2>1, <2>2
  <2>6. \A u \in Range(b) : u \in Range(s)
    BY <2>1, <2>3
  <2>7. \A u \in Range(s) : u \in Range(a) \cup Range(b) \cup {s[i]}
    BY <2>1, <2>4
  <2>8. s[i] \in Range(s)
    BY <2>1
  <2> QED
    BY <2>5, <2>6, <2>7, <2>8
<1> QED
  BY <1>1, <1>5, <1>13, <1>14, <1>15 DEF n, r

\* A column is shown as a list of its tasks, each of them once.
LEMMA ShownIs ==
    ASSUME TypeOK, NEW c
    PROVE  /\ Shown(c) \in Seq(Tasks) /\ Range(Shown(c)) = In(c)
           /\ Len(Shown(c)) = Cardinality(In(c)) /\ Len(Shown(c)) \in Nat
           /\ \A i \in 1..Len(Shown(c)) : /\ Shown(c)[i] \in In(c)
                                          /\ Cardinality(Before(pos, In(c), Shown(c)[i])) = i - 1
<1> DEFINE S == In(c)
           n == Cardinality(S)
           rank(t) == Cardinality(Before(pos, S, t))
           place(i) == CHOOSE t \in S : rank(t) = i - 1
           f == [t \in S |-> rank(t) + 1]
<1>1. S \in SUBSET Tasks /\ IsFiniteSet(S) /\ n \in Nat /\ pos \in [Tasks -> Nat]
  BY InTasks, TasksFinite DEF TypeOK
<1>2. Shown(c) = [i \in 1..n |-> place(i)]
  BY DEF Shown
<1>3. ASSUME NEW t \in S PROVE rank(t) + 1 \in 1..n
  <2> DEFINE B == Before(pos, S, t)
  <2>1. B \in SUBSET S /\ t \notin B
    BY <1>1, GapAssumption DEF Before, Tasks
  <2>2. IsFiniteSet(B) /\ Cardinality(B) \in Nat
    BY <1>1, <2>1, TasksFinite
  <2> HIDE DEF B, S
  <2>3. Cardinality(B \cup {t}) = Cardinality(B) + 1
    BY <2>1, <2>2, FS_AddElement
  <2>4. B \cup {t} \subseteq S
    BY <1>3, <2>1
  <2>5. Cardinality(B \cup {t}) <= n
    BY <1>1, <2>4, FS_Subset
  <2> QED
    BY <1>1, <2>2, <2>3, <2>5 DEF B
<1> HIDE DEF S
<1>4. ASSUME NEW t \in S, NEW u \in S, rank(t) = rank(u) PROVE t = u
  <2>1. rank(t) \in Nat /\ rank(u) \in Nat
    BY <1>1, TasksFinite DEF Before
  <2>2. ASSUME t # u PROVE FALSE
    <3>1. Precedes(pos, t, u) \/ Precedes(pos, u, t)
      BY <1>1, <2>2, OneFirst
    <3>2. rank(t) + 1 <= rank(u) \/ rank(u) + 1 <= rank(t)
      BY <1>1, <3>1, RankGrows
    <3> HIDE DEF rank
    <3> QED
      BY <1>4, <2>1, <3>2
  <2> QED
    BY <2>2
<1>5. f \in Injection(S, 1..n)
  <2>1. f \in [S -> 1..n]
    BY <1>3
  <2>2. \A t \in S : f[t] = rank(t) + 1 /\ rank(t) \in Nat
    BY <1>1, TasksFinite DEF Before
  <2> HIDE DEF f, rank
  <2>3. \A t, u \in S : f[t] = f[u] => rank(t) = rank(u)
    BY <2>2
  <2>4. \A t, u \in S : f[t] = f[u] => t = u
    BY <1>4, <2>3
  <2> HIDE DEF n
  <2> QED
    BY <2>1, <2>4 DEF Injection, IsInjective
<1>6. f \in Surjection(S, 1..n)
  <2>1. IsFiniteSet(1..n) /\ Cardinality(1..n) = Cardinality(S)
    BY <1>1, FirstNumbers
  <2> HIDE DEF f, n
  <2> QED
    BY <1>5, <2>1, FS_Injection
<1>7. ASSUME NEW i \in 1..n PROVE place(i) \in S /\ rank(place(i)) = i - 1
  <2>1. PICK t \in S : f[t] = i
    BY <1>6 DEF Surjection
  <2>2. rank(t) + 1 = i /\ rank(t) \in Nat
    BY <1>1, <2>1, TasksFinite DEF Before
  <2> HIDE DEF rank
  <2>3. rank(t) = i - 1
    BY <2>2
  <2> QED
    BY <2>3
<1>8. ASSUME NEW t \in S PROVE \E i \in 1..n : place(i) = t
  <2>1. rank(t) + 1 \in 1..n
    BY <1>3
  <2>2. rank(place(rank(t) + 1)) = rank(t)
    <3>1. rank(t) \in Nat
      BY <1>1, TasksFinite DEF Before
    <3> HIDE DEF rank, place
    <3>2. rank(place(rank(t) + 1)) = (rank(t) + 1) - 1
      BY <1>7, <2>1
    <3> QED
      BY <3>1, <3>2
  <2>3. place(rank(t) + 1) \in S
    BY <1>7, <2>1
  <2> HIDE DEF rank, place
  <2>4. place(rank(t) + 1) = t
    BY <1>4, <2>2, <2>3
  <2> QED
    BY <2>1, <2>4
<1> HIDE DEF n, place, rank, f
<1>9. Shown(c) \in [1..n -> Tasks] /\ \A i \in 1..n : Shown(c)[i] = place(i)
  BY <1>1, <1>2, <1>7
<1>10. Shown(c) \in Seq(Tasks) /\ Len(Shown(c)) = n
  <2>1. Shown(c) \in UNION {[1..m -> Tasks] : m \in Nat}
    BY <1>1, <1>9
  <2>2. Shown(c) \in Seq(Tasks)
    BY <2>1, SeqDef
  <2> QED
    BY <1>1, <1>9, <2>2, LenProperties
<1>11. Range(Shown(c)) = S
  <2>1. Range(Shown(c)) = {Shown(c)[i] : i \in 1..n}
    BY <1>10, RangeIs
  <2> QED
    BY <1>7, <1>8, <1>9, <2>1
<1>12. \A i \in 1..n : Shown(c)[i] \in S /\ Cardinality(Before(pos, S, Shown(c)[i])) = i - 1
  BY <1>7, <1>9 DEF rank
<1> QED
  BY <1>1, <1>10, <1>11, <1>12 DEF S, n

-----------------------------------------------------------------------------
(***************************************************************************)
(* The columns as lists, and what their abstract specification sees of a   *)
(* step: which tasks a list has, and which stand above which.              *)
(***************************************************************************)
AsList(c) ==
    /\ Board!Members(Shown(c)) = In(c)
    /\ \A t, u : Board!Above(Shown(c), t, u) <=>
                    t \in In(c) /\ u \in In(c) /\ Precedes(pos, t, u)

LEMMA AsListIs == ASSUME TypeOK, NEW c PROVE AsList(c)
<1> DEFINE s == Shown(c)
           rank(t) == Cardinality(Before(pos, In(c), t))
<1>1. /\ s \in Seq(Tasks) /\ Range(s) = In(c) /\ Len(s) \in Nat
      /\ \A i \in 1..Len(s) : s[i] \in In(c) /\ rank(s[i]) = i - 1
  BY ShownIs
<1>2. /\ In(c) \in SUBSET Tasks /\ pos \in [Tasks -> Nat]
      /\ \A t \in In(c) : rank(t) \in Nat
  <2>1. In(c) \in SUBSET Tasks
    BY InTasks
  <2>2. \A t \in In(c) : Before(pos, In(c), t) \in SUBSET Tasks
    BY <2>1 DEF Before
  <2> QED
    BY <2>1, <2>2, TasksFinite DEF TypeOK
<1>3. Range(s) = {s[i] : i \in 1..Len(s)}
  BY <1>1, RangeIs
<1>4. \A t \in In(c) : \E i \in 1..Len(s) : s[i] = t
  BY <1>1, <1>3
<1>5. ASSUME NEW t \in In(c), NEW u \in In(c), Precedes(pos, t, u) PROVE rank(t) + 1 <= rank(u)
  BY <1>2, <1>5, RankGrows
<1> HIDE DEF s, rank
<1>6. Board!Members(s) = In(c)
  BY <1>1, <1>3 DEF Board!Members
<1>7. ASSUME NEW t, NEW u, Board!Above(s, t, u)
      PROVE  t \in In(c) /\ u \in In(c) /\ Precedes(pos, t, u)
  <2>1. PICK i \in 1..Len(s), j \in 1..Len(s) : i < j /\ s[i] = t /\ s[j] = u
    BY <1>7 DEF Board!Above
  <2>2. t \in In(c) /\ u \in In(c) /\ rank(t) = i - 1 /\ rank(u) = j - 1
    BY <1>1, <2>1
  <2>3. t # u
    BY <1>1, <2>1, <2>2
  <2>4. ~Precedes(pos, u, t)
    BY <1>1, <1>5, <2>1, <2>2
  <2> QED
    BY <1>2, <2>2, <2>3, <2>4, OneFirst
<1>8. ASSUME NEW t \in In(c), NEW u \in In(c), Precedes(pos, t, u) PROVE Board!Above(s, t, u)
  <2>1. PICK i \in 1..Len(s), j \in 1..Len(s) : s[i] = t /\ s[j] = u
    BY <1>4
  <2>2. i - 1 + 1 <= j - 1
    BY <1>1, <1>5, <1>8, <2>1
  <2>3. i < j
    BY <1>1, <2>2
  <2> QED
    BY <2>1, <2>3 DEF Board!Above
<1>9. \A t, u : Board!Above(s, t, u) <=> t \in In(c) /\ u \in In(c) /\ Precedes(pos, t, u)
  BY <1>7, <1>8
<1> QED
  BY <1>6, <1>9, Zenon DEF AsList, s

LEMMA OnePlace == ASSUME TypeOK PROVE Board!OnePlaceEach
<1> DEFINE list == [c \in Columns |-> Shown(c)]
<1>1. ASSUME NEW c \in Columns, NEW d \in Columns,
             NEW i \in 1..Len(Shown(c)), NEW j \in 1..Len(Shown(d)), Shown(c)[i] = Shown(d)[j]
      PROVE  c = d /\ i = j
  <2>1. Shown(c)[i] \in In(c) /\ Shown(d)[j] \in In(d)
    BY ShownIs
  <2>2. c = d
    BY <1>1, <2>1 DEF In
  <2>3. Cardinality(Before(pos, In(c), Shown(c)[i])) = i - 1
    BY ShownIs
  <2>4. Cardinality(Before(pos, In(d), Shown(d)[j])) = j - 1
    BY ShownIs
  <2>5. i - 1 = j - 1 /\ i \in Int /\ j \in Int
    BY <1>1, <2>2, <2>3, <2>4, ShownIs
  <2> QED
    BY <2>2, <2>5
<1> QED
  BY <1>1 DEF Board!OnePlaceEach

AsLists == (\A c \in Columns : AsList(c)) /\ Board!OnePlaceEach

LEMMA ListsNow == TypeOK => AsLists
  BY AsListIs, OnePlace DEF AsLists

LEMMA ListsThen == TypeOK' => AsLists'
  BY ListsNow, PTL

\* One task changes its place, and the others keep theirs.
LEMMA Displaces ==
    ASSUME TypeOK, TypeOK', NEW t \in Tasks,
           \A u \in Tasks \ {t} : col'[u] = col[u],
           \A c \in Columns : \A u, v \in In(c) \ {t} :
              Precedes(pos', u, v) <=> Precedes(pos, u, v)
    PROVE  Board!Displace(t)
<1>1. AsLists /\ AsLists'
  BY ListsNow, ListsThen
<1>2. ASSUME NEW c \in Columns, NEW u \in Tasks \ {t} PROVE u \in In(c)' <=> u \in In(c)
  BY DEF In
<1>3. ASSUME NEW c \in Columns, NEW u \in Tasks \ {t}, NEW v \in Tasks \ {t}
      PROVE  /\ u \in Board!Members(Shown(c)') <=> u \in Board!Members(Shown(c))
             /\ Board!Above(Shown(c)', u, v) <=> Board!Above(Shown(c), u, v)
  <2>1. /\ Board!Members(Shown(c)) = In(c)
        /\ Board!Above(Shown(c), u, v) <=> u \in In(c) /\ v \in In(c) /\ Precedes(pos, u, v)
    BY <1>1 DEF AsLists, AsList
  <2>2. /\ Board!Members(Shown(c)') = In(c)'
        /\ Board!Above(Shown(c)', u, v) <=> u \in In(c)' /\ v \in In(c)' /\ Precedes(pos', u, v)
    BY <1>1 DEF AsLists, AsList
  <2>3. (u \in In(c)' <=> u \in In(c)) /\ (v \in In(c)' <=> v \in In(c))
    BY <1>2
  <2> QED
    BY <2>1, <2>2, <2>3
<1> QED
  BY <1>3 DEF Board!Displace

-----------------------------------------------------------------------------
(***************************************************************************)
(* The task that is being moved, step by step.                             *)
(***************************************************************************)
NamedInv == \A r \in Reqs : req[r].pc \in {"idle", "insert"} => req[r].t = NoTask

LEMMA NamedInit == Init => NamedInv
  BY DEF Init, NamedInv, Idle

LEMMA NamedNext == ASSUME Typed, NamedInv, Next PROVE NamedInv'
<1>1. PICK r \in Reqs : Request(r) \/ Step(r)
  BY DEF Next
<1>2. \A s \in Reqs \ {r} : req'[s] = req[s]
  BY <1>1, OthersStay DEF Typed
<1>3. req \in [Reqs -> RequestType]
  BY DEF Typed, TypeOK
<1>4. req'[r].pc \in {"idle", "insert"} => req'[r].t = NoTask
  <2>1. CASE Moves(r)
    <3>1. req'[r].pc = "update"
      BY <1>3, <2>1 DEF Moves, PutTask, Begin
    <3> QED
      BY <3>1
  <2>2. CASE \E c \in Columns : CreateTask(r, c)
    BY <1>3, <2>2 DEF CreateTask, Begin, Idle
  <2>3. CASE (\E t \in Tasks : DeleteTask(r, t))
             \/ \E c \in Columns : \E S \in SUBSET In(c) : \E given \in [S -> Given] : Reorder(r, c, given)
    <3>1. req' = req
      BY <2>3 DEF DeleteTask, Reorder
    <3> QED
      BY <3>1 DEF NamedInv
  <2>4. ASSUME Finish(r) PROVE req'[r].t = NoTask
    BY <1>3, <2>4 DEF Finish, Idle
  <2>5. CASE Insert(r) \/ Write(r)
    BY <2>4, <2>5 DEF Insert, Write
  <2>6. ASSUME NEW pc \in {"check", "list"}, Goto(r, pc) PROVE req'[r].pc = pc
    <3>1. req' = [req EXCEPT ![r] = [req[r] EXCEPT !.pc = pc]] /\ req[r] \in RequestType
      BY <1>3, <2>6, GotoIs DEF Typed
    <3> QED
      BY <1>3, <3>1 DEF RequestType
  <2>7. CASE Update(r) \/ Check(r)
    BY <2>4, <2>6, <2>7 DEF Update, Check
  <2>8. CASE List(r)
    <3>1. req'[r].pc = "write"
      BY <1>3, <2>8, ReqIs DEF List, Typed, RequestType
    <3> QED
      BY <3>1
  <2> QED
    BY <1>1, <2>1, <2>2, <2>3, <2>5, <2>7, <2>8 DEF Request, Step
<1> QED
  BY <1>2, <1>4 DEF NamedInv

LEMMA NamedStutter == ASSUME NamedInv, UNCHANGED vars PROVE NamedInv'
  BY DEF NamedInv, vars

\* Only the slot that moves names a task.
LEMMA NamedIs ==
    ASSUME NamedInv, NEW r \in Reqs, \A s \in Reqs \ {r} : At(s, "idle")
    PROVE  Named = {req[r].t} \ {NoTask}
  BY DEF Named, NamedInv, At

LEMMA NamedThen ==
    ASSUME NamedInv', NEW r \in Reqs, \A s \in Reqs \ {r} : At(s, "idle")'
    PROVE  Named' = {req'[r].t} \ {NoTask}
  BY DEF Named, NamedInv, At

LEMMA SameLists ==
    ASSUME NEW c, In(c)' = In(c), \A t \in In(c) : pos'[t] = pos[t]
    PROVE  Shown(c)' = Shown(c)
<1>1. \A t \in In(c) : Before(pos', In(c), t) = Before(pos, In(c), t)
  BY DEF Before
<1> DEFINE n == Cardinality(In(c))
           now(i) == CHOOSE t \in In(c) : Cardinality(Before(pos, In(c), t)) = i - 1
           then(i) == CHOOSE t \in In(c) : Cardinality(Before(pos', In(c), t)) = i - 1
<1>2. \A i : then(i) = now(i)
  BY <1>1
<1>3. Shown(c) = [i \in 1..n |-> now(i)] /\ Shown(c)' = [i \in 1..n |-> then(i)]
  BY DEF Shown
<1> HIDE DEF now, then, n
<1> QED
  BY <1>2, <1>3

\* Nothing to see.
LEMMA ListsRest ==
    ASSUME UNCHANGED <<col, pos>>, Named' = Named
    PROVE  UNCHANGED Board!vars
<1>1. \A c \in Columns : Shown(c)' = Shown(c)
  BY SameLists DEF In
<1> QED
  BY <1>1 DEF Board!vars


\* The step of one slot, nobody else in flight: what it does to the lists.
LEMMA ListsByRequest ==
    ASSUME Typed, Typed', NamedInv, NamedInv', NEW r \in Reqs, Request(r),
           \A s \in Reqs \ {r} : At(s, "idle") /\ At(s, "idle")'
    PROVE  Board!Next \/ UNCHANGED Board!vars
<1>1. req \in [Reqs -> RequestType] /\ NoTask \notin Tasks
  BY DEF Typed, TypeOK, NoTask, Tasks
<1>2. At(r, "idle")
  BY Arrives
<1>3. Named = {}
  <2>1. req[r].t = NoTask
    BY <1>2 DEF NamedInv, At
  <2> QED
    BY <2>1, NamedIs
<1>4. Named' = {req'[r].t} \ {NoTask}
  BY NamedThen
<1>5. Board!OnePlaceEach'
  BY ListsThen DEF Typed, AsLists
<1>6. CASE Moves(r)
  <2>1. PICK t \in Tasks : req'[r].t = t
    BY <1>1, <1>6 DEF Moves, PutTask, Begin, On
  <2>2. UNCHANGED <<col, pos>>
    BY <1>6 DEF Moves, PutTask
  <2>3. Named' = {t}
    BY <1>1, <1>4, <2>1
  <2>4. \A c \in Columns : Shown(c)' = Shown(c)
    BY <2>2, SameLists DEF In
  <2>5. Board!Pick(t)
    BY <1>3, <2>3, <2>4 DEF Board!Pick
  <2> QED
    BY <1>5, <2>5 DEF Board!Next
<1>7. CASE \E c \in Columns : CreateTask(r, c)
  <2>1. UNCHANGED <<col, pos>> /\ req'[r].t = NoTask
    BY <1>1, <1>7 DEF CreateTask, Begin, Idle
  <2> QED
    BY <1>3, <1>4, <2>1, ListsRest
<1>8. ASSUME NEW c \in Columns, NEW S \in SUBSET In(c), NEW given \in [S -> Given], Reorder(r, c, given)
      PROVE  Board!Next
  <2>1. /\ UNCHANGED <<col, req>>
        /\ \A t \in Tasks : t \notin In(c) => pos'[t] = pos[t]
    <3> DEFINE asked == Over([t \in DOMAIN given \cap In(c) |-> given[t]], pos)
               numbers == Renumber(In(c), asked)
    <3>1. \A t \in Tasks : t \notin In(c) => asked[t] = pos[t]
      BY DEF Over
    <3>2. DOMAIN numbers = In(c)
      BY DEF Renumber
    <3> HIDE DEF asked, numbers
    <3>3. UNCHANGED <<col, req>> /\ pos' = IF Crowded(In(c), asked) THEN Over(numbers, asked) ELSE asked
      BY <1>8 DEF Reorder, asked, numbers
    <3>4. \A t \in Tasks : t \notin In(c) => Over(numbers, asked)[t] = asked[t]
      BY <3>2 DEF Over
    <3> QED
      BY <3>1, <3>3, <3>4
  <2>2. \A d : In(d)' = In(d) /\ In(d) \in SUBSET Tasks
    BY <2>1 DEF In
  <2>3. ASSUME NEW d \in Columns \ {c} PROVE Shown(d)' = Shown(d)
    <3>1. \A t \in In(d) : t \in Tasks /\ t \notin In(c)
      BY DEF In
    <3> QED
      BY <2>1, <2>2, <3>1, SameLists
  <2>4. Board!Members(Shown(c)') = Board!Members(Shown(c))
    <3>1. Board!Members(Shown(c)) = In(c)
      BY ListsNow DEF Typed, AsLists, AsList
    <3>2. Board!Members(Shown(c)') = In(c)'
      BY ListsThen DEF Typed, AsLists, AsList
    <3> QED
      BY <2>2, <3>1, <3>2
  <2>5. Named' = Named
    BY <2>1 DEF Named
  <2>6. Board!Rearrange(c)
    BY <1>3, <2>3, <2>4, <2>5 DEF Board!Rearrange
  <2> QED
    BY <1>5, <2>6 DEF Board!Next
<1>9. ASSUME NEW t \in Tasks, DeleteTask(r, t) PROVE Board!Next
  <2>1. col' = [col EXCEPT ![t] = Nowhere] /\ UNCHANGED <<pos, req>>
    BY <1>9 DEF DeleteTask
  <2>2. Board!Displace(t)
    BY <2>1, Displaces DEF Typed, TypeOK
  <2>3. Named' = Named
    BY <2>1 DEF Named
  <2>4. Board!AddOrRemove(t)
    BY <1>3, <2>2, <2>3 DEF Board!AddOrRemove
  <2> QED
    BY <1>5, <2>4 DEF Board!Next
<1> QED
  BY <1>6, <1>7, <1>8, <1>9 DEF Request

LEMMA ListsByStep ==
    ASSUME Typed, Typed', NamedInv, NamedInv', AloneInv, Calm, NEW r \in Reqs, Step(r),
           \A s \in Reqs \ {r} : At(s, "idle") /\ At(s, "idle")'
    PROVE  Board!Next \/ UNCHANGED Board!vars
<1>1. req \in [Reqs -> RequestType] /\ NoTask \notin Tasks
  BY DEF Typed, TypeOK, NoTask, Tasks
<1>2. Named = {req[r].t} \ {NoTask} /\ Named' = {req'[r].t} \ {NoTask}
  BY NamedIs, NamedThen
<1>3. Board!OnePlaceEach'
  BY ListsThen DEF Typed, AsLists
<1>4. ASSUME Finish(r) PROVE Named' = {}
  <2>1. req'[r].t = NoTask
    BY <1>1, <1>4 DEF Finish, Idle
  <2> QED
    BY <1>2, <2>1
<1>5. ASSUME NEW pc, Goto(r, pc) PROVE Named' = Named
  <2>1. req' = [req EXCEPT ![r] = [req[r] EXCEPT !.pc = pc]] /\ req[r] \in RequestType
    BY <1>1, <1>5, GotoIs DEF Typed
  <2>2. req'[r].t = req[r].t
    BY <1>1, <2>1 DEF RequestType
  <2> QED
    BY <1>2, <2>2
<1>6. ASSUME NEW t \in Tasks, Named = {t}, Named' \in {{}, {t}}, Board!Displace(t) PROVE Board!Next
  <2>1. Board!Move(t)
    BY <1>6 DEF Board!Move
  <2> QED
    BY <1>3, <2>1 DEF Board!Next
<1>7. CASE Insert(r)
  <2>1. /\ made' \in Tasks /\ Finish(r)
        /\ \A u \in Tasks \ {made'} : col'[u] = col[u] /\ pos'[u] = pos[u]
    <3>1. made \in Nat /\ MaxTasks \in Nat /\ made < MaxTasks /\ made' = made + 1
      BY <1>7, GapAssumption DEF Insert, Typed, TypeOK
    <3>2. made' \in Tasks
      BY <3>1 DEF Tasks
    <3> QED
      BY <1>7, <3>2 DEF Insert, Typed, TypeOK
  <2>2. PICK t \in Tasks : t = made'
    BY <2>1
  <2>3. \A u \in Tasks \ {t} : col'[u] = col[u] /\ pos'[u] = pos[u]
    BY <2>1, <2>2
  <2>4. \A c \in Columns : \A u, v \in In(c) \ {t} :
           Precedes(pos', u, v) <=> Precedes(pos, u, v)
    BY <2>3, InTasks DEF Precedes
  <2>5. Board!Displace(t)
    BY <2>3, <2>4, Displaces DEF Typed
  <2>6. Named = {}
    <3>1. req[r].t = NoTask
      BY <1>7 DEF Insert, At, NamedInv
    <3> QED
      BY <1>2, <3>1
  <2>7. Named' = Named
    BY <1>4, <2>1, <2>6
  <2>8. Board!AddOrRemove(t)
    BY <2>5, <2>6, <2>7 DEF Board!AddOrRemove
  <2> QED
    BY <1>3, <2>8 DEF Board!Next
<1>8. CASE Update(r)
  <2>1. PICK t \in Tasks : t = req[r].t
    BY <1>8 DEF Update, Typed, Formed
  <2>2. Named = {t}
    BY <1>1, <1>2, <2>1
  <2>3. \A u \in Tasks \ {t} : col'[u] = col[u] /\ pos'[u] = pos[u]
    BY <1>8, <2>1 DEF Update, Typed, TypeOK
  <2>4. \A c \in Columns : \A u, v \in In(c) \ {t} :
           Precedes(pos', u, v) <=> Precedes(pos, u, v)
    BY <2>3, InTasks DEF Precedes
  <2>5. Board!Displace(t)
    BY <2>3, <2>4, Displaces DEF Typed
  <2>6. Named' \in {{}, {t}}
    BY <1>4, <1>5, <1>8, <2>2 DEF Update
  <2> QED
    BY <1>6, <2>2, <2>5, <2>6
<1>9. CASE Check(r)
  <2>1. UNCHANGED <<col, pos>>
    BY <1>9 DEF Check
  <2>2. PICK t \in Tasks : t = req[r].t
    BY <1>9 DEF Check, At, Typed, Formed
  <2>3. Named = {t}
    BY <1>1, <1>2, <2>2
  <2>4. Board!Displace(t)
    BY <2>1, Displaces DEF Typed
  <2>5. Named' \in {{}, {t}}
    BY <1>4, <1>5, <1>9, <2>3 DEF Check
  <2> QED
    BY <1>6, <2>3, <2>4, <2>5
<1>10. CASE List(r)
  <2>1. UNCHANGED <<col, pos>>
    BY <1>10 DEF List
  <2>2. req'[r].t = req[r].t
    BY <1>1, <1>10, ReqIs DEF List, Typed, RequestType
  <2> QED
    BY <1>2, <2>1, <2>2, ListsRest
<1>11. CASE Write(r)
  <2>1. PICK t \in Tasks, c \in Columns : t = req[r].t /\ c = req[r].c
    BY <1>11 DEF Write, At, Typed, Formed
  <2>2. Named = {t}
    BY <1>1, <1>2, <2>1
  <2>3. UNCHANGED col /\ Finish(r) /\ At(r, "write")
    BY <1>11 DEF Write
  <2>4. req[r].plan = PlanOf(r)
    BY <2>3 DEF Calm, SlotInv, SealedAt, AloneInv, At
  <2>5. Renumber(In(c), pos) \in [In(c) -> Nat] /\ In(c) \in SUBSET Tasks /\ pos \in [Tasks -> Nat]
    BY InTasks, RenumberType DEF Typed, TypeOK
  <2>6. \A u \in Tasks : pos'[u] = IF req[r].plan[u] = Unset THEN pos[u] ELSE req[r].plan[u]
    BY <1>11 DEF Write
  <2>7. \A u \in Tasks : PlanOf(r)[u] = IF u \in In(c) THEN Renumber(In(c), pos)[u] ELSE Unset
    BY <2>1, <2>5 DEF PlanOf, Over, NoPlan
  <2>8. ASSUME NEW u \in Tasks
        PROVE  pos'[u] = IF u \in In(c) THEN Renumber(In(c), pos)[u] ELSE pos[u]
    BY <2>4, <2>5, <2>6, <2>7 DEF Unset
  <2>9. \A u, v \in In(c) : Precedes(pos, u, v) => pos'[u] + Gap <= pos'[v]
    BY <2>5, <2>8, RenumberSpreads
  <2>10. ASSUME NEW u \in In(c), NEW v \in In(c) PROVE Precedes(pos', u, v) <=> Precedes(pos, u, v)
    <3>1. pos'[u] \in Nat /\ pos'[v] \in Nat /\ Gap \in Nat /\ 2 <= Gap /\ u \in Int
      BY <2>5, <2>8, GapAssumption DEF Tasks
    <3>2. CASE u = v
      BY <3>1, <3>2, <2>5 DEF Precedes
    <3>3. CASE Precedes(pos, u, v)
      BY <2>9, <3>1, <3>3 DEF Precedes
    <3>4. CASE Precedes(pos, v, u) /\ ~Precedes(pos, u, v)
      <4>1. pos'[v] + Gap <= pos'[u]
        BY <2>9, <3>4
      <4> QED
        BY <3>1, <3>4, <4>1 DEF Precedes
    <3> QED
      BY <2>5, <3>2, <3>3, <3>4, OneFirst
  <2>11. ASSUME NEW d \in Columns, NEW u \in In(d) \ {t}, NEW v \in In(d) \ {t}
         PROVE  Precedes(pos', u, v) <=> Precedes(pos, u, v)
    <3>1. CASE d = c
      BY <2>10, <3>1
    <3>2. CASE d # c
      <4>1. u \in Tasks \ In(c) /\ v \in Tasks \ In(c)
        BY <3>2 DEF In
      <4>2. pos'[u] = pos[u] /\ pos'[v] = pos[v]
        BY <2>8, <4>1
      <4> QED
        BY <4>2 DEF Precedes
    <3> QED
      BY <3>1, <3>2
  <2>12. Board!Displace(t)
    BY <2>3, <2>11, Displaces DEF Typed
  <2> QED
    BY <1>4, <1>6, <2>2, <2>3, <2>12
<1> QED
  BY <1>7, <1>8, <1>9, <1>10, <1>11 DEF Step

LEMMA ListsStep ==
    ASSUME Typed, AloneInv, raced \/ Calm, NamedInv, Next, ~raced'
    PROVE  Board!Next \/ UNCHANGED Board!vars
<1>1. Typed' /\ NamedInv'
  BY NextTyped, NamedNext
<1>2. PICK r \in Reqs : Request(r) \/ Step(r)
  BY DEF Next
<1>3. Calm
  <2>1. CASE Request(r)
    BY <2>1, Arrives DEF Arrive
  <2>2. CASE Step(r)
    BY <2>2 DEF Step, Insert, Update, Check, List, Write, Goto, Finish
  <2> QED
    BY <1>2, <2>1, <2>2
<1>4. \A s \in Reqs \ {r} : At(s, "idle") /\ At(s, "idle")'
  BY <1>2, <1>3, OthersIdle
<1> QED
  BY <1>1, <1>2, <1>3, <1>4, ListsByRequest, ListsByStep

LEMMA ListsInit == Init => Board!Init
<1> SUFFICES ASSUME Init PROVE Board!Init
  OBVIOUS
<1>1. TypeOK
  BY InitTyped DEF Typed
<1>2. ASSUME NEW c \in Columns PROVE Shown(c) = <<>>
  <2>1. In(c) = {}
    BY <1>2, GapAssumption DEF Init, In
  <2>2. Shown(c) \in Seq(Tasks) /\ Len(Shown(c)) = 0
    BY <1>1, <2>1, ShownIs, FS_EmptySet
  <2> QED
    BY <2>2, EmptySeq
<1>3. Named = {}
  BY NamedInit DEF Named, NamedInv, Init, Idle
<1> QED
  BY <1>2, <1>3 DEF Board!Init

(***************************************************************************)
(* The board implements the lists: positions, midpoints and renumberings   *)
(* move the task a request names and no other, while requests come one at  *)
(* a time.                                                                 *)
(***************************************************************************)
THEOREM ListsHold == Spec => ImplementsTaskLists
<1> DEFINE Inv == Typed /\ AloneInv /\ (raced \/ Calm) /\ NamedInv
           Fact == ~raced' => Board!Next
<1>1. Init => Inv
  BY InitTyped, InitCalm, NamedInit
<1>2. Inv /\ [Next]_vars => Inv'
  BY NextTyped, StutterTyped, AloneStep, AloneStutter, CalmStep, CalmStutter, NamedNext, NamedStutter
<1>3. Inv /\ [Next]_vars => [Fact]_<<Board!vars, raced>>
  <2> SUFFICES ASSUME Inv, [Next]_vars, ~raced'
               PROVE  Board!Next \/ (UNCHANGED Board!vars /\ UNCHANGED raced)
    OBVIOUS
  <2>1. CASE Next
    <3>1. raced' = raced
      <4>1. raced \in BOOLEAN /\ raced' \in BOOLEAN
        BY <2>1, NextTyped DEF Typed, TypeOK
      <4>2. raced => raced'
        BY <2>1 DEF Next, Request, Moves, PutTask, CreateTask, Begin, Reorder, DeleteTask, Arrive,
                   Step, Insert, Update, Check, List, Write, Goto, Finish
      <4> QED
        BY <4>1, <4>2
    <3> QED
      BY <2>1, <3>1, ListsStep
  <2>2. CASE UNCHANGED vars
    <3>1. UNCHANGED <<col, pos>> /\ Named' = Named /\ UNCHANGED raced
      BY <2>2 DEF vars, Named
    <3> QED
      BY <3>1, ListsRest
  <2> QED
    BY <2>1, <2>2
<1>4. Spec => [][Fact]_<<Board!vars, raced>>
  BY <1>1, <1>2, <1>3, PTL DEF Spec
<1>5. Spec => Board!Init
  BY ListsInit DEF Spec
<1> QED
  BY <1>4, <1>5 DEF ImplementsTaskLists

-----------------------------------------------------------------------------
(***************************************************************************)
(* The board in a browser.  Types, with what a request that is on its way  *)
(* asks for, and what the slot it has reached is doing.                    *)
(***************************************************************************)
CallType ==
    [pc : Stages, kind : {"load", "drop", "save", "delete"}, t : Tasks \cup {NoTask},
     c : Columns \cup {Nowhere}, x : Tasks \cup {NoTask}, lists : Seq(Seq(Tasks)), fresh : BOOLEAN]

AtServer(k) == call[k].pc \in Reqs

Sent(q) ==
    /\ q.kind # "load"
    /\ q.kind # "save" => q.t \in Tasks
    /\ q.kind # "delete" => q.c \in Columns

Serves(q) ==
    /\ q.kind \in {"drop", "save"} /\ q.pc \in Reqs /\ ~At(q.pc, "idle")
    /\ q.t = NoTask => q.kind = "save" /\ At(q.pc, "insert")
    /\ q.t # NoTask => /\ req[q.pc].t = q.t /\ req[q.pc].c = q.c /\ q.c \in Columns
                       /\ ~At(q.pc, "insert")

CallsTyped ==
    /\ call \in [Calls -> CallType]
    /\ \A k \in Calls : Len(call[k].lists) <= Len(ColumnOrder)

Carried ==
    /\ \A k \in Calls : (Is(k, "sent") => Sent(call[k])) /\ (AtServer(k) => Serves(call[k]))
    /\ \A k, l \in Calls : AtServer(k) /\ call[k].pc = call[l].pc => k = l

ScreenTyped ==
    /\ screen \in {"loading", "board", "error"} /\ shown \in [Columns -> Seq(Tasks)]
    /\ sure \in Nothing..Everything /\ others \in 0..MaxOthers /\ faults \in 0..MaxFaults

BoardTyped == Typed /\ ScreenTyped /\ CallsTyped /\ Carried

LEMMA BoardTypedIs == ASSUME BoardTyped PROVE BoardTypeOK
<1>1. \A c \in Columns : Range(shown[c]) \subseteq Tasks
  <2>1. \A c \in Columns : shown[c] \in Seq(Tasks)
    BY DEF BoardTyped, ScreenTyped
  <2> QED
    BY <2>1, RangeIs
<1>2. \A k \in Calls : call[k].pc \in Stages /\ call[k].kind \in {"load", "drop", "save", "delete"}
  BY DEF BoardTyped, CallsTyped, CallType
<1> QED
  BY <1>1, <1>2 DEF BoardTyped, Typed, ScreenTyped, CallsTyped, Carried, AtServer, BoardTypeOK

LEMMA StagesApart ==
    /\ \A r \in Reqs : r \notin Waits
    /\ "idle" \notin Reqs /\ "sent" \notin Reqs /\ "load" \notin Reqs
    /\ "ok" \notin Reqs /\ "failed" \notin Reqs
  BY ColumnAssumption DEF Waits

LEMMA QuietTyped ==
    /\ Quiet \in CallType /\ Len(Quiet.lists) <= Len(ColumnOrder) /\ Quiet.pc = "idle"
    /\ Loading \in CallType /\ Len(Loading.lists) <= Len(ColumnOrder) /\ Loading.pc = "load"
<1>1. <<>> \in Seq(Seq(Tasks)) /\ Len(<<>>) = 0 /\ Len(ColumnOrder) \in Nat
  BY EmptySeq, ColumnAssumption, LenProperties
<1>2. "idle" \in Stages /\ "load" \in Stages
  BY DEF Stages, Waits
<1>3. Quiet \in CallType
  BY <1>1, <1>2 DEF Quiet, CallType
<1>4. Loading \in CallType
  BY <1>1, <1>2 DEF Quiet, Loading, CallType
<1>5. Quiet.lists = <<>> /\ Loading.lists = <<>> /\ Quiet.pc = "idle" /\ Loading.pc = "load"
  BY DEF Quiet, Loading
<1> QED
  BY <1>1, <1>3, <1>4, <1>5

LEMMA BoardInitTyped == ASSUME BoardInit PROVE BoardTyped
<1>1. Typed
  <2>1. made \in 0..MaxTasks /\ MaxTasks \in Nat
    BY GapAssumption DEF BoardInit, Created
  <2>2. col \in [Tasks -> Columns \cup {Nowhere}]
    <3>1. PICK c \in [1..made -> Columns] : col = [t \in Tasks |-> IF t <= made THEN c[t] ELSE Nowhere]
      BY DEF BoardInit, Created
    <3>2. \A t \in Tasks : t <= made => t \in 1..made
      BY <2>1 DEF Tasks
    <3> QED
      BY <3>1, <3>2
  <2>3. pos \in [Tasks -> Nat]
    <3> DEFINE p(t) == Cardinality({u \in In(col[t]) : u <= t})
    <3>1. \A t \in Tasks : p(t) \in Nat
      BY TasksFinite, InTasks
    <3>2. pos = [t \in Tasks |-> IF t <= made THEN Gap * p(t) ELSE 0]
      BY DEF BoardInit, Created
    <3> HIDE DEF p
    <3>3. \A g, n \in Nat : g * n \in Nat
      OBVIOUS
    <3>4. \A t \in Tasks : Gap * p(t) \in Nat
      BY <3>1, <3>3, GapAssumption
    <3> QED
      BY <3>2, <3>4
  <2>4. req = [r \in Reqs |-> Idle] /\ left = MaxRequests /\ loose = {} /\ alone = {} /\ raced = FALSE
    BY DEF BoardInit, Created
  <2>5. TypeOK
    <3>1. req \in [Reqs -> RequestType]
      BY <2>4, IdleTyped
    <3>2. left \in 0..MaxRequests
      BY <2>4, GapAssumption
    <3>3. loose \subseteq Columns /\ alone \subseteq Reqs /\ raced \in BOOLEAN
      BY <2>4
    <3> QED
      BY <2>1, <2>2, <2>3, <3>1, <3>2, <3>3 DEF TypeOK
  <2>6. Formed
    BY <2>4 DEF Formed, At, Idle
  <2> QED
    BY <2>5, <2>6 DEF Typed
<1>2. ScreenTyped
  <2>1. screen = "loading" /\ sure = Everything /\ others = MaxOthers /\ faults = MaxFaults
    BY DEF BoardInit
  <2>2. shown \in [Columns -> Seq(Tasks)]
    BY EmptySeq DEF BoardInit
  <2>3. MaxOthers \in Nat /\ MaxFaults \in Nat
    BY ColumnAssumption
  <2>4. sure \in Nothing..Everything
    BY <2>1 DEF Nothing, Everything
  <2> QED
    BY <2>1, <2>2, <2>3, <2>4 DEF ScreenTyped
<1>3. PICK k0 \in Calls : call = [l \in Calls |-> IF l = k0 THEN Loading ELSE Quiet]
  BY DEF BoardInit
<1>4. CallsTyped
  BY <1>3, QuietTyped DEF CallsTyped
<1>5. Carried
  <2>1. \A k \in Calls : call[k].pc \in {"idle", "load"}
    BY <1>3, QuietTyped
  <2> QED
    BY <2>1, StagesApart DEF Carried, Is, AtServer
<1> QED
  BY <1>1, <1>2, <1>4, <1>5 DEF BoardTyped

-----------------------------------------------------------------------------
\* What is being loaded is not fresh any more: nothing else about it changes.
LEMMA StaleTyped ==
    ASSUME NEW s \in [Calls -> CallType]
    PROVE  /\ Stale(s) \in [Calls -> CallType]
           /\ \A k \in Calls : /\ Stale(s)[k] = [s[k] EXCEPT !.fresh = FALSE]
                               /\ Stale(s)[k].pc = s[k].pc /\ Stale(s)[k].kind = s[k].kind
                               /\ Stale(s)[k].t = s[k].t /\ Stale(s)[k].c = s[k].c
                               /\ Stale(s)[k].lists = s[k].lists /\ Stale(s)[k].fresh = FALSE
<1>1. \A k \in Calls : Stale(s)[k] = [s[k] EXCEPT !.fresh = FALSE]
  BY DEF Stale
<1>2. \A k \in Calls : s[k] \in CallType
  OBVIOUS
<1>3. \A q \in CallType : /\ [q EXCEPT !.fresh = FALSE] \in CallType
                          /\ [q EXCEPT !.fresh = FALSE].pc = q.pc
                          /\ [q EXCEPT !.fresh = FALSE].kind = q.kind
                          /\ [q EXCEPT !.fresh = FALSE].t = q.t /\ [q EXCEPT !.fresh = FALSE].c = q.c
                          /\ [q EXCEPT !.fresh = FALSE].lists = q.lists
                          /\ [q EXCEPT !.fresh = FALSE].fresh = FALSE
  BY DEF CallType
<1>4. Stale(s) \in [Calls -> CallType]
  BY <1>2, <1>3 DEF Stale
<1>5. ASSUME NEW k \in Calls
      PROVE  /\ Stale(s)[k] = [s[k] EXCEPT !.fresh = FALSE]
             /\ Stale(s)[k].pc = s[k].pc /\ Stale(s)[k].kind = s[k].kind
             /\ Stale(s)[k].t = s[k].t /\ Stale(s)[k].c = s[k].c
             /\ Stale(s)[k].lists = s[k].lists /\ Stale(s)[k].fresh = FALSE
  <2> DEFINE q == s[k]
  <2>1. q \in CallType /\ Stale(s)[k] = [q EXCEPT !.fresh = FALSE]
    BY <1>1, <1>2
  <2> HIDE DEF q
  <2> QED
    BY <1>3, <2>1 DEF q
<1> QED
  BY <1>4, <1>5

\* A handler of the board takes a step, and the server's slots stay as they are.
LEMMA CallTyped ==
    ASSUME BoardTyped, Typed', UNCHANGED req, NEW k \in Calls, NEW q \in CallType,
           call' = [call EXCEPT ![k] = q] \/ call' = Stale([call EXCEPT ![k] = q]),
           Len(q.lists) <= Len(ColumnOrder),
           q.pc \in Waits, q.pc = "sent" => Sent(q), ScreenTyped'
    PROVE  BoardTyped'
<1> DEFINE s == [call EXCEPT ![k] = q]
<1>2. s \in [Calls -> CallType] /\ \A l \in Calls : s[l] = IF l = k THEN q ELSE call[l]
  BY DEF BoardTyped, CallsTyped
<1>3. call' = s \/ call' = Stale(s)
  OBVIOUS
<1> HIDE DEF s
<1>4. /\ call' \in [Calls -> CallType]
      /\ \A l \in Calls : /\ call'[l].pc = s[l].pc /\ call'[l].kind = s[l].kind /\ call'[l].t = s[l].t
                          /\ call'[l].c = s[l].c /\ call'[l].lists = s[l].lists
  <2>1. CASE call' = s
    BY <1>2, <2>1
  <2>2. CASE call' = Stale(s)
    BY <1>2, <2>2, StaleTyped
  <2> QED
    BY <1>3, <2>1, <2>2
<1>5. CallsTyped'
  BY <1>2, <1>4 DEF BoardTyped, CallsTyped
<1>6. q.pc \notin Reqs
  BY StagesApart
<1>8. Carried'
  <2>1. ASSUME NEW l \in Calls
        PROVE  (Is(l, "sent") => Sent(call[l]))' /\ (AtServer(l) => Serves(call[l]))'
    <3>1. CASE l = k
      <4>1. call'[l].pc = q.pc /\ call'[l].kind = q.kind /\ call'[l].t = q.t /\ call'[l].c = q.c
        BY <1>2, <1>4, <3>1
      <4> QED
        BY <1>6, <4>1 DEF Is, AtServer, Sent
    <3>2. CASE l # k
      <4>1. /\ call'[l].pc = call[l].pc /\ call'[l].kind = call[l].kind
            /\ call'[l].t = call[l].t /\ call'[l].c = call[l].c
        BY <1>2, <1>4, <3>2
      <4>2. (Is(l, "sent") => Sent(call[l])) /\ (AtServer(l) => Serves(call[l]))
        BY DEF BoardTyped, Carried
      <4>3. Sent(call[l]) => Sent(call'[l])
        BY <4>1 DEF Sent
      <4>4. Serves(call[l]) => Serves(call[l])'
        BY <4>1 DEF Serves, At
      <4> QED
        BY <4>1, <4>2, <4>3, <4>4 DEF Is, AtServer, Sent
    <3> QED
      BY <3>1, <3>2
  <2>2. ASSUME NEW l \in Calls, NEW m \in Calls, AtServer(l)', call'[l].pc = call'[m].pc PROVE l = m
    <3>1. l # k /\ m # k
      BY <1>2, <1>4, <1>6, <2>2 DEF AtServer
    <3>2. call'[l].pc = call[l].pc /\ call'[m].pc = call[m].pc
      BY <1>2, <1>4, <3>1
    <3> QED
      BY <2>2, <3>2 DEF BoardTyped, Carried, AtServer
  <2> QED
    BY <2>1, <2>2 DEF Carried
<1> QED
  BY <1>5, <1>8 DEF BoardTyped

LEMMA RequestSent ==
    ASSUME NEW kind \in {"drop", "save", "delete"}, NEW t \in Tasks \cup {NoTask},
           NEW c \in Columns \cup {Nowhere}, NEW x \in Tasks \cup {NoTask},
           kind # "save" => t \in Tasks, kind # "delete" => c \in Columns
    PROVE  /\ Asks(kind, t, c, x) \in CallType /\ Sent(Asks(kind, t, c, x))
           /\ Len(Asks(kind, t, c, x).lists) <= Len(ColumnOrder)
           /\ Asks(kind, t, c, x).pc = "sent" /\ Asks(kind, t, c, x).kind = kind
           /\ Asks(kind, t, c, x).t = t /\ Asks(kind, t, c, x).c = c /\ Asks(kind, t, c, x).x = x
           /\ Asks(kind, t, c, x).fresh = FALSE
<1> DEFINE q == Asks(kind, t, c, x)
<1>1. Quiet \in CallType /\ Len(Quiet.lists) <= Len(ColumnOrder) /\ Quiet.fresh = FALSE
  <2>1. Quiet.fresh = FALSE
    BY DEF Quiet
  <2> QED
    BY <2>1, QuietTyped
<1>2. "sent" \in Stages
  BY DEF Stages, Waits
<1> HIDE DEF Quiet
<1>3. /\ q \in CallType /\ q.lists = Quiet.lists
      /\ q.pc = "sent" /\ q.kind = kind /\ q.t = t /\ q.c = c /\ q.x = x /\ q.fresh = FALSE
  BY <1>1, <1>2 DEF CallType, Asks
<1> HIDE DEF q
<1>4. Sent(q)
  BY <1>3 DEF Sent
<1> QED
  BY <1>1, <1>3, <1>4 DEF q

LEMMA LevelsAre ==
    ASSUME ScreenTyped, NEW level \in {ColumnsOnly, Everything}
    PROVE  /\ Min({sure, level}) \in Nothing..Everything
           /\ Min({sure, level}) = IF sure <= level THEN sure ELSE level
           /\ sure \in Nothing..Everything
<1>1. sure \in 0..2 /\ level \in 1..2
  BY DEF ScreenTyped, Nothing, ColumnsOnly, Everything
<1>2. {sure, level} \in SUBSET Nat /\ {sure, level} # {}
  BY <1>1
<1>3. Min({sure, level}) \in {sure, level} /\ \A n \in {sure, level} : Min({sure, level}) <= n
  BY <1>2, MinIs
<1>4. Min({sure, level}) = IF sure <= level THEN sure ELSE level
  BY <1>1, <1>3
<1> QED
  BY <1>1, <1>4 DEF Nothing, Everything

LEMMA SendTyped ==
    ASSUME BoardTyped, NEW k \in Calls, NEW kind \in {"drop", "save", "delete"},
           NEW t \in Tasks \cup {NoTask}, NEW c \in Columns \cup {Nowhere}, NEW x \in Tasks \cup {NoTask},
           kind # "save" => t \in Tasks, kind # "delete" => c \in Columns,
           NEW level \in {ColumnsOnly, Everything},
           Send(k, Asks(kind, t, c, x), level),
           shown' \in [Columns -> Seq(Tasks)]
    PROVE  BoardTyped'
<1> DEFINE q == Asks(kind, t, c, x)
<1>1. q \in CallType /\ Sent(q) /\ Len(q.lists) <= Len(ColumnOrder) /\ q.pc = "sent"
  <2>1. kind \in {"drop", "save", "delete"} /\ t \in Tasks \cup {NoTask} /\ c \in Columns \cup {Nowhere}
    OBVIOUS
  <2>2. x \in Tasks \cup {NoTask} /\ (kind # "save" => t \in Tasks) /\ (kind # "delete" => c \in Columns)
    OBVIOUS
  <2>3. Asks(kind, t, c, x) \in CallType
    BY <2>1, <2>2, RequestSent
  <2>4. Sent(Asks(kind, t, c, x))
    BY <2>1, <2>2, RequestSent
  <2>5. Len(Asks(kind, t, c, x).lists) <= Len(ColumnOrder)
    BY <2>1, <2>2, RequestSent
  <2>6. Asks(kind, t, c, x).pc = "sent"
    BY DEF Asks, Quiet
  <2> QED
    BY <2>3, <2>4, <2>5, <2>6
<1>2. Send(k, q, level)
  OBVIOUS
<1> HIDE DEF q
<1>3. call' = Stale([call EXCEPT ![k] = q]) /\ UNCHANGED vars
  BY <1>2 DEF Send
<1>6. Typed' /\ UNCHANGED req
  BY <1>3, StutterTyped DEF BoardTyped, vars
<1>4. ScreenTyped'
  <2>1. sure' \in Nothing..Everything
    <3>1. Nothing \in Nothing..Everything
      BY DEF Nothing, Everything
    <3> QED
      BY <1>2, <3>1, LevelsAre DEF Send, BoardTyped
  <2>2. UNCHANGED <<screen, others, faults>>
    BY <1>2 DEF Send, budget
  <2> QED
    BY <2>1, <2>2 DEF BoardTyped, ScreenTyped
<1>5. "sent" \in Waits
  BY DEF Waits
<1> QED
  BY <1>1, <1>3, <1>4, <1>5, <1>6, CallTyped

\* The column and the place that show a task.
LEMMA ColumnOfIs ==
    ASSUME ScreenTyped, NEW t \in OnScreen
    PROVE  /\ ColumnOf(t) \in Columns /\ t \in Range(shown[ColumnOf(t)]) /\ t \in Tasks
<1> DEFINE I == {i \in DOMAIN ColumnOrder : t \in Range(shown[ColumnOrder[i]])}
<1>1. /\ DOMAIN ColumnOrder = 1..Len(ColumnOrder) /\ Len(ColumnOrder) \in Nat
      /\ Columns = {ColumnOrder[i] : i \in 1..Len(ColumnOrder)}
  <2>1. ColumnOrder \in Seq(Columns) /\ Range(ColumnOrder) = Columns
    BY ColumnAssumption
  <2>2. DOMAIN ColumnOrder = 1..Len(ColumnOrder) /\ Len(ColumnOrder) \in Nat
    BY <2>1, LenProperties
  <2>3. Range(ColumnOrder) = {ColumnOrder[i] : i \in 1..Len(ColumnOrder)}
    BY <2>1, RangeEquality
  <2> QED
    BY <2>1, <2>2, <2>3
<1>2. PICK d \in Columns : t \in Range(shown[d])
  BY DEF OnScreen
<1>3. PICK i \in 1..Len(ColumnOrder) : ColumnOrder[i] = d
  BY <1>1
<1>4. i \in I /\ I \in SUBSET Nat
  BY <1>1, <1>2, <1>3
<1>5. Min(I) \in I
  <2> HIDE DEF I
  <2> QED
    BY <1>4, MinIs
<1>6. ColumnOf(t) = ColumnOrder[Min(I)]
  BY DEF ColumnOf
<1>7. ColumnOf(t) \in Columns /\ t \in Range(shown[ColumnOf(t)])
  BY <1>1, <1>5, <1>6
<1>8. shown[ColumnOf(t)] \in Seq(Tasks)
  BY <1>7 DEF ScreenTyped
<1> QED
  BY <1>7, <1>8, RangeIs

LEMMA PlaceOfIs ==
    ASSUME ScreenTyped, NEW c \in Columns, NEW t \in Range(shown[c])
    PROVE  PlaceOf(t, c) \in 1..Len(shown[c]) /\ shown[c][PlaceOf(t, c)] = t
<1>1. shown[c] \in Seq(Tasks)
  BY DEF ScreenTyped
<1>2. DOMAIN shown[c] = 1..Len(shown[c]) /\ \E i \in 1..Len(shown[c]) : shown[c][i] = t
  BY <1>1, RangeIs
<1> QED
  BY <1>2 DEF PlaceOf

\* A drop beside a task changes the order of one column.
LEMMA DroppedBeside ==
    ASSUME ScreenTyped, NEW k, NEW t \in OnScreen, NEW x \in OnScreen, DropBeside(k, t, x)
    PROVE  LET c == ColumnOf(t)
           IN  \E new \in Seq(Tasks) : /\ shown' = [shown EXCEPT ![c] = new]
                                       /\ Range(new) = Range(shown[c]) /\ Len(new) = Len(shown[c])
<1> DEFINE c == ColumnOf(t)
           s == shown[c]
           i == PlaceOf(t, c)
           j == PlaceOf(x, c)
           to == j + IF j < i THEN 0 ELSE 1
           rest == RemoveAt(s, i)
           at == Min({to, Len(rest) + 1})
<1>1. c \in Columns /\ t \in Range(s) /\ x \in Range(s)
  BY ColumnOfIs DEF DropBeside
<1>2. s \in Seq(Tasks) /\ i \in 1..Len(s) /\ j \in 1..Len(s) /\ s[i] = t /\ Len(s) \in Nat
  BY <1>1, PlaceOfIs, LenProperties DEF ScreenTyped
<1>3. shown' = [shown EXCEPT ![c] = InsertAt(rest, at, t)]
  BY DEF DropBeside
<1> HIDE DEF c, s, i, j
<1>4. Len(rest) = Len(s) - 1
  BY <1>2, RemovedIs
<1>5. at \in 1..Len(s)
  <2>1. {to, Len(rest) + 1} \in SUBSET Nat /\ {to, Len(rest) + 1} # {}
    BY <1>2, <1>4
  <2>2. at \in {to, Len(rest) + 1} /\ \A n \in {to, Len(rest) + 1} : at <= n
    BY <2>1, MinIs
  <2> QED
    BY <1>2, <1>4, <2>2
<1> HIDE DEF at
<1>6. LET n == InsertAt(RemoveAt(s, i), at, s[i])
      IN  n \in Seq(Tasks) /\ Len(n) = Len(s) /\ Range(n) = Range(s)
  BY <1>2, <1>5, ReinsertedIs
<1> QED
  BY <1>2, <1>3, <1>6 DEF c, s

-----------------------------------------------------------------------------
(***************************************************************************)
(* What the user does: every gesture sends one request (Did), and only a   *)
(* drop changes the screen.                                                *)
(***************************************************************************)

\* The level that is left after a drop, and after a dialog.
Level(kind) == IF kind = "drop" THEN ColumnsOnly ELSE Everything

SameTasks(old, new) ==
    \A d \in Columns : Range(new[d]) = Range(old[d]) /\ Len(new[d]) = Len(old[d])

\* What a drop does to the lists on the screen.
Dropped(t, c) ==
    \/ ColumnOf(t) = c /\ SameTasks(shown, shown')
    \/ ColumnOf(t) # c /\ shown' = [shown EXCEPT ![ColumnOf(t)] = Without(@, t), ![c] = Append(@, t)]

Did(k, kind, t, c, x) ==
    /\ kind \in {"drop", "save", "delete"} /\ t \in Tasks \cup {NoTask}
    /\ c \in Columns \cup {Nowhere} /\ x \in Tasks \cup {NoTask}
    /\ (kind # "save" => t \in Tasks) /\ (kind # "delete" => c \in Columns)
    /\ Send(k, Asks(kind, t, c, x), Level(kind))
    /\ shown' \in [Columns -> Seq(Tasks)]
    /\ IF kind = "drop" THEN t \in OnScreen /\ Dropped(t, c) ELSE UNCHANGED shown

LEMMA BesideDid ==
    ASSUME BoardTyped, NEW k \in Calls, NEW t \in OnScreen, NEW x \in OnScreen, DropBeside(k, t, x)
    PROVE  Did(k, "drop", t, ColumnOf(t), x)
<1>1. ScreenTyped
  BY DEF BoardTyped
<1>2. ColumnOf(t) \in Columns /\ t \in Tasks /\ x \in Tasks
  BY <1>1, ColumnOfIs
<1>3. PICK new \in Seq(Tasks) : /\ shown' = [shown EXCEPT ![ColumnOf(t)] = new]
                                /\ Range(new) = Range(shown[ColumnOf(t)])
                                /\ Len(new) = Len(shown[ColumnOf(t)])
  BY <1>1, DroppedBeside
<1>4. shown \in [Columns -> Seq(Tasks)]
  BY <1>1 DEF ScreenTyped
<1>5. shown' \in [Columns -> Seq(Tasks)] /\ SameTasks(shown, shown')
  BY <1>2, <1>3, <1>4 DEF SameTasks
<1>6. Send(k, Asks("drop", t, ColumnOf(t), x), Level("drop"))
  BY DEF DropBeside, Asks, Level
<1> QED
  BY <1>2, <1>5, <1>6 DEF Did, Dropped

LEMMA AcrossDid ==
    ASSUME BoardTyped, NEW k \in Calls, NEW t \in OnScreen, NEW c \in Columns, DropAcross(k, t, c)
    PROVE  Did(k, "drop", t, c, NoTask)
<1>1. ScreenTyped
  BY DEF BoardTyped
<1>2. ColumnOf(t) \in Columns /\ t \in Tasks
  BY <1>1, ColumnOfIs
<1>3. shown \in [Columns -> Seq(Tasks)]
  BY <1>1 DEF ScreenTyped
<1>4. Without(shown[ColumnOf(t)], t) \in Seq(Tasks)
  BY <1>2, <1>3, WithoutIs
<1>5. Append(shown[c], t) \in Seq(Tasks)
  BY <1>2, <1>3, AppendIs
<1>6. shown' = IF ColumnOf(t) = c THEN shown
               ELSE [shown EXCEPT ![ColumnOf(t)] = Without(@, t), ![c] = Append(@, t)]
  BY DEF DropAcross
<1>7. Dropped(t, c)
  BY <1>6 DEF Dropped, SameTasks
<1>8. shown' \in [Columns -> Seq(Tasks)]
  <2>1. CASE ColumnOf(t) = c
    BY <1>3, <1>6, <2>1
  <2>2. CASE ColumnOf(t) # c
    <3> DEFINE d == ColumnOf(t)
               wo == Without(shown[d], t)
               ap == Append(shown[c], t)
    <3>1. shown' = [shown EXCEPT ![d] = wo, ![c] = ap]
      BY <1>6, <2>2
    <3> HIDE DEF wo, ap
    <3> QED
      BY <1>3, <1>4, <1>5, <3>1 DEF wo, ap
  <2> QED
    BY <2>1, <2>2
<1>9. Send(k, Asks("drop", t, c, NoTask), Level("drop"))
  BY DEF DropAcross, Level
<1> QED
  BY <1>2, <1>7, <1>8, <1>9 DEF Did

LEMMA SaveDid ==
    ASSUME BoardTyped, NEW k \in Calls, NEW t \in Tasks \cup {NoTask}, NEW c \in Columns, Save(k, t, c)
    PROVE  Did(k, "save", t, c, NoTask)
<1>2. Send(k, Asks("save", t, c, NoTask), Level("save")) /\ UNCHANGED shown
  BY DEF Save, Level
<1>3. shown' \in [Columns -> Seq(Tasks)]
  BY <1>2 DEF BoardTyped, ScreenTyped
<1> QED
  BY <1>2, <1>3 DEF Did

LEMMA DeleteDid ==
    ASSUME BoardTyped, NEW k \in Calls, NEW t \in Tasks, Delete(k, t)
    PROVE  Did(k, "delete", t, Nowhere, NoTask)
<1>2. Send(k, Asks("delete", t, Nowhere, NoTask), Level("delete")) /\ UNCHANGED shown
  BY DEF Delete, Level
<1>3. shown' \in [Columns -> Seq(Tasks)]
  BY <1>2 DEF BoardTyped, ScreenTyped
<1> QED
  BY <1>2, <1>3 DEF Did

LEMMA UserDid ==
    ASSUME BoardTyped, NEW k \in Calls, User(k)
    PROVE  \E kind, t, c, x : Did(k, kind, t, c, x)
<1>1. \A t \in OnScreen : t \in Tasks
  BY ColumnOfIs DEF BoardTyped
<1>2. ASSUME NEW t \in OnScreen, NEW x \in OnScreen, DropBeside(k, t, x) PROVE \E kind, u, c, y : Did(k, kind, u, c, y)
  BY <1>2, BesideDid
<1>3. ASSUME NEW t \in OnScreen, NEW c \in Columns, DropAcross(k, t, c) PROVE \E kind, u, d, y : Did(k, kind, u, d, y)
  BY <1>3, AcrossDid
<1>4. ASSUME NEW t \in Tasks \cup {NoTask}, NEW c \in Columns, Save(k, t, c)
      PROVE  \E kind, u, d, y : Did(k, kind, u, d, y)
  BY <1>4, SaveDid
<1>5. ASSUME NEW t \in Tasks, Delete(k, t) PROVE \E kind, u, d, y : Did(k, kind, u, d, y)
  BY <1>5, DeleteDid
<1> QED
  BY <1>1, <1>2, <1>3, <1>4, <1>5 DEF User

LEMMA UserTyped == ASSUME BoardTyped, NEW k \in Calls, User(k) PROVE BoardTyped'
<1>1. PICK kind, t, c, x : Did(k, kind, t, c, x)
  BY UserDid
<1>2. Level(kind) \in {ColumnsOnly, Everything}
  BY DEF Level
<1>3. /\ kind \in {"drop", "save", "delete"} /\ t \in Tasks \cup {NoTask}
      /\ c \in Columns \cup {Nowhere} /\ x \in Tasks \cup {NoTask}
      /\ (kind # "save" => t \in Tasks) /\ (kind # "delete" => c \in Columns)
      /\ Send(k, Asks(kind, t, c, x), Level(kind))
      /\ shown' \in [Columns -> Seq(Tasks)]
  BY <1>1 DEF Did
<1> QED
  BY <1>2, <1>3, SendTyped

-----------------------------------------------------------------------------
(***************************************************************************)
(* A handler moves on: it reaches a slot of the server, or leaves it.      *)
(***************************************************************************)

LEMMA CallIs ==
    ASSUME BoardTyped, NEW k \in Calls
    PROVE  /\ call[k] \in CallType /\ call[k].pc \in Stages /\ Len(call[k].lists) <= Len(ColumnOrder)
           /\ (Is(k, "sent") => Sent(call[k])) /\ (AtServer(k) => Serves(call[k]))
  BY DEF BoardTyped, CallsTyped, Carried, CallType

\* A handler moves on and keeps what it carries.
LEMMA MovedIs ==
    ASSUME BoardTyped, NEW k \in Calls, NEW p \in Stages
    PROVE  /\ [call EXCEPT ![k].pc = p] = [call EXCEPT ![k] = [call[k] EXCEPT !.pc = p]]
           /\ [call[k] EXCEPT !.pc = p] \in CallType
           /\ [call[k] EXCEPT !.pc = p].pc = p /\ [call[k] EXCEPT !.pc = p].kind = call[k].kind
           /\ [call[k] EXCEPT !.pc = p].t = call[k].t /\ [call[k] EXCEPT !.pc = p].c = call[k].c
           /\ [call[k] EXCEPT !.pc = p].lists = call[k].lists
           /\ [call[k] EXCEPT !.pc = p].fresh = call[k].fresh
<1>1. call[k] \in CallType
  BY CallIs
<1>2. call \in [Calls -> CallType]
  BY DEF BoardTyped, CallsTyped
<1> QED
  BY <1>1, <1>2 DEF CallType

\* It leaves the server, or does not get there, and the slots stay as they are.
LEMMA LeftTyped ==
    ASSUME BoardTyped, Typed', UNCHANGED req, NEW k \in Calls, NEW p \in {"ok", "failed"},
           call' = [call EXCEPT ![k].pc = p], ScreenTyped'
    PROVE  BoardTyped'
<1> DEFINE q == [call[k] EXCEPT !.pc = p]
<1>1. p \in Stages /\ p \in Waits /\ p # "sent"
  BY DEF Stages, Waits
<1>2. call' = [call EXCEPT ![k] = q] /\ q \in CallType /\ q.pc = p /\ q.lists = call[k].lists
  BY <1>1, MovedIs
<1>3. Len(q.lists) <= Len(ColumnOrder)
  BY <1>2, CallIs
<1> HIDE DEF q
<1> QED
  BY <1>1, <1>2, <1>3, CallTyped

\* It reaches an idle slot.
LEMMA ReachedTyped ==
    ASSUME BoardTyped, Typed', NEW k \in Calls, NEW r \in Reqs, NEW o, At(r, "idle"), Is(k, "sent"),
           call[k].kind \in {"drop", "save"}, call' = [call EXCEPT ![k].pc = r],
           req' = [req EXCEPT ![r] = o], ScreenTyped',
           call[k].t = NoTask => call[k].kind = "save" /\ o.pc = "insert",
           call[k].t # NoTask => /\ o.pc = "update" /\ o.t = call[k].t /\ o.c = call[k].c
                                 /\ call[k].c \in Columns
    PROVE  BoardTyped'
<1>1. r \in Stages
  BY DEF Stages
<1>2. PICK q \in CallType :
         /\ call' = [call EXCEPT ![k] = q] /\ q.pc = r /\ q.kind = call[k].kind
         /\ q.t = call[k].t /\ q.c = call[k].c /\ q.lists = call[k].lists
  BY <1>1, MovedIs
<1>3. call \in [Calls -> CallType] /\ \A l \in Calls : call'[l] = IF l = k THEN q ELSE call[l]
  BY <1>2 DEF BoardTyped, CallsTyped
<1>4. CallsTyped'
  BY <1>2, <1>3, CallIs DEF BoardTyped, CallsTyped
<1>5. req'[r] = o /\ \A s \in Reqs : s # r => req'[s] = req[s]
  BY DEF BoardTyped, Typed, TypeOK
<1>6. \A l \in Calls : l # k /\ AtServer(l) => call[l].pc # r
  BY CallIs DEF AtServer, Serves
<1>7. Carried'
  <2>1. ASSUME NEW l \in Calls PROVE (Is(l, "sent") => Sent(call[l]))' /\ (AtServer(l) => Serves(call[l]))'
    <3>1. CASE l = k
      <4>1. call'[l] = q /\ q.pc # "sent"
        BY <1>2, <1>3, <3>1, StagesApart
      <4>2. Serves(q)'
        BY <1>2, <1>5, StagesApart DEF Serves, At
      <4> QED
        BY <4>1, <4>2 DEF Is, AtServer, Serves
    <3>2. CASE l # k
      <4>1. call'[l] = call[l]
        BY <1>3, <3>2
      <4>2. ASSUME AtServer(l) PROVE Serves(call[l])'
        <5>1. req'[call[l].pc] = req[call[l].pc]
          BY <1>5, <1>6, <3>2, <4>2 DEF AtServer
        <5> QED
          BY <4>1, <4>2, <5>1, CallIs DEF Serves, At
      <4> QED
        BY <4>1, <4>2, CallIs DEF Is, AtServer, Sent
    <3> QED
      BY <3>1, <3>2
  <2>2. ASSUME NEW l \in Calls, NEW m \in Calls, AtServer(l)', call'[l].pc = call'[m].pc PROVE l = m
    <3>1. CASE l # k /\ m # k
      BY <1>3, <2>2, <3>1 DEF BoardTyped, Carried, AtServer
    <3>2. CASE l = k /\ m # k
      <4>1. call[m].pc = r
        BY <1>2, <1>3, <2>2, <3>2
      <4> QED
        BY <1>6, <3>2, <4>1 DEF AtServer
    <3>3. CASE l # k /\ m = k
      <4>1. call[l].pc = r
        BY <1>2, <1>3, <2>2, <3>3
      <4> QED
        BY <1>6, <3>3, <4>1 DEF AtServer
    <3> QED
      BY <3>1, <3>2, <3>3
  <2> QED
    BY <2>1, <2>2 DEF Carried
<1> QED
  BY <1>4, <1>7 DEF BoardTyped

LEMMA ScreenStays ==
    ASSUME ScreenTyped, UNCHANGED <<board, sure, budget>>
    PROVE  ScreenTyped'
<1>1. UNCHANGED board /\ UNCHANGED sure /\ UNCHANGED budget
  OBVIOUS
<1> QED
  BY <1>1 DEF ScreenTyped, board, budget

LEMMA ReachTyped == ASSUME BoardTyped, NEW k \in Calls, Reach(k) PROVE BoardTyped'
<1> DEFINE q == call[k]
<1>1. Is(k, "sent") /\ q \in CallType /\ Sent(q) /\ UNCHANGED <<board, sure, budget>>
  BY CallIs DEF Reach
<1>2. ScreenTyped' /\ Typed
  BY <1>1, ScreenStays DEF BoardTyped
<1>3. /\ q.kind \in {"drop", "save", "delete"} /\ q.t \in Tasks \cup {NoTask} /\ q.x \in Tasks \cup {NoTask}
      /\ (q.kind # "save" => q.t \in Tasks) /\ (q.kind # "delete" => q.c \in Columns)
  BY <1>1 DEF Sent, CallType
<1>4. NoTask \notin Tasks
  BY GapAssumption DEF Tasks, NoTask
<1>5. PICK r \in Reqs :
              \/ /\ q.kind # "delete"
                 /\ IF q.t = NoTask THEN CreateTask(r, q.c) ELSE PutTask(r, q.t, q.c, q.x, TRUE, Unset)
                 /\ call' = [call EXCEPT ![k].pc = r]
              \/ /\ q.kind = "delete" /\ DeleteTask(r, q.t)
                 /\ call' = [call EXCEPT ![k].pc = "ok"]
              \/ /\ q.kind = "delete" /\ col[q.t] = Nowhere /\ UNCHANGED vars
                 /\ call' = [call EXCEPT ![k].pc = "failed"]
  BY DEF Reach
<1>6. CASE q.kind # "delete" /\ q.t = NoTask
  <2>1. CreateTask(r, q.c) /\ q.c \in Columns /\ q.kind = "save" /\ call' = [call EXCEPT ![k].pc = r]
    BY <1>3, <1>4, <1>5, <1>6
  <2> DEFINE o == [Idle EXCEPT !.pc = "insert", !.c = q.c, !.p = AtEnd(q.c)]
  <2>2. o.pc = "insert" /\ At(r, "idle") /\ req' = [req EXCEPT ![r] = o]
    BY <2>1 DEF CreateTask, Begin, Arrive, Idle
  <2>3. Typed'
    BY <1>2, <2>1, CreateTyped
  <2> HIDE DEF o
  <2> QED
    BY <1>1, <1>2, <1>6, <2>1, <2>2, <2>3, ReachedTyped
<1>7. CASE q.kind # "delete" /\ q.t # NoTask
  <2>1. /\ PutTask(r, q.t, q.c, q.x, TRUE, Unset) /\ q.c \in Columns /\ q.t \in Tasks
        /\ q.kind \in {"drop", "save"} /\ call' = [call EXCEPT ![k].pc = r]
    BY <1>3, <1>5, <1>7
  <2> DEFINE p == IF q.x # NoTask /\ q.c # Nowhere THEN Beside(q.c, q.x, TRUE) ELSE Unset
             o == [pc |-> "update", t |-> q.t, c |-> q.c, x |-> q.x, after |-> TRUE, p |-> p, plan |-> NoPlan]
  <2>2. o.pc = "update" /\ o.t = q.t /\ o.c = q.c
    OBVIOUS
  <2>3. At(r, "idle") /\ req' = [req EXCEPT ![r] = o]
    BY <2>1 DEF PutTask, Begin, Arrive
  <2>4. Typed'
    BY <1>2, <1>3, <2>1, PutTaskTyped
  <2> HIDE DEF o
  <2> QED
    BY <1>1, <1>2, <1>7, <2>1, <2>2, <2>3, <2>4, ReachedTyped
<1>8. CASE q.kind = "delete" /\ DeleteTask(r, q.t) /\ call' = [call EXCEPT ![k].pc = "ok"]
  <2>1. Typed' /\ UNCHANGED req
    BY <1>2, <1>3, <1>8, DeleteTyped DEF DeleteTask
  <2> QED
    BY <1>2, <1>8, <2>1, LeftTyped
<1>9. CASE q.kind = "delete" /\ UNCHANGED vars /\ call' = [call EXCEPT ![k].pc = "failed"]
  <2>1. Typed' /\ UNCHANGED req
    BY <1>2, <1>9, StutterTyped DEF vars
  <2> QED
    BY <1>2, <1>9, <2>1, LeftTyped
<1> QED
  BY <1>5, <1>6, <1>7, <1>8, <1>9

-----------------------------------------------------------------------------
(***************************************************************************)
(* The server works on a request of the board, others make theirs, and the *)
(* answer comes; then the columns are read one after another.              *)
(***************************************************************************)

LEMMA StepTyped == ASSUME Typed, NEW r \in Reqs, Step(r) PROVE Typed'
  BY InsertTyped, UpdateTyped, CheckTyped, ListTyped, WriteTyped DEF Step

\* A statement ends the request, or leaves it what it asks for.
LEMMA GoesOn ==
    ASSUME Typed, NEW r \in Reqs, Step(r)
    PROVE  \/ At(r, "idle")'
           \/ /\ req'[r].t = req[r].t /\ req'[r].c = req[r].c
              /\ req'[r].pc \in {"check", "list", "write"} /\ ~At(r, "insert")
<1>1. TypeOK /\ req[r] \in RequestType
  BY ReqIs DEF Typed
<1>2. ASSUME Finish(r) PROVE At(r, "idle")'
  BY <1>1, <1>2 DEF Finish, TypeOK, At, Idle
<1>3. ASSUME NEW pc, Goto(r, pc)
      PROVE  req'[r].t = req[r].t /\ req'[r].c = req[r].c /\ req'[r].pc = pc
  <2>1. req' = [req EXCEPT ![r] = [req[r] EXCEPT !.pc = pc]]
    BY <1>1, <1>3, GotoIs
  <2>2. req'[r] = [req[r] EXCEPT !.pc = pc]
    BY <1>1, <2>1 DEF TypeOK
  <2> QED
    BY <1>1, <2>2 DEF RequestType
<1>4. CASE Insert(r) \/ Write(r)
  BY <1>2, <1>4 DEF Insert, Write
<1>5. CASE Update(r)
  BY <1>2, <1>3, <1>5 DEF Update, At
<1>6. CASE Check(r)
  BY <1>2, <1>3, <1>6 DEF Check, At
<1>7. CASE List(r)
  <2> DEFINE on == [req[r] EXCEPT !.pc = "write", !.plan = Over(Renumber(In(req[r].c), pos), NoPlan)]
  <2>1. req' = [req EXCEPT ![r] = on]
    BY <1>1, <1>7 DEF List, TypeOK
  <2>2. on.t = req[r].t /\ on.c = req[r].c /\ on.pc = "write"
    BY <1>1 DEF RequestType
  <2> HIDE DEF on
  <2>3. req'[r] = on
    BY <1>1, <2>1 DEF TypeOK
  <2> QED
    BY <1>7, <2>2, <2>3 DEF List, At
<1> QED
  BY <1>4, <1>5, <1>6, <1>7 DEF Step

\* What the answer does to the handler that waits for it.
LEMMA WorkIs ==
    ASSUME BoardTyped, NEW r \in Reqs, Work(r)
    PROVE  \E answer \in {"ok", "failed"} :
              /\ answer = IF At(r, "update") /\ col[req[r].t] = Nowhere THEN "failed" ELSE "ok"
              /\ \A k \in Calls : call'[k] = IF Is(k, r) /\ At(r, "idle")'
                                             THEN [call[k] EXCEPT !.pc = answer] ELSE call[k]
              /\ call' \in [Calls -> CallType] /\ DOMAIN call' = Calls
<1> DEFINE a == IF At(r, "update") /\ col[req[r].t] = Nowhere THEN "failed" ELSE "ok"
<1>1. PICK answer \in {"ok", "failed"} : answer = a
  OBVIOUS
<1>2. call' = [k \in Calls |-> IF Is(k, r) /\ At(r, "idle")' THEN [call[k] EXCEPT !.pc = answer] ELSE call[k]]
  BY <1>1 DEF Work
<1>3. answer \in Stages
  BY DEF Stages, Waits
<1>4. \A k \in Calls : call[k] \in CallType /\ [call[k] EXCEPT !.pc = answer] \in CallType
  BY <1>3, CallIs, MovedIs
<1> QED
  BY <1>1, <1>2, <1>4

LEMMA WorkTyped == ASSUME BoardTyped, NEW r \in Reqs, Work(r) PROVE BoardTyped'
<1>1. Typed /\ Step(r) /\ UNCHANGED <<board, sure, budget>>
  BY DEF Work, BoardTyped
<1>2. Typed' /\ ScreenTyped'
  BY <1>1, StepTyped, ScreenStays DEF BoardTyped
<1>3. PICK answer \in {"ok", "failed"} :
         /\ \A k \in Calls : call'[k] = IF Is(k, r) /\ At(r, "idle")'
                                        THEN [call[k] EXCEPT !.pc = answer] ELSE call[k]
         /\ call' \in [Calls -> CallType]
  BY WorkIs
<1>4. answer \in Stages /\ answer \notin Reqs /\ answer # "sent"
  BY StagesApart DEF Stages, Waits
<1>5. \A s \in Reqs : s # r => req'[s] = req[s]
  BY <1>1, OthersStay DEF Typed
<1>6. ASSUME NEW k \in Calls
      PROVE  \/ call'[k].pc = answer /\ call'[k].lists = call[k].lists
             \/ call'[k] = call[k] /\ (Is(k, r) => ~At(r, "idle")')
  <2>1. CASE Is(k, r) /\ At(r, "idle")'
    <3>1. call'[k] = [call[k] EXCEPT !.pc = answer]
      BY <1>3, <2>1
    <3>2. [call[k] EXCEPT !.pc = answer].pc = answer /\ [call[k] EXCEPT !.pc = answer].lists = call[k].lists
      BY <1>4, MovedIs
    <3> QED
      BY <3>1, <3>2
  <2>2. CASE ~(Is(k, r) /\ At(r, "idle")')
    BY <1>3, <2>2
  <2> QED
    BY <2>1, <2>2
<1>7. CallsTyped'
  BY <1>3, <1>6, CallIs DEF CallsTyped
<1>8. Carried'
  <2>1. ASSUME NEW k \in Calls PROVE (Is(k, "sent") => Sent(call[k]))' /\ (AtServer(k) => Serves(call[k]))'
    <3>1. CASE call'[k].pc = answer
      BY <1>4, <3>1 DEF Is, AtServer
    <3>2. CASE call'[k] = call[k] /\ (Is(k, r) => ~At(r, "idle")')
      <4>1. ASSUME AtServer(k) PROVE Serves(call[k])'
        <5>1. Serves(call[k])
          BY <4>1, CallIs
        <5>2. CASE call[k].pc = r
          <6>1. /\ req'[r].t = req[r].t /\ req'[r].c = req[r].c
                /\ req'[r].pc \in {"check", "list", "write"} /\ ~At(r, "insert")
            BY <1>1, <3>2, <5>2, GoesOn DEF Is
          <6> QED
            BY <3>2, <5>1, <5>2, <6>1 DEF Serves, At
        <5>3. CASE call[k].pc # r
          <6>1. req'[call[k].pc] = req[call[k].pc]
            BY <1>5, <4>1, <5>3 DEF AtServer
          <6> QED
            BY <3>2, <5>1, <6>1 DEF Serves, At
        <5> QED
          BY <5>2, <5>3
      <4> QED
        BY <3>2, <4>1, CallIs DEF Is, AtServer, Sent
    <3> QED
      BY <1>6, <3>1, <3>2
  <2>2. ASSUME NEW k \in Calls, NEW l \in Calls, AtServer(k)', call'[k].pc = call'[l].pc PROVE k = l
    <3>1. call'[k] = call[k] /\ call'[l] = call[l]
      BY <1>4, <1>6, <2>2 DEF AtServer
    <3> QED
      BY <2>2, <3>1 DEF BoardTyped, Carried, AtServer
  <2> QED
    BY <2>1, <2>2 DEF Carried
<1> QED
  BY <1>2, <1>7, <1>8 DEF BoardTyped

LEMMA OthersTyped == ASSUME BoardTyped, Others PROVE BoardTyped'
<1>1. PICK r \in Reqs : Request(r)
  BY DEF Others
<1>2. Typed /\ Typed'
  BY <1>1, NextTyped DEF Next, BoardTyped
<1>3. At(r, "idle") /\ \A s \in Reqs : s # r => req'[s] = req[s]
  BY <1>1, <1>2, Arrives, OthersStay DEF Typed
<1>4. ScreenTyped'
  <2>1. UNCHANGED board /\ UNCHANGED faults /\ others' = others - 1 /\ others > 0 /\ sure' = Nothing
    BY DEF Others
  <2>2. others \in 0..MaxOthers /\ MaxOthers \in Nat
    BY ColumnAssumption DEF BoardTyped, ScreenTyped
  <2>3. others' \in 0..MaxOthers
    BY <2>1, <2>2
  <2>4. sure' \in Nothing..Everything
    BY <2>1 DEF Nothing, Everything
  <2> QED
    BY <2>1, <2>3, <2>4 DEF ScreenTyped, board, BoardTyped
<1>5. call' = Stale(call) /\ call \in [Calls -> CallType]
  BY DEF Others, BoardTyped, CallsTyped
<1>6. /\ call' \in [Calls -> CallType]
      /\ \A k \in Calls : /\ call'[k].pc = call[k].pc /\ call'[k].kind = call[k].kind
                          /\ call'[k].t = call[k].t /\ call'[k].c = call[k].c
                          /\ call'[k].lists = call[k].lists
  BY <1>5, StaleTyped
<1>7. CallsTyped'
  BY <1>6, CallIs DEF CallsTyped
<1>8. Carried'
  <2>1. ASSUME NEW k \in Calls PROVE (Is(k, "sent") => Sent(call[k]))' /\ (AtServer(k) => Serves(call[k]))'
    <3>1. Sent(call[k]) => Sent(call'[k])
      BY <1>6 DEF Sent
    <3>2. ASSUME AtServer(k) PROVE Serves(call[k])'
      <4>1. Serves(call[k])
        BY <3>2, CallIs
      <4>2. req'[call[k].pc] = req[call[k].pc]
        BY <1>3, <3>2, <4>1 DEF Serves, AtServer
      <4> QED
        BY <1>6, <4>1, <4>2 DEF Serves, At
    <3>3. Is(k, "sent") => Sent(call[k])
      BY CallIs
    <3> QED
      BY <1>6, <3>1, <3>2, <3>3 DEF Is, AtServer, Sent
  <2>2. ASSUME NEW k \in Calls, NEW l \in Calls, AtServer(k)', call'[k].pc = call'[l].pc PROVE k = l
    <3>1. call'[k].pc = call[k].pc /\ call'[l].pc = call[l].pc
      BY <1>6
    <3> QED
      BY <2>2, <3>1 DEF BoardTyped, Carried, AtServer
  <2> QED
    BY <2>1, <2>2 DEF Carried
<1> QED
  BY <1>2, <1>4, <1>7, <1>8 DEF BoardTyped

LEMMA AnswerTyped == ASSUME BoardTyped, NEW k \in Calls, Answer(k) PROVE BoardTyped'
<1>1. PICK q \in {Quiet, Loading} : call' = [call EXCEPT ![k] = q]
  BY DEF Answer
<1>2. q \in CallType /\ Len(q.lists) <= Len(ColumnOrder) /\ q.pc \in {"idle", "load"}
  BY QuietTyped
<1>3. UNCHANGED vars /\ UNCHANGED <<board, sure, budget>>
  BY DEF Answer
<1>4. Typed' /\ UNCHANGED req /\ ScreenTyped'
  BY <1>3, StutterTyped, ScreenStays DEF BoardTyped, vars
<1>5. q.pc \in Waits
  BY <1>2 DEF Waits
<1> QED
  BY <1>1, <1>2, <1>4, <1>5, CallTyped

\* A column read: the list is added at the end.
LEMMA ReadIs ==
    ASSUME BoardTyped, NEW k \in Calls, ReadColumn(k)
    PROVE  \E q \in CallType :
              /\ call' = [call EXCEPT ![k] = q] /\ q.pc = "load" /\ q.kind = call[k].kind
              /\ Len(q.lists) = Len(call[k].lists) + 1 /\ Len(call[k].lists) < Len(ColumnOrder)
              /\ Len(call[k].lists) \in Nat
              /\ \A i \in 1..Len(call[k].lists) : q.lists[i] = call[k].lists[i]
              /\ q.lists[Len(q.lists)] = Shown(ColumnOrder[Len(q.lists)])
              /\ q.fresh = IF Len(call[k].lists) = 0 THEN Alone(k) ELSE call[k].fresh
<1> DEFINE n == Len(call[k].lists)
           new == Append(call[k].lists, Shown(ColumnOrder[n + 1]))
           f == IF n = 0 THEN Alone(k) ELSE call[k].fresh
           q == [call[k] EXCEPT !.lists = new, !.fresh = f]
<1>1. call[k] \in CallType /\ call \in [Calls -> CallType] /\ TypeOK
  BY CallIs DEF BoardTyped, CallsTyped, Typed
<1>2. call[k].lists \in Seq(Seq(Tasks)) /\ call[k].fresh \in BOOLEAN
  BY <1>1 DEF CallType
<1>3. Shown(ColumnOrder[n + 1]) \in Seq(Tasks)
  BY <1>1, ShownIs
<1>4. /\ new \in Seq(Seq(Tasks)) /\ Len(new) = n + 1 /\ n \in Nat
      /\ (\A i \in 1..n : new[i] = call[k].lists[i]) /\ new[n + 1] = Shown(ColumnOrder[n + 1])
  BY <1>2, <1>3, AppendProperties, LenProperties
<1>5. f \in BOOLEAN
  <2>1. Alone(k) \in BOOLEAN
    BY DEF Alone
  <2> QED
    BY <1>2, <2>1
<1>6. Is(k, "load") /\ n < Len(ColumnOrder)
  BY DEF ReadColumn
<1>7. call' = [call EXCEPT ![k] = q]
  BY <1>1 DEF ReadColumn
<1> HIDE DEF new, f
<1>8. q \in CallType /\ q.pc = call[k].pc /\ q.kind = call[k].kind /\ q.lists = new /\ q.fresh = f
  BY <1>1, <1>4, <1>5 DEF CallType
<1> HIDE DEF q
<1> QED
  BY <1>4, <1>6, <1>7, <1>8 DEF Is, f

LEMMA ReadTyped == ASSUME BoardTyped, NEW k \in Calls, ReadColumn(k) PROVE BoardTyped'
<1>1. PICK q \in CallType :
              /\ call' = [call EXCEPT ![k] = q] /\ q.pc = "load"
              /\ Len(q.lists) = Len(call[k].lists) + 1 /\ Len(call[k].lists) < Len(ColumnOrder)
              /\ Len(call[k].lists) \in Nat
  BY ReadIs
<1>2. Len(ColumnOrder) \in Nat
  BY ColumnAssumption, LenProperties
<1>3. Len(q.lists) <= Len(ColumnOrder)
  BY <1>1, <1>2
<1>4. UNCHANGED vars /\ UNCHANGED <<board, sure, budget>>
  BY DEF ReadColumn
<1>5. Typed' /\ UNCHANGED req /\ ScreenTyped'
  BY <1>4, StutterTyped, ScreenStays DEF BoardTyped, vars
<1>6. q.pc \in Waits /\ q.pc # "sent"
  BY <1>1 DEF Waits
<1> QED
  BY <1>1, <1>3, <1>5, <1>6, CallTyped

\* A column is shown as it was read.
LEMMA ListedIs ==
    ASSUME NEW lists \in Seq(Seq(Tasks)), Len(lists) = Len(ColumnOrder)
    PROVE  /\ Listed(lists) \in [Columns -> Seq(Tasks)]
           /\ \A c \in Columns : \E i \in 1..Len(lists) : ColumnOrder[i] = c /\ Listed(lists)[c] = lists[i]
<1>1. /\ DOMAIN ColumnOrder = 1..Len(ColumnOrder)
      /\ \A c \in Columns : \E i \in 1..Len(ColumnOrder) : ColumnOrder[i] = c
  <2>1. ColumnOrder \in Seq(Columns) /\ Range(ColumnOrder) = Columns
    BY ColumnAssumption
  <2>2. Range(ColumnOrder) = {ColumnOrder[i] : i \in 1..Len(ColumnOrder)}
    BY <2>1, RangeIs
  <2> QED
    BY <2>1, <2>2, RangeIs
<1>2. ASSUME NEW c \in Columns
      PROVE  \E i \in 1..Len(lists) : ColumnOrder[i] = c /\ Listed(lists)[c] = lists[i]
  <2> DEFINE i == CHOOSE i \in DOMAIN ColumnOrder : ColumnOrder[i] = c
  <2>1. i \in 1..Len(lists) /\ ColumnOrder[i] = c
    BY <1>1
  <2>2. Listed(lists)[c] = lists[i]
    BY DEF Listed
  <2> QED
    BY <2>1, <2>2
<1>3. \A i \in 1..Len(lists) : lists[i] \in Seq(Tasks)
  BY ElementOfSeq
<1> QED
  BY <1>2, <1>3 DEF Listed

LEMMA LoadTyped == ASSUME BoardTyped, NEW k \in Calls, Load(k) PROVE BoardTyped'
<1>1. /\ call' = [call EXCEPT ![k] = Quiet] /\ UNCHANGED vars /\ UNCHANGED budget
      /\ Len(call[k].lists) = Len(ColumnOrder) /\ shown' = Listed(call[k].lists)
      /\ screen' \in {screen, "board"} /\ sure' \in {Everything, Nothing}
  BY DEF Load
<1>2. call[k].lists \in Seq(Seq(Tasks))
  BY CallIs DEF CallType
<1>3. shown' \in [Columns -> Seq(Tasks)]
  BY <1>1, <1>2, ListedIs
<1>4. ScreenTyped'
  <2>1. sure' \in Nothing..Everything
    BY <1>1 DEF Nothing, Everything
  <2>2. screen' \in {"loading", "board", "error"}
    BY <1>1 DEF BoardTyped, ScreenTyped
  <2> QED
    BY <1>1, <1>3, <2>1, <2>2 DEF ScreenTyped, budget, BoardTyped
<1>5. Typed' /\ UNCHANGED req
  BY <1>1, StutterTyped DEF BoardTyped, vars
<1>6. Quiet.pc \in Waits /\ Quiet.pc # "sent"
  BY QuietTyped DEF Waits
<1> HIDE DEF Quiet
<1> QED
  BY <1>1, <1>4, <1>5, <1>6, QuietTyped, CallTyped

LEMMA LoseTyped == ASSUME BoardTyped, NEW k \in Calls, Lose(k) PROVE BoardTyped'
<1>1. /\ faults' = faults - 1 /\ faults > 0 /\ UNCHANGED vars /\ UNCHANGED shown /\ UNCHANGED others
      /\ screen' \in {screen, "error"} /\ sure' \in {sure, Nothing}
  BY DEF Lose
<1>2. ScreenTyped'
  <2>1. faults \in 0..MaxFaults /\ MaxFaults \in Nat
    BY ColumnAssumption DEF BoardTyped, ScreenTyped
  <2>2. faults' \in 0..MaxFaults
    BY <1>1, <2>1
  <2>3. sure' \in Nothing..Everything
    BY <1>1 DEF Nothing, Everything, BoardTyped, ScreenTyped
  <2>4. screen' \in {"loading", "board", "error"}
    BY <1>1 DEF BoardTyped, ScreenTyped
  <2> QED
    BY <1>1, <2>2, <2>3, <2>4 DEF ScreenTyped, BoardTyped
<1>3. Typed' /\ UNCHANGED req
  BY <1>1, StutterTyped DEF BoardTyped, vars
<1>4. CASE call' = [call EXCEPT ![k].pc = "failed"]
  BY <1>2, <1>3, <1>4, LeftTyped
<1>5. CASE call' = [call EXCEPT ![k] = Quiet]
  <2>1. Quiet.pc \in Waits /\ Quiet.pc # "sent"
    BY QuietTyped DEF Waits
  <2> QED
    BY <1>2, <1>3, <1>5, <2>1, QuietTyped, CallTyped
<1> QED
  BY <1>4, <1>5 DEF Lose

LEMMA BoardStutter == ASSUME BoardTyped, UNCHANGED <<vars, client>> PROVE BoardTyped'
<1>1. UNCHANGED vars /\ UNCHANGED client
  OBVIOUS
<1>2. UNCHANGED board /\ UNCHANGED call /\ UNCHANGED sure /\ UNCHANGED budget
  BY <1>1 DEF client
<1>3. Typed' /\ ScreenTyped' /\ UNCHANGED req
  BY <1>1, <1>2, StutterTyped, ScreenStays DEF BoardTyped, vars
<1> QED
  BY <1>2, <1>3 DEF BoardTyped, CallsTyped, Carried, Is, AtServer, Sent, Serves, At

LEMMA BoardNextTyped == ASSUME BoardTyped, BoardNext PROVE BoardTyped'
  BY UserTyped, ReachTyped, AnswerTyped, ReadTyped, LoadTyped, LoseTyped, WorkTyped, OthersTyped DEF BoardNext

(***************************************************************************)
(* A handler of the board stands where the code can be, what it carries is *)
(* what its next request needs, and two of them never wait for the same    *)
(* slot of the server, whatever fails or races.                            *)
(***************************************************************************)
THEOREM BoardTypeCorrect == BoardSpec => []BoardTypeOK
<1>1. BoardTyped /\ [BoardNext]_<<vars, client>> => BoardTyped'
  BY BoardNextTyped, BoardStutter
<1>2. BoardTyped => BoardTypeOK
  BY BoardTypedIs
<1>3. BoardInit => BoardTyped
  BY BoardInitTyped
<1> QED
  BY <1>1, <1>2, <1>3, PTL DEF BoardSpec

-----------------------------------------------------------------------------
(***************************************************************************)
(* What is shown is what is stored. A handler that is under way follows    *)
(* one request: the screen is right before it is sent, ahead of the server *)
(* by the task that was dropped until the UPDATE, and right again after    *)
(* it. What is being loaded is fresh if it was read while nothing else was *)
(* under way.                                                              *)
(***************************************************************************)

Fresh ==
    \A k \in Calls : call[k].fresh =>
        /\ Is(k, "load") /\ Alone(k)
        /\ \A i \in 1..Len(call[k].lists) : call[k].lists[i] = Shown(ColumnOrder[i])

Shows(list, S) == Range(list) = S /\ Len(list) = Cardinality(S)

Right ==
    \A c \in Columns : Shows(shown[c], In(c)) /\ (sure = Everything => shown[c] = Shown(c))

\* The tasks of column d once t is in column c.
Moved(t, c, d) == {u \in Tasks : (IF u = t THEN c ELSE col[u]) = d}
Ahead(t, c) == col[t] # Nowhere /\ \A d \in Columns : Shows(shown[d], Moved(t, c, d))

Moving(k) == call[k].kind = "drop"

Follows(k) ==
    /\ Moving(k) => sure = ColumnsOnly
    /\ Is(k, "idle") => ServerIdle /\ Right
    /\ Is(k, "sent") => ServerIdle /\ IF Moving(k) THEN Ahead(call[k].t, call[k].c) ELSE Right
    /\ Is(k, "ok") /\ Moving(k) => ServerIdle /\ Right
    /\ Is(k, "failed") /\ ~Moving(k) => ServerIdle /\ Right
    /\ AtServer(k) =>
          /\ \A r \in Reqs \ {call[k].pc} : At(r, "idle")
          /\ Moving(k) => IF At(call[k].pc, "update") THEN Ahead(call[k].t, call[k].c) ELSE Right
          /\ ~Moving(k) /\ At(call[k].pc, "update") => Right

Single(k) == \A l \in Calls \ {k} : Is(l, "idle")

Followed == screen # "error" /\ sure # Nothing => \E k \in Calls : Single(k) /\ Follows(k)

BoardInv == BoardTyped /\ Fresh /\ Followed

LEMMA ListsStay ==
    ASSUME UNCHANGED <<col, pos, shown>>
    PROVE  /\ \A c : In(c)' = In(c) /\ Shown(c)' = Shown(c)
           /\ \A t, c : Ahead(t, c)' <=> Ahead(t, c)
           /\ UNCHANGED sure => (Right' <=> Right)
<1>1. \A c : In(c)' = In(c)
  BY DEF In
<1>2. \A c : Shown(c)' = Shown(c)
  <2> TAKE c
  <2>1. \A t : Before(pos, In(c), t)' = Before(pos, In(c), t)
    BY <1>1 DEF Before
  <2> QED
    BY <1>1, <2>1 DEF Shown
<1>3. \A t, c, d : Moved(t, c, d)' = Moved(t, c, d)
  BY DEF Moved
<1>4. \A t, c : Ahead(t, c)' <=> Ahead(t, c)
  BY <1>3 DEF Ahead, Shows
<1>5. UNCHANGED sure => (Right' <=> Right)
  BY <1>1, <1>2 DEF Right, Shows
<1> QED
  BY <1>1, <1>2, <1>4, <1>5

\* A handler that is under way is the only one, as long as something is certain.
LEMMA OneFollows ==
    ASSUME Followed, screen # "error", sure # Nothing, NEW k \in Calls, ~Is(k, "idle")
    PROVE  Single(k) /\ Follows(k)
  BY DEF Followed, Single

LEMMA BusyNotFresh ==
    ASSUME Fresh, NEW k \in Calls, ~Is(k, "idle"), ~Is(k, "load")
    PROVE  \A l \in Calls : ~call[l].fresh
  BY DEF Fresh, Alone

LEMMA PcsApart ==
    ASSUME BoardTyped, NEW k \in Calls
    PROVE  AtServer(k) => /\ ~Is(k, "idle") /\ ~Is(k, "sent") /\ ~Is(k, "load")
                          /\ ~Is(k, "ok") /\ ~Is(k, "failed")
  BY StagesApart DEF AtServer, Is

LEMMA BoardInvInit == ASSUME BoardInit PROVE BoardInv
<1>1. BoardTyped
  BY BoardInitTyped
<1>2. PICK k \in Calls : call = [l \in Calls |-> IF l = k THEN Loading ELSE Quiet]
  BY DEF BoardInit
<1>3. /\ Loading.fresh = FALSE /\ Quiet.fresh = FALSE /\ Loading.pc = "load" /\ Quiet.pc = "idle"
      /\ Loading.kind = "load"
  BY DEF Loading, Quiet
<1>4. Fresh
  BY <1>2, <1>3 DEF Fresh
<1>5. Single(k)
  BY <1>2, <1>3 DEF Single, Is
<1>6. Follows(k)
  BY <1>2, <1>3, StagesApart DEF Follows, Moving, AtServer, Is
<1> QED
  BY <1>1, <1>4, <1>5, <1>6 DEF BoardInv, Followed

LEMMA InvTrue == ASSUME BoardInv PROVE BoardTrue
<1>1. SUFFICES ASSUME Settled, sure >= ColumnsOnly PROVE Right
  BY DEF BoardTrue, Right, Shows, BoardInv, BoardTyped, ScreenTyped, ColumnsOnly, Everything
<1>2. screen # "error" /\ sure # Nothing
  BY <1>1 DEF Settled, ColumnsOnly, Nothing
<1>3. PICK k \in Calls : Follows(k)
  BY <1>2 DEF BoardInv, Followed
<1> QED
  BY <1>1, <1>3 DEF Settled, Follows

-----------------------------------------------------------------------------
\* What a drop leaves on the screen, if it was right: the task in its new column.
LEMMA DroppedAhead ==
    ASSUME BoardTyped, Right, NEW t \in OnScreen, NEW c \in Columns, Dropped(t, c), UNCHANGED vars
    PROVE  Ahead(t, c)'
<1> DEFINE a == ColumnOf(t)
<1>1. a \in Columns /\ t \in Range(shown[a]) /\ t \in Tasks
  BY ColumnOfIs DEF BoardTyped
<1>2. /\ shown \in [Columns -> Seq(Tasks)] /\ col \in [Tasks -> Columns \cup {Nowhere}]
      /\ Nowhere \notin Columns
  BY GapAssumption DEF BoardTyped, ScreenTyped, Typed, TypeOK
<1>3. \A d \in Columns : Range(shown[d]) = In(d) /\ Len(shown[d]) = Cardinality(In(d))
  BY DEF Right, Shows
<1>4. col[t] = a
  BY <1>1, <1>3 DEF In
<1>5. col' = col
  BY DEF vars
<1> HIDE DEF a
<1>6. col'[t] # Nowhere
  BY <1>1, <1>2, <1>4, <1>5
<1>7. ASSUME NEW d \in Columns PROVE Shows(shown'[d], Moved(t, c, d)')
  <2>0. Moved(t, c, d)' = {u \in Tasks : (IF u = t THEN c ELSE col[u]) = d}
    BY <1>5 DEF Moved
  <2>1. CASE a = c
    <3>1. SameTasks(shown, shown')
      BY <2>1 DEF Dropped, a
    <3>2. Moved(t, c, d)' = In(d)
      BY <1>4, <2>0, <2>1 DEF In
    <3> QED
      BY <1>3, <3>1, <3>2 DEF SameTasks, Shows
  <2>2. CASE a # c
    <3>1. shown' = [shown EXCEPT ![a] = Without(@, t), ![c] = Append(@, t)]
      BY <2>2 DEF Dropped, a
    <3>2. CASE d = a
      <4>1. shown'[d] = Without(shown[a], t)
        BY <1>1, <1>2, <2>2, <3>1, <3>2
      <4>2. Moved(t, c, d)' = In(a) \ {t}
        BY <2>0, <2>2, <3>2 DEF In
      <4> QED
        <5>1. shown[a] \in Seq(Tasks) /\ Len(shown[a]) = Cardinality(Range(shown[a]))
          BY <1>1, <1>2, <1>3
        <5>2. /\ Range(Without(shown[a], t)) = Range(shown[a]) \ {t}
              /\ Len(Without(shown[a], t)) = Cardinality(Range(shown[a]) \ {t})
          BY <5>1, WithoutIs
        <5> QED
          BY <1>1, <1>3, <4>1, <4>2, <5>2 DEF Shows
    <3>3. CASE d = c
      <4>1. shown'[d] = Append(shown[c], t)
        BY <1>2, <2>2, <3>1, <3>3
      <4>2. Moved(t, c, d)' = In(c) \cup {t}
        BY <1>1, <2>0, <3>3 DEF In
      <4>3. t \notin In(c)
        BY <1>4, <2>2 DEF In
      <4>4. IsFiniteSet(In(c)) /\ Cardinality(In(c) \cup {t}) = Cardinality(In(c)) + 1
        BY <4>3, InTasks, TasksFinite, FS_AddElement
      <4>5. Range(Append(shown[c], t)) = Range(shown[c]) \cup {t} /\ Len(Append(shown[c], t)) = Len(shown[c]) + 1
        BY <1>1, <1>2, AppendIs
      <4> QED
        BY <1>3, <4>1, <4>2, <4>4, <4>5 DEF Shows
    <3>4. CASE d # a /\ d # c
      <4>1. shown'[d] = shown[d]
        BY <1>2, <3>1, <3>4
      <4>2. Moved(t, c, d)' = In(d)
        BY <1>4, <2>0, <3>4 DEF In
      <4> QED
        BY <1>3, <4>1, <4>2 DEF Shows
    <3> QED
      BY <3>2, <3>3, <3>4
  <2> QED
    BY <2>1, <2>2
<1> QED
  BY <1>6, <1>7 DEF Ahead

LEMMA UserInv == ASSUME BoardInv, NEW k \in Calls, User(k) PROVE Fresh' /\ Followed'
<1>1. PICK kind, t, c, x : Did(k, kind, t, c, x)
  BY UserDid DEF BoardInv
<1> DEFINE q == Asks(kind, t, c, x)
<1>2. /\ kind \in {"drop", "save", "delete"} /\ t \in Tasks \cup {NoTask}
      /\ c \in Columns \cup {Nowhere} /\ x \in Tasks \cup {NoTask}
      /\ (kind # "save" => t \in Tasks) /\ (kind # "delete" => c \in Columns)
  BY <1>1 DEF Did
<1>3. Send(k, q, Level(kind)) /\ IF kind = "drop" THEN t \in OnScreen /\ Dropped(t, c) ELSE UNCHANGED shown
  BY <1>1 DEF Did
<1>4. q \in CallType
  BY <1>2, RequestSent
<1>5. q.pc = "sent" /\ q.kind = kind /\ q.t = t /\ q.c = c
  BY DEF Asks, Quiet
<1> HIDE DEF q
<1>6. /\ screen = "board" /\ screen' = screen /\ Is(k, "idle") /\ UNCHANGED vars
      /\ call' = Stale([call EXCEPT ![k] = q])
      /\ sure' = IF Alone(k) THEN Min({sure, Level(kind)}) ELSE Nothing
  BY <1>3 DEF Send
<1>7. [call EXCEPT ![k] = q] \in [Calls -> CallType]
  BY <1>4 DEF BoardInv, BoardTyped, CallsTyped
<1>8. \A l \in Calls : /\ call'[l].fresh = FALSE
                       /\ call'[l].pc = [call EXCEPT ![k] = q][l].pc
                       /\ call'[l].kind = [call EXCEPT ![k] = q][l].kind
                       /\ call'[l].t = [call EXCEPT ![k] = q][l].t
                       /\ call'[l].c = [call EXCEPT ![k] = q][l].c
  BY <1>6, <1>7, StaleTyped
<1>9. Fresh'
  BY <1>8 DEF Fresh
<1>10. call'[k].pc = "sent" /\ call'[k].kind = kind /\ call'[k].t = t /\ call'[k].c = c
  BY <1>5, <1>7, <1>8 DEF BoardInv, BoardTyped, CallsTyped
<1>11. \A l \in Calls \ {k} : call'[l].pc = call[l].pc
  BY <1>8 DEF BoardInv, BoardTyped, CallsTyped
<1>12. ASSUME sure' # Nothing PROVE Single(k)' /\ Follows(k)'
  <2>1. Alone(k) /\ sure' = Min({sure, Level(kind)})
    BY <1>6, <1>12
  <2>2. ServerIdle /\ \A l \in Calls : Is(l, "idle")
    BY <1>6, <2>1 DEF Alone
  <2>3. Level(kind) \in {ColumnsOnly, Everything}
    BY DEF Level
  <2>4. sure' = IF sure <= Level(kind) THEN sure ELSE Level(kind)
    BY <2>1, <2>3, LevelsAre DEF BoardInv, BoardTyped
  <2>5. sure \in 0..2
    BY DEF BoardInv, BoardTyped, ScreenTyped, Nothing, Everything
  <2>6. sure # Nothing
    BY <1>12, <2>3, <2>4, <2>5 DEF Nothing, ColumnsOnly, Everything
  <2>7. Right
    BY <1>6, <2>2, <2>6 DEF BoardInv, Followed, Follows
  <2>8. Single(k)'
    BY <1>11, <2>2 DEF Single, Is
  <2>9. ServerIdle'
    BY <1>6, <2>2 DEF ServerIdle, At, vars
  <2>10. CASE kind = "drop"
    <3>1. Ahead(t, c)'
      BY <1>2, <1>3, <1>6, <2>7, <2>10, DroppedAhead DEF BoardInv
    <3>2. sure' = ColumnsOnly
      BY <2>4, <2>5, <2>6, <2>10 DEF Level, Nothing, ColumnsOnly, Everything
    <3> QED
      BY <1>10, <2>8, <2>9, <2>10, <3>1, <3>2, StagesApart DEF Follows, Moving, Is, AtServer
  <2>11. CASE kind # "drop"
    <3>1. sure' = sure
      BY <2>4, <2>5, <2>11 DEF Level, Everything
    <3>2. UNCHANGED <<col, pos, shown>>
      BY <1>3, <1>6, <2>11 DEF vars
    <3>3. Right'
      BY <2>7, <3>1, <3>2, ListsStay
    <3> QED
      BY <1>10, <2>8, <2>9, <2>11, <3>3, StagesApart DEF Follows, Moving, Is, AtServer
  <2> QED
    BY <2>10, <2>11
<1> QED
  BY <1>9, <1>12 DEF Followed

-----------------------------------------------------------------------------
(***************************************************************************)
(* The invariant through the requests of the board, the answers and the    *)
(* failures.                                                               *)
(***************************************************************************)

\* One handler's place changes, and what it carries stays.
LEMMA CallMoved ==
    ASSUME BoardTyped, NEW k \in Calls, NEW p \in Stages, call' = [call EXCEPT ![k].pc = p]
    PROVE  /\ call'[k].pc = p /\ call'[k].kind = call[k].kind /\ call'[k].t = call[k].t
           /\ call'[k].c = call[k].c /\ call'[k].fresh = call[k].fresh
           /\ \A l \in Calls \ {k} : call'[l] = call[l]
<1> DEFINE q == [call[k] EXCEPT !.pc = p]
<1>1. /\ call' = [call EXCEPT ![k] = q] /\ q.pc = p /\ q.kind = call[k].kind /\ q.t = call[k].t
      /\ q.c = call[k].c /\ q.fresh = call[k].fresh
  BY MovedIs
<1> HIDE DEF q
<1>2. call'[k] = q /\ \A l \in Calls \ {k} : call'[l] = call[l]
  BY <1>1 DEF BoardTyped, CallsTyped
<1> QED
  BY <1>1, <1>2

\* One handler is replaced.
LEMMA CallPut ==
    ASSUME BoardTyped, NEW k \in Calls, NEW q, call' = [call EXCEPT ![k] = q]
    PROVE  call'[k] = q /\ \A l \in Calls \ {k} : call'[l] = call[l]
  BY DEF BoardTyped, CallsTyped

\* Nobody else is under way, and stays so when only one handler changes.
LEMMA StaysSingle ==
    ASSUME NEW k \in Calls, Single(k), \A l \in Calls \ {k} : call'[l].pc = call[l].pc
    PROVE  Single(k)'
  BY DEF Single, Is

LEMMA ReachInv == ASSUME BoardInv, NEW k \in Calls, Reach(k) PROVE Fresh' /\ Followed'
<1> DEFINE q == call[k]
<1>1. /\ Is(k, "sent") /\ ~Is(k, "idle") /\ ~Is(k, "load") /\ UNCHANGED screen /\ UNCHANGED shown /\ UNCHANGED sure
      /\ BoardTyped /\ Fresh /\ Followed /\ Sent(q) /\ q \in CallType
  BY CallIs DEF Reach, Is, board, BoardInv
<1>2. NoTask \notin Tasks
  BY GapAssumption DEF Tasks, NoTask
<1>3. PICK r \in Reqs :
              \/ /\ q.kind # "delete"
                 /\ IF q.t = NoTask THEN CreateTask(r, q.c) ELSE PutTask(r, q.t, q.c, q.x, TRUE, Unset)
                 /\ call' = [call EXCEPT ![k].pc = r]
              \/ /\ q.kind = "delete" /\ DeleteTask(r, q.t)
                 /\ call' = [call EXCEPT ![k].pc = "ok"]
              \/ /\ q.kind = "delete" /\ col[q.t] = Nowhere /\ UNCHANGED vars
                 /\ call' = [call EXCEPT ![k].pc = "failed"]
  BY DEF Reach
<1>4. PICK p \in Stages : call' = [call EXCEPT ![k].pc = p]
  BY <1>3 DEF Stages, Waits
<1>5. /\ call'[k].pc = p /\ call'[k].kind = q.kind /\ call'[k].t = q.t /\ call'[k].c = q.c
      /\ call'[k].fresh = q.fresh /\ \A l \in Calls \ {k} : call'[l] = call[l]
  BY <1>1, <1>4, CallMoved
<1>6. \A l \in Calls : ~call'[l].fresh
  BY <1>1, <1>5, BusyNotFresh
<1>7. Fresh'
  BY <1>6 DEF Fresh
<1>8. ASSUME screen # "error", sure # Nothing PROVE Single(k)' /\ Follows(k)'
  <2>1. Single(k) /\ Follows(k)
    BY <1>1, <1>8, OneFollows
  <2>2. Single(k)'
    BY <1>5, <2>1, StaysSingle
  <2>3. ServerIdle /\ (Moving(k) => sure = ColumnsOnly) /\ IF Moving(k) THEN Ahead(q.t, q.c) ELSE Right
    BY <1>1, <2>1 DEF Follows
  <2>4. CASE q.kind # "delete" /\ call' = [call EXCEPT ![k].pc = r]
             /\ IF q.t = NoTask THEN CreateTask(r, q.c) ELSE PutTask(r, q.t, q.c, q.x, TRUE, Unset)
    <3>1. r \in Stages
      BY DEF Stages
    <3>2. call'[k].pc = r
      BY <1>1, <2>4, <3>1, CallMoved
    <3>3. UNCHANGED <<col, pos, shown>>
      BY <1>1, <2>4 DEF CreateTask, PutTask
    <3>0. PICK t, c : t = q.t /\ c = q.c
      OBVIOUS
    <3>4. (Right' <=> Right) /\ (Ahead(t, c)' <=> Ahead(t, c))
      BY <1>1, <3>3, ListsStay
    <3>5. \A s \in Reqs \ {r} : req'[s] = req[s]
      BY <1>1, <2>4 DEF CreateTask, PutTask, Begin, BoardTyped, Typed, TypeOK
    <3>6. \A s \in Reqs \ {r} : At(s, "idle")'
      BY <2>3, <3>5 DEF ServerIdle, At
    <3>7. (IF Moving(k) THEN Ahead(call[k].t, call[k].c) ELSE Right)'
      <4>1. CASE q.kind = "drop"
        <5>1. Ahead(t, c)'
          BY <2>3, <3>0, <3>4, <4>1 DEF Moving
        <5>2. call'[k].t = t /\ call'[k].c = c
          BY <1>5, <3>0
        <5>3. Ahead(call[k].t, call[k].c)'
          BY <5>1, <5>2
        <5> QED
          BY <1>5, <4>1, <5>3 DEF Moving
      <4>2. CASE q.kind # "drop"
        BY <1>5, <2>3, <3>4, <4>2 DEF Moving
      <4> QED
        BY <4>1, <4>2
    <3>8. Moving(k)' => At(r, "update")'
      <4>1. ASSUME q.kind = "drop" PROVE At(r, "update")'
        <5>1. PutTask(r, q.t, q.c, q.x, TRUE, Unset)
          BY <1>1, <1>2, <2>4, <4>1 DEF Sent
        <5> QED
          BY <1>1, <5>1 DEF PutTask, Begin, At, BoardTyped, Typed, TypeOK
      <4> QED
        BY <1>5, <4>1 DEF Moving
    <3>9. Moving(k)' => sure' = ColumnsOnly
      BY <1>1, <1>5, <2>3 DEF Moving
    <3> QED
      BY <2>2, <3>2, <3>6, <3>7, <3>8, <3>9, StagesApart DEF Follows, Is, AtServer
  <2>5. CASE q.kind = "delete" /\ call' = [call EXCEPT ![k].pc = "ok"]
    <3>1. "ok" \in Stages
      BY DEF Stages, Waits
    <3>2. call'[k].pc = "ok"
      BY <1>1, <2>5, <3>1, CallMoved
    <3> QED
      BY <1>5, <2>2, <2>5, <3>2, StagesApart DEF Follows, Is, AtServer, Moving
  <2>6. CASE q.kind = "delete" /\ UNCHANGED vars /\ call' = [call EXCEPT ![k].pc = "failed"]
    <3>1. "failed" \in Stages
      BY DEF Stages, Waits
    <3>2. call'[k].pc = "failed"
      BY <1>1, <2>6, <3>1, CallMoved
    <3>3. Right /\ UNCHANGED <<col, pos, shown, req>>
      BY <1>1, <2>3, <2>6 DEF Moving, vars
    <3>4. Right' /\ ServerIdle'
      BY <1>1, <2>3, <3>3, ListsStay DEF ServerIdle, At
    <3> QED
      BY <1>5, <2>2, <2>6, <3>2, <3>4, StagesApart DEF Follows, Is, AtServer, Moving
  <2> QED
    BY <1>3, <2>4, <2>5, <2>6
<1> QED
  BY <1>1, <1>7, <1>8 DEF Followed

LEMMA AnswerInv == ASSUME BoardInv, NEW k \in Calls, Answer(k) PROVE Fresh' /\ Followed'
<1>1. /\ Is(k, "ok") \/ Is(k, "failed")
      /\ UNCHANGED vars /\ UNCHANGED screen /\ UNCHANGED shown /\ UNCHANGED sure
      /\ BoardTyped /\ Fresh /\ Followed
  BY DEF Answer, BoardInv, board
<1>2. ~Is(k, "idle") /\ ~Is(k, "load")
  BY <1>1 DEF Is
<1>3. PICK q \in {Quiet, Loading} :
         /\ call' = [call EXCEPT ![k] = q]
         /\ q = Quiet => (Is(k, "ok") /\ Moving(k)) \/ (Is(k, "failed") /\ ~Moving(k))
  <2>1. Quiet # Loading
    BY QuietTyped
  <2> HIDE DEF Quiet, Loading
  <2> QED
    BY <2>1 DEF Answer, Is, Moving
<1>4. call'[k] = q /\ \A l \in Calls \ {k} : call'[l] = call[l]
  BY <1>1, <1>3, CallPut
<1>5. q.fresh = FALSE /\ q.kind = "load" /\ q.pc = IF q = Quiet THEN "idle" ELSE "load"
  BY DEF Quiet, Loading
<1>6. Fresh'
  <2>1. \A l \in Calls : ~call'[l].fresh
    BY <1>1, <1>2, <1>4, <1>5, BusyNotFresh
  <2> QED
    BY <2>1 DEF Fresh
<1>7. ASSUME screen # "error", sure # Nothing PROVE Single(k)' /\ Follows(k)'
  <2>1. Single(k) /\ Follows(k)
    BY <1>1, <1>2, <1>7, OneFollows
  <2>2. Single(k)'
    BY <1>4, <2>1, StaysSingle
  <2>3. q = Quiet => ServerIdle' /\ Right'
    <3>1. ASSUME q = Quiet PROVE ServerIdle /\ Right
      BY <1>3, <2>1, <3>1 DEF Follows
    <3>2. UNCHANGED <<col, pos, shown, req>>
      BY <1>1 DEF vars
    <3>3. (Right' <=> Right) /\ (ServerIdle' <=> ServerIdle)
      BY <1>1, <3>2, ListsStay DEF ServerIdle, At
    <3> QED
      BY <3>1, <3>3
  <2>4. /\ call'[k].kind = "load"
        /\ (q = Quiet /\ call'[k].pc = "idle") \/ (q # Quiet /\ call'[k].pc = "load")
    BY <1>4, <1>5
  <2> QED
    BY <2>2, <2>3, <2>4, StagesApart DEF Follows, Is, AtServer, Moving
<1> QED
  BY <1>1, <1>6, <1>7 DEF Followed

LEMMA LoseInv == ASSUME BoardInv, NEW k \in Calls, Lose(k) PROVE Fresh' /\ Followed'
<1>1. UNCHANGED vars /\ UNCHANGED shown /\ BoardTyped /\ Fresh /\ Followed
  BY DEF Lose, BoardInv
<1>2. CASE /\ call[k].pc \in {"sent", "ok"} \cup Reqs
           /\ call' = [call EXCEPT ![k].pc = "failed"]
           /\ sure' = IF call[k].kind = "drop" \/ Is(k, "sent") THEN sure ELSE Nothing
           /\ UNCHANGED screen
  <2>1. ~Is(k, "idle") /\ ~Is(k, "load")
    BY <1>2, StagesApart DEF Is
  <2>2. "failed" \in Stages
    BY DEF Stages, Waits
  <2>3. /\ call'[k].pc = "failed" /\ call'[k].kind = call[k].kind /\ call'[k].fresh = call[k].fresh
        /\ \A l \in Calls \ {k} : call'[l] = call[l]
    BY <1>1, <1>2, <2>2, CallMoved
  <2>4. Fresh'
    <3>1. \A l \in Calls : ~call'[l].fresh
      BY <1>1, <2>1, <2>3, BusyNotFresh
    <3> QED
      BY <3>1 DEF Fresh
  <2>5. ASSUME screen # "error", sure' # Nothing PROVE Single(k)' /\ Follows(k)'
    <3>1. sure' = sure /\ (Moving(k) \/ Is(k, "sent"))
      BY <1>2, <2>5 DEF Moving
    <3>2. Single(k) /\ Follows(k)
      BY <1>1, <2>1, <2>5, <3>1, OneFollows
    <3>3. Single(k)'
      BY <2>3, <3>2, StaysSingle
    <3>4. UNCHANGED <<col, pos, shown, req>>
      BY <1>1 DEF vars
    <3>5. (Right' <=> Right) /\ (ServerIdle' <=> ServerIdle)
      BY <3>1, <3>4, ListsStay DEF ServerIdle, At
    <3>6. CASE Moving(k)
      <4>1. sure' = ColumnsOnly
        BY <3>1, <3>2, <3>6 DEF Follows
      <4> QED
        BY <2>3, <3>3, <3>6, <4>1, StagesApart DEF Follows, Is, AtServer, Moving
    <3>7. CASE ~Moving(k)
      <4>1. ServerIdle' /\ Right'
        BY <3>1, <3>2, <3>5, <3>7 DEF Follows
      <4> QED
        BY <2>3, <3>3, <3>7, <4>1, StagesApart DEF Follows, Is, AtServer, Moving
    <3> QED
      BY <3>6, <3>7
  <2> QED
    BY <1>2, <2>4, <2>5 DEF Followed
<1>3. CASE Is(k, "load") /\ call' = [call EXCEPT ![k] = Quiet] /\ screen' = "error"
  <2>1. call'[k] = Quiet /\ \A l \in Calls \ {k} : call'[l] = call[l]
    BY <1>1, <1>3, CallPut
  <2>2. Quiet.fresh = FALSE
    BY DEF Quiet
  <2>3. \A l \in Calls \ {k} : ~call[l].fresh
    BY <1>1, <1>3 DEF Fresh, Alone, Is
  <2> HIDE DEF Quiet
  <2>4. \A l \in Calls : ~call'[l].fresh
    BY <2>1, <2>2, <2>3
  <2> QED
    BY <1>3, <2>4 DEF Fresh, Followed
<1> QED
  BY <1>2, <1>3 DEF Lose

-----------------------------------------------------------------------------
(***************************************************************************)
(* Through the loads and the requests of others, and what a statement does *)
(* to the columns.                                                         *)
(***************************************************************************)

LEMMA ReadInv == ASSUME BoardInv, NEW k \in Calls, ReadColumn(k) PROVE Fresh' /\ Followed'
<1>1. /\ Is(k, "load") /\ ~Is(k, "idle") /\ UNCHANGED vars /\ UNCHANGED screen /\ UNCHANGED shown
      /\ UNCHANGED sure /\ BoardTyped /\ Fresh /\ Followed
  BY DEF ReadColumn, Is, BoardInv, board
<1>2. PICK q \in CallType :
         /\ call' = [call EXCEPT ![k] = q] /\ q.pc = "load" /\ q.kind = call[k].kind
         /\ Len(q.lists) = Len(call[k].lists) + 1 /\ Len(call[k].lists) \in Nat
         /\ \A i \in 1..Len(call[k].lists) : q.lists[i] = call[k].lists[i]
         /\ q.lists[Len(q.lists)] = Shown(ColumnOrder[Len(q.lists)])
         /\ q.fresh = IF Len(call[k].lists) = 0 THEN Alone(k) ELSE call[k].fresh
  BY <1>1, ReadIs
<1>3. call'[k] = q /\ \A l \in Calls \ {k} : call'[l] = call[l]
  BY <1>1, <1>2, CallPut
<1>4. UNCHANGED <<col, pos, shown, req>>
  BY <1>1 DEF vars
<1>5. (\A c : Shown(c)' = Shown(c)) /\ (Right' <=> Right)
  BY <1>1, <1>4, ListsStay
<1>6. Fresh'
  <2>1. \A l \in Calls \ {k} : ~call'[l].fresh
    BY <1>1, <1>3 DEF Fresh, Alone
  <2>2. ASSUME q.fresh
        PROVE  Alone(k) /\ \A i \in 1..Len(q.lists) : q.lists[i] = Shown(ColumnOrder[i])
    <3>1. Alone(k) /\ \A i \in 1..Len(call[k].lists) : call[k].lists[i] = Shown(ColumnOrder[i])
      <4>1. CASE Len(call[k].lists) = 0
        BY <1>2, <2>2, <4>1
      <4>2. CASE Len(call[k].lists) # 0
        BY <1>1, <1>2, <2>2, <4>2 DEF Fresh
      <4> QED
        BY <4>1, <4>2
    <3>2. \A i \in 1..Len(q.lists) : i \in 1..Len(call[k].lists) \/ i = Len(q.lists)
      BY <1>2
    <3> QED
      BY <1>2, <3>1, <3>2
  <2>3. Alone(k) => Alone(k)'
    BY <1>3, <1>4 DEF Alone, ServerIdle, At, Is
  <2>4. Is(k, "load")'
    BY <1>2, <1>3 DEF Is
  <2>5. ASSUME q.fresh
        PROVE  \A i \in 1..Len(call'[k].lists) : call'[k].lists[i] = Shown(ColumnOrder[i])'
    BY <1>3, <1>5, <2>2, <2>5
  <2> QED
    BY <1>3, <2>1, <2>2, <2>3, <2>4, <2>5 DEF Fresh
<1>7. ASSUME screen # "error", sure # Nothing PROVE Single(k)' /\ Follows(k)'
  <2>1. Single(k) /\ Follows(k)
    BY <1>1, <1>7, OneFollows
  <2>2. Single(k)'
    BY <1>3, <2>1, StaysSingle
  <2>3. Moving(k)' => sure' = ColumnsOnly
    BY <1>1, <1>2, <1>3, <2>1 DEF Moving, Follows
  <2> QED
    BY <1>2, <1>3, <2>2, <2>3, StagesApart DEF Follows, Is, AtServer
<1> QED
  BY <1>1, <1>6, <1>7 DEF Followed

LEMMA LoadInv == ASSUME BoardInv, NEW k \in Calls, Load(k) PROVE Fresh' /\ Followed'
<1>1. /\ Is(k, "load") /\ ~Is(k, "idle") /\ UNCHANGED vars /\ BoardTyped /\ Fresh
      /\ Len(call[k].lists) = Len(ColumnOrder) /\ shown' = Listed(call[k].lists)
      /\ sure' = (IF call[k].fresh THEN Everything ELSE Nothing) /\ call' = [call EXCEPT ![k] = Quiet]
  BY DEF Load, Is, BoardInv
<1>2. call'[k] = Quiet /\ \A l \in Calls \ {k} : call'[l] = call[l]
  BY <1>1, CallPut
<1>3. Quiet.fresh = FALSE /\ Quiet.kind = "load" /\ Quiet.pc = "idle"
  BY DEF Quiet
<1> HIDE DEF Quiet
<1>4. Fresh'
  <2>1. \A l \in Calls : ~call'[l].fresh
    BY <1>1, <1>2, <1>3 DEF Fresh, Alone
  <2> QED
    BY <2>1 DEF Fresh
<1>5. ASSUME sure' # Nothing PROVE Single(k)' /\ Follows(k)'
  <2>1. call[k].fresh /\ Alone(k)
    BY <1>1, <1>5 DEF Fresh
  <2>2. \A i \in 1..Len(call[k].lists) : call[k].lists[i] = Shown(ColumnOrder[i])
    BY <1>1, <2>1 DEF Fresh
  <2>3. call[k].lists \in Seq(Seq(Tasks))
    BY <1>1, CallIs DEF CallType
  <2>4. \A c : In(c)' = In(c) /\ Shown(c)' = Shown(c)
    <3>1. col' = col /\ pos' = pos
      BY <1>1 DEF vars
    <3>2. \A c : In(c)' = In(c)
      BY <3>1 DEF In
    <3>3. \A c, t : Before(pos, In(c), t)' = Before(pos, In(c), t)
      BY <3>1, <3>2 DEF Before
    <3> QED
      BY <3>2, <3>3 DEF Shown
  <2>5. Right'
    <3>1. ASSUME NEW c \in Columns PROVE shown'[c] = Shown(c) /\ Shows(Shown(c), In(c))
      <4>1. PICK i \in 1..Len(call[k].lists) : ColumnOrder[i] = c /\ Listed(call[k].lists)[c] = call[k].lists[i]
        BY <1>1, <2>3, ListedIs
      <4>2. Range(Shown(c)) = In(c) /\ Len(Shown(c)) = Cardinality(In(c))
        BY <1>1, ShownIs DEF BoardTyped, Typed
      <4> QED
        BY <1>1, <2>2, <4>1, <4>2 DEF Shows
    <3> QED
      BY <2>4, <3>1 DEF Right, Shows
  <2>6. ServerIdle'
    BY <1>1, <2>1 DEF Alone, ServerIdle, At, vars
  <2>7. Single(k)'
    BY <1>2, <2>1 DEF Single, Alone, Is
  <2> QED
    BY <1>2, <1>3, <2>5, <2>6, <2>7, StagesApart DEF Follows, Is, AtServer, Moving
<1> QED
  BY <1>4, <1>5 DEF Followed

LEMMA OthersInv == ASSUME BoardInv, Others PROVE Fresh' /\ Followed'
<1>1. sure' = Nothing /\ call' = Stale(call) /\ call \in [Calls -> CallType]
  BY DEF Others, BoardInv, BoardTyped, CallsTyped
<1>2. \A l \in Calls : call'[l].fresh = FALSE
  BY <1>1, StaleTyped
<1> QED
  BY <1>1, <1>2 DEF Fresh, Followed

\* Where a statement for a task leaves the columns.
LEMMA StepMoves ==
    ASSUME Typed, NEW r \in Reqs, Step(r), ~At(r, "insert")
    PROVE  /\ ~At(r, "idle")
           /\ ~At(r, "update") => col' = col
           /\ At(r, "update") =>
                 /\ req[r].t \in Tasks
                 /\ col[req[r].t] = Nowhere => col' = col /\ pos' = pos /\ At(r, "idle")'
                 /\ col[req[r].t] # Nowhere /\ req[r].c \in Columns =>
                       col' = [col EXCEPT ![req[r].t] = req[r].c] /\ ~At(r, "idle")' /\ ~At(r, "update")'
<1>1. CASE Update(r)
  <2>1. At(r, "update") /\ req[r].t \in Tasks /\ TypeOK
    BY <1>1 DEF Update, Typed, Formed
  <2>2. ASSUME col[req[r].t] = Nowhere PROVE col' = col /\ pos' = pos /\ At(r, "idle")'
    BY <1>1, <2>1, <2>2 DEF Update, Finish, At, Idle, TypeOK
  <2>3. ASSUME col[req[r].t] # Nowhere, req[r].c \in Columns
        PROVE  col' = [col EXCEPT ![req[r].t] = req[r].c] /\ ~At(r, "idle")' /\ ~At(r, "update")'
    <3>1. req[r].c # Nowhere
      BY <2>3, GapAssumption
    <3>2. col' = [col EXCEPT ![req[r].t] = req[r].c] /\ Goto(r, "check")
      BY <1>1, <2>3, <3>1 DEF Update
    <3>3. req[r] \in RequestType /\ req' = [req EXCEPT ![r] = [req[r] EXCEPT !.pc = "check"]]
      BY <2>1, <3>2, GotoIs, ReqIs
    <3>4. req'[r].pc = "check"
      BY <2>1, <3>3 DEF TypeOK, RequestType
    <3> QED
      BY <3>2, <3>4 DEF At
  <2> QED
    BY <2>1, <2>2, <2>3 DEF At
<1>2. CASE Check(r) \/ List(r) \/ Write(r)
  BY <1>2 DEF Check, List, Write, At
<1>3. CASE Insert(r)
  BY <1>3 DEF Insert
<1> QED
  BY <1>1, <1>2, <1>3 DEF Step

-----------------------------------------------------------------------------
(***************************************************************************)
(* Through the statements of the server; and the theorem.                  *)
(***************************************************************************)

\* The lists stay right when a statement leaves the columns as they are, and become right
\* when the task gets where the screen shows it.
LEMMA StillShown ==
    ASSUME Right, sure = ColumnsOnly, UNCHANGED <<col, shown, sure>>
    PROVE  Right'
<1>1. \A c : In(c)' = In(c)
  BY DEF In
<1>2. sure' # Everything
  BY DEF ColumnsOnly, Everything
<1> QED
  BY <1>1, <1>2 DEF Right, Shows

LEMMA NowShown ==
    ASSUME Typed, NEW t \in Tasks, NEW c \in Columns, Ahead(t, c), sure = ColumnsOnly,
           col' = [col EXCEPT ![t] = c], UNCHANGED <<shown, sure>>
    PROVE  Right'
<1>1. col \in [Tasks -> Columns \cup {Nowhere}]
  BY DEF Typed, TypeOK
<1>2. \A d : In(d)' = Moved(t, c, d)
  BY <1>1 DEF In, Moved
<1>3. sure' # Everything
  BY DEF ColumnsOnly, Everything
<1> QED
  BY <1>2, <1>3 DEF Right, Shows, Ahead

LEMMA WorkInv == ASSUME BoardInv, NEW r \in Reqs, Work(r) PROVE Fresh' /\ Followed'
<1>1. /\ BoardTyped /\ Typed /\ Fresh /\ Followed /\ Step(r)
      /\ UNCHANGED screen /\ UNCHANGED shown /\ UNCHANGED sure
  BY DEF Work, BoardInv, BoardTyped, board
<1>2. PICK answer \in {"ok", "failed"} :
         /\ answer = IF At(r, "update") /\ col[req[r].t] = Nowhere THEN "failed" ELSE "ok"
         /\ \A k \in Calls : call'[k] = IF Is(k, r) /\ At(r, "idle")'
                                        THEN [call[k] EXCEPT !.pc = answer] ELSE call[k]
  BY <1>1, WorkIs
<1>3. answer \in Stages /\ answer \notin Reqs /\ answer # "idle" /\ answer # "load" /\ answer # "sent"
  BY StagesApart DEF Stages, Waits
<1>4. ASSUME NEW k \in Calls
      PROVE  /\ call'[k].kind = call[k].kind /\ call'[k].t = call[k].t /\ call'[k].c = call[k].c
             /\ call'[k].fresh = call[k].fresh
             /\ call'[k].pc = IF Is(k, r) /\ At(r, "idle")' THEN answer ELSE call[k].pc
  <2>1. CASE Is(k, r) /\ At(r, "idle")'
    <3>1. call'[k] = [call[k] EXCEPT !.pc = answer]
      BY <1>2, <2>1
    <3>2. /\ [call[k] EXCEPT !.pc = answer].pc = answer
          /\ [call[k] EXCEPT !.pc = answer].kind = call[k].kind
          /\ [call[k] EXCEPT !.pc = answer].t = call[k].t /\ [call[k] EXCEPT !.pc = answer].c = call[k].c
          /\ [call[k] EXCEPT !.pc = answer].fresh = call[k].fresh
      BY <1>1, <1>3, MovedIs
    <3> QED
      BY <2>1, <3>1, <3>2
  <2>2. CASE ~(Is(k, r) /\ At(r, "idle")')
    <3>1. call'[k] = call[k]
      BY <1>2, <2>2
    <3> QED
      BY <2>2, <3>1
  <2> QED
    BY <2>1, <2>2
<1>5. ~At(r, "idle") /\ ~ServerIdle
  BY <1>1 DEF Step, Insert, Update, Check, List, Write, At, ServerIdle
<1>6. Fresh'
  <2>1. \A l \in Calls : ~call'[l].fresh
    BY <1>1, <1>4, <1>5 DEF Fresh, Alone
  <2> QED
    BY <2>1 DEF Fresh
<1>7. ASSUME screen # "error", sure # Nothing PROVE \E k \in Calls : Single(k)' /\ Follows(k)'
  <2>1. PICK k \in Calls : Single(k) /\ Follows(k)
    BY <1>1, <1>7 DEF Followed
  <2>2. Moving(k)' <=> Moving(k)
    BY <1>4 DEF Moving
  <2>3. Moving(k)' => sure' = ColumnsOnly
    BY <1>1, <2>1, <2>2 DEF Follows
  <2>4. Single(k)'
    <3>1. \A l \in Calls \ {k} : Is(l, "idle") /\ ~Is(l, r)
      BY <2>1, StagesApart DEF Single, Is
    <3>2. \A l \in Calls \ {k} : call'[l].pc = call[l].pc
      BY <1>4, <3>1
    <3> QED
      BY <2>1, <3>2, StaysSingle
  <2>5. CASE ~AtServer(k)
    <3>1. call'[k].pc = call[k].pc
      BY <1>4, <2>5 DEF AtServer, Is
    <3>2. ~Is(k, "idle") /\ ~Is(k, "sent") /\ (Is(k, "ok") => ~Moving(k)) /\ (Is(k, "failed") => Moving(k))
      BY <1>5, <2>1 DEF Follows
    <3>3. ~AtServer(k)'
      BY <2>5, <3>1 DEF AtServer
    <3>4. ~Is(k, "idle")' /\ ~Is(k, "sent")' /\ (Is(k, "ok") => ~Moving(k))' /\ (Is(k, "failed") => Moving(k))'
      BY <2>2, <3>1, <3>2 DEF Is
    <3> QED
      BY <2>3, <2>4, <3>3, <3>4 DEF Follows
  <2>6. CASE AtServer(k)
    <3>1. /\ \A s \in Reqs \ {call[k].pc} : At(s, "idle")
          /\ (Moving(k) => IF At(call[k].pc, "update") THEN Ahead(call[k].t, call[k].c) ELSE Right)
          /\ (~Moving(k) /\ At(call[k].pc, "update") => Right)
      BY <2>1, <2>6 DEF Follows
    <3>2. call[k].pc = r /\ Is(k, r)
      BY <1>5, <3>1 DEF Is
    <3>3. Serves(call[k])
      BY <1>1, <2>6, CallIs
    <3>4. \A s \in Reqs \ {r} : At(s, "idle")'
      BY <1>1, <3>1, <3>2, OthersStay DEF At, Typed
    <3>5. call'[k].pc = IF At(r, "idle")' THEN answer ELSE r
      BY <1>4, <3>2 DEF Is
    <3>6. CASE Moving(k)
      <4>1. call[k].t # NoTask
        BY <3>3, <3>6 DEF Serves, Moving
      <4>2. ~At(r, "insert") /\ req[r].t = call[k].t /\ req[r].c = call[k].c /\ req[r].c \in Columns
        BY <3>2, <3>3, <4>1 DEF Serves
      <4>3. sure = ColumnsOnly
        BY <2>1, <3>6 DEF Follows
      <4>4. Right' /\ ~At(r, "update")' /\ answer = "ok"
        <5>1. CASE At(r, "update")
          <6>1. Ahead(req[r].t, req[r].c)
            BY <3>1, <3>2, <3>6, <4>2, <5>1
          <6>2. col[req[r].t] # Nowhere
            BY <6>1 DEF Ahead
          <6>3. req[r].t \in Tasks /\ col' = [col EXCEPT ![req[r].t] = req[r].c] /\ ~At(r, "update")'
            BY <1>1, <4>2, <5>1, <6>2, StepMoves
          <6>4. Right'
            BY <1>1, <4>2, <4>3, <6>1, <6>3, NowShown
          <6> QED
            BY <1>2, <6>2, <6>3, <6>4
        <5>2. CASE ~At(r, "update")
          <6>1. Right /\ col' = col
            BY <1>1, <3>1, <3>2, <3>6, <4>2, <5>2, StepMoves
          <6>2. Right'
            BY <1>1, <4>3, <6>1, StillShown
          <6>3. ~At(r, "update")'
            BY <1>1, GoesOn DEF At
          <6> QED
            BY <1>2, <5>2, <6>2, <6>3
        <5> QED
          BY <5>1, <5>2
      <4>5. At(r, "idle")' => ServerIdle'
        BY <3>4 DEF ServerIdle
      <4>6. CASE At(r, "idle")'
        <5>1. call'[k].pc = "ok"
          BY <3>5, <4>4, <4>6
        <5> QED
          BY <2>3, <2>4, <4>4, <4>5, <4>6, <5>1, StagesApart DEF Follows, Is, AtServer
      <4>7. CASE ~At(r, "idle")'
        <5>1. call'[k].pc = r
          BY <3>5, <4>7
        <5> QED
          BY <2>2, <2>3, <2>4, <3>4, <3>6, <4>4, <5>1, StagesApart DEF Follows, Is, AtServer
      <4> QED
        BY <4>6, <4>7
    <3>7. CASE ~Moving(k)
      <4>1. ~At(r, "update")'
        BY <1>1, GoesOn DEF At
      <4>2. CASE ~At(r, "idle")'
        <5>1. call'[k].pc = r
          BY <3>5, <4>2
        <5> QED
          BY <2>2, <2>4, <3>4, <3>7, <4>1, <5>1, StagesApart DEF Follows, Is, AtServer
      <4>3. CASE At(r, "idle")' /\ answer = "ok"
        <5>1. call'[k].pc = "ok"
          BY <3>5, <4>3
        <5> QED
          BY <2>2, <2>4, <3>7, <5>1, StagesApart DEF Follows, Is, AtServer
      <4>4. CASE At(r, "idle")' /\ answer = "failed"
        <5>1. call'[k].pc = "failed" /\ At(r, "update") /\ col[req[r].t] = Nowhere
          BY <1>2, <3>5, <4>4
        <5>2. Right
          BY <3>1, <3>2, <3>7, <5>1
        <5>3. col' = col /\ pos' = pos
          BY <1>1, <5>1, StepMoves DEF At
        <5>4. Right'
          BY <1>1, <5>2, <5>3, ListsStay
        <5>5. ServerIdle'
          BY <3>4, <4>4 DEF ServerIdle
        <5> QED
          BY <2>2, <2>4, <3>7, <5>1, <5>4, <5>5, StagesApart DEF Follows, Is, AtServer
      <4> QED
        BY <4>2, <4>3, <4>4
    <3> QED
      BY <3>6, <3>7
  <2> QED
    BY <2>5, <2>6
<1> QED
  BY <1>1, <1>6, <1>7 DEF Followed

LEMMA InvStutter == ASSUME BoardInv, UNCHANGED <<vars, client>> PROVE Fresh' /\ Followed'
<1>1. UNCHANGED vars /\ UNCHANGED client
  OBVIOUS
<1>2. UNCHANGED board /\ UNCHANGED call /\ UNCHANGED sure
  BY <1>1 DEF client
<1>3. UNCHANGED <<col, pos, shown, req, screen>>
  BY <1>1, <1>2 DEF vars, board
<1>4. (\A c : Shown(c)' = Shown(c)) /\ (\A t, c : Ahead(t, c)' <=> Ahead(t, c)) /\ (Right' <=> Right)
  BY <1>2, <1>3, ListsStay
<1>5. Fresh'
  BY <1>2, <1>3, <1>4 DEF BoardInv, Fresh, Alone, ServerIdle, At, Is
<1>6. \A k \in Calls : (Single(k)' <=> Single(k)) /\ (Moving(k)' <=> Moving(k)) /\ (ServerIdle' <=> ServerIdle)
  BY <1>2, <1>3 DEF Single, Is, Moving, ServerIdle, At
<1>7. \A k \in Calls : Follows(k) => Follows(k)'
  <2> SUFFICES ASSUME NEW k \in Calls, Follows(k) PROVE Follows(k)'
    OBVIOUS
  <2> PICK t, c : t = call[k].t /\ c = call[k].c
    OBVIOUS
  <2>1. Ahead(call[k].t, call[k].c)' <=> Ahead(call[k].t, call[k].c)
    <3>1. Ahead(t, c)' <=> Ahead(t, c)
      BY <1>4
    <3>2. call'[k].t = t /\ call'[k].c = c
      BY <1>2
    <3> QED
      BY <3>1, <3>2
  <2> QED
    BY <1>2, <1>3, <1>4, <1>6, <2>1 DEF Follows, Is, At, AtServer
<1> QED
  BY <1>2, <1>3, <1>5, <1>6, <1>7 DEF BoardInv, Followed

LEMMA BoardInvNext == ASSUME BoardInv, BoardNext PROVE BoardInv'
<1>1. BoardTyped'
  BY BoardNextTyped DEF BoardInv
<1>2. Fresh' /\ Followed'
  BY UserInv, ReachInv, AnswerInv, ReadInv, LoadInv, LoseInv, WorkInv, OthersInv DEF BoardNext
<1> QED
  BY <1>1, <1>2 DEF BoardInv

(***************************************************************************)
(* Once nothing is under way, the board shows in every column the tasks    *)
(* the server has in it, and in the server's order if no drop came since   *)
(* the last load: as long as the handlers of this board did not overlap    *)
(* and nobody else wrote, through failed requests, lost answers and loads  *)
(* that read one column after another.                                     *)
(***************************************************************************)
THEOREM BoardTrueHolds == BoardSpec => []BoardTrue
<1>1. BoardInv /\ [BoardNext]_<<vars, client>> => BoardInv'
  <2>1. ASSUME BoardInv, UNCHANGED <<vars, client>> PROVE BoardInv'
    BY <2>1, BoardStutter, InvStutter DEF BoardInv
  <2> QED
    BY <2>1, BoardInvNext
<1>2. BoardInv => BoardTrue
  BY InvTrue
<1>3. BoardInit => BoardInv
  BY BoardInvInit
<1> QED
  BY <1>1, <1>2, <1>3, PTL DEF BoardSpec
=============================================================================
