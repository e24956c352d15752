------------------------- MODULE MessageStateProofs -------------------------
(***************************************************************************)
(* Theorems about MessageState for every set of messages and every number  *)
(* of concurrent requests.  The inductive invariant says, next to the      *)
(* types, what a request in flight has already achieved: a caller that     *)
(* holds a claim is alone in doing so, a PUT of 'cancelled' that passed    *)
(* its check concerns a claimed message, and the one announcement of a     *)
(* message that is not blurred announces the state the row has.            *)
(***************************************************************************)
EXTENDS MessageState, TLAPS

\* The state a request asks for fits the statement it waits for.
PhaseInv ==
    \A r \in Reqs :
        /\ At(r, "claim") => req[r].s = "received"
        /\ At(r, "check") => req[r].s = "cancelled"
        /\ At(r, "cancel") => req[r].s = "cancelled"
        /\ At(r, "update") => req[r].s # "received"

\* r has taken the row of m by the atomic claim and has not answered.
HoldsClaim(r, m) == Announcing(r, m) /\ req[r].s = "received"

ClaimInv ==
    \A m \in Msgs :
        /\ wins[m] <= 1
        /\ \A r \in Reqs : HoldsClaim(r, m) => wins[m] = 0
        /\ \A q, r \in Reqs : HoldsClaim(q, m) /\ HoldsClaim(r, m) => q = r
        /\ row[m] \in Unclaimed =>
              /\ wins[m] = 0
              /\ \A r \in Reqs : ~Announcing(r, m)

CancelInv ==
    \A r \in Reqs :
        At(r, "update") /\ req[r].s = "cancelled" => row[req[r].m] \notin Unclaimed

RoomInv ==
    \A m \in Msgs : ~blurred[m] =>
        /\ \A r \in Reqs : Announcing(r, m) => row[m] = req[r].s
        /\ \A q, r \in Reqs : Announcing(q, m) /\ Announcing(r, m) => q = r
        /\ (\A r \in Reqs : ~Announcing(r, m)) => ui[m] = row[m]

IInv == TypeOK /\ PhaseInv /\ ClaimInv /\ CancelInv /\ RoomInv

-----------------------------------------------------------------------------
(***************************************************************************)
(* The states of a row and the steps of a handler are distinct constants;  *)
(* these facts keep the case analyses below free of their definitions.     *)
(***************************************************************************)
LEMMA StateFacts ==
    /\ "received" \in ValidStates /\ "cancelled" \in ValidStates
    /\ "received" \notin Unclaimed /\ "cancelled" \notin Unclaimed
    /\ ValidStates \cap Unclaimed = {}
    /\ Active \subseteq ValidStates
    /\ "absent" \in Unclaimed /\ "null" \in Unclaimed
    /\ RowState = ValidStates \cup Unclaimed
  BY DEF ValidStates, Unclaimed, Active, RowState

\* The first query of a PUT fits the state it asks for.
LEMMA FirstQueryFits ==
    ASSUME NEW s \in ValidStates
    PROVE  /\ FirstQuery(s) \in Query \ {"cancel", "lookup"}
           /\ FirstQuery(s) = "claim" => s = "received"
           /\ FirstQuery(s) = "check" => s = "cancelled"
           /\ FirstQuery(s) = "update" => s \notin {"received", "cancelled"}
  BY DEF FirstQuery, Query, ValidStates

\* A slot that is not idle holds a request.
LEMMA BusySlot ==
    ASSUME TypeOK, NEW r \in Reqs, req[r].pc # "idle"
    PROVE  /\ req[r] \in Request
           /\ req[r].m \in Msgs
           /\ req[r].s \in ValidStates
  BY DEF TypeOK, Request, Idle

LEMMA InitInv == Init => IInv
  BY DEF Init, IInv, TypeOK, PhaseInv, ClaimInv, CancelInv, RoomInv, RowsInit,
         RowState, Unclaimed, ValidStates, Idle, At, Announcing, HoldsClaim

(***************************************************************************)
(* Every step keeps the types.                                             *)
(***************************************************************************)
LEMMA TypeStep == TypeOK /\ [Next]_vars => TypeOK'
<1> SUFFICES ASSUME TypeOK, [Next]_vars PROVE TypeOK'
  OBVIOUS
<1> USE StateFacts
<1>1. ASSUME NEW m \in Msgs, Insert(m) PROVE TypeOK'
  BY <1>1 DEF Insert, InsertRow, TypeOK
<1>2. ASSUME NEW r \in Reqs, NEW m \in Msgs, SocketCancel(r, m) PROVE TypeOK'
  BY <1>2 DEF SocketCancel, TypeOK, Request, Query
<1>3. ASSUME NEW r \in Reqs, NEW m \in Msgs, NEW s \in ValidStates, PutState(r, m, s)
      PROVE TypeOK'
  BY <1>3, FirstQueryFits DEF PutState, TypeOK, Request, Query
<1>4. ASSUME NEW r \in Reqs, Step(r) PROVE TypeOK'
  <2>1. req[r].pc # "idle"
    BY <1>4 DEF Step, CheckCancel, Claim, Lookup, Update, CancelUpdate, Emit, QueryFails,
                At, Query
  <2>2. req[r] \in Request /\ req[r].m \in Msgs /\ req[r].s \in ValidStates
    BY <2>1, BusySlot
  <2>3. ASSUME NEW pc \in Query \cup {"emit"}, Goto(r, pc)
        PROVE  req' \in [Reqs -> Request \cup {Idle}]
    BY <2>2, <2>3 DEF Goto, TypeOK, Request
  <2>4. Finish(r) => req' \in [Reqs -> Request \cup {Idle}]
    BY DEF Finish, TypeOK
  <2>5. ASSUME Changed(r)
        PROVE  /\ req' \in [Reqs -> Request \cup {Idle}]
               /\ wins' \in [Msgs -> Nat]
               /\ ui' \in [Msgs -> RowState]
               /\ blurred' \in [Msgs -> BOOLEAN]
    BY <2>3, <2>5 DEF Changed, TypeOK
  <2>6. CASE CheckCancel(r)
    BY <2>3, <2>4, <2>6 DEF CheckCancel, TypeOK, Query
  <2>7. CASE Claim(r)
    <3>1. CASE ClaimRow(req[r].m) /\ Changed(r)
      BY <2>5, <3>1 DEF ClaimRow, TypeOK
    <3>2. CASE Goto(r, "lookup") /\ UNCHANGED <<row, wins, ui, blurred>>
      BY <2>3, <3>2 DEF TypeOK, Query
    <3> QED BY <2>7, <3>1, <3>2 DEF Claim
  <2>8. CASE Lookup(r)
    BY <2>4, <2>8 DEF Lookup, TypeOK
  <2>9. CASE Update(r)
    <3>1. CASE WriteRow(req[r].m, req[r].s) /\ Changed(r)
      BY <2>2, <2>5, <3>1 DEF WriteRow, TypeOK
    <3>2. CASE Finish(r) /\ UNCHANGED <<row, wins, ui, blurred>>
      BY <2>4, <3>2 DEF TypeOK
    <3> QED BY <2>9, <3>1, <3>2 DEF Update
  <2>10. CASE CancelUpdate(r)
    <3>1. CASE CancelRow(req[r].m) /\ Changed(r)
      BY <2>2, <2>5, <3>1 DEF CancelRow, TypeOK
    <3>2. CASE Finish(r) /\ UNCHANGED <<row, wins, ui, blurred>>
      BY <2>4, <3>2 DEF TypeOK
    <3> QED BY <2>10, <3>1, <3>2 DEF CancelUpdate
  <2>11. CASE Emit(r)
    BY <2>2, <2>4, <2>11 DEF Emit, TypeOK
  <2>12. CASE QueryFails(r)
    <3>1. row' \in [Msgs -> RowState]
      BY <2>2, <2>12 DEF QueryFails, Writes, ClaimRow, WriteRow, CancelRow, TypeOK
    <3>2. blurred' \in [Msgs -> BOOLEAN]
      BY <2>12 DEF QueryFails, TypeOK
    <3> QED BY <2>4, <2>12, <3>1, <3>2 DEF QueryFails, TypeOK
  <2> QED
    BY <1>4, <2>6, <2>7, <2>8, <2>9, <2>10, <2>11, <2>12 DEF Step
<1>5. CASE Restart
  BY <1>5 DEF Restart, TypeOK
<1>6. CASE UNCHANGED vars
  BY <1>6 DEF vars, TypeOK
<1> QED
  BY <1>1, <1>2, <1>3, <1>4, <1>5, <1>6 DEF Next

(***************************************************************************)
(* Type correctness, for every instance.                                   *)
(***************************************************************************)
THEOREM TypeCorrect == Spec => []TypeOK
<1>1. Init => TypeOK
  BY InitInv DEF IInv
<1>2. QED
  BY <1>1, TypeStep, PTL DEF Spec

-----------------------------------------------------------------------------
(***************************************************************************)
(* What the three ways to move a slot on do to the slots.                  *)
(***************************************************************************)
LEMMA GotoSlots ==
    ASSUME TypeOK, NEW r \in Reqs, req[r].pc # "idle", NEW pc, Goto(r, pc)
    PROVE  /\ req'[r].pc = pc
           /\ req'[r].m = req[r].m
           /\ req'[r].s = req[r].s
           /\ \A q \in Reqs : q # r => req'[q] = req[q]
  BY BusySlot DEF Goto, TypeOK, Request

LEMMA FinishSlots ==
    ASSUME TypeOK, NEW r \in Reqs, Finish(r)
    PROVE  /\ req'[r].pc = "idle"
           /\ \A q \in Reqs : q # r => req'[q] = req[q]
  BY DEF Finish, TypeOK, Idle

LEMMA ArriveSlots ==
    ASSUME TypeOK, NEW r \in Reqs, NEW m \in Msgs, NEW s, NEW pc,
           req' = [req EXCEPT ![r] = [pc |-> pc, m |-> m, s |-> s]]
    PROVE  /\ req'[r].pc = pc
           /\ req'[r].m = m
           /\ req'[r].s = s
           /\ \A q \in Reqs : q # r => req'[q] = req[q]
  BY DEF TypeOK

(***************************************************************************)
(* A busy slot does exactly one of five things: it goes on to another      *)
(* query, it ends without a trace, it changes the row and goes on to the   *)
(* announcement, it changes the row and ends unheard, or it announces and  *)
(* ends.                                                                   *)
(***************************************************************************)
Proceed(r) ==
    /\ \/ At(r, "check") /\ row[req[r].m] \in Active /\ Goto(r, "update")
       \/ At(r, "claim") /\ Goto(r, "lookup")
    /\ UNCHANGED <<row, wins, ui, blurred>>

End(r) == Finish(r) /\ UNCHANGED <<row, wins, ui, blurred>>

Change(r) == Writes(r) /\ Changed(r)

Unheard(r) ==
    /\ Writes(r)
    /\ Finish(r)
    /\ blurred' = [blurred EXCEPT ![req[r].m] = TRUE]
    /\ UNCHANGED <<wins, ui>>

LEMMA StepKinds ==
    ASSUME NEW r \in Reqs, Step(r)
    PROVE  /\ req[r].pc # "idle"
           /\ \/ Proceed(r)
              \/ End(r) /\ ~At(r, "emit")
              \/ Change(r)
              \/ Unheard(r)
              \/ Emit(r)
<1>1. CASE CheckCancel(r)
  BY <1>1 DEF CheckCancel, Proceed, End, At
<1>2. CASE Claim(r)
  BY <1>2 DEF Claim, Proceed, Change, Writes, At
<1>3. CASE Lookup(r)
  BY <1>3 DEF Lookup, End, At
<1>4. CASE Update(r)
  BY <1>4 DEF Update, Change, Writes, End, At
<1>5. CASE CancelUpdate(r)
  BY <1>5 DEF CancelUpdate, Change, Writes, End, At
<1>6. CASE Emit(r)
  BY <1>6 DEF Emit, At
<1>7. CASE QueryFails(r)
  BY <1>7 DEF QueryFails, End, Unheard, At, Query
<1> QED
  BY <1>1, <1>2, <1>3, <1>4, <1>5, <1>6, <1>7 DEF Step

(***************************************************************************)
(* What a change of the row does, under the invariant: the row of the      *)
(* request, and no other, now holds the state the request asked for.       *)
(***************************************************************************)
LEMMA WriteFacts ==
    ASSUME TypeOK, PhaseInv, NEW r \in Reqs, Writes(r)
    PROVE  /\ req[r].m \in Msgs
           /\ req[r].s \in ValidStates
           /\ row'[req[r].m] = req[r].s
           /\ \A m \in Msgs : m # req[r].m => row'[m] = row[m]
           /\ ~At(r, "emit")
           /\ req[r].s = "received" => row[req[r].m] = "null"
           /\ row[req[r].m] = "null" => req[r].s = "received" \/ At(r, "update")
           /\ row[req[r].m] # "absent"
<1>1. req[r].pc # "idle" /\ ~At(r, "emit")
  BY DEF Writes, At
<1>2. req[r].m \in Msgs /\ req[r].s \in ValidStates
  BY <1>1, BusySlot
<1>3. CASE At(r, "claim") /\ ClaimRow(req[r].m)
  BY <1>1, <1>2, <1>3 DEF ClaimRow, TypeOK, PhaseInv
<1>4. CASE At(r, "update") /\ WriteRow(req[r].m, req[r].s)
  BY <1>1, <1>2, <1>4 DEF WriteRow, TypeOK, PhaseInv
<1>5. CASE At(r, "cancel") /\ CancelRow(req[r].m)
  BY <1>1, <1>2, <1>5 DEF CancelRow, Active, TypeOK, PhaseInv
<1> QED
  BY <1>3, <1>4, <1>5 DEF Writes

-----------------------------------------------------------------------------
(***************************************************************************)
(* A proof that a step preserves an invariant has these cases.             *)
(***************************************************************************)
LEMMA NextCases ==
    ASSUME [Next]_vars, TypeOK, NEW ACTION P,
           \A m \in Msgs : Insert(m) => P,
           \A r \in Reqs, m \in Msgs : SocketCancel(r, m) => P,
           \A r \in Reqs, m \in Msgs, s \in ValidStates : PutState(r, m, s) => P,
           \A r \in Reqs : req[r].pc # "idle" /\ Proceed(r) => P,
           \A r \in Reqs : req[r].pc # "idle" /\ End(r) /\ ~At(r, "emit") => P,
           \A r \in Reqs : req[r].pc # "idle" /\ Change(r) => P,
           \A r \in Reqs : req[r].pc # "idle" /\ Unheard(r) => P,
           \A r \in Reqs : req[r].pc # "idle" /\ Emit(r) => P,
           Restart => P,
           UNCHANGED vars => P
    PROVE  P
  BY StepKinds DEF Next

LEMMA PhaseStep == TypeOK /\ PhaseInv /\ [Next]_vars => PhaseInv'
<1> SUFFICES ASSUME TypeOK, PhaseInv, [Next]_vars PROVE PhaseInv'
  OBVIOUS
<1>1. ASSUME NEW m \in Msgs, Insert(m) PROVE PhaseInv'
  BY <1>1 DEF Insert, PhaseInv, At
<1>2. ASSUME NEW r \in Reqs, NEW m \in Msgs, SocketCancel(r, m) PROVE PhaseInv'
  BY <1>2, ArriveSlots DEF SocketCancel, PhaseInv, At
<1>3. ASSUME NEW r \in Reqs, NEW m \in Msgs, NEW s \in ValidStates, PutState(r, m, s)
      PROVE PhaseInv'
  BY <1>3, ArriveSlots, FirstQueryFits DEF PutState, PhaseInv, At, Query
<1>4. ASSUME NEW r \in Reqs, req[r].pc # "idle", Proceed(r) PROVE PhaseInv'
  BY <1>4, GotoSlots DEF Proceed, PhaseInv, At
<1>5. ASSUME NEW r \in Reqs, End(r) PROVE PhaseInv'
  BY <1>5, FinishSlots DEF End, PhaseInv, At
<1>6. ASSUME NEW r \in Reqs, req[r].pc # "idle", Change(r) PROVE PhaseInv'
  BY <1>6, GotoSlots DEF Change, Changed, PhaseInv, At
<1>7. ASSUME NEW r \in Reqs, Emit(r) PROVE PhaseInv'
  BY <1>7, FinishSlots DEF Emit, PhaseInv, At
<1>8. CASE Restart
  BY <1>8 DEF Restart, PhaseInv, At, Idle
<1>9. CASE UNCHANGED vars
  BY <1>9 DEF vars, PhaseInv, At
<1>10. ASSUME NEW r \in Reqs, Unheard(r) PROVE PhaseInv'
  BY <1>10, FinishSlots DEF Unheard, PhaseInv, At
<1> QED
  BY <1>1, <1>2, <1>3, <1>4, <1>5, <1>6, <1>7, <1>8, <1>9, <1>10, NextCases

(***************************************************************************)
(* No step makes a second winner.  The row leaves Unclaimed with its first *)
(* change and never returns, so the guarded UPDATE succeeds once; between  *)
(* that UPDATE and the answer the claim is held by one request.            *)
(***************************************************************************)
LEMMA ClaimStep == TypeOK /\ PhaseInv /\ ClaimInv /\ [Next]_vars => ClaimInv'
<1> SUFFICES ASSUME TypeOK, PhaseInv, ClaimInv, [Next]_vars PROVE ClaimInv'
  OBVIOUS
<1> USE StateFacts DEF HoldsClaim, Announcing, At
<1>1. ASSUME NEW m \in Msgs, Insert(m) PROVE ClaimInv'
  BY <1>1 DEF Insert, InsertRow, ClaimInv, TypeOK
<1>2. ASSUME NEW r \in Reqs, NEW m \in Msgs, SocketCancel(r, m) PROVE ClaimInv'
  BY <1>2, ArriveSlots DEF SocketCancel, ClaimInv
<1>3. ASSUME NEW r \in Reqs, NEW m \in Msgs, NEW s \in ValidStates, PutState(r, m, s)
      PROVE ClaimInv'
  BY <1>3, ArriveSlots, FirstQueryFits DEF PutState, ClaimInv, Query
<1>4. ASSUME NEW r \in Reqs, req[r].pc # "idle", Proceed(r) PROVE ClaimInv'
  BY <1>4, GotoSlots DEF Proceed, ClaimInv
<1>5. ASSUME NEW r \in Reqs, End(r) PROVE ClaimInv'
  BY <1>5, FinishSlots DEF End, ClaimInv
<1>6. ASSUME NEW r \in Reqs, req[r].pc # "idle", Change(r) PROVE ClaimInv'
  <2>1. /\ req'[r].pc = "emit" /\ req'[r].m = req[r].m /\ req'[r].s = req[r].s
        /\ \A q \in Reqs : q # r => req'[q] = req[q]
        /\ wins' = wins
    BY <1>6, GotoSlots DEF Change, Changed
  <2> SUFFICES ASSUME NEW m \in Msgs PROVE ClaimInv!(m)'
    BY DEF ClaimInv
  <2>2. CASE m # req[r].m
    BY <1>6, <2>1, <2>2, WriteFacts DEF Change, ClaimInv
  <2>3. CASE m = req[r].m
    <3>1. row'[m] \notin Unclaimed
      BY <1>6, <2>3, WriteFacts DEF Change
    <3>2. CASE req[r].s = "received"
      BY <1>6, <2>1, <2>3, <3>1, <3>2, WriteFacts DEF Change, ClaimInv
    <3>3. CASE req[r].s # "received"
      BY <2>1, <2>3, <3>1, <3>3 DEF ClaimInv
    <3> QED BY <3>2, <3>3
  <2> QED BY <2>2, <2>3
<1>7. ASSUME NEW r \in Reqs, Emit(r) PROVE ClaimInv'
  <2>1. /\ req[r].m \in Msgs
        /\ req'[r].pc = "idle"
        /\ \A q \in Reqs : q # r => req'[q] = req[q]
        /\ row' = row
    BY <1>7, BusySlot, FinishSlots DEF Emit
  <2> SUFFICES ASSUME NEW m \in Msgs PROVE ClaimInv!(m)'
    BY DEF ClaimInv
  <2>2. CASE m # req[r].m \/ req[r].s # "received"
    BY <1>7, <2>1, <2>2 DEF Emit, ClaimInv, TypeOK
  <2>3. CASE m = req[r].m /\ req[r].s = "received"
    <3>1. HoldsClaim(r, m) /\ wins[m] = 0 /\ wins'[m] = 1
      BY <1>7, <2>1, <2>3 DEF Emit, ClaimInv, TypeOK
    <3>2. \A q \in Reqs : ~HoldsClaim(q, m)'
      BY <2>1, <3>1 DEF ClaimInv
    <3>3. row[m] \notin Unclaimed
      BY <3>1 DEF ClaimInv
    <3> QED BY <2>1, <3>1, <3>2, <3>3
  <2> QED BY <2>2, <2>3
<1>8. CASE Restart
  BY <1>8 DEF Restart, ClaimInv, Idle
<1>9. CASE UNCHANGED vars
  BY <1>9 DEF vars, ClaimInv
<1>10. ASSUME NEW r \in Reqs, Unheard(r) PROVE ClaimInv'
  <2>1. /\ req'[r].pc = "idle"
        /\ \A q \in Reqs : q # r => req'[q] = req[q]
        /\ wins' = wins
    BY <1>10, FinishSlots DEF Unheard
  <2>2. row'[req[r].m] \notin Unclaimed /\ \A m \in Msgs : m # req[r].m => row'[m] = row[m]
    BY <1>10, WriteFacts DEF Unheard
  <2> QED BY <2>1, <2>2 DEF ClaimInv
<1> QED
  BY <1>1, <1>2, <1>3, <1>4, <1>5, <1>6, <1>7, <1>8, <1>9, <1>10, NextCases

(***************************************************************************)
(* The check of a PUT of 'cancelled' grows stale in one respect only: the  *)
(* row may have left the active states, but it is never unclaimed again.   *)
(***************************************************************************)
LEMMA RowStaysClaimed ==
    ASSUME TypeOK, PhaseInv, [Next]_vars, NEW m \in Msgs, row[m] \notin Unclaimed
    PROVE  row'[m] \notin Unclaimed
<1> USE StateFacts
<1>1. ASSUME NEW n \in Msgs, Insert(n) PROVE row'[m] \notin Unclaimed
  BY <1>1 DEF Insert, InsertRow, TypeOK
<1>2. ASSUME NEW r \in Reqs, Writes(r) PROVE row'[m] \notin Unclaimed
  BY <1>2, WriteFacts
<1> QED
  BY <1>1, <1>2, NextCases
  DEF SocketCancel, PutState, Proceed, End, Change, Unheard, Emit, Restart, vars

LEMMA CancelStep == TypeOK /\ PhaseInv /\ CancelInv /\ [Next]_vars => CancelInv'
<1> SUFFICES ASSUME TypeOK, PhaseInv, CancelInv, [Next]_vars PROVE CancelInv'
  OBVIOUS
<1> USE StateFacts, RowStaysClaimed DEF At
<1>1. ASSUME NEW m \in Msgs, Insert(m) PROVE CancelInv'
  BY <1>1, BusySlot DEF Insert, CancelInv
<1>2. ASSUME NEW r \in Reqs, NEW m \in Msgs, SocketCancel(r, m) PROVE CancelInv'
  BY <1>2, ArriveSlots DEF SocketCancel, CancelInv
<1>3. ASSUME NEW r \in Reqs, NEW m \in Msgs, NEW s \in ValidStates, PutState(r, m, s)
      PROVE CancelInv'
  BY <1>3, ArriveSlots, FirstQueryFits DEF PutState, CancelInv
<1>4. ASSUME NEW r \in Reqs, req[r].pc # "idle", Proceed(r) PROVE CancelInv'
  <2>1. row[req[r].m] \in Active => row[req[r].m] \notin Unclaimed
    BY DEF Active, Unclaimed
  <2> QED BY <1>4, <2>1, GotoSlots DEF Proceed, CancelInv
<1>5. ASSUME NEW r \in Reqs, End(r) PROVE CancelInv'
  BY <1>5, FinishSlots DEF End, CancelInv
<1>6. ASSUME NEW r \in Reqs, req[r].pc # "idle", Change(r) PROVE CancelInv'
  BY <1>6, GotoSlots, BusySlot DEF Change, Changed, CancelInv
<1>7. ASSUME NEW r \in Reqs, Emit(r) PROVE CancelInv'
  BY <1>7, FinishSlots DEF Emit, CancelInv
<1>8. CASE Restart
  BY <1>8 DEF Restart, CancelInv, Idle
<1>9. CASE UNCHANGED vars
  BY <1>9 DEF vars, CancelInv
<1>10. ASSUME NEW r \in Reqs, Unheard(r) PROVE CancelInv'
  BY <1>10, FinishSlots, BusySlot DEF Unheard, CancelInv
<1> QED
  BY <1>1, <1>2, <1>3, <1>4, <1>5, <1>6, <1>7, <1>8, <1>9, <1>10, NextCases

(***************************************************************************)
(* As long as a message is not blurred, its only announcement names the    *)
(* state of its row.                                                       *)
(***************************************************************************)
LEMMA RoomStep == TypeOK /\ PhaseInv /\ RoomInv /\ [Next]_vars => RoomInv'
<1> SUFFICES ASSUME TypeOK, PhaseInv, RoomInv, [Next]_vars PROVE RoomInv'
  OBVIOUS
<1> USE StateFacts DEF Announcing, At
<1>1. ASSUME NEW m \in Msgs, Insert(m) PROVE RoomInv'
  <2>1. \A r \in Reqs : req[r].pc = "emit" => req[r].s # "absent"
    BY BusySlot DEF ValidStates
  <2> QED BY <1>1, <2>1 DEF Insert, InsertRow, RoomInv, TypeOK
<1>2. ASSUME NEW r \in Reqs, NEW m \in Msgs, SocketCancel(r, m) PROVE RoomInv'
  BY <1>2, ArriveSlots DEF SocketCancel, RoomInv
<1>3. ASSUME NEW r \in Reqs, NEW m \in Msgs, NEW s \in ValidStates, PutState(r, m, s)
      PROVE RoomInv'
  BY <1>3, ArriveSlots, FirstQueryFits DEF PutState, RoomInv, Query
<1>4. ASSUME NEW r \in Reqs, req[r].pc # "idle", Proceed(r) PROVE RoomInv'
  BY <1>4, GotoSlots DEF Proceed, RoomInv
<1>5. ASSUME NEW r \in Reqs, End(r), ~At(r, "emit") PROVE RoomInv'
  BY <1>5, FinishSlots DEF End, RoomInv
<1>6. ASSUME NEW r \in Reqs, req[r].pc # "idle", Change(r) PROVE RoomInv'
  <2>1. /\ req'[r].pc = "emit" /\ req'[r].m = req[r].m /\ req'[r].s = req[r].s
        /\ \A q \in Reqs : q # r => req'[q] = req[q]
        /\ ui' = ui
    BY <1>6, GotoSlots DEF Change, Changed
  <2>2. \A m \in Msgs : blurred'[m] =
            IF m = req[r].m THEN \E q \in Reqs : Announcing(q, m) ELSE blurred[m]
    BY <1>6 DEF Change, Changed, TypeOK
  <2> SUFFICES ASSUME NEW m \in Msgs, ~blurred'[m] PROVE RoomInv!(m)'
    BY DEF RoomInv
  <2>3. CASE m = req[r].m
    <3>1. \A q \in Reqs : ~(req[q].pc = "emit" /\ req[q].m = m)
      BY <2>2, <2>3
    <3>2. \A q \in Reqs : req'[q].pc = "emit" /\ req'[q].m = m => q = r
      BY <2>1, <3>1
    <3>3. row'[m] = req'[r].s
      BY <1>6, <2>1, <2>3, WriteFacts DEF Change
    <3> QED BY <2>1, <2>3, <3>2, <3>3
  <2>4. CASE m # req[r].m
    <3>1. ~blurred[m] /\ row'[m] = row[m] /\ req[r].pc # "emit"
      BY <1>6, <2>2, <2>4, WriteFacts DEF Change
    <3> QED BY <2>1, <2>4, <3>1 DEF RoomInv
  <2> QED BY <2>3, <2>4
<1>7. ASSUME NEW r \in Reqs, req[r].pc # "idle", Emit(r) PROVE RoomInv'
  <2>1. req[r].m \in Msgs
    BY <1>7, BusySlot
  <2> SUFFICES ASSUME NEW m \in Msgs, ~blurred'[m] PROVE RoomInv!(m)'
    BY DEF RoomInv
  <2>2. CASE m = req[r].m
    BY <1>7, <2>1, <2>2, FinishSlots DEF Emit, RoomInv, TypeOK
  <2>3. CASE m # req[r].m
    BY <1>7, <2>1, <2>3, FinishSlots DEF Emit, RoomInv, TypeOK
  <2> QED BY <2>2, <2>3
<1>8. CASE Restart
  BY <1>8 DEF Restart, RoomInv, TypeOK, Idle
<1>9. CASE UNCHANGED vars
  BY <1>9 DEF vars, RoomInv
<1>10. ASSUME NEW r \in Reqs, Unheard(r) PROVE RoomInv'
  <2>1. /\ req'[r].pc = "idle"
        /\ \A q \in Reqs : q # r => req'[q] = req[q]
        /\ ui' = ui
    BY <1>10, FinishSlots DEF Unheard
  <2>2. \A m \in Msgs : blurred'[m] = (m = req[r].m \/ blurred[m])
    BY <1>10 DEF Unheard, TypeOK
  <2>3. ~At(r, "emit") /\ \A m \in Msgs : m # req[r].m => row'[m] = row[m]
    BY <1>10, WriteFacts DEF Unheard
  <2> SUFFICES ASSUME NEW m \in Msgs, ~blurred'[m] PROVE RoomInv!(m)'
    BY DEF RoomInv
  <2>4. m # req[r].m /\ ~blurred[m]
    BY <2>2
  <2> QED BY <2>1, <2>3, <2>4 DEF RoomInv
<1> QED
  BY <1>1, <1>2, <1>3, <1>4, <1>5, <1>6, <1>7, <1>8, <1>9, <1>10, NextCases

THEOREM Invariance == Spec => []IInv
<1>1. Init => IInv
  BY InitInv
<1>2. IInv /\ [Next]_vars => IInv'
  BY TypeStep, PhaseStep, ClaimStep, CancelStep, RoomStep DEF IInv
<1>3. QED
  BY <1>1, <1>2, PTL DEF Spec

(***************************************************************************)
(* No message is answered claimed=true to two callers.                     *)
(***************************************************************************)
THEOREM OnlyOneClaim == Spec => []ClaimedOnce
<1>1. IInv => ClaimedOnce
  BY DEF IInv, ClaimInv, ClaimedOnce
<1>2. QED
  BY <1>1, Invariance, PTL

(***************************************************************************)
(* The room of a message knows its state whenever nothing is under way and *)
(* its announcements never overlapped.                                     *)
(***************************************************************************)
THEOREM RoomKnows == Spec => []RoomInStep
<1>1. IInv => RoomInStep
  BY DEF IInv, RoomInv, RoomInStep, TypeOK
<1>2. QED
  BY <1>1, Invariance, PTL

(***************************************************************************)
(* An unclaimed message is never cancelled, in spite of the two statements *)
(* of the PUT.                                                             *)
(***************************************************************************)
THEOREM OnlyClaimedCancelled == Spec => NoUnclaimedCancel
<1>1. IInv /\ [Next]_vars
      => [\A m \in Msgs : row[m] \in Unclaimed => row'[m] # "cancelled"]_vars
  <2> SUFFICES ASSUME IInv, [Next]_vars, NEW m \in Msgs, row[m] \in Unclaimed
               PROVE  row'[m] # "cancelled"
    OBVIOUS
  <2> USE StateFacts DEF IInv
  <2>1. ASSUME NEW n \in Msgs, Insert(n) PROVE row'[m] # "cancelled"
    BY <2>1 DEF Insert, InsertRow, TypeOK
  <2>2. ASSUME NEW r \in Reqs, Writes(r) PROVE row'[m] # "cancelled"
    <3>1. CASE At(r, "claim") /\ ClaimRow(req[r].m)
      BY <3>1 DEF ClaimRow, TypeOK
    <3>2. CASE At(r, "update") /\ WriteRow(req[r].m, req[r].s)
      BY <3>2 DEF WriteRow, CancelInv, TypeOK
    <3>3. CASE At(r, "cancel") /\ CancelRow(req[r].m)
      BY <3>3 DEF CancelRow, Active, Unclaimed, TypeOK
    <3> QED BY <2>2, <3>1, <3>2, <3>3 DEF Writes
  <2> QED
    BY <2>1, <2>2, NextCases
    DEF SocketCancel, PutState, Proceed, End, Change, Unheard, Emit, Restart, vars
<1>2. QED
  BY <1>1, Invariance, PTL DEF Spec, NoUnclaimedCancel

-----------------------------------------------------------------------------
(***************************************************************************)
(* The refinement.  A step of the server leaves every grant as it is, or   *)
(* takes, tells or closes the grant of the message it is about; a restart  *)
(* forgets the takers.                                                     *)
(***************************************************************************)
Grants == [m \in Msgs |-> GrantOf(m)]

LEMMA SameGrants ==
    ASSUME row' = row, wins' = wins,
           \A m \in Msgs : Holding(m)' <=> Holding(m)
    PROVE  Grants' = Grants
  BY DEF Grants, GrantOf

LEMMA OneGrantMoves ==
    ASSUME NEW m \in Msgs, NEW a, NEW b, GrantOf(m) = a, GrantOf(m)' = b,
           \A n \in Msgs \ {m} : GrantOf(n)' = GrantOf(n)
    PROVE  Register!Move(m, a, b)
  BY DEF Grants, Register!Move

LEMMA ChangeRefines ==
    ASSUME IInv, NEW r \in Reqs, req[r].pc # "idle", Change(r)
    PROVE  [Register!Next]_Grants
<1> USE StateFacts DEF IInv
<1> PICK m \in Msgs : m = req[r].m
  BY WriteFacts DEF Change
<1>1. /\ req'[r].pc = "emit" /\ req'[r].m = m /\ req'[r].s = req[r].s
      /\ \A q \in Reqs : q # r => req'[q] = req[q]
      /\ wins' = wins
  BY GotoSlots DEF Change, Changed
<1>2. m \in Msgs /\ row'[m] \notin Unclaimed /\ req[r].pc # "emit"
  BY WriteFacts DEF Change, At
<1>3. \A n \in Msgs \ {m} : GrantOf(n)' = GrantOf(n)
  BY <1>1, <1>2, WriteFacts DEF Change, GrantOf, Holding, Announcing, At
<1>4. CASE req[r].s = "received"
  <2>1. row[m] = "null" /\ wins[m] = 0
    BY <1>4, WriteFacts DEF Change, ClaimInv
  <2>2. GrantOf(m) = "open"
    BY <2>1 DEF GrantOf
  <2>3. GrantOf(m)' = "taken"
    BY <1>1, <1>2, <1>4, <2>1 DEF GrantOf, Holding, Announcing, At
  <2> QED
    BY <1>2, <1>3, <2>2, <2>3, OneGrantMoves DEF Register!Next, Register!Take
<1>5. CASE req[r].s # "received"
  <2>1. Holding(m)' <=> Holding(m)
    BY <1>1, <1>2, <1>5 DEF Holding, Announcing, At
  <2>2. CASE row[m] \in Unclaimed
    <3>1. GrantOf(m) = "open" /\ wins[m] = 0 /\ ~Holding(m)
      BY <1>2, <2>2 DEF GrantOf, ClaimInv, Holding
    <3>2. GrantOf(m)' = "closed"
      BY <1>1, <1>2, <2>1, <3>1 DEF GrantOf
    <3> QED
      BY <1>2, <1>3, <3>1, <3>2, OneGrantMoves DEF Register!Next, Register!Close
  <2>3. CASE row[m] \notin Unclaimed
    <3>1. GrantOf(m)' = GrantOf(m)
      BY <1>1, <1>2, <2>1, <2>3 DEF GrantOf
    <3>2. Grants' = Grants
      BY <1>3, <3>1 DEF Grants
    <3> QED BY <3>2
  <2> QED BY <2>2, <2>3
<1> QED BY <1>4, <1>5

\* A claim or a change nobody heard of closes what was open.
LEMMA UnheardRefines ==
    ASSUME IInv, NEW r \in Reqs, Unheard(r)
    PROVE  [Register!Next]_Grants
<1> USE StateFacts DEF IInv
<1> PICK m \in Msgs : m = req[r].m
  BY WriteFacts DEF Unheard
<1>1. /\ req'[r].pc = "idle"
      /\ \A q \in Reqs : q # r => req'[q] = req[q]
      /\ wins' = wins
  BY FinishSlots DEF Unheard
<1>2. /\ m \in Msgs /\ row'[m] \notin Unclaimed /\ req[r].pc # "emit"
      /\ \A n \in Msgs : n # m => row'[n] = row[n]
  BY WriteFacts DEF Unheard, At
<1>3. \A n \in Msgs : Holding(n)' <=> Holding(n)
  BY <1>1, <1>2 DEF Holding, Announcing, At
<1>4. \A n \in Msgs \ {m} : GrantOf(n)' = GrantOf(n)
  BY <1>1, <1>2, <1>3 DEF GrantOf
<1>5. CASE row[m] \in Unclaimed
  <2>1. GrantOf(m) = "open" /\ wins[m] = 0 /\ ~Holding(m)
    BY <1>5 DEF GrantOf, ClaimInv, Holding
  <2>2. GrantOf(m)' = "closed"
    BY <1>1, <1>2, <1>3, <2>1 DEF GrantOf
  <2> QED
    BY <1>2, <1>4, <2>1, <2>2, OneGrantMoves DEF Register!Next, Register!Close
<1>6. CASE row[m] \notin Unclaimed
  <2>1. GrantOf(m)' = GrantOf(m)
    BY <1>1, <1>2, <1>3, <1>6 DEF GrantOf
  <2>2. Grants' = Grants
    BY <1>4, <2>1 DEF Grants
  <2> QED BY <2>2
<1> QED BY <1>5, <1>6

LEMMA EmitRefines ==
    ASSUME IInv, NEW r \in Reqs, Emit(r)
    PROVE  [Register!Next]_Grants
<1> USE StateFacts DEF IInv
<1> PICK m \in Msgs : m = req[r].m
  BY BusySlot DEF Emit, At
<1>1. /\ m \in Msgs
      /\ req'[r].pc = "idle"
      /\ \A q \in Reqs : q # r => req'[q] = req[q]
      /\ row' = row
  BY BusySlot, FinishSlots DEF Emit, At
<1>2. CASE req[r].s = "received"
  <2>1. HoldsClaim(r, m) /\ Holding(m)
    BY <1>1, <1>2 DEF Emit, HoldsClaim, Announcing, At, Holding
  <2>2. wins[m] = 0 /\ wins'[m] = 1 /\ row[m] \notin Unclaimed
    BY <1>1, <1>2, <2>1 DEF Emit, ClaimInv, HoldsClaim, TypeOK
  <2>3. GrantOf(m) = "taken" /\ GrantOf(m)' = "granted"
    BY <1>1, <2>1, <2>2 DEF GrantOf
  <2>4. \A n \in Msgs \ {m} : GrantOf(n)' = GrantOf(n)
    BY <1>1 DEF Emit, GrantOf, Holding, Announcing, At, TypeOK
  <2> QED
    BY <1>1, <2>3, <2>4, OneGrantMoves DEF Register!Next, Register!Tell
<1>3. CASE req[r].s # "received"
  <2>1. wins' = wins
    BY <1>1, <1>3 DEF Emit, TypeOK
  <2>2. \A n \in Msgs : Holding(n)' <=> Holding(n)
    BY <1>1, <1>3 DEF Holding, Announcing, At
  <2> QED BY <1>1, <2>1, <2>2, SameGrants
<1> QED BY <1>2, <1>3

LEMMA RestartRefines ==
    ASSUME IInv, Restart
    PROVE  Register!Next
<1>1. \A m \in Msgs : ~Holding(m)'
  BY DEF Restart, Holding, Announcing, At, Idle
<1>2. \A m \in Msgs :
        GrantOf(m)' = IF GrantOf(m) = "taken" THEN "closed" ELSE GrantOf(m)
  BY <1>1 DEF Restart, GrantOf
<1>3. Register!Forget
  BY <1>2 DEF Register!Forget
<1> QED BY <1>3 DEF Register!Next

(***************************************************************************)
(* The claim protocol implements the one-shot grant.                       *)
(***************************************************************************)
THEOREM Refinement == Spec => ImplementsRegister
<1>1. Init => Register!Init
  BY DEF Init, RowsInit, Unclaimed, GrantOf, Register!Init
<1>2. IInv /\ [Next]_vars => [Register!Next]_Grants
  <2> SUFFICES ASSUME IInv, [Next]_vars PROVE [Register!Next]_Grants
    OBVIOUS
  <2> USE StateFacts DEF IInv, Holding, Announcing, At
  <2>1. ASSUME NEW m \in Msgs, Insert(m) PROVE Grants' = Grants
    <3>1. \A n \in Msgs : row'[n] \in Unclaimed <=> row[n] \in Unclaimed
      BY <2>1 DEF Insert, InsertRow, TypeOK
    <3> QED BY <2>1, <3>1 DEF Insert, Grants, GrantOf
  <2>2. ASSUME NEW r \in Reqs, NEW m \in Msgs, SocketCancel(r, m) PROVE Grants' = Grants
    <3>1. \A n \in Msgs : Holding(n)' <=> Holding(n)
      BY <2>2, ArriveSlots DEF SocketCancel
    <3> QED BY <2>2, <3>1, SameGrants DEF SocketCancel
  <2>3. ASSUME NEW r \in Reqs, NEW m \in Msgs, NEW s \in ValidStates, PutState(r, m, s)
        PROVE Grants' = Grants
    <3>1. \A n \in Msgs : Holding(n)' <=> Holding(n)
      BY <2>3, ArriveSlots, FirstQueryFits DEF PutState, Query
    <3> QED BY <2>3, <3>1, SameGrants DEF PutState
  <2>4. ASSUME NEW r \in Reqs, req[r].pc # "idle", Proceed(r) PROVE Grants' = Grants
    <3>1. \A n \in Msgs : Holding(n)' <=> Holding(n)
      BY <2>4, GotoSlots DEF Proceed
    <3> QED BY <2>4, <3>1, SameGrants DEF Proceed
  <2>5. ASSUME NEW r \in Reqs, End(r), ~At(r, "emit") PROVE Grants' = Grants
    <3>1. \A n \in Msgs : Holding(n)' <=> Holding(n)
      BY <2>5, FinishSlots DEF End
    <3> QED BY <2>5, <3>1, SameGrants DEF End
  <2>6. ASSUME UNCHANGED vars PROVE Grants' = Grants
    BY <2>6, SameGrants DEF vars
  <2> QED
    BY <2>1, <2>2, <2>3, <2>4, <2>5, <2>6, NextCases, ChangeRefines, UnheardRefines,
       EmitRefines, RestartRefines
<1>3. Grants = [m \in Msgs |-> GrantOf(m)]
  BY DEF Grants
<1> QED
  BY <1>1, <1>2, <1>3, Invariance, PTL
  DEF Spec, ImplementsRegister, Register!Spec, Grants
=============================================================================
