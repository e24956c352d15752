-------------------------- MODULE ChatBridgeProofs --------------------------
(***************************************************************************)
(* Theorems about ChatBridge for every set of bridges and messages and any *)
(* number of faults.  The inductive invariant names the owner of a claimed *)
(* message: there is always a bridge that won it, it is the only one that  *)
(* can hand the message over, and while it has not done so nobody has.     *)
(***************************************************************************)
EXTENDS ChatBridge, TLAPS

\* Bridge b has won the claim of m and its request to the webhook is under way.
Owns(b, m) == At(b, m, "forwarding")

\* Bridge b got m, whether or not it managed to hand it over.
Got(b, m) == phase[b][m] \in {"forwarding", "forwarded", "failed"}

UnclaimedInv ==
    \A m \in Msgs : row[m] \in Unclaimed =>
        /\ handed[m] = 0
        /\ \A b \in Bridges : phase[b][m] \notin {"forwarding", "forwarded", "skipped"}

OwnerInv ==
    \A m \in Msgs :
        /\ handed[m] <= 1
        /\ \A b \in Bridges : Owns(b, m) => handed[m] = 0
        /\ \A b, c \in Bridges : Owns(b, m) /\ Owns(c, m) => b = c

ClaimedInv ==
    \A m \in Msgs : row[m] \notin Unclaimed => \E b \in Bridges : Got(b, m)

\* Nobody has heard of a message that is not stored.
UnsentInv ==
    \A m \in Msgs, b \in Bridges : row[m] = "absent" => At(b, m, "idle")

IInv == TypeOK /\ UnclaimedInv /\ OwnerInv /\ ClaimedInv /\ UnsentInv

-----------------------------------------------------------------------------
LEMMA StateFacts ==
    /\ "absent" \in Unclaimed /\ "null" \in Unclaimed
    /\ "received" \notin Unclaimed
    /\ "received" \in RowState /\ "null" \in RowState
  BY DEF Unclaimed, RowState, ValidStates

\* Moving one handler leaves all the others where they are.
LEMMA GotoOthers ==
    ASSUME TypeOK, NEW b \in Bridges, NEW m \in Msgs, NEW p \in Phases, Goto(b, m, p)
    PROVE  /\ phase' \in [Bridges -> [Msgs -> Phases]]
           /\ \A c \in Bridges, n \in Msgs :
                 phase'[c][n] = IF c = b /\ n = m THEN p ELSE phase[c][n]
  BY DEF Goto, TypeOK

LEMMA InitInv == Init => IInv
  BY FaultAssumption
  DEF Init, IInv, TypeOK, UnclaimedInv, OwnerInv, ClaimedInv, UnsentInv, Owns, Got, At,
         RowsInit, RowState, Unclaimed, Phases, Busy

(***************************************************************************)
(* One lemma per action: the invariant after it.                           *)
(***************************************************************************)
LEMMA FaultType == ASSUME TypeOK, Fault PROVE faults' \in 0..MaxFaults
  BY FaultAssumption DEF TypeOK, Fault

LEMMA PostInv == ASSUME IInv, NEW m \in Msgs, Post(m) PROVE IInv'
<1> USE StateFacts DEF IInv, Post
<1>1. /\ phase' \in [Bridges -> [Msgs -> Phases]]
      /\ \A c \in Bridges, n \in Msgs :
            \/ phase'[c][n] = phase[c][n]
            \/ n = m /\ phase'[c][n] = "told" /\ phase[c][n] = "idle"
  BY DEF TypeOK, UnsentInv, InsertRow, At, Phases, Busy
<1>2. /\ row' \in [Msgs -> RowState]
      /\ \A n \in Msgs : row'[n] = IF n = m THEN "null" ELSE row[n]
      /\ row[m] = "absent"
  BY DEF TypeOK, InsertRow
<1>3. TypeOK'
  BY <1>1, <1>2 DEF TypeOK
<1>4. UnclaimedInv'
  BY <1>1, <1>2 DEF UnclaimedInv
<1>5. OwnerInv'
  BY <1>1 DEF OwnerInv, Owns, At
<1>6. ClaimedInv'
  BY <1>1, <1>2 DEF ClaimedInv, Got
<1>7. UnsentInv'
  BY <1>1, <1>2 DEF UnsentInv, At
<1> QED BY <1>3, <1>4, <1>5, <1>6, <1>7

LEMMA ReceiveInv ==
    ASSUME IInv, NEW b \in Bridges, NEW m \in Msgs, Receive(b, m) PROVE IInv'
<1> USE DEF IInv, Receive
<1>1. /\ phase' \in [Bridges -> [Msgs -> Phases]]
      /\ \A c \in Bridges, n \in Msgs :
            phase'[c][n] = IF c = b /\ n = m THEN "claiming" ELSE phase[c][n]
      /\ phase[b][m] = "told"
  BY GotoOthers DEF Phases, Busy, At
<1>2. TypeOK'
  BY <1>1 DEF TypeOK
<1>3. UnclaimedInv'
  BY <1>1 DEF UnclaimedInv
<1>4. OwnerInv'
  BY <1>1 DEF OwnerInv, Owns, At
<1>5. ClaimedInv'
  BY <1>1 DEF ClaimedInv, Got
<1>6. UnsentInv'
  BY <1>1 DEF UnsentInv, At
<1> QED BY <1>2, <1>3, <1>4, <1>5, <1>6

LEMMA WonInv ==
    ASSUME IInv, NEW b \in Bridges, NEW m \in Msgs, Won(b, m) PROVE IInv'
<1> USE StateFacts DEF IInv, Won
<1>1. /\ phase' \in [Bridges -> [Msgs -> Phases]]
      /\ \A c \in Bridges, n \in Msgs :
            phase'[c][n] = IF c = b /\ n = m THEN "forwarding" ELSE phase[c][n]
  BY GotoOthers DEF Phases, Busy
<1>2. /\ row' \in [Msgs -> RowState]
      /\ \A n \in Msgs : row'[n] = IF n = m THEN "received" ELSE row[n]
      /\ row[m] = "null"
  BY DEF TypeOK, ClaimRow
<1>3. /\ handed[m] = 0
      /\ \A c \in Bridges : ~Owns(c, m)
  BY <1>2 DEF UnclaimedInv, Owns, At
<1>4. TypeOK'
  BY <1>1, <1>2 DEF TypeOK
<1>5. UnclaimedInv'
  BY <1>1, <1>2 DEF UnclaimedInv
<1>6. OwnerInv'
  BY <1>1, <1>3 DEF OwnerInv, Owns, At
<1>7. ClaimedInv'
  BY <1>1, <1>2 DEF ClaimedInv, Got
<1>8. UnsentInv'
  BY <1>1, <1>2 DEF UnsentInv, At
<1> QED BY <1>4, <1>5, <1>6, <1>7, <1>8

LEMMA SkipInv ==
    ASSUME IInv, NEW b \in Bridges, NEW m \in Msgs, Skip(b, m) PROVE IInv'
<1> USE StateFacts DEF IInv, Skip
<1>1. /\ phase' \in [Bridges -> [Msgs -> Phases]]
      /\ \A c \in Bridges, n \in Msgs :
            phase'[c][n] = IF c = b /\ n = m THEN "skipped" ELSE phase[c][n]
      /\ phase[b][m] = "claiming"
  BY GotoOthers DEF Phases, At
<1>2. TypeOK'
  BY <1>1 DEF TypeOK
<1>3. UnclaimedInv'
  BY <1>1 DEF UnclaimedInv
<1>4. OwnerInv'
  BY <1>1 DEF OwnerInv, Owns, At
<1>5. ClaimedInv'
  BY <1>1 DEF ClaimedInv, Got
<1>6. UnsentInv'
  BY <1>1 DEF UnsentInv, At
<1> QED BY <1>2, <1>3, <1>4, <1>5, <1>6

LEMMA ClaimFailsInv ==
    ASSUME IInv, NEW b \in Bridges, NEW m \in Msgs, ClaimFails(b, m) PROVE IInv'
<1> USE StateFacts DEF IInv, ClaimFails
<1>1. /\ phase' \in [Bridges -> [Msgs -> Phases]]
      /\ \A c \in Bridges, n \in Msgs :
            phase'[c][n] = IF c = b /\ n = m THEN "failed" ELSE phase[c][n]
      /\ phase[b][m] = "claiming"
  BY GotoOthers DEF Phases, At
<1>2. /\ row' \in [Msgs -> RowState]
      /\ \A n \in Msgs : row'[n] = row[n] \/ (n = m /\ row'[n] = "received")
      /\ \A n \in Msgs : row[n] \notin Unclaimed => row'[n] = row[n]
  <2>1. row \in [Msgs -> RowState]
    BY DEF TypeOK
  <2>2. CASE ClaimRow(m)
    BY <2>1, <2>2 DEF ClaimRow
  <2>3. CASE UNCHANGED row
    BY <2>1, <2>3
  <2> QED BY <2>2, <2>3
<1>3. TypeOK'
  BY <1>1, <1>2, FaultType DEF TypeOK
<1>4. UnclaimedInv'
  BY <1>1, <1>2 DEF UnclaimedInv
<1>5. OwnerInv'
  BY <1>1 DEF OwnerInv, Owns, At
<1>6. ClaimedInv'
  BY <1>1, <1>2 DEF ClaimedInv, Got
<1>7. UnsentInv'
  BY <1>1, <1>2 DEF UnsentInv, At
<1> QED BY <1>3, <1>4, <1>5, <1>6, <1>7

\* The two ends of the request to the webhook, with or without the hand-over.
LEMMA LeaveInv ==
    ASSUME IInv, NEW b \in Bridges, NEW m \in Msgs, Owns(b, m),
           NEW p \in {"forwarded", "failed"}, Goto(b, m, p),
           HandOver(m) \/ UNCHANGED handed,
           UNCHANGED <<row, online>>, faults' \in 0..MaxFaults
    PROVE  IInv'
<1> USE DEF IInv
<1>1. /\ phase' \in [Bridges -> [Msgs -> Phases]]
      /\ \A c \in Bridges, n \in Msgs :
            phase'[c][n] = IF c = b /\ n = m THEN p ELSE phase[c][n]
  BY GotoOthers DEF Phases
<1>2. /\ handed[m] = 0 /\ row[m] \notin Unclaimed
      /\ \A c \in Bridges : Owns(c, m) => c = b
  BY DEF OwnerInv, UnclaimedInv, Owns, At
<1>3. /\ handed' \in [Msgs -> Nat]
      /\ \A n \in Msgs : handed'[n] = handed[n] \/ (n = m /\ handed'[n] = 1)
  <2>1. handed \in [Msgs -> Nat]
    BY DEF TypeOK
  <2>2. CASE HandOver(m)
    BY <1>2, <2>1, <2>2 DEF HandOver
  <2>3. CASE UNCHANGED handed
    BY <2>1, <2>3
  <2> QED BY <2>2, <2>3
<1>4. TypeOK'
  BY <1>1, <1>3 DEF TypeOK
<1>5. UnclaimedInv'
  BY <1>1, <1>2, <1>3 DEF UnclaimedInv
<1>6. OwnerInv'
  BY <1>1, <1>2, <1>3 DEF OwnerInv, Owns, At
<1>7. ClaimedInv'
  BY <1>1 DEF ClaimedInv, Got
<1>8. UnsentInv'
  BY <1>1 DEF UnsentInv, Owns, At
<1> QED BY <1>4, <1>5, <1>6, <1>7, <1>8

LEMMA OfflineInv ==
    ASSUME IInv, NEW b \in Bridges, NEW losing \in SUBSET Busy, Offline(b, losing)
    PROVE  IInv'
<1> USE DEF IInv, Offline
<1>1. /\ phase' \in [Bridges -> [Msgs -> Phases]]
      /\ \A c \in Bridges, n \in Msgs :
            \/ phase'[c][n] = phase[c][n]
            \/ phase'[c][n] = "failed" /\ phase[c][n] \in Busy
  BY DEF TypeOK, Phases
<1>2. TypeOK'
  BY <1>1, FaultType DEF TypeOK
<1>3. UnclaimedInv'
  BY <1>1 DEF UnclaimedInv
<1>4. OwnerInv'
  BY <1>1 DEF OwnerInv, Owns, At
<1>5. ClaimedInv'
  BY <1>1 DEF ClaimedInv, Got
<1>6. UnsentInv'
  BY <1>1 DEF UnsentInv, At, Busy
<1> QED BY <1>2, <1>3, <1>4, <1>5, <1>6

LEMMA ReturnInv == ASSUME IInv, NEW b \in Bridges, Return(b) PROVE IInv'
<1> USE DEF IInv, Return
<1>1. TypeOK'
  BY DEF TypeOK
<1>2. UnclaimedInv' /\ OwnerInv' /\ ClaimedInv' /\ UnsentInv'
  BY DEF UnclaimedInv, OwnerInv, ClaimedInv, UnsentInv, Owns, Got, At
<1> QED BY <1>1, <1>2

-----------------------------------------------------------------------------
THEOREM Invariance == Spec => []IInv
<1>1. IInv /\ [Next]_vars => IInv'
  <2> SUFFICES ASSUME IInv, [Next]_vars PROVE IInv'
    OBVIOUS
  <2>1. ASSUME NEW b \in Bridges, NEW m \in Msgs, Forward(b, m) PROVE IInv'
    BY <2>1, LeaveInv DEF Forward, Owns, IInv, TypeOK
  <2>2. ASSUME NEW b \in Bridges, NEW m \in Msgs, ForwardFails(b, m) PROVE IInv'
    <3>1. faults' \in 0..MaxFaults
      BY <2>2, FaultType DEF ForwardFails, IInv
    <3> QED BY <2>2, <3>1, LeaveInv DEF ForwardFails, Owns
  <2>3. ASSUME NEW b \in Bridges, NEW m \in Msgs, Handle(b, m) PROVE IInv'
    BY <2>1, <2>2, <2>3, ReceiveInv, WonInv, SkipInv, ClaimFailsInv DEF Handle
  <2>4. CASE UNCHANGED vars
    BY <2>4 DEF vars, IInv, TypeOK, UnclaimedInv, OwnerInv, ClaimedInv, UnsentInv,
                Owns, Got, At
  <2>5. ASSUME NEW b \in Bridges, LoseLink(b) \/ Crash(b) PROVE IInv'
    BY <2>5, OfflineInv DEF LoseLink, Crash, Busy
  <2> QED BY <2>3, <2>4, <2>5, PostInv, ReturnInv DEF Next
<1> QED BY <1>1, InitInv, PTL DEF Spec

(***************************************************************************)
(* However many bridges listen, crash and lose requests, the agent is      *)
(* given no message twice ("forwards only when claimed=true").             *)
(***************************************************************************)
THEOREM NoDoubleHandOver == Spec => []HandedAtMostOnce
<1>1. IInv => HandedAtMostOnce
  BY DEF IInv, OwnerInv, HandedAtMostOnce
<1> QED BY <1>1, Invariance, PTL

(***************************************************************************)
(* A bridge skips a message only if another one got it.                    *)
(***************************************************************************)
THEOREM SkippedForAnother == Spec => []NotPassedOver
<1>1. IInv => NotPassedOver
  BY DEF IInv, UnclaimedInv, ClaimedInv, NotPassedOver, Got
<1> QED BY <1>1, Invariance, PTL

(***************************************************************************)
(* The variables of the bridges keep their types.                          *)
(***************************************************************************)
THEOREM TypeCorrect == Spec => []TypeOK
<1>1. IInv => TypeOK
  BY DEF IInv
<1> QED BY <1>1, Invariance, PTL
=============================================================================
