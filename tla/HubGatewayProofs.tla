-------------------------- MODULE HubGatewayProofs --------------------------
(***************************************************************************)
(* Theorems about HubGateway for every set of messages and sessions, every *)
(* bound and any number of faults.  The inductive invariant says how the   *)
(* queues relate to the handlers (QueueInv), how far a row can have come   *)
(* when its handler stands somewhere (RowInv), what a verdict is worth     *)
(* (ReplyInv) and that a starting gateway is still deaf (StartInv); what   *)
(* is known of cancellations (SilentInv, HintInv) rests on it.             *)
(***************************************************************************)
EXTENDS HubGateway, SequenceTheorems, TLAPS

\* In the queue of its session.
Pending == {"queued"} \cup Working

\* The handler of the message has ended.
Ends == {"over", "unsaved", "lost"}

QueueInv ==
    /\ \A s \in Sessions :
          /\ \A i \in 1..Len(queue[s]) :
                SessionOf[queue[s][i]] = s /\ work[queue[s][i]] \in Pending
          /\ \A i, j \in 1..Len(queue[s]) : queue[s][i] = queue[s][j] => i = j
          /\ \A i \in 1..Len(queue[s]) : i # 1 => work[queue[s][i]] = "queued"
    /\ \A m \in Msgs : work[m] \in Pending =>
          \E i \in 1..Len(queue[SessionOf[m]]) : queue[SessionOf[m]][i] = m

\* How far the row of m can be when its handler stands at work[m].
RowFits(m) ==
    /\ m \in inbox => row[m] # "absent"
    /\ work[m] = "none" => row[m] \in Unclaimed
    /\ work[m] = "claiming" => row[m] = "null"
    /\ work[m] \in {"queued", "starting", "echoing"} =>
          row[m] \in {"null", "received", "cancelled"}
    /\ work[m] \in {"running", "sending", "ending"} =>
          row[m] \in {"null", "received", "cancelled", "processing"}
    /\ work[m] \in Ends => row[m] # "absent"

RowInv == \A m \in Msgs : RowFits(m)

\* What "delivered", the verdict and the row say of the answers to m.
ReplyFits(m) ==
    /\ delivered[m] => replies[m] > 0
    /\ work[m] \in {"none", "claiming", "queued", "starting", "echoing"} => ~delivered[m]
    /\ work[m] = "ending" =>
          verdict[m] \in Terminal /\ (verdict[m] = "done" <=> delivered[m])
    /\ row[m] = "done" => delivered[m]
    /\ work[m] = "over" /\ delivered[m] => row[m] = "done"

ReplyInv == \A m \in Msgs : ReplyFits(m)

StartInv ==
    /\ mode # "up" => ~linked /\ \A m \in Msgs : work[m] \in {"none"} \cup Ends
    /\ stale # {} => mode = "cleaning"
    /\ \A m \in stale : row[m] \in {"processing", "cancelled"}

IInv == TypeOK /\ QueueInv /\ RowInv /\ ReplyInv /\ StartInv

-----------------------------------------------------------------------------
(***************************************************************************)
(* The operators the actions are built from.                               *)
(***************************************************************************)
LEMMA StateFacts ==
    /\ {"received", "processing", "done", "failed", "timeout", "cancelled"} \subseteq ValidStates
    /\ Terminal = {"done", "failed", "not-sent", "timeout", "cancelled"}
    /\ Active = {"received", "processing"}
    /\ Unclaimed = {"absent", "null"}
    /\ RowState = ValidStates \cup Unclaimed
    /\ Terminal \subseteq ValidStates
  BY DEF ValidStates, Terminal, Active, Unclaimed, RowState

LEMMA PhaseFacts ==
    /\ Phases = {"none", "claiming"} \cup Pending \cup Ends
    /\ "queued" \notin Working
    /\ Pending \cap Ends = {}
    /\ "none" \notin Pending /\ "claiming" \notin Pending
  BY DEF Phases, Pending, Working, Ends

\* Moving one handler leaves all the others where they are.
LEMMA MoveFacts ==
    ASSUME TypeOK, NEW m \in Msgs, NEW from, NEW to \in Phases, Move(m, from, to)
    PROVE  /\ work' \in [Msgs -> Phases]
           /\ work[m] = from
           /\ \A n \in Msgs : work'[n] = IF n = m THEN to ELSE work[n]
  BY DEF Move, TypeOK

LEMMA SpendFacts ==
    ASSUME TypeOK, NEW fault \in {"failures", "losses", "crashes"}, Spend(fault)
    PROVE  budget' \in Faults
<1>1. budget \in Faults /\ budget[fault] - 1 >= 0
  BY BoundAssumption DEF Spend, TypeOK, Faults
<1>2. CASE fault = "failures"
  BY <1>1, <1>2, BoundAssumption DEF Spend, Faults
<1>3. CASE fault = "losses"
  BY <1>1, <1>3, BoundAssumption DEF Spend, Faults
<1>4. CASE fault = "crashes"
  BY <1>1, <1>4, BoundAssumption DEF Spend, Faults
<1> QED BY <1>2, <1>3, <1>4

\* A PUT, answered or failing: what it can do to the rows.
LEMMA PutFacts ==
    ASSUME TypeOK, NEW m \in Msgs, NEW s \in ValidStates,
           (Put(m, s) /\ NoFault) \/ PutFails(m, s)
    PROVE  /\ row' \in [Msgs -> RowState]
           /\ hints' \subseteq Msgs
           /\ budget' \in Faults
           /\ \A n \in Msgs : n # m => row'[n] = row[n]
           /\ row'[m] # row[m] =>
                 /\ row'[m] = s /\ row[m] # "absent"
                 /\ s = "received" => row[m] = "null"
                 /\ s = "cancelled" => row[m] \in Active
<1>1. budget' \in Faults
  BY SpendFacts DEF PutFails, NoFault, TypeOK
<1>2. CASE UNCHANGED <<row, hints>>
  BY <1>1, <1>2 DEF TypeOK
<1>3. CASE Put(m, s)
  <2>1. hints' \subseteq Msgs
    BY <1>3 DEF Put, ToldAgent, TypeOK
  <2>3. row' = row \/ row' = [row EXCEPT ![m] = s]
    BY <1>3 DEF Put
  <2>4. row' # row =>
          /\ row[m] # "absent"
          /\ s = "received" => row[m] = "null"
          /\ s = "cancelled" => row[m] \in Active
    BY <1>3, StateFacts DEF Put
  <2> QED BY <1>1, <2>1, <2>3, <2>4, StateFacts DEF TypeOK
<1> QED BY <1>2, <1>3 DEF PutFails

\* A PUT that went through and had no condition on the row has written it.
LEMMA PutWrites ==
    ASSUME TypeOK, NEW m \in Msgs, NEW s, s \notin {"received", "cancelled"},
           Put(m, s), row[m] # "absent"
    PROVE  row'[m] = s
  BY DEF Put, TypeOK

LEMMA WithoutType ==
    ASSUME NEW S, NEW seq \in Seq(S), NEW m
    PROVE  /\ Without(seq, m) \in Seq(S)
           /\ Len(Without(seq, m)) <= Len(seq)
<1>1. CASE \E i \in 1..Len(seq) : seq[i] = m
  <2> DEFINE i == CHOOSE i \in 1..Len(seq) : seq[i] = m
  <2>1. i \in 1..Len(seq)
    BY <1>1
  <2>2. Without(seq, m) = SubSeq(seq, 1, i - 1) \o SubSeq(seq, i + 1, Len(seq))
    BY <1>1 DEF Without
  <2> HIDE DEF i
  <2>3. /\ SubSeq(seq, 1, i - 1) \in Seq(S)
        /\ Len(SubSeq(seq, 1, i - 1)) = i - 1
    BY <2>1
  <2>4. /\ SubSeq(seq, i + 1, Len(seq)) \in Seq(S)
        /\ Len(SubSeq(seq, i + 1, Len(seq))) = Len(seq) - i
    BY <2>1
  <2>5. /\ Without(seq, m) \in Seq(S)
        /\ Len(Without(seq, m)) = (i - 1) + (Len(seq) - i)
    BY <2>2, <2>3, <2>4, ConcatProperties
  <2>6. Len(seq) \in Nat
    OBVIOUS
  <2> QED BY <2>1, <2>5, <2>6
<1>2. CASE ~\E i \in 1..Len(seq) : seq[i] = m
  BY <1>2 DEF Without
<1> QED BY <1>1, <1>2

LEMMA AddType ==
    ASSUME TypeOK, NEW m \in Msgs, AddCancelled(m)
    PROVE  cancelled' \in Seq(Msgs) /\ Len(cancelled') <= CancelCap
<1> DEFINE more == Added(m)
<1>1. /\ more \in Seq(Msgs)
      /\ Len(more) <= CancelCap + 1
  BY BoundAssumption DEF Added, TypeOK
<1>2. cancelled' = IF Len(more) > CancelCap THEN Tail(more) ELSE more
  BY DEF AddCancelled, Overfull
<1> HIDE DEF more
<1>3. CASE Len(more) > CancelCap
  <2>1. Len(more) # 0
    BY <1>1, <1>3, BoundAssumption
  <2>2. Tail(more) \in Seq(Msgs) /\ Len(Tail(more)) = Len(more) - 1
    BY <1>1, <2>1
  <2> QED BY <1>1, <1>2, <1>3, <2>2, BoundAssumption
<1> QED BY <1>1, <1>2, <1>3, BoundAssumption

LEMMA InitInv == Init => IInv
<1> SUFFICES ASSUME Init PROVE IInv
  OBVIOUS
<1> USE DEF Init
<1>1. TypeOK
  BY BoundAssumption, PhaseFacts, StateFacts DEF TypeOK, RowsInit, Faults
<1>2. QueueInv
  BY PhaseFacts, SessionAssumption DEF QueueInv
<1>3. RowInv /\ ReplyInv /\ StartInv
  BY StateFacts DEF RowInv, RowFits, ReplyInv, ReplyFits, StartInv, RowsInit, Ends
<1> QED BY <1>1, <1>2, <1>3 DEF IInv

-----------------------------------------------------------------------------
(***************************************************************************)
(* The queues.                                                             *)
(***************************************************************************)
\* The message whose callback is executing is the first of its queue.
LEMMA WorkingAtHead ==
    ASSUME TypeOK, QueueInv, NEW m \in Msgs, work[m] \in Working
    PROVE  /\ SessionOf[m] \in Sessions
           /\ queue[SessionOf[m]] \in Seq(Msgs)
           /\ queue[SessionOf[m]] # <<>>
           /\ queue[SessionOf[m]][1] = m
<1>1. SessionOf[m] \in Sessions /\ queue[SessionOf[m]] \in Seq(Msgs)
  BY SessionAssumption DEF TypeOK
<1>2. PICK i \in 1..Len(queue[SessionOf[m]]) : queue[SessionOf[m]][i] = m
  BY DEF QueueInv, Pending
<1>3. i = 1
  BY <1>1, <1>2, PhaseFacts DEF QueueInv
<1> QED BY <1>1, <1>2, <1>3

LEMMA DequeueFacts ==
    ASSUME TypeOK, QueueInv, NEW m \in Msgs, work[m] \in Working, Dequeue(m)
    PROVE  /\ queue' \in [Sessions -> Seq(Msgs)]
           /\ \A s \in Sessions : s # SessionOf[m] => queue'[s] = queue[s]
           /\ Len(queue'[SessionOf[m]]) = Len(queue[SessionOf[m]]) - 1
           /\ \A i \in 1..Len(queue'[SessionOf[m]]) :
                 queue'[SessionOf[m]][i] = queue[SessionOf[m]][i + 1]
<1>1. /\ queue[SessionOf[m]] \in Seq(Msgs) /\ queue[SessionOf[m]] # <<>>
      /\ SessionOf[m] \in Sessions
  BY WorkingAtHead
<1>2. /\ Tail(queue[SessionOf[m]]) \in Seq(Msgs)
      /\ Len(Tail(queue[SessionOf[m]])) = Len(queue[SessionOf[m]]) - 1
      /\ \A i \in 1..Len(Tail(queue[SessionOf[m]])) :
            Tail(queue[SessionOf[m]])[i] = queue[SessionOf[m]][i + 1]
  BY <1>1, HeadTailProperties
<1>3. queue' = [queue EXCEPT ![SessionOf[m]] = Tail(queue[SessionOf[m]])]
  BY DEF Dequeue
<1> QED BY <1>1, <1>2, <1>3 DEF TypeOK

\* No message enters or leaves a queue, and only a first one starts.
LEMMA QueueStays ==
    ASSUME TypeOK, QueueInv, UNCHANGED queue,
           \A m \in Msgs :
              \/ work'[m] = work[m]
              \/ work[m] \notin Pending /\ work'[m] \notin Pending
              \/ work[m] = "queued" /\ AtHead(m) /\ work'[m] \in Working
              \/ work[m] \in Working /\ work'[m] \in Working
    PROVE  QueueInv'
<1>1. \A s \in Sessions : queue[s] \in Seq(Msgs)
  BY DEF TypeOK
<1>2. ASSUME NEW s \in Sessions, NEW i \in 1..Len(queue[s])
      PROVE  /\ SessionOf[queue[s][i]] = s /\ work'[queue[s][i]] \in Pending
             /\ i # 1 => work'[queue[s][i]] = "queued"
  <2>1. PICK m \in Msgs : m = queue[s][i]
    BY <1>1, ElementOfSeq
  <2>2. SessionOf[m] = s /\ work[m] \in Pending /\ (i # 1 => work[m] = "queued")
    BY <2>1 DEF QueueInv
  <2>3. work'[m] \in Pending
    BY <2>2 DEF Pending
  <2>4. AtHead(m) => i = 1
    <3>1. AtHead(m) => queue[s] # <<>> /\ queue[s][1] = queue[s][i]
      BY <1>1, <2>1, <2>2 DEF AtHead
    <3>2. 1 \in 1..Len(queue[s])
      BY <1>1
    <3> QED BY <3>1, <3>2 DEF QueueInv
  <2>5. i # 1 => work'[m] = "queued"
    BY <2>2, <2>4, PhaseFacts
  <2> QED BY <2>1, <2>2, <2>3, <2>5
<1>3. \A m \in Msgs : work'[m] \in Pending => work[m] \in Pending
  BY DEF Pending
<1> QED BY <1>2, <1>3 DEF QueueInv

\* The first message of a queue has ended and leaves it.
LEMMA QueueLeft ==
    ASSUME TypeOK, QueueInv, NEW m \in Msgs, work[m] \in Working, Dequeue(m),
           work'[m] \in Ends, \A n \in Msgs : n # m => work'[n] = work[n]
    PROVE  QueueInv'
<1>1. /\ queue[SessionOf[m]] \in Seq(Msgs)
      /\ queue[SessionOf[m]][1] = m
      /\ SessionOf[m] \in Sessions
      /\ Len(queue[SessionOf[m]]) \in Nat \ {0}
  BY WorkingAtHead
<1>2. /\ \A s \in Sessions : s # SessionOf[m] => queue'[s] = queue[s]
      /\ Len(queue'[SessionOf[m]]) = Len(queue[SessionOf[m]]) - 1
      /\ \A i \in 1..Len(queue'[SessionOf[m]]) :
            queue'[SessionOf[m]][i] = queue[SessionOf[m]][i + 1]
  BY DequeueFacts
<1>3. ASSUME NEW s \in Sessions, NEW i \in 1..Len(queue'[s])
      PROVE  \E k \in 1..Len(queue[s]) :
                /\ queue'[s][i] = queue[s][k]
                /\ i # 1 => k # 1
                /\ queue[s][k] # m
                /\ k = IF s = SessionOf[m] THEN i + 1 ELSE i
  <2>1. CASE s = SessionOf[m]
    <3>1. i + 1 \in 1..Len(queue[s]) /\ queue'[s][i] = queue[s][i + 1]
      BY <1>1, <1>2, <2>1
    <3>2. 1 \in 1..Len(queue[s]) /\ i + 1 # 1
      BY <1>1, <2>1
    <3>3. queue[s][i + 1] # m
      BY <1>1, <2>1, <3>1, <3>2 DEF QueueInv
    <3> QED BY <2>1, <3>1, <3>2, <3>3
  <2>2. CASE s # SessionOf[m]
    <3>1. i \in 1..Len(queue[s]) /\ queue'[s][i] = queue[s][i]
      BY <1>2, <2>2
    <3>2. SessionOf[queue[s][i]] = s
      BY <3>1 DEF QueueInv
    <3> QED BY <2>2, <3>1, <3>2
  <2> QED BY <2>1, <2>2
<1>4. \A s \in Sessions : \A i \in 1..Len(queue[s]) : queue[s][i] \in Msgs
  BY ElementOfSeq DEF TypeOK
<1>5. ASSUME NEW s \in Sessions, NEW i \in 1..Len(queue'[s])
      PROVE  /\ SessionOf[queue'[s][i]] = s /\ work'[queue'[s][i]] \in Pending
             /\ i # 1 => work'[queue'[s][i]] = "queued"
  <2>1. PICK k \in 1..Len(queue[s]) :
           /\ queue'[s][i] = queue[s][k] /\ queue[s][k] # m
           /\ i # 1 => k # 1
    BY <1>3
  <2>2. work'[queue[s][k]] = work[queue[s][k]]
    BY <1>4, <2>1
  <2> QED BY <2>1, <2>2 DEF QueueInv
<1>6. ASSUME NEW s \in Sessions, NEW i \in 1..Len(queue'[s]),
             NEW j \in 1..Len(queue'[s]), queue'[s][i] = queue'[s][j]
      PROVE  i = j
  <2>1. PICK k \in 1..Len(queue[s]) :
           queue'[s][i] = queue[s][k] /\ k = IF s = SessionOf[m] THEN i + 1 ELSE i
    BY <1>3
  <2>2. PICK l \in 1..Len(queue[s]) :
           queue'[s][j] = queue[s][l] /\ l = IF s = SessionOf[m] THEN j + 1 ELSE j
    BY <1>3
  <2>3. queue[s][k] = queue[s][l]
    BY <1>6, <2>1, <2>2
  <2>4. k = l
    BY <2>3 DEF QueueInv
  <2> QED BY <2>1, <2>2, <2>4
<1>7. ASSUME NEW n \in Msgs, work'[n] \in Pending
      PROVE  \E i \in 1..Len(queue'[SessionOf[n]]) : queue'[SessionOf[n]][i] = n
  <2>1. n # m /\ work[n] \in Pending
    BY <1>7, PhaseFacts
  <2>2. PICK k \in 1..Len(queue[SessionOf[n]]) : queue[SessionOf[n]][k] = n
    BY <2>1 DEF QueueInv
  <2>3. CASE SessionOf[n] = SessionOf[m]
    <3>1. k # 1
      BY <1>1, <2>1, <2>2, <2>3
    <3>2. /\ k - 1 \in 1..Len(queue'[SessionOf[n]])
          /\ queue'[SessionOf[n]][k - 1] = queue[SessionOf[n]][(k - 1) + 1]
      BY <1>1, <1>2, <2>3, <3>1
    <3>3. (k - 1) + 1 = k
      OBVIOUS
    <3> QED BY <2>2, <3>2, <3>3
  <2>4. CASE SessionOf[n] # SessionOf[m]
    BY <1>2, <2>2, <2>4, SessionAssumption
  <2> QED BY <2>3, <2>4
<1> QED BY <1>5, <1>6, <1>7 DEF QueueInv

\* A message whose claim was answered joins the queue of its session.
LEMMA QueueJoined ==
    ASSUME TypeOK, QueueInv, NEW m \in Msgs, work[m] = "claiming", work'[m] = "queued",
           \A n \in Msgs : n # m => work'[n] = work[n],
           queue' = [queue EXCEPT ![SessionOf[m]] = Append(@, m)]
    PROVE  QueueInv' /\ queue' \in [Sessions -> Seq(Msgs)]
<1>1. /\ SessionOf[m] \in Sessions
      /\ queue[SessionOf[m]] \in Seq(Msgs)
      /\ Len(queue[SessionOf[m]]) \in Nat
  BY SessionAssumption DEF TypeOK
<1>2. /\ queue' \in [Sessions -> Seq(Msgs)]
      /\ \A s \in Sessions : s # SessionOf[m] => queue'[s] = queue[s]
      /\ Len(queue'[SessionOf[m]]) = Len(queue[SessionOf[m]]) + 1
      /\ \A i \in 1..Len(queue[SessionOf[m]]) :
            queue'[SessionOf[m]][i] = queue[SessionOf[m]][i]
      /\ queue'[SessionOf[m]][Len(queue[SessionOf[m]]) + 1] = m
  BY <1>1, AppendProperties DEF TypeOK
<1>3. \A s \in Sessions : \A i \in 1..Len(queue[s]) :
         queue[s][i] \in Msgs /\ queue[s][i] # m
  BY ElementOfSeq, PhaseFacts DEF QueueInv, TypeOK
<1>4. ASSUME NEW s \in Sessions, NEW i \in 1..Len(queue'[s])
      PROVE  \/ i \in 1..Len(queue[s]) /\ queue'[s][i] = queue[s][i]
             \/ /\ s = SessionOf[m] /\ i = Len(queue[s]) + 1
                /\ queue'[s][i] = m
  BY <1>1, <1>2
<1>5. ASSUME NEW s \in Sessions, NEW i \in 1..Len(queue'[s])
      PROVE  /\ SessionOf[queue'[s][i]] = s /\ work'[queue'[s][i]] \in Pending
             /\ i # 1 => work'[queue'[s][i]] = "queued"
  BY <1>3, <1>4 DEF QueueInv, Pending
<1>6. ASSUME NEW s \in Sessions, NEW i \in 1..Len(queue'[s]),
             NEW j \in 1..Len(queue'[s]), queue'[s][i] = queue'[s][j]
      PROVE  i = j
  BY <1>3, <1>4, <1>6 DEF QueueInv
<1>7. ASSUME NEW n \in Msgs, work'[n] \in Pending
      PROVE  \E i \in 1..Len(queue'[SessionOf[n]]) : queue'[SessionOf[n]][i] = n
  <2>1. CASE n = m
    <3>1. Len(queue[SessionOf[m]]) + 1 \in 1..Len(queue'[SessionOf[m]])
      BY <1>1, <1>2
    <3> QED BY <1>2, <2>1, <3>1
  <2>2. CASE n # m
    <3>1. PICK k \in 1..Len(queue[SessionOf[n]]) : queue[SessionOf[n]][k] = n
      BY <1>7, <2>2 DEF QueueInv
    <3>2. k \in 1..Len(queue'[SessionOf[n]]) /\ queue'[SessionOf[n]][k] = n
      BY <1>1, <1>2, <3>1, SessionAssumption
    <3> QED BY <3>2
  <2> QED BY <2>1, <2>2
<1> QED BY <1>2, <1>5, <1>6, <1>7 DEF QueueInv

-----------------------------------------------------------------------------
(***************************************************************************)
(* The invariant after a step of the handler of one message.               *)
(***************************************************************************)
\* Only the message the step is about has to be looked at.
LEMMA OneMessage ==
    ASSUME RowInv, ReplyInv, NEW m \in Msgs, RowFits(m)', ReplyFits(m)',
           inbox' \subseteq inbox \cup {m},
           \A n \in Msgs : n # m =>
              /\ row'[n] = row[n] /\ work'[n] = work[n] /\ verdict'[n] = verdict[n]
              /\ delivered'[n] = delivered[n] /\ replies'[n] = replies[n]
    PROVE  RowInv' /\ ReplyInv'
  BY DEF RowInv, RowFits, ReplyInv, ReplyFits

\* A handler runs only in a gateway that has started.
LEMMA HandlerUp ==
    ASSUME IInv, NEW m \in Msgs, work[m] \notin {"none"} \cup Ends
    PROVE  mode = "up" /\ stale = {}
  BY DEF IInv, StartInv

LEMMA ReceiveInv == ASSUME IInv, NEW m \in Msgs, ReceiveMessage(m) PROVE IInv'
<1> USE DEF IInv, ReceiveMessage
<1>1. /\ work' \in [Msgs -> Phases] /\ work[m] = "none"
      /\ \A n \in Msgs : work'[n] = IF n = m THEN "claiming" ELSE work[n]
  BY MoveFacts, PhaseFacts
<1>2. TypeOK'
  BY <1>1 DEF TypeOK, process
<1>3. QueueInv'
  BY <1>1, QueueStays, PhaseFacts
<1>4. row[m] = "null" /\ ReplyFits(m)
  BY <1>1, StateFacts DEF RowInv, RowFits, ReplyInv
<1>5. RowFits(m)' /\ ReplyFits(m)'
  BY <1>1, <1>4 DEF RowFits, ReplyFits, Ends
<1>6. RowInv' /\ ReplyInv'
  BY <1>1, <1>5, OneMessage
<1>7. StartInv'
  BY DEF StartInv, process
<1> QED BY <1>2, <1>3, <1>6, <1>7

LEMMA EnqueueInv == ASSUME IInv, NEW m \in Msgs, Enqueue(m) PROVE IInv'
<1> USE DEF IInv, Enqueue
<1>1. /\ work' \in [Msgs -> Phases] /\ work[m] = "claiming"
      /\ \A n \in Msgs : work'[n] = IF n = m THEN "queued" ELSE work[n]
  BY MoveFacts, PhaseFacts DEF Pending
<1>2. /\ row' \in [Msgs -> RowState] /\ hints' \subseteq Msgs /\ budget' \in Faults
      /\ \A n \in Msgs : n # m => row'[n] = row[n]
      /\ row'[m] \in {row[m], "received"}
  BY PutFacts, StateFacts
<1>3. QueueInv' /\ queue' \in [Sessions -> Seq(Msgs)]
  BY <1>1, QueueJoined
<1>4. TypeOK'
  BY <1>1, <1>2, <1>3 DEF TypeOK, process
<1>5. row[m] = "null" /\ ReplyFits(m)
  BY <1>1 DEF RowInv, RowFits, ReplyInv
<1>6. RowFits(m)' /\ ReplyFits(m)'
  BY <1>1, <1>2, <1>5 DEF RowFits, ReplyFits, Ends
<1>7. RowInv' /\ ReplyInv'
  BY <1>1, <1>2, <1>6, OneMessage
<1>8. StartInv'
  BY <1>1, HandlerUp DEF StartInv, process, Ends
<1> QED BY <1>3, <1>4, <1>7, <1>8

LEMMA StartMsgInv == ASSUME IInv, NEW m \in Msgs, Start(m) PROVE IInv'
<1> USE DEF IInv, Start
<1>1. PICK to \in {"echoing", "starting"} : Move(m, "queued", to)
  OBVIOUS
<1>2. /\ work' \in [Msgs -> Phases] /\ work[m] = "queued"
      /\ \A n \in Msgs : work'[n] = IF n = m THEN to ELSE work[n]
  BY <1>1, MoveFacts, PhaseFacts DEF Pending, Working
<1>3. TypeOK'
  <2>1. cancelled' \in Seq(Msgs) /\ Len(cancelled') <= CancelCap
    BY WithoutType, BoundAssumption DEF TypeOK
  <2> QED BY <1>2, <2>1 DEF TypeOK, process
<1>4. QueueInv'
  BY <1>2, QueueStays DEF Working
<1>5. RowFits(m) /\ ReplyFits(m)
  BY DEF RowInv, ReplyInv
<1>6. RowFits(m)' /\ ReplyFits(m)'
  BY <1>2, <1>5 DEF RowFits, ReplyFits, Ends
<1>7. RowInv' /\ ReplyInv'
  BY <1>2, <1>6, OneMessage
<1>8. StartInv'
  BY <1>2, HandlerUp DEF StartInv, process, Ends
<1> QED BY <1>3, <1>4, <1>7, <1>8

LEMMA EchoInv == ASSUME IInv, NEW m \in Msgs, EchoCancelled(m) PROVE IInv'
<1> USE DEF IInv, EchoCancelled
<1>1. /\ work' \in [Msgs -> Phases] /\ work[m] = "echoing"
      /\ \A n \in Msgs : work'[n] = IF n = m THEN "over" ELSE work[n]
  BY MoveFacts, PhaseFacts DEF Ends
<1>2. /\ row' \in [Msgs -> RowState] /\ hints' \subseteq Msgs /\ budget' \in Faults
      /\ \A n \in Msgs : n # m => row'[n] = row[n]
      /\ row'[m] \in {row[m], "cancelled"}
  BY PutFacts, StateFacts
<1>3. QueueInv' /\ queue' \in [Sessions -> Seq(Msgs)]
  BY <1>1, QueueLeft, DequeueFacts DEF Working, Ends
<1>4. TypeOK'
  BY <1>1, <1>2, <1>3 DEF TypeOK, process
<1>5. RowFits(m) /\ ReplyFits(m)
  BY DEF RowInv, ReplyInv
<1>6. RowFits(m)' /\ ReplyFits(m)'
  BY <1>1, <1>2, <1>5 DEF RowFits, ReplyFits, Ends
<1>7. RowInv' /\ ReplyInv'
  BY <1>1, <1>2, <1>6, OneMessage
<1>8. StartInv'
  BY <1>1, HandlerUp DEF StartInv, process, Ends
<1> QED BY <1>3, <1>4, <1>7, <1>8

LEMMA MarkProcessingInv == ASSUME IInv, NEW m \in Msgs, MarkProcessing(m) PROVE IInv'
<1> USE DEF IInv, MarkProcessing
<1>1. /\ work' \in [Msgs -> Phases] /\ work[m] = "starting"
      /\ \A n \in Msgs : work'[n] = IF n = m THEN "running" ELSE work[n]
  BY MoveFacts, PhaseFacts DEF Pending, Working
<1>2. /\ row' \in [Msgs -> RowState] /\ hints' \subseteq Msgs /\ budget' \in Faults
      /\ \A n \in Msgs : n # m => row'[n] = row[n]
      /\ row'[m] \in {row[m], "processing"}
  BY PutFacts, StateFacts
<1>3. TypeOK'
  BY <1>1, <1>2 DEF TypeOK, process
<1>4. QueueInv'
  BY <1>1, QueueStays DEF Working
<1>5. RowFits(m) /\ ReplyFits(m)
  BY DEF RowInv, ReplyInv
<1>6. RowFits(m)' /\ ReplyFits(m)'
  BY <1>1, <1>2, <1>5 DEF RowFits, ReplyFits, Ends
<1>7. RowInv' /\ ReplyInv'
  BY <1>1, <1>2, <1>6, OneMessage
<1>8. StartInv'
  BY <1>1, HandlerUp DEF StartInv, process, Ends
<1> QED BY <1>3, <1>4, <1>7, <1>8

LEMMA DeliverInv == ASSUME IInv, NEW m \in Msgs, Deliver(m) PROVE IInv'
<1> USE DEF IInv, Deliver
<1>1. /\ work' \in [Msgs -> Phases] /\ work[m] = "running"
      /\ \A n \in Msgs : work'[n] = IF n = m THEN "sending" ELSE work[n]
  BY MoveFacts, PhaseFacts DEF Pending, Working
<1>2. TypeOK'
  BY <1>1 DEF TypeOK, process
<1>3. QueueInv'
  BY <1>1, QueueStays DEF Working
<1>4. RowFits(m) /\ ReplyFits(m)
  BY DEF RowInv, ReplyInv
<1>5. RowFits(m)' /\ ReplyFits(m)'
  BY <1>1, <1>4 DEF RowFits, ReplyFits, Ends
<1>6. RowInv' /\ ReplyInv'
  BY <1>1, <1>5, OneMessage
<1>7. StartInv'
  BY <1>1, HandlerUp DEF StartInv, process, Ends
<1> QED BY <1>2, <1>3, <1>6, <1>7

LEMMA SentInv == ASSUME IInv, NEW m \in Msgs, Sent(m) PROVE IInv'
<1> USE DEF IInv, Sent
<1>1. /\ work' \in [Msgs -> Phases] /\ work[m] = "sending"
      /\ \A n \in Msgs : work'[n] = IF n = m THEN "running" ELSE work[n]
  BY MoveFacts, PhaseFacts DEF Pending, Working
<1>2. /\ replies' \in [Msgs -> Nat] /\ delivered' \in [Msgs -> BOOLEAN]
      /\ budget' \in Faults
      /\ \A n \in Msgs : n # m => replies'[n] = replies[n] /\ delivered'[n] = delivered[n]
      /\ replies'[m] >= replies[m]
      /\ \/ delivered'[m] = delivered[m]
         \/ delivered'[m] /\ replies'[m] > 0
  <2>1. StoreReply(m) => /\ replies' \in [Msgs -> Nat]
                         /\ \A n \in Msgs : n # m => replies'[n] = replies[n]
                         /\ replies'[m] = replies[m] + 1
                         /\ replies[m] \in Nat
    BY DEF StoreReply, TypeOK
  <2>2. CASE /\ StoreReply(m)
             /\ delivered' = [delivered EXCEPT ![m] = TRUE]
             /\ NoFault
    <3>1. /\ delivered' \in [Msgs -> BOOLEAN] /\ delivered'[m] = TRUE
          /\ \A n \in Msgs : n # m => delivered'[n] = delivered[n]
      BY <2>2 DEF TypeOK
    <3>2. budget' \in Faults
      BY <2>2 DEF NoFault, TypeOK
    <3>3. replies'[m] >= replies[m] /\ replies'[m] > 0
      BY <2>1, <2>2
    <3> QED BY <2>1, <2>2, <3>1, <3>2, <3>3
  <2>3. CASE Spend("failures") /\ StoreReply(m) /\ UNCHANGED delivered
    BY <2>1, <2>3, SpendFacts DEF TypeOK
  <2>4. CASE Spend("failures") /\ UNCHANGED <<replies, delivered>>
    BY <2>4, SpendFacts DEF TypeOK
  <2> QED BY <2>2, <2>3, <2>4
<1>3. TypeOK'
  BY <1>1, <1>2 DEF TypeOK, process
<1>4. QueueInv'
  BY <1>1, QueueStays DEF Working
<1>5. RowFits(m) /\ ReplyFits(m) /\ replies[m] \in Nat /\ replies'[m] \in Nat
  BY <1>2 DEF RowInv, ReplyInv, TypeOK
<1>6. RowFits(m)' /\ ReplyFits(m)'
  BY <1>1, <1>2, <1>5 DEF RowFits, ReplyFits, Ends
<1>7. RowInv' /\ ReplyInv'
  BY <1>1, <1>2, <1>6, OneMessage
<1>8. StartInv'
  BY <1>1, HandlerUp DEF StartInv, process, Ends
<1> QED BY <1>3, <1>4, <1>7, <1>8

LEMMA EndDispatchInv ==
    ASSUME IInv, NEW m \in Msgs, NEW failed \in BOOLEAN, EndDispatch(m, failed)
    PROVE  IInv'
<1> USE DEF IInv, EndDispatch
<1>1. /\ work' \in [Msgs -> Phases] /\ work[m] = "running"
      /\ \A n \in Msgs : work'[n] = IF n = m THEN "ending" ELSE work[n]
  BY MoveFacts, PhaseFacts DEF Pending, Working
<1>2. /\ TerminalState(m, failed) \in Terminal
      /\ TerminalState(m, failed) = "done" <=> delivered[m]
  BY StateFacts DEF TerminalState
<1>3. /\ verdict' \in [Msgs -> Terminal \cup {"open"}]
      /\ \A n \in Msgs : verdict'[n] = IF n = m THEN TerminalState(m, failed) ELSE verdict[n]
  BY <1>2 DEF TypeOK
<1>4. TypeOK'
  <2>1. cancelled' \in Seq(Msgs) /\ Len(cancelled') <= CancelCap
    BY WithoutType, BoundAssumption DEF TypeOK
  <2> QED BY <1>1, <1>3, <2>1 DEF TypeOK, process
<1>5. QueueInv'
  BY <1>1, QueueStays DEF Working
<1>6. RowFits(m) /\ ReplyFits(m)
  BY DEF RowInv, ReplyInv
<1>7. RowFits(m)' /\ ReplyFits(m)'
  BY <1>1, <1>2, <1>3, <1>6 DEF RowFits, ReplyFits, Ends
<1>8. RowInv' /\ ReplyInv'
  BY <1>1, <1>3, <1>7, OneMessage
<1>9. StartInv'
  BY <1>1, HandlerUp DEF StartInv, process, Ends
<1> QED BY <1>4, <1>5, <1>8, <1>9

LEMMA MarkTerminalInv == ASSUME IInv, NEW m \in Msgs, MarkTerminal(m) PROVE IInv'
<1> USE DEF IInv, MarkTerminal
<1>1. work[m] = "ending" /\ RowFits(m) /\ ReplyFits(m)
  BY DEF Move, RowInv, ReplyInv
<1>2. verdict[m] \in Terminal /\ row[m] # "absent"
  BY <1>1 DEF RowFits, ReplyFits
<1>3. PICK to \in {"over", "unsaved"} :
         /\ Move(m, "ending", to)
         /\ to = "over" => Put(m, verdict[m]) /\ NoFault
         /\ to = "unsaved" => PutFails(m, verdict[m])
  OBVIOUS
<1>4. /\ work' \in [Msgs -> Phases]
      /\ \A n \in Msgs : work'[n] = IF n = m THEN to ELSE work[n]
  BY <1>3, MoveFacts, PhaseFacts DEF Ends
<1>5. /\ row' \in [Msgs -> RowState] /\ hints' \subseteq Msgs /\ budget' \in Faults
      /\ \A n \in Msgs : n # m => row'[n] = row[n]
      /\ row'[m] \in {row[m], verdict[m]}
  BY <1>2, <1>3, PutFacts, StateFacts
<1>6. to = "over" /\ verdict[m] = "done" => row'[m] = "done"
  BY <1>2, <1>3, PutWrites
<1>7. QueueInv' /\ queue' \in [Sessions -> Seq(Msgs)]
  BY <1>1, <1>4, QueueLeft, DequeueFacts DEF Working, Ends
<1>8. TypeOK'
  BY <1>4, <1>5, <1>7 DEF TypeOK, process
<1>9. RowFits(m)' /\ ReplyFits(m)'
  BY <1>1, <1>2, <1>4, <1>5, <1>6, StateFacts DEF RowFits, ReplyFits, Ends
<1>10. RowInv' /\ ReplyInv'
  BY <1>4, <1>5, <1>9, OneMessage
<1>11. StartInv'
  BY <1>1, <1>4, HandlerUp DEF StartInv, process, Ends
<1> QED BY <1>7, <1>8, <1>10, <1>11

-----------------------------------------------------------------------------
(***************************************************************************)
(* The invariant after a step of a user, of the network or of the process. *)
(***************************************************************************)
LEMMA UserSendsInv == ASSUME IInv, NEW m \in Msgs, UserSends(m) PROVE IInv'
<1> USE DEF IInv, UserSends
<1>1. /\ row' \in [Msgs -> RowState] /\ row[m] = "absent"
      /\ \A n \in Msgs : row'[n] = IF n = m THEN "null" ELSE row[n]
  BY StateFacts DEF InsertRow, TypeOK
<1>2. inbox' \subseteq inbox \cup {m}
  OBVIOUS
<1>3. RowFits(m) /\ ReplyFits(m)
  BY DEF RowInv, ReplyInv
<1>4. work[m] = "none"
  BY <1>1, <1>3, PhaseFacts DEF RowFits, Pending, Working, TypeOK
<1>5. TypeOK'
  BY <1>1, <1>2 DEF TypeOK, gateway, process
<1>6. QueueInv'
  BY QueueStays DEF gateway
<1>7. RowFits(m)' /\ ReplyFits(m)'
  BY <1>1, <1>3, <1>4, StateFacts DEF RowFits, ReplyFits, gateway, Ends
<1>8. RowInv' /\ ReplyInv'
  BY <1>1, <1>2, <1>7, OneMessage DEF gateway
<1>9. StartInv'
  <2>1. stale \subseteq Msgs
    BY DEF TypeOK
  <2> QED BY <1>1, <2>1, StateFacts DEF StartInv, gateway, process
<1> QED BY <1>5, <1>6, <1>8, <1>9

LEMMA UserCancelsInv == ASSUME IInv, NEW m \in Msgs, UserCancels(m) PROVE IInv'
<1> USE DEF IInv, UserCancels
<1>1. /\ row' \in [Msgs -> RowState] /\ row[m] \in Active
      /\ \A n \in Msgs : row'[n] = IF n = m THEN "cancelled" ELSE row[n]
  BY StateFacts DEF CancelRow, TypeOK
<1>2. hints' \subseteq Msgs
  BY DEF ToldAgent, TypeOK
<1>3. RowFits(m) /\ ReplyFits(m)
  BY DEF RowInv, ReplyInv
<1>4. TypeOK'
  BY <1>1, <1>2 DEF TypeOK, gateway, process
<1>5. QueueInv'
  BY QueueStays DEF gateway
<1>6. RowFits(m)' /\ ReplyFits(m)'
  BY <1>1, <1>3, StateFacts DEF RowFits, ReplyFits, gateway
<1>7. RowInv' /\ ReplyInv'
  BY <1>1, <1>6, OneMessage DEF gateway
<1>8. StartInv'
  <2>1. stale \subseteq Msgs
    BY DEF TypeOK
  <2> QED BY <1>1, <2>1, StateFacts DEF StartInv, gateway, process
<1> QED BY <1>4, <1>5, <1>7, <1>8

LEMMA HearCancelInv == ASSUME IInv, NEW m \in Msgs, HearCancel(m) PROVE IInv'
<1> USE DEF IInv, HearCancel
<1>1. TypeOK'
  BY AddType DEF TypeOK, process
<1>2. QueueInv'
  BY QueueStays
<1>3. RowInv' /\ ReplyInv'
  BY DEF RowInv, RowFits, ReplyInv, ReplyFits
<1>4. StartInv'
  BY DEF StartInv, process
<1> QED BY <1>1, <1>2, <1>3, <1>4

\* Steps that touch neither rows nor handlers.
LEMMA QuietInv ==
    ASSUME IInv, UNCHANGED <<row, gateway, replies, heard>>,
           inbox' \in {inbox, {}}, hints' \in {hints, {}}, budget' \in Faults,
           mode' \in {"up", "down", "listing", "cleaning"}, linked' \in BOOLEAN,
           stale' \subseteq {m \in Msgs : row[m] \in {"processing", "cancelled"}},
           stale' # {} => mode' = "cleaning",
           mode' # "up" => ~linked' /\ \A m \in Msgs : work[m] \in {"none"} \cup Ends
    PROVE  IInv'
<1> USE DEF IInv
<1>1. TypeOK'
  BY DEF TypeOK, gateway
<1>2. QueueInv'
  BY QueueStays DEF gateway
<1>3. RowInv' /\ ReplyInv'
  BY DEF RowInv, RowFits, ReplyInv, ReplyFits, gateway
<1>4. StartInv'
  BY DEF StartInv, gateway
<1> QED BY <1>1, <1>2, <1>3, <1>4

LEMMA ProcessQuiet ==
    ASSUME IInv, LoseLink \/ Relink \/ Boot \/ ListStale \/ Connect
    PROVE  IInv'
<1> USE DEF IInv
<1>1. /\ budget \in Faults /\ linked \in BOOLEAN
      /\ stale \subseteq {m \in Msgs : row[m] \in {"processing", "cancelled"}}
      /\ mode \in {"up", "down", "listing", "cleaning"}
  BY DEF TypeOK, StartInv
<1>2. CASE LoseLink
  BY <1>1, <1>2, SpendFacts, QuietInv DEF LoseLink, StartInv
<1>3. CASE Relink
  BY <1>1, <1>3, QuietInv DEF Relink, StartInv
<1>4. CASE Boot
  BY <1>1, <1>4, QuietInv DEF Boot, StartInv
<1>5. CASE ListStale
  <2>1. budget' \in Faults
    BY <1>1, <1>5, SpendFacts DEF ListStale, NoFault
  <2>2. stale' \subseteq {m \in Msgs : row[m] = "processing"}
    BY <1>5 DEF ListStale
  <2> QED BY <1>1, <1>5, <2>1, <2>2, QuietInv DEF ListStale, StartInv
<1>6. CASE Connect
  BY <1>1, <1>6, QuietInv DEF Connect, StartInv
<1> QED BY <1>2, <1>3, <1>4, <1>5, <1>6

LEMMA TimeOutInv == ASSUME IInv, NEW m \in Msgs, TimeOutStale(m) PROVE IInv'
<1> USE DEF IInv, TimeOutStale
<1>1. /\ mode = "cleaning" /\ ~linked
      /\ \A n \in Msgs : work[n] \in {"none"} \cup Ends
      /\ row[m] \in {"processing", "cancelled"}
  BY DEF StartInv
<1>2. /\ row' \in [Msgs -> RowState] /\ hints' \subseteq Msgs /\ budget' \in Faults
      /\ \A n \in Msgs : n # m => row'[n] = row[n]
      /\ row'[m] \in {row[m], "timeout"}
  BY PutFacts, StateFacts
<1>3. RowFits(m) /\ ReplyFits(m)
  BY DEF RowInv, ReplyInv
<1>4. TypeOK'
  BY <1>2 DEF TypeOK, gateway
<1>5. QueueInv'
  BY QueueStays DEF gateway
<1>6. RowFits(m)' /\ ReplyFits(m)'
  BY <1>1, <1>2, <1>3, StateFacts DEF RowFits, ReplyFits, gateway, Ends
<1>7. RowInv' /\ ReplyInv'
  BY <1>2, <1>6, OneMessage DEF gateway
<1>8. StartInv'
  <2>1. stale \subseteq Msgs
    BY DEF TypeOK
  <2> QED BY <1>1, <1>2, <2>1 DEF StartInv, gateway
<1> QED BY <1>4, <1>5, <1>7, <1>8

LEMMA CrashInv == ASSUME IInv, Crash PROVE IInv'
<1> USE DEF IInv, Crash
<1>1. /\ work' \in [Msgs -> Phases]
      /\ \A n \in Msgs : work'[n] = IF work[n] \in {"none", "over", "unsaved"}
                                      THEN work[n] ELSE "lost"
  BY PhaseFacts DEF TypeOK, Ends
<1>2. TypeOK'
  <2>1. budget' \in Faults
    BY SpendFacts
  <2>2. cancelled' \in Seq(Msgs) /\ Len(cancelled') <= CancelCap
    BY BoundAssumption
  <2>3. queue' \in [Sessions -> Seq(Msgs)]
    OBVIOUS
  <2> QED BY <1>1, <2>1, <2>2, <2>3 DEF TypeOK
<1>3. QueueInv'
  BY <1>1, PhaseFacts DEF QueueInv, Ends
<1>4. ASSUME NEW m \in Msgs PROVE RowFits(m)' /\ ReplyFits(m)'
  <2>1. RowFits(m) /\ ReplyFits(m) /\ work[m] \in Phases
    BY DEF RowInv, ReplyInv, TypeOK
  <2>2. work[m] # "none" => row[m] # "absent"
    BY <2>1, PhaseFacts DEF RowFits, Pending, Working
  <2> QED BY <1>1, <2>1, <2>2 DEF RowFits, ReplyFits, Ends
<1>5. StartInv'
  BY <1>1 DEF StartInv, Ends
<1> QED BY <1>2, <1>3, <1>4, <1>5 DEF RowInv, ReplyInv

-----------------------------------------------------------------------------
THEOREM Invariance == Spec => []IInv
<1>1. IInv /\ [Next]_vars => IInv'
  <2> SUFFICES ASSUME IInv, [Next]_vars PROVE IInv'
    OBVIOUS
  <2>1. ASSUME NEW m \in Msgs, Handle(m) PROVE IInv'
    BY <2>1, ReceiveInv, HearCancelInv, EnqueueInv, StartMsgInv, EchoInv, MarkProcessingInv,
       DeliverInv, SentInv, EndDispatchInv, MarkTerminalInv DEF Handle
  <2>2. CASE Users
    BY <2>2, UserSendsInv, UserCancelsInv DEF Users
  <2>3. CASE Process
    BY <2>3, ProcessQuiet, CrashInv, TimeOutInv DEF Process
  <2>4. CASE UNCHANGED vars
    BY <2>4, QuietInv DEF vars, process, IInv, TypeOK, StartInv
  <2> QED BY <2>1, <2>2, <2>3, <2>4 DEF Next
<1> QED BY <1>1, InitInv, PTL DEF Spec

(***************************************************************************)
(* The variables of the gateway keep their types.                          *)
(***************************************************************************)
THEOREM TypeCorrect == Spec => []TypeOK
<1>1. IInv => TypeOK
  BY DEF IInv
<1> QED BY <1>1, Invariance, PTL

(***************************************************************************)
(* Two messages of a session are never worked on at the same time.         *)
(***************************************************************************)
THEOREM Serial == Spec => []SerialSessions
<1>1. IInv => SerialSessions
  BY WorkingAtHead DEF IInv, SerialSessions
<1> QED BY <1>1, Invariance, PTL

(***************************************************************************)
(* "done" is shown only for a message that was answered.                   *)
(***************************************************************************)
THEOREM DoneMeansReplied == Spec => []DoneOnlyIfReplied
<1>1. IInv => DoneOnlyIfReplied
  BY DEF IInv, ReplyInv, ReplyFits, DoneOnlyIfReplied
<1> QED BY <1>1, Invariance, PTL

(***************************************************************************)
(* An answered message whose handler has ended is shown as done.           *)
(***************************************************************************)
THEOREM RepliedMeansDone == Spec => []AnsweredIsDone
<1>1. IInv => AnsweredIsDone
  BY DEF IInv, ReplyInv, ReplyFits, AnsweredIsDone
<1> QED BY <1>1, Invariance, PTL

-----------------------------------------------------------------------------
(***************************************************************************)
(* Steps: which rows may change, and how the service moves.                *)
(***************************************************************************)
LEMMA RowChanges ==
    ASSUME IInv, [Next]_vars, NEW m \in Msgs, row'[m] # row[m]
    PROVE  row[m] \notin {"done", "failed", "timeout"}
<1> USE DEF IInv
<1>1. RowFits(m)
  BY DEF RowInv
<1>2. ASSUME NEW n \in Msgs, UserSends(n) PROVE row[m] = "absent"
  BY <1>2 DEF UserSends, InsertRow, TypeOK
<1>3. ASSUME NEW n \in Msgs, UserCancels(n) PROVE row[m] \in Active
  BY <1>3 DEF UserCancels, CancelRow, TypeOK
<1>4. ASSUME NEW n \in Msgs, Enqueue(n) PROVE row[m] = "null"
  <2>1. m = n
    BY <1>4, PutFacts, StateFacts DEF Enqueue
  <2> QED BY <1>1, <1>4, <2>1 DEF Enqueue, Move, RowFits
<1>5. ASSUME NEW n \in Msgs, EchoCancelled(n) PROVE row[m] \in Active
  BY <1>5, PutFacts, StateFacts DEF EchoCancelled
<1>6. ASSUME NEW n \in Msgs, MarkProcessing(n)
      PROVE  row[m] \in {"null", "received", "cancelled"}
  <2>1. m = n
    BY <1>6, PutFacts, StateFacts DEF MarkProcessing
  <2> QED BY <1>1, <1>6, <2>1 DEF MarkProcessing, Move, RowFits
<1>7. ASSUME NEW n \in Msgs, MarkTerminal(n)
      PROVE  row[m] \in {"null", "received", "cancelled", "processing"}
  <2>1. work[n] = "ending" /\ verdict[n] \in ValidStates
    BY <1>7, StateFacts DEF MarkTerminal, Move, ReplyInv, ReplyFits
  <2>2. m = n
    BY <1>7, <2>1, PutFacts DEF MarkTerminal
  <2> QED BY <1>1, <2>1, <2>2 DEF RowFits
<1>8. ASSUME NEW n \in Msgs, TimeOutStale(n) PROVE row[m] \in {"processing", "cancelled"}
  <2>1. m = n
    BY <1>8, PutFacts, StateFacts DEF TimeOutStale
  <2> QED BY <1>8, <2>1 DEF TimeOutStale, StartInv
<1>9. ASSUME NEW n \in Msgs,
             \/ ReceiveMessage(n) \/ HearCancel(n) \/ Start(n) \/ Deliver(n) \/ Sent(n)
             \/ \E failed \in BOOLEAN : EndDispatch(n, failed)
      PROVE  FALSE
  BY <1>9 DEF ReceiveMessage, HearCancel, Start, Deliver, Sent, EndDispatch
<1>10. ~(LoseLink \/ Relink \/ Crash \/ Boot \/ ListStale \/ Connect \/ UNCHANGED vars)
  BY DEF LoseLink, Relink, Crash, Boot, ListStale, Connect, vars
<1> QED
  BY <1>2, <1>3, <1>4, <1>5, <1>6, <1>7, <1>8, <1>9, <1>10, StateFacts
  DEF Next, Users, Handle, Process

(***************************************************************************)
(* done, failed and timeout are final: no PUT that is under way, no cancel *)
(* and no clean-up ever overwrites them.                                   *)
(***************************************************************************)
THEOREM FinalStates == Spec => TerminalIsFinal
<1>1. IInv /\ [Next]_vars =>
        \A m \in Msgs : row[m] \in {"done", "failed", "timeout"} => row'[m] = row[m]
  BY RowChanges
<1>2. IInv /\ [Next]_vars =>
        [\A m \in Msgs : row[m] \in {"done", "failed", "timeout"} => row'[m] = row[m]]_vars
  BY <1>1
<1> QED BY <1>2, Invariance, PTL DEF Spec, TerminalIsFinal

-----------------------------------------------------------------------------
(***************************************************************************)
(* Cancellations the gateway has been told of.  A message that is still to *)
(* come (work "none") may have been forgotten by a crash; then it is in    *)
(* the hub, but no longer on the socket, and never comes again.            *)
(***************************************************************************)
SilentFits(m) ==
    /\ work[m] = "none" => InSet(m) \/ (m \notin inbox /\ row[m] # "absent")
    /\ work[m] \in {"claiming", "queued", "starting", "running", "sending"} => InSet(m)

SilentInv == \A m \in heard : SilentFits(m)

\* The hub announces the cancellation of messages that it has.
HintInv == \A m \in hints \cup heard : row[m] # "absent"

\* cancelledMessageIds.delete removes one id and keeps the others.
LEMMA WithoutKeeps ==
    ASSUME NEW S, NEW seq \in Seq(S), NEW m, NEW k \in 1..Len(seq), seq[k] # m
    PROVE  \E j \in 1..Len(Without(seq, m)) : Without(seq, m)[j] = seq[k]
<1>1. CASE \E i \in 1..Len(seq) : seq[i] = m
  <2> DEFINE i == CHOOSE i \in 1..Len(seq) : seq[i] = m
  <2>1. i \in 1..Len(seq) /\ seq[i] = m
    BY <1>1
  <2>2. Without(seq, m) = SubSeq(seq, 1, i - 1) \o SubSeq(seq, i + 1, Len(seq))
    BY <1>1 DEF Without
  <2> HIDE DEF i
  <2> DEFINE low == SubSeq(seq, 1, i - 1)
             high == SubSeq(seq, i + 1, Len(seq))
  <2>3. Len(seq) \in Nat /\ i \in Int /\ \A j \in 1..Len(seq) : seq[j] \in S
    BY <2>1, ElementOfSeq
  <2>4. /\ low \in Seq(S) /\ Len(low) = i - 1
        /\ \A j \in 1..i - 1 : low[j] = seq[j]
    BY <2>1, <2>3, SubSeqProperties
  <2>5. /\ high \in Seq(S) /\ Len(high) = Len(seq) - i
        /\ \A j \in 1..Len(seq) - i : high[j] = seq[i + j]
    BY <2>1, <2>3, SubSeqProperties
  <2> HIDE DEF low, high
  <2>6. /\ Len(low \o high) = Len(seq) - 1
        /\ \A j \in 1..Len(seq) - 1 :
              (low \o high)[j] = IF j <= i - 1 THEN low[j] ELSE high[j - (i - 1)]
    <3>1. /\ Len(low \o high) = Len(low) + Len(high)
          /\ \A j \in 1..Len(low) + Len(high) :
                (low \o high)[j] = IF j <= Len(low) THEN low[j] ELSE high[j - Len(low)]
      BY <2>4, <2>5, ConcatProperties
    <3>2. Len(low) + Len(high) = Len(seq) - 1
      BY <2>3, <2>4, <2>5
    <3> QED BY <2>4, <3>1, <3>2
  <2>7. k # i
    BY <2>1
  <2>8. CASE k < i
    <3>1. k \in 1..Len(seq) - 1 /\ k <= i - 1 /\ k \in 1..i - 1
      BY <2>1, <2>3, <2>8
    <3> QED BY <2>2, <2>4, <2>6, <3>1 DEF low, high
  <2>9. CASE k > i
    <3>1. /\ k - 1 \in 1..Len(seq) - 1 /\ ~(k - 1 <= i - 1)
          /\ k - i \in 1..Len(seq) - i /\ (k - 1) - (i - 1) = k - i /\ i + (k - i) = k
      BY <2>1, <2>3, <2>9
    <3>2. (low \o high)[k - 1] = seq[k]
      BY <2>5, <2>6, <3>1
    <3> QED BY <2>2, <2>6, <3>1, <3>2 DEF low, high
  <2> QED BY <2>1, <2>3, <2>7, <2>8, <2>9
<1>2. CASE ~\E i \in 1..Len(seq) : seq[i] = m
  BY <1>2 DEF Without
<1> QED BY <1>1, <1>2

LEMMA DeleteKeeps ==
    ASSUME TypeOK, NEW m \in Msgs, NEW n \in Msgs, n # m, InSet(n),
           cancelled' = Without(cancelled, m)
    PROVE  InSet(n)'
<1>1. PICK k \in 1..Len(cancelled) : cancelled[k] = n
  BY DEF InSet
<1>2. \E j \in 1..Len(Without(cancelled, m)) : Without(cancelled, m)[j] = cancelled[k]
  BY <1>1, WithoutKeeps DEF TypeOK
<1> QED BY <1>1, <1>2 DEF InSet

\* cancelledMessageIds.add keeps every id but the one it evicts.
LEMMA AddKeeps ==
    ASSUME TypeOK, NEW m \in Msgs, NEW n \in Msgs, AddCancelled(m), InSet(n) \/ n = m,
           n \notin (IF Overfull(m) THEN {Head(Added(m))} ELSE {})
    PROVE  InSet(n)'
<1>1. cancelled \in Seq(Msgs)
  BY DEF TypeOK
<1>2. Added(m) \in Seq(Msgs) /\ \E i \in 1..Len(Added(m)) : Added(m)[i] = n
  <2>1. CASE InSet(m)
    BY <1>1, <2>1 DEF Added, InSet
  <2>2. CASE ~InSet(m)
    <3>1. /\ Append(cancelled, m) \in Seq(Msgs)
          /\ Len(Append(cancelled, m)) = Len(cancelled) + 1
          /\ \A i \in 1..Len(cancelled) : Append(cancelled, m)[i] = cancelled[i]
          /\ Append(cancelled, m)[Len(cancelled) + 1] = m
          /\ Len(cancelled) \in Nat
      BY <1>1, AppendProperties
    <3>2. \E i \in 1..Len(Append(cancelled, m)) : Append(cancelled, m)[i] = n
      <4>1. CASE n = m
        BY <3>1, <4>1
      <4>2. CASE n # m
        <5>1. PICK i \in 1..Len(cancelled) : cancelled[i] = n
          BY <4>2 DEF InSet
        <5>2. i \in 1..Len(Append(cancelled, m))
          BY <3>1
        <5> QED BY <3>1, <5>1, <5>2
      <4> QED BY <4>1, <4>2
    <3> QED BY <2>2, <3>1, <3>2 DEF Added
  <2> QED BY <2>1, <2>2
<1> DEFINE more == Added(m)
<1>3. PICK i \in 1..Len(more) : more[i] = n
  BY <1>2
<1>4. cancelled' = IF Overfull(m) THEN Tail(more) ELSE more
  BY DEF AddCancelled
<1>5. Overfull(m) => n # Head(more)
  OBVIOUS
<1>6. more \in Seq(Msgs)
  BY <1>2
<1> HIDE DEF more
<1>7. CASE Overfull(m)
  <2>1. more # <<>> /\ Len(more) \in Nat /\ i # 1
    BY <1>3, <1>5, <1>6, <1>7
  <2>2. /\ Len(Tail(more)) = Len(more) - 1
        /\ \A j \in 1..Len(Tail(more)) : Tail(more)[j] = more[j + 1]
    BY <1>6, <2>1, HeadTailProperties
  <2>3. i - 1 \in 1..Len(Tail(more)) /\ (i - 1) + 1 = i
    BY <2>1, <2>2
  <2> QED BY <1>3, <1>4, <1>7, <2>2, <2>3 DEF InSet
<1>8. CASE ~Overfull(m)
  BY <1>3, <1>4, <1>8 DEF InSet
<1> QED BY <1>7, <1>8

-----------------------------------------------------------------------------
\* A PUT: rows do not go away, and only a row the hub has is announced.
LEMMA PutHints ==
    ASSUME TypeOK, NEW m \in Msgs, NEW s \in ValidStates,
           (Put(m, s) /\ NoFault) \/ PutFails(m, s)
    PROVE  /\ \A n \in Msgs : row[n] # "absent" => row'[n] # "absent"
           /\ \A n \in hints' : n \in hints \/ row'[n] # "absent"
<1>1. "absent" \notin ValidStates
  BY DEF ValidStates
<1>2. \A n \in Msgs : row[n] # "absent" => row'[n] # "absent"
  BY <1>1, PutFacts
<1>3. CASE UNCHANGED <<row, hints>>
  BY <1>2, <1>3
<1>4. CASE Put(m, s)
  <2>1. hints' = hints \/ (hints' \subseteq hints \cup {m} /\ row[m] \in Active)
    BY <1>4 DEF Put, ToldAgent
  <2>2. row[m] \in Active => row[m] # "absent"
    BY StateFacts
  <2> QED BY <1>2, <2>1, <2>2
<1> QED BY <1>3, <1>4 DEF PutFails

\* A step of one handler that hears of nothing new.
LEMMA SilentStays ==
    ASSUME IInv, SilentInv, HintInv, NEW m \in Msgs, UNCHANGED heard,
           \A n \in Msgs : row[n] # "absent" => row'[n] # "absent",
           \A n \in hints' : n \in hints \/ row'[n] # "absent",
           \A n \in inbox' : n \in inbox \/ row[n] = "absent",
           \A n \in Msgs : n # m => work'[n] = work[n] /\ (InSet(n) => InSet(n)'),
           m \in heard => SilentFits(m)'
    PROVE  SilentInv' /\ HintInv'
<1>1. heard \subseteq Msgs /\ hints \subseteq Msgs
  BY DEF IInv, TypeOK
<1>2. HintInv'
  BY <1>1 DEF HintInv
<1>3. ASSUME NEW n \in heard PROVE SilentFits(n)'
  <2>1. CASE n = m
    BY <1>3, <2>1
  <2>2. CASE n # m
    <3>1. SilentFits(n) /\ row[n] # "absent" /\ row'[n] # "absent"
      BY <1>1, <1>3 DEF SilentInv, HintInv
    <3>2. n \in inbox' => n \in inbox
      BY <3>1
    <3>3. work'[n] = work[n] /\ (InSet(n) => InSet(n)')
      BY <1>1, <2>2
    <3> QED BY <3>1, <3>2, <3>3 DEF SilentFits
  <2> QED BY <2>1, <2>2
<1> QED BY <1>2, <1>3 DEF SilentInv

LEMMA SameSet == ASSUME UNCHANGED cancelled, NEW n PROVE InSet(n)' <=> InSet(n)
  BY DEF InSet

\* Each handler in turn, and what happens to its own message.
LEMMA SilentHandle ==
    ASSUME IInv, SilentInv, HintInv, NEW m \in Msgs, Handle(m)
    PROVE  SilentInv' /\ HintInv'
<1> USE DEF IInv
<1>1. heard \subseteq Msgs /\ hints \subseteq Msgs
  BY DEF TypeOK
<1>2. m \in heard => SilentFits(m) /\ row[m] # "absent"
  BY DEF SilentInv, HintInv
<1>3. ASSUME NEW from, NEW to \in Phases, Move(m, from, to), UNCHANGED <<cancelled, heard, inbox>>,
             \A n \in Msgs : row[n] # "absent" => row'[n] # "absent",
             \A n \in hints' : n \in hints \/ row'[n] # "absent",
             from \in {"claiming", "queued", "starting", "running", "sending"}
               \/ to \in {"echoing", "ending", "over", "unsaved"},
             to # "none"
      PROVE  SilentInv' /\ HintInv'
  <2>1. /\ work[m] = from
        /\ \A n \in Msgs : work'[n] = IF n = m THEN to ELSE work[n]
    BY <1>3, MoveFacts
  <2>2. InSet(m)' <=> InSet(m)
    BY <1>3, SameSet
  <2>3. m \in heard => SilentFits(m)'
    BY <1>2, <1>3, <2>1, <2>2 DEF SilentFits
  <2>4. \A n \in Msgs : n # m => work'[n] = work[n] /\ (InSet(n) => InSet(n)')
    BY <1>3, <2>1, SameSet
  <2> QED BY <1>3, <2>3, <2>4, SilentStays
<1>4. CASE ReceiveMessage(m)
  <2>1. /\ work[m] = "none" /\ m \in inbox
        /\ \A n \in Msgs : work'[n] = IF n = m THEN "claiming" ELSE work[n]
    BY <1>4, MoveFacts, PhaseFacts DEF ReceiveMessage
  <2>2. UNCHANGED <<cancelled, heard, hints, row>> /\ inbox' \subseteq inbox
    BY <1>4 DEF ReceiveMessage
  <2>3. m \in heard => SilentFits(m)'
    BY <1>2, <2>1, <2>2, SameSet DEF SilentFits
  <2>4. \A n \in Msgs : n # m => work'[n] = work[n] /\ (InSet(n) => InSet(n)')
    BY <2>1, <2>2, SameSet
  <2> QED BY <2>2, <2>3, <2>4, SilentStays
<1>5. CASE HearCancel(m)
  <2>1. /\ UNCHANGED <<work, inbox, row>> /\ AddCancelled(m)
        /\ heard' = (heard \cup {m}) \ (IF Overfull(m) THEN {Head(Added(m))} ELSE {})
        /\ hints' \subseteq hints /\ row[m] # "absent"
    BY <1>5 DEF HearCancel, HintInv
  <2>2. HintInv'
    BY <2>1 DEF HintInv
  <2>3. ASSUME NEW n \in heard' PROVE SilentFits(n)'
    <3>1. n \in Msgs /\ n \notin (IF Overfull(m) THEN {Head(Added(m))} ELSE {})
      BY <1>1, <2>1, <2>3
    <3>2. InSet(n) \/ n = m => InSet(n)'
      BY <2>1, <3>1, AddKeeps
    <3>3. n # m => SilentFits(n)
      BY <2>1, <2>3 DEF SilentInv
    <3> QED BY <2>1, <3>2, <3>3 DEF SilentFits
  <2> QED BY <2>2, <2>3 DEF SilentInv
<1>6. CASE Enqueue(m)
  <2>1. Move(m, "claiming", "queued") /\ UNCHANGED <<cancelled, heard, inbox>>
    BY <1>6 DEF Enqueue
  <2>2. (Put(m, "received") /\ NoFault) \/ PutFails(m, "received")
    BY <1>6 DEF Enqueue
  <2> QED BY <1>3, <2>1, <2>2, PutHints, StateFacts, PhaseFacts DEF Pending
<1>7. CASE Start(m)
  <2>1. PICK to \in {"echoing", "starting"} : Move(m, "queued", to) /\ (InSet(m) => to = "echoing")
    BY <1>7 DEF Start
  <2>2. /\ work[m] = "queued"
        /\ \A n \in Msgs : work'[n] = IF n = m THEN to ELSE work[n]
    BY <2>1, MoveFacts, PhaseFacts DEF Pending, Working
  <2>3. UNCHANGED <<heard, hints, row, inbox>> /\ cancelled' = Without(cancelled, m)
    BY <1>7 DEF Start
  <2>4. m \in heard => SilentFits(m)'
    BY <1>2, <2>1, <2>2 DEF SilentFits
  <2>5. \A n \in Msgs : n # m => work'[n] = work[n] /\ (InSet(n) => InSet(n)')
    BY <2>2, <2>3, DeleteKeeps
  <2> QED BY <2>3, <2>4, <2>5, SilentStays
<1>8. CASE EchoCancelled(m)
  <2>1. Move(m, "echoing", "over") /\ UNCHANGED <<cancelled, heard, inbox>>
    BY <1>8 DEF EchoCancelled
  <2>2. (Put(m, "cancelled") /\ NoFault) \/ PutFails(m, "cancelled")
    BY <1>8 DEF EchoCancelled
  <2> QED BY <1>3, <2>1, <2>2, PutHints, StateFacts, PhaseFacts DEF Ends
<1>9. CASE MarkProcessing(m)
  <2>1. Move(m, "starting", "running") /\ UNCHANGED <<cancelled, heard, inbox>>
    BY <1>9 DEF MarkProcessing
  <2>2. (Put(m, "processing") /\ NoFault) \/ PutFails(m, "processing")
    BY <1>9 DEF MarkProcessing
  <2> QED BY <1>3, <2>1, <2>2, PutHints, StateFacts, PhaseFacts DEF Pending, Working
<1>10. CASE Deliver(m)
  <2>1. /\ Move(m, "running", "sending") /\ ~InSet(m)
        /\ UNCHANGED <<cancelled, heard, inbox, row, hints>>
    BY <1>10 DEF Deliver
  <2> QED BY <1>3, <2>1, PhaseFacts DEF Pending, Working
<1>11. CASE Sent(m)
  <2>1. /\ Move(m, "sending", "running")
        /\ UNCHANGED <<cancelled, heard, inbox, row, hints>>
    BY <1>11 DEF Sent
  <2> QED BY <1>3, <2>1, PhaseFacts DEF Pending, Working
<1>12. CASE \E failed \in BOOLEAN : EndDispatch(m, failed)
  <2>1. /\ Move(m, "running", "ending") /\ cancelled' = Without(cancelled, m)
        /\ UNCHANGED <<heard, inbox, row, hints>>
    BY <1>12 DEF EndDispatch
  <2>2. \A n \in Msgs : work'[n] = IF n = m THEN "ending" ELSE work[n]
    BY <2>1, MoveFacts, PhaseFacts DEF Pending, Working
  <2>3. m \in heard => SilentFits(m)'
    BY <2>2 DEF SilentFits
  <2>4. \A n \in Msgs : n # m => work'[n] = work[n] /\ (InSet(n) => InSet(n)')
    BY <2>1, <2>2, DeleteKeeps
  <2> QED BY <2>1, <2>3, <2>4, SilentStays
<1>13. CASE MarkTerminal(m)
  <2>1. PICK to \in {"over", "unsaved"} : Move(m, "ending", to)
    BY <1>13 DEF MarkTerminal
  <2>2. UNCHANGED <<cancelled, heard, inbox>>
    BY <1>13 DEF MarkTerminal
  <2>3. verdict[m] \in ValidStates
    BY <2>1, StateFacts DEF Move, ReplyInv, ReplyFits
  <2>4. (Put(m, verdict[m]) /\ NoFault) \/ PutFails(m, verdict[m])
    BY <1>13 DEF MarkTerminal
  <2> QED BY <1>3, <2>1, <2>2, <2>3, <2>4, PutHints, PhaseFacts DEF Ends
<1> QED
  BY <1>4, <1>5, <1>6, <1>7, <1>8, <1>9, <1>10, <1>11, <1>12, <1>13 DEF Handle

\* Users, the socket and the process; no handler moves.
LEMMA SilentElse ==
    ASSUME IInv, SilentInv, HintInv, Users \/ Process \/ UNCHANGED vars
    PROVE  SilentInv' /\ HintInv'
<1> USE DEF IInv
<1>1. heard \subseteq Msgs /\ hints \subseteq Msgs
  BY DEF TypeOK
<1>2. ASSUME UNCHANGED <<work, cancelled, heard>>,
             \A n \in Msgs : row[n] # "absent" => row'[n] # "absent",
             \A n \in hints' : n \in hints \/ row'[n] # "absent",
             \A n \in inbox' : n \in inbox \/ row[n] = "absent"
      PROVE  SilentInv' /\ HintInv'
  <2>1. HintInv'
    BY <1>1, <1>2 DEF HintInv
  <2>2. ASSUME NEW n \in heard PROVE SilentFits(n)'
    <3>1. SilentFits(n) /\ row[n] # "absent" /\ row'[n] # "absent"
      BY <1>1, <1>2 DEF SilentInv, HintInv
    <3>2. InSet(n)' <=> InSet(n)
      BY <1>2, SameSet
    <3> QED BY <1>2, <3>1, <3>2 DEF SilentFits
  <2> QED BY <1>2, <2>1, <2>2 DEF SilentInv
<1>3. ASSUME NEW m \in Msgs, UserSends(m) PROVE SilentInv' /\ HintInv'
  <2>1. /\ row[m] = "absent" /\ row' = [row EXCEPT ![m] = "null"]
        /\ inbox' \subseteq inbox \cup {m}
        /\ UNCHANGED <<hints, work, cancelled, heard>>
    BY <1>3 DEF UserSends, InsertRow, gateway
  <2>2. \A n \in Msgs : row[n] # "absent" => row'[n] # "absent"
    BY <2>1 DEF TypeOK
  <2> QED BY <1>2, <2>1, <2>2
<1>4. ASSUME NEW m \in Msgs, UserCancels(m) PROVE SilentInv' /\ HintInv'
  <2>1. /\ row' = [row EXCEPT ![m] = "cancelled"]
        /\ hints' \subseteq hints \cup {m}
        /\ UNCHANGED <<inbox, work, cancelled, heard>>
    BY <1>4 DEF UserCancels, CancelRow, ToldAgent, gateway
  <2>2. \A n \in Msgs : row'[n] = IF n = m THEN "cancelled" ELSE row[n]
    BY <2>1 DEF TypeOK
  <2> QED BY <1>2, <2>1, <2>2
<1>5. CASE LoseLink \/ Relink \/ Boot \/ ListStale \/ Connect \/ UNCHANGED vars
  <2>1. /\ UNCHANGED <<row, work, cancelled, heard>>
        /\ hints' \subseteq hints /\ inbox' \subseteq inbox
    BY <1>5 DEF LoseLink, Relink, Boot, ListStale, Connect, vars, gateway
  <2> QED BY <1>2, <2>1
<1>6. ASSUME NEW m \in Msgs, TimeOutStale(m) PROVE SilentInv' /\ HintInv'
  <2>1. UNCHANGED <<inbox, work, cancelled, heard>>
    BY <1>6 DEF TimeOutStale, gateway
  <2>2. (Put(m, "timeout") /\ NoFault) \/ PutFails(m, "timeout")
    BY <1>6 DEF TimeOutStale
  <2> QED BY <1>2, <2>1, <2>2, PutHints, StateFacts
<1>7. CASE Crash
  <2>1. /\ UNCHANGED <<row, heard>> /\ inbox' = {} /\ hints' = {}
        /\ \A n \in Msgs : work'[n] \in {"none", "over", "unsaved", "lost"}
    BY <1>7 DEF Crash
  <2>2. HintInv'
    BY <2>1 DEF HintInv
  <2>3. \A n \in heard : SilentFits(n)'
    BY <1>1, <2>1 DEF SilentFits, HintInv
  <2> QED BY <2>1, <2>2, <2>3 DEF SilentInv
<1> QED BY <1>3, <1>4, <1>5, <1>6, <1>7 DEF Users, Process

\* Only "deliver" sends, and not if it knows of the cancellation.
LEMMA SendsUncancelled ==
    ASSUME IInv, SilentInv, [Next]_vars, NEW m \in Msgs, m \in heard,
           work'[m] = "sending"
    PROVE  work[m] = "sending"
<1> USE DEF IInv
<1>1. ASSUME NEW n \in Msgs, NEW from, NEW to \in Phases, Move(n, from, to), to # "sending"
      PROVE  work[m] = "sending"
  BY <1>1, MoveFacts
<1>2. ASSUME NEW n \in Msgs, Handle(n) PROVE work[m] = "sending"
  <2>1. CASE Deliver(n)
    <3>1. /\ work[n] = "running" /\ ~InSet(n)
          /\ \A k \in Msgs : k # n => work'[k] = work[k]
      BY <2>1, MoveFacts, PhaseFacts DEF Deliver, Move, Pending, Working
    <3>2. m # n
      BY <3>1 DEF SilentInv, SilentFits
    <3> QED BY <3>1, <3>2
  <2>2. CASE HearCancel(n)
    BY <2>2 DEF HearCancel
  <2>3. CASE ReceiveMessage(n)
    BY <1>1, <2>3, PhaseFacts DEF ReceiveMessage
  <2>4. CASE Enqueue(n)
    BY <1>1, <2>4, PhaseFacts DEF Enqueue, Pending
  <2>5. CASE Start(n)
    BY <1>1, <2>5, PhaseFacts DEF Start, Pending, Working
  <2>6. CASE EchoCancelled(n)
    BY <1>1, <2>6, PhaseFacts DEF EchoCancelled, Ends
  <2>7. CASE MarkProcessing(n)
    BY <1>1, <2>7, PhaseFacts DEF MarkProcessing, Pending, Working
  <2>8. CASE Sent(n)
    BY <1>1, <2>8, PhaseFacts DEF Sent, Pending, Working
  <2>9. CASE \E failed \in BOOLEAN : EndDispatch(n, failed)
    BY <1>1, <2>9, PhaseFacts DEF EndDispatch, Pending, Working
  <2>10. CASE MarkTerminal(n)
    BY <1>1, <2>10, PhaseFacts DEF MarkTerminal, Ends
  <2> QED
    BY <1>2, <2>1, <2>2, <2>3, <2>4, <2>5, <2>6, <2>7, <2>8, <2>9, <2>10 DEF Handle
<1>3. CASE Crash
  BY <1>3 DEF Crash
<1>4. CASE Users \/ LoseLink \/ Relink \/ Boot \/ ListStale \/ Connect
           \/ (\E n \in Msgs : TimeOutStale(n)) \/ UNCHANGED vars
  BY <1>4 DEF Users, UserSends, UserCancels, LoseLink, Relink, Boot, ListStale,
              Connect, TimeOutStale, gateway, vars
<1> QED BY <1>2, <1>3, <1>4 DEF Next, Process

(***************************************************************************)
(* The gateway sends no further answer to a message it knows to be         *)
(* cancelled, whatever the bound of cancelledMessageIds is.                *)
(***************************************************************************)
THEOREM SilentHolds == Spec => SilentAfterCancel
<1>1. Init => SilentInv /\ HintInv
  BY DEF Init, SilentInv, HintInv
<1>2. IInv /\ SilentInv /\ HintInv /\ [Next]_vars => SilentInv' /\ HintInv'
  BY SilentHandle, SilentElse DEF Next
<1>3. Spec => [](IInv /\ SilentInv /\ HintInv)
  BY <1>1, <1>2, Invariance, PTL DEF Spec
<1>4. IInv /\ SilentInv /\ HintInv /\ [Next]_vars =>
        [\A m \in Msgs : m \in heard /\ work[m] # "sending" => work'[m] # "sending"]_vars
  BY SendsUncancelled
<1> QED BY <1>3, <1>4, PTL DEF Spec, SilentAfterCancel

-----------------------------------------------------------------------------
ServedMap == [m \in Msgs |-> ServedOf(m)]

\* One handler moves within the same part of its life: the service rests.
LEMMA ServiceRests ==
    ASSUME \A m \in Msgs : ServedOf(m)' = ServedOf(m)
    PROVE  ServedMap' = ServedMap
  BY DEF ServedMap

LEMMA ServedFacts ==
    ASSUME TypeOK, NEW m \in Msgs
    PROVE  /\ ServedOf(m) = "now" <=> work[m] \in Working
           /\ ServedOf(m) = "past" <=> work[m] \in Ends
           /\ ServedOf(m) \in {"not yet", "now", "past"}
  BY PhaseFacts DEF ServedOf, TypeOK, Pending, Ends, Working

LEMMA StartServes ==
    ASSUME IInv, NEW m \in Msgs, Start(m)
    PROVE  Service!Next
<1> USE DEF IInv
<1>1. PICK to \in {"echoing", "starting"} : Move(m, "queued", to)
  BY DEF Start
<1>2. /\ work[m] = "queued"
      /\ \A n \in Msgs : work'[n] = IF n = m THEN to ELSE work[n]
  BY <1>1, MoveFacts, PhaseFacts DEF Pending, Working
<1>3. ASSUME NEW n \in Msgs, SessionOf[n] = SessionOf[m], ServedOf(n) = "now"
      PROVE  FALSE
  <2>1. work[n] \in Working
    BY <1>3, ServedFacts
  <2>2. /\ queue[SessionOf[m]] # <<>> /\ queue[SessionOf[m]] \in Seq(Msgs)
        /\ queue[SessionOf[m]][1] = n
    BY <1>3, <2>1, WorkingAtHead
  <2>3. n = m
    BY <2>2 DEF Start, AtHead
  <2> QED BY <1>2, <2>1, <2>3, PhaseFacts
<1>4. Service!Serving(SessionOf[m]) = {}
  BY <1>3 DEF Service!Serving
<1>5. ServedMap' = [ServedMap EXCEPT ![m] = "now"] /\ ServedMap[m] = "not yet"
  BY <1>2 DEF ServedMap, ServedOf, Working
<1>6. Service!Begin(m)
  BY <1>4, <1>5 DEF Service!Begin, ServedMap
<1> QED BY <1>6 DEF Service!Next

LEMMA EndServes ==
    ASSUME TypeOK, NEW m \in Msgs, work[m] \in Working, work'[m] \in Ends,
           \A n \in Msgs : n # m => work'[n] = work[n]
    PROVE  Service!Next
<1>1. ServedMap' = [ServedMap EXCEPT ![m] = "past"] /\ ServedMap[m] = "now"
  BY DEF ServedMap, ServedOf, Working, Ends
<1>2. Service!End(m)
  BY <1>1 DEF Service!End, ServedMap
<1> QED BY <1>2 DEF Service!Next

LEMMA CrashServes == ASSUME TypeOK, Crash PROVE Service!Next
<1> DEFINE given == {m \in Msgs : work[m] \in {"claiming", "queued"}}
<1>1. \A m \in Msgs :
        ServedOf(m)' = IF m \in given \/ ServedOf(m) = "now" THEN "past" ELSE ServedOf(m)
  BY PhaseFacts DEF Crash, ServedOf, TypeOK, Working, Pending, Ends
<1>2. given \subseteq {m \in Msgs : ServedOf(m) = "not yet"}
  BY DEF ServedOf, Working
<1>3. Service!Abandon
  <2>1. ServedMap' = [m \in Msgs |-> IF m \in given \/ ServedMap[m] = "now"
                                     THEN "past" ELSE ServedMap[m]]
    BY <1>1 DEF ServedMap
  <2> QED BY <1>2, <2>1 DEF Service!Abandon, ServedMap
<1> QED BY <1>3 DEF Service!Next

(***************************************************************************)
(* The per-session queues implement a service that takes up a message at   *)
(* most once and never two of a session at a time.                         *)
(***************************************************************************)
THEOREM QueuesServe == Spec => ImplementsSerialWorker
<1>1. Init => Service!Init
  BY DEF Init, Service!Init, ServedOf, Working
<1>2. IInv /\ [Next]_vars => [Service!Next]_ServedMap
  <2> SUFFICES ASSUME IInv, [Next]_vars PROVE Service!Next \/ ServedMap' = ServedMap
    OBVIOUS
  <2> USE DEF IInv
  <2>1. ASSUME UNCHANGED work PROVE ServedMap' = ServedMap
    BY <2>1 DEF ServedMap, ServedOf
  <2>2. ASSUME NEW m \in Msgs, NEW from, NEW to \in Phases, Move(m, from, to),
               \/ from \in Working /\ to \in Working
               \/ <<from, to>> \in {<<"none", "claiming">>, <<"claiming", "queued">>}
        PROVE  ServedMap' = ServedMap
    <3>1. /\ work[m] = from
          /\ \A n \in Msgs : work'[n] = IF n = m THEN to ELSE work[n]
      BY <2>2, MoveFacts
    <3> QED BY <2>2, <3>1, ServiceRests DEF ServedOf, Working
  <2>3. ASSUME NEW m \in Msgs, Handle(m) PROVE Service!Next \/ ServedMap' = ServedMap
    <3>1. CASE ReceiveMessage(m)
      BY <2>2, <3>1, PhaseFacts DEF ReceiveMessage
    <3>2. CASE HearCancel(m)
      BY <2>1, <3>2 DEF HearCancel
    <3>3. CASE Enqueue(m)
      BY <2>2, <3>3, PhaseFacts DEF Enqueue, Pending
    <3>4. CASE Start(m)
      BY <3>4, StartServes
    <3>5. CASE EchoCancelled(m)
      <4>1. /\ work[m] = "echoing"
            /\ \A n \in Msgs : work'[n] = IF n = m THEN "over" ELSE work[n]
        BY <3>5, MoveFacts, PhaseFacts DEF EchoCancelled, Ends
      <4> QED BY <4>1, EndServes DEF Working, Ends
    <3>6. CASE MarkProcessing(m)
      BY <2>2, <3>6, PhaseFacts DEF MarkProcessing, Pending, Working
    <3>7. CASE Deliver(m)
      BY <2>2, <3>7, PhaseFacts DEF Deliver, Pending, Working
    <3>8. CASE Sent(m)
      BY <2>2, <3>8, PhaseFacts DEF Sent, Pending, Working
    <3>9. CASE \E failed \in BOOLEAN : EndDispatch(m, failed)
      BY <2>2, <3>9, PhaseFacts DEF EndDispatch, Pending, Working
    <3>10. CASE MarkTerminal(m)
      <4>1. PICK to \in Ends : Move(m, "ending", to)
        BY <3>10 DEF MarkTerminal, Ends
      <4>2. /\ work[m] = "ending"
            /\ \A n \in Msgs : work'[n] = IF n = m THEN to ELSE work[n]
        BY <4>1, MoveFacts, PhaseFacts
      <4> QED BY <4>1, <4>2, EndServes DEF Working
    <3> QED
      BY <2>3, <3>1, <3>2, <3>3, <3>4, <3>5, <3>6, <3>7, <3>8, <3>9, <3>10 DEF Handle
  <2>4. CASE Users \/ LoseLink \/ Relink \/ Boot \/ ListStale \/ Connect
             \/ (\E m \in Msgs : TimeOutStale(m)) \/ UNCHANGED vars
    BY <2>1, <2>4 DEF Users, UserSends, UserCancels, LoseLink, Relink, Boot, ListStale,
                      Connect, TimeOutStale, gateway, vars
  <2>5. CASE Crash
    BY <2>5, CrashServes
  <2> QED BY <2>3, <2>4, <2>5 DEF Next, Process
<1>3. ServedMap = [m \in Msgs |-> ServedOf(m)]
  BY DEF ServedMap
<1> QED
  BY <1>1, <1>2, <1>3, Invariance, PTL
  DEF Spec, ImplementsSerialWorker, Service!Spec, ServedMap
=============================================================================
