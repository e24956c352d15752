---------------------------- MODULE ClientProofs ----------------------------
(***************************************************************************)
(* Theorems about the clients of the hub that listen: the chat of the      *)
(* browser (ChatClient), its feed (ActivityFeed) and its panel             *)
(* (StatusPanel), and the MCP server (McpServer).  They share no state.    *)
(***************************************************************************)
EXTENDS
    ChatClient, McpServer, ActivityFeed, StatusPanel, SequenceTheorems, FiniteSetTheorems, TLAPS

-----------------------------------------------------------------------------
(***************************************************************************)
(* Numbers and lists: the larger of two, the copies of a message in a      *)
(* list, the elements of a set in their order, the beginning of a list.    *)
(***************************************************************************)
\* The larger of two.
LEMMA MaxOfTwo ==
    ASSUME NEW a \in Int, NEW b \in Int
    PROVE  Max({a, b}) = IF a >= b THEN a ELSE b
<1> DEFINE m == IF a >= b THEN a ELSE b
<1>1. m \in {a, b} /\ \A y \in {a, b} : m >= y
  OBVIOUS
<1>2. \A x \in {a, b} : (\A y \in {a, b} : x >= y) => x = m
  OBVIOUS
<1> HIDE DEF m
<1>3. Max({a, b}) = m
  BY <1>1, <1>2 DEF Max
<1> QED
  BY <1>3 DEF m

\* Counting the copies of a message in a list.
LEMMA CopiesAre ==
    ASSUME NEW S, NEW s \in Seq(S), NEW m
    PROVE  /\ Copies(m, s) = Cardinality({k \in 1..Len(s) : s[k] = m})
           /\ Copies(m, s) \in Nat /\ IsFiniteSet({k \in 1..Len(s) : s[k] = m})
           /\ Copies(m, s) = 0 <=> m \notin Range(s)
<1> DEFINE places == {k \in 1..Len(s) : s[k] = m}
<1>1. DOMAIN s = 1..Len(s) /\ Len(s) \in Nat
  OBVIOUS
<1>2. IsFiniteSet(1..Len(s))
  BY <1>1, FS_Interval
<1>3. IsFiniteSet(places) /\ Cardinality(places) \in Nat
  BY <1>2, FS_Subset, FS_CardinalityType
<1>4. Cardinality(places) = 0 <=> places = {}
  BY <1>3, FS_EmptySet
<1>5. places = {} <=> m \notin Range(s)
  BY <1>1 DEF Range
<1> QED
  BY <1>1, <1>3, <1>4, <1>5 DEF Copies

LEMMA CopiesNone == \A m : Copies(m, <<>>) = 0
<1> TAKE m
<1>1. {k \in DOMAIN <<>> : <<>>[k] = m} = {}
  OBVIOUS
<1> QED
  BY <1>1, FS_EmptySet DEF Copies

LEMMA CopiesAppend ==
    ASSUME NEW S, NEW s \in Seq(S), NEW x \in S, NEW m
    PROVE  Copies(m, Append(s, x)) = Copies(m, s) + (IF x = m THEN 1 ELSE 0)
<1> DEFINE n == Len(s)
           old == {k \in 1..n : s[k] = m}
           new == {k \in 1..(n + 1) : Append(s, x)[k] = m}
<1>1. /\ n \in Nat /\ Append(s, x) \in Seq(S) /\ Len(Append(s, x)) = n + 1
      /\ \A k \in 1..n : Append(s, x)[k] = s[k]
      /\ Append(s, x)[n + 1] = x
  BY AppendProperties, LenProperties
<1>2. Copies(m, s) = Cardinality(old) /\ IsFiniteSet(old) /\ Copies(m, s) \in Nat
  BY CopiesAre
<1>3. Copies(m, Append(s, x)) = Cardinality(new)
  <2>1. \A t \in Seq(S) : Copies(m, t) = Cardinality({k \in 1..Len(t) : t[k] = m})
    BY CopiesAre
  <2> QED
    BY <1>1, <2>1
<1>4. new = IF x = m THEN old \cup {n + 1} ELSE old
  <2>1. 1..(n + 1) = 1..n \cup {n + 1}
    BY <1>1
  <2> QED
    BY <1>1, <2>1
<1>5. n + 1 \notin old
  BY <1>1
<1> HIDE DEF n, old, new
<1>6. Cardinality(old \cup {n + 1}) = Cardinality(old) + 1
  BY <1>2, <1>5, FS_AddElement
<1> QED
  BY <1>2, <1>3, <1>4, <1>6

LEMMA CopiesPush ==
    ASSUME NEW S, NEW s \in Seq(S), NEW x \in S, NEW m
    PROVE  Copies(m, <<x>> \o s) = Copies(m, s) + (IF x = m THEN 1 ELSE 0)
<1> DEFINE n == Len(s)
           t == <<x>> \o s
           old == {k \in 1..n : s[k] = m}
           up1 == {k + 1 : k \in old}
           new == {k \in 1..(n + 1) : t[k] = m}
           f == [k \in old |-> k + 1]
<1>1. /\ n \in Nat /\ t \in Seq(S) /\ Len(t) = n + 1 /\ t[1] = x
      /\ \A k \in 1..n : t[k + 1] = s[k]
  <2>1. <<x>> \in Seq(S) /\ Len(<<x>>) = 1 /\ <<x>>[1] = x /\ n \in Nat
    OBVIOUS
  <2>2. /\ t \in Seq(S) /\ Len(t) = 1 + n
        /\ \A i \in 1..(1 + n) : t[i] = IF i <= 1 THEN <<x>>[i] ELSE s[i - 1]
    BY <2>1, ConcatProperties
  <2> HIDE DEF t, n
  <2>3. t[1] = x
    BY <2>1, <2>2
  <2>4. ASSUME NEW k \in 1..n PROVE t[k + 1] = s[k]
    <3>1. k + 1 \in 1..(1 + n) /\ ~(k + 1 <= 1) /\ (k + 1) - 1 = k
      BY <2>1
    <3> QED
      BY <2>2, <3>1
  <2> QED
    BY <2>1, <2>2, <2>3, <2>4
<1>2. Copies(m, s) = Cardinality(old) /\ IsFiniteSet(old) /\ Copies(m, s) \in Nat
  BY CopiesAre
<1> HIDE DEF t
<1>3. Copies(m, t) = Cardinality(new)
  BY <1>1, CopiesAre
<1>4. f \in Bijection(old, up1)
  <2>1. old \subseteq Nat
    BY <1>1
  <2> HIDE DEF old
  <2>2. f \in [old -> up1]
    OBVIOUS
  <2>3. \A a, b \in old : f[a] = f[b] => a = b
    BY <2>1
  <2>4. \A b \in up1 : \E a \in old : f[a] = b
    OBVIOUS
  <2> QED
    BY <2>2, <2>3, <2>4 DEF Bijection, Injection, IsInjective, Surjection
<1>5. IsFiniteSet(up1) /\ Cardinality(up1) = Cardinality(old)
  <2>1. ExistsBijection(old, up1)
    BY <1>4 DEF ExistsBijection
  <2> HIDE DEF old, up1
  <2> QED
    BY <1>2, <2>1, FS_Bijection
<1>6. new = IF x = m THEN up1 \cup {1} ELSE up1
  <2>1. ASSUME NEW k \in 1..(n + 1), k # 1 PROVE k \in new <=> k \in up1
    <3>1. k - 1 \in 1..n /\ (k - 1) + 1 = k
      BY <1>1, <2>1
    <3>2. t[k] = s[k - 1]
      BY <1>1, <3>1
    <3>3. \A j \in old : j + 1 = k => j = k - 1
      BY <1>1, <3>1
    <3> QED
      BY <3>1, <3>2, <3>3
  <2>2. up1 \subseteq 1..(n + 1) /\ 1 \notin up1 /\ 1 \in 1..(n + 1)
    BY <1>1
  <2>3. 1 \in new <=> x = m
    BY <1>1, <2>2
  <2>4. new \subseteq 1..(n + 1)
    OBVIOUS
  <2> HIDE DEF new, up1
  <2>5. CASE x = m
    <3>1. \A k : k \in new <=> k \in up1 \cup {1}
      BY <2>1, <2>2, <2>3, <2>4, <2>5
    <3> QED
      BY <2>5, <3>1
  <2>6. CASE x # m
    <3>1. \A k : k \in new <=> k \in up1
      BY <2>1, <2>2, <2>3, <2>4, <2>6
    <3> QED
      BY <2>6, <3>1
  <2> QED
    BY <2>5, <2>6
<1>7. 1 \notin up1
  BY <1>1
<1> HIDE DEF old, up1, new
<1>8. Cardinality(up1 \cup {1}) = Cardinality(up1) + 1
  BY <1>5, <1>7, FS_AddElement
<1> QED
  BY <1>2, <1>3, <1>5, <1>6, <1>8 DEF t

LEMMA CopiesTail ==
    ASSUME NEW S, NEW s \in Seq(S), s # <<>>, NEW m
    PROVE  Copies(m, s) = Copies(m, Tail(s)) + (IF Head(s) = m THEN 1 ELSE 0)
<1>1. Head(s) \in S /\ Tail(s) \in Seq(S)
  BY HeadTailProperties
<1>2. s = <<Head(s)>> \o Tail(s)
  OBVIOUS
<1>3. \A x \in S, t \in Seq(S) : Copies(m, <<x>> \o t) = Copies(m, t) + (IF x = m THEN 1 ELSE 0)
  BY CopiesPush
<1> QED
  BY <1>1, <1>2, <1>3

LEMMA SmallerOfTwo ==
    ASSUME NEW a \in Nat, NEW b \in Nat
    PROVE  Min({a, b}) \in {a, b} /\ Min({a, b}) <= a /\ Min({a, b}) <= b
<1> DEFINE m == IF a <= b THEN a ELSE b
<1>1. m \in {a, b} /\ \A y \in {a, b} : m <= y
  OBVIOUS
<1> HIDE DEF m
<1>2. Min({a, b}) \in {a, b} /\ \A y \in {a, b} : Min({a, b}) <= y
  BY <1>1 DEF Min
<1> QED
  BY <1>2

\* The n-th smallest of a finite set of numbers exists.
LEMMA RankTaken ==
    ASSUME NEW S \in SUBSET Nat, IsFiniteSet(S), NEW n \in 1..Cardinality(S)
    PROVE  \E k \in S : Cardinality({j \in S : j <= k}) = n
<1> DEFINE c == Cardinality(S)
           upTo(k) == {j \in S : j <= k}
           f == [k \in S |-> Cardinality(upTo(k))]
<1>1. c \in Nat
  BY FS_CardinalityType
<1>2. ASSUME NEW k \in S PROVE IsFiniteSet(upTo(k)) /\ Cardinality(upTo(k)) \in 1..c
  <2>1. upTo(k) \in SUBSET S /\ k \in upTo(k)
    BY <1>2
  <2> HIDE DEF upTo
  <2>2. IsFiniteSet(upTo(k)) /\ Cardinality(upTo(k)) <= c
    BY <2>1, FS_Subset
  <2>3. Cardinality(upTo(k)) \in Nat /\ Cardinality(upTo(k)) # 0
    BY <2>1, <2>2, FS_CardinalityType, FS_EmptySet
  <2> QED
    BY <1>1, <2>2, <2>3
<1>3. ASSUME NEW k \in S, NEW l \in S, k < l PROVE Cardinality(upTo(k)) # Cardinality(upTo(l))
  <2>1. upTo(k) \in SUBSET upTo(l) /\ l \in upTo(l) /\ l \notin upTo(k)
    <3>1. k \in Nat /\ l \in Nat /\ \A j \in S : j \in Nat
      OBVIOUS
    <3>2. \A j \in S : j <= k => j <= l
      BY <1>3, <3>1
    <3>3. ~(l <= k) /\ l <= l
      BY <1>3, <3>1
    <3> QED
      BY <3>2, <3>3
  <2> HIDE DEF upTo
  <2> QED
    BY <1>2, <2>1, FS_Subset
<1>4. f \in [S -> 1..c]
  BY <1>2
<1>5. \A k, l \in S : f[k] = f[l] => k = l
  <2> TAKE k, l \in S
  <2>1. k < l \/ l < k \/ k = l
    OBVIOUS
  <2>2. f[k] = Cardinality(upTo(k)) /\ f[l] = Cardinality(upTo(l))
    OBVIOUS
  <2> HIDE DEF upTo, f
  <2> QED
    BY <1>3, <2>1, <2>2
<1>6. f \in Injection(S, 1..c)
  <2> HIDE DEF f
  <2> QED
    BY <1>4, <1>5 DEF Injection, IsInjective
<1>7. IsFiniteSet(1..c) /\ Cardinality(1..c) = c
  BY <1>1, FS_Interval
<1>8. f \in Surjection(S, 1..c)
  <2> HIDE DEF f
  <2> QED
    BY <1>6, <1>7, FS_Injection
<1>9. PICK k \in S : f[k] = n
  BY <1>8 DEF Surjection
<1> QED
  BY <1>9

\* What a reload reads is a list of stored messages.
LEMMA NewestIs ==
    ASSUME table \in Seq(Msgs), NEW all
    PROVE  Newest(all) \in Seq(Msgs) /\ Range(Newest(all)) \subseteq Range(table)
<1> DEFINE mine == {k \in DOMAIN table : all \/ table[k] \notin Foreign}
           Nth(n) == CHOOSE k \in mine : Cardinality({j \in mine : j <= k}) = n
           last == Min({Cardinality(mine), Page})
<1>1. Newest(all) = [n \in 1..last |-> table[Nth(n)]]
  BY DEF Newest
<1>2. DOMAIN table = 1..Len(table) /\ Len(table) \in Nat
  OBVIOUS
<1>3. mine \in SUBSET Nat /\ mine \in SUBSET (1..Len(table))
  BY <1>2
<1>4. IsFiniteSet(mine) /\ Cardinality(mine) \in Nat
  <2>1. IsFiniteSet(1..Len(table))
    BY <1>2, FS_Interval
  <2> HIDE DEF mine
  <2>2. IsFiniteSet(mine)
    BY <1>3, <2>1, FS_Subset
  <2> QED
    BY <2>2, FS_CardinalityType
<1> HIDE DEF mine
<1>5. last \in Nat /\ last <= Cardinality(mine)
  BY <1>4, ChatAssumption, SmallerOfTwo
<1>6. ASSUME NEW n \in 1..last PROVE Nth(n) \in 1..Len(table)
  <2>1. n \in 1..Cardinality(mine)
    BY <1>4, <1>5
  <2>2. \E k \in mine : Cardinality({j \in mine : j <= k}) = n
    BY <1>3, <1>4, <2>1, RankTaken
  <2>3. Nth(n) \in mine
    BY <2>2
  <2> QED
    BY <1>3, <2>3
<1> HIDE DEF Nth, last
<1>7. \A n \in 1..last : table[Nth(n)] \in Msgs /\ table[Nth(n)] \in Range(table)
  BY <1>2, <1>6 DEF Range
<1>8. Newest(all) \in [1..last -> Msgs]
  BY <1>1, <1>7
<1>9. Newest(all) \in Seq(Msgs)
  <2>1. Newest(all) \in UNION {[1..n -> Msgs] : n \in Nat}
    BY <1>5, <1>8
  <2> QED
    BY <2>1, SeqDef
<1> QED
  BY <1>1, <1>7, <1>9 DEF Range

\* A finite set of numbers has a greatest, and it is one of them.
LEMMA MaxOfFinite ==
    ASSUME NEW S \in SUBSET Nat, IsFiniteSet(S), S # {}
    PROVE  Max(S) \in S
<1> DEFINE c == Cardinality(S)
<1>1. c \in Nat /\ c # 0
  BY FS_CardinalityType, FS_EmptySet
<1>2. c \in 1..c
  BY <1>1
<1>3. PICK k \in S : Cardinality({j \in S : j <= k}) = c
  BY <1>2, RankTaken
<1> DEFINE T == {j \in S : j <= k}
<1>4. T = S
  <2>1. T \in SUBSET S
    OBVIOUS
  <2>2. Cardinality(S) = Cardinality(T)
    BY <1>3
  <2> HIDE DEF T
  <2> QED
    BY <2>1, <2>2, FS_Subset
<1>5. \A j \in S : k >= j
  BY <1>4
<1> QED
  BY <1>5 DEF Max

\* The first n elements of a list.
LEMMA FirstOf ==
    ASSUME NEW S, NEW s \in Seq(S), NEW n \in Nat, n <= Len(s)
    PROVE  /\ SubSeq(s, 1, n) \in Seq(S) /\ Len(SubSeq(s, 1, n)) = n
           /\ \A i \in 1..n : SubSeq(s, 1, n)[i] = s[i]
<1>1. \A i \in 1..n : s[i] \in S
  BY ElementOfSeq
<1>2. /\ SubSeq(s, 1, n) \in Seq(S) /\ Len(SubSeq(s, 1, n)) = IF 1 <= n THEN n - 1 + 1 ELSE 0
      /\ \A i \in 1..(n - 1 + 1) : SubSeq(s, 1, n)[i] = s[1 + i - 1]
  BY <1>1, SubSeqProperties
<1> QED
  BY <1>2

LEMMA FirstPart ==
    ASSUME NEW S, NEW s \in Seq(S), NEW n \in Nat
    PROVE  LET t == SubSeq(s, 1, Min({Len(s), n}))
           IN  /\ t \in Seq(S) /\ Len(t) \in Nat /\ Len(t) <= Len(s) /\ Len(t) <= n
               /\ Len(t) = Len(s) \/ Len(t) = n
               /\ \A i \in 1..Len(t) : t[i] = s[i]
<1> DEFINE k == Min({Len(s), n})
<1>1. Len(s) \in Nat
  OBVIOUS
<1>2. k \in Nat /\ k <= Len(s) /\ k <= n /\ (k = Len(s) \/ k = n)
  <2>1. Min({Len(s), n}) \in {Len(s), n}
    BY <1>1, SmallerOfTwo
  <2> QED
    BY <1>1, <2>1, SmallerOfTwo
<1> HIDE DEF k
<1> QED
  BY <1>2, FirstOf DEF k

-----------------------------------------------------------------------------
(***************************************************************************)
(* The chat of the browser.  Types first: the states of a reload rely on   *)
(* the messages of the table being stored.                                 *)
(***************************************************************************)
ReloadType ==
    [pc : {"idle", "messages", "reactions", "answer"}, all : BOOLEAN, rows : Seq(Msgs),
     st : UNION {[D -> ValidStates \cup {"null"}] : D \in SUBSET Msgs}, re : SUBSET Msgs]

\* The messages of the table are stored, which is what the states of a reload rely on.
HubTyped ==
    /\ row \in [Msgs -> RowState]
    /\ table \in Seq(Msgs) /\ reacted \subseteq Msgs /\ inserting \subseteq Typed
    /\ announcing \in Seq(Event)
    /\ asked \in Seq([m : Msgs, op : {"add", "remove"}])
    /\ \A m \in Range(table) : row[m] # "absent"

WireTyped ==
    /\ linked \in BOOLEAN /\ up \in Seq(Typed) /\ count \in 0..Limit
    /\ user \in BOOLEAN /\ pending \in Seq(Typed)
    /\ typed \subseteq Typed /\ lost \subseteq Typed
    /\ left \in 0..MaxEvents

ViewTyped ==
    /\ shown \in Seq(Msgs) /\ states \in [Msgs -> ValidStates \cup {"null"}]
    /\ marks \in [Msgs -> Nat]

ChatTyped == HubTyped /\ WireTyped /\ ViewTyped /\ reload \in [Reloads -> ReloadType]

LEMMA ChatTypedIs == ASSUME ChatTyped PROVE TypeOK
<1>1. ASSUME NEW i \in Reloads
      PROVE  /\ reload[i].pc \in {"idle", "messages", "reactions", "answer"}
             /\ reload[i].all \in BOOLEAN /\ reload[i].rows \in Seq(Msgs)
             /\ reload[i].re \subseteq Msgs
  <2>1. reload[i] \in ReloadType
    BY DEF ChatTyped
  <2> QED
    BY <2>1 DEF ReloadType
<1> QED
  BY <1>1 DEF ChatTyped, HubTyped, WireTyped, ViewTyped, TypeOK

LEMMA Nulls == NoReload \in ReloadType
<1>1. <<>> \in [{} -> ValidStates \cup {"null"}] /\ <<>> \in Seq(Msgs)
  OBVIOUS
<1> QED
  BY <1>1 DEF NoReload, ReloadType

LEMMA ChatInitTyped == ASSUME Init PROVE ChatTyped
<1>1. HubTyped
  BY ChatAssumption DEF Init, RowsInit, HubTyped, RowState, Unclaimed, Range
<1>2. WireTyped
  <2>1. up \in Seq(Typed) /\ pending \in Seq(Typed)
    BY DEF Init
  <2>2. count \in 0..Limit /\ left \in 0..MaxEvents
    BY ChatAssumption DEF Init
  <2> QED
    BY <2>1, <2>2 DEF Init, WireTyped
<1>3. ViewTyped
  BY DEF Init, ViewTyped
<1>4. reload \in [Reloads -> ReloadType]
  BY Nulls DEF Init
<1> QED
  BY <1>1, <1>2, <1>3, <1>4 DEF ChatTyped

\* What leaves a part alone leaves its types.
LEMMA SameHub == ASSUME HubTyped, UNCHANGED hub PROVE HubTyped'
  BY DEF HubTyped, hub
LEMMA SameView == ASSUME ViewTyped, UNCHANGED view PROVE ViewTyped'
  BY DEF ViewTyped, view

LEMMA SpendTyped == ASSUME left \in 0..MaxEvents, Spend PROVE left' \in 0..MaxEvents
  BY ChatAssumption DEF Spend

LEMMA UserTyped ==
    ASSUME ChatTyped, NEW m \in Msgs, SendMessage(m) \/ ToggleReaction(m)
    PROVE  ChatTyped'
<1>1. CASE SendMessage(m)
  <2>1. HubTyped' /\ ViewTyped' /\ reload' \in [Reloads -> ReloadType]
    BY <1>1, SameHub, SameView DEF ChatTyped, SendMessage
  <2>2. up' \in Seq(Typed) /\ pending' \in Seq(Typed)
    <3>1. up \in Seq(Typed) /\ pending \in Seq(Typed) /\ m \in Typed
      BY <1>1 DEF ChatTyped, WireTyped, SendMessage
    <3>2. Append(up, m) \in Seq(Typed) /\ Append(pending, m) \in Seq(Typed)
      BY <3>1, AppendProperties
    <3> QED
      BY <1>1, <3>1, <3>2 DEF SendMessage
  <2>3. left' \in 0..MaxEvents
    BY <1>1, SpendTyped DEF ChatTyped, WireTyped, SendMessage
  <2>4. WireTyped'
    BY <1>1, <2>2, <2>3 DEF ChatTyped, WireTyped, SendMessage
  <2> QED
    BY <2>1, <2>4 DEF ChatTyped
<1>2. CASE ToggleReaction(m)
  <2> DEFINE e == [m |-> m, op |-> IF marks[m] > 0 THEN "remove" ELSE "add"]
  <2>1. ViewTyped' /\ reload' \in [Reloads -> ReloadType]
    BY <1>2, SameView DEF ChatTyped, ToggleReaction
  <2>2. WireTyped'
    BY <1>2, SpendTyped DEF ChatTyped, WireTyped, ToggleReaction, wire
  <2>3. e \in [m : Msgs, op : {"add", "remove"}]
    OBVIOUS
  <2>4. asked' = Append(asked, e)
    BY <1>2 DEF ToggleReaction
  <2>5. asked' \in Seq([m : Msgs, op : {"add", "remove"}])
    BY <2>3, <2>4, AppendProperties DEF ChatTyped, HubTyped
  <2>6. HubTyped'
    BY <1>2, <2>5 DEF ChatTyped, HubTyped, ToggleReaction
  <2> QED
    BY <2>1, <2>2, <2>6 DEF ChatTyped
<1> QED
  BY <1>1, <1>2

LEMMA LinkTyped ==
    ASSUME ChatTyped, LearnUser \/ Connect \/ LoseLink \/ MinutePasses
    PROVE  ChatTyped'
<1>1. HubTyped' /\ ViewTyped' /\ reload' \in [Reloads -> ReloadType]
  BY SameHub, SameView DEF ChatTyped, LearnUser, Connect, LoseLink, MinutePasses
<1>2. Range(up) \subseteq Typed
  BY RangeOfSeq DEF ChatTyped, WireTyped
<1>3. ASSUME LearnUser \/ Connect PROVE WireTyped'
  <2>1. up' \in Seq(Typed) /\ pending' \in Seq(Typed)
    <3>1. up \in Seq(Typed) /\ pending \in Seq(Typed) /\ <<>> \in Seq(Typed)
      BY EmptySeq DEF ChatTyped, WireTyped
    <3> QED
      BY <1>3, <3>1 DEF LearnUser, Connect, Flush, wire
  <2>2. count' \in 0..Limit
    BY <1>3, ChatAssumption DEF ChatTyped, WireTyped, LearnUser, Connect, wire
  <2> QED
    BY <1>3, <2>1, <2>2 DEF ChatTyped, WireTyped, LearnUser, Connect, wire, rest
<1>4. ASSUME LoseLink PROVE WireTyped'
  <2>1. up' \in Seq(Typed) /\ count' \in 0..Limit /\ lost' \subseteq Typed
    BY <1>2, <1>4, ChatAssumption DEF ChatTyped, WireTyped, LoseLink, Disconnected
  <2>2. left' \in 0..MaxEvents
    BY <1>4, SpendTyped DEF ChatTyped, WireTyped, LoseLink
  <2> QED
    BY <1>4, <2>1, <2>2 DEF ChatTyped, WireTyped, LoseLink, Disconnected
<1>5. ASSUME MinutePasses PROVE WireTyped'
  <2>1. left' \in 0..MaxEvents /\ count' \in 0..Limit
    BY <1>5, SpendTyped, ChatAssumption DEF ChatTyped, WireTyped, MinutePasses
  <2> QED
    BY <1>5, <2>1 DEF ChatTyped, WireTyped, MinutePasses
<1> QED
  BY <1>1, <1>3, <1>4, <1>5 DEF ChatTyped

LEMMA RestartTyped == ASSUME ChatTyped, Restart PROVE ChatTyped'
<1>1. ViewTyped' /\ reload' \in [Reloads -> ReloadType]
  BY SameView, Nulls DEF ChatTyped, Restart
<1>2. HubTyped'
  BY DEF ChatTyped, HubTyped, Restart
<1>3. Range(up) \subseteq Typed /\ inserting \subseteq Typed
  BY RangeOfSeq DEF ChatTyped, WireTyped, HubTyped
<1>4. WireTyped'
  <2>1. up' \in Seq(Typed) /\ count' \in 0..Limit /\ lost' \subseteq Typed
    BY <1>3, ChatAssumption DEF ChatTyped, WireTyped, Restart, Disconnected
  <2>2. left' \in 0..MaxEvents
    BY SpendTyped DEF ChatTyped, WireTyped, Restart
  <2> QED
    BY <2>1, <2>2 DEF ChatTyped, WireTyped, Restart, Disconnected
<1> QED
  BY <1>1, <1>2, <1>4 DEF ChatTyped

LEMMA TakeTyped == ASSUME ChatTyped, TakeMessage PROVE ChatTyped'
<1>1. ViewTyped' /\ reload' \in [Reloads -> ReloadType]
  BY SameView DEF ChatTyped, TakeMessage
<1>2. Head(up) \in Typed /\ Tail(up) \in Seq(Typed)
  BY HeadTailProperties DEF ChatTyped, WireTyped, TakeMessage
<1>3. HubTyped'
  BY <1>2 DEF ChatTyped, HubTyped, TakeMessage
<1>4. WireTyped'
  BY <1>2, ChatAssumption DEF ChatTyped, WireTyped, TakeMessage
<1> QED
  BY <1>1, <1>3, <1>4 DEF ChatTyped

LEMMA RemoveAtTyped ==
    ASSUME NEW S, NEW s \in Seq(S), NEW k \in DOMAIN s
    PROVE  RemoveAt(s, k) \in Seq(S)
<1>1. DOMAIN s = 1..Len(s) /\ Len(s) \in Nat /\ k \in 1..Len(s)
  OBVIOUS
<1>2. SubSeq(s, 1, k - 1) \in Seq(S)
  <2>1. \A i \in 1..(k - 1) : s[i] \in S
    BY <1>1, ElementOfSeq
  <2> QED
    BY <1>1, <2>1, SubSeqProperties
<1>3. SubSeq(s, k + 1, Len(s)) \in Seq(S)
  <2>1. \A i \in (k + 1)..Len(s) : s[i] \in S
    BY <1>1, ElementOfSeq
  <2> QED
    BY <1>1, <2>1, SubSeqProperties
<1> QED
  BY <1>2, <1>3, ConcatProperties DEF RemoveAt

LEMMA AnnounceTyped ==
    ASSUME announcing \in Seq(Event), NEW e \in Event, Announce(e)
    PROVE  announcing' \in Seq(Event)
  BY AppendProperties DEF Announce

LEMMA StoreTyped ==
    ASSUME HubTyped, NEW m \in Msgs, Store(m)
    PROVE  /\ row' \in [Msgs -> RowState] /\ table' \in Seq(Msgs)
           /\ \A n \in Range(table') : row'[n] # "absent"
<1>1. table' = <<m>> \o table /\ row' = [row EXCEPT ![m] = "null"]
  BY DEF Store, InsertRow
<1>2. table \in Seq(Msgs) /\ <<m>> \in Seq(Msgs)
  BY DEF HubTyped
<1>3. table' \in Seq(Msgs) /\ Range(table') = Range(<<m>>) \cup Range(table)
  <2>1. <<m>> \o table \in Seq(Msgs)
    BY <1>2, ConcatProperties
  <2>2. Range(<<m>> \o table) = Range(<<m>>) \cup Range(table)
    BY <1>2, RangeConcatenation
  <2> QED
    BY <1>1, <2>1, <2>2
<1>4. Range(<<m>>) = {m}
  BY DEF Range
<1>5. Range(table) \subseteq Msgs
  BY <1>2, RangeOfSeq
<1> QED
  BY <1>1, <1>3, <1>4, <1>5 DEF HubTyped, RowState, Unclaimed

LEMMA InsertTyped ==
    ASSUME ChatTyped, NEW m \in Msgs, InsertMessage(m) \/ InsertFails(m) \/ ServiceMessage(m)
    PROVE  ChatTyped'
<1>1. ViewTyped' /\ reload' \in [Reloads -> ReloadType]
  BY SameView DEF ChatTyped, InsertMessage, InsertFails, ServiceMessage
<1>2. WireTyped'
  BY SpendTyped
     DEF ChatTyped, WireTyped, HubTyped, InsertMessage, InsertFails, ServiceMessage, wire, rest
<1>3. [type |-> "message", m |-> m] \in Event
  BY DEF Event
<1>4. HubTyped'
  <2>1. CASE InsertMessage(m) \/ ServiceMessage(m)
    <3>1. /\ row' \in [Msgs -> RowState] /\ table' \in Seq(Msgs)
          /\ \A n \in Range(table') : row'[n] # "absent"
      BY <2>1, StoreTyped DEF ChatTyped, InsertMessage, ServiceMessage
    <3>2. announcing' \in Seq(Event)
      BY <2>1, <1>3, AnnounceTyped DEF ChatTyped, HubTyped, InsertMessage, ServiceMessage
    <3> QED
      BY <2>1, <3>1, <3>2 DEF ChatTyped, HubTyped, InsertMessage, ServiceMessage
  <2>2. CASE InsertFails(m)
    BY <2>2 DEF ChatTyped, HubTyped, InsertFails
  <2> QED
    BY <2>1, <2>2
<1> QED
  BY <1>1, <1>2, <1>4 DEF ChatTyped

LEMMA StateTyped ==
    ASSUME ChatTyped, NEW m \in Msgs, NEW s \in PutStates, ChangeState(m, s)
    PROVE  ChatTyped'
<1>1. ViewTyped' /\ reload' \in [Reloads -> ReloadType]
  BY SameView DEF ChatTyped, ChangeState
<1>2. WireTyped'
  BY SpendTyped DEF ChatTyped, WireTyped, ChangeState, wire
<1>3. s \in ValidStates /\ s # "absent"
  BY ChatAssumption DEF ValidStates
<1>4. announcing' \in Seq(Event)
  <2>1. [type |-> "message-state", m |-> m, s |-> s] \in Event
    BY <1>3 DEF Event
  <2> QED
    BY <2>1, AnnounceTyped DEF ChatTyped, HubTyped, ChangeState
<1>5. row' \in [Msgs -> RowState] /\ \A n \in Range(table) : row'[n] # "absent"
  <2>1. row' = [row EXCEPT ![m] = s]
    BY DEF ChangeState, WriteRow
  <2>2. Range(table) \subseteq Msgs
    BY RangeOfSeq DEF ChatTyped, HubTyped
  <2> QED
    BY <1>3, <2>1, <2>2 DEF ChatTyped, HubTyped, RowState
<1>6. HubTyped'
  BY <1>4, <1>5 DEF ChatTyped, HubTyped, ChangeState
<1> QED
  BY <1>1, <1>2, <1>6 DEF ChatTyped

LEMMA ReactTyped ==
    ASSUME ChatTyped, NEW m \in Msgs, NEW k, AddReaction(k, m) \/ RemoveReaction(k, m)
    PROVE  ChatTyped'
<1>1. ViewTyped' /\ reload' \in [Reloads -> ReloadType]
  BY SameView DEF ChatTyped, AddReaction, RemoveReaction
<1>2. WireTyped'
  BY DEF ChatTyped, WireTyped, AddReaction, RemoveReaction, wire, rest
<1>3. asked' \in Seq([m : Msgs, op : {"add", "remove"}])
  <2>1. k \in DOMAIN asked /\ asked' = RemoveAt(asked, k)
    BY DEF AddReaction, RemoveReaction
  <2> QED
    BY <2>1, RemoveAtTyped DEF ChatTyped, HubTyped
<1>4. announcing' \in Seq(Event)
  <2>1. [type |-> "reaction", m |-> m] \in Event /\ [type |-> "reaction-remove", m |-> m] \in Event
    BY DEF Event
  <2> QED
    BY <2>1, AnnounceTyped DEF ChatTyped, HubTyped, AddReaction, RemoveReaction
<1>5. HubTyped'
  BY <1>3, <1>4 DEF ChatTyped, HubTyped, AddReaction, RemoveReaction
<1> QED
  BY <1>1, <1>2, <1>5 DEF ChatTyped

LEMMA HearTyped ==
    ASSUME ViewTyped, NEW e \in Event, Hear(e)
    PROVE  ViewTyped'
<1>1. e.m \in Msgs /\ (e.type = "message-state" => e.s \in ValidStates)
  BY DEF Event
<1>2. <<e.m>> \o shown \in Seq(Msgs)
  BY <1>1, ConcatProperties DEF ViewTyped
<1>3. shown' \in Seq(Msgs)
  BY <1>2 DEF Hear, ViewTyped
<1>4. states' \in [Msgs -> ValidStates \cup {"null"}]
  BY <1>1 DEF Hear, ViewTyped
<1>5. marks' \in [Msgs -> Nat]
  BY <1>1 DEF Hear, ViewTyped
<1> QED
  BY <1>3, <1>4, <1>5 DEF ViewTyped

LEMMA EmitTyped ==
    ASSUME ChatTyped, NEW k \in DOMAIN announcing, Emit(k)
    PROVE  ChatTyped'
<1>1. WireTyped' /\ reload' \in [Reloads -> ReloadType]
  BY DEF ChatTyped, WireTyped, Emit, wire, rest
<1>2. announcing' \in Seq(Event)
  BY RemoveAtTyped DEF ChatTyped, HubTyped, Emit
<1>3. HubTyped'
  BY <1>2 DEF ChatTyped, HubTyped, Emit
<1>4. announcing[k] \in Event
  BY ElementOfSeq DEF ChatTyped, HubTyped
<1>5. ViewTyped'
  BY <1>4, HearTyped, SameView DEF ChatTyped, Emit
<1> QED
  BY <1>1, <1>3, <1>5 DEF ChatTyped

LEMMA ReloadTyped ==
    ASSUME ChatTyped, NEW i \in Reloads, Reload(i) \/ FailReload(i)
    PROVE  ChatTyped'
<1>1. HubTyped'
  BY SameHub DEF ChatTyped, Reload, StartReload, SelectMessages, SelectReactions, FinishReload,
                 FailReload
<1>2. WireTyped'
  BY SpendTyped
     DEF ChatTyped, WireTyped, Reload, StartReload, SelectMessages, SelectReactions, FinishReload,
         FailReload, wire, rest
<1>3. reload[i] \in ReloadType /\ NoReload \in ReloadType /\ reload \in [Reloads -> ReloadType]
  BY Nulls DEF ChatTyped
<1>4. CASE StartReload(i)
  <2>1. [NoReload EXCEPT !.pc = "messages", !.all = ~user] \in ReloadType
    BY <1>3 DEF ChatTyped, WireTyped, ReloadType
  <2>2. reload' \in [Reloads -> ReloadType]
    BY <1>3, <1>4, <2>1 DEF StartReload
  <2>3. ViewTyped'
    BY <1>4, SameView DEF ChatTyped, StartReload
  <2> QED
    BY <1>1, <1>2, <2>2, <2>3 DEF ChatTyped
<1>5. CASE SelectMessages(i)
  <2> DEFINE rows == Newest(reload[i].all)
             st == [m \in Range(rows) |-> row[m]]
             D == Range(rows)
  <2>1. rows \in Seq(Msgs) /\ D \subseteq Range(table) /\ D \subseteq Msgs
    BY NewestIs, RangeOfSeq DEF ChatTyped, HubTyped
  <2>2. \A m \in D : row[m] \in ValidStates \cup {"null"}
    BY <2>1 DEF ChatTyped, HubTyped, RowState, Unclaimed
  <2> DEFINE next == [reload[i] EXCEPT !.rows = rows, !.st = st,
                                       !.pc = IF rows = <<>> THEN "answer" ELSE "reactions"]
  <2>3. reload' = [reload EXCEPT ![i] = next]
    BY <1>3, <1>5 DEF SelectMessages, ReloadType
  <2> HIDE DEF rows
  <2>4. st \in [D -> ValidStates \cup {"null"}]
    BY <2>2
  <2>5. st \in UNION {[X -> ValidStates \cup {"null"}] : X \in SUBSET Msgs}
    BY <2>1, <2>4
  <2> HIDE DEF st
  <2>6. next \in ReloadType
    BY <1>3, <2>1, <2>5 DEF ReloadType
  <2>7. ViewTyped'
    BY <1>5, SameView DEF ChatTyped, SelectMessages
  <2> HIDE DEF next
  <2>8. reload' \in [Reloads -> ReloadType]
    BY <1>3, <2>3, <2>6
  <2> QED
    BY <1>1, <1>2, <2>7, <2>8 DEF ChatTyped
<1>6. CASE SelectReactions(i)
  <2> DEFINE next == [reload[i] EXCEPT !.re = reacted \cap Range(reload[i].rows), !.pc = "answer"]
  <2>1. reload' = [reload EXCEPT ![i] = next]
    BY <1>3, <1>6 DEF SelectReactions, ReloadType
  <2>2. next \in ReloadType
    BY <1>3 DEF ReloadType, ChatTyped, HubTyped
  <2>3. ViewTyped'
    BY <1>6, SameView DEF ChatTyped, SelectReactions
  <2> HIDE DEF next
  <2>4. reload' \in [Reloads -> ReloadType]
    BY <1>3, <2>1, <2>2
  <2> QED
    BY <1>1, <1>2, <2>3, <2>4 DEF ChatTyped
<1>7. CASE FinishReload(i)
  <2>1. reload' \in [Reloads -> ReloadType]
    BY <1>3, <1>7 DEF FinishReload
  <2>2. shown' \in Seq(Msgs)
    BY <1>3, <1>7 DEF FinishReload, Replaced, ReloadType
  <2>3. states' \in [Msgs -> ValidStates \cup {"null"}]
    <3>1. PICK D \in SUBSET Msgs : reload[i].st \in [D -> ValidStates \cup {"null"}]
      BY <1>3 DEF ReloadType
    <3>2. states' = MergeStates(reload[i].st)
      BY <1>7 DEF FinishReload
    <3> QED
      BY <3>1, <3>2 DEF MergeStates, ChatTyped, ViewTyped
  <2>4. marks' \in [Msgs -> Nat]
    BY <1>7 DEF FinishReload, MergeReactions, ChatTyped, ViewTyped
  <2> QED
    BY <1>1, <1>2, <2>1, <2>2, <2>3, <2>4 DEF ChatTyped, ViewTyped
<1>8. CASE FailReload(i)
  <2>1. reload' \in [Reloads -> ReloadType]
    BY <1>3, <1>8 DEF FailReload
  <2>2. ViewTyped'
    BY <1>8, SameView DEF ChatTyped, FailReload
  <2> QED
    BY <1>1, <1>2, <2>1, <2>2 DEF ChatTyped
<1> QED
  BY <1>4, <1>5, <1>6, <1>7, <1>8 DEF Reload

LEMMA ChatNextTyped == ASSUME ChatTyped, Next PROVE ChatTyped'
  BY UserTyped, LinkTyped, RestartTyped, TakeTyped, InsertTyped, StateTyped, ReactTyped, EmitTyped,
     ReloadTyped
     DEF Next, React

LEMMA ChatStutterTyped == ASSUME ChatTyped, UNCHANGED vars PROVE ChatTyped'
<1>1. HubTyped' /\ ViewTyped'
  BY SameHub, SameView DEF ChatTyped, vars
<1> QED
  BY <1>1 DEF ChatTyped, WireTyped, vars, wire, rest

(***************************************************************************)
(* The tables, the wire and the lists of the browser (App.tsx) keep their  *)
(* types.                                                                  *)
(***************************************************************************)
THEOREM ChatTypeCorrect == Spec => []TypeOK
<1>1. Init => ChatTyped
  BY ChatInitTyped
<1>2. ChatTyped /\ [Next]_vars => ChatTyped'
  BY ChatNextTyped, ChatStutterTyped
<1>3. ChatTyped => TypeOK
  BY ChatTypedIs
<1> QED
  BY <1>1, <1>2, <1>3, PTL DEF Spec

-----------------------------------------------------------------------------
(***************************************************************************)
(* A message the user has typed is in one place: queued, on the wire, at   *)
(* an insert that is still to come, in the table, or lost.                 *)
(***************************************************************************)
\* Without a link nothing is on the wire, which is why Connect may put the queue there.
OneLink == ~linked => up = <<>>

PlacesOf(m) ==
    Copies(m, pending) + Copies(m, up) + Copies(m, table)
    + (IF m \in inserting THEN 1 ELSE 0) + (IF m \in lost THEN 1 ELSE 0)

Placed == \A m \in Typed : PlacesOf(m) = IF m \in typed THEN 1 ELSE 0

ChatInv == ChatTyped /\ OneLink /\ Placed

LEMMA CopiesNat ==
    ASSUME ChatTyped, NEW m
    PROVE  /\ Copies(m, pending) \in Nat /\ Copies(m, up) \in Nat /\ Copies(m, table) \in Nat
           /\ Copies(m, up) = 0 <=> m \notin Range(up)
  BY CopiesAre DEF ChatTyped, HubTyped, WireTyped

LEMMA SendPlaced ==
    ASSUME ChatInv, NEW s \in Msgs, SendMessage(s)
    PROVE  OneLink' /\ Placed'
<1>1. /\ s \in Typed \ typed /\ typed' = typed \cup {s}
      /\ UNCHANGED <<table, inserting, lost, linked>>
      /\ IF linked THEN up' = Append(up, s) /\ pending' = pending
                   ELSE pending' = Append(pending, s) /\ up' = up
  BY DEF SendMessage, hub
<1>2. up \in Seq(Typed) /\ pending \in Seq(Typed)
  BY DEF ChatInv, ChatTyped, WireTyped
<1>3. OneLink'
  BY <1>1 DEF ChatInv, OneLink
<1>4. ASSUME NEW m \in Typed PROVE (PlacesOf(m) = IF m \in typed THEN 1 ELSE 0)'
  <2>1. /\ Copies(m, Append(up, s)) = Copies(m, up) + (IF s = m THEN 1 ELSE 0)
        /\ Copies(m, Append(pending, s)) = Copies(m, pending) + (IF s = m THEN 1 ELSE 0)
    BY <1>1, <1>2, CopiesAppend
  <2>2. PlacesOf(m) = IF m \in typed THEN 1 ELSE 0
    BY DEF ChatInv, Placed
  <2>3. PlacesOf(m)' = PlacesOf(m) + (IF s = m THEN 1 ELSE 0)
    <3>1. Copies(m, table') = Copies(m, table) /\ (m \in inserting' <=> m \in inserting)
          /\ (m \in lost' <=> m \in lost)
      BY <1>1
    <3>2. /\ Copies(m, pending) \in Nat /\ Copies(m, up) \in Nat /\ Copies(m, table) \in Nat
      BY CopiesNat DEF ChatInv
    <3>3. CASE linked
      <4>1. Copies(m, up') = Copies(m, up) + (IF s = m THEN 1 ELSE 0)
            /\ Copies(m, pending') = Copies(m, pending)
        BY <1>1, <2>1, <3>3
      <4> QED
        BY <3>1, <3>2, <4>1 DEF PlacesOf
    <3>4. CASE ~linked
      <4>1. Copies(m, pending') = Copies(m, pending) + (IF s = m THEN 1 ELSE 0)
            /\ Copies(m, up') = Copies(m, up)
        BY <1>1, <2>1, <3>4
      <4> QED
        BY <3>1, <3>2, <4>1 DEF PlacesOf
    <3> QED
      BY <3>3, <3>4
  <2> QED
    BY <1>1, <2>2, <2>3
<1> QED
  BY <1>3, <1>4 DEF Placed

\* Nobody is lost or doubled if every message is in as many places as before.
LEMMA PlacedStays ==
    ASSUME Placed, UNCHANGED typed, \A m \in Typed : PlacesOf(m)' = PlacesOf(m)
    PROVE  Placed'
  BY DEF Placed

LEMMA SamePlaces ==
    ASSUME ChatInv, UNCHANGED <<pending, up, table, inserting, lost, typed, linked>>
    PROVE  OneLink' /\ Placed'
<1>1. \A m \in Typed : PlacesOf(m)' = PlacesOf(m)
  BY DEF PlacesOf
<1> QED
  BY <1>1, PlacedStays DEF ChatInv, OneLink

LEMMA ConnectPlaced ==
    ASSUME ChatInv, Connect
    PROVE  OneLink' /\ Placed'
<1>1. /\ up = <<>> /\ linked' = TRUE /\ up' = pending /\ pending' = <<>>
      /\ UNCHANGED <<table, inserting, lost, typed>>
  BY DEF ChatInv, OneLink, Connect, Flush, hub, rest
<1>2. ASSUME NEW m \in Typed PROVE PlacesOf(m)' = PlacesOf(m)
  <2>1. Copies(m, pending) \in Nat /\ Copies(m, table) \in Nat
    BY CopiesNat DEF ChatInv
  <2>2. /\ Copies(m, up) = 0 /\ Copies(m, pending') = 0 /\ Copies(m, up') = Copies(m, pending)
        /\ Copies(m, table') = Copies(m, table)
    BY <1>1, CopiesNone
  <2>3. (m \in inserting' <=> m \in inserting) /\ (m \in lost' <=> m \in lost)
    BY <1>1
  <2> QED
    BY <2>1, <2>2, <2>3 DEF PlacesOf
<1> QED
  BY <1>1, <1>2, PlacedStays DEF ChatInv, OneLink

\* A lost link drops what was on the wire, a restart what the handlers held as well.
LEMMA DropPlaced ==
    ASSUME ChatInv, NEW held, held = {} \/ held = inserting, Disconnected(held),
           inserting' = inserting \ held, UNCHANGED <<table, pending, typed>>
    PROVE  OneLink' /\ Placed'
<1>1. up' = <<>> /\ lost' = lost \cup Range(up) \cup held /\ linked' = FALSE
  BY DEF Disconnected
<1>2. ASSUME NEW m \in Typed PROVE PlacesOf(m)' = PlacesOf(m)
  <2>1. /\ Copies(m, pending) \in Nat /\ Copies(m, up) \in Nat /\ Copies(m, table) \in Nat
        /\ Copies(m, up) = 0 <=> m \notin Range(up)
    BY CopiesNat DEF ChatInv
  <2>2. Copies(m, pending') = Copies(m, pending) /\ Copies(m, table') = Copies(m, table)
        /\ Copies(m, up') = 0
    BY <1>1, CopiesNone
  <2>3. PlacesOf(m) \in {0, 1}
    BY DEF ChatInv, Placed
  <2>4. m \in lost' <=> m \in lost \/ m \in Range(up) \/ m \in held
    BY <1>1
  <2>5. m \in inserting' <=> m \in inserting /\ m \notin held
    OBVIOUS
  <2>6. m \in held => m \in inserting
    OBVIOUS
  <2>7. CASE m \in Range(up)
    <3>1. Copies(m, up) = 1 /\ m \notin inserting /\ m \notin lost
      <4>1. Copies(m, up) \in Nat /\ Copies(m, up) >= 1 /\ PlacesOf(m) <= 1
        BY <2>1, <2>3, <2>7
      <4> QED
        BY <2>1, <4>1 DEF PlacesOf
    <3> QED
      BY <2>1, <2>2, <2>4, <2>5, <2>6, <2>7, <3>1 DEF PlacesOf
  <2>8. CASE m \notin Range(up) /\ m \in held
    <3>1. Copies(m, up) = 0 /\ m \in inserting /\ m \notin lost
      BY <2>1, <2>3, <2>6, <2>8 DEF PlacesOf
    <3> QED
      BY <2>1, <2>2, <2>4, <2>5, <2>8, <3>1 DEF PlacesOf
  <2>9. CASE m \notin Range(up) /\ m \notin held
    <3>1. Copies(m, up) = 0
      BY <2>1, <2>9
    <3> QED
      BY <2>1, <2>2, <2>4, <2>5, <2>9, <3>1 DEF PlacesOf
  <2> QED
    BY <2>7, <2>8, <2>9
<1> QED
  BY <1>1, <1>2, PlacedStays DEF ChatInv, OneLink

LEMMA TakePlaced ==
    ASSUME ChatInv, TakeMessage
    PROVE  OneLink' /\ Placed'
<1>1. /\ up # <<>> /\ up' = Tail(up)
      /\ \/ lost' = lost \cup {Head(up)} /\ UNCHANGED inserting
         \/ inserting' = inserting \cup {Head(up)} /\ UNCHANGED lost
      /\ UNCHANGED <<table, pending, typed, linked>>
  BY DEF TakeMessage
<1>2. up \in Seq(Typed)
  BY DEF ChatInv, ChatTyped, WireTyped
<1>3. ASSUME NEW m \in Typed PROVE PlacesOf(m)' = PlacesOf(m)
  <2>1. /\ Copies(m, pending) \in Nat /\ Copies(m, up) \in Nat /\ Copies(m, table) \in Nat
    BY CopiesNat DEF ChatInv
  <2>2. Copies(m, pending') = Copies(m, pending) /\ Copies(m, table') = Copies(m, table)
    BY <1>1
  <2>3. Copies(m, up) = Copies(m, up') + (IF Head(up) = m THEN 1 ELSE 0)
    BY <1>1, <1>2, CopiesTail
  <2>4. Copies(m, up') \in Nat
    <3>1. Tail(up) \in Seq(Typed)
      BY <1>1, <1>2, HeadTailProperties
    <3> QED
      BY <1>1, <3>1, CopiesAre
  <2>5. PlacesOf(m) \in {0, 1}
    BY DEF ChatInv, Placed
  <2>6. CASE Head(up) # m
    <3>1. (m \in inserting' <=> m \in inserting) /\ (m \in lost' <=> m \in lost)
      BY <1>1, <2>6
    <3>2. Copies(m, up') = Copies(m, up)
      BY <2>3, <2>4, <2>6
    <3> QED
      BY <2>1, <2>2, <3>1, <3>2 DEF PlacesOf
  <2>7. CASE Head(up) = m
    <3>1. Copies(m, up) = Copies(m, up') + 1
      BY <2>3, <2>7
    <3>2. m \notin inserting /\ m \notin lost
      BY <2>1, <2>4, <2>5, <3>1 DEF PlacesOf
    <3>3. \/ m \in lost' /\ m \notin inserting'
          \/ m \notin lost' /\ m \in inserting'
      BY <1>1, <2>7, <3>2
    <3>4. PlacesOf(m) = Copies(m, pending) + Copies(m, up) + Copies(m, table)
      BY <2>1, <3>2 DEF PlacesOf
    <3>5. PlacesOf(m)' = Copies(m, pending') + Copies(m, up') + Copies(m, table') + 1
      BY <2>1, <2>2, <2>4, <3>3 DEF PlacesOf
    <3> QED
      BY <2>1, <2>2, <2>4, <3>1, <3>4, <3>5
  <2> QED
    BY <2>6, <2>7
<1>4. OneLink'
  BY <1>1 DEF ChatInv, OneLink
<1> QED
  BY <1>1, <1>3, <1>4, PlacedStays DEF ChatInv

LEMMA InsertPlaced ==
    ASSUME ChatInv, NEW s \in Msgs, InsertMessage(s) \/ InsertFails(s) \/ ServiceMessage(s)
    PROVE  OneLink' /\ Placed'
<1>1. UNCHANGED <<up, pending, typed, linked>>
  BY DEF InsertMessage, InsertFails, ServiceMessage, wire, rest
<1>2. table \in Seq(Msgs)
  BY DEF ChatInv, ChatTyped, HubTyped
<1>3. ASSUME NEW m \in Typed PROVE PlacesOf(m)' = PlacesOf(m)
  <2>1. /\ Copies(m, pending) \in Nat /\ Copies(m, up) \in Nat /\ Copies(m, table) \in Nat
    BY CopiesNat DEF ChatInv
  <2>2. Copies(m, pending') = Copies(m, pending) /\ Copies(m, up') = Copies(m, up)
    BY <1>1
  <2>3. PlacesOf(m) \in {0, 1}
    BY DEF ChatInv, Placed
  <2>4. Copies(m, <<s>> \o table) = Copies(m, table) + (IF s = m THEN 1 ELSE 0)
    BY <1>2, CopiesPush
  <2>5. CASE InsertMessage(s)
    <3>1. /\ s \in inserting /\ inserting' = inserting \ {s} /\ lost' = lost
          /\ table' = <<s>> \o table
      BY <2>5 DEF InsertMessage, Store, rest
    <3>2. CASE s = m
      <4>1. Copies(m, table') = Copies(m, table) + 1 /\ m \in inserting /\ m \notin inserting'
            /\ (m \in lost' <=> m \in lost)
        BY <2>4, <3>1, <3>2
      <4> QED
        BY <2>1, <2>2, <4>1 DEF PlacesOf
    <3>3. CASE s # m
      <4>1. Copies(m, table') = Copies(m, table) /\ (m \in inserting' <=> m \in inserting)
            /\ (m \in lost' <=> m \in lost)
        BY <2>1, <2>4, <3>1, <3>3
      <4> QED
        BY <2>1, <2>2, <4>1 DEF PlacesOf
    <3> QED
      BY <3>2, <3>3
  <2>6. CASE InsertFails(s)
    <3>1. /\ s \in inserting /\ inserting' = inserting \ {s} /\ lost' = lost \cup {s}
          /\ Copies(m, table') = Copies(m, table)
      BY <2>6 DEF InsertFails
    <3>2. CASE s = m
      <4>1. m \in inserting /\ m \notin inserting' /\ m \in lost'
        BY <3>1, <3>2
      <4>2. m \notin lost
        BY <2>1, <2>3, <4>1 DEF PlacesOf
      <4> QED
        BY <2>1, <2>2, <3>1, <4>1, <4>2 DEF PlacesOf
    <3>3. CASE s # m
      <4>1. (m \in inserting' <=> m \in inserting) /\ (m \in lost' <=> m \in lost)
        BY <3>1, <3>3
      <4> QED
        BY <2>1, <2>2, <3>1, <4>1 DEF PlacesOf
    <3> QED
      BY <3>2, <3>3
  <2>7. CASE ServiceMessage(s)
    <3>1. s # m /\ table' = <<s>> \o table /\ UNCHANGED <<inserting, lost>>
      BY <2>7 DEF ServiceMessage, Store
    <3>2. Copies(m, table') = Copies(m, table) /\ (m \in inserting' <=> m \in inserting)
          /\ (m \in lost' <=> m \in lost)
      BY <2>1, <2>4, <3>1
    <3> QED
      BY <2>1, <2>2, <3>2 DEF PlacesOf
  <2> QED
    BY <2>5, <2>6, <2>7
<1> QED
  BY <1>1, <1>3, PlacedStays DEF ChatInv, OneLink

LEMMA ChatNextInv == ASSUME ChatInv, Next PROVE ChatInv'
<1>1. ChatTyped'
  BY ChatNextTyped DEF ChatInv
<1>2. ASSUME NEW m \in Msgs,
             \/ SendMessage(m) \/ ToggleReaction(m) \/ InsertMessage(m) \/ InsertFails(m)
             \/ ServiceMessage(m) \/ \E s \in PutStates : ChangeState(m, s)
      PROVE  OneLink' /\ Placed'
  <2>1. CASE ToggleReaction(m) \/ \E s \in PutStates : ChangeState(m, s)
    <3>1. UNCHANGED <<pending, up, table, inserting, lost, typed, linked>>
      BY <2>1 DEF ToggleReaction, ChangeState, wire
    <3> QED
      BY <3>1, SamePlaces
  <2> QED
    BY <1>2, <2>1, SendPlaced, InsertPlaced
<1>3. ASSUME \/ \E k \in DOMAIN announcing : Emit(k)
             \/ \E k \in DOMAIN asked : React(k)
             \/ \E i \in Reloads : Reload(i) \/ FailReload(i)
             \/ LearnUser \/ MinutePasses
      PROVE  OneLink' /\ Placed'
  <2>1. UNCHANGED <<pending, up, table, inserting, lost, typed, linked>>
    BY <1>3 DEF Emit, React, AddReaction, RemoveReaction, Reload, StartReload, SelectMessages,
                SelectReactions, FinishReload, FailReload, LearnUser, MinutePasses, hub, wire, rest
  <2> QED
    BY <2>1, SamePlaces
<1>4. ASSUME LoseLink PROVE OneLink' /\ Placed'
  <2>1. /\ Disconnected({}) /\ inserting' = inserting \ {}
        /\ UNCHANGED <<table, pending, typed>>
    BY <1>4 DEF LoseLink, hub
  <2> QED
    BY <2>1, DropPlaced
<1>5. ASSUME Restart PROVE OneLink' /\ Placed'
  <2>1. /\ Disconnected(inserting) /\ inserting' = inserting \ inserting
        /\ UNCHANGED <<table, pending, typed>>
    BY <1>5 DEF Restart
  <2> QED
    BY <2>1, DropPlaced
<1> QED
  BY <1>1, <1>2, <1>3, <1>4, <1>5, ConnectPlaced, TakePlaced DEF ChatInv, Next

LEMMA ChatInitInv == ASSUME Init PROVE ChatInv
<1>1. ASSUME NEW m \in Typed PROVE PlacesOf(m) = IF m \in typed THEN 1 ELSE 0
  <2>1. Copies(m, pending) = 0 /\ Copies(m, up) = 0 /\ Copies(m, table) = 0
    BY CopiesNone DEF Init
  <2>2. m \notin inserting /\ m \notin lost /\ m \notin typed
    BY DEF Init
  <2> QED
    BY <2>1, <2>2 DEF PlacesOf
<1> QED
  BY <1>1, ChatInitTyped DEF Init, ChatInv, OneLink, Placed

(***************************************************************************)
(* A message the user has sent off is in exactly one place, through lost   *)
(* links, restarts, limits and failing statements: reconnecting (App.tsx)  *)
(* neither repeats nor forgets one, for any number of messages.            *)
(***************************************************************************)
THEOREM OnePlaceHolds == Spec => []OnePlace
<1>1. Init => ChatInv
  BY ChatInitInv
<1>2. ChatInv /\ [Next]_vars => ChatInv'
  <2>1. ASSUME ChatInv, UNCHANGED vars PROVE ChatInv'
    <3>1. UNCHANGED <<pending, up, table, inserting, lost, typed, linked>>
      BY <2>1 DEF vars, hub, wire, rest
    <3>2. OneLink' /\ Placed'
      BY <2>1, <3>1, SamePlaces
    <3>3. ChatTyped'
      BY <2>1, ChatStutterTyped DEF ChatInv
    <3> QED
      BY <3>2, <3>3 DEF ChatInv
  <2> QED
    BY <2>1, ChatNextInv
<1>3. ChatInv => OnePlace
  BY DEF ChatInv, Placed, PlacesOf, OnePlace
<1> QED
  BY <1>1, <1>2, <1>3, PTL DEF Spec

(***************************************************************************)
(* The cut to milliseconds.                                                *)
(***************************************************************************)
LEMMA Multiples ==
    ASSUME NEW x \in Nat, NEW y \in Nat, NEW z \in Nat, y >= z + 1 PROVE x * y >= x * z + x
  OBVIOUS

LEMMA CutIs == ASSUME NEW t \in Nat PROVE Cut(t) \in Nat /\ Cut(t) <= t
  BY FeedAssumption DEF Cut

\* What lies between a time and its cut is of the same millisecond.
LEMMA CutAgain ==
    ASSUME NEW a \in Nat, NEW b \in Nat, a <= b, Cut(b) <= a
    PROVE  Cut(a) = Cut(b)
<1> DEFINE T == Tick
           p == a \div T
           q == b \div T
<1>1. T \in Nat /\ T > 0
  BY FeedAssumption
<1>2. Cut(a) = a - (a % T) /\ Cut(b) = b - (b % T)
  BY DEF Cut
<1> HIDE DEF T
<1>3. /\ p \in Nat /\ a = T * p + (a % T) /\ a % T \in 0..(T - 1)
      /\ q \in Nat /\ b = T * q + (b % T) /\ b % T \in 0..(T - 1)
  BY <1>1
<1> HIDE DEF p, q
<1>4. p = q
  <2>1. CASE p >= q + 1
    BY <1>1, <1>3, <2>1, Multiples
  <2>2. CASE q >= p + 1
    <3>1. T * q >= T * p + T
      BY <1>1, <1>3, <2>2, Multiples
    <3> QED
      BY <1>1, <1>2, <1>3, <3>1
  <2> QED
    BY <1>3, <2>1, <2>2
<1> QED
  BY <1>1, <1>2, <1>3, <1>4

-----------------------------------------------------------------------------
(***************************************************************************)
(* The feed.  First its types: feed and pages hold stored activities, and  *)
(* a page has its size.                                                    *)
(***************************************************************************)
PageType ==
    [pc : {"idle", "asked", "read"}, cursor : Nat \cup {NoCursor}, rows : Seq(1..Len(at)),
     more : BOOLEAN]

FeedTyped ==
    /\ at \in Seq(Instants) /\ emitting \subseteq 1..Len(at)
    /\ feed \in Seq(1..Len(at)) /\ more \in BOOLEAN
    /\ page \in PageType /\ Len(page.rows) <= PageSize
    /\ slipped \in BOOLEAN /\ online \in BOOLEAN
    /\ calls \in 0..MaxCalls /\ failures \in 0..MaxFailures

LEMMA FeedFacts ==
    ASSUME FeedTyped
    PROVE  /\ Len(at) \in Nat /\ DOMAIN at = 1..Len(at) /\ \A n \in DOMAIN at : at[n] \in Nat
           /\ feed \in Seq(DOMAIN at) /\ page.rows \in Seq(DOMAIN at)
           /\ page.cursor \in Nat \cup {NoCursor} /\ page.pc \in {"idle", "asked", "read"}
           /\ page.more \in BOOLEAN
<1>1. Len(at) \in Nat /\ DOMAIN at = 1..Len(at)
  BY DEF FeedTyped
<1>2. \A n \in DOMAIN at : at[n] \in Nat
  <2>1. \A n \in 1..Len(at) : at[n] \in Instants
    BY ElementOfSeq DEF FeedTyped
  <2> QED
    BY <1>1, <2>1, FeedAssumption
<1>3. /\ page.rows \in Seq(1..Len(at)) /\ page.cursor \in Nat \cup {NoCursor}
      /\ page.pc \in {"idle", "asked", "read"} /\ page.more \in BOOLEAN
  BY DEF FeedTyped, PageType
<1> QED
  BY <1>1, <1>2, <1>3 DEF FeedTyped

LEMMA FeedTypedIs == ASSUME FeedTyped PROVE FeedTypeOK
  BY FeedFacts DEF FeedTyped, FeedTypeOK

LEMMA NoPageTyped == NoPage \in PageType /\ Len(NoPage.rows) <= PageSize
<1>1. <<>> \in Seq(1..Len(at)) /\ Len(<<>>) = 0
  BY EmptySeq
<1> QED
  BY <1>1, FeedAssumption DEF NoPage, PageType

LEMMA FeedInitTyped == ASSUME FeedInit PROVE FeedTyped
<1>1. at \in [1..Stored -> Instants] /\ Stored \in Nat
  BY FeedAssumption DEF FeedInit
<1>2. at \in Seq(Instants)
  BY <1>1
<1>3. page \in PageType /\ Len(page.rows) <= PageSize
  <2>1. page = [NoPage EXCEPT !.pc = "asked"]
    BY DEF FeedInit
  <2> QED
    BY <2>1, NoPageTyped DEF PageType
<1>4. feed \in Seq(1..Len(at))
  BY EmptySeq DEF FeedInit
<1>5. calls \in 0..MaxCalls /\ failures \in 0..MaxFailures
  BY FeedAssumption DEF FeedInit
<1> QED
  BY <1>2, <1>3, <1>4, <1>5 DEF FeedInit, FeedTyped

LEMMA ActTyped ==
    ASSUME FeedTyped, Act \/ Fail PROVE calls' \in 0..MaxCalls /\ failures' \in 0..MaxFailures
  BY FeedAssumption DEF FeedTyped, Act, Fail

\* One activity more: those there were keep their numbers and their times.
LEMMA Stores ==
    ASSUME FeedTyped, NEW t \in Instants, at' = Append(at, t)
    PROVE  /\ at' \in Seq(Instants) /\ Len(at') = Len(at) + 1 /\ at'[Len(at')] = t
           /\ \A n \in 1..Len(at) : at'[n] = at[n]
           /\ 1..Len(at) \subseteq 1..Len(at')
  BY FeedFacts DEF FeedTyped

LEMMA PostTyped ==
    ASSUME FeedTyped, NEW t \in Instants, PostActivity(t) \/ PostServiceMessage(t)
    PROVE  FeedTyped'
<1>1. at' = Append(at, t) /\ UNCHANGED <<feed, more, page, online>> /\ Act
  BY DEF PostActivity, PostServiceMessage, StoreActivity, StoreSilently
<1>2. at' \in Seq(Instants) /\ Len(at') = Len(at) + 1 /\ 1..Len(at) \subseteq 1..Len(at')
  BY <1>1, Stores
<1>3. feed' \in Seq(1..Len(at')) /\ page'.rows \in Seq(1..Len(at'))
  <2> DEFINE A == 1..Len(at)
             B == 1..Len(at')
  <2>1. A \subseteq B /\ feed \in Seq(A) /\ page.rows \in Seq(A)
    BY <1>2, FeedFacts
  <2> HIDE DEF A, B
  <2>2. feed \in Seq(B) /\ page.rows \in Seq(B)
    BY <2>1, SeqMonotonic
  <2> QED
    BY <1>1, <2>2 DEF B
<1>4. page' \in PageType'
  BY <1>1, <1>3 DEF FeedTyped, PageType
<1>5. emitting' \subseteq 1..Len(at') /\ slipped' \in BOOLEAN
  <2>1. emitting \subseteq 1..Len(at) /\ slipped \in BOOLEAN /\ Len(at) \in Nat
    BY FeedFacts DEF FeedTyped
  <2>2. emitting' \subseteq emitting \cup {Len(at')} /\ slipped' \in BOOLEAN
    BY <2>1 DEF PostActivity, PostServiceMessage, StoreActivity, StoreSilently
  <2> QED
    BY <1>2, <2>1, <2>2
<1> QED
  BY <1>1, <1>2, <1>3, <1>4, <1>5, ActTyped DEF FeedTyped

LEMMA LatestIs ==
    ASSUME NEW S, NEW s \in Seq(S)
    PROVE  /\ Latest(s) \in Seq(S) /\ Len(Latest(s)) \in Nat
           /\ Len(Latest(s)) <= Len(s) /\ Len(Latest(s)) <= Kept
           /\ Len(Latest(s)) = Len(s) \/ Len(Latest(s)) = Kept
           /\ \A i \in 1..Len(Latest(s)) : Latest(s)[i] = s[i]
<1>1. Kept \in Nat
  BY FeedAssumption
<1> QED
  BY <1>1, FirstPart DEF Latest

LEMMA PushTyped == ASSUME FeedTyped, NEW n \in emitting, EmitActivity(n) PROVE FeedTyped'
<1>1. UNCHANGED <<at, more, page, online, calls, failures>> /\ emitting' = emitting \ {n}
  BY DEF EmitActivity, feedBudget
<1>2. <<n>> \o feed \in Seq(1..Len(at)) /\ feed \in Seq(1..Len(at))
  <2>1. n \in 1..Len(at) /\ feed \in Seq(1..Len(at))
    BY DEF FeedTyped
  <2> QED
    BY <2>1, ConcatProperties
<1>3. feed' \in Seq(1..Len(at))
  BY <1>2, LatestIs DEF EmitActivity
<1>4. slipped' \in BOOLEAN
  BY DEF EmitActivity, FeedTyped, FirstPage
<1>5. page' \in PageType'
  BY <1>1 DEF FeedTyped, PageType
<1> QED
  BY <1>1, <1>3, <1>4, <1>5 DEF FeedTyped

\* The rows a query returns: of those it may return the first, in their order.
LEMMA RowsAre ==
    ASSUME FeedTyped, NEW S \in SUBSET (DOMAIN at), NEW rows \in Pages(S)
    PROVE  /\ rows \in Seq(S) /\ rows \in Seq(DOMAIN at) /\ Len(rows) \in Nat
           /\ Len(rows) <= PageSize /\ (Len(rows) = 0 => S = {})
           /\ Sorted(rows) /\ \A n \in S \ Range(rows), i \in DOMAIN rows : at[rows[i]] >= at[n]
<1>1. IsFiniteSet(S) /\ Cardinality(S) \in Nat
  <2>1. IsFiniteSet(1..Len(at))
    BY FeedFacts, FS_Interval
  <2> QED
    BY <2>1, FeedFacts, FS_Subset, FS_CardinalityType
<1> DEFINE l == Min({Cardinality(S), PageSize})
<1>2. l \in Nat /\ l <= PageSize /\ (l = 0 => S = {})
  <2>1. PageSize \in Nat \ {0}
    BY FeedAssumption
  <2>2. l \in {Cardinality(S), PageSize} /\ l <= PageSize
    BY <1>1, <2>1, SmallerOfTwo
  <2>3. Cardinality(S) = 0 => S = {}
    BY <1>1, FS_EmptySet
  <2> HIDE DEF l
  <2> QED
    BY <1>1, <2>1, <2>2, <2>3
<1>3. /\ rows \in [1..l -> S] /\ Sorted(rows)
      /\ \A n \in S \ Range(rows), i \in DOMAIN rows : at[rows[i]] >= at[n]
  BY DEF Pages, FirstRows
<1> HIDE DEF l
<1>4. rows \in Seq(S) /\ Len(rows) = l
  BY <1>2, <1>3
<1>5. rows \in Seq(DOMAIN at)
  <2> DEFINE D == DOMAIN at
  <2>1. S \subseteq D
    OBVIOUS
  <2> HIDE DEF D
  <2>2. rows \in Seq(D)
    BY <1>4, <2>1, SeqMonotonic
  <2> QED
    BY <2>2 DEF D
<1> QED
  BY <1>2, <1>3, <1>4, <1>5

LEMMA PageTyped ==
    ASSUME FeedTyped, AskOlder \/ ReadPage \/ TakePage \/ LosePage
    PROVE  FeedTyped'
<1>1. UNCHANGED <<at, emitting, online>> /\ PageType' = PageType
  BY DEF AskOlder, ReadPage, TakePage, LosePage, PageType
<1>2. calls' \in 0..MaxCalls /\ failures' \in 0..MaxFailures
  BY ActTyped DEF AskOlder, ReadPage, TakePage, LosePage, FeedTyped, feedBudget
<1>3. NoPage \in PageType /\ Len(NoPage.rows) <= PageSize
  BY NoPageTyped
<1>4. CASE AskOlder
  <2>1. Cut(at[Last(feed)]) \in Nat
    <3>1. Len(feed) \in 1..Len(feed)
      BY <1>4, FeedFacts, EmptySeq DEF AskOlder
    <3>2. Last(feed) \in DOMAIN at
      BY <3>1, FeedFacts, ElementOfSeq DEF Last
    <3> QED
      BY <3>2, FeedFacts, CutIs
  <2>2. page' = [NoPage EXCEPT !.pc = "asked", !.cursor = Cut(at[Last(feed)])]
    BY <1>4 DEF AskOlder
  <2>3. page' \in PageType /\ Len(page'.rows) <= PageSize
    BY <1>3, <2>1, <2>2 DEF PageType
  <2> QED
    BY <1>1, <1>2, <1>4, <2>3 DEF AskOlder, FeedTyped
<1>5. CASE ReadPage
  <2> DEFINE S == Older(page.cursor)
  <2>1. S \in SUBSET (DOMAIN at)
    BY DEF Older
  <2>2. PICK rows \in Pages(S) :
           page' = [page EXCEPT !.pc = "read", !.more = Cardinality(S) > PageSize, !.rows = rows]
    BY <1>5 DEF ReadPage
  <2>3. rows \in Seq(DOMAIN at) /\ Len(rows) <= PageSize
    BY <2>1, RowsAre
  <2> HIDE DEF S
  <2>4. page' \in PageType /\ page'.rows = rows
    <3>1. rows \in Seq(1..Len(at)) /\ (Cardinality(S) > PageSize) \in BOOLEAN /\ page \in PageType
      BY <2>3, FeedFacts DEF FeedTyped
    <3> QED
      BY <2>2, <3>1 DEF PageType
  <2>5. slipped' \in BOOLEAN /\ feed' = feed /\ more' = more
    BY <1>5 DEF ReadPage, FeedTyped, FirstPage
  <2> QED
    BY <1>1, <1>2, <2>3, <2>4, <2>5 DEF FeedTyped
<1>6. CASE TakePage
  <2>1. feed' \in Seq(1..Len(at)) /\ more' \in BOOLEAN
    <3>1. feed \in Seq(1..Len(at)) /\ page.rows \in Seq(1..Len(at)) /\ page.more \in BOOLEAN
      BY FeedFacts
    <3> QED
      BY <1>6, <3>1, ConcatProperties DEF TakePage
  <2> QED
    BY <1>1, <1>2, <1>3, <1>6, <2>1 DEF TakePage, FeedTyped
<1>7. CASE LosePage
  BY <1>1, <1>2, <1>3, <1>7 DEF LosePage, FeedTyped
<1> QED
  BY <1>4, <1>5, <1>6, <1>7

LEMMA FeedStepTyped == ASSUME FeedTyped, [FeedNext]_feedVars PROVE FeedTyped'
<1>1. ASSUME NEW t \in Instants, PostActivity(t) \/ PostServiceMessage(t) PROVE FeedTyped'
  BY <1>1, PostTyped
<1>2. ASSUME NEW n \in emitting, EmitActivity(n) PROVE FeedTyped'
  BY <1>2, PushTyped
<1>3. CASE AskOlder \/ ReadPage \/ TakePage \/ LosePage
  BY <1>3, PageTyped
<1>4. CASE Link \/ Unlink \/ UNCHANGED feedVars
  <2>1. UNCHANGED feeds /\ online' \in BOOLEAN
    BY <1>4 DEF Link, Unlink, feedVars, FeedTyped
  <2>2. calls' \in 0..MaxCalls /\ failures' \in 0..MaxFailures
    BY <1>4, ActTyped DEF Link, Unlink, feedVars, feedBudget, FeedTyped
  <2> QED
    BY <2>1, <2>2 DEF feeds, FeedTyped, PageType
<1> QED
  BY <1>1, <1>2, <1>3, <1>4 DEF FeedNext

(***************************************************************************)
(* Type correctness: feed and page hold stored activities, and no page is  *)
(* larger than what was asked for (fetchActivities of App.tsx).            *)
(***************************************************************************)
THEOREM FeedTypeCorrect == FeedSpec => []FeedTypeOK
<1>1. FeedInit => FeedTyped
  BY FeedInitTyped
<1>2. FeedTyped /\ [FeedNext]_feedVars => FeedTyped'
  BY FeedStepTyped
<1>3. FeedTyped => FeedTypeOK
  BY FeedTypedIs
<1> QED
  BY <1>1, <1>2, <1>3, PTL DEF FeedSpec

-----------------------------------------------------------------------------
(***************************************************************************)
(* While nothing has slipped, at most the newest activity waits to be      *)
(* emitted; the feed is sorted and misses nothing of S, the activities     *)
(* that have been announced, but what FeedWhole allows; and a page on its  *)
(* way has the first of what is older than the last activity shown.        *)
(***************************************************************************)
Covers(s, S) ==
    \A n \in S \ Range(s) : \E m \in Range(s) :
        /\ at[n] <= at[m]
        /\ m = Last(s) \/ Cut(at[n]) = Cut(at[m])

\* The first of S, if only some.
Heads(s, S) ==
    /\ Range(s) \subseteq S
    /\ \A n \in S \ Range(s) : s # <<>> /\ \A i \in DOMAIN s : at[s[i]] >= at[n]

FeedInv ==
    ~slipped =>
        /\ \A m, n \in DOMAIN at : m < n => at[m] <= at[n]
        /\ emitting \subseteq {Len(at)}
        /\ Sorted(feed) /\ Range(feed) \cap emitting = {}
        /\ feed # <<>> => Covers(feed, DOMAIN at \ emitting)
        /\ page.pc # "idle" /\ page.cursor # NoCursor =>
              feed # <<>> /\ page.cursor = Cut(at[Last(feed)])
        /\ page.pc = "read" => Sorted(page.rows) /\ Heads(page.rows, Older(page.cursor) \ emitting)

\* The last of a list is one of it.
LEMMA LastOf ==
    ASSUME NEW S, NEW s \in Seq(S), s # <<>>
    PROVE  /\ Len(s) \in Nat \ {0} /\ DOMAIN s = 1..Len(s) /\ Last(s) = s[Len(s)]
           /\ Last(s) \in Range(s) /\ Last(s) \in S /\ Range(s) \subseteq S
<1>1. Len(s) \in Nat \ {0} /\ DOMAIN s = 1..Len(s)
  BY EmptySeq
<1>2. Last(s) = s[Len(s)]
  BY DEF Last
<1>3. \A i \in DOMAIN s : s[i] \in S
  BY <1>1, ElementOfSeq
<1> QED
  BY <1>1, <1>2, <1>3 DEF Range

\* In a sorted list the last is the oldest.
LEMMA LastIsOldest ==
    ASSUME FeedTyped, NEW s \in Seq(DOMAIN at), s # <<>>, Sorted(s), NEW m \in Range(s)
    PROVE  at[Last(s)] <= at[m]
<1>1. PICK i \in DOMAIN s : m = s[i]
  BY DEF Range
<1>2. /\ Len(s) \in Nat \ {0} /\ DOMAIN s = 1..Len(s) /\ Last(s) = s[Len(s)]
      /\ m \in DOMAIN at
  BY LastOf
<1>3. at[m] \in Nat
  BY <1>2, FeedFacts
<1>4. CASE i = Len(s)
  BY <1>1, <1>2, <1>3, <1>4
<1>5. CASE i < Len(s)
  BY <1>1, <1>2, <1>3, <1>5 DEF Sorted
<1> QED
  BY <1>1, <1>2, <1>4, <1>5

\* The newest goes on top of a sorted list.
LEMMA NewestOnTop ==
    ASSUME FeedTyped, NEW s \in Seq(DOMAIN at), Sorted(s), NEW n \in DOMAIN at, n \notin Range(s),
           \A m \in DOMAIN at : at[m] <= at[n],
           s # <<>> => Covers(s, DOMAIN at \ {n})
    PROVE  LET t == <<n>> \o s
           IN  /\ t \in Seq(DOMAIN at) /\ t # <<>> /\ Sorted(t) /\ Range(t) = Range(s) \cup {n}
               /\ Covers(t, DOMAIN at) /\ (s # <<>> => Last(t) = Last(s))
<1> DEFINE t == <<n>> \o s
           D == DOMAIN at
<1>1. <<n>> \in Seq(D) /\ Len(<<n>>) = 1 /\ <<n>>[1] = n
  OBVIOUS
<1>2. Len(s) \in Nat /\ DOMAIN s = 1..Len(s)
  OBVIOUS
<1>3. /\ t \in Seq(D) /\ Len(t) = Len(s) + 1
      /\ \A i \in 1..(Len(s) + 1) : t[i] = IF i <= 1 THEN <<n>>[i] ELSE s[i - 1]
  <2> HIDE DEF D
  <2> QED
    BY <1>1, <1>2, ConcatProperties DEF D
<1>4. DOMAIN t = 1..(Len(s) + 1)
  BY <1>2, <1>3
<1> HIDE DEF t
<1>5. t[1] = n /\ \A i \in 2..(Len(s) + 1) : t[i] = s[i - 1] /\ i - 1 \in DOMAIN s
  BY <1>1, <1>2, <1>3
<1>6. t # <<>>
  BY <1>2, <1>3, EmptySeq
<1>7. Range(t) = Range(s) \cup {n}
  <2>1. \A i \in DOMAIN s : i + 1 \in 2..(Len(s) + 1) /\ t[i + 1] = s[i]
    <3> TAKE i \in DOMAIN s
    <3>1. i + 1 \in 2..(Len(s) + 1) /\ i + 1 - 1 = i
      BY <1>2
    <3> QED
      BY <1>5, <3>1
  <2>2. \A i \in DOMAIN t : t[i] = n \/ t[i] \in Range(s)
    <3> TAKE i \in DOMAIN t
    <3>1. i = 1 \/ i \in 2..(Len(s) + 1)
      BY <1>2, <1>4
    <3> QED
      BY <1>5, <3>1 DEF Range
  <2>3. 1 \in DOMAIN t /\ 2..(Len(s) + 1) \subseteq DOMAIN t
    BY <1>2, <1>4
  <2> QED
    BY <1>5, <2>1, <2>2, <2>3 DEF Range
<1>8. Sorted(t)
  <2> SUFFICES ASSUME NEW i \in DOMAIN t, NEW j \in DOMAIN t, i < j
               PROVE  t[i] # t[j] /\ at[t[i]] >= at[t[j]]
    BY DEF Sorted
  <2>1. j \in 2..(Len(s) + 1) /\ t[j] = s[j - 1] /\ j - 1 \in DOMAIN s
    <3>1. j \in 2..(Len(s) + 1)
      BY <1>2, <1>4
    <3> QED
      BY <1>5, <3>1
  <2>2. CASE i = 1
    <3>1. t[j] \in Range(s)
      BY <2>1 DEF Range
    <3>2. t[j] \in D /\ t[i] = n
      BY <1>5, <2>1, <2>2, ElementOfSeq, <1>2
    <3>3. at[t[j]] <= at[n] /\ at[t[j]] \in Nat /\ at[n] \in Nat
      BY <3>2, FeedFacts
    <3> QED
      BY <3>1, <3>2, <3>3
  <2>3. CASE i # 1
    <3>1. i \in 2..(Len(s) + 1)
      BY <1>2, <1>4, <2>3
    <3>2. t[i] = s[i - 1] /\ i - 1 \in DOMAIN s
      BY <1>5, <3>1
    <3>3. i - 1 < j - 1
      BY <2>1, <3>1
    <3> QED
      BY <2>1, <3>2, <3>3 DEF Sorted
  <2> QED
    BY <2>2, <2>3
<1>9. s # <<>> => Last(t) = Last(s)
  <2> SUFFICES ASSUME s # <<>> PROVE Last(t) = Last(s)
    OBVIOUS
  <2>1. Len(s) \in Nat \ {0} /\ Last(s) = s[Len(s)] /\ Last(t) = t[Len(t)]
    BY <1>3, <1>6, LastOf
  <2>2. Len(s) + 1 \in 2..(Len(s) + 1) /\ Len(s) + 1 - 1 = Len(s)
    BY <2>1
  <2> QED
    BY <1>3, <1>5, <2>1, <2>2
<1>10. Covers(t, DOMAIN at)
  <2> SUFFICES ASSUME NEW k \in DOMAIN at, k \notin Range(s), k # n
               PROVE  \E m \in Range(t) :
                         at[k] <= at[m] /\ (m = Last(t) \/ Cut(at[k]) = Cut(at[m]))
    BY <1>7 DEF Covers
  <2>1. CASE s = <<>>
    <3>1. Last(t) = n
      <4>1. Len(t) = 1
        BY <1>3, <2>1, EmptySeq
      <4> QED
        BY <1>5, <4>1 DEF Last
    <3> QED
      BY <1>7, <3>1
  <2>2. CASE s # <<>>
    <3>1. PICK m \in Range(s) : at[k] <= at[m] /\ (m = Last(s) \/ Cut(at[k]) = Cut(at[m]))
      BY <2>2 DEF Covers
    <3> QED
      BY <1>7, <1>9, <2>2, <3>1
  <2> QED
    BY <2>1, <2>2
<1> QED
  BY <1>3, <1>6, <1>7, <1>8, <1>9, <1>10 DEF t

\* What is kept of a list misses only what is older than the last of it.
LEMMA CutFeed ==
    ASSUME FeedTyped, NEW s \in Seq(DOMAIN at), s # <<>>, Sorted(s),
           Covers(s, DOMAIN at)
    PROVE  LET p == Latest(s)
           IN  /\ p \in Seq(DOMAIN at) /\ p # <<>> /\ Sorted(p) /\ Range(p) \subseteq Range(s)
               /\ Covers(p, DOMAIN at) /\ (Len(s) <= Kept => Last(p) = Last(s))
<1> DEFINE p == Latest(s)
<1>1. /\ p \in Seq(DOMAIN at) /\ Len(p) \in Nat /\ Len(p) <= Len(s)
      /\ Len(p) = Len(s) \/ Len(p) = Kept
      /\ Len(p) <= Kept /\ \A i \in 1..Len(p) : p[i] = s[i]
  BY LatestIs
<1> HIDE DEF p
<1>2. Len(s) \in Nat \ {0} /\ DOMAIN s = 1..Len(s) /\ Last(s) = s[Len(s)] /\ Range(s) \subseteq DOMAIN at
  BY LastOf
<1>3. Len(p) \in Nat \ {0} /\ DOMAIN p = 1..Len(p)
  BY <1>1, <1>2, FeedAssumption
<1>4. p # <<>>
  BY <1>3, EmptySeq
<1> DEFINE k == Len(p)
           n == Len(s)
<1>5. k \in Nat \ {0} /\ n \in Nat \ {0} /\ k <= n /\ DOMAIN s = 1..n /\ DOMAIN p = 1..k
      /\ Kept \in Nat /\ (k = n \/ k = Kept)
  BY <1>1, <1>2, <1>3, FeedAssumption
<1>6. \A i \in DOMAIN p : i \in DOMAIN s /\ p[i] = s[i]
  <2> HIDE DEF k, n
  <2>1. 1..k \subseteq 1..n
    BY <1>5
  <2>2. \A i \in 1..k : p[i] = s[i]
    BY <1>1 DEF k
  <2> QED
    BY <1>5, <2>1, <2>2
<1>7. Last(p) = p[k] /\ Last(s) = s[n] /\ k \in DOMAIN p /\ n \in DOMAIN s
  <2>1. Last(p) = p[k] /\ Last(s) = s[n]
    BY DEF Last
  <2> HIDE DEF k, n
  <2> QED
    BY <1>5, <2>1
<1> HIDE DEF k, n
<1>8. Last(p) = s[k] /\ k \in DOMAIN s /\ Last(p) \in Range(p) /\ Last(p) \in DOMAIN at
  <2>1. Last(p) \in Range(p)
    BY <1>7 DEF Range
  <2>2. Last(p) = s[k] /\ k \in DOMAIN s
    BY <1>6, <1>7
  <2> QED
    BY <1>2, <2>1, <2>2 DEF Range
<1>9. Range(p) \subseteq Range(s)
  BY <1>6 DEF Range
<1>10. Sorted(p)
  BY <1>5, <1>6 DEF Sorted
<1>11. ASSUME NEW m \in Range(s)
      PROVE  at[m] <= at[Last(p)] \/ (m \in Range(p) /\ m # Last(s))
  <2>1. PICK i \in DOMAIN s : m = s[i]
    BY DEF Range
  <2>2. CASE i < k
    <3>1. i \in DOMAIN p /\ p[i] = m
      BY <1>5, <1>6, <2>1, <2>2
    <3>2. s[i] # s[n]
      BY <1>5, <1>7, <2>2 DEF Sorted
    <3> QED
      BY <1>7, <2>1, <3>1, <3>2 DEF Range
  <2>3. CASE i = k
    BY <1>8, <2>1, <2>3, FeedFacts
  <2>4. CASE i > k
    <3>1. at[s[k]] >= at[s[i]]
      BY <1>8, <2>4 DEF Sorted
    <3>2. at[m] \in Nat /\ at[Last(p)] \in Nat
      BY <1>2, <1>8, FeedFacts
    <3> QED
      BY <1>8, <2>1, <3>1, <3>2
  <2> QED
    BY <1>5, <2>1, <2>2, <2>3, <2>4
<1>12. Covers(p, DOMAIN at)
  <2> SUFFICES ASSUME NEW x \in DOMAIN at, x \notin Range(p)
               PROVE  \E m \in Range(p) :
                         at[x] <= at[m] /\ (m = Last(p) \/ Cut(at[x]) = Cut(at[m]))
    BY DEF Covers
  <2>1. CASE x \in Range(s)
    BY <1>8, <1>11, <2>1
  <2>2. CASE x \notin Range(s)
    <3>1. PICK m \in Range(s) : at[x] <= at[m] /\ (m = Last(s) \/ Cut(at[x]) = Cut(at[m]))
      BY <2>2 DEF Covers
    <3>2. CASE m \in Range(p) /\ m # Last(s)
      BY <3>1, <3>2
    <3>3. CASE at[m] <= at[Last(p)]
      <4>1. at[x] \in Nat /\ at[m] \in Nat /\ at[Last(p)] \in Nat
        BY <1>2, <1>8, FeedFacts
      <4> QED
        BY <1>8, <3>1, <3>3, <4>1
    <3> QED
      BY <1>11, <3>2, <3>3
  <2> QED
    BY <2>1, <2>2
<1>13. Len(s) <= Kept => Last(p) = Last(s)
  <2>1. n <= Kept => k = n
    BY <1>5
  <2> QED
    BY <1>8, <1>7, <2>1 DEF n
<1> QED
  BY <1>1, <1>4, <1>9, <1>10, <1>12, <1>13 DEF p

LEMMA FeedInitInv == ASSUME FeedInit PROVE FeedInv
<1>1. \A m, n \in DOMAIN at : m < n => at[m] <= at[n]
  <2>1. DOMAIN at = 1..Stored
    BY DEF FeedInit
  <2> QED
    BY <2>1 DEF FeedInit
<1>2. emitting = {} /\ feed = <<>> /\ page = [NoPage EXCEPT !.pc = "asked"]
  BY DEF FeedInit
<1>3. page.pc = "asked" /\ page.cursor = NoCursor
  BY <1>2 DEF NoPage
<1>4. Sorted(feed)
  BY <1>2 DEF Sorted
<1> QED
  BY <1>1, <1>2, <1>3, <1>4 DEF FeedInv

LEMMA SameFeedInv == ASSUME FeedInv, UNCHANGED feeds PROVE FeedInv'
  BY DEF FeedInv, feeds, Covers, Heads, Sorted, Older

\* A new activity is the newest: it is not yet announced, and no cursor is beyond it.
LEMMA PostInv ==
    ASSUME FeedTyped, FeedInv, NEW t \in Instants, PostActivity(t) \/ PostServiceMessage(t)
    PROVE  FeedInv'
<1> SUFFICES ASSUME ~slipped' PROVE FeedInv'
  BY DEF FeedInv
<1>1. /\ at' = Append(at, t) /\ UNCHANGED <<feed, page>> /\ ~slipped
      /\ emitting = {} /\ emitting' = {Len(at')} /\ ~Overtaken(t)
  BY DEF PostActivity, PostServiceMessage, StoreActivity, StoreSilently
<1> DEFINE N == Len(at)
           D == 1..N
<1>2. /\ N \in Nat /\ DOMAIN at = D /\ \A n \in D : at[n] \in Nat /\ at'[n] = at[n]
      /\ DOMAIN at' = D \cup {N + 1} /\ Len(at') = N + 1 /\ at'[N + 1] = t /\ t \in Nat
      /\ N + 1 \notin D /\ \A n \in D : n < N + 1
  <2>1. /\ at' \in Seq(Instants) /\ Len(at') = Len(at) + 1 /\ at'[Len(at')] = t
        /\ \A n \in 1..Len(at) : at'[n] = at[n]
    BY <1>1, Stores
  <2>2. DOMAIN at' = 1..(N + 1) /\ N \in Nat
    BY <2>1, FeedFacts
  <2>3. 1..(N + 1) = D \cup {N + 1} /\ N + 1 \notin D /\ \A n \in D : n < N + 1
    BY <2>2
  <2> QED
    BY <2>1, <2>2, <2>3, FeedFacts, FeedAssumption
<1>3. feed \in Seq(D) /\ page.rows \in Seq(D)
  BY <1>2, FeedFacts
<1>4. /\ \A m, n \in D : m < n => at[m] <= at[n]
      /\ Sorted(feed) /\ (feed # <<>> => Covers(feed, D))
      /\ (page.pc # "idle" /\ page.cursor # NoCursor => feed # <<>> /\ page.cursor = Cut(at[Last(feed)]))
      /\ (page.pc = "read" => Sorted(page.rows) /\ Heads(page.rows, Older(page.cursor)))
  BY <1>1, <1>2 DEF FeedInv
<1>5. \A n \in D : at[n] <= t
  BY <1>1, <1>2 DEF Overtaken
<1>6. /\ Range(feed) \subseteq D /\ Range(page.rows) \subseteq D
      /\ \A i \in DOMAIN feed : feed[i] \in D
      /\ \A i \in DOMAIN page.rows : page.rows[i] \in D
      /\ feed # <<>> => Last(feed) \in D
  <2> HIDE DEF D
  <2>1. \A i \in DOMAIN feed : feed[i] \in D
    BY <1>3, ElementOfSeq, LenProperties
  <2>2. \A i \in DOMAIN page.rows : page.rows[i] \in D
    BY <1>3, ElementOfSeq, LenProperties
  <2>3. feed # <<>> => Last(feed) \in D
    BY <1>3, LastOf
  <2> QED
    BY <2>1, <2>2, <2>3 DEF Range
<1> HIDE DEF D, N
<1>7. \A m, n \in DOMAIN at' : m < n => at'[m] <= at'[n]
  <2> SUFFICES ASSUME NEW m \in DOMAIN at', NEW n \in DOMAIN at', m < n
               PROVE  at'[m] <= at'[n]
    OBVIOUS
  <2>1. m \in D
    BY <1>2 DEF D
  <2>2. CASE n \in D
    BY <1>2, <1>4, <2>1, <2>2
  <2>3. CASE n = N + 1
    BY <1>2, <1>5, <2>1, <2>3
  <2> QED
    BY <1>2, <2>2, <2>3
<1>8. Sorted(feed)' /\ (page.pc = "read" => Sorted(page.rows)')
  BY <1>1, <1>2, <1>4, <1>6 DEF Sorted
<1>9. (DOMAIN at \ emitting)' = D /\ Range(feed') \cap emitting' = {} /\ emitting' \subseteq {Len(at')}
  BY <1>1, <1>2, <1>6
<1>10. feed' # <<>> => Covers(feed, DOMAIN at \ emitting)'
  <2> SUFFICES ASSUME feed # <<>>, NEW n \in D, n \notin Range(feed)
               PROVE  \E m \in Range(feed) :
                         at'[n] <= at'[m] /\ (m = Last(feed) \/ Cut(at'[n]) = Cut(at'[m]))
    BY <1>1, <1>9 DEF Covers
  <2>1. PICK m \in Range(feed) : at[n] <= at[m] /\ (m = Last(feed) \/ Cut(at[n]) = Cut(at[m]))
    BY <1>4 DEF Covers
  <2> QED
    BY <1>2, <1>6, <2>1
<1>11. page'.pc # "idle" /\ page'.cursor # NoCursor =>
          feed' # <<>> /\ page'.cursor = Cut(at'[Last(feed')])
  BY <1>1, <1>2, <1>4, <1>6
<1>12. page.pc = "read" => Heads(page.rows, Older(page.cursor) \ emitting)'
  <2> SUFFICES ASSUME page.pc = "read" PROVE Heads(page.rows, Older(page.cursor) \ emitting)'
    OBVIOUS
  <2>1. (Older(page.cursor) \ emitting)' = Older(page.cursor)
    BY <1>1, <1>2 DEF Older
  <2>2. Older(page.cursor) \subseteq D
    BY <1>2 DEF Older
  <2> QED
    BY <1>1, <1>2, <1>4, <1>6, <2>1, <2>2 DEF Heads
<1> QED
  BY <1>1, <1>7, <1>8, <1>9, <1>10, <1>11, <1>12 DEF FeedInv

\* The activity announced goes on top of the feed, and belongs to no page on its way.
LEMMA EmitInv ==
    ASSUME FeedTyped, FeedInv, NEW n \in emitting, EmitActivity(n)
    PROVE  FeedInv'
<1> SUFFICES ASSUME ~slipped' PROVE FeedInv'
  BY DEF FeedInv
<1>1. /\ emitting' = emitting \ {n} /\ UNCHANGED <<at, page>>
      /\ ~slipped /\ ~FirstPage /\ ~(page.pc # "idle" /\ Len(feed) >= Kept)
      /\ feed' = Latest(<<n>> \o feed)
  BY DEF EmitActivity
<1>2. /\ \A m, k \in DOMAIN at : m < k => at[m] <= at[k]
      /\ Sorted(feed) /\ n \notin Range(feed)
      /\ (feed # <<>> => Covers(feed, DOMAIN at \ {n}))
      /\ (page.pc # "idle" /\ page.cursor # NoCursor => feed # <<>> /\ page.cursor = Cut(at[Last(feed)]))
      /\ (page.pc = "read" => Sorted(page.rows) /\ Heads(page.rows, Older(page.cursor) \ {n}))
      /\ emitting = {n} /\ emitting' = {} /\ n = Len(at) /\ n \in DOMAIN at
  <2>1. n = Len(at) /\ emitting = {n}
    BY <1>1 DEF FeedInv
  <2>2. n \in DOMAIN at
    BY FeedFacts DEF FeedTyped
  <2> QED
    BY <1>1, <2>1, <2>2 DEF FeedInv
<1>3. \A m \in DOMAIN at : at[m] <= at[n]
  <2> TAKE m \in DOMAIN at
  <2>1. m \in 1..n /\ n \in Nat /\ at[m] \in Nat
    BY <1>2, FeedFacts
  <2> QED
    BY <1>2, <2>1
<1> DEFINE t == <<n>> \o feed
           p == Latest(t)
<1>4. /\ t \in Seq(DOMAIN at) /\ t # <<>> /\ Sorted(t) /\ Covers(t, DOMAIN at)
      /\ (feed # <<>> => Last(t) = Last(feed))
  <2>1. feed \in Seq(DOMAIN at)
    BY FeedFacts
  <2> HIDE DEF t
  <2> QED
    BY <1>2, <1>3, <2>1, NewestOnTop DEF t
<1> HIDE DEF t
<1>5. /\ p # <<>> /\ Sorted(p) /\ Covers(p, DOMAIN at) /\ (Len(t) <= Kept => Last(p) = Last(t))
  BY <1>4, CutFeed
<1>6. feed' = p
  BY <1>1 DEF t
<1> HIDE DEF p
<1>7. Sorted(feed)' /\ Covers(feed, DOMAIN at \ emitting)' /\ feed' # <<>>
  <2>1. Sorted(feed)'
    BY <1>1, <1>5, <1>6 DEF Sorted
  <2>2. (DOMAIN at \ emitting)' = DOMAIN at
    BY <1>1, <1>2
  <2>3. Covers(feed, DOMAIN at \ emitting)'
    BY <1>1, <1>5, <1>6, <2>2 DEF Covers
  <2> QED
    BY <1>5, <1>6, <2>1, <2>3
<1>8. page.pc # "idle" => page.cursor = Cut(at[Last(feed')]) /\ page.cursor # NoCursor /\ feed # <<>>
  <2> SUFFICES ASSUME page.pc # "idle"
               PROVE  page.cursor = Cut(at[Last(feed')]) /\ page.cursor # NoCursor /\ feed # <<>>
    OBVIOUS
  <2>1. page.cursor # NoCursor /\ ~(Len(feed) >= Kept)
    BY <1>1 DEF FirstPage
  <2>2. feed # <<>> /\ page.cursor = Cut(at[Last(feed)])
    BY <1>2, <2>1
  <2>3. Len(t) = Len(feed) + 1 /\ Len(feed) \in Nat
    <3>1. <<n>> \in Seq(DOMAIN at) /\ Len(<<n>>) = 1
      BY <1>2
    <3>2. Len(t) = Len(<<n>>) + Len(feed)
      BY <3>1, FeedFacts, ConcatProperties DEF t
    <3> QED
      BY <3>1, <3>2, FeedFacts
  <2>4. Len(t) <= Kept
    BY <2>1, <2>3, FeedAssumption
  <2> QED
    BY <1>4, <1>5, <1>6, <2>1, <2>2, <2>4
<1>9. page.pc = "read" => Sorted(page.rows)' /\ Heads(page.rows, Older(page.cursor) \ emitting)'
  <2> SUFFICES ASSUME page.pc = "read"
               PROVE  Sorted(page.rows)' /\ Heads(page.rows, Older(page.cursor) \ emitting)'
    OBVIOUS
  <2>1. n \notin Older(page.cursor)
    <3>1. page.cursor # NoCursor /\ page.cursor = Cut(at[Last(feed)]) /\ feed # <<>>
      BY <1>2, <1>8
    <3>2. Last(feed) \in DOMAIN at
      BY <3>1, FeedFacts, LastOf
    <3>3. at[Last(feed)] \in Nat /\ at[n] \in Nat
      BY <1>2, <3>2, FeedFacts
    <3>4. page.cursor <= at[n] /\ page.cursor \in Nat
      BY <1>3, <3>1, <3>2, <3>3, CutIs
    <3> QED
      BY <3>1, <3>3, <3>4 DEF Older
  <2>2. (Older(page.cursor) \ emitting)' = Older(page.cursor) \ {n}
    BY <1>1, <1>2, <2>1 DEF Older
  <2> QED
    BY <1>1, <1>2, <2>2 DEF Heads, Sorted
<1>10. \A m, k \in DOMAIN at' : m < k => at'[m] <= at'[k]
  BY <1>1, <1>2
<1>11. emitting' \subseteq {Len(at')} /\ Range(feed') \cap emitting' = {}
  BY <1>2
<1> QED
  BY <1>1, <1>7, <1>8, <1>9, <1>10, <1>11 DEF FeedInv

\* A page that follows the feed is older than all of it, and what the page does not have is
\* older than the page, or was missing from the feed, or is of the millisecond it was cut to.
LEMMA TakeInv ==
    ASSUME FeedTyped, FeedInv, TakePage
    PROVE  FeedInv'
<1> SUFFICES ASSUME ~slipped' PROVE FeedInv'
  BY DEF FeedInv
<1> DEFINE r == page.rows
           S == DOMAIN at \ emitting
           c == page.cursor
<1>1. /\ UNCHANGED <<at, emitting>> /\ ~slipped /\ page.pc = "read" /\ page'.pc = "idle"
      /\ feed' = IF c = NoCursor THEN r ELSE feed \o r
  BY DEF TakePage, NoPage
<1>2. /\ \A m, n \in DOMAIN at : m < n => at[m] <= at[n]
      /\ emitting \subseteq {Len(at)} /\ Sorted(feed) /\ Range(feed) \cap emitting = {}
      /\ (feed # <<>> => Covers(feed, S)) /\ (c # NoCursor => feed # <<>> /\ c = Cut(at[Last(feed)]))
      /\ Sorted(r) /\ Heads(r, Older(c) \ emitting)
  BY <1>1 DEF FeedInv
<1>3. feed \in Seq(DOMAIN at) /\ r \in Seq(DOMAIN at)
  BY FeedFacts
<1> HIDE DEF r, S
<1>4. Sorted(feed') /\ Range(feed') \cap emitting = {} /\ (feed' # <<>> => Covers(feed', S))
  <2>1. CASE c = NoCursor
    <3>1. feed' = r /\ Range(r) \cap emitting = {}
      BY <1>1, <1>2, <2>1 DEF Heads
    <3>2. Older(c) \ emitting = S
      BY <2>1 DEF Older, S
    <3>3. ASSUME r # <<>>, NEW n \in S \ Range(r)
          PROVE  at[n] <= at[Last(r)] /\ Last(r) \in Range(r)
      <4>1. Last(r) \in Range(r) /\ Len(r) \in DOMAIN r /\ Last(r) = r[Len(r)] /\ Last(r) \in DOMAIN at
        BY <1>3, <3>3, LastOf
      <4>2. at[r[Len(r)]] >= at[n]
        BY <1>2, <3>2, <3>3, <4>1 DEF Heads
      <4>3. at[n] \in Nat /\ at[Last(r)] \in Nat
        BY <3>3, <4>1, FeedFacts DEF S
      <4> QED
        BY <4>1, <4>2, <4>3
    <3> QED
      BY <1>2, <3>1, <3>3 DEF Covers
  <2>2. CASE c # NoCursor
    <3> DEFINE z == Last(feed)
               t == feed \o r
    <3>1. feed' = t /\ feed # <<>> /\ c = Cut(at[z]) /\ Covers(feed, S)
      BY <1>1, <1>2, <2>2
    <3>2. z \in Range(feed) /\ z \in DOMAIN at /\ Range(feed) \subseteq DOMAIN at
      BY <1>3, <3>1, LastOf
    <3> HIDE DEF z
    <3>3. \A n \in DOMAIN at : at[n] \in Nat
      BY FeedFacts
    <3>4. c \in Nat /\ c <= at[z]
      BY <3>1, <3>2, <3>3, CutIs
    <3>5. \A m \in Range(feed) : at[z] <= at[m] /\ c <= at[m]
      <4>1. \A m \in Range(feed) : at[z] <= at[m]
        BY <1>2, <1>3, <3>1, LastIsOldest DEF z
      <4> QED
        BY <3>2, <3>3, <3>4, <4>1
    <3>6. \A n \in Older(c) : n \in DOMAIN at /\ at[n] < c
      BY <2>2 DEF Older
    <3>7. Range(r) \subseteq Older(c) \ emitting
      BY <1>2 DEF Heads
    <3>8. /\ t \in Seq(DOMAIN at) /\ Len(feed) \in Nat /\ Len(r) \in Nat
          /\ Len(t) = Len(feed) + Len(r) /\ DOMAIN t = 1..Len(t)
          /\ DOMAIN feed = 1..Len(feed) /\ DOMAIN r = 1..Len(r)
          /\ \A i \in 1..(Len(feed) + Len(r)) : t[i] = IF i <= Len(feed) THEN feed[i] ELSE r[i - Len(feed)]
      BY <1>3, ConcatProperties
    <3> HIDE DEF t
    <3>9. \A i \in DOMAIN t : \/ i \in DOMAIN feed /\ t[i] = feed[i]
                              \/ i - Len(feed) \in DOMAIN r /\ t[i] = r[i - Len(feed)] /\ i > Len(feed)
      BY <3>8
    <3>10. Range(t) = Range(feed) \cup Range(r)
      <4>1. \A i \in DOMAIN feed : i \in DOMAIN t /\ t[i] = feed[i]
        BY <3>8
      <4>2. \A i \in DOMAIN r : i + Len(feed) \in DOMAIN t /\ t[i + Len(feed)] = r[i]
        <5> TAKE i \in DOMAIN r
        <5>1. i + Len(feed) \in 1..(Len(feed) + Len(r)) /\ ~(i + Len(feed) <= Len(feed))
              /\ i + Len(feed) - Len(feed) = i
          BY <3>8
        <5> QED
          BY <3>8, <5>1
      <4> QED
        BY <3>9, <4>1, <4>2 DEF Range
    <3>11. Sorted(t)
      <4> SUFFICES ASSUME NEW i \in DOMAIN t, NEW j \in DOMAIN t, i < j
                   PROVE  t[i] # t[j] /\ at[t[i]] >= at[t[j]]
        BY DEF Sorted
      <4>1. CASE i \in DOMAIN feed /\ j \in DOMAIN feed /\ t[i] = feed[i] /\ t[j] = feed[j]
        BY <1>2, <4>1 DEF Sorted
      <4>2. CASE i \in DOMAIN feed /\ t[i] = feed[i] /\ j - Len(feed) \in DOMAIN r /\ t[j] = r[j - Len(feed)]
        <5>1. t[i] \in Range(feed) /\ t[j] \in Range(r)
          BY <4>2 DEF Range
        <5>2. c <= at[t[i]] /\ at[t[j]] < c /\ at[t[i]] \in Nat /\ at[t[j]] \in Nat
          BY <3>2, <3>3, <3>5, <3>6, <3>7, <5>1
        <5> QED
          BY <3>4, <5>2
      <4>3. CASE i - Len(feed) \in DOMAIN r /\ j - Len(feed) \in DOMAIN r
                 /\ t[i] = r[i - Len(feed)] /\ t[j] = r[j - Len(feed)]
        <5>1. i - Len(feed) < j - Len(feed)
          BY <3>8
        <5> QED
          BY <1>2, <4>3, <5>1 DEF Sorted
      <4>4. ~(i > Len(feed) /\ j \in DOMAIN feed)
        BY <3>8
      <4> QED
        BY <3>9, <4>1, <4>2, <4>3, <4>4
    <3>12. Range(t) \cap emitting = {}
      BY <1>2, <3>7, <3>10
    <3>13. ASSUME NEW n \in S, n \notin Range(t)
           PROVE  \E m \in Range(t) : at[n] <= at[m] /\ (m = Last(t) \/ Cut(at[n]) = Cut(at[m]))
      <4>1. n \in DOMAIN at /\ n \notin emitting /\ at[n] \in Nat
        BY <3>3 DEF S
      <4>2. CASE n \in Older(c)
        <5>1. r # <<>> /\ \A i \in DOMAIN r : at[r[i]] >= at[n]
          BY <1>2, <3>10, <3>13, <4>1, <4>2 DEF Heads
        <5>2. Len(r) \in Nat \ {0} /\ Last(r) = r[Len(r)] /\ Last(r) \in Range(r) /\ Last(r) \in DOMAIN at
          BY <1>3, <5>1, LastOf
        <5>3. at[n] <= at[Last(r)]
          <6>1. at[r[Len(r)]] >= at[n]
            BY <3>8, <5>1, <5>2
          <6> QED
            BY <3>3, <4>1, <5>2, <6>1
        <5>4. Last(t) = Last(r)
          <6>1. /\ Len(t) \in 1..(Len(feed) + Len(r)) /\ ~(Len(t) <= Len(feed))
                /\ Len(t) - Len(feed) = Len(r)
            BY <3>8, <5>2
          <6> QED
            BY <3>8, <5>2, <6>1 DEF Last
        <5> QED
          BY <3>10, <5>2, <5>3, <5>4
      <4>3. CASE n \notin Older(c)
        <5>1. c <= at[n]
          BY <2>2, <3>4, <4>1, <4>3 DEF Older
        <5>2. PICK m \in Range(feed) : at[n] <= at[m] /\ (m = z \/ Cut(at[n]) = Cut(at[m]))
          BY <3>1, <3>10, <3>13 DEF Covers, z
        <5>3. Cut(at[n]) = Cut(at[m])
          <6>1. CASE m = z
            BY <3>1, <3>2, <3>3, <4>1, <5>1, <5>2, <6>1, CutAgain
          <6> QED
            BY <5>2, <6>1
        <5> QED
          BY <3>10, <5>2, <5>3
      <4> QED
        BY <4>2, <4>3
    <3>14. Covers(t, S)
      BY <3>13 DEF Covers
    <3> QED
      BY <3>1, <3>11, <3>12, <3>14
  <2> QED
    BY <2>1, <2>2
<1>5. Sorted(feed)' /\ (feed' # <<>> => Covers(feed, DOMAIN at \ emitting)')
  <2>1. Sorted(feed)'
    BY <1>1, <1>4 DEF Sorted
  <2>2. (DOMAIN at \ emitting)' = S
    BY <1>1 DEF S
  <2> QED
    BY <1>1, <1>4, <2>1, <2>2 DEF Covers
<1>6. /\ \A m, n \in DOMAIN at' : m < n => at'[m] <= at'[n]
      /\ emitting' \subseteq {Len(at')} /\ Range(feed') \cap emitting' = {}
  BY <1>1, <1>2, <1>4
<1> QED
  BY <1>1, <1>5, <1>6 DEF FeedInv

LEMMA AskInv == ASSUME FeedTyped, FeedInv, AskOlder \/ LosePage PROVE FeedInv'
<1> SUFFICES ASSUME ~slipped' PROVE FeedInv'
  BY DEF FeedInv
<1>1. UNCHANGED <<at, emitting, feed>> /\ ~slipped
  BY DEF AskOlder, LosePage
<1>2. /\ \A m, n \in DOMAIN at' : m < n => at'[m] <= at'[n]
      /\ emitting' \subseteq {Len(at')}
      /\ Sorted(feed)' /\ Range(feed') \cap emitting' = {}
      /\ feed' # <<>> => Covers(feed, DOMAIN at \ emitting)'
  BY <1>1 DEF FeedInv, Covers, Sorted
<1>3. page'.pc # "read" /\ (page'.pc # "idle" => feed # <<>> /\ page'.cursor = Cut(at[Last(feed)]))
  <2>1. CASE AskOlder
    BY <2>1 DEF AskOlder, NoPage
  <2>2. CASE LosePage
    BY <2>2 DEF LosePage, NoPage
  <2> QED
    BY <2>1, <2>2
<1> QED
  BY <1>1, <1>2, <1>3 DEF FeedInv

\* While the page is read nothing it is to have is about to be announced.
LEMMA ReadInv == ASSUME FeedTyped, FeedInv, ReadPage PROVE FeedInv'
<1> SUFFICES ASSUME ~slipped' PROVE FeedInv'
  BY DEF FeedInv
<1> DEFINE c == page.cursor
           S == Older(c)
<1>1. /\ UNCHANGED <<at, emitting, feed>> /\ ~slipped /\ page.pc = "asked"
      /\ (c = NoCursor => emitting = {})
  BY DEF ReadPage, FirstPage
<1>2. PICK rows \in Pages(S) :
         page' = [page EXCEPT !.pc = "read", !.more = Cardinality(S) > PageSize, !.rows = rows]
  BY DEF ReadPage
<1>3. page'.pc = "read" /\ page'.cursor = c /\ page'.rows = rows
  BY <1>2 DEF FeedTyped, PageType
<1>4. /\ rows \in Seq(S) /\ Len(rows) \in Nat /\ (Len(rows) = 0 => S = {}) /\ Sorted(rows)
      /\ \A n \in S \ Range(rows), i \in DOMAIN rows : at[rows[i]] >= at[n]
  <2>1. S \in SUBSET (DOMAIN at)
    BY DEF Older
  <2> HIDE DEF S
  <2> QED
    BY <2>1, RowsAre
<1>5. S \cap emitting = {}
  <2> SUFFICES ASSUME NEW n \in S, n \in emitting PROVE FALSE
    OBVIOUS
  <2>1. c # NoCursor /\ n \in DOMAIN at /\ at[n] < c
    BY <1>1 DEF Older
  <2>2. feed # <<>> /\ c = Cut(at[Last(feed)]) /\ n = Len(at)
    BY <1>1, <2>1 DEF FeedInv
  <2>3. Last(feed) \in DOMAIN at
    BY <2>2, FeedFacts, LastOf
  <2>4. at[Last(feed)] <= at[n]
    <3>1. Last(feed) \in 1..n /\ n \in Nat /\ DOMAIN at = 1..n
      BY <2>2, <2>3, FeedFacts
    <3>2. Last(feed) < n => at[Last(feed)] <= at[n]
      BY <1>1, <2>1, <2>3 DEF FeedInv
    <3> QED
      BY <2>1, <3>1, <3>2, FeedFacts
  <2>5. at[Last(feed)] \in Nat /\ at[n] \in Nat
    BY <2>1, <2>3, FeedFacts
  <2> QED
    BY <2>1, <2>2, <2>4, <2>5, CutIs
<1> HIDE DEF S
<1>6. Heads(rows, S \ emitting)
  <2>1. Range(rows) \subseteq S
    <3>1. \A i \in DOMAIN rows : rows[i] \in S
      BY <1>4, ElementOfSeq, LenProperties
    <3> QED
      BY <3>1 DEF Range
  <2>2. S # {} => rows # <<>>
    BY <1>4, EmptySeq
  <2> QED
    BY <1>4, <1>5, <2>1, <2>2 DEF Heads
<1>7. Sorted(page.rows)' /\ Heads(page.rows, Older(page.cursor) \ emitting)'
  <2>1. (Older(page.cursor) \ emitting)' = S \ emitting
    BY <1>1, <1>3 DEF Older, S
  <2>2. Sorted(page.rows)'
    BY <1>1, <1>3, <1>4 DEF Sorted
  <2> QED
    BY <1>1, <1>3, <1>6, <2>1, <2>2 DEF Heads
<1>8. /\ \A m, n \in DOMAIN at' : m < n => at'[m] <= at'[n]
      /\ emitting' \subseteq {Len(at')}
      /\ Sorted(feed)' /\ Range(feed') \cap emitting' = {}
      /\ feed' # <<>> => Covers(feed, DOMAIN at \ emitting)'
      /\ page'.cursor # NoCursor => feed' # <<>> /\ page'.cursor = Cut(at'[Last(feed')])
  BY <1>1, <1>3 DEF FeedInv, Covers, Sorted
<1> QED
  BY <1>3, <1>7, <1>8 DEF FeedInv

LEMMA FeedStepInv == ASSUME FeedTyped, FeedInv, [FeedNext]_feedVars PROVE FeedInv'
<1>1. ASSUME NEW t \in Instants, PostActivity(t) \/ PostServiceMessage(t) PROVE FeedInv'
  BY <1>1, PostInv
<1>2. ASSUME NEW n \in emitting, EmitActivity(n) PROVE FeedInv'
  BY <1>2, EmitInv
<1>3. CASE AskOlder \/ ReadPage \/ TakePage \/ LosePage
  BY <1>3, AskInv, ReadInv, TakeInv
<1>4. CASE Link \/ Unlink \/ UNCHANGED feedVars
  BY <1>4, SameFeedInv DEF Link, Unlink, feedVars
<1> QED
  BY <1>1, <1>2, <1>3, <1>4 DEF FeedNext

(***************************************************************************)
(* Older pages and new activities meet in the feed sorted and without one  *)
(* repeated, and of those down to the last one shown only such are missing *)
(* as a page ended before in the middle of a millisecond (fetchActivities  *)
(* and the activity event of App.tsx): FeedWhole, for every size of pages, *)
(* feed and millisecond.                                                   *)
(***************************************************************************)
THEOREM FeedWholeHolds == FeedSpec => []FeedWhole
<1> DEFINE I == FeedTyped /\ FeedInv
<1>1. FeedInit => I
  BY FeedInitTyped, FeedInitInv
<1>2. I /\ [FeedNext]_feedVars => I'
  BY FeedStepTyped, FeedStepInv
<1>3. I => FeedWhole
  BY DEF FeedInv, FeedWhole, Settled, Missing, Covers
<1> QED
  BY <1>1, <1>2, <1>3, PTL DEF FeedSpec

-----------------------------------------------------------------------------
(***************************************************************************)
(* The panel.  A day or a stamp has been reported only if a request did    *)
(* so, so that there always is a latest day.                               *)
(***************************************************************************)
LoadType == [pc : {"idle", "usage", "answer"}, got : Snapshot]

PanelTyped ==
    /\ status \in Nat /\ telling \subseteq 1..status
    /\ usage \in [Days -> Stamps \cup {0}] /\ IsFiniteSet({d \in Days : usage[d] > 0})
    /\ reported \in [Days -> Stamps \cup {0}]
    /\ panel \in Snapshot /\ Paired(panel)
    /\ load \in [Loads -> LoadType] /\ \A l \in Loads : Paired(load[l].got)
    /\ joined \in BOOLEAN
    /\ updates \in 0..MaxUpdates /\ breaks \in 0..MaxBreaks

LEMMA PanelTypedIs == ASSUME PanelTyped PROVE PanelTypeOK
  BY DEF PanelTyped, LoadType, PanelTypeOK

LEMMA NothingTyped ==
    ASSUME status \in Nat
    PROVE  /\ Nothing \in Snapshot /\ Refused \in Snapshot /\ NoLoad \in LoadType
           /\ Paired(Nothing) /\ Paired(Refused) /\ NoLoad.got = Refused
<1>1. Nothing \in Snapshot
  BY DEF Nothing, Snapshot
<1>2. Refused \in Snapshot
  BY <1>1 DEF Refused, Snapshot
<1>3. Paired(Nothing) /\ Paired(Refused)
  BY DEF Refused, Nothing, Paired
<1> QED
  BY <1>1, <1>2, <1>3 DEF NoLoad, LoadType

LEMMA PanelInitTyped == ASSUME PanelInit PROVE PanelTyped
<1>1. status \in Nat /\ telling = {} /\ {d \in Days : usage[d] > 0} = {}
  BY DEF PanelInit
<1>2. IsFiniteSet({d \in Days : usage[d] > 0})
  BY <1>1, FS_EmptySet
<1>3. updates \in 0..MaxUpdates /\ breaks \in 0..MaxBreaks
  BY PanelAssumption DEF PanelInit
<1>4. load \in [Loads -> LoadType] /\ \A l \in Loads : load[l].got = Refused
  BY <1>1, NothingTyped DEF PanelInit
<1> QED
  BY <1>1, <1>2, <1>3, <1>4, NothingTyped DEF PanelInit, PanelTyped

LEMMA BudgetTyped ==
    ASSUME PanelTyped, Change \/ Break PROVE updates' \in 0..MaxUpdates /\ breaks' \in 0..MaxBreaks
  BY PanelAssumption DEF PanelTyped, Change, Break

LEMMA SamePanel == ASSUME PanelTyped, UNCHANGED <<reports, panel, load>>, joined' \in BOOLEAN,
                          updates' \in 0..MaxUpdates, breaks' \in 0..MaxBreaks
                   PROVE  PanelTyped'
  BY DEF PanelTyped, reports, LoadType, Snapshot, Paired

LEMMA StatusTyped ==
    ASSUME PanelTyped, PutStatus \/ EmitsStatus
    PROVE  PanelTyped'
<1>1. /\ status \in Nat /\ telling \subseteq 1..status /\ panel \in Snapshot /\ Paired(panel)
      /\ load \in [Loads -> LoadType]
  BY DEF PanelTyped
<1>2. CASE PutStatus
  <2>1. /\ status' = status + 1 /\ telling' = telling \cup {status'} /\ Change
        /\ UNCHANGED <<usage, reported, panel, load, joined>>
    BY <1>2 DEF PutStatus
  <2>2. status' \in Nat /\ telling' \subseteq 1..status'
    BY <1>1, <2>1
  <2>3. Snapshot \subseteq Snapshot'
    <3>1. 0..status \subseteq 0..status'
      BY <1>1, <2>1
    <3> QED
      BY <3>1 DEF Snapshot
  <2>4. LoadType \subseteq LoadType'
    BY <2>3 DEF LoadType
  <2>5. panel' \in Snapshot' /\ load' \in [Loads -> LoadType']
    BY <1>1, <2>1, <2>3, <2>4
  <2> QED
    BY <2>1, <2>2, <2>5, BudgetTyped DEF PanelTyped, Paired
<1>3. CASE EmitsStatus
  <2>1. PICK v \in telling : EmitStatus(v)
    BY <1>3 DEF EmitsStatus
  <2>2. telling' = telling \ {v} /\ UNCHANGED <<status, usage, reported, load, joined, updates, breaks>>
    BY <2>1 DEF EmitStatus, panelBudget
  <2>3. v \in 0..status
    BY <1>1
  <2>4. [panel EXCEPT !.status = v] \in Snapshot /\ Paired([panel EXCEPT !.status = v])
    BY <1>1, <2>3 DEF Snapshot, Paired
  <2>5. panel' \in Snapshot /\ Paired(panel')
    BY <1>1, <2>1, <2>4 DEF EmitStatus
  <2> QED
    BY <2>2, <2>5 DEF PanelTyped, LoadType, Snapshot, Paired
<1> QED
  BY <1>2, <1>3

LEMMA PutUsageTyped ==
    ASSUME PanelTyped, NEW d \in Days, NEW s \in Stamps, PutUsage(d, s)
    PROVE  PanelTyped'
<1>1. /\ usage \in [Days -> Stamps \cup {0}] /\ IsFiniteSet({e \in Days : usage[e] > 0})
      /\ reported \in [Days -> Stamps \cup {0}]
  BY DEF PanelTyped
<1>2. /\ usage' = (IF s >= usage[d] THEN [usage EXCEPT ![d] = s] ELSE usage)
      /\ reported' = [reported EXCEPT ![d] = Max({reported[d], s})]
      /\ UNCHANGED <<status, telling, panel, load, joined>> /\ Change
  BY DEF PutUsage, Upsert
<1>3. reported[d] \in Stamps \cup {0} /\ reported[d] \in Int /\ s \in Int
  <2>1. reported[d] \in Stamps \cup {0}
    BY <1>1
  <2>2. \A t \in Stamps \cup {0} : t \in Int
    BY PanelAssumption
  <2> QED
    BY <2>1, <2>2
<1>4. Max({reported[d], s}) \in Stamps \cup {0}
  BY <1>3, MaxOfTwo
<1>5. usage' \in [Days -> Stamps \cup {0}] /\ reported' \in [Days -> Stamps \cup {0}]
  BY <1>1, <1>2, <1>4
<1>6. IsFiniteSet({e \in Days : usage'[e] > 0})
  <2> DEFINE A == {e \in Days : usage[e] > 0}
             B == {e \in Days : usage'[e] > 0}
  <2>1. B \subseteq A \cup {d}
    BY <1>1, <1>2
  <2>2. IsFiniteSet(A)
    BY <1>1
  <2> HIDE DEF A, B
  <2>3. IsFiniteSet(A \cup {d})
    BY <2>2, FS_AddElement
  <2>4. IsFiniteSet(B)
    BY <2>1, <2>3, FS_Subset
  <2> QED
    BY <2>4 DEF B
<1>7. Snapshot' = Snapshot /\ LoadType' = LoadType
  BY <1>2 DEF Snapshot, LoadType
<1> QED
  BY <1>2, <1>5, <1>6, <1>7, BudgetTyped DEF PanelTyped, Paired

\* The latest day there is a snapshot for, if there is one.
LEMMA LatestDayIs ==
    ASSUME NEW u \in [Days -> Stamps \cup {0}], IsFiniteSet({d \in Days : u[d] > 0})
    PROVE  LatestDay(u) = 0 \/ (LatestDay(u) \in Days /\ u[LatestDay(u)] > 0)
<1> DEFINE A == {d \in Days : u[d] > 0}
<1>1. IsFiniteSet(A \cup {0})
  BY FS_AddElement
<1>2. A \cup {0} \in SUBSET Nat /\ A \cup {0} # {}
  <2>1. A \subseteq Days
    OBVIOUS
  <2>2. \A d \in Days : d \in Nat
    BY PanelAssumption
  <2> HIDE DEF A
  <2> QED
    BY <2>1, <2>2
<1>3. LatestDay(u) = Max(A \cup {0})
  BY DEF LatestDay
<1> HIDE DEF A
<1>4. Max(A \cup {0}) \in A \cup {0}
  BY <1>1, <1>2, MaxOfFinite
<1> QED
  BY <1>3, <1>4 DEF A

LEMMA LoadTyped ==
    ASSUME PanelTyped, NEW l \in Loads, LoadStep(l) \/ LoseLoad(l)
    PROVE  PanelTyped'
<1>1. /\ status \in Nat /\ panel \in Snapshot /\ Paired(panel)
      /\ load \in [Loads -> LoadType] /\ load[l] \in LoadType /\ Paired(load[l].got)
      /\ usage \in [Days -> Stamps \cup {0}] /\ IsFiniteSet({d \in Days : usage[d] > 0})
  BY DEF PanelTyped
<1>2. load[l].got \in Snapshot
  BY <1>1 DEF LoadType
<1>3. UNCHANGED <<reports, joined>> /\ Snapshot' = Snapshot /\ LoadType' = LoadType
  BY DEF LoadStep, ReadStatus, ReadUsage, TakeStatus, LoseLoad, reports, LoadType, Snapshot
<1>4. updates' \in 0..MaxUpdates /\ breaks' \in 0..MaxBreaks
  BY BudgetTyped DEF LoadStep, ReadStatus, ReadUsage, TakeStatus, LoseLoad, panelBudget, PanelTyped
<1>5. ASSUME NEW x \in LoadType, Paired(x.got), load' = [load EXCEPT ![l] = x],
             panel' \in Snapshot, Paired(panel')
      PROVE  PanelTyped'
  <2>1. load' \in [Loads -> LoadType] /\ \A k \in Loads : Paired(load'[k].got)
    BY <1>1, <1>5 DEF PanelTyped
  <2> QED
    BY <1>3, <1>4, <1>5, <2>1 DEF PanelTyped, reports, Paired
<1>6. CASE ReadStatus(l)
  <2> DEFINE g == [load[l].got EXCEPT !.status = status]
             x == [load[l] EXCEPT !.pc = "usage", !.got = g]
  <2>1. g \in Snapshot /\ Paired(g)
    BY <1>1, <1>2 DEF Snapshot, Paired
  <2>2. load' = [load EXCEPT ![l] = x] /\ panel' = panel
    BY <1>1, <1>2, <1>6 DEF ReadStatus
  <2> HIDE DEF g
  <2>3. x \in LoadType /\ x.got = g
    BY <1>1, <2>1 DEF LoadType
  <2> HIDE DEF x
  <2> QED
    BY <1>1, <1>5, <2>1, <2>2, <2>3
<1>7. CASE ReadUsage(l)
  <2> DEFINE d == LatestDay(usage)
             s == IF d = 0 THEN 0 ELSE usage[d]
             g == [load[l].got EXCEPT !.day = d, !.stamp = s]
             x == [load[l] EXCEPT !.pc = "answer", !.got = g]
  <2>1. d = 0 \/ (d \in Days /\ usage[d] > 0)
    BY <1>1, LatestDayIs
  <2>2. load' = [load EXCEPT ![l] = x] /\ panel' = panel
    BY <1>1, <1>2, <1>7 DEF ReadUsage
  <2> HIDE DEF d
  <2>3. s \in Stamps \cup {0} /\ (d = 0 <=> s = 0)
    <3>1. 0 \notin Days
      BY PanelAssumption
    <3> QED
      BY <1>1, <2>1, <3>1
  <2> HIDE DEF s
  <2>4. g \in Snapshot /\ Paired(g)
    BY <1>2, <2>1, <2>3 DEF Snapshot, Paired
  <2> HIDE DEF g
  <2>5. x \in LoadType /\ x.got = g
    BY <1>1, <2>4 DEF LoadType
  <2> HIDE DEF x
  <2> QED
    BY <1>1, <1>5, <2>2, <2>4, <2>5
<1>8. CASE TakeStatus(l)
  <2>1. load' = [load EXCEPT ![l] = NoLoad] /\ panel' = load[l].got
    BY <1>8 DEF TakeStatus
  <2> QED
    BY <1>1, <1>2, <1>5, <2>1, NothingTyped
<1>9. CASE LoseLoad(l)
  <2>1. load' = [load EXCEPT ![l] = NoLoad] /\ panel' \in {panel, Refused}
    BY <1>9 DEF LoseLoad
  <2>2. panel' \in Snapshot /\ Paired(panel')
    BY <1>1, <2>1, NothingTyped
  <2> QED
    BY <1>1, <1>5, <2>1, <2>2, NothingTyped
<1> QED
  BY <1>6, <1>7, <1>8, <1>9 DEF LoadStep

LEMMA PanelStepTyped == ASSUME PanelTyped, [PanelNext]_panelVars PROVE PanelTyped'
<1>1. ASSUME NEW d \in Days, NEW s \in Stamps, PutUsage(d, s) PROVE PanelTyped'
  BY <1>1, PutUsageTyped
<1>2. ASSUME NEW l \in Loads, LoadStep(l) \/ LoseLoad(l) PROVE PanelTyped'
  BY <1>2, LoadTyped
<1>3. CASE PutStatus \/ EmitsStatus
  BY <1>3, StatusTyped
<1>4. CASE Join \/ Part \/ UNCHANGED panelVars
  <2>1. UNCHANGED <<reports, panel, load>> /\ joined' \in BOOLEAN
    BY <1>4 DEF Join, Part, panelVars, PanelTyped
  <2>2. updates' \in 0..MaxUpdates /\ breaks' \in 0..MaxBreaks
    BY <1>4, BudgetTyped DEF Join, Part, panelVars, panelBudget, PanelTyped
  <2> QED
    BY <2>1, <2>2, SamePanel
<1> QED
  BY <1>1, <1>2, <1>3, <1>4 DEF PanelNext

(***************************************************************************)
(* Type correctness: the panel shows a status that was set, and a day      *)
(* exactly if it shows the stamp of a report on it, for any number of      *)
(* loads in flight (GET /api/status of index.ts, fetchData of App.tsx).    *)
(***************************************************************************)
THEOREM PanelTypeCorrect == PanelSpec => []PanelTypeOK
<1>1. PanelInit => PanelTyped
  BY PanelInitTyped
<1>2. PanelTyped /\ [PanelNext]_panelVars => PanelTyped'
  BY PanelStepTyped
<1>3. PanelTyped => PanelTypeOK
  BY PanelTypedIs
<1> QED
  BY <1>1, <1>2, <1>3, PTL DEF PanelSpec

-----------------------------------------------------------------------------
(***************************************************************************)
(* The buffer of the MCP server: what the socket has received is returned  *)
(* once and in order, or dropped, or is still in the buffer.               *)
(***************************************************************************)
\* The buffer holds the last messages received; all before them were returned or dropped.
HeardBefore == received - Len(buffer)

Heard ==
    /\ received \in Nat /\ buffer \in Seq(Nat) /\ returned \in Seq(Nat)
    /\ Len(buffer) <= received
    /\ \A i \in 1..Len(buffer) : buffer[i] = HeardBefore + i
    /\ \A i, j \in 1..Len(returned) : i < j => returned[i] < returned[j]
    /\ \A i \in 1..Len(returned) : returned[i] \in 1..HeardBefore /\ returned[i] \notin dropped
    /\ dropped \subseteq 1..HeardBefore
    /\ \A n \in 1..HeardBefore : n \in dropped \/ \E i \in 1..Len(returned) : returned[i] = n

LEMMA BufferedIs == ASSUME Heard PROVE ToSet(buffer) = (HeardBefore + 1)..received
<1>1. ToSet(buffer) = {buffer[i] : i \in 1..Len(buffer)}
  BY DEF ToSet, Heard
<1>2. ASSUME NEW n \in (HeardBefore + 1)..received PROVE n \in ToSet(buffer)
  <2>1. n - HeardBefore \in 1..Len(buffer)
    BY DEF Heard, HeardBefore
  <2>2. buffer[n - HeardBefore] = n
    <3>1. buffer[n - HeardBefore] = HeardBefore + (n - HeardBefore)
      BY <2>1 DEF Heard
    <3> QED
      BY <3>1 DEF Heard, HeardBefore
  <2> QED
    BY <1>1, <2>1, <2>2
<1>3. \A i \in 1..Len(buffer) : buffer[i] \in (HeardBefore + 1)..received
  BY DEF Heard, HeardBefore
<1> QED
  BY <1>1, <1>2, <1>3

LEMMA HeardIsOnce == ASSUME Heard PROVE HeardOnce
<1>1. DOMAIN returned = 1..Len(returned) /\ DOMAIN buffer = 1..Len(buffer)
  BY DEF Heard
<1>2. ToSet(returned) = {returned[i] : i \in 1..Len(returned)}
  BY <1>1 DEF ToSet
<1>3. ToSet(buffer) = (HeardBefore + 1)..received
  BY BufferedIs
<1>4. HeardBefore \in Nat
  BY DEF Heard, HeardBefore
<1>5. ToSet(returned) \cup dropped = 1..HeardBefore
  BY <1>2, <1>4 DEF Heard
<1>6. 1..received = 1..HeardBefore \cup (HeardBefore + 1)..received
  BY <1>4 DEF Heard, HeardBefore
<1>7. ToSet(returned) \cap (ToSet(buffer) \cup dropped) = {}
  BY <1>2, <1>3, <1>4 DEF Heard
<1> QED
  BY <1>1, <1>3, <1>5, <1>6, <1>7 DEF HeardOnce, Heard

\* What Buffer keeps of one message more than there were.
LEMMA ReceiveHeard ==
    ASSUME Heard, Receive
    PROVE  Heard' /\ Len(buffer') <= BufferSize
<1> DEFINE n == Len(buffer)
           all == Append(buffer, received + 1)
           from == IF n + 1 <= BufferSize THEN 1 ELSE n + 2 - BufferSize
<1>1. n \in Nat /\ BufferSize \in Nat \ {0} /\ received \in Nat /\ n <= received
  BY McpAssumption DEF Heard
<1>2. /\ all \in Seq(Nat) /\ Len(all) = n + 1
      /\ \A i \in 1..(n + 1) : all[i] = received - n + i
  <2>1. received + 1 \in Nat /\ buffer \in Seq(Nat)
    BY <1>1 DEF Heard
  <2>2. /\ all \in Seq(Nat) /\ Len(all) = n + 1
        /\ \A i \in 1..n : all[i] = buffer[i]
        /\ all[n + 1] = received + 1
    BY <2>1, AppendProperties
  <2>3. \A i \in 1..n : buffer[i] = received - n + i
    BY DEF Heard, HeardBefore
  <2> HIDE DEF all
  <2>4. ASSUME NEW i \in 1..(n + 1) PROVE all[i] = received - n + i
    <3>1. CASE i = n + 1
      BY <1>1, <2>2, <3>1
    <3>2. CASE i # n + 1
      <4>1. i \in 1..n
        BY <1>1, <3>2
      <4> QED
        BY <2>2, <2>3, <4>1
    <3> QED
      BY <3>1, <3>2
  <2> QED
    BY <2>2, <2>4
<1>3. received' = received + 1 /\ returned' = returned
  BY DEF Receive
<1> HIDE DEF all
<1>4. Buffer(all)
  BY <1>3 DEF Receive, all
<1>5. Max({1, Len(all) - BufferSize + 1}) = from
  <2>1. Max({1, Len(all) - BufferSize + 1}) = IF 1 >= Len(all) - BufferSize + 1 THEN 1 ELSE Len(all) - BufferSize + 1
    BY <1>1, <1>2, MaxOfTwo
  <2>2. Max({1, Len(all) - BufferSize + 1}) = from
    BY <2>1, <1>1, <1>2
  <2> QED
    BY <2>2 DEF Max, Max
<1>6. buffer' = SubSeq(all, from, n + 1)
  BY <1>2, <1>4, <1>5 DEF Buffer
<1>7. from \in 1..(n + 1)
  BY <1>1
<1>a. n + 2 - from <= BufferSize
  BY <1>1
<1> HIDE DEF from
<1>8. /\ buffer' \in Seq(Nat) /\ Len(buffer') = n + 2 - from
      /\ \A i \in 1..(n + 2 - from) : buffer'[i] = all[from + i - 1]
  <2>1. \A i \in from..(n + 1) : all[i] \in Nat
    BY <1>1, <1>2, <1>7
  <2>2. from \in Int /\ n + 1 \in Int /\ n + 1 - from + 1 = n + 2 - from
    BY <1>1, <1>7
  <2> QED
    BY <1>6, <1>7, <2>1, <2>2, SubSeqProperties
<1> HIDE DEF n
<1>9. HeardBefore = received - n /\ HeardBefore' = received - n + from - 1
  BY <1>1, <1>3, <1>7, <1>8 DEF HeardBefore, n
<1>10. \A i \in 1..Len(buffer') : buffer'[i] = HeardBefore' + i
  <2>1. ASSUME NEW i \in 1..(n + 2 - from) PROVE buffer'[i] = HeardBefore' + i
    <3>1. from + i - 1 \in 1..(n + 1)
      BY <1>1, <1>7
    <3>2. all[from + i - 1] = received - n + (from + i - 1)
      BY <1>2, <3>1
    <3> QED
      BY <1>1, <1>7, <1>8, <1>9, <3>2
  <2> QED
    BY <1>8, <2>1
\* Messages received - n + 1 up to the new HeardBefore are dropped.
<1>11. ToSet(all) = (received - n + 1)..(received + 1)
  <2>1. DOMAIN all = 1..(n + 1)
    BY <1>2
  <2>2. ASSUME NEW m \in (received - n + 1)..(received + 1) PROVE m \in ToSet(all)
    <3>1. m - (received - n) \in 1..(n + 1)
      BY <1>1
    <3>2. all[m - (received - n)] = received - n + (m - (received - n))
      BY <1>2, <3>1
    <3>3. all[m - (received - n)] = m
      BY <1>1, <3>2
    <3> QED
      BY <2>1, <3>1, <3>3 DEF ToSet
  <2>3. ASSUME NEW i \in 1..(n + 1) PROVE all[i] \in (received - n + 1)..(received + 1)
    BY <1>1, <1>2
  <2> QED
    BY <2>1, <2>2, <2>3 DEF ToSet
<1>12. ToSet(buffer') = (HeardBefore' + 1)..(received + 1)
  <2>1. DOMAIN buffer' = 1..(n + 2 - from)
    BY <1>8
  <2>2. ASSUME NEW m \in (HeardBefore' + 1)..(received + 1) PROVE m \in ToSet(buffer')
    <3>1. m - HeardBefore' \in 1..(n + 2 - from)
      BY <1>1, <1>7, <1>9
    <3>2. buffer'[m - HeardBefore'] = HeardBefore' + (m - HeardBefore')
      BY <1>8, <1>10, <3>1
    <3>3. buffer'[m - HeardBefore'] = m
      BY <1>1, <1>7, <1>9, <3>2
    <3> QED
      BY <2>1, <3>1, <3>3 DEF ToSet
  <2>3. ASSUME NEW i \in 1..(n + 2 - from) PROVE buffer'[i] \in (HeardBefore' + 1)..(received + 1)
    <3>1. buffer'[i] = HeardBefore' + i
      BY <1>8, <1>10
    <3> QED
      BY <1>1, <1>7, <1>9, <3>1
  <2> QED
    BY <2>1, <2>2, <2>3 DEF ToSet
<1>13. dropped' = dropped \cup (HeardBefore + 1)..HeardBefore'
  <2>1. dropped' = dropped \cup (ToSet(all) \ ToSet(buffer'))
    BY <1>4 DEF Buffer
  <2>2. (received - n + 1)..(received + 1) \ ((HeardBefore' + 1)..(received + 1)) = (HeardBefore + 1)..HeardBefore'
    BY <1>1, <1>7, <1>9
  <2> QED
    BY <1>11, <1>12, <2>1, <2>2
<1>14. HeardBefore \in Nat /\ HeardBefore' \in Nat /\ HeardBefore <= HeardBefore'
  BY <1>1, <1>7, <1>9
<1>15. dropped' \subseteq 1..HeardBefore'
  BY <1>13, <1>14 DEF Heard
<1>16. \A i \in 1..Len(returned) : returned[i] \in 1..HeardBefore' /\ returned[i] \notin dropped'
  BY <1>13, <1>14 DEF Heard
<1>17. \A m \in 1..HeardBefore' : m \in dropped' \/ \E i \in 1..Len(returned) : returned[i] = m
  BY <1>13, <1>14 DEF Heard
<1>18. Len(buffer') <= received'
  BY <1>1, <1>3, <1>7, <1>8
<1> QED
  BY <1>1, <1>3, <1>8, <1>a, <1>10, <1>15, <1>16, <1>17, <1>18 DEF Heard

\* The filter of chat_listen leaves the messages after one that is not earlier than k.
LEMMA SinceIs ==
    ASSUME Heard, NEW k \in Nat, k <= received
    PROVE  \E b \in HeardBefore..received :
              /\ b = IF k <= HeardBefore THEN HeardBefore ELSE k
              /\ Since(k) \in Seq(Nat) /\ Len(Since(k)) = received - b
              /\ \A i \in 1..(received - b) : Since(k)[i] = b + i
<1> DEFINE n == Len(buffer)
           b == IF k <= HeardBefore THEN HeardBefore ELSE k
           later == {i \in 1..Len(buffer) : buffer[i] > k}
           first == b - HeardBefore + 1
<1>1. /\ n \in Nat /\ n <= received /\ received \in Nat
      /\ HeardBefore = received - n /\ HeardBefore \in Nat
  BY DEF Heard, HeardBefore
<1>2. b \in HeardBefore..received
  BY <1>1
<1>3. first \in 1..(n + 1)
  BY <1>1
<1>4. later = first..n
  <2>1. \A i \in 1..n : buffer[i] > k <=> i >= first
    <3> TAKE i \in 1..n
    <3>1. buffer[i] = HeardBefore + i
      BY DEF Heard
    <3> QED
      BY <3>1, <1>1
  <2> QED
    BY <2>1, <1>1, <1>3
<1>5. SelectInSeq(buffer, LAMBDA m : m > k) = IF later # {} THEN Min(later) ELSE 0
  BY DEF SelectInSeq
<1> HIDE DEF later, first, b
<1>6. CASE first = n + 1
  <2>1. later = {}
    BY <1>1, <1>4, <1>6
  <2>2. Since(k) = <<>>
    BY <1>5, <2>1 DEF Since
  <2>3. b = received
    BY <1>1, <1>2, <1>6 DEF first
  <2> QED
    BY <1>1, <1>2, <2>2, <2>3 DEF b
<1>7. CASE first # n + 1
  <2>1. first \in later /\ \A i \in later : first <= i
    BY <1>1, <1>3, <1>4, <1>7
  <2>2. \A x \in later : (\A y \in later : x <= y) => x = first
    BY <2>1, <1>1, <1>3, <1>4
  <2>3. Min(later) = first
    BY <2>1, <2>2 DEF Min
  <2>4. Since(k) = SubSeq(buffer, first, n)
    <3>1. later # {} /\ first # 0
      BY <2>1, <1>3
    <3> QED
      BY <1>5, <2>3, <3>1 DEF Since
  <2>5. \A i \in first..n : buffer[i] \in Nat
    BY <1>1, <1>3 DEF Heard
  <2>6. first \in Int /\ n \in Int /\ n - first + 1 = received - b /\ first <= n
    BY <1>1, <1>2, <1>3, <1>7 DEF first
  <2>7. /\ Since(k) \in Seq(Nat) /\ Len(Since(k)) = received - b
        /\ \A i \in 1..(received - b) : Since(k)[i] = buffer[first + i - 1]
    BY <2>4, <2>5, <2>6, SubSeqProperties
  <2>8. ASSUME NEW i \in 1..(received - b) PROVE Since(k)[i] = b + i
    <3>1. first + i - 1 \in 1..n
      BY <1>1, <1>2, <1>3, <2>6
    <3>2. buffer[first + i - 1] = HeardBefore + (first + i - 1)
      BY <3>1 DEF Heard
    <3> QED
      BY <1>1, <1>2, <2>7, <3>2 DEF first
  <2> QED
    BY <1>2, <2>7, <2>8 DEF b
<1> QED
  BY <1>6, <1>7

LEMMA ListenHeard ==
    ASSUME Heard, NEW k \in 0..received, ChatListen(k)
    PROVE  Heard'
<1>1. /\ received \in Nat /\ Len(buffer) \in Nat /\ HeardBefore \in Nat /\ HeardBefore <= received
      /\ k \in Nat /\ k <= received
  BY DEF Heard, HeardBefore
<1>2. PICK b \in HeardBefore..received :
         /\ b = IF k <= HeardBefore THEN HeardBefore ELSE k
         /\ Since(k) \in Seq(Nat) /\ Len(Since(k)) = received - b
         /\ \A i \in 1..(received - b) : Since(k)[i] = b + i
  BY <1>1, SinceIs
<1> DEFINE new == Since(k)
           l == Len(returned)
<1>3. /\ returned' = returned \o new /\ buffer' = <<>> /\ received' = received
      /\ dropped' = dropped \cup {n \in ToSet(buffer) : n <= k}
  BY DEF ChatListen
<1> HIDE DEF new
<1>4. HeardBefore' = received
  BY <1>1, <1>3 DEF HeardBefore
<1>5. /\ l \in Nat /\ returned' \in Seq(Nat) /\ Len(returned') = l + (received - b)
      /\ \A i \in 1..(l + (received - b)) : returned'[i] = IF i <= l THEN returned[i] ELSE new[i - l]
  <2>1. new \in Seq(Nat) /\ Len(new) = received - b
    BY <1>2 DEF new
  <2>2. returned \in Seq(Nat)
    BY DEF Heard
  <2>3. /\ returned \o new \in Seq(Nat) /\ Len(returned \o new) = l + Len(new) /\ l \in Nat
        /\ \A i \in 1..(l + Len(new)) :
              (returned \o new)[i] = IF i <= l THEN returned[i] ELSE new[i - l]
    BY <2>1, <2>2, ConcatProperties, LenProperties
  <2>4. returned' = returned \o new
    BY <1>3
  <2> QED
    BY <2>1, <2>3, <2>4
<1>6. \A i \in 1..l : returned'[i] = returned[i] /\ returned'[i] \in 1..HeardBefore
  <2> TAKE i \in 1..l
  <2>1. i \in 1..(l + (received - b)) /\ i <= l
    BY <1>1, <1>5
  <2> QED
    BY <1>5, <2>1 DEF Heard
<1>7. ASSUME NEW i \in 1..(l + (received - b)), i > l PROVE returned'[i] = b + (i - l)
  <2>1. i - l \in 1..(received - b)
    BY <1>1, <1>5, <1>7
  <2> QED
    BY <1>1, <1>2, <1>5, <1>7, <2>1 DEF new
<1>8. \A i, j \in 1..Len(returned') : i < j => returned'[i] < returned'[j]
  <2> TAKE i, j \in 1..Len(returned')
  <2> HAVE i < j
  <2>1. CASE j <= l
    <3>1. i \in 1..l /\ j \in 1..l
      BY <1>1, <1>5, <2>1
    <3> QED
      BY <1>6, <3>1 DEF Heard
  <2>2. CASE j > l /\ i <= l
    <3>1. i \in 1..l
      BY <1>1, <1>5, <2>2
    <3>2. returned'[i] \in 1..HeardBefore
      BY <1>6, <3>1
    <3>3. returned'[j] = b + (j - l)
      BY <1>5, <1>7, <2>2
    <3>4. returned'[i] <= HeardBefore /\ returned'[i] \in Nat
      BY <1>1, <3>2
    <3>5. j \in Nat /\ l \in Nat /\ b \in Nat /\ HeardBefore <= b
      BY <1>1, <1>2, <1>5
    <3> QED
      BY <1>1, <2>2, <3>3, <3>4, <3>5
  <2>3. CASE i > l
    <3>1. returned'[i] = b + (i - l)
      BY <1>5, <1>7, <2>3
    <3>2. returned'[j] = b + (j - l)
      BY <1>5, <1>7, <2>3
    <3> QED
      BY <1>1, <1>5, <3>1, <3>2
  <2> QED
    BY <1>1, <1>5, <2>1, <2>2, <2>3
<1>9. ToSet(buffer) = (HeardBefore + 1)..received
  BY BufferedIs
<1>10. {n \in ToSet(buffer) : n <= k} = (HeardBefore + 1)..b
  BY <1>1, <1>2, <1>9
<1>11. dropped' = dropped \cup (HeardBefore + 1)..b
  BY <1>3, <1>10
<1>12. dropped' \subseteq 1..HeardBefore'
  BY <1>1, <1>2, <1>4, <1>11 DEF Heard
<1>13. \A i \in 1..Len(returned') : returned'[i] \in 1..HeardBefore' /\ returned'[i] \notin dropped'
  <2> TAKE i \in 1..Len(returned')
  <2>1. CASE i <= l
    <3>1. i \in 1..l
      BY <1>1, <1>5, <2>1
    <3>2. returned'[i] \notin dropped
      BY <1>6, <3>1 DEF Heard
    <3> QED
      BY <1>1, <1>2, <1>4, <1>6, <1>11, <3>1, <3>2
  <2>2. CASE i > l
    <3>1. returned'[i] = b + (i - l)
      BY <1>5, <1>7, <2>2
    <3>2. returned'[i] \in (b + 1)..received
      BY <1>1, <1>2, <1>5, <2>2, <3>1
    <3> QED
      BY <1>1, <1>2, <1>4, <1>11, <3>2 DEF Heard
  <2> QED
    BY <1>1, <1>5, <2>1, <2>2
<1>14. \A n \in 1..HeardBefore' : n \in dropped' \/ \E i \in 1..Len(returned') : returned'[i] = n
  <2> TAKE n \in 1..HeardBefore'
  <2>1. CASE n <= HeardBefore
    <3>1. n \in 1..HeardBefore
      BY <1>1, <1>4, <2>1
    <3>2. CASE n \in dropped
      BY <1>11, <3>2
    <3>3. CASE \E i \in 1..l : returned[i] = n
      <4>1. PICK i \in 1..l : returned[i] = n
        BY <3>3
      <4>2. i \in 1..Len(returned') /\ returned'[i] = n
        BY <1>1, <1>2, <1>5, <1>6, <4>1
      <4> QED
        BY <4>2
    <3> QED
      BY <3>1, <3>2, <3>3 DEF Heard
  <2>2. CASE n > HeardBefore /\ n <= b
    BY <1>1, <1>4, <1>11, <2>2
  <2>3. CASE n > b
    <3>1. l + (n - b) \in 1..(l + (received - b)) /\ l + (n - b) > l
      BY <1>1, <1>2, <1>4, <1>5, <2>3
    <3>2. returned'[l + (n - b)] = b + (l + (n - b) - l)
      BY <1>7, <3>1
    <3>3. returned'[l + (n - b)] = n
      BY <1>1, <1>2, <1>4, <1>5, <3>2
    <3> QED
      BY <1>5, <3>1, <3>3
  <2> QED
    BY <1>1, <1>2, <1>4, <2>1, <2>2, <2>3
<1>15. /\ buffer' \in Seq(Nat) /\ Len(buffer') = 0 /\ Len(buffer') <= received'
       /\ \A i \in 1..Len(buffer') : buffer'[i] = HeardBefore' + i
  BY <1>1, <1>3
<1> QED
  BY <1>1, <1>3, <1>5, <1>8, <1>12, <1>13, <1>14, <1>15 DEF Heard

-----------------------------------------------------------------------------
Sending ==
    /\ conn \in {"up", "down", "dead"}
    /\ Len(buffer) <= BufferSize
    /\ call \in [Sends -> {"new", "socket", "post", "activity", "success", "error"}]
    /\ inFlight \subseteq Sends /\ taken \in 0..SocketLimit
    /\ stored \subseteq Sends /\ noted \subseteq Sends /\ lostSends \subseteq Sends
    /\ others \in 0..MaxReceived /\ faults \in 0..MaxFaults

McpInv == Heard /\ Sending

LEMMA McpInvTyped == ASSUME McpInv PROVE McpTypeOK
<1>1. received \in Nat /\ Len(buffer) \in Nat /\ HeardBefore \in Nat /\ HeardBefore <= received
  BY DEF McpInv, Heard, HeardBefore
<1>2. dropped \subseteq 1..received
  BY <1>1 DEF McpInv, Heard
<1>3. \A i \in 1..Len(buffer) : buffer[i] \in 1..received
  BY <1>1 DEF McpInv, Heard, HeardBefore
<1>4. \A i \in 1..Len(returned) : returned[i] \in 1..received
  BY <1>1 DEF McpInv, Heard
<1>5. \A s \in Seq(Nat) : (\A i \in 1..Len(s) : s[i] \in 1..received) => s \in Seq(1..received)
  <2> TAKE s \in Seq(Nat)
  <2> HAVE \A i \in 1..Len(s) : s[i] \in 1..received
  <2>1. Len(s) \in Nat /\ s = [i \in 1..Len(s) |-> s[i]]
    OBVIOUS
  <2>2. s \in [1..Len(s) -> 1..received]
    BY <2>1
  <2> DEFINE T == 1..received
  <2>3. \E i \in Nat : s \in [1..i -> T]
    BY <2>1, <2>2
  <2> HIDE DEF T
  <2>4. s \in UNION {[1..i -> T] : i \in Nat}
    BY <2>3
  <2>5. s \in Seq(T)
    BY <2>4, SeqDef
  <2> QED
    BY <2>5 DEF T
<1>6. buffer \in Seq(1..received) /\ returned \in Seq(1..received)
  BY <1>3, <1>4, <1>5 DEF McpInv, Heard
<1> QED
  BY <1>1, <1>2, <1>6 DEF McpInv, Sending, McpTypeOK

LEMMA McpInitInv == ASSUME McpInit PROVE McpInv
<1>1. /\ received = 0 /\ buffer = <<>> /\ returned = <<>> /\ dropped = {}
      /\ Len(buffer) = 0 /\ Len(returned) = 0
  BY DEF McpInit
<1>2. HeardBefore = 0
  <2>1. received = 0 /\ Len(buffer) = 0
    BY <1>1
  <2>2. \A a, b : a = 0 /\ b = 0 => a - b = 0
    OBVIOUS
  <2> QED
    BY <2>1, <2>2 DEF HeardBefore
<1>3. Heard
  BY <1>1, <1>2 DEF Heard
<1>4. Sending
  BY <1>1, McpAssumption DEF McpInit, Sending
<1> QED
  BY <1>3, <1>4 DEF McpInv

\* Most steps leave alone what the listener sees.
LEMMA SameHeard ==
    ASSUME Heard, UNCHANGED <<received, buffer, returned, dropped>>
    PROVE  Heard' /\ Len(buffer') = Len(buffer)
  BY DEF Heard, HeardBefore

LEMMA EmitHeard ==
    ASSUME Heard, Len(buffer) <= BufferSize,
           Broadcast \/ UNCHANGED listening
    PROVE  Heard' /\ Len(buffer') <= BufferSize
  BY SameHeard, ReceiveHeard DEF Broadcast, listening

LEMMA McpNextInv == ASSUME McpInv, McpNext PROVE McpInv'
<1> USE DEF McpInv
<1>1. CASE SocketConnect \/ Disconnect \/ GiveUp \/ MinuteEnds
  <2>1. Heard' /\ Len(buffer') = Len(buffer)
    BY <1>1, SameHeard DEF SocketConnect, Disconnect, GiveUp, MinuteEnds, listening
  <2>2. Sending'
    BY <1>1, <2>1, McpAssumption DEF Sending, SocketConnect, Disconnect, GiveUp, MinuteEnds, Fault,
                 sending
  <2> QED
    BY <2>1, <2>2
<1>2. CASE OthersWrite
  <2>1. Heard' /\ Len(buffer') <= BufferSize
    BY <1>2, EmitHeard DEF OthersWrite, Sending
  <2>2. Sending'
    BY <1>2, <2>1, McpAssumption DEF Sending, OthersWrite, sending
  <2> QED
    BY <2>1, <2>2
<1>3. ASSUME NEW k \in 0..received, ChatListen(k) PROVE McpInv'
  <2>1. Heard'
    BY <1>3, ListenHeard
  <2>2. Len(buffer') = 0
    BY <1>3 DEF ChatListen
  <2>3. Sending'
    BY <1>3, <2>2, McpAssumption DEF Sending, ChatListen, sending
  <2> QED
    BY <2>1, <2>3
<1>4. ASSUME NEW s \in Sends, Send(s) \/ TimeOut(s) PROVE McpInv'
  <2>1. Heard' /\ Len(buffer') = Len(buffer)
    BY <1>4, SameHeard DEF Send, TimeOut, listening
  <2>2. Sending'
    BY <1>4, <2>1 DEF Sending, Send, TimeOut, Goto, sending
  <2> QED
    BY <2>1, <2>2
<1>5. ASSUME NEW s \in Sends, Post(s) PROVE McpInv'
  <2>1. Heard' /\ Len(buffer') <= BufferSize
    BY <1>5, EmitHeard DEF Post, StoreSent, listening, Sending
  <2>2. Sending'
    BY <1>5, <2>1, McpAssumption DEF Sending, Post, StoreSent, Goto, Fault
  <2> QED
    BY <2>1, <2>2
<1>6. ASSUME NEW s \in Sends, Note(s) PROVE McpInv'
  <2>1. Heard' /\ Len(buffer') = Len(buffer)
    BY <1>6, SameHeard DEF Note, listening
  <2>2. Sending'
    BY <1>6, <2>1, McpAssumption DEF Sending, Note, Goto, Fault
  <2> QED
    BY <2>1, <2>2
<1>7. ASSUME NEW s \in Sends, TakeSent(s) PROVE McpInv'
  <2>1. Heard' /\ Len(buffer') <= BufferSize
    BY <1>7, EmitHeard DEF TakeSent, StoreSent, listening, Sending
  <2>2. Sending'
    BY <1>7, <2>1, McpAssumption DEF Sending, TakeSent, StoreSent, Fault
  <2> QED
    BY <2>1, <2>2
<1> QED
  BY <1>1, <1>2, <1>3, <1>4, <1>5, <1>6, <1>7 DEF McpNext, Answer

LEMMA McpStutter == ASSUME McpInv, UNCHANGED mcpVars PROVE McpInv'
<1>1. Heard' /\ Len(buffer') = Len(buffer)
  BY SameHeard DEF McpInv, mcpVars, listening
<1> QED
  BY <1>1 DEF McpInv, Sending, mcpVars, sending

LEMMA McpAlways == McpSpec => []McpInv
<1>1. McpInit => McpInv
  BY McpInitInv
<1>2. McpInv /\ [McpNext]_mcpVars => McpInv'
  BY McpNextInv, McpStutter
<1> QED
  BY <1>1, <1>2, PTL DEF McpSpec

(***************************************************************************)
(* The variables of the MCP server keep their types.                       *)
(***************************************************************************)
THEOREM McpTypeCorrect == McpSpec => []McpTypeOK
<1>1. McpInv => McpTypeOK
  BY McpInvTyped
<1> QED
  BY <1>1, McpAlways, PTL

(***************************************************************************)
(* chat_listen (mcp-server.ts) returns what the socket received at most    *)
(* once and in order, for a buffer of any size and any number of messages, *)
(* calls and lost links.                                                   *)
(***************************************************************************)
THEOREM HeardOnceHolds == McpSpec => []HeardOnce
<1>1. McpInv => HeardOnce
  BY HeardIsOnce DEF McpInv
<1> QED
  BY <1>1, McpAlways, PTL
=============================================================================
