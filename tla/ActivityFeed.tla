---------------------------- MODULE ActivityFeed ----------------------------
(***************************************************************************)
(* The activity feed of a browser (client/src/App.tsx) next to the table   *)
(* activities (server/index.ts).  The feed is loaded once, gets older      *)
(* pages as the user scrolls and new activities by the socket, and is      *)
(* never loaded again.                                                     *)
(*                                                                         *)
(* A page is asked for by the created_at of the last activity shown.  The  *)
(* column has microseconds; what the browser got and sends back has gone   *)
(* through a Date and JSON and has milliseconds.                           *)
(***************************************************************************)
EXTENDS Integers, Sequences, FiniteSets, SequencesExt

CONSTANTS
    PageSize,      \* limit=20 of a page of the feed
    Kept,          \* what a pushed activity leaves of the feed (50)
    Instants,      \* values of created_at, in microseconds
    Tick,          \* microseconds in a millisecond (1000)
    Stored,        \* activities there are when the app is mounted
    MaxCalls,      \* bound: activities stored from then on
    MaxFailures    \* bound: lost links, failing requests

ASSUME FeedAssumption ==
    /\ PageSize \in Nat \ {0} /\ Kept \in Nat \ {0} /\ Tick \in Nat \ {0}
    /\ Instants \subseteq Nat /\ Stored \in Nat
    /\ MaxCalls \in Nat /\ MaxFailures \in Nat

VARIABLES
    at,            \* at[n]: created_at of the n-th activity stored
    emitting,      \* those whose handler has yet to emit them
    feed, more,    \* activities and hasMoreActivities
    page,          \* the page on its way, if any
    slipped,       \* history: something happened that the feed does not get over
    online,        \* the browser's socket is connected
    calls, failures

feeds == <<at, emitting, feed, more, page, slipped>>
feedBudget == <<calls, failures>>
feedVars == <<feeds, online, feedBudget>>

NoCursor == -1     \* the request of the first page has no parameter "before"

NoPage == [pc |-> "idle", cursor |-> NoCursor, rows |-> <<>>, more |-> FALSE]

FeedTypeOK ==
    /\ at \in Seq(Instants) /\ emitting \subseteq DOMAIN at
    /\ feed \in Seq(DOMAIN at) /\ more \in BOOLEAN
    /\ page.pc \in {"idle", "asked", "read"} /\ page.cursor \in Nat \cup {NoCursor}
    /\ page.rows \in Seq(DOMAIN at) /\ Len(page.rows) <= PageSize /\ page.more \in BOOLEAN
    /\ slipped \in BOOLEAN /\ online \in BOOLEAN
    /\ calls \in 0..MaxCalls /\ failures \in 0..MaxFailures

\* Some activities are stored, and the app is mounted: it asks for the first page.
FeedInit ==
    /\ at \in [1..Stored -> Instants] /\ \A m, n \in 1..Stored : m < n => at[m] <= at[n]
    /\ emitting = {}
    /\ feed = <<>> /\ more = FALSE /\ page = [NoPage EXCEPT !.pc = "asked"]
    /\ slipped = FALSE
    /\ online = FALSE
    /\ calls = MaxCalls /\ failures = MaxFailures

Act == calls > 0 /\ calls' = calls - 1 /\ UNCHANGED failures
Fail == failures > 0 /\ failures' = failures - 1 /\ UNCHANGED calls

-----------------------------------------------------------------------------
(***************************************************************************)
(* The hub stores an activity and emits it to everybody; what comes with a *)
(* message that is posted to /api/service/messages is stored only.  The    *)
(* clock is read when the INSERT starts: of two that overlap, the later    *)
(* one may be stored first.                                                *)
(***************************************************************************)
Overtaken(t) == \E n \in DOMAIN at : t < at[n]

StoreActivity(t) ==
    /\ at' = Append(at, t)
    /\ emitting' = emitting \cup {Len(at')}
    /\ slipped' = (slipped \/ emitting # {} \/ Overtaken(t))
    /\ UNCHANGED <<feed, more, page>>

StoreSilently(t) ==
    /\ at' = Append(at, t) /\ slipped' = TRUE
    /\ UNCHANGED <<emitting, feed, more, page>>

\* POST /api/activities and /api/service/activities, a user's message; POST /api/service/messages.
PostActivity(t) == Act /\ StoreActivity(t) /\ UNCHANGED online

PostServiceMessage(t) == Act /\ StoreSilently(t) /\ UNCHANGED online

FirstPage == page.pc # "idle" /\ page.cursor = NoCursor

Latest(s) == SubSeq(s, 1, Min({Len(s), Kept}))

\* The newest goes on top, and the feed is cut; whoever has no link misses it.
EmitActivity(n) ==
    /\ n \in emitting
    /\ emitting' = emitting \ {n}
    /\ feed' = IF online THEN Latest(<<n>> \o feed) ELSE feed
    /\ slipped' = (slipped \/ ~online \/ FirstPage \/ (page.pc # "idle" /\ Len(feed) >= Kept))
    /\ UNCHANGED <<at, more, page, online, feedBudget>>

(***************************************************************************)
(* A page: the first, or what is older than the last activity shown.       *)
(***************************************************************************)
\* created_at as JSON has it.
Cut(t) == t - (t % Tick)

AskOlder ==
    /\ page.pc = "idle" /\ more /\ feed # <<>>
    /\ page' = [NoPage EXCEPT !.pc = "asked", !.cursor = Cut(at[Last(feed)])]
    /\ UNCHANGED <<at, emitting, feed, more, slipped, online, feedBudget>>

\* WHERE created_at < $1.
UpToCursor(c) == {n \in DOMAIN at : c = NoCursor \/ at[n] <= c}

Older(c) == {n \in DOMAIN at : c = NoCursor \/ at[n] < c}

\* ORDER BY created_at DESC, whose order of equals is open, and the first l rows of it.
Sorted(s) == \A i, j \in DOMAIN s : i < j => s[i] # s[j] /\ at[s[i]] >= at[s[j]]

FirstRows(S, l) ==
    {s \in [1..Min({Cardinality(S), l}) -> S] :
        Sorted(s) /\ \A n \in S \ Range(s), i \in DOMAIN s : at[s[i]] >= at[n]}

\* LIMIT is one more than the page, to see whether there is more, and is sliced off again.
WithOneMore(S) == FirstRows(S, PageSize + 1)

Pages(S) == FirstRows(S, PageSize)

ReadPage ==
    /\ page.pc = "asked"
    /\ LET older == Older(page.cursor) IN
       \E rows \in Pages(older) :
          page' = [page EXCEPT !.pc = "read", !.more = Cardinality(older) > PageSize,
                               !.rows = rows]
    /\ slipped' = (slipped \/ (FirstPage /\ emitting # {}))
    /\ UNCHANGED <<at, emitting, feed, more, online, feedBudget>>

TakePage ==
    /\ page.pc = "read"
    /\ feed' = IF page.cursor = NoCursor THEN page.rows ELSE feed \o page.rows
    /\ more' = page.more
    /\ page' = NoPage
    /\ UNCHANGED <<at, emitting, slipped, online, feedBudget>>

LosePage ==
    /\ page.pc # "idle" /\ Fail
    /\ page' = NoPage
    /\ UNCHANGED <<at, emitting, feed, more, slipped, online>>

Link ==
    /\ ~online /\ online' = TRUE
    /\ UNCHANGED <<feeds, feedBudget>>

Unlink ==
    /\ online /\ online' = FALSE /\ Fail
    /\ UNCHANGED feeds

-----------------------------------------------------------------------------
FeedNext ==
    \/ \E t \in Instants : PostActivity(t) \/ PostServiceMessage(t)
    \/ \E n \in emitting : EmitActivity(n)
    \/ AskOlder \/ ReadPage \/ TakePage \/ LosePage \/ Link \/ Unlink

FeedSpec == FeedInit /\ [][FeedNext]_feedVars

-----------------------------------------------------------------------------
\* The feed should have got over everything that happened to it.
Settled == ~slipped /\ emitting = {} /\ feed # <<>>

Missing == DOMAIN at \ Range(feed)

(***************************************************************************)
(* Older pages and new activities meet in the feed: it is sorted and       *)
(* repeats nothing, and of the activities down to the last one shown it    *)
(* misses none but those that a page ended before in the middle of a       *)
(* millisecond, while pages are under way and others are announced.  It    *)
(* slips for good when the link is down, two activities are stored or      *)
(* announced at once, one is announced around the first load or stored     *)
(* silently, or when the cut takes away what a page on its way is to       *)
(* follow.                                                                 *)
(***************************************************************************)
FeedWhole ==
    Settled =>
        /\ Sorted(feed)
        /\ \A n \in Missing : \E m \in Range(feed) :
              /\ at[n] <= at[m]
              /\ m = Last(feed) \/ Cut(at[n]) = Cut(at[m])

(***************************************************************************)
(* "Use `before` (timestamp cursor) to fetch older activities"             *)
(* (docs/mcp-server.md): every activity that is newer than the last one    *)
(* shown is shown.                                                         *)
(***************************************************************************)
FeedComplete == Settled => \A n \in Missing : at[n] <= at[Last(feed)]
=============================================================================
