# Formal models of swissclaw-hub

TLA+ models of the hub's server, its gateway and bridge to the agent, and its
authentication, and its clients: the browser's board, chat, status and user
administration, the scripts and the MCP server. TLC checks them on small
instances and TLAPS proves the central safety properties for all values of the
constants. Everything here is written
from the source under `server/`, `openclaw-extension/src/`, `scripts/`,
`client/src/` and `database/migrations/`; `PROJECT.json` maps every definition
to the lines it stands for.

## 1. The system

The hub is an Express and Socket.io server over PostgreSQL (`server/index.ts`,
`server/routes`, `server/middleware`). People use it from a browser
(`client/src`): chat, a kanban board, a status panel, user administration. The
agent uses it through a *gateway* inside OpenClaw (`openclaw-extension/src`),
through *bridge* daemons (`scripts/chat-bridge-webhook.ts`) and through an MCP
server (`server/mcp-server.ts`). The actors share no memory. They share the
tables of one database, touched by single SQL statements from a connection pool,
and Socket.io rooms: a browser is in the room of its conversation, every other
client in the room `agent`.

| Component | State | Operations | What makes it hard | What makes it correct |
|---|---|---|---|---|
| Message delivery (`server/index.ts`) | `messages.processing_state`, rooms | `PUT /api/service/messages/:id/state` (claim, cancel, update), socket `cancel-message`, inserts | several statements per request, any number of requests at once, restarts | one claim per message; only claimed messages are cancelled; rooms learn the state |
| Hub gateway (`gateway.ts`) | session queues, `cancelledMessageIds`, per-message flags | events `message`, `message-state`; dispatch, deliver; start-up clean-up | event order, crashes, failing requests, cancellation at any time | one message of a session at a time; states agree with replies; nothing stays "processing" |
| Chat bridge (`chat-bridge-webhook.ts`) | none but the handler's place | event `message`: claim, forward | several bridges, lost answers | no message forwarded twice, none passed over |
| Kanban (`server/index.ts`, `rebalance_column_positions`) | `kanban_tasks(column_id, position)` | create, update, reorder, delete | midpoints run out, renumbering, races | a move puts a task where asked and moves nobody else |
| Authentication (`middleware/auth.ts`, `routes/auth.ts`) | `sessions`, `refresh_tokens`, counter and lock of `users` | login, Google login, refresh, logout, change of password, administration | statements of many requests interleave, one of several fails | a refresh token is used once; a login is never split; the lock is honoured |
| User administration (`routes/admin.ts`, `UserManagement.tsx`) | `users` | create, change, delete, unlock | two administrators at once, foreign keys, a failure half-way | an administrator remains; deletions work; the panel is true |
| Kanban client (`KanbanBoard.tsx`) | columns shown, drag in progress | drag, edit, reload | shown before it is stored, columns read one by one | shows what is stored |
| Chat client (`App.tsx`) | messages, states, reactions, unsent queue | socket events, reload every 30 s | a late reload overwrites newer events | shows what is stored, once things are quiet |
| Browser refresh (`client/src/api.ts`) | `refreshPromise` | fetch, refresh on 401 | several requests and tabs, one cookie | nobody is sent to the login page without need |
| Script auth (`scripts/lib/hub-auth.ts`), extension auth (`openclaw-extension/src/auth.ts`) | token files, lock file | cached token, refresh, login | stale locks, killed processes | one at a time; no spent token is presented; calls end |
| MCP server (`mcp-server.ts`) | buffer of 100 messages | tools, retry on 401 | bound, `since`, no acknowledgments | every message handed out once; sends end |
| Model usage, status | one row per day, one row | upsert and broadcast | late snapshots | the newest snapshot stays |
| Reactions, activities | rows | insert, delete, broadcast, pages | order of events, pages and reloads | clients agree with the table |
| Rate limits, cookies, configuration, migrations | counters, none | middleware | - | - |

`PROJECT.json` lists every component with its status, and under `hazards` what
is hard to test in this code, each at its line with the properties about it.

## 2. Modules

| Module | Role |
|---|---|
| `MessageRows` | the `messages` table: one operator per SQL statement. Used by the three modules that touch messages |
| `MessageState` | the handlers of the server over these rows, one step per statement or emit |
| `ClaimRegister` | abstract: a one-shot grant per message; `MessageState` implements it |
| `HubGateway` | the gateway at work, with users, failing requests, lost sockets, crashes |
| `SerialWorker` | abstract: one message of a session at a time, each at most once; `HubGateway` implements it |
| `ChatBridge` | any number of bridge daemons over the same rows |
| `KanbanOrder` | sparse positions and renumbering |
| `TaskLists` | abstract: plain lists in which a request moves one task; `KanbanOrder` implements it |
| `KanbanClient` | the board of one browser, in front of `KanbanOrder` (which it extends) and next to other clients |
| `AuthTokens` | sessions, refresh tokens, lock |
| `TokenChains` | abstract: a login as a chain that is usable, being passed on, or over; `AuthTokens` implements it |
| `HubTokens` | the hub as its clients see it when it comes to tokens: a counter of pairs, which are live, spent, accepted |
| `ScriptAuth` | processes of one machine over `HubTokens`: lock file, token files, the plugin that ignores the lock |
| `BrowserAuth` | the tabs of one browser over `HubTokens`: cookies, coalesced refreshes, the login page |
| `TokenClients` | both at one hub |
| `UserAdmin` | the administration of accounts, with its panel |
| `ChatClient` | the chat of one browser: unsent queue, socket, limit, events, reloads |
| `ActivityFeed` | the activity feed of a browser: pages by a cursor of milliseconds over a column of microseconds, pushed activities, the cut |
| `StatusPanel` | status and model usage, from the tables to the panel: pushes, late reports, overlapping loads |
| `McpServer` | the buffer of the MCP server and the three ways of `send_message` |
| `MC*` | instances for TLC |
| `*Proofs` | theorems and their TLAPS proofs |

### How state and actions correspond to the code

*Handlers.* Node runs a handler up to an `await`, other handlers run, and it
goes on with the answer. `MessageState`, `KanbanOrder`, `AuthTokens` and
`UserAdmin` keep a set of slots `Reqs`; `req[r].pc` (`.at` in `UserAdmin`) names
the statement the handler in slot `r` waits for, and an action is that statement
with the code up to the next one. A statement on one row is atomic in PostgreSQL.
A restart empties the slots and leaves the tables.

*MessageState.* `PutState` and `SocketCancel` accept a request; `CheckCancel`,
`Claim`, `Lookup`, `Update`, `CancelUpdate` are its statements; `Emit` announces
and answers. A statement may fail (`QueryFails`), before it took effect or, an
UPDATE, after it. `wins` and `ui` record what callers and sockets were told;
`blurred[m]` says that the last change of `m` overlapped an announcement of `m` or
was never announced, and the next change that meets no other resets it. Any client
may put any valid state on any message. The INSERT of a message and its emit are
one step (`Insert`): who works on messages learns of one by its emit.

*HubGateway.* `inbox` and `hints` are the events on the socket; `work[m]` is the
place of the handler of `m`; `queue` is the promise chain of `enqueueSessionWork`.
A PUT of the gateway is one step (`Put`), because the gateway reads nothing
between sending it and the answer. The outcomes of a request are success, failure
before it took effect and failure after it: a PUT (`PutFails`) that failed may have
stored its state, a `sendToHub` its reply. A PUT in flight at a crash has taken
effect or never will; one that takes effect during or after the next clean-up is
left out. `EndDispatch` computes the terminal state. `Crash`, `Boot`, `ListStale`, `TimeOutStale`,
`Connect` are a crash and the next start. The set-up calls of the OpenClaw core
before a dispatch are external and assumed not to throw. `ConvMsgs` are messages
with a conversation id: events about them go to the conversation's room, which
the gateway is not in. `heard` is a history variable.

*ChatBridge.* `phase[b][m]` is the place of `handleInboundMessage` in bridge `b`.
A claim or a hand-over succeeds, or fails before or after it took effect; the
handler gives up then, as in the code. A lost link loses the events under way, a
crash ends the handlers too.

*KanbanOrder.* `CreateTask`/`Insert`, `PutTask`/`Update`/`Check`/`List`/`Write`
are the statements of create and update; the reorder endpoint is a transaction
and one step. The renumbering function reads the column when its loop starts and
its writes become visible at the end, so it is two steps. `loose` (columns into
which a bare position was written) and `alone` (slots that met nobody) are
history variables. Tasks at one position are shown by id: the query leaves their
order open, the renumbering uses the id. Requests that name a target name the
column the target is in, as the client does. Statements that fail are not
modelled: one that fails ends the request with what came before it in place, also
without the renumbering that was due, and the next update of the column checks again.
Nor are the single statements of the reorder transaction, between which the writes
of another request may become visible.

*KanbanClient.* `shown` is the React state of the lists, `call[k]` a handler of
the board: a drop (`DropBeside`, `DropAcross`) changes `shown` and sends a request
that `Reach` hands to a slot of `KanbanOrder`; `Work` is a step of that slot;
`Answer` is the code after the `await`, which loads the board again after a failed
drop and after a successful dialog. A load reads one column per step. `sure` is a
history variable: what can be claimed of the screen since the last load that met
nobody. Nothing pushes changes of the board to a browser, so after another
client's request nothing can be claimed.

*AuthTokens.* One account: every row and statement names one user. "dead" covers
revoked, expired and deleted rows, which no statement tells apart. The password
is compared after the SELECT without touching state, so the comparison is part of
that step; the same holds for the verification of a Google token. The update that
ends a Google login clears the lock and appears as `Unlock`. `chain` gives each
refresh token the token of the login it descends from, `used` counts exchanges.

*ScriptAuth.* `pc[p]` follows `withTokenLock` and the callback of `ensureHubAuth`;
every access to a file and every request is a step. `lock` is the creator of the
file that exists; `old` is that the file is older than `LOCK_STALE_MS`. A request
that fails is `null` in the code and `None` here, also when the exchange took
place and only its answer was lost. The token of the environment comes first and
never changes. The plugin is a process of its own kind, without the lock. `Sleep`
goes on or gives up, as a choice: there is no clock, and nothing forces the error
after `LOCK_TIMEOUT_MS`. `risky`, `cut` and `replayed` are history variables.

*BrowserAuth.* `jar` are the cookies of the browser, `promise[t]` the variable
`refreshPromise` of tab `t`, `fetch[t][f]` a call of `apiFetch`. The login page
throws the page away, and with it all that was in flight. `contested`, `failed`
and `expelled` are history variables. A logout and a reload of the page by its user
are left out: both end the page on the user's account, whereas the module is about
pages that end without it.

*UserAdmin.* `role[u]` is the row of `users`, `logged` the users that rows of
`security_logs` refer to (the foreign key that makes a DELETE fail), `list` the
state of the panel. `requireAuth` and `requireRole` are the guard of `Arrive`; the
panel loads the list after each of its changes that succeeded. `SameMail` says
which ids have one address; a new row gets a new id. Creating and changing a user
may be refused for a google_id that somebody has. `touched` marks a request
whose user has been logged since it cleared the log; `fresh` a list read while
nothing else was under way. `lapped` says that two requests that may take an
administrator away overlapped and no request was let in alone since; it and
`astray` are history variables.

*ChatClient.* `pending` is `pendingMessagesRef`; `up` are the messages and
`announcing` the events on the socket; `inserting` are messages whose INSERT is under way.
`Flush` empties the queue when the socket connects. A reload reads the messages
and their reactions in two statements and is applied as a whole; events are
applied one by one. Messages of other conversations reach the table, never the
page.

*ActivityFeed.* `at[n]` is the `created_at` of the n-th activity stored, in
microseconds; handlers emit after their INSERT, in any order. `page` is the request
of `fetchActivities`, of which there is one at a time. Its cursor is the time of the
last activity shown after a trip through a Date and JSON, which leaves milliseconds
(`Cut`), and the query compares it with the column (`Older`). The order of rows of
one time is open, in every answer (`FirstRows`). `slipped` records what the feed
does not get over, other than the cut of the cursor.

*StatusPanel.* `load[l]` is a load of `fetchData` on its way; there are several,
because the interval does not wait for the last one. The body of a failed status
request is taken for the status (`Refused`).

*McpServer.* `buffer` is `messageBuffer`, `inFlight` the sends on the socket. The hub
never calls the acknowledgment, so the timer is the only answer of a send by the
socket. The hub emits a message to the sender's link or not, as the conversation
has it. The INSERT of a message and the check of the limit are one step
(`TakeSent`): a message whose INSERT is under way when the link breaks counts as
lost here, while it is stored in the code and missing only at the sender. The
operators of this module and of the last two have names of their own (`McpInit`,
`FeedSpec`, `PanelSpec`, ...), so that one module of proofs can extend them and
`ChatClient`.

## 3. Runs

| Run | Checks | Shows |
|---|---|---|
| `MCMessageState` | `RoomInStep NoUnclaimedCancel ImplementsRegister` | three requests on one message, all interleavings |
| `MCHubGateway` | `DoneOnlyIfReplied AnsweredIsDone TerminalIsFinal SilentAfterCancel ImplementsSerialWorker QueueDrains ProcessingEnds` | two messages of a session, two crashes, a lost socket, a failing request, an evicted id |
| `MCChatBridge` | `HandedAtMostOnce NotPassedOver EventuallyHanded` | three bridges, two faults |
| `MCKanbanOrder` | `PlacedBeside ImplementsTaskLists Heals` | two requests at a time, all mixtures of endpoints |
| `MCKanbanClient` | `BoardTypeOK BoardTrue` | two handlers of the board, a request of another client, a lost request |
| `MCAuthTokens` | `OneLivePerChain ImplementsTokenChains LockHonoured` | two requests, three refresh tokens, two sessions |
| `MCTokenClients` | `Exclusive NoReplay NotExpelled CallsEnd` | two scripts, the plugin, two tabs with two calls each, a fault |
| `MCUserAdmin` | `TypeOK AdminRemains BlockedOnlyByUse PanelTrue` | two requests of administrators over three accounts, a fault |
| `MCChatClient` | `TypeOK OnePlace Arrives PageSettles` | two messages to send, one of another conversation, two reloads at once |
| `MCPushed` | `FeedTypeOK FeedWhole PanelTypeOK PanelRunSettles McpTypeOK HeardOnce SendsEnd` | `ActivityFeed`, `StatusPanel` and `McpServer`, one at a time |

The three modules of `MCPushed` share no variable: what one does while the others do
something is what it does while they are at rest, and `part` says which one is run.
`PanelRunSettles` is `PanelSettles` where the panel is run.

`MCGatewayConversation` checks a comment of the code that the code does not live
up to (`QueuedCancelSkipped`, `findings` in `PROJECT.json`): the gateway is not in
the room the cancellation of a message with a conversation is sent to.

`MCFeedCursor` checks what `docs/mcp-server.md` says of paging (`FeedComplete`): with
the cursor of the browser one does not get all older activities. Those of the same
millisecond as the last one shown are older than it or equal to it by the column,
not older than its cut time, and no page ever has them. `FeedWhole` is what holds:
whatever is missing above the end of the feed is of the millisecond of an activity
shown.

### What the models show of the code besides

These follow from the models, and no run is devoted to them:

- A PUT of "cancelled" passes its check, the message becomes "done", and the
  UPDATE cancels it (`MessageState`, `CheckCancel` then `CancelUpdate`; the code
  says "Cancel is only valid from received or processing states").
- Two handlers that changed the state of one message announce it in either order:
  the room may keep the older state until the next change (`MessageState`, the case
  `blurred` excuses).
- A gateway that crashes between a stored reply and the terminal state leaves a
  message that the clean-up of the next start marks "timeout" (`HubGateway`). The
  clean-up reads one page of 100 messages and only those in "processing": what is
  beyond the page stays as it is until a later start, and what was claimed and not
  yet put on "processing" stays so for good.
- Before a first task at position 0, which every renumbering produces, the new
  position is 0 as well, and the renumbering breaks the tie by id (`KanbanOrder`).
- Two creations that read the same maximum store one position, and the board shows
  the two in arbitrary order until the next update of the column. A renumbering
  writes the positions of the column it read when its loop started, wherever the
  tasks are by then, and one that met nobody repairs it (`KanbanOrder`, `Heals`).
- A board that is read column by column while a task moves lists it twice or not at
  all until the next load (`KanbanClient`, the case `sure` excuses).
- A login that read its row before the account was locked opens its session
  afterwards (`AuthTokens`, `LockHonoured` bars what came in during the lock).
- If the INSERT of a rotation fails after its UPDATE, the login is lost
  (`AuthTokens`, `Unissue`; the comment in `middleware/auth.ts` says "Atomically").
- A task dragged down within its column is shown one place further than the
  server puts it, until the next load (`KanbanClient`, `DropBeside`); a board whose
  first load failed shows its error for good.
- Two administrators who demote each other at the same time leave none
  (`UserAdmin`: the case `lapped` excuses). Changes of two administrators that
  overlap leave a panel with the older list until it is loaded again (`astray`), and
  a row of the security log written during a deletion leaves it half done
  (`touched`). A change of role ends sessions and
  leaves the refresh tokens.
- A token of the environment that has been exchanged is presented again by every
  later call that needs a refresh, and the exchange of two processes that break a
  stale lock at the same time overlaps (`ScriptAuth`: the cases `env` and `risky`
  excuse). A script killed between the exchange and the file leaves a spent token
  in the file (`cut`).
- Two tabs that refresh at the same time may send one of them to the login page
  (`BrowserAuth`: the case `contested` excuses).
- A reaction removed while a browser has no link stays on its page: a reload
  replaces the reactions of messages that have some, and of no others
  (`ChatClient`).
- The activity feed is loaded once. What happens without a link, around the first
  load, or in a message posted to `/api/service/messages` is missing from it for
  good, two activities stored or announced at once may change places, and a cut to
  50 while an older page is under way leaves a gap (`ActivityFeed`: the cases
  `slipped` excuses).
- `send_message` of the MCP server reports success for a message that the hub
  dropped by its limit or that was lost with the link (`McpServer`, `lostSends`). Its
  tool `update_status` sends no `lastActive` and is always refused.
- A PUT of the state a message already has is broadcast as if it were a transition
  (`docs/chat-endpoints.md` says "only when a real state transition occurs"); an
  update of a task with a target and no column leaves the task where it is; a
  logout reports success when the revocation of its session failed.

### Bounds, and why they are enough

- *Messages and requests.* No statement touches two rows of `messages`, so one
  message suffices for `MessageState`; a race between check and write needs two
  requests and a third shows interference with both. For the gateway two
  messages of one session are the least that can be served out of turn; sessions
  share nothing but the set of cancelled ids, so one is enough, and the theorems
  cover any number.
- *Faults.* One of each kind is enough for each place it can strike, since it may
  strike anywhere; `MCHubGateway` has two crashes so that a clean-up is cut off
  as well. `ProcessingEnds` excuses a message when a request failed: a clean-up
  whose own PUT fails leaves the message for the next start, and there need not be
  one.
- *Caps.* `CancelCap` is 1, so that the second cancellation evicts the first;
  `SilentAfterCancel` is about the ids that have not been evicted (`heard`), since
  the code forgets the others. `CleanupLimit`, the page of the clean-up, is 1, smaller
  than the number of messages: of one session, a second message in "processing"
  takes a failed request, which `ProcessingEnds` excuses. `MaxReplies` is 1.
- *Kanban.* Gap 8 and threshold 2 instead of 1000000 and 100: three insertions at
  one place use up a gap, so that renumbering happens well within five requests.
  Explicit positions 0 and 9 give a tie and a crowded pair. Three tasks give a
  moved one, its target and a bystander. In `MCKanbanClient` two tasks and two
  columns are enough for a task to move from a column not yet read to one already
  read, and two handlers for a load to overtake a drop.
- *Auth.* Three tokens let one chain rotate twice or two chains exist; two
  sessions let a barred refresh open one next to that of the login. `MaxAttempts`
  is 1, so that one wrong password locks the account.
- *Token clients.* Two scripts contend for the lock, the plugin takes the token
  file away from under them; two calls in a tab share one refresh, two tabs do
  not. Three calls let one machine and one browser both go through a login and a
  refresh; the fault is a kill, a slow holder, a failed request, an expiry or a
  revocation.
- *User administration.* Two requests overlap; with three accounts one is created
  while another with its address exists, is created or deleted.
- *Chat client.* A page of one message and a limit of one per minute make the
  second message of each kind meet the bound; two reloads in flight meet every event
  and each other. Three events let a message arrive, change and be lost on its way.
  The instance has no answers of the agent: the page gets them as it gets the user's
  own messages once these are stored, of which there are two.
- *Activity feed.* Pages of one activity and a feed cut to two: a page is under way
  while the feed is cut, and two posts cut both activities shown at the start. Four instants, two to a millisecond,
  give activities of one time, of one millisecond and of two. `FeedWholeHolds` covers
  what larger bounds would add.
- *Status.* Two days and two stamps give every order of reports, two loads every
  order of answers.
- *MCP server.* A buffer of two overflows with the third message; a limit of one
  drops the second send.
- *Symmetry* is used for slots, tokens, sessions and accounts in runs of
  invariants and action properties only; no run of a liveness property uses it.
  Which id is issued next is arbitrary, so that the sets are really symmetric.
- *Deadlock* is checked where the system always has a step (`MessageState`,
  `AuthTokens`, `ChatClient`). In the others all messages can be finished or all
  requests of the bound be used up.

### Fairness

`HubGateway!Fairness`: the event loop runs every handler that can run, the hub
answers requests (possibly with a failure), the agent ends every dispatch, and a
supervisor restarts a crashed gateway. Users owe nothing, and the agent need not
answer: `Deliver` is not fair. A dispatch that never returns would block its
session in the code as well, so that the assumption on the agent is needed.
`ChatBridge!Fairness`: a bridge that is up runs its handlers, and requests that do
not fail are answered.
`TokenClients!Fairness`: a process that is not killed goes on, requests are
answered (the answer may be a failure while faults last), and a lock file that
nobody removes grows old. Calls end because locks are released, or grow old and are
removed: a process that waits is never forced to give up, and `CallsEnd` does not
depend on it.
`ChatClient!FairSpec`: the socket reconnects, the hub's handlers run, and the
interval of 30 seconds makes a new reload in every slot that is free.
`StatusPanel!PanelFairSpec`: handlers emit, and the status is loaded again and again.
The feed has no fairness, because nothing loads it again. `McpServer!McpFairSpec`: timers
fire, requests end, and the hub handles what it was sent. In all of these users
and other clients owe nothing, and faults are never fair.

## 4. Proofs

TLAPS proves every invariant and every action property that the runs check, and
the four refinements, for every value of the constants that satisfies the
assumptions stated in the modules: `SessionAssumption` (the conversation is part of
the session key), `GapAssumption` (the threshold is at least 2 and at most the gap),
`ColumnAssumption` (the order names every column; the names of the slots are no
names of stages of the client), and `BoundAssumption`, `FaultAssumption`,
`AuthAssumption`, `UserAssumption`, `ProcessAssumption`, `ChatAssumption`,
`FeedAssumption`, `PanelAssumption`, `McpAssumption`, which say that bounds are
numbers and sets of messages and accounts are what their names say. `MessageState` needs none.

| Module | Theorems |
|---|---|
| `MessageStateProofs` | `TypeCorrect`, `OnlyOneClaim`, `RoomKnows`, `OnlyClaimedCancelled`, `Refinement` (of `ClaimRegister`) |
| `HubGatewayProofs` | `TypeCorrect`, `Serial`, `DoneMeansReplied`, `RepliedMeansDone`, `FinalStates`, `SilentHolds`, `QueuesServe` (refinement of `SerialWorker`) |
| `ChatBridgeProofs` | `TypeCorrect`, `NoDoubleHandOver`, `SkippedForAnother` |
| `AuthTokensProofs` | `TypeCorrect`, `ExchangedOnce`, `NeverSplit`, `LockHolds`, `Refinement` (of `TokenChains`) |
| `KanbanProofs` | of `KanbanOrder`: `TypeCorrect`, `HealsHolds`, `PlacedBesideHolds`, `ListsHold` (refinement of `TaskLists`); of `KanbanClient`: `BoardTypeCorrect`, `BoardTrueHolds` |
| `ClientProofs` | `ChatTypeCorrect`, `OnePlaceHolds`; `FeedTypeCorrect`, `FeedWholeHolds`; `PanelTypeCorrect`; `McpTypeCorrect`, `HeardOnceHolds` |
| `UserAdminProofs` | `TypeCorrect`, `AnAdminRemains`, `OnlyUseBlocks`, `PanelIsTrue` |
| `TokenClientsProofs` | `TypeCorrect`, `ExclusionHolds`, `NoReplayHolds`, `NotExpelledHolds` |

The type invariants of the first four and of `TokenClients`, and `ClaimedOnce`, `SerialSessions` and
`SingleUse`, are proved and no longer part of a run: the refinements that the runs
check contain them, or the proof says more than an instance could.

The arguments:

- *MessageState.* A handler that will answer claimed=true holds a message whose
  row is not unclaimed, nobody else holds it, and it has not been granted. The
  row never becomes unclaimed again, so the next claim finds nothing. The cancel
  check passes only for claimed messages, and by the same monotonicity the UPDATE
  that follows meets a claimed one, though perhaps not an active one.
- *HubGateway.* The queues contain exactly the messages that are queued or in
  service, each once and in the queue of its session; whoever is in service is at
  the head. `SerialSessions` and the refinement follow from heads being unique.
  That terminal states are final rests on three facts: an unfinished message has
  no "done" or "failed" row; what the clean-up has listed has no handler; and the
  socket connects only when the list is empty. `SilentAfterCancel` needs that a
  message the gateway was told of is in `cancelledMessageIds` from its claim to the
  end of its dispatch (`SilentInv`): a deletion takes one id and an addition evicts
  one (`WithoutKeeps`, `AddKeeps`). A crash empties the set, and is harmless because
  it ends all handlers and a message the hub has is not sent to the socket again;
  for this the hub must have every message it announces (`HintInv`).
- *ChatBridge.* A bridge in "forwarding" is the only owner of its message, and the
  message has a state and was not handed over. Without the strengthening
  `HandedAtMostOnce` is not inductive: nothing would tell a second owner from the
  first.
- *AuthTokens.* Besides types: a token that was exchanged is dead; a handler that
  is rotating holds a token that is dead and no other handler rotates for the same
  chain; a chain starts with the token of its login. Every step either gives a
  token (`IssueToken`, `Refresh`, `Rotate`) or only lets tokens lapse, and the
  proof of the invariant and of the refinement has these cases. The lock has an
  invariant of its own: a slot marked as barred implies that the lock is on.
- *KanbanOrder.* One fact about numbers: a renumbering puts a task that precedes
  another at least `Gap` before it (`RenumberSpreads`, by cardinalities). With it
  `Heals` needs only that a slot that renumbers alone holds the renumbering of the
  column as it is (`AloneInv`). `PlacedBeside` needs `Calm`: while requests come one
  at a time, a column without bare positions is apart unless the request in flight
  is about to check it, the position in a request is the one it would compute now,
  and from the UPDATE on the task stands beside its target. The step of the UPDATE
  is the midpoint: between positions at least 2 apart it lies strictly between
  (`MidpointIs`), which is what `2 <= Threshold` is for.
- *TaskLists.* Counting the tasks before each one enumerates a column, so the list
  shown has the tasks of the column, each once, and one stands above another
  exactly if its position is smaller, or equal with a smaller id (`ShownIs`,
  `AsListIs`). What the abstract lists see of a step is then a matter of positions
  (`Displaces`): every statement but the renumbering changes one task, the
  renumbering keeps the order (`RenumberSpreads`, and `AloneInv` and `Calm` for the
  plan being that of the column as it is), and the task that moves is the one the
  only busy slot names (`NamedInv`).
- *KanbanClient.* `BoardInv` says what one handler tells about screen and server,
  as long as it is the only one (`Followed`): before the UPDATE of a drop the screen
  is what the server is going to have (`Ahead`), afterwards, and with a dialog
  before it, the screen and the server agree (`Right`). A load that met nobody has
  read, in every column it got so far, what the server shows (`Fresh`). Without
  them `BoardTrue` speaks of quiet moments only and is not inductive. Filters are
  defined by the ranks of the elements they keep (`Kept`, `Nth`), which can be
  reasoned about by counting.
- *UserAdmin.* From a request that is let in alone until two that may take an
  administrator away overlap there is at most one of these, its sender is an
  administrator and it is about somebody else, so that the sender remains. A request
  between `ClearLogs` and `Remove` whose user is logged is touched. For the panel: a
  list on its way that is still `fresh` is the table, and while the panel is not
  astray all requests but one are idle, and the one is the viewer's, who loads the
  list again after every change.
- *TokenClients.* Four invariants, each of which rests on the one before. The lock,
  while it was not broken, is that of the script inside; who goes to remove its
  file is alone in it, and the file is that of a killed process. No pair is at home
  both in the browser and on the machine, since both only get pairs that were just
  issued. What a script carries is unspent, and the file holds a spent token only
  while the script that spent it is on its way to it. While tabs refresh one at a
  time and none fails, a posted token is live, the pair on its way back is accepted
  and not that of the cookie (so the cookie's expiry does not touch it), and an
  open app has a cookie that is live or about to be replaced.

- *ChatClient.* `OnePlace` is an account of where each message is and nearly
  inductive; it needs that the wire is empty without a link (`OneLink`), as otherwise
  a reconnection would lose what is on it unaccounted.
- *ActivityFeed.* While the feed has not slipped, at most the newest activity is
  about to be announced, and nothing stored is newer (`FeedInv`). The feed, and a
  page on its way behind it, are sorted and cover what lies above their last entry
  but for rows of a millisecond that a page ended in. Rows between the time of an
  activity and its cut time are of its millisecond (`CutAgain`), so a page fits below;
  an announcement fits above; the cut to `Kept` takes from the end.
- *McpServer.* The buffer counts up to the last message received, and everything
  before it was returned, in rising order, or dropped (`Heard`).

Left to TLC: liveness (`QueueDrains`, `ProcessingEnds`, `EventuallyHanded`,
`CallsEnd`, `Arrives`, `PageSettles`, `PanelRunSettles`, `SendsEnd`), which TLAPS
cannot prove under fairness, and `QueuedCancelSkipped` and `FeedComplete`, which do
not hold.

## 5. Not modelled, and the plan

Next, in this order:

1. *Gateway and bridge on one hub*, with the theorem that a message claimed by one
   of them is handed over at most once by bridges, and what the gateway does next
   to them.
2. *The hub of the token clients.* `HubTokens` is written as what clients see of
   `AuthTokens`; that `AuthTokens` implements it is not stated yet.
3. *A gateway stopped and started in one process*, and several sessions with more
   stale rows than a page of the clean-up has.

Not modelled: reaction events at the gateway and the plugin's outbound calls
(single requests with one retry), the environment-variable fallback of the login
with its in-memory sessions, the history dialog of the model usage with its
queries by date, sums and cost buckets, the tools of the MCP server that forward
one request, the rate-limit library. None of these has state that another
operation of the system races with.

Out of scope: configuration, logging, migrations of the schema other than the
renumbering function, the service worker, page layout and styles, audio and voice
input, generated `dist/` code.
