# Synchronisation and shared sessions, in TLA+

This directory models the parts of the application that promise something across
time and machines. The sync queue keeps a user's cloud objects (notebooks,
workflows, folders, preferences, environment variables, ...) in step with the
server while edits go on offline, requests fail and are retried, and the user
logs out and in again; a loop polls the server for the objects that others
changed; each object lives at once in memory, in the queue, in a database and on
the server, and survives a crash. A second queue runs tasks one at a time on
background threads: embeddings of a codebase, diffs of changed files. A terminal
session is shared with viewers over a server, across reconnects. Paths below are
relative to the root of the repository.

## The system

The repository is a terminal with a cloud drive and agents: about a million
lines, most of them user interface, terminal emulation and conversions. The
state machines that carry promises across time are few. They are:

| part | state | operations | what can go wrong |
|---|---|---|---|
| sync queue, `app/src/server/sync_queue.rs` | queue, dependencies, `waiting_response`, id maps, `should_dequeue`, the requests it spawned | `enqueue`, `dequeue`, `start_dequeueing`, `stop_dequeueing`, `clear`, the callbacks of every kind of request | order of edits, lost or doubled items, items that wait for ever, stale revisions, unresolved ids |
| update manager, `app/src/server/cloud_objects/update_manager.rs` | poller, in-flight requests | edits by the user, handlers of the queue's events, poll answers, real-time updates | event counted twice, resync racing a retry, an old revision overwriting a newer one |
| cloud model, `app/src/cloud_object/`, `crates/cloud_objects/` | objects: content, revision, in-flight counter, conflict, folder | updates from queue, poll and listener | counter out of step with the requests, conflict kept or cleared wrongly |
| object poller (in update manager) | flag, two abort handles, initial-load condition, the futures it spawned | start, stop, poll, retry, out-of-band refresh | two loops at once, no loop at all, answers to the previous user, dequeueing offline |
| real-time listener, `listener.rs` | subscription, retries | connect, message, reconnect | gap between poll and subscription |
| SQLite, `app/src/persistence/` | rows, pending flags | one writer thread applies events in order | crash between an answer and the row that records it |
| startup and logout, `app/src/lib.rs`, `app/src/auth/mod.rs` | - | queue from rows; clear everything | callbacks of the previous login |
| retries, `crates/warpui_core/src/core/model/context.rs` | attempts of a request | attempt, retry, give up | an effect that happens twice |
| generic task queue, `crates/warp_core/src/sync_queue.rs` | map of tasks, channel of their ids, handle of the active task, rate limiter | `enqueue`, `enqueue_with_result`, `cancel_all`, the loop of `process_queue` | a cancellation that hits the wrong task or misses one, a receiver that waits for ever, order and limits under retries |
| undo-close stack, `app/src/undo_close/stack.rs` | closed items with timers | push, pop, expire | expiry racing a reopen |
| sharer of a terminal session, `app/src/terminal/shared_session/sharer/network.rs` | stage, startup attempts, websocket and its proxy channel, events not yet acknowledged, batch of PTY reads, bytes shared | create, connect, resend, acknowledge, reconnect, end | late answers and ends of old sockets, holes and repetitions after a reconnect, a session that hangs or comes back |
| viewer of it, `viewer/event_loop.rs` | next event, buffer | an event arrives | out of order, twice |
| agent events, tool calls, remote server | sequence numbers, pending calls, request maps | connect, answer, cancel | reconnects, late answers |

UpdateManager calls `SyncQueue::enqueue`, `start_dequeueing` and
`stop_dequeueing` directly; the queue answers with events that UpdateManager
handles next, on the same thread, before anything else runs. The queue sends
its requests with `spawn_with_retry_on_error_when`; their callbacks run on the
main thread in any order. CloudModel is a singleton that both UpdateManager and
the views change. Everything on the main thread is one handler at a time
(`WARP.md`, `crates/warpui_core`), so the concurrency is between handlers and
requests, other clients, the network state and logout. The generic task queue is
the exception: its processor is a future on the thread pool, and callers of
`enqueue` and `cancel_all` run beside it, each lock held for one statement. SQLite
is written by a thread of its own, fed by a bounded channel. A sharer and its
viewers are different machines that meet only on the session server.

Everything that is hard to test here is listed in `PROJECT.json` under
`hazards`, each at its line.

## Modules

| module | what it is |
|---|---|
| `SyncQueue` | the queue, its requests and retries, the server and other clients as its environment, startup and logout; properties; the mutated definitions the properties are tested against |
| `MCSyncQueue` | names for the instances of the runs |
| `SyncQueueProofs` | what each operator does to each field of the queue; type correctness |
| `SyncQueueSerialProofs` | updates of one object stay serial and in order |
| `SyncQueueSafetyProofs` | nothing is stranded, answered twice, created twice, lost or waited for in vain, the client does not conflict with itself, and references are resolved before they are sent |
| `TaskService` | what users of the task queue may rely on (abstract) |
| `TaskQueue` | the task queue, its callers, cancellers and processor; properties and mutated definitions |
| `MCTaskQueue` | names and symmetry of the instances |
| `TaskQueueProofs` | types, order and cancellation of the task queue, and that it implements `TaskService` |
| `ObjectPoller` | the poll loop, its futures and handles, the network, logins; properties and mutated definitions |
| `ObjectPollerProofs` | types and loops, for all bounds |
| `ObjectSync` | one object in memory, queue, database and on the server, with everything that changes it |
| `ObjectSyncProofs` | types, counter, content at rest, edits kept, no blind overwrite: all its safety, for all bounds |
| `OrderedLog` | what sharing a session promises a viewer (abstract) |
| `SharedSession` | the sharer's connection, the session server, a viewer |
| `SharedSessionProofs` | its safety over sessions of any length |
| `SharedSessionSafetyProofs` | its types, and that the loss of a connection is found out |

### SyncQueue

A handler is one action. The functions a handler calls are operators from a
queue state to a queue state (`Enqueue`, `Dequeue`, `Fail`, `Satisfy`,
`NewRevision`, `ReplaceReferences`), composed in the order of the code; the
record `sq` holds the fields of `SyncQueue` and, in `net`, the futures it
spawned. An object has the two ids of `SyncId`, `<<"client", o>>` and
`<<"server", o>>`; `mapped` stands for the two maps between them.

| action | code |
|---|---|
| `CreateObject`, `BulkCreate`, `UpdateObject`, `RecordObjectAction` | the functions of UpdateManager with these names, up to `enqueue` and the dequeue it ends with |
| `StartDequeueing`, `StopDequeueing`, `Clear` | the functions of SyncQueue, called after a poll, when offline, at logout |
| `ServerCreates`, `ServerRefuses`, `ServerUpdates`, `ServerRecords`, `OtherClientUpdates` | the server and other clients (external) |
| `CreationSucceeds`, `CreationDenied`, `CreationConflicts`, `UpdateSucceeds`, `UpdateRejected`, `ActionRecorded` | the callbacks on success |
| `RetryRequest`, `RequestFailed` | an attempt fails and is retried; the last one fails |
| `LearnRevision` | CloudModel takes a newer revision from a poll or the listener |

`Dependents` is the transitive closure that `handle_dependency_failure`
computes by recursion. `Dequeue(s, n)` stands for n calls of `dequeue` in a row
(n is 1 but after a bulk creation, whose callback dequeues once per object).

Abstractions, and why they are harmless for the properties:

* One dependency per queue item. The code keeps one per object of a bulk item,
  but they are all released in the callback that answers the item.
* The dequeues of a bulk creation come after all its objects have been
  handled. Each object releases at most the items that wait for it, and what
  can be sent is sent by the last call if not by an earlier one.
* References at startup are to objects that have rows of their own. A dangling
  reference is reached through a failed creation.
* The code stops replacing references at the first unknown one; the model
  replaces all that are known. Such an item is in `orphaned` either way.
* `LearnRevision` delivers only the current revision and only when nothing of
  the object is pending. Out-of-order delivery is in `ObjectSync`.
* Content, toasts, telemetry and SQLite writes are left out (the contents and the
  database of one object are in `ObjectSync`).

An object can be edited, referenced or created again while CloudModel holds it
(`Local`): it has a server id, or it was created in this login, that is, by an item
not before `fence`. At logout CloudModel is reset (`auth/mod.rs:236`), and the next
login loads again what the server has.

Observers (they influence nothing): `told`, `again`, `orphaned`, `stalled` in
`sq`; `excused`.

### TaskQueue and TaskService

`TaskQueue` models `crates/warp_core/src/sync_queue.rs` at the grain of its
locks: an action is what one thread does between two accesses to something
another thread sees (`task_map`, the channel, `active_task_handle`, the flag of
an `AbortHandle`).

| action | code |
|---|---|
| `Insert`, `Send` | `enqueue`, `enqueue_with_result`: the map, then the channel; `Send` takes the task back when the receiver is gone |
| `CancelActive`, `CancelPending` | `cancel_all`: abort through the handle, then empty the map |
| `Receive`, `StoreHandle`, `ClearHandle`, `Deliver` | the loop of `process_queue` |
| `Poll`, `Suspend` | `Abortable`: it looks at the flag before a poll of the task and after one that returned Pending |
| `TakeToken` | `wait_for_token` |
| `StartAttempt`, `AttemptSucceeds`, `AttemptFails`, `EndBackoff` | `retry_with_backoff` around `task.run()` |
| `Refill`, `Read`, `Stop` | time, a subscriber of the stream, the executor that drops the processor or a task that panics |

`TaskService` says what remains when threads, locks, tokens and retries are
forgotten: a task is pending, running, answered or cancelled; one task runs at a
time; only a doomed task is cancelled while it runs; `cancel_all` catches all the
pending tasks in one step. `Phase` is the refinement mapping: a task in
`task_map` is pending, the one the processor holds is running, the rest is what
its receiver saw.

Abstractions: the limiter counts whole tokens and time is `Refill`, so rates are
not modelled, only that a task waits for one token however often it is retried.
The broadcast channel is external: it refuses a message when nobody listens or
the slowest listener is `Capacity` behind. `has_queued_task` reads the map.
Dropping a receiver has no effect on a task. Both modes of the queue are one
module: `Subscribers = {}` is the per-task mode.

Observers: `ahead`, `seen`, `revoked`.

### ObjectPoller

| action | code |
|---|---|
| `RequestSucceeded`, `RequestFailed` | the callback of `poll_for_updated_objects` and of `refresh_updated_objects`, within `spawn_with_retry_on_error_when` |
| `Retry`, `PollAgain` | the callbacks of the two timers |
| `RefreshUpdatedObjects`, `InitiateDataPollers` | refresh out of band; with a start, when a team is joined |
| `GoOnline`, `GoOffline` | `handle_network_status_changed` |
| `LogIn`, `UserRefreshed`, `LogOut`, `AuthorizeDevice` | what `on_user_fetched`, `log_out` and `authorize_device` do to the poller |
| `Elapse`, `Answer`, `Fail` | futures resolve in the background (external) |

`Poll`, `Start`, `Stop`, `Continue` and `Surviving` are the functions that those
handlers call. A future is a record in `futures`; it is running until it
resolves, and resolved until its callback runs. `abort` works on a running one
only (`Abortable` has nothing to do once the inner future is ready), and each of
the two handles is the identity of a future. Every later attempt of a request is
a new future that no handle knows, as in the code. `SyncQueue` appears as its
flag `dequeueing`: `PolledAgainAndAgain` is what the run `live` of `SyncQueue`
assumes of its environment.

Abstractions: what an answer says of the objects, `force_refresh`, and the
lengths of timers. A request is made with the credentials of the moment its
future is spawned. The network status does not decide whether a request
succeeds: it is what the system reports. A login is a number, so that a second
login may be of another account. `TeamUpdateManager` polls workspaces with a copy
of this loop, without the sync queue and the initial load.

Observers: `fetched`, `missed`; `spent` counts what the bounds allow.

### ObjectSync

`SyncQueue` follows many items through one queue; `ObjectSync` follows one object
through all the places it is kept. It takes from `SyncQueue` what `UpdatesSerial`
proves: the updates of an object go out one at a time, in order. So `queue` holds
only the updates of this object that wait, and `net` the one that is out.

| variable | code |
|---|---|
| `mem` | the object in CloudModel: content, revision, `CloudObjectSyncStatus` with its in-flight counter, revision of the conflicting object |
| `disk`, `channel` | its row in SQLite; the events sent to the writer thread |
| `queue`, `net`, `loaded` | its updates in SyncQueue; whether a poll has started the dequeueing |
| `history`, `rtc`, `poll`, `fetch` | the server (external); real-time messages, poll and fetch under way |

| action | code |
|---|---|
| `UpdateObject`, `ResyncObject` | the functions of UpdateManager |
| `UpdateSuccessful`, `UpdateRejected`, `UpdateFailed` | the handlers of the queue's events, with the dequeue that goes before them |
| `ReceiveMessage` | `handle_cloud_object_changed_event` |
| `StartPoll`, `PollAnswered` | `poll_for_updated_objects`, `update_objects_from_initial_load`, and the rows it saves |
| `RevertToServer`, `FetchAnswered`, `ResolveConflict` | `revert_failed_object`, `fetch_single_cloud_object`, `replace_object_with_conflict` |
| `Write` | the writer thread: `upsert_cloud_object`, `mark_object_as_synced` |
| `Restart` | exit or crash, and the start from the rows |
| `ServerAccepts`, `ServerRejects`, `RequestFails`, `OtherClientUpdates`, `LoseMessage` | the server, other clients, the network (external) |

`kind` is what `handle_conflicting_object` does for the object's type: notebooks
mark the conflict, workflows and environment variables are overwritten, rules,
MCP servers and preferences ignore it. A content is a number that no other version
has, so a property can say which version a place holds.

Abstractions: a request that is out when the app stops is not applied by the
server afterwards, nor is one whose retry is already out (the server answers a
retry after what it did with the attempt before). `queue` never stops once a poll
has started it; going offline only delays it, which `SyncQueue` covers. The writer
applies events one by one: it takes them in batches, but `deduplicate_events`
drops only old snapshots of windows. `update_object_online`, metadata by
timestamp, trash and permissions are left out; so is the exception for folders,
which have no content to conflict. The channel has room for 1024 events
(`sqlite.rs:118`), `ChannelSize` here.

Observers: `mine` is the last edit whose outcome the user has not been told; `saw`
says for each content which edit of another client it was made on top of. Two
observers record what the code does and the properties cannot excuse otherwise:
`overtaken`, the object was reset while updates of it were outstanding (a refused
workflow with later edits queued, or a revert while a retry is out), and
`forgotten`, the row of an object in conflict was saved as not pending. Both are
shown by runs of their own (`saved_twice`, `conflict_not_pending`).

### SharedSession and OrderedLog

`OrderedLog` is the promise: the screen of a viewer is made of what the terminal
produced, in order, without a hole, nothing twice, and may be behind by any
amount. `SharedSession` implements it with `screen` as what the viewer has shown.

The record `net` is the sharer's `Network` with its timers, futures and sockets.
The functions that handlers call are operators on it (`Send`, `Close`, `Publish`,
`Flush`, `HandleStartupFailure`, `ReconnectWebsocket`, ...), so that a handler
calls another as the code does. A socket is a record: the attempt that owns it,
whether the sending half of its proxy channel is open, whether it is alive, and
the messages under way up and down.

| action | code |
|---|---|
| `PtyBytesRead`, `OtherEvent`, `BatchTimer` | `start_ordered_terminal_events_listener` and its timer |
| `StartupConnects`, `StartupConnectFails`, `StartupTimeout` | the callbacks of `start_create_session_attempt` |
| `HeartbeatIdle` | `handle_heartbeat_event` |
| `ReconnectConnects`, `ReconnectTryFails`, `ReconnectGivesUp`, `AbortedReconnectEnds` | the callback of `reconnect_websocket`, within `spawn_with_retry_on_error` and `spawn_abortable` |
| `SessionInitialized`, `FailedToInitialize`, `SessionReconnected`, `SessionOver`, `EventsProcessedAck` | `process_websocket_message` |
| `WebsocketError`, `WebsocketClosed`, `IgnoredMessage` | the other callbacks of `on_websocket_connected` |
| `StopSharing` | `end_shared_session` of the terminal manager |
| `Server...`, `Disconnect`, `ServerRestarts` | the session server and the network (external) |
| `ViewerJoins`, `ViewerReceives` | `EventLoop::new`, `process_ordered_terminal_event` |

`Dropped` is a stage the code has not: the terminal manager has dropped the
`Network`, after which no callback of it runs. Three states of a reconnect matter:
`first`, the try that the handle in the stage aborts; `loose`, a later try or one
whose stage is gone, which nothing aborts; `cut`, aborted but perhaps after it had
completed, so that its callback may still run (`Abortable` has nothing to do once
the future is ready).

Abstractions: the items a terminal produces are numbers, sizes count items, and
the 18 retries of a reconnect become "a later try may be the last". A failure to
send Initialize is an `Error` of the socket. Prompts, selections and roles, of
which only the latest value is sent, are left out, as is the filter for in-band
commands. The session server is not in the repository: here it reads whatever
open socket it likes, acknowledges only what it keeps for good, forgets some of
the rest when it restarts, answers a reconnect with the last event it has, and
hands viewers the events in any order and more than once. It is assumed to read
nothing more of a sharer's old connections once it has answered that sharer on a
newer one (`server.conn`). The code needs this: `flush_terminal_events_to_server`
starts after the last event the answer names and stops at the first that is no
longer stored, so an event or an acknowledgement the old connection delivers
later could end the flush early and leave a hole. A viewer's own
connection (`viewer/network.rs`) is not modelled.

## Runs

| run | instance | shows |
|---|---|---|
| `edits` | a workflow on the server and a new enum it references, two rows in SQLite in either order, another client, two lost attempts, a retry, a final failure, a logout | `TypeOK`, `UpdatesAreSerial`, `ConflictsHaveACause`, `CreationsAreUnique`, `NoCyclicWait`, `AnsweredOnce` |
| `references` | a workflow and its enum, actions on it, preferences in bulk; denials, conflicts, two lost attempts, a retry | `DependenciesAreLive`, `NothingIsStranded`, `ClientIdsSentOnlyIfDenied`, `NothingVanishes` |
| `live` | fair server, fair callbacks, poller | `EverythingIsAnswered` |
| `task_queue` | two tasks, a canceller, a subscriber with a buffer of one, one token, one retry, the processor may be dropped; fair threads | `TypeOK`, `HandleIsCurrent`, `AtMostOneSurvivor`, `FirstInFirstOut`, `NoTaskIsStranded`, `Implements`, `EveryTaskEnds` |
| `object_poller` | two logins, one loss of the network, two failures, one refresh, one retry, of which three happen; fair executors | `TypeOK`, `FlagMeansLoop`, `PollsWhileOnline`, `OneLoopUnlessMissed`, `PolledAgainAndAgain`, `InitialLoadCompletes`, `StoppedLoopsEnd` |
| `object_sync` | two edits against one of another client, a restart, two losses, a channel of one, every kind | `TypeOK`, `CountsOutstanding`, `RestIsServers`, `NothingIsForgotten`, `NoBlindOverwrite` |
| `object_sync_live` | the same with one loss, a channel of one, fair threads and server | `Converges`, `EditsAreAnswered` |
| `shared_session` | two startup attempts, two items, three sockets, two failures | `TypeOK`, `ServerHasAPrefix`, `KeptUntilAcked`, `SessionIsOfTheWinner`, `LossIsNoticed`, `FinishedIsFinal`, `ShowsTheTerminal` (the refinement), `ViewerCatchesUp` |
| `skipped_creation`, `saved_twice`, `conflict_not_pending`, `reconnect_hangs` | one counterexample each | the findings below |

Bounds of `SyncQueue`: items ever enqueued, rows at startup, revisions written by others,
retries, logouts, lost attempts. Three items over one to four objects
are enough for every pair of interacting operations and one more that observes
the outcome; one retry distinguishes a first, a repeated and a last attempt; a
second logout meets nothing the first does not. What is proved (below) holds for
every value of these bounds. In `edits` the row of the workflow may stand before that
of the enum it waits for, and its update finds itself in the queue; two lost attempts
and one retry make a last attempt fail, before, after or across the logout. The
two preferences of `references` are symmetric; no other symmetry is used.

Bounds of `TaskQueue`: a task is enqueued once, so the state space is finite
without further bounds; a canceller may cancel again and again. Two tasks are one
that runs and one that is pending or being enqueued; the canceller may stop between
its two steps while everything else goes on (cancellers that interleave with each
other are in the theorems, which hold for any number); a buffer of one is full as soon as a subscriber lags. The mode
without subscribers differs only in how an answer is delivered, and the receiver
of each task is there in both. No symmetry, since the run checks liveness.

Bounds of `ObjectPoller`: logins, losses of the network, failures, refreshes, and
`MaxEvents` of them together. Each loss or logout can leave one loop behind that
the next start does not see; one is enough for two loops, and two failures exhaust
the one retry. Futures outstanding at a time are bounded by what is never reached:
there is always an identity left. `CHECK_DEADLOCK FALSE`: with nobody logged in and
nothing outstanding the poller is at rest.

Bounds of `ObjectSync`: edits of the user and of others, restarts, losses. Two
edits are one that is out and one that waits; one edit of another client makes the
revision of both stale; two losses are a retry and the end of retries; a channel
of one blocks a handler that saves twice. (Safety has also been checked with a
channel of two, in which an upsert and a MarkObjectAsSynced wait for the writer
together; that takes four times as long.) What these bounds leave out does not
matter to safety: all of it is proved for every value of them.

Bounds of `SharedSession`: a socket for the startup attempt that loses, one that
wins and one reconnect, or one startup and two reconnects; two items are a batch
or two events, of which the size limit of two counts in the scrollback; two faults
are a loss and whatever goes wrong while it is repaired. When the sockets are used
up and something would connect (`Exhausted`), `ViewerCatchesUp` asks nothing.
The other bounds do not matter to safety: `TypeOK`, `ServerHasAPrefix`,
`KeptUntilAcked`, `SessionIsOfTheWinner`, `LossIsNoticed` and `FinishedIsFinal` are
proved for all of them.
`CHECK_DEADLOCK FALSE`: a session that is over is at rest.

Fairness (`live`): the server answers every request, the executor runs the
callback of every answer, and `StartDequeueing` happens again and again, since
`update_manager.rs` calls it after every poll and the poller reschedules itself
while the app is online (`PolledAgainAndAgain` of `ObjectPoller`). Nothing is
assumed of the user, of other clients or of
losses, which are bounded. Without the poller a persistent error would leave
the queue idle (`maybe_dequeue_on_error`): that is by design, and why
`NothingIsStranded` excludes `stalled`.

Fairness (`task_queue`): the thread pool runs whatever can go on (weak
fairness of each step of the processor, of a caller and of a canceller that has
begun), and time passes. A token, the end of a backoff and the end of an attempt
each become ready while the future is suspended and are seen at its next poll,
which other polls may precede: hence strong fairness for those three. An attempt
that never ends would stop the queue; `run` has no timeout of its own, so that
is an assumption on the tasks. Nobody has to enqueue or to cancel.

Fairness (`object_poller`): callbacks that are ready run, timers elapse, the
server answers (weak fairness of each, per future). Failures, logins and changes
of the network are bounded and never required.

Fairness (`object_sync_live`): the writer thread goes on, the server answers,
polls start and are answered (weak fairness of each). The handlers of the queue's
answers have strong fairness: one of them waits whenever the channel of the writer
is full, which others may fill again and again, and the bounded channel of the
code lets a blocked sender in eventually. Messages may all be lost, and the user
need not do anything.

Fairness (`shared_session`): weak fairness of one action, `Progress`: as long as
something is due - a callback, a connection, a message the server reads, an event
the viewer lacks - something of it happens. Acknowledgements are not in it, nor is
anything that fails. It is the weakest assumption that the executor and the server
go on at all, and enough because everything due is bounded.

### What the runs found

* `skipped_creation`: `create_object` enters an item in `waiting_response`
  before it finds that the folder has no server id, and leaves it there. Later
  updates of the object depend on an item that is neither queued nor in flight.
* `saved_twice`: `handle_conflicting_object` overwrites a workflow in memory with
  the server's content although a later edit of it is queued. When that edit is
  accepted, memory takes its revision and keeps the overwritten content, under
  `NoLocalChanges`; polls compare revisions and never repair it.
* `conflict_not_pending`: an object `InConflict` counts as not pending, so the
  next message or poll answer saves its row as not pending, against "we don't
  want to clear the pending status in the database" (`update_manager.rs:1727`).
  After a restart the edit is taken for the server's and overwritten.
* `reconnect_hangs`: the websocket of a reconnect that ends before
  `SessionReconnected` leaves the sharer in `Reconnecting`, where its end only
  closes it, the heartbeat's idle event is ignored and `reconnect_websocket`
  returns at once: nothing "is trying to reconnect" (`sharer/network.rs:118`).
  The other way there: an idle heartbeat starts a reconnect and leaves the old
  socket, whose end then aborts that reconnect.

Behaviours that the models have, as the code, and that shape a property instead of
a run:

* A denied creation releases its dependents as if it had succeeded, so a workflow
  is sent with a ClientId in it, against "We should never dequeue a Workflow that
  references ClientIds rather than ServerIds" (`sync_queue.rs:477`). There is one
  other way: a workflow whose reference is unknown is announced as failed and sent
  all the same. `ClientIdsSentOnlyIfDenied` says that there is no third.
* Such a workflow may be created again while its first creation, announced to have
  failed, is under way. The later of the two answers then brings the revision of
  the object as it was created, which replaces a newer one in a queued update: the
  client conflicts with itself. `ConflictsHaveACause` leaves these objects out.
* Between the removal of a task from `task_map` and the store of its handle
  `cancel_all` finds the task in neither place, so it runs to its end; the comment
  of `cancel_all` says "Cancel all pending and in-flight tasks."
  `AtMostOneSurvivor` states what remains true.
* The handle that the poller keeps is of the first attempt. A retry outlives a
  loss of the network and polls beside the loop that the reconnection starts,
  against "so we don't end up with multiple polls running simultaneously"
  (`update_manager.rs:711`). `OneLoopUnlessMissed` states what remains true.
* A refused update of a kind that `handle_conflicting_object` ignores decrements
  nothing: the object stays `InFlight` with nothing queued, against
  `crates/cloud_objects/src/cloud_object/mod.rs:435`. `CountsOutstanding` and
  `EditsAreAnswered` leave these kinds out.
* An answer that is ready when the network goes turns dequeueing on again; an
  answer to the previous user ends the wait for the initial load of the next; a
  login while the poller runs begins that wait anew but no request
  (`InitialLoadCompletes` says that it ends).
* A session that the size limit ends while it reconnects is Finished, yet a later
  try of the reconnect is not aborted and opens a socket for it, against "set the
  stage to Finished to ensure we don't try to reconnect" (`sharer/network.rs:480`).
  `FinishedIsFinal` says that nothing comes of it. Nor are its viewers told: a
  message is sent in `StartedSuccessfully` only.

## Proofs

From `ObjectsAssumption` and `BoundsAssumption` only, for all objects, queues
and bounds:

* `TypeCorrect`: `Spec => []TypeOK`. The invariant is `TypeInv`: `Sound(sq, next)`
  adds to the types that no item is queued and in flight and that all ids are
  below `next` (without it a new item might collide with one in flight). One
  `...Fields` lemma per operator says what it changes, one `...Sound` lemma that
  it keeps `Sound`, one lemma per action composes them.
* `UpdatesSerial`: `Spec => []UpdatesAreSerial`. A new update is ordered behind
  the earlier ones only if it finds them, by whichever id either was enqueued
  under. The strengthening `Serial` therefore adds where in-flight updates are
  entered (`Entries`), how queued updates name their object in relation to what
  UpdateManager knows (`Naming`), and that the queue maps only ids UpdateManager
  knows. `EarlierUpdateFound` is the heart; `Keeps` gathers the operators that
  only forget; `DequeueSerial` and `CreationSucceedsSerial` are the two steps
  where the conjuncts depend on each other.

`SyncQueueSafetyProofs` rests on one observation: enqueueing apart, whatever a
handler does, the queue `Recedes`. No item appears, none gains a dependency, an
item keeps its kind and its objects and loses references at most. `StepsOfTheQueue`
shows that every step is one of five kinds: an enqueue, a logout, a quiet step, a
dequeue, or the callback of a request, which `Settles` it (what waited for it is
released, or fails with everything that depends on it) and dequeues. What is left
is one lemma per kind and property. The invariant `HealthyInv` adds to `TypeInv`:

* `Healthy`: what has been told of is neither queued nor in flight (`Once`), every
  id in the bookkeeping is of an item that was enqueued, and no set of queued items
  is without one that waits for none of them (`Acyclic`). A new item is in no older
  one's dependencies; at startup, where an item may wait for a later one, a workflow
  waits for creations that wait for nothing (`StartDependencies`).
* `Single`: an item that creates an object is among `made` of each of its objects,
  of which at most one is live and not orphaned.
* `Pursued`: after every dequeue an item was sent or nothing is ready
  (`SomethingTaken`: the least sendable item has none before it).

From it follow:

* `NothingStranded`: `Spec => []NothingIsStranded`.
* `AnswersOnce`: `Spec => []AnsweredOnce`.
* `NoCycle`: `Spec => []NoCyclicWait`.
* `CreationsUnique`: `Spec => []CreationsAreUnique`.

Two properties are false when an object is created in a folder whose own creation
is unanswered (`skipped_creation`). They are proved on the condition that this does
not happen, `FoldersExist`, which the instances of `edits` and `references` meet:

* `DependenciesLive`: `FoldersExist => (Spec => []DependenciesAreLive)`.
* `NoneVanishes`: `FoldersExist => (Spec => NothingVanishes)`.

The invariant adds `Complete`: a queued creation names only folders that have
server ids, so a dequeue never skips one (`SkippedIsNoCreation`), so what is entered
in `waiting_response` is in flight.

The next theorem relates the queue to the server and to the revisions the client
knows:

* `NoConflictWithItself`: `Spec => []ConflictsHaveACause`.

An object is innocent (`Innocents`) until something happens that the property names
as a cause. The invariant `CauseInv` joins `SerialInv` and `HealthyInv`, since a
revision stays right only because one update at a time is under way (`AloneInFlight`)
and one creation; it adds that a request gets an answer of its own kind (`Matched`),
that what is under way was made in this login or is excused (`Traced`), and for each
innocent object `Clean`: a request in flight carries the server's revision or none
(`Fits`), and the next update will too (`UpToDate`), or an answer that brings the
newer one is under way and its callback will revise what is queued. Before the object
has a server id no update of it carries a revision, and after that none of its
creations is under way. Most steps revise nothing for an object (`CleanKept`,
`Mild`); `UpdatedClean` and `CreatedClean` are the two that do, `ServerClean` the one
where the revision changes.

The last one follows the references of a workflow:

* `ReferencesResolved`: `Spec => []ClientIdsSentOnlyIfDenied`.

What is sent names nothing by its ClientId (`SentResolved`) because a workflow that
is queued waits for the creation of what it references (`WorkflowsWait`), which
replaces the reference by the ServerId, or fails the workflow, or was denied. But a
workflow may also be enqueued while only an update of the referenced object is
queued, and wait for that: its creation was answered, or has failed. So the
invariant `ReferencesInv` says the same of updates under a ClientId (`EditsWait`),
and, as the creation may have failed and be made again behind such an update, that
an update that waits for no creation is `Hopeless`: it is before any later creation,
so it is taken while its object has no ServerId, fails, and takes along what waits
for it. `Findable` makes the search of `Enqueue` find the right item: an object's
creations follow each other, the open one is in the queue's map of creators, and
what waits for its ClientId is that one in flight. All this is about one login. A
logout empties the queue and leaves requests in flight whose answers still come;
that none of them can mislead the next login rests on `Local`.

For `TaskQueue`, from `TasksAssumption` and `NumbersAssumption`, for all tasks,
cancellers, subscribers and limits (`TaskQueueProofs`): `Inv` is inductive. It
adds to `TypeOK` that the processor holds a task exactly while it is between
taking and delivering one (`Holding`), that an open task is in the map or held
(`Owned`), that a held task is no longer in the map (`Taken`) and that a task not
yet enqueued is nowhere (`Fresh`). A second invariant, `ChannelInv`, is about the
channel of ids: an id is sent once (`SentOnce`), after the ids of the tasks that
were ahead of it (`InOrder`), and none of a task in the map is missing
(`NoneLost`). From these:

* `QueueTypes`: `Spec => []TypeOK`.
* `NoneStranded`: `Spec => []NoTaskIsStranded`.
* `FirstEnqueuedFirst`: `Spec => FirstInFirstOut`. The one step that takes a task
  takes the head of the channel while the processor holds none; an earlier one
  that is still open is in the map, so its id is in the channel (`NoneLost`), and
  would have to be before the head (`InOrder`).
* `OneSurvivor`: `Spec => []AtMostOneSurvivor`. A finished `cancel_all` emptied
  the map after it noted the open tasks, so what is left of them is held.
* `HandleCurrent`: `Spec => []HandleIsCurrent`. `cancel_all` never aborts a task
  other than the one it means.
* `ImplementsService`: `Spec => Service!Spec`, one step per action: it is a step
  of `TaskService` or leaves `Phase`, the doomed task and the end of the
  processor as they are.

For `ObjectPoller`, from `BoundsAssumption` (`ObjectPollerProofs`): `FlagHasLoop`,
`OnlinePolls`, `LoopsDoNotMultiply`, `PollerTypes`, that is `FlagMeansLoop`,
`PollsWhileOnline`, `OneLoopUnlessMissed` and `TypeOK`. `Inv` is their conjunction, grouped by
what a handler touches. `Replaced` covers each callback that puts one future in
the place of another, `PollLeaves` each poll: it aborts, and unless that missed
something the one request it spawns is the only loop.

For `ObjectSync`, from `KindsAssumption` and `BoundsAssumption`
(`ObjectSyncProofs`): `TypeCorrect`, `Spec => []TypeOK`. The types are not
inductive as they stand, since a revision is an index into `history`: the
invariant adds that every revision anyone holds, in memory, in a row, in an event
for the writer, in a request, a message, a poll or a fetch, is at most
`Len(history)`, which only grows.

The same module proves the safety properties from the same assumptions:

* `CounterAgrees`: `Spec => []CountsOutstanding`.
* `AtRestAgrees`: `Spec => []RestIsServers`.
* `EditsAreKept`: `Spec => []NothingIsForgotten`.
* `OverwritesAreSeen`: `Spec => NoBlindOverwrite`.

Each exempts what the code breaks: all of them the histories in which the object was
reset beside outstanding updates (`overtaken`), `RestIsServers` also those in which a
conflict was saved as not pending (`forgotten`), `CountsOutstanding` and
`NothingIsForgotten` also the kinds that ignore refusals.

None of them is inductive. The invariant `IInv` speaks of the object at two
distances: of the updates that are outstanding, sent or not (`Out`, and `Last`,
the one made last), and of the row the database will have once the writer has
caught up (`LastRow`). `DequeueView`, `EnqueueView`, `SaveView` and `WriteView` say
what the parts of a handler do to these; the rest of the proof does not look into
a sequence again. `IInv` has four parts:

* `Types`, as above.
* `QueueInv`: every outstanding update is counted, also of a kind whose refusals
  decrement nothing (`Counted`: there the counter is at least their number, and
  without that half the last failure of such an object could not be followed); the
  update made last has the content the user sees (`LastIsShown`), and so has the
  edit the user waits for (`MineIsShown`).
* `DatabaseInv`: the row there will be has the content in memory
  (`DatabaseFollows`), pending if that is (`PendingIsSaved`); a MarkObjectAsSynced,
  which writes a revision and no content, meets the content it was meant for
  (`SyncedInPlace`); whatever is at rest, in memory, in the row or in an event on
  the way, is the server's (`MemoryAtRest`, `RowsAtRest`), so that a restart from
  any row between is one at rest too.
* `VersionInv`: in every place a content is kept, the content at its revision
  builds on the same edits of others (`AllVouch`), an accepted update is the content
  of the revision it was given (`AcceptedIsStored`), and no place holds a content
  that is yet to be made (`NoneIsNew`).

`QueueKept`, `DatabaseKept`, `DatabaseSaved` and `VersionSteady` say what a handler
must do for a part to be kept; one lemma per action composes them. `overtaken` and
`forgotten` are the two ways the code does break the properties; both have a run
that shows it (`saved_twice`, `conflict_not_pending`).

For `SharedSession`, from `BoundsAssumption` (`SharedSessionProofs`), for any
number of attempts, sockets, faults, items and any size limit:

* `NoHole`: `Spec => []ServerHasAPrefix`.
* `NothingIsLetGo`: `Spec => []KeptUntilAcked`.
* `NamedByItsSocket`: `Spec => []SessionIsOfTheWinner`.
* `OverIsOver`: `Spec => FinishedIsFinal`.

The invariant is `SessionInv`. That the server has a prefix depends on what is
under way to it: on every connection it still reads, an event comes after the one
before it, or the server has that one (`UpOK`); a started session with a working
socket has sent all it has (`CaughtUp`), so `Publish` may send the next event;
one reconnect at a time asks or is answered (`OneReconnect`), and as long as the
answer is under way the server has what it names and nothing more, so the flush
starts in the right place (`AnswerHolds`), and finds everything from there on
(`Stored`); before the session starts no event is stored or under way
(`NotStarted`). `Named`
ties the session to the socket that won. Most actions bring nothing new to any
of this: they are `Calm`, and `CalmKeeps` covers them all. The others each have a
lemma: connecting, publishing, acknowledging, the flush, the answer of the server,
the event it stores, what it forgets.

`SharedSessionSafetyProofs` adds, from the same assumptions:

* `SessionTypes`: `Spec => []TypeOK`.
* `LossIsFoundOut`: `Spec => []LossIsNoticed`.

Their invariant is `Held`. The types need that no more events are numbered than
items were produced (a batch and a pending item count), and that every number in a
message is of such an event. A loss is noticed because of the socket behind the
proxy channel: while the session is started or reconnects, that socket is heeded
(its callbacks are not those of an attempt that lost), and it works or has something
left to tell, the last of which says that it is over (`Found`). Before the start,
the attempt under way has at most that socket. Most handlers touch neither and slip
by; closing, connecting and giving up each have a lemma.

Only model-checked: that `SharedSession` implements `OrderedLog`
(`ShowsTheTerminal`): what a viewer shows is a concatenation of events, and facts
about it need induction over sequences, which is out of the prover's reach, as are
RECURSIVE operators; and everywhere liveness under fairness, ENABLED, and the
properties whose runs are to find them violated.

## Plan

Done, in this order: `SyncQueue`, its types and its serial order; `TaskQueue`, its
abstract specification, the refinement and its safety theorems; `ObjectPoller` and
its theorems; `ObjectSync` and all its safety; `SharedSession`, the refinement of
`OrderedLog` and all its safety; the rest of the safety of `SyncQueue`.
Left:

1. An abstract specification of the sync queue (items are accepted, sent after
   what they depend on, answered once) that `SyncQueue` implements, and between it
   and `ObjectSync` the assumption that updates of one object are serial.
2. A viewer's own connection (`viewer/network.rs`), with the late
   `JoinedSuccessfully` that revives a `Finished` viewer.
3. `DiffInvalidation`: the diffs of a code review over `TaskService`: reload,
   merge base, the watcher's invalidations, the index lock
   (`app/src/code_review/diff_state/local.rs`).
4. The subscription of the listener; closed panes and their timers
   (`UndoCloseStack`); the event stream of a cloud agent (`AgentEvents`).
5. The scheduling of an agent's tool calls, and the protocol with a remote host's
   daemon.

## Not modelled

Views and their handlers, rendering, terminal emulation, the editor's trees,
language servers, PTYs, settings, API clients: sequential data structures,
conversions, layout, or operating system I/O, for which a state machine of the
size TLC can check would restate the code. They are most of the million lines of
the repository (the two largest files alone are views of 28,000 lines each),
while the queues, loops and protocols above are a few thousand; the modules here
cover about a quarter of a percent of all lines, and the parts of the plan would
not change the order of that number. Of what could be modelled, the plan lists
what is left. `PROJECT.json` lists every component with its status, and what of a
component that is modelled in part is missing.
