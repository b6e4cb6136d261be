# Forge: a TLA+ verification project

Mentenaz Forge is a fork of the Zed editor: a Rust workspace of some 290 crates
under `crates/`, to which the fork adds a workflow engine and the panels around
it. This directory models the parts of it whose correctness depends on the order
in which things happen, checks the models with TLC on small instances and proves
some of the results with TLAPS for instances of any size.

All paths below are relative to `src/`. `PROJECT.json` maps every definition to
the lines it models, and lists runs, mutants, hazards, findings and theorems.

Contents: [1 Inventory](#1-inventory) · [2 Modules](#2-modules-and-code) ·
[3 Runs](#3-runs) · [4 Fairness](#4-fairness) · [5 Proofs](#5-proofs) ·
[6 Findings](#6-findings-and-observations) ·
[7 Limits](#7-what-is-not-modelled) · [8 Plan](#8-plan)

## 1 Inventory

### Parts that are modelled

**`watch` (crates/watch).** Two latest-value channels with one sender and many
receivers, used for settings, connection activity, buffer state and more.
* `snapshot.rs`, lock-free. State: `latest` and `receivers` (ArcSwap), `closed`
  (AtomicBool), an AtomicWaker and a `version` per receiver. Operations: `send`,
  `Sender::receiver`, clone and drop of receivers, `snapshot`, `changed`, drop of
  the sender. The sender and every receiver may be on threads of their own.
* `watch.rs`, with a reader/writer lock. State: `value`, `version`, `wakers`,
  `next_waker_id`, `closed`. Operations: `send`, `receiver`, `borrow`, `changed`,
  cancellation of a wait, drops.
* Hard: a publication or the drop of the sender between the steps of a poll;
  wakers fired after the lock is released; the registry loaded once and used later.
* Correct when: no waiting task sleeps through a publication or the end of the
  sender; nobody is told "no sender" before having seen the last value; the table
  of wakers holds only waiting tasks.

**`remote::ChannelClient` and the server's connection loop**
(crates/remote/src/remote_client.rs, crates/remote_server/src/server.rs). Two
ends exchange envelopes over a proxy connection that may break. State of an end:
`next_message_id`, the replay `buffer`, `max_received`, `response_channels`.
Operations: `send_buffered`, `request`, `handle_message` (acknowledgement, flush,
response, dispatch), `resync`, `reconnect`; the server's loop replaces its
connection and keeps its queues.
* Hard: messages lost with a connection, replayed ones that were not lost,
  cumulative acknowledgements, queues that outlive connections, resyncs that time
  out, sends from background threads.
* Correct when: every message is handled, kept for replay, or on its way; a
  resynced client has caught up; every request is answered in the end.

**`remote::RemoteClient`** (the same file). The state machine Connecting,
Connected, HeartbeatMissed, Reconnecting, ReconnectFailed, ReconnectExhausted,
ServerNotRunning, driven by a heartbeat task, a monitor of the proxy process,
reconnect attempts and shutdown.
* Hard: late results of tasks after the state moved on; two counts of missed
  heartbeats; a state that is taken out while a task awaits.
* Correct when: exactly one party owns the connection; a client that gave up
  stays so; a reconnect ends; a dead connection is noticed.

**`text::Buffer`** (crates/text, crates/clock). Replicated text. State: the
fragments, the undo map, the version vector, the Lamport clock, deferred
operations, the undo and redo stacks, waits for edits and versions. Operations:
local edits and their transactions, undo and redo, grouping, transactions taken
over from another replica, `apply_ops`.
* Hard: operations in any order, repeated or before those they depend on;
  concurrent insertions at one place; undo concurrent with deletion and with undo;
  visibility that is cached and updated piecemeal.
* Correct when: replicas with the same version have the same text; a version
  vector is causally closed; nothing stays deferred, nobody waits, without reason.

**`language::Buffer`** (crates/language/src/buffer.rs) with the saving of
crates/project/src/buffer_store.rs. Keeps a syntax tree, auto-indents and the
relation to a file in step with the text; a save goes through `write_file`
(crates/worktree/src/worktree.rs) and `RealFs::save` (crates/fs/src/fs.rs). State: the version of the text,
`language`, the tree, `reparse` and `parse_status`, `autoindent_requests`,
`pending_autoindent` and its waiters, `saved_version`, `saved_mtime`,
`has_conflict`, the cache of `has_unsaved_edits`, `reload_task`. Operations: edits,
undo, remote operations, `set_language`, `autoindent_ranges`, saves, reloads,
news of the file.
* Hard: a parse that ends after the text or language changed; parses that are done
  at once or left to a task; an indentation that is itself an edit; edits between
  taking the text and `did_save`; saves that overlap, whose file is opened, filled and
  looked at in separate steps; reloads overtaken by edits, saves and writes.
* Correct when: an idle buffer has the tree of its text; requests and waiters are
  served; parsing and indenting end; a buffer that says it is clean shows the file.

**`rpc::Peer`** (crates/rpc/src/peer.rs). One connection between an application and
the collaboration server: the `handle_io` future with its outgoing queue and
bounded channel of incoming messages, the maps of waiting requests and streams,
the stream that routes responses. crates/collab/src/rpc.rs shows who drives it. Operations: `request`, `request_stream`,
`disconnect`, `teardown`; the loop's writes, reads and timeouts; its end.
* Hard: requests made while the connection is being closed; a response handed to
  one task while the message behind it goes to another; a stream cut off in the
  middle; a slow consumer that blocks the reader.
* Correct when: the application sees things in the order they were sent; a stream
  never stops silently; nobody waits on a connection that was given up.

**`workflow_engine`** (the fork's own). A workflow is a tree of levels: a level is
a map of actions with `runAfter` dependencies, and an If, Foreach, Until or Try
holds levels. `scheduler.rs` validates and runs one level, `container.rs` the
containers, `runner.rs` the leaves and the whole, `engine.rs` the contexts,
`status.rs` the reports to a viewer.
* Hard: actions that end in any order, joins, iterations running side by side
  under the same ids, failures inside containers, dependencies that resolve by
  being skipped.
* Correct when: exactly the cyclic definitions are refused; every outcome follows
  from those of the dependencies; failures reach the result; outputs and reports
  of iterations stay apart; every run ends.

### How they interact

`RemoteClient` owns the `ChannelClient`: it calls `reconnect` and `resync` in an
attempt, pings through it, and takes incoming traffic as activity. The channel
carries, among others, the operations of `text::Buffer`, as does the collaboration
server for shared projects; `text` assumes neither order nor uniqueness of
delivery; `rpc::Peer` carries the messages of the latter. `language::Buffer` holds a
`text::Buffer`. `watch` serves all of them for state that others wait on. The workflow
engine is used by the flow designer and the flows panel, which follow its status
reports.

### Parts that are not modelled

`PROJECT.json`, `components`, lists all parts with the reason. In short: user
interface (`gpui`, `editor`, `workspace`, the fork's panels) is sequential
handlers on very large states; `rope` and `sum_tree` are sequential data
structures with property tests; `git`, transports, databases and the fork's
backends run other programs; `collab`, `client`, `lsp`, `context_server`, the
process tracker and the connection pool belong in a model and are in the plan
(section 8). The repository has 1.8 million lines; the models cover the parts
named above, a small share of the whole.

## 2 Modules and code

| Module | Models | State and actions |
|---|---|---|
| `WatchContract` | the documentation of the `watch` crate | abstract: `published`, `closed`, what each live receiver has `seen` and was `told` |
| `WatchSnapshot` | `watch/src/snapshot.rs` | one action per access to a shared atomic: `Send`, `DropSender`, `WakeReceivers`, `NewReceiver`, `CloneReceiver`, `DropReceiver`, `Snapshot`, `Poll`, `DropChanged` |
| `Watch` | `watch/src/watch.rs` | an operation under the lock is one action; `send` looks for other holders of the state before it takes the lock (`SendShared`, `Send`) and the wakers are fired one by one after the lock was released; a borrowed guard keeps writers out |
| `RemoteChannel` | `ChannelClient` of both ends, `start_server` | queues of both directions, the buffers, ids and acknowledgements; `ClientRequest`, `ServerSends`, `ServerReceive`, `ClientReceive`, `ResyncTimeout`, `Disconnect`, `Reconnect`; a load that has background sends makes a send four actions (`BeginServerSend` takes the id, `StampServerSend` reads the `ack_id`, `BufferServerSend`, `QueueServerSend`). `orderly` remembers that no break came before the end of a resync and before the server had read the client's replay, and that no send was overtaken; `replaying` counts the messages up to the end of that replay which the server has not read |
| `RemoteClient` | the state machine | each action is what one task runs between two awaits |
| `TextBuffer` | `text.rs`, `clock.rs`, `undo_map.rs`, `operation_queue.rs` | every replica's `Buffer` and history; every operation ever broadcast stays available, so it can be delivered in any order and any number of times |
| `LanguageBuffer` | `language/src/buffer.rs`, `save_local_buffer`, `write_file` | a handler is one action whose outcomes are those of blocking for a while or leaving the work to a task; the ends of tasks and the writes of others are actions of their own, and so is each stage of a reload and of a save (`Save`, `SaveOpens`, `SaveWritten`, `SaveStats`, `DidSave`, `SaveFails`) |
| `RpcPeer` | `rpc/src/peer.rs` | `MakeCall`, `Resume`, `OpenStream`, `PollStream`, `DropRequest`, `DropStream`, `Disconnect`; `handle_io` from its first poll with its ways out, or never polled (`Abandon`, `DropMaps`), `EndConnection`; `Route`, `RequesterResumed`; the other side |
| `RunLevel` | `scheduler.rs` | operators on one level's definition and on the local variables of `run_level` |
| `Scheduler` | one level, run on its own | `RunWorkflow`, `DecideFront`, `PassEnds`, `ActionResolves`; an action's execution is left open |
| `WorkflowRun` | `container.rs`, `runner.rs`, `engine.rs`, `status.rs` | levels by path and iteration, the progress of each executor, the outputs of each context, the reports |
| `MC*` | | instances for TLC: values of constants, and the flows of the workflow runs |
| `WatchSnapshotProofs`, `WatchProofs`, `RemoteProofs`, `TextBufferProofs`, `LanguageBufferProofs`, `RpcPeerProofs`, `SchedulerProofs`, `WorkflowRunProofs` | | inductive invariants, theorems and proofs (section 5) |

**Composition and refinement.** `WatchSnapshot` and `Watch` both implement
`WatchContract`: the published version, the receivers that exist, what each has
seen and was told. `Scheduler` and `WorkflowRun` share `RunLevel`, so the operator
that is proved about is the one used at every nesting level; `WorkflowRun`
implements `Scheduler` for its top level (`RootIsScheduled`): seen from there a
container is an action that ends Succeeded or Failed.

**Names** are those of the code where TLA+ allows it. Definitions that precede the
one they resemble, with a comment that names a slip or mutant, are mutated forms:
each property is violated when its mutant takes the place of the original.

**Bounds** of a module with several instances are a constant set of records
(`Scopes` of `TextBuffer`, `Loads` of `RemoteChannel`, `Budgets` of
`LanguageBuffer`), of which every behaviour has one: a run checks all of them.

**Abstractions that matter.**
* A published value is identified with its publication number. Versions are
  numbers: far from the 2^64 where they wrap.
* Payloads are reduced to a kind. A handler that answers a request is the pending
  entry `owed`; run twice, it answers twice.
* Times are left out: a timeout may happen whenever the code waits with one.
* A fragment of n characters is n fragments of one character. Splitting
  fragments, locators and the summaries of the tree disappear; the place of a
  fragment is its index. An edit replaces one range.
* A version of a `language::Buffer` is the number of its last operation and the
  identity of its visible text, which an undo may bring back. `contents` is the
  history of texts: its entry at a version's text is what was visible then. A
  content is a number, so whether two texts agree is all that is known of them.
  Requests for auto-indents and those who wait for them are "some" or none.
* `pending` and `still_pending` of `run_level` are queues that are always in file
  order, so they are sets with the front at the least position.
* A condition is truthy, falsy or an error; a list has up to `MaxItems` items; a
  leaf ends Succeeded or Failed.

## 3 Runs

Passing runs (distinct states in brackets):

| Run | Instance | What it shows |
|---|---|---|
| `watch_snapshot` (21,790) | 2 receivers, 2 sends | `NoLostWakeup`, `ClosureHidesNothing`, the contract is implemented, `WaitEnds` |
| `watch` (7,958) | 2 receivers, 2 sends, 3 registrations | `NoLostWakeup`, `NoWakerLeak`, `CurrentVersionMeansCurrentValue`, the contract is implemented |
| `remote_channel` (2,554,454) | 2 requests and a notification with 1 break; a request and a notification with 2; 2 requests with 2; a request with 3; a request answered from a background thread with 2; an answer and a notification from two background threads with 1 | `LossNeedsOverlap`, `CaughtUpAfterResync`, `AllRequestsAnswered` |
| `remote_client` (424) | the limits of the code: 5 heartbeats, 3 attempts | `HeartbeatCountAgrees`, `OneConnectionOwner`, `GaveUpForGood`, `ReconnectingEnds`, `MonitoredDeathNoticed` |
| `text_buffer` (355,273) | 3 replicas with 3 edits on a base text of 1; 2 replicas with 2 edits, 3 undos or redos, batches of 2, grouping, a transaction taken over; 2 replicas with 3 edits, an undo and a wait | `CausallyClosed`, `DeferredOnlyIfBlocked`, `Convergence`, `VisibilityCached`, `NobodyWaitsInVain`, `CatchesUp` |
| `language_buffer` (2,966,463) | 3 edits, undo, remote edit, selections, 2 changes of language; 2 edits, undo and 2 saves; an edit, undo, 2 saves and a reload; 2 edits, save, reload and a write of others; an edit, save, 2 writes of others and an automatic reload; save, reload and a write with a language | `IdleMeansParsed`, `OnlySelectionsForget`, `SettlesDown`, `CleanMeansOnDisk` |
| `rpc_peer` (966,462) | a request, a stream, 3 envelopes from the other side, a channel of 1 | `SeenInOrder`, `NoSilentTruncation`, `NobodyLeftWaiting` |
| `scheduler` (63,460) | every graph of 3 actions | `ValidationExact`, `JoinRespected`, `OrderedNeverStuck`, `NothingEligibleWaits` |
| `workflow_run` (13,121) | 7 flows with containers nested two deep, 2 items, 2 rounds | `FailureNotSwallowed`, `StatusMatchesOutcome`, `NothingOutlivesItsContainer`, `IterationsIsolated`, `InputsReadable`, `RunEnds`, `RootIsScheduled` |

Runs that exhibit a disagreement between code and comments (section 6):
`remote_channel_two_breaks`, `remote_client_silence`, `scheduler_stuck`.

**Why the bounds are enough.**
* *watch*: receivers interact with the sender, not with each other, except
  through the registry and by cloning: two show both, and two publications
  separate "the latest" from "one I missed". The theorems of section 5 remove both
  bounds for the snapshot channel.
* *remote channel*: one break with messages under way in both directions is the
  smallest case in which replay, acknowledgement and queued messages meet. A
  second break lets a resync be overtaken, which is what it takes to lose a
  message: `LossNeedsOverlap` says that without it, and without a send overtaken
  by another thread's, none is lost. Losing a message of the server takes two
  that it sends unasked, which `remote_channel_two_breaks` has, and losing one of
  the client takes two requests and two breaks, which `remote_channel` has. One
  background thread is overtaken by the main one, and two by each other, at any of
  the four steps of a send. The theorems remove the bounds.
* *remote client*: its limits are those of the code, no bound was added.
* *text*: the third replica makes an operation whose dependency arrives after it,
  and three edits make the pairwise order of concurrent insertions matter
  transitively. Undo is between two replicas: two edits so that one can delete the
  text of the other, and three undos so that both can undo the same edit and one
  can redo it.
* *language buffer*: a parse under way, an edit during it and one after it take
  three edits; a second language replaces the first during a parse. Two saves can
  overtake each other and a reload at each of their stages; one write of others falls
  between any two stages of a save or a reload, and a second one comes after the one
  that a reload or a save has seen.
* *rpc peer*: one request and one stream use the two maps, which are independent of
  each other and keyed by caller; three envelopes are a response or frame, one
  behind it, and one that finds the channel of size 1 full (the code's is 256).
* *scheduler*: all graphs of three actions, so all cycles, joins, chains and
  orders of file up to that size; accepted outcomes are success or the rest for
  arbitrary graphs and every subset for graphs in order; one flow refers to an
  action that does not exist. The theorems remove the bound.
* *workflow run*: each container with each kind of neighbour inside and outside
  that could confuse it: Try in Foreach, Foreach in Try, Try in Until, Foreach in
  Foreach, an If with one branch and with both, containers without levels, a
  cycle at the top and one further in.

Deadlock is checked in the text run, where redelivery is always possible. The
other systems may come to rest: the configurations say when.

## 4 Fairness

* `WatchSnapshot`: a sender finishes the call it is in, and the executor polls a
  task whose waker fired and finishes a poll it began. Nobody has to send, poll
  unasked, or drop anything.
* `RemoteChannel`: queues are read, handlers answer, background sends finish, an
  abandoned connection is dropped and the client reconnects. Breaks, timeouts and
  requests need not happen; breaks are bounded, which stands for "connections
  stop breaking some day". The client's limit on attempts is the subject of
  `RemoteClient`, not of this module.
* `RemoteClient`: each task goes on when it can. Pings, handshake and resync end
  by timeouts in the code; that `kill` and `connect` end is assumed of the
  transport. The network owes nothing: silence and deaths may happen or not.
* `LanguageBuffer`: background parses and auto-indents end. Nothing is assumed of
  the user, of saves or of reloads.
* `RpcPeer`: a thread that makes a request goes on, `handle_io` is driven, or
  dropped before its first poll, its timers fire on a silent socket, the reader is polled when it was resumed. The
  application need not poll its futures, streams or messages: `NobodyLeftWaiting`
  says that what they wait for has come or cannot come; if `handle_io` was never
  polled, it may also wait for whoever still holds the connection, its incoming
  stream or one of its maps (`LeftBehind`).
* `WorkflowRun`: weak fairness of `Next`. The run is one task, which is polled
  when something it waits for is ready; the assumption on top is that leaves end.

The remaining modules are checked for safety only. `CatchesUp` states as an
invariant what would be the liveness of `TextBuffer`: from any state, delivering
everything is enough.

## 5 Proofs

Each proof module has an inductive invariant (mostly called `IInv`), a lemma
`Init => IInv`, a lemma `IInv /\ [Next]_vars => IInv'` by cases on the actions, and
theorems. `RemoteProofs` has two, since it is about two components: the formulas of
`RemoteClient` are therefore called `ConnectionInit`, `ConnectionNext`,
`ConnectionSpec`. All
hold for any value of the constants that satisfies the named assumption of the
component's module; none bounds the number of operations, messages, breaks or
levels. The bounds of an instance are only needed to be natural numbers.

**`WatchSnapshotProofs`**, for any set of receivers and any `MaxSends`
(assumption: a natural number).
`TypeCorrect`, `NoLostWakeupTheorem`, `ClosureHidesNothingTheorem`, and
`Refinement`: the channel implements `WatchContract`.
`NoLostWakeup` is not inductive: it speaks of parked futures, and what makes it
true happens before. `IInv` adds that a live receiver is in the registry
(`AliveRegistered`), that from its registration on the waker is stored or was
fired (`WakerHeld`), that a poll that saw the channel open will hear of a closure
since (`CheckedCovered`), and that whoever parks with something missed was woken
or is about to be (`PendingCovered`). `ClosureHidesNothing` needs that a poll sees
`closed` only once it is set (`ClosedSeenSound`) and that a closed channel
publishes nothing (`ClosedMatchesSender`).

**`WatchProofs`**, for any set of receivers, any number of sends and polls.
`NoLostWakeupTheorem`, `NoWakerLeakTheorem`,
`CurrentVersionMeansCurrentValueTheorem`, and `Refinement`: this channel implements
the same contract. `NoLostWakeup` follows from two facts about the table of
wakers: who is registered has seen everything and the channel is open
(`RegisteredUpToDate`: whatever could make a poll return empties the table), and
who is parked is registered unless its waker was taken and is about to be fired
(`PendingRegistered`). That removing a waker by its id removes the right one needs
distinct ids (`IdsUnique`).

**`RemoteProofs`, the channel**, for any loads: any number of requests, notifications,
sends on background threads and breaks. `TypeOKTheorem`,
`LossNeedsOverlapTheorem`, `CaughtUpTheorem` (an action property). The invariant
is `TypeOK /\ Held /\ (orderly => Synced /\ HeldSound)`. What makes an acknowledgement harmless differs
with the stage of a resync, so `Synced` goes by stages.
* Connected or down (`ServerSteady`): what the client missed is in the server's
  buffer, and whatever it has received, it has received all up to there, so that
  no acknowledgement on the way covers a missed message.
* While the flush is on its way (`Pending`): messages queued before the break may
  arrive first and raise `max_received`, but what the server reads up to the flush
  was written before.
* Once it is answered (`Answered`): everything missed is on the way before the
  answer, in order, or has been sent since; until the client has read the
  answer, it acknowledges nothing that was sent later. `CaughtUpAfterResync`
  follows from this.
* The client's messages (`ClientConnected`, `ClientDown`, `ClientAttempting`) the
  other way round. Since the client drops buffered requests during and after its
  replay, what is missed is in its buffer or among the first `replaying` messages
  on the way, and behind those requests are in order.

* Envelopes that background threads hold (`allocated`, `unqueued`) have ids nobody else
  has. One may be in the replay buffer before it is queued, so that a flush is
  answered with it first; while it has the newest id, nobody has seen that id yet
  (`NewestUnseen`), so that queueing it is like an ordinary send. Its `ack_id` may be
  older than what the server has received meanwhile; that does no harm, since it
  acknowledges less (`HeldSound`).

`OneFlush` and `HandshakeFirst` say that there is one flush or one answer to it,
behind the handshake. Without `orderly` all of this fails (section 6).

**`RemoteProofs`, the client**, for any positive limits of heartbeats and attempts.
`ConnectionTypeCorrect`, `HeartbeatCountAgreesTheorem`, `OneConnectionOwnerTheorem`,
`GaveUpForGoodTheorem` (an action property). The strengthening is `Ownership`: the
heartbeat task exists only for an established connection or in the grace period
of a shutdown, the task of `new` exactly while Connecting, and after a shutdown
began the state is final; and `CountOwned`: no other state has a count.

**`TextBufferProofs`**, for any number of replicas, operations, batches and waits, in
whatever order operations arrive and however often (assumption: the bounds of the
instances are natural numbers, with at least one replica). `InvariantTheorem`,
`CausallyClosedTheorem`, `DeferredOnlyIfBlockedTheorem`,
`NobodyWaitsInVainTheorem`, `VisibilityCachedTheorem`, `ConvergenceTheorem`,
`SameOrderTheorem`, `CatchesUpTheorem`.
* Everything about deferral rests on what the clocks say of the operations
  (`OpsOrdered`): an operation's version lies below its timestamp, is made of
  timestamps of operations, and covers all earlier ones of its replica. Applying an
  operation whose version was observed then makes no other operation appear
  observed (`OnlyItself`), and in the order of timestamps nothing deferred earlier in
  a pass becomes applicable later in it (`StepBlocked`): one pass is enough.
* `apply_ops` is two folds, over the batch and over the queue. A fold over a set is
  unfolded over the subsets of that set, and an induction over it goes by the
  smallest subset that is a counterexample (`SmallestSubset`).
* An operation made here needs that nobody knows more of a replica's operations than
  the replica itself (`NobodyKnowsMore`): so nobody has observed it, and nobody waits
  for it (`IssueKeepsInv`).
* `CatchesUp`: in a pass that ends with the latest operation, whatever is still
  deferred would have a dependency that is deferred too, and the smallest has none
  (`CoveredFromBelow`).
* `Convergence` speaks of two buffers with the same version only and is far from
  inductive. What makes it true is in no buffer (`Agreement`): there is one total
  order of all characters ever inserted and one set of what was deleted by which
  edit, and every buffer holds the characters of the operations it has observed, in
  that order, each marked by the deletions it has observed (`Placed`). Two buffers
  with the same version then have the same character at every index, since the
  index is the character's rank among those observed (`RankIsPlace`,
  `PlacedAlike`). `SameOrder` is what this says of buffers with different versions.
* `World` says what an edit fixes in the order when it is made. Its characters stand
  behind the `start` characters its author had before it (`Anchored`), it deletes
  what its author saw in its range (`Deletes`), and of the characters that its author
  had not observed, an earlier one stands before it only if something the author had
  observed is between (`Shielded`).
* A remote edit keeps this (`RemoteEditPlaced`). The code finds the place by skipping
  what is later than the edit and unknown to its author; `Shielded` says that this is
  where the order has it (`InsertionPlaced`), whatever else the replica has observed
  by then. That it deletes the same characters there needs what its author saw:
  offsets in its version are ranks (`OffsetIsRank`), and what was visible to it is
  read from the undos it had observed (`RemoteDeletes`). `Kept` carries this through
  the two folds of `apply_ops`.
* An edit made here extends the order (`WorldGrows`). Nothing its author has observed
  is later than it (`IssueIsLast`), but other replicas may have inserted at the same
  place what he does not know of, and some of that may be later. The new characters
  go behind the later ones that follow the author's place, up to the first earlier
  one (`LeftOf`). The result is a total order (`InsertedOrdered`) in which the old
  edits are as before (`OldStays`, `OldShielded`) and the new one is shielded
  (`NewShielded`); it is chosen by the proof alone, and that every replica arrives at
  it is `RemoteEditPlaced`.

**`LanguageBufferProofs`**, for any languages and budgets (assumption: `NoLanguage`
is none of the languages). `Invariance`, `IdleMeansParsedTheorem`,
`OnlySelectionsForgetTheorem`, `CleanMeansOnDiskTheorem` (two action properties).
A handler is a composition of operators on the buffer; what each does to the text,
to what is remembered of the file, to the parse and to the requests for
indentation is a lemma about that operator. `IdleMeansParsed` needs that a
background parse shows in the status (`BusyMeansParsing`). `CleanMeansOnDisk` needs
that the cached answer of `has_unsaved_edits` is never "no" for a text that is not
the saved one (`CacheSound`), that the versions kept by saves and reloads once were
the buffer's and still name the text they named then (`Known`,
`HistoryComplete`), that what a save wrote is in the file as long as the file has the
mtime of the save and nobody else wrote it after the save had opened it
(`SavesSound`), and that what a reload has read is in the file if the mtime is still
the one the reload knows (`ReloadSound`). The theorem says of each way in which the
code leaves this state which step it is (`OvertakenSaveEnds`, `ReloadEndsAstray`,
section 6): no other step does.

**`RpcPeerProofs`**, for any disjoint sets of requests and streams, any size of the
incoming channel and any number of envelopes. `NoSilentTruncationTheorem` and
`SeenInOrderTheorem` (an action property). The order of what is seen rests on the
pipeline (`PipelineOrdered`: wire, incoming channel and reader hold what was sent
in its order) and on the barrier: what was handed to a caller and is not yet seen
is the one envelope the reader waits for, or was waiting for when it was dropped
(`HandedOverWaits`). A `handle_io` that was dropped before its first poll
stays so (`AbandonedStays`) and is what `NoSilentTruncation` excepts. Otherwise it needs that whoever reads a stream is in
the map, was told of the closure, or has the end before it (`StreamAccounted`),
and that who has not sent its request gets no answer (`NoAnswerAhead`).

**`SchedulerProofs`**, for any finite set of actions and any flows (assumption: file
positions are distinct and every action has its map of dependencies; nothing about
cycles or order). `TypeCorrect`, `ValidationExactTheorem`, `JoinRespectedTheorem`,
`OrderedNeverStuckTheorem`, `NothingEligibleWaitsTheorem`.
`ValidationExact` compares the counting of `topo_order` and `compute_levels` with
the absence of cycles. What the n-th frontier holds (`FrontierIs`: the actions
whose dependencies are all in earlier ones, one of them in the last) is proved by
induction on n. The library's induction theorems take an operator, so the
induction goes by the least counterexample (`LeastNumber`, from the
well-foundedness of finite subsets). If every action is in a frontier, the action
of a would-be cycle in the least of them has no dependency in the cycle; if some
are in none, one of them has all its dependencies in frontiers and belongs behind
the last of these, and there is room for it, since frontiers before the last are
not empty (`LastFrontierEmpty`). `JoinRespected` needs
that an action is in one place until it resolves, so that outcomes are final
(`Placed`). The last two rest on the order of the file: an action put back waits
for one that runs or was put back before it (`WaitsOnSomething`), and the first
one put back can only wait for one that runs (`PutBackRuns`). What is proved is
that the flaw of section 6 needs a flow out of order.

**`WorkflowRunProofs`**, for all flows, of any depth and width, and any number of
items and rounds (assumption: every flow has a top level, with the same ids).
`Invariance`, `NothingOutlivesTheorem`, `FailureNotSwallowedTheorem`,
`IterationsIsolatedTheorem`, `RootIsScheduledTheorem`, `RecordsInvariance`,
`StatusMatchesOutcomeTheorem`, `InputsReadableTheorem`.
The properties quantify over levels at any distance, while a step touches a level
and its container. The invariant is therefore about families: the levels of one
container action, and what they may look like at each stage of its executor
(`FamilyOfBranches`, `FamilyOfIterations`, `FamilyAtRest`). Two more parts are
needed.
* `Lineage`: on the way from an open level outwards all levels are open. It has to
  be carried through the rounds of an Until, which open a level again: nothing
  inside it may be open by then.
* `OneAwake`: between two awaits one level or one executor goes on. Without it a
  level could close while a container inside it is being started; and the
  refinement needs that the top level waits whenever an executor in it goes on.

`RootIsScheduledTheorem` maps every step to a step of `Scheduler` on the top level,
or to none. It uses no assumption of `Scheduler` (the order of the file, and that a
flow has finitely many actions).

What viewers were told and what actions may read is a second invariant,
`RecordsSound`, on top of the first; TLC checks it too. A level keeps every action
without an outcome in a queue (`LevelTidy`), reports fit outcomes (`StatusFits`), and
what succeeded or was caught is in the context of its iteration (`OutputsFit`).
* It has to be stated of the levels, data and reports that an executor has in hand
  (`Fit`), since one step may report, record, drop an inner level and open the next.
* Reports and outputs are kept under an iteration and an id, without the level.
  Two actions of one iteration that share an id overwrite each other's, so both
  theorems assume `DistinctIds`. The code only has ids distinct per level
  (layout.rs:29).
* An action failed as stuck gets no report (scheduler.rs:251, section 6), so
  `StatusMatchesOutcomeTheorem` assumes `InFileOrder`, under which the branch is
  unreachable at every level. The argument of `SchedulerProofs` is carried out
  anew within the tree.
* When an iteration starts, no level of its context may be left: of those that
  would be, one of least depth has an owner that does not exist (`NoLevelIn`).

**Only model-checked**, with the reason:
* liveness (`WaitEnds`, `AllRequestsAnswered`, `ReconnectingEnds`,
  `MonitoredDeathNoticed`, `RunEnds`, `SettlesDown`, `NobodyLeftWaiting`): out of the
  prover's reach;
* the disagreements of section 6, which are counterexamples.

The type invariants are proved for any constants and are in no run.

## 6 Findings and observations

Three runs show the code doing what a comment excludes.

1. **`remote_channel_two_breaks`** (remote_client.rs:1694). `max_received` is the
   id of whatever arrived last. A message queued by the server while disconnected
   arrives first on the new connection and raises it above older messages that
   were lost and wait for the flush. If the connection breaks again before the
   flush is served, the next flush acknowledges the lost messages and the server
   discards them. The comment at 1848-1849 states that this is to be avoided.
2. **`remote_client_silence`** (remote_client.rs:852). When a heartbeat is answered
   and none was missed, `continue` skips the re-arming of the timer. Until some
   other message arrives no heartbeat is sent, and silence is not noticed.
3. **`scheduler_stuck`** (scheduler.rs:251). A valid flow in which an action is
   listed before its dependency is failed as a cycle when the dependency is
   skipped in a pass in which nothing runs. The comment calls the branch
   unreachable, and schema.rs:92-93 says that key order does not matter.

Observations met while modelling, without a run of their own:
* remote_client.rs:1660-1665 and 1852-1866. The loss of the first finding has a
  counterpart on the client's side. Say request 1 is lost with a connection, and
  while the client is reconnecting it sends request 4, which the server answers
  with `ack_id` 4. The resync ends and the client replays 1 and 4; then it reads
  the answer, whose acknowledgement drops both from its buffer although 1 is still
  under way. If the connection breaks before the server has read the replay,
  request 1 is gone and its caller waits for ever. `orderly` therefore asks for the
  replay to have been read, and `AllRequestsAnswered` for an orderly channel or
  one lone request.
* remote_client.rs:930. If the io task dies while the state is Connecting or
  Reconnecting, its monitor's only report is refused; `MonitoredDeathNoticed` is
  stated for monitors still on watch.
* remote_client.rs:874. Shutdown takes the state while a ping may be awaited; a ping
  that times out in the grace period unwraps `None`. The model has it as `panicked`.
* remote_client.rs:1111, 1137. `force_heartbeat_timeout` on a reconnecting client
  takes its state; `RemoteClient` models what follows.
* snapshot.rs:57, 93. `send` may report that there is no receiver although one
  exists throughout, if it was cloned after the registry was loaded and its
  original dropped before its turn. No caller looks at the error.
* remote_client.rs:1736. Replays are not deduplicated: a handler may run twice.
* container.rs:181-186 calls both limits of an Until hard stops; the timeout is
  looked at between rounds only.
* scheduler.rs:251. An action failed as stuck gets no status report.
* container.rs, Until. Rounds share a context: an action skipped in one round still
  shows the output of an earlier one.
* Action ids may repeat in different scopes; they then share an entry of the
  context. The flows checked have unique ids.
* schema.rs:122 says the outcomes "must" occur; the join is satisfied by one.
* text.rs, near 357: the comment says that one function differs from
  `push_transaction` by not clearing the redo stack; neither clears it.
* buffer.rs:1975-1982 (`language`). When a parse is done at once, `did_finish_parsing`
  may indent at once: an edit, whose own `reparse` may leave a parse to a task. Back
  in the outer call the status becomes Idle and `reparse` is cleared, which drops
  that task: the buffer is idle with the tree of the text before the indentation
  until something else is edited. `IdleMeansParsed` excuses exactly this
  (`lost_reparse`).
* buffer.rs:3219. `apply_ops` gives up the auto-indent under way even if the
  operations hold no edit; no parse follows that would start it again, so requests
  and waiters stay until the next edit, though 2845-2850 says they are processed
  when the buffer finishes parsing. The same happens when a buffer loses its
  language and is edited. `OnlySelectionsForget` excuses these two.
* buffer.rs:1738. The diff of a reload is made against the text at the time the
  bytes have arrived: what was typed while they were read is replaced without a
  conflict, while what is typed during the diff is a conflict.
* buffer.rs:1767. A reload that ends after edits that came to nothing sets
  `saved_version` to the version before it was called and keeps `saved_mtime`: if a
  save happened meanwhile, text that is not on disk counts as saved. And
  buffer.rs:1751-1757: if auto-indents were waiting, the edit of the reload may
  apply them, and the indented version counts as saved. `CleanMeansOnDisk` is an
  action property: from a state in which a clean buffer shows the file only these
  two ends of a reload (`ReloadEndsAstray`) and the end of an overtaken save, which is the
  next observation, lead to one in which it does not.
* worktree.rs:1885-1892. `write_file` writes the file in one await and asks for its
  mtime in a later one. If another save of the buffer or another program writes in
  between, the mtime belongs to that content: save 1 writes version 1, save 2 writes
  version 2, save 1 gets the mtime of version 2, `did_save` of save 2 and then of save
  1 leave version 1 remembered as saved with the mtime of version 2. After an undo to
  version 1 the buffer says that it is clean although the file holds version 2.
  fs.rs:1034-1042 truncates and fills the file in separate steps, so overlapping saves
  may also leave a mixture. `CleanMeansOnDisk` names this case (`OvertakenSaveEnds`).
* peer.rs:156-165. A response that waits in the incoming channel when the connection
  ends is discarded and its request fails.
* peer.rs:156 and collab/src/rpc.rs:936-948. If the initial update to a client fails,
  the server returns without having polled `handle_io`, so `_end_connection` was never
  created: the connection stays in `Peer::connections` (and in the connection pool, if
  the update got as far as collab/src/rpc.rs:1078), requests made meanwhile keep their
  entries until somebody removes the connection, and streams then end without an
  error. `NoSilentTruncation` and `NobodyLeftWaiting` name this case.
* peer.rs:239. A stream whose consumer is slow blocks the reader, and after two
  seconds `handle_io` ends the connection for everybody.
* peer.rs:422-434. The guard that removes a stream's entry is made by the first poll:
  a stream future dropped before it leaves its entry until the next frame.
* engine.rs:229. Variables are shared by the iterations of a Foreach, so an update
  across an await may be lost.

## 7 What is not modelled

* *RemoteChannel*: stream responses, responses without payload, unhandled message
  types, the idle timeout and process management of the server.
* *RemoteClient*: the pool of shared connections, transports, events to the project.
* *TextBuffer*: edits of several ranges, anchors, branches, merging and forgetting of
  transactions, subscribers' patches, line endings.
* *LanguageBuffer*: branches, diagnostics and selections themselves, encodings,
  deleted and renamed files, languages of injections that are loaded late. Every write
  is taken to give the file a new, larger mtime: two writes within the granularity of
  the file system's clock are outside the model. Between its opening and its last
  write a file of a save has one unspecified content; a write of others, and the
  reading of a file, are one step each; news of the file may lag behind it.
* *RpcPeer*: operations that only append to the outgoing queue (`send`, `respond`,
  `end_stream`), keepalive pings, several connections.
* *Scheduler, WorkflowRun*: expressions, templates, variables, the parsing of
  durations, leaf executors, error texts. The flows of `workflow_run` are in file
  order; the other orders are the subject of `scheduler`.
* External: AtomicWaker and ArcSwap are taken as linearizable, FuturesUnordered as
  polling in any order, channels as FIFO.
* Memory orderings weaker than sequential consistency.
* The rest of the repository: nearly all of its lines are user interface,
  sequential data structures and clients of other programs, whose handlers work on
  states that no small instance represents.

## 8 Plan

Theorems: every safety invariant of the passing runs is proved. With expressions and
duplicate ids in `WorkflowRun` (module 5 below), `DistinctIds` is to be replaced by
what expressions really need.

Modules, in order:
1. `ProcessTracker` (process_tracker.rs): log snapshot and subscription under two
   locks, several readers, `stop` racing with the end of a process.
2. `ConnectionPool` (remote_client.rs:1248-1357): concurrent connects, failed ones,
   weak references; composed with `RemoteClient`.
3. `LspRequests`: timeouts, cancellation and shutdown in `lsp` and `context_server`.
4. `TextBuffer`: edits of several ranges, anchors and their resolution, merging and
   forgetting of transactions.
5. `workflow_engine`: variables and leaf executors in `WorkflowRun`, duplicate ids.
6. `Collab` and `Client`: rooms, stale servers, rejoin; connection status.

Runs for new modules replace those that the theorems make redundant.
