# Formal models of capycode

TLA+ models of the server of capycode (a desktop and web front end for coding
agents) and of the protocol between server and client, the TLC runs that check
them on small instances, and TLAPS proofs of the results that hold for every
instance.  Paths below are relative to `apps/server/src/` of the repository
unless they start with `apps/` or `packages/`.

## 1. The system

A web client sends *commands* over a WebSocket; the server turns them into
*events* in an append-only SQLite store; reactors watch the events, drive the
provider (Codex, Claude, ...) and the git checkpoints, and turn what happens
there into further commands.

    client store  <-- events --  ws.ts  <-- PubSub --  OrchestrationEngine  --> event store, receipts
         |                         |                       ^        |            projections (SQL)
         +------ commands ---------+-- command gate -------+        v
                                                           |   ProviderCommandReactor --> ProviderService --> adapters
                                                           +-- CheckpointReactor      --> git refs            |
                                                           +-- ProviderRuntimeIngestion <---- runtime events -+

| component | state it keeps | operations | what is hard |
|---|---|---|---|
| OrchestrationEngine (`orchestration/Layers/OrchestrationEngine.ts`) | command queue, in-memory read model, PubSub; durable event store and receipts | dispatch, processEnvelope, reconcile, publish, startup | retries with the same command id, a failure in the middle of a block of events, a crash between commit and publication |
| decider (`orchestration/decider.ts`, `commandInvariants.ts`) | none | command and read model to events, or a refusal | invariants over several objects |
| projector (`orchestration/projector.ts`) | none (a fold) | event and read model to read model | what survives a revert, placeholders against real checkpoints |
| ProjectionPipeline (`orchestration/Layers/ProjectionPipeline.ts`) | nine SQL tables, one cursor per projector | projectEvent, bootstrap | a second implementation of the fold; the order of projectors; catching up after a restart |
| ProjectionSnapshotQuery | none | getSnapshot | the snapshot after a restart becomes the engine's read model |
| DrainableWorker (`packages/shared/src/DrainableWorker.ts`) | queue, count of outstanding items | enqueue, drain | drain must not end early, nor hang |
| KeyedCoalescingWorker (`packages/shared/src/KeyedCoalescingWorker.ts`) | latest value per key, queued and active keys | enqueue, drainKey | lost updates, one key processed twice at once |
| ProviderCommandReactor | handled-turn cache, worker | starts sessions and turns, answers approvals | stale read models after an await, duplicate turn starts |
| CheckpointReactor | worker; git refs | baseline, capture at turn end, capture from placeholder, revert | two event sources, placeholders, partial failure of a revert |
| ProviderRuntimeIngestion | buffers per message and turn, worker | runtime events to commands | late and stale lifecycle events |
| ProviderService, ProviderSessionDirectory | live adapter sessions; durable runtime bindings | start, recover, send, stop | recovery after a restart, two adapters holding one thread |
| TerminalManager (`terminal/Layers/Manager.ts`) | sessions, shells, history files, kill fibers | open, write, restart, clear, close, eviction | output and exits at any moment, requests that wait for the history worker, eviction of what is in use |
| ProviderSessionReaper | none | sweep of idle sessions | a turn that starts while a session is being stopped |
| ServerRuntimeStartup, ServerLifecycleEvents | readiness gate, sequence of lifecycle events | enqueueCommand, markReady | commands that arrive while the server starts |
| ws.ts | per subscription: next sequence, out-of-order buffer | replay, live subscription, snapshot, dispatch | events between the replay and the subscription |
| orchestrationRecovery (`apps/web/src/orchestrationRecovery.ts`) | latest, highest observed, pending replay | classify, begin and complete a snapshot or a replay | gaps, duplicated deliveries, reconnects |
| auth sessions and bootstrap credentials | SQL sessions, one-time credentials, connection counts | issue, consume, revoke | double consumption |

The properties that would make each part correct, in a sentence: a command
takes effect exactly once and its answer is what the durable receipt says; the
read model, the SQL rows and every subscriber are functions of the event store
alone; a worker processes what it was given, once and in order, and says so
only when it is true; a client's copy is always a prefix of the server's history
and catches up; a checkpoint is the state of the files at the end of its turn,
and a revert takes files, conversation and thread back to the same turn; a
session has one live adapter, and the thread shows the turn that runs; a text
of the provider reaches the thread whole, in order and once; no shell is lost
and the history file of a terminal is its history; a credential is consumed
once.

## 2. Modules

    CommandLog                    Replica
        ^ refines                    ^ refines
    OrchestrationEngine          ClientSync --EXTENDS--> DomainEventStream,
        ^                                                 OrchestrationRecovery
    MCOrchestrationEngine --INSTANCE--> Decider --> Projector
                                                      ^
                          Checkpointing --> ThreadProjection
    DrainableWorker <--EXTENDS-- RuntimeIngestion
    KeyedCoalescingWorker         ProviderSessions         Terminals

| module | models | state and actions against the code |
|---|---|---|
| `CommandLog` | what the engine promises | abstract: a ledger, at most one outcome per command, truthful answers |
| `OrchestrationEngine` | `OrchestrationEngine.ts` | `phase` is the place in `processEnvelope`; one action per await of it: receipt lookup, decision, every append of the block, commit, assignment of the read model, every publication, reconciliation, rejected receipt, answer. `log` and `receipts` are durable; `Crash` clears the rest and `Restart` is lines 272-279. The read model is the sequence of events folded into it |
| `Decider` | `decider.ts`, `commandInvariants.ts` | which commands a read model refuses and which events the others become |
| `Projector` | `projector.ts` | one operator per event type, with the caps on messages, checkpoints, plans and activities and the retention rules of a revert |
| `MCOrchestrationEngine` | | three commands over the real decider and projector: create, open, start (two events) |
| `DrainableWorker` | `packages/shared/src/DrainableWorker.ts` | `outstanding` is the `TxRef`; take, process and count-down are three steps, enqueue and drain are transactions |
| `KeyedCoalescingWorker` | `packages/shared/src/KeyedCoalescingWorker.ts` | the three fields of the `TxRef`, the `TxQueue`, and what the worker holds; a value is the set of submissions merged into it |
| `DomainEventStream` | `subscribeOrchestrationDomainEvents` of `ws.ts` | fence, replay, live subscription, merge in any order, reorder buffer (`next`, `pending`) |
| `OrchestrationRecovery` | `apps/web/src/orchestrationRecovery.ts` | every operation of the coordinator as a function of its state |
| `ClientSync` | `connection.ts`, `wsTransport.ts`, with the two above | classification and delivery, batched flush, snapshot and replay with their failures, retry timer, resubscription |
| `Replica` | what the client promises | abstract: a position that only moves forward, never past the server |
| `ThreadProjection` | `ProjectionPipeline.ts`, `ProjectionTurns.ts`, `getSnapshot` | the SQL rows of a thread as a second fold of the same events, and the thread a start hydrates from them |
| `Checkpointing` | `CheckpointReactor.ts`, the turn events of `ProviderRuntimeIngestion.ts` | user, provider, ingestion and reactor; the read model `th` and the rows `rows` advance together in one dispatch; `seen` is what the ingestion read before its dispatch, `job` what the reactor read before its captures and the steps of a revert |
| `ProviderSessions` | `ProviderCommandReactor.ts`, `ProviderService.ts`, `ProviderSessionReaper.ts`, the session part of `CodexAdapter.ts` and the lifecycle part of `ProviderRuntimeIngestion.ts` | one thread. `th.session` is its session in the read model, `binding` its row in the session directory, `adapter` the entry in the adapter's map with its process, `lock` the semaphore of the adapter. `call[c]` is where each of the three callers (command reactor, checkpoint reactor, reaper) is between two awaits; `seen` is the event the ingestion is about to dispatch with the session it read before |
| `RuntimeIngestion` | the text part of `ProviderRuntimeIngestion.ts`, composed with `DrainableWorker` | the handler runs while the worker is in its phase "processing"; `steps` are the dispatches and cache updates it has left for the event in hand, each of which may fail; `caches` are `bufferedAssistantTextByMessageId`, `turnMessageIdsByTurnKey` and `bufferedProposedPlanById` |
| `Terminals` | `terminal/Layers/Manager.ts` | `session` holds every session object ever made and `listed` the map of the manager, so that a request can go on with an object that is no longer listed; `call[t]` is the request that holds the lock of the thread; `waiting` and `active` are the state of the history worker |
| `*Proofs` | | theorems, section 5 |

Some granularities deserve a word. A dispatch is one step outside
`OrchestrationEngine`, because the engine processes one command at a time inside
a transaction, which that module models step by step; what matters to the
reactors is that others may dispatch between a read of `getReadModel()` and the
dispatch based on it, and that is kept. Git operations are one step each: `refs`
maps a turn count to the version of the workspace it captured. In `Terminals`
the handling of an output or an exit is one step: `drainProcessEvents` awaits
nothing but unbounded queues, so only the file system, the history worker and the
start of a shell let others in. The history worker is
`KeyedCoalescingWorker` with "the last value wins" for merge; `Terminals` repeats
its observable behaviour (one value waits per key, one key is written at a time)
and leaves its steps to that module. Eviction goes by `updatedAt`; two updates
in the same millisecond are ordered by the order they happened in.

## 3. Runs

| run | bounds | shows |
|---|---|---|
| `engine` | 3 commands, 4 dispatches, 1 failing database step, 1 failing reconciliation, 1 crash | `ExactlyOnce`, `AcknowledgedIsCommitted`, `ReadModelIsStore`, `SubscribersSeeStore`, `OutcomesFinal`, the refinement of `CommandLog`, and `EveryDispatchAnswered` |
| `keyed` | 2 keys, 4 submissions, process may fail | `EverySubmissionSomewhere`, `KeysWaitOnce`, `DrainedKeyIsHandled`, `EverySubmissionHandled` |
| `sync` | 3 events, pages of 2, 2 breaks, 1 request that fails for good | `EmitsInOrder`, `StoreIsPrefix`, `NothingObservedIsForgotten`, `ObservedIsApplied`, the refinement of `Replica` |
| `checkpoint_races` | 2 failing turns of a user who never waits, 1 failure, a diff in mid-turn or a revert | `CapturesLast`, `CheckpointsAreRestorable`, `RestartKeepsCheckpoints`, `CapturesAreNumbered`, `DiffHasBaseline` |
| `checkpoint_calm` | 2 turns that complete or are interrupted, 2 reverts, 3 failures, user waits | `CheckpointsAreTheConversation`, `FilesAreTheLastCheckpoint`, `RestartKeepsMessages`, `RevertIsAnswered` |
| `sessions` | 2 modes, 3 of: a turn (2 at most), a changed mode, a stop, an interrupt, a rollback, a sweep, an exit, an error, a failed call or report (2 at most), a restart | the adapter opens one session at a time (`TypeOK`), `ActiveTurnIsRunning`, `RunningTurnIsShownWhileUp`, `LiveSessionIsBound`, `TurnsAreAnswered` |
| `ingestion` | 2 turns, 2 messages, a reasoning item, plans; 5 events, 3 pieces, buffers of one piece, 1 changed setting, ended session or failure | `TextIsWhatWasSaid`, `OnlyWhatWasSaid`, `CompletedOnce`, `BuffersAreReleased`; and, of the composed worker, `DrainReturnsIdle`, `DrainReturns` |
| `terminals` | 2 terminals, 3 requests, any number of outputs, 1 exit or failure, 1 inactive session retained, histories of 1 chunk | `ShellIsListedOrEvicted`, `FileIsHistory`, and `RequestsReturn` if all shells fall silent some time |
| `stream_gap` | 3 events | violation, finding 1 |
| `placeholder_in_sql` | 1 turn, 2 diffs | violation, finding 2 |
| `mid_turn_capture` | 1 turn, 1 diff, user waits | violation, finding 3 |
| `stuck_turn` | 2 turns, 1 restart | violation, finding 4 |

Why the bounds are enough. In the engine one command has a block of two events
and the other two depend on each other, so a failure or crash falls inside a
block, between commands, and between a commit and its publication; four
dispatches of three commands always repeat one. The page of two events is the
smallest that makes a replay of three incomplete; two breaks allow a
failed reconnection during a recovery. Two turns are the fewest with which a
worker can be late (busy with the first turn when the second one has started),
and one failure is the fewest with which a multi-step operation is torn; a
second one is needed for the report of the first to be lost, and a third at the
last step of a revert, which is reported twice. Three happenings are two turns
and one thing that comes between them, or one turn, another caller of the provider
service (a stop, a rollback, a sweep) and a failure, an exit or a restart that
hits both. A buffer of one piece spills at the second; three
pieces are buffered, spilled and buffered again. Three requests for two
terminals let a request find a session that another one evicted, closed or
restarted. Outputs are not counted, a shell may print for ever: a state
only has the last chunk, which is enough to tell a history that was cleared from one
that was not, as is one exit to leave the two inactive sessions an eviction takes;
the theorems of section 5 have all other histories. A turn that fails, as in
`checkpoint_races`, differs from one that completes in the status of its session and
its checkpoint only. `MaxTurns`,
`MaxDiffs`, `MaxReverts`, `MaxFailures`, `MaxItems`, `MaxSubmissions`,
`MaxDispatch`, `MaxCrashes`, `MaxReconcileFailures`, `MaxEvents`, `MaxBreaks`,
`MaxModes`, `MaxStops`, `MaxInterrupts`, `MaxRollbacks`, `MaxSweeps`, `MaxExits`,
`MaxErrors`, `MaxHappenings`, `MaxPieces`, `MaxTroubles`, `MaxWaiting` and
`MaxRequests` are bounds of the models; `ReadLimit`, `MaxMessages`,
`MaxCheckpoints`, `MaxPlans`, `MaxActivities`, `BufferLimit`, `HistoryLimit` and
`MaxRetained` stand for limits of the code (1000, 2000, 500, 200, 500, 24,000
characters, 5000 lines, 128). Deadlock is not checked where a system may
legitimately come to rest: nothing left to dispatch, to process or to send.

Fairness. The worker of the engine, the drainable and the keyed worker are
fibers in `Effect.forever` whose steps complete or fail, so each has weak
fairness of its whole step relation; a drain is a transaction retried whenever
the counter changes; in the client, microtasks (flush), timers (retry) and
requests (answered or failed) have it. Each caller of the provider service, and
each request of a terminal, is one fiber whose awaits return: the adapter
answers, a file is read or written, a semaphore is released by its holder. The
restart of the engine is fair since the desktop shell restarts the server. Users,
providers, shells, publications of new events, crashes and failures are never
fair. `RevertIsAnswered` needs the reactor only. Fairness does
not help a terminal request against a shell that never pauses, hence the condition of
`RequestsReturn` (below).

### What the properties depend on

- `Transactional = TRUE` is the SQLite store; the alternative exists because
  `OrchestrationEngine.test.ts:819` runs the engine over such a store. The
  theorems of section 5 that need it say so.
- `DrainReturns` excepts a worker whose process failed: the loop of
  `DrainableWorker.ts` ends then. The reactors therefore catch every failure of
  their process, except an interruption, which `RuntimeIngestion` keeps.
- `CheckpointsAreRestorable` is checked with diffs and with reverts, not with both
  at once.
- `CapturesAreNumbered` (the captured turns are counted from one without a gap) and
  the checkpoints of `RestartKeepsCheckpoints` are about a provider that reports no
  diffs while a turn runs and turns that end by themselves (`Uninterrupted`). With
  diffs, a capture and the *placeholder* of the next turn may share a count in the
  read model, because each takes the next count from a state that does not show
  the other (`ProviderRuntimeIngestion.ts:1332`), while the SQL rows, whose counts
  are unique, drop one of them; and the capture of an interrupted or
  cancelled turn, whose status is "missing" as well, passes for a placeholder in
  `CheckpointReactor.ts:405`, so that the reactor answers its own event: the turn is
  captured again, a little later, and shown as ready.
- `DiffHasBaseline` says that the baseline exists when it is needed, not that it is
  older than the first edit of the turn: the provider does not wait for it.
- `DiffHasBaseline` and `FilesAreTheLastCheckpoint` are checked for a provider
  that reports no diffs while a turn runs; with diffs the last is refuted (finding
  3), and the baseline of the first diff may be missing, because the reactor takes
  the count of the turn's own placeholder for that of the turn before.
- `RestartKeepsMessages` and `CheckpointsAreTheConversation` are about a user who
  waits until everything is processed. For one who does not, two messages sent
  before the turn starts are retained differently after a revert (the rows know
  the last one, the read model the oldest), and a turn whose end is processed
  when the next one is active never gets a checkpoint, so that a revert rolls back
  fewer turns than it names.
- `ActiveTurnIsRunning` and `RunningTurnIsShownWhileUp` hold while the server
  runs (finding 4 is the restart). The second also excepts the user's stop, which
  shows the thread as stopped, so that a later stop of a session recovered in
  between finds nothing to do, and errors of no turn: a line on stderr of the
  provider makes the ingestion clear the active turn while it is running. Both are
  about the settled system: the reaper may stop a session just after a turn was
  asked for, and a rollback that recovers a session may replace one that runs a
  turn, but the events of the closed session say so.
- `LiveSessionIsBound` holds while only the command reactor calls the service. A
  rollback that recovers the session between the two halves of the reaper's stop
  leaves a live session with the binding "stopped". It also excepts a session whose
  opening the directory failed to record (`adapter.unrecorded`): `startSession` and
  `resolveRoutableSession` write the binding after the adapter has opened the
  session and do not close it when that fails (`ProviderService.ts:257`, `402`), so
  that it lives with no binding or with a stopped one, and the reaper passes it over.
  The failure of any later write (`:465`, `:633`) is in scope.
- `TurnsAreAnswered` and `RevertIsAnswered` count a report that failed as the end of
  what it was about. The activity that tells the user of a failed turn or revert is a
  dispatch like any other. When it fails too, the command reactor logs it
  (`ProviderCommandReactor.ts:777-787`), and the checkpoint reactor swallows it for a
  request it refuses (`CheckpointReactor.ts:597` to `664`), tries once more for one it
  could not record (`700-707`, then `719-728`), and logs the last failure. The models
  have these outcomes ("untold"). What the properties exclude is that a turn or a
  request stays in progress, or that it ends without any attempt to say so.
- `RequestsReturn` is under the condition `ShellsFallSilent`. `drainKey` returns when
  its key has nothing left to write, and every output queues a new history: a shell
  that prints without a pause as long as a write takes keeps `clear`, `close` and
  `open` of its terminal waiting with the lock of the thread held
  (`terminal/Layers/Manager.ts:902-907`, `KeyedCoalescingWorker.ts:128-137`), and,
  as the one worker goes on with the same key, the histories of all other terminals,
  too. Without the condition TLC shows this loop.
- The session the ingestion writes is based on what it read before the dispatch. A
  mode the command reactor bound in between is overwritten with the old one until
  the next turn start; no property forbids it.
- `TextIsWhatWasSaid` and `OnlyWhatWasSaid` except a message in the middle of
  which streaming was switched on: the buffered pieces are sent after the streamed
  ones. A failed dispatch loses what was taken from the buffer for it.
- Every delta of `RuntimeIngestion` belongs to a turn. The code remembers a message
  for the end of its turn or session only if the event names a turn
  (`ProviderRuntimeIngestion.ts:1151-1154`): what is buffered for a message without
  one is released by the end of its item, or by the expiry of the cache.
  `BuffersAreReleased` says nothing of it.
- The dispatches of the ingestion fail in `RuntimeIngestion` and `Checkpointing`; in
  `ProviderSessions`, which is about the session the thread shows, they do not.
- `ShellIsListedOrEvicted` and `FileIsHistory` except sessions evicted in the
  middle of a request: a session that is starting counts as inactive, so with
  enough inactive sessions it may be dropped from the list while its shell is being
  started. No property covers that case. `FileIsHistory` also excepts failed writes, and a file deleted with its
  thread while a write of a session that is no longer listed was still waiting.

## 4. Findings

1. `ws.ts:1821`: the replay is read to its end before the subscription to the
   PubSub exists. An event published in between is in neither, and the reorder
   buffer waits for it for ever. (A client that sees nothing at all cannot ask
   for a replay either; it recovers when it reconnects.)
2. `ProjectionPipeline.ts:1510`: a placeholder dispatched from a stale read
   replaces a captured checkpoint in `projection_turns`. The projector has a guard
   against exactly this (`projector.ts:533`), the SQL projection has none, and the
   next start loads the rows.
3. `CheckpointReactor.ts:405`: the first diff of a running turn is captured as
   the checkpoint of the turn, and the capture at the end of the turn is then
   skipped, so that the checkpoint lacks the edits after the first diff.
4. `ProviderRuntimeIngestion.ts:1042`: a restart in the middle of a turn leaves
   the turn active in the thread. Recovery does not clear it, and the events of
   every later turn conflict with it and are ignored, until the session is stopped
   or started anew.

## 5. Proofs

All theorems hold for any values of the constants that satisfy the named
assumptions of the modules. Each follows from an inductive invariant, proved
with one step per action; TLC checked every invariant first.

- `OrchestrationEngineProofs`. `TypeCorrect` is inductive by itself. `IndInv` adds
  to the properties what the worker knows at each place: the staged events are the
  first events of the block of the current command, numbered behind the log
  (`StagedBlock`); while it decides and stages, the command has no receipt
  (`Undecided`); after the commit the receipt names the result; and the i-th event
  of the log has sequence i. Without these a commit could not be shown to append a
  whole block, nor that it is the first of its command. `CommandsTakeEffectOnce`,
  `AcknowledgementsAreDurable`, `ReadModelFollowsStore` and `OutcomesAreFinal`
  follow, for a transactional store. `PubSubInv` adds that the outbox holds the last
  events of the read model and that what a subscription was sent ends right before
  them; a new subscription starts at the same place, so `SubscriptionsFollowStore`.
  With the fact that a caller still waiting has not been answered (`CallerInv`), every
  step of the engine is a step of `CommandLog` or a stutter: the commit is `Accept`,
  the rejected receipt `Reject`, the completion `Answer`, the crash `Abandon`
  (`EngineImplementsCommandLog`).
- `KeyedCoalescingWorkerProofs`. The properties themselves plus what the hand holds
  in each phase: `KeysWaitInOnePlace`, `NoSubmissionIsLost`, `DrainKeyIsComplete`.
- `RuntimeIngestionProofs`. It begins with the `DrainableWorker` the ingestion extends:
  the numbers `1..enqueued` are handled, then in hand, then queued, in that order, and
  `outstanding` counts the last two: hence `DrainReturnsWhenIdle` and
  `ItemsAreProcessedInOrder`. Every step of the ingestion is a step of the worker or a
  stutter of it, whatever the handler does to its caches, so
  `IngestionIsADrainableWorker`, and what was proved of the worker holds for the
  ingestion (`IngestionDrainsIdle`). The other results rest on `Core`: events come
  in the order of their turns, each step left is one the handler makes for the event
  in hand, and a message is remembered under its own turn. `CompletedInv` says, for
  each message, that it was completed, may still be by a step left or by one event
  to come, but at most one of these: `MessagesAreCompletedOnce`. `ReleaseInv` says
  that a buffer is always remembered under its turn, that what is remembered is
  released by the end of a turn or session yet to come or by a step left, and
  that a flush stands before whatever forgets the buffer (`FlushedFirst`), without
  which text could be forgotten unsent: `CachesAreReleased`. `SaidInv` orders the
  pieces of a message by where they are, text before buffer before step in hand
  before events to come, which only holds while streaming is not switched on in
  between: `TextsAreInTheOrderSaid`. `KeptInv` is its converse, that nothing is missing,
  while no dispatch failed: every piece said is in the text, the buffer, a step in hand
  or an event to come (`Texts`), a message that is over is complete or has its
  completion coming (`Finishing`), and a plan gathers in its cache until it is in the
  thread (`Plans`). All three need `Ground`: which steps follow one another, which turns
  were cut off, and that only turns that began are cached. Hence `TextsAreWhatWasSaid`.
- `ProviderSessionsProofs`. What a caller, a queue or the ingestion holds is written
  to the thread and the adapter later, so `Inv` types all of them; it adds that a
  caller is opening a session exactly when it holds the lock of the adapter
  (`OneOpens`) and that a call on its way to deliver a turn or to unbind a session
  finds a binding (`Bound`): a binding is never removed, only marked as stopped.
  Hence `SessionsTypeCorrect`, with the exclusion of the adapter's lock, and
  `CallsAreBound`. `SInv` relates the thread to the adapter by way of what is on the
  way between them. `ActiveIsClosed`: whatever shows a turn that no longer runs,
  the thread, the session the ingestion read, the event in its hand or one still
  queued, is followed by an event that closes the turn; with `ReadIsCurrent` (what
  the ingestion read is what is shown, or nothing is) this is preserved although
  the ingestion writes what it read earlier: `ActiveTurnsRun`. `RunningAnnounced` is the
  converse, the start of the running turn is shown or still to come with nothing but
  its own errors behind it: `RunningTurnsAreShown`. `OwnSession` follows the one caller
  through the opening of a session: until the call that opened it returns, or for as
  long as the session lives if the directory failed to record it, a live session may be
  unbound, and at no other time, whatever later writes and reports fail:
  `LiveSessionsAreBound`. Most steps of these proofs only need to know what a step does
  to the running turn and the events, which `Elsewhere` says once for all.
- `CheckpointingProofs`. The read model and the rows are two folds of one event, so
  there is a layer of lemmas about their operators (what `UpsertCheckpoint`,
  `RetainCheckpoints`, `MaxCount`, the rows of an upsert and of a revert keep), then
  the effect of a dispatch on both, which is one of three: the checkpoints stand
  still (`Still`), one is recorded (`Recording`), or those past a count go. `Typed` types
  what every queue and job holds: `TypesAreCorrect`. `Answers` says that each
  request made has ended, told or not, or is queued or in hand; `AllRestorable` says that every captured
  checkpoint, in the read model and in the rows, has its ref, also in the middle of
  a revert, where the refs to be deleted are behind the ones kept
  (`CheckpointsStayRestorable`). `CapturesAreKept` is an action property: only a revert
  to an earlier count takes a capture from the read model. `Numbered` is the joint
  strengthening of `CheckpointsAreNumbered` and `RestartsKeepCheckpoints`: without
  reports of diffs no placeholder is in the thread or on its way, the i-th checkpoint
  has count i, the rows hold the same ones, and a capture in hand is the next.
  `Based` follows the refs down from the newest count (`AllHaveRefs`) and the first
  baseline from the first event the reactor hears (`HasBaseline`): `DiffsHaveBaselines`.
  The last two are about a user who waits (`Calm`) and about rest, so their
  invariants say how each phase of a turn and of a revert leads there. `Told`: at
  most one turn is being processed, and the session, the events queued and the job
  in hand are those of the latest turn, the last of the conversation (`OneTurn`); the
  checkpoints are those of the conversation one by one, except that the last turn
  may still wait for its capture (`History`, `Matching`), which some event or job
  then owes (`Complete`); and while a revert is processed nothing else is, and the
  conversation is cut to the count the checkpoints are about to be cut to
  (`GoesBack`): `CheckpointsAreTheTurns`. `FilesKept` adds the refs and the workspace:
  refs are those of the counts up to the last checkpoint, and the workspace holds
  the version of the last one whenever no turn is under way, restored before the
  conversation is rolled back: `FilesGoBackTogether`. It needs `MaxDiffs = 0`: a
  reported diff makes the reactor capture in the middle of a turn, and the run
  `mid_turn_capture` shows what that does to the files. Both assume that `None`, the
  null of the model, is not one of the events (`None \notin Seen`), without which it
  could not be told whether the ingestion holds one, and both hold only while
  nothing failed, as the properties themselves say. So does the theorem of the next
  module.
  All but the first two assume `MaxTurns <= MaxCheckpoints`: the read model keeps the
  newest 500 checkpoints, at most one for a turn, so a thread of more than 500 turns
  does lose its oldest ones. An earlier `TypeOK` said that no count exceeds the number
  of turns. It was true of two turns and could not be proved: placeholders can push the
  counts further with three. The clause is gone.
- `CheckpointMessagesProofs` goes on from there, for the same user who waits. The
  messages of a thread are cut by two rules: the projector, which does not know which
  turn a user message belongs to, retains the first as many as there are checkpoints
  left, in the order of time, and the pipeline the messages that the remaining turn
  rows own. `Heard` says why they agree. `Ascending`: turns are remembered in the order
  asked for; `Counted`: the rows have checkpoints of the same turns, with the same
  counts, as the read model; `Gathered`: the rows hold exactly the messages of the read
  model, and not too many; `Spoken`: one user message for each turn asked for, in their
  order, and at most one of the assistant for each turn that ended; `Owned`: the row of
  a turn owns its messages, and lacks that of the user only while the turn start is
  pending. At a revert both rules then retain the messages of the turns kept
  (`PrunedAlike`), and what a restart reads back, sorted by time and id, has the same
  members as the rows (`RowsReadBack`): `RestartsKeepMessages`. Besides
  `MaxTurns <= MaxCheckpoints` it assumes that two messages for each turn fit in the
  thread, `2 * MaxTurns <= MaxMessages` (2000 in the code): the projector drops the
  oldest beyond the cap and the rows do not.
- `TerminalsProofs`. `Safe` says that a session and the process of its shell know each
  other, that whatever is listed for a terminal is a session of it, and what a
  request knows of its object while it waits: no shell when one is about to be
  started, listed unless it was evicted, and nothing listed while a file is read
  for a new session. `Safe` is a predicate of values, shown first for what a
  request makes of the sessions and then to survive the eviction that follows
  (`EvictionSafe`). Without the clause on requests a start could not be shown to
  add a shell to a session that has none. Hence `TerminalsTypeCorrect` and
  `ShellsAreListed`. `FilesKept` relates the newest session of a terminal to what its
  file will hold when the worker is done with it: what waits for the worker, else
  what it is writing, else the file. The listed session is the newest and was not
  deleted, and while a request reads the file the worker has nothing to write
  there. A step leaves a terminal alone, writes the history of its listed session
  or gives it a new one; the exceptions (a failed write, an eviction in use) last.
  Hence `FilesAreHistories`.

- `ClientSyncProofs`. `Inv` has four parts. The stream: what is emitted ends at `next`,
  so the next event the client gets is `next - Len(out)`. The request in flight: a
  snapshot is not behind the store nor what waits for the flush (`SnapshotFits`); a
  replay goes on where it was asked to, and is not empty when the tracker knows of a
  stored event behind that place (`ReplayFits`). The buffer: at most its last event is
  new, and it is the next one (`Waits`), and a live subscription has not emitted it
  again (`Ahead`), so any batch that is applied is new from some place on without gaps
  (`Run`), for which the filter and sort of `markEventBatchApplied` yield the events
  right behind the store (`FreshRun`). And `Accounted`: what was seen and not applied
  waits for the flush, a timer or a request. The step that needs `ReplayFits` is the
  retry that gives up: it only does so when the frontier has not moved since an
  earlier attempt, and then the answer was not empty, so the replay made progress.
  Here the proof needs `MAX_NO_PROGRESS_REPLAY_RETRIES` to be at least 1 (it is 3).
  Hence `SyncTypeCorrect`, `StreamInOrder`, `StoreFollowsServer`, `NothingForgotten`
  and, as every step leaves the store of the client or the log alone and moves the
  other forward, `ReplicaImplemented`.

Only model-checked: all liveness, which is out of the reach of the prover. Every
safety invariant and action property of the passing runs is stated by a theorem.
Where the code sorts or filters, `Projector` has recursive functions and a fold of a
community module, because the provers cannot look into recursive operators nor take
operators as arguments, which the library's induction theorems do; what the proofs
need of them is shown by a least counterexample (`WFMin`), one operator at a time.

## 6. Not modelled, and the plan

Not modelled because there is no protocol in them, or only an external one:
protocol clients and the translations of the provider adapters, git plumbing,
workspace listings, settings, keybindings, usage, telemetry, user interface,
migrations.

Planned, in this order:

1. `CommandGate` and the lifecycle subscription: queued commands keep their order
   and are settled in the end.
2. `AuthSessions`: one-time credentials are consumed once.
3. Approvals and user input of the provider in `ProviderSessions`.
