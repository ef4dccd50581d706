------------------------ MODULE OrchestrationEngine ------------------------
(***************************************************************************)
(* The orchestration engine of the server: one worker that takes command   *)
(* envelopes from an unbounded queue, looks up the receipt of the command  *)
(* id, lets the decider turn the command into events, appends and projects *)
(* them in one SQL transaction together with an "accepted" receipt,        *)
(* replaces the in-memory read model, publishes the events, and completes  *)
(* the caller's Deferred.                                                  *)
(*                                                                         *)
(* Every step of the worker that reaches the database may fail, and the    *)
(* process may stop between any two steps.  Durable state is the event     *)
(* store and the receipts; everything else is gone after a crash.          *)
(*                                                                         *)
(* The read model is represented by the sequence of events that were       *)
(* projected into it: the projector is a deterministic fold, so this is    *)
(* the finest thing one can say of it, and a lost, repeated or reordered   *)
(* projection is visible.                                                  *)
(***************************************************************************)
EXTENDS Naturals, Sequences

CONSTANTS
  Command,        \* command ids
  Body,           \* what an event says, beyond its sequence and its command
  Events,         \* Events[c]: the events the decider returns for c when the
                  \* invariants of c hold
  Allowed(_, _),  \* Allowed(c, m): the invariants of c hold in read model m
  Subscriber,     \* the consumers of streamDomainEvents
  Transactional,  \* FALSE: an event store whose appends survive a rollback
  MaxDispatch,    \* bound: commands dispatched in one behaviour
  MaxFailures,    \* bound: failing database steps in one behaviour
  MaxReconcileFailures,  \* bound: failing reconciliations
  MaxCrashes      \* bound: process crashes

ASSUME EventsAssumption == Events \in [Command -> Seq(Body) \ {<<>>}]
ASSUME BoundsAssumption ==
  /\ MaxDispatch \in Nat /\ MaxFailures \in Nat
  /\ MaxReconcileFailures \in Nat /\ MaxCrashes \in Nat
  /\ Transactional \in BOOLEAN

VARIABLES
  log,        \* durable: the orchestration_events table
  receipts,   \* durable: the orchestration_command_receipts table
  up,         \* the process runs
  readModel,  \* the events projected into the in-memory read model
  queue,      \* commandQueue: numbers of the dispatches not yet taken
  phase,      \* where the worker is in processEnvelope
  req,        \* the dispatch it processes (0 when idle)
  start,      \* dispatchStartSequence
  outcome,    \* what it will tell the caller
  result,     \* the sequence it will tell the caller
  staged,     \* events appended by the open, or just committed, transaction
  outbox,     \* events it still has to publish
  active,     \* the subscriptions to eventPubSub
  since,      \* since[s]: the last event published before s subscribed
  inbox,      \* inbox[s]: the events s received
  requests,   \* history: the command of every dispatch
  replies,    \* history: what the caller of every dispatch was told
  budget      \* what is left of the bounds on failures and crashes

store   == <<log, receipts>>
job     == <<phase, req, start, outcome, result, staged, outbox>>
pubsub  == <<active, since, inbox>>
callers == <<requests, replies>>
vars    == <<store, up, readModel, queue, job, pubsub, callers, budget>>

(*************************** Values and types ******************************)
Event == [seq: Nat \ {0}, cmd: Command, body: Body]  \* AUTOINCREMENT starts at 1

NoReceipt == [status |-> "none", seq |-> 0]
Receipt == [status: {"none", "accepted", "rejected"}, seq: Nat]

Pending == [status |-> "pending", seq |-> 0]
Lost == [status |-> "lost", seq |-> 0]
Reply == [status: {"pending", "lost", "ok", "previouslyRejected", "error"},
          seq: Nat]

Phase == {"idle", "lookup", "transaction", "apply", "publish",
          "reconcile", "reject", "reply"}
Outcome == {"ok", "invariant", "persistence", "previouslyRejected"}

TypeOK ==
  /\ log \in Seq(Event)
  /\ receipts \in [Command -> Receipt]
  /\ up \in BOOLEAN
  /\ readModel \in Seq(Event)
  /\ queue \in Seq(DOMAIN requests)
  /\ phase \in Phase
  /\ req \in Nat /\ (phase # "idle" => req \in DOMAIN requests)
  /\ start \in Nat
  /\ outcome \in Outcome
  /\ result \in Nat
  /\ staged \in Seq(Event)
  /\ outbox \in Seq(Event)
  /\ active \subseteq Subscriber
  /\ since \in [Subscriber -> Nat]
  /\ inbox \in [Subscriber -> Seq(Event)]
  /\ requests \in Seq(Command)
  /\ replies \in Seq(Reply) /\ Len(replies) = Len(requests)
  /\ budget \in [{"failure", "reconcile", "crash"} -> Nat]

(******************************* Helpers ***********************************)
(* snapshotSequence of a read model: the sequence of the last projected event *)
SnapshotSequence(m) == IF m = <<>> THEN 0 ELSE m[Len(m)].seq

Current == requests[req]

Awaiting(n) == n \in DOMAIN replies /\ replies[n] = Pending

(* Something that happens a bounded number of times happens once more. *)
Spend(kind) ==
  /\ budget[kind] > 0
  /\ budget' = [budget EXCEPT ![kind] = @ - 1]

(* The worker has nothing in hand: it waits on the queue. *)
Rest ==
  /\ phase' = "idle" /\ req' = 0 /\ start' = 0 /\ outcome' = "ok"
  /\ result' = 0 /\ staged' = <<>> /\ outbox' = <<>>

Init ==
  /\ log = <<>>
  /\ receipts = [c \in Command |-> NoReceipt]
  /\ up = TRUE
  /\ readModel = <<>>
  /\ queue = <<>>
  /\ phase = "idle" /\ req = 0 /\ start = 0 /\ outcome = "ok" /\ result = 0
  /\ staged = <<>> /\ outbox = <<>>
  /\ active = {}
  /\ since = [s \in Subscriber |-> 0]
  /\ inbox = [s \in Subscriber |-> <<>>]
  /\ requests = <<>> /\ replies = <<>>
  /\ budget = [k \in {"failure", "reconcile", "crash"} |->
                 CASE k = "failure"   -> MaxFailures
                   [] k = "reconcile" -> MaxReconcileFailures
                   [] k = "crash"     -> MaxCrashes]

(******************************* Callers ***********************************)
(* dispatch: make a Deferred, offer the envelope and wait.  The same command *)
(* may be dispatched any number of times: clients retry with its id.         *)
Dispatch(c) ==
  /\ up
  /\ Len(requests) < MaxDispatch
  /\ requests' = Append(requests, c)
  /\ replies' = Append(replies, Pending)
  /\ queue' = Append(queue, Len(requests) + 1)
  /\ UNCHANGED <<store, up, readModel, job, pubsub, budget>>

(* Running a fresh streamDomainEvents: only events published from now on. *)
Subscribe(s) ==
  /\ up
  /\ s \notin active
  /\ active' = active \union {s}
  /\ since' = [since EXCEPT ![s] = IF outbox = <<>>
                                   THEN SnapshotSequence(readModel)
                                   ELSE Head(outbox).seq - 1]
  /\ inbox' = [inbox EXCEPT ![s] = <<>>]
  /\ UNCHANGED <<store, up, readModel, queue, job, callers, budget>>

(***************************** The worker **********************************)
(* Queue.take; dispatchStartSequence is read when processing begins. *)
Take ==
  /\ up
  /\ phase = "idle"
  /\ queue # <<>>
  /\ queue' = Tail(queue)
  /\ phase' = "lookup"
  /\ req' = Head(queue)
  /\ start' = SnapshotSequence(readModel)
  /\ UNCHANGED <<store, up, readModel, outcome, result, staged, outbox, pubsub,
                 callers, budget>>

(* Mutant: a retry is answered with the current snapshot sequence. *)
LookupHitCurrentSequence ==
  /\ up
  /\ phase = "lookup"
  /\ receipts[Current].status # "none"
  /\ phase' = "reply"
  /\ outcome' = IF receipts[Current].status = "accepted" THEN "ok"
                ELSE "previouslyRejected"
  /\ result' = SnapshotSequence(readModel)
  /\ UNCHANGED <<store, up, readModel, queue, req, start, staged, outbox,
                 pubsub, callers, budget>>

(* getByCommandId finds a receipt: the command was decided before. *)
LookupHit ==
  /\ up
  /\ phase = "lookup"
  /\ receipts[Current].status # "none"
  /\ phase' = "reply"
  /\ outcome' = IF receipts[Current].status = "accepted" THEN "ok"
                ELSE "previouslyRejected"
  /\ result' = receipts[Current].seq
  /\ UNCHANGED <<store, up, readModel, queue, req, start, staged, outbox,
                 pubsub, callers, budget>>

LookupFails ==
  /\ up
  /\ phase = "lookup"
  /\ Spend("failure")
  /\ phase' = "reconcile"
  /\ outcome' = "persistence"
  /\ UNCHANGED <<store, up, readModel, queue, req, start, result, staged,
                 outbox, pubsub, callers>>

(* Mutant: only accepted receipts stop a command from being decided again. *)
DecideAllowedAfterRejection ==
  /\ up
  /\ phase = "lookup"
  /\ receipts[Current].status # "accepted"
  /\ Allowed(Current, readModel)
  /\ phase' = "transaction"
  /\ UNCHANGED <<store, up, readModel, queue, req, start, outcome, result,
                 staged, outbox, pubsub, callers, budget>>

(* No receipt: decideOrchestrationCommand on the current read model. *)
DecideAllowed ==
  /\ up
  /\ phase = "lookup"
  /\ receipts[Current].status = "none"
  /\ Allowed(Current, readModel)
  /\ phase' = "transaction"
  /\ UNCHANGED <<store, up, readModel, queue, req, start, outcome, result,
                 staged, outbox, pubsub, callers, budget>>

DecideRefused ==
  /\ up
  /\ phase = "lookup"
  /\ receipts[Current].status = "none"
  /\ ~Allowed(Current, readModel)
  /\ phase' = "reconcile"
  /\ outcome' = "invariant"
  /\ UNCHANGED <<store, up, readModel, queue, req, start, result, staged,
                 outbox, pubsub, callers, budget>>

(* The row appended next: it gets the next sequence number of the table.     *)
NextEvent ==
  [seq  |-> 1 + Len(log) + (IF Transactional THEN Len(staged) ELSE 0),
   cmd  |-> Current,
   body |-> Events[Current][Len(staged) + 1]]

(* Mutant: an event is published as soon as it is appended. *)
AppendEventPublishing ==
  /\ up
  /\ phase = "transaction"
  /\ Len(staged) < Len(Events[Current])
  /\ staged' = Append(staged, NextEvent)
  /\ log' = IF Transactional THEN log ELSE Append(log, NextEvent)
  /\ inbox' = [s \in Subscriber |-> IF s \in active
                                    THEN Append(inbox[s], NextEvent)
                                    ELSE inbox[s]]
  /\ UNCHANGED <<receipts, up, readModel, queue, phase, req, start, outcome,
                 result, outbox, active, since, callers, budget>>

(* One turn of the loop inside withTransaction: append, project in memory,   *)
(* project into SQL.                                                         *)
AppendEvent ==
  /\ up
  /\ phase = "transaction"
  /\ Len(staged) < Len(Events[Current])
  /\ staged' = Append(staged, NextEvent)
  /\ log' = IF Transactional THEN log ELSE Append(log, NextEvent)
  /\ UNCHANGED <<receipts, up, readModel, queue, phase, req, start, outcome,
                 result, outbox, pubsub, callers, budget>>

(* An append, a projection, the receipt or the commit fails: SQL rolls back. *)
TransactionFails ==
  /\ up
  /\ phase = "transaction"
  /\ Spend("failure")
  /\ phase' = "reconcile"
  /\ outcome' = "persistence"
  /\ staged' = <<>>
  /\ UNCHANGED <<store, up, readModel, queue, req, start, result, outbox,
                 pubsub, callers>>

(* Mutant: the receipt is forgotten. *)
CommitWithoutReceipt ==
  /\ up
  /\ phase = "transaction"
  /\ Len(staged) = Len(Events[Current])
  /\ result' = staged[Len(staged)].seq
  /\ log' = IF Transactional THEN log \o staged ELSE log
  /\ phase' = "apply"
  /\ UNCHANGED <<receipts, up, readModel, queue, req, start, outcome, staged,
                 outbox, pubsub, callers, budget>>

(* Mutant: the receipt names the first event of the block. *)
CommitFirstSequence ==
  /\ up
  /\ phase = "transaction"
  /\ Len(staged) = Len(Events[Current])
  /\ result' = staged[1].seq
  /\ receipts' = [receipts EXCEPT ![Current] =
                    [status |-> "accepted", seq |-> result']]
  /\ log' = IF Transactional THEN log \o staged ELSE log
  /\ phase' = "apply"
  /\ UNCHANGED <<up, readModel, queue, req, start, outcome, staged, outbox,
                 pubsub, callers, budget>>

(* The accepted receipt is written and the transaction commits. *)
Commit ==
  /\ up
  /\ phase = "transaction"
  /\ Len(staged) = Len(Events[Current])
  /\ result' = staged[Len(staged)].seq
  /\ receipts' = [receipts EXCEPT ![Current] =
                    [status |-> "accepted", seq |-> result']]
  /\ log' = IF Transactional THEN log \o staged ELSE log
  /\ phase' = "apply"
  /\ UNCHANGED <<up, readModel, queue, req, start, outcome, staged, outbox,
                 pubsub, callers, budget>>

(* readModel = committedCommand.nextReadModel *)
ApplyReadModel ==
  /\ up
  /\ phase = "apply"
  /\ readModel' = readModel \o staged
  /\ outbox' = staged
  /\ staged' = <<>>
  /\ phase' = "publish"
  /\ UNCHANGED <<store, up, queue, req, start, outcome, result, pubsub,
                 callers, budget>>

(* PubSub.publish of one event: every subscription that exists receives it. *)
Publish ==
  /\ up
  /\ phase = "publish"
  /\ outbox # <<>>
  /\ inbox' = [s \in Subscriber |->
                 IF s \in active THEN Append(inbox[s], Head(outbox))
                 ELSE inbox[s]]
  /\ outbox' = Tail(outbox)
  /\ UNCHANGED <<store, up, readModel, queue, phase, req, start, outcome,
                 result, staged, active, since, callers, budget>>

(* All is published: a success, or a failure that has been reconciled. *)
Published ==
  /\ up
  /\ phase = "publish"
  /\ outbox = <<>>
  /\ phase' = IF outcome = "invariant" THEN "reject" ELSE "reply"
  /\ UNCHANGED <<store, up, readModel, queue, req, start, outcome, result,
                 staged, outbox, pubsub, callers, budget>>

(* Mutant: the store is read from its beginning. *)
ReconcileFromStart ==
  /\ up
  /\ phase = "reconcile"
  /\ readModel' = readModel \o log
  /\ outbox' = log
  /\ phase' = "publish"
  /\ UNCHANGED <<store, up, queue, req, start, outcome, result, staged, pubsub,
                 callers, budget>>

(* reconcileReadModelAfterDispatchFailure: project and publish whatever the  *)
(* store holds beyond dispatchStartSequence.                                 *)
Reconcile ==
  /\ up
  /\ phase = "reconcile"
  /\ LET persisted == SubSeq(log, start + 1, Len(log))
     IN  /\ readModel' = readModel \o persisted
         /\ outbox' = persisted
  /\ phase' = "publish"
  /\ UNCHANGED <<store, up, queue, req, start, outcome, result, staged, pubsub,
                 callers, budget>>

(* Reading the store back fails: logged and swallowed. *)
ReconcileFails ==
  /\ up
  /\ phase = "reconcile"
  /\ Spend("reconcile")
  /\ phase' = IF outcome = "invariant" THEN "reject" ELSE "reply"
  /\ UNCHANGED <<store, up, readModel, queue, req, start, outcome, result,
                 staged, outbox, pubsub, callers>>

(* The upsert of the rejected receipt, outside any transaction. *)
RecordRejection ==
  /\ up
  /\ phase = "reject"
  /\ receipts' = [receipts EXCEPT ![Current] =
                    [status |-> "rejected", seq |-> SnapshotSequence(readModel)]]
  /\ phase' = "reply"
  /\ UNCHANGED <<log, up, readModel, queue, req, start, outcome, result, staged,
                 outbox, pubsub, callers, budget>>

(* The upsert fails: swallowed, the command stays undecided. *)
RecordRejectionFails ==
  /\ up
  /\ phase = "reject"
  /\ Spend("failure")
  /\ phase' = "reply"
  /\ UNCHANGED <<store, up, readModel, queue, req, start, outcome, result,
                 staged, outbox, pubsub, callers>>

(* What the caller is told; the errors of the engine look alike to it. *)
ReplyOf(o) ==
  CASE o = "ok" -> [status |-> "ok", seq |-> result]
    [] o = "previouslyRejected" -> [status |-> "previouslyRejected", seq |-> 0]
    [] OTHER -> [status |-> "error", seq |-> 0]

(* Mutant: the Deferred of a failed command is never completed. *)
CompleteDeferredSuccessOnly ==
  /\ up
  /\ phase = "reply"
  /\ replies' = IF outcome = "ok" THEN [replies EXCEPT ![req] = ReplyOf(outcome)]
                ELSE replies
  /\ Rest
  /\ UNCHANGED <<store, up, readModel, queue, pubsub, requests, budget>>

(* Deferred.succeed or Deferred.fail; the worker goes back to the queue. *)
CompleteDeferred ==
  /\ up
  /\ phase = "reply"
  /\ replies' = [replies EXCEPT ![req] = ReplyOf(outcome)]
  /\ Rest
  /\ UNCHANGED <<store, up, readModel, queue, pubsub, requests, budget>>

(**************************** Crash and restart *****************************)
(* The process stops: an open transaction is rolled back, the queue, the     *)
(* subscriptions and the Deferreds are gone.                                 *)
Crash ==
  /\ up
  /\ Spend("crash")
  /\ up' = FALSE
  /\ readModel' = <<>>
  /\ queue' = <<>>
  /\ Rest
  /\ active' = {}
  /\ since' = [s \in Subscriber |-> 0]
  /\ inbox' = [s \in Subscriber |-> <<>>]
  /\ replies' = [n \in DOMAIN replies |->
                   IF replies[n] = Pending THEN Lost ELSE replies[n]]
  /\ UNCHANGED <<store, requests>>

(* projectionPipeline.bootstrap, then readModel = getSnapshot(); the worker   *)
(* is forked only afterwards.                                                *)
Restart ==
  /\ ~up
  /\ up' = TRUE
  /\ readModel' = log
  /\ UNCHANGED <<store, queue, job, pubsub, callers, budget>>

(***************************** Specification *******************************)
WorkerStep ==
  \/ Take
  \/ LookupHit \/ LookupFails
  \/ DecideAllowed \/ DecideRefused
  \/ AppendEvent \/ TransactionFails \/ Commit
  \/ ApplyReadModel \/ Publish \/ Published
  \/ Reconcile \/ ReconcileFails
  \/ RecordRejection \/ RecordRejectionFails
  \/ CompleteDeferred

Next ==
  \/ \E c \in Command: Dispatch(c)
  \/ \E s \in Subscriber: Subscribe(s)
  \/ WorkerStep
  \/ Crash
  \/ Restart

Spec == Init /\ [][Next]_vars

(* The worker fiber is forked with Effect.forever and every step it waits    *)
(* for completes or fails, so a step it can take is taken in the end; a      *)
(* supervisor (the desktop shell, or the user) starts the process again.     *)
FairSpec == Spec /\ WF_vars(WorkerStep) /\ WF_vars(Restart)

(***************************** Properties **********************************)
EventsOfCommand(es, c) == {i \in DOMAIN es: es[i].cmd = c}

(* The events of c in es are its whole block, in order, ending at n.         *)
BlockEndsAt(es, c, n) ==
  LET k == Len(Events[c])
  IN  /\ k <= n /\ n <= Len(es)
      /\ EventsOfCommand(es, c) = (n - k + 1) .. n
      /\ \A i \in 1 .. k: es[n - k + i].body = Events[c][i]

(* Exactly once.  A command has events in the store if and only if its       *)
(* receipt says accepted; then they are its whole block, contiguous, in      *)
(* order, and the receipt names the last of them.  Retries, rollbacks in the *)
(* middle of a block and crashes between two steps never leave half a block, *)
(* a second block, or a block without a receipt.                             *)
ExactlyOnce ==
  \A c \in Command:
    /\ receipts[c].status = "accepted" => BlockEndsAt(log, c, receipts[c].seq)
    /\ receipts[c].status # "accepted" => EventsOfCommand(log, c) = {}

(* A receipt is final: no retry, failure or restart changes a recorded       *)
(* outcome, and the event store only grows.                                  *)
OutcomesFinal ==
  [][/\ \A c \in Command:
          receipts[c].status # "none" => receipts'[c] = receipts[c]
     /\ Len(log) <= Len(log')
     /\ \A i \in DOMAIN log: log'[i] = log[i]]_vars

(* An acknowledgement is durable: every caller that was told "ok, sequence   *)
(* n" was told so of a committed block ending at n, and all callers of one   *)
(* command are told the same n, whatever crashed or was retried between.     *)
AcknowledgedIsCommitted ==
  \A n \in DOMAIN requests:
    /\ replies[n].status = "ok" =>
         receipts[requests[n]] = [status |-> "accepted", seq |-> replies[n].seq]
    /\ replies[n].status = "previouslyRejected" =>
         receipts[requests[n]].status = "rejected"

(* The read model the decider and every reader see is the fold of exactly    *)
(* the committed events, except between the commit and the assignment that   *)
(* follows it, when it lacks exactly the block just committed.               *)
ReadModelIsStore ==
  up => log = IF phase = "apply" THEN readModel \o staged ELSE readModel

(* A subscription receives every event published since it began, once, in    *)
(* order and without gaps: nothing of a rolled-back block, and nothing       *)
(* missing once the worker is idle.                                          *)
SubscribersSeeStore ==
  \A s \in active:
    LET last == since[s] + Len(inbox[s])
    IN  /\ last <= Len(log)
        /\ \A i \in DOMAIN inbox[s]: inbox[s][i] = log[since[s] + i]
        /\ phase = "idle" => last = Len(log)

(* Every dispatch is answered: the queue never wedges on a failing command,  *)
(* and a caller stops waiting at the latest when the process stops.          *)
EveryDispatchAnswered ==
  \A n \in 1 .. MaxDispatch: Awaiting(n) ~> ~Awaiting(n)

(* The engine implements the abstract command log: the log without the       *)
(* sequence numbers is the ledger, the receipts are the outcomes.            *)
Unnumbered(es) == [i \in DOMAIN es |-> [cmd |-> es[i].cmd, body |-> es[i].body]]

CL == INSTANCE CommandLog WITH
        ledger <- Unnumbered(log), outcome <- receipts,
        calls <- requests, answers <- replies

ImplementsCommandLog == CL!Spec
=============================================================================
