------------------------------ MODULE ClientSync ------------------------------
(***************************************************************************)
(* One environment connection of the web client (connection.ts, with the   *)
(* subscription loop of wsTransport.ts) against one server: live events    *)
(* through DomainEventStream, snapshots and replays by request, and the    *)
(* recovery coordinator that decides which of them to use.                 *)
(*                                                                         *)
(* The client's store is the snapshot it was last given (base: the state   *)
(* after the first base events) and the events applied on top of it.       *)
(***************************************************************************)
EXTENDS DomainEventStream, OrchestrationRecovery, FiniteSets

CONSTANT MaxFailures   \* bound: snapshot and replay requests that fail for good

ASSUME SyncAssumption == MaxFailures \in Nat

VARIABLES
  co,        \* the recovery coordinator
  tracker,   \* replayRetryTracker
  buffer,    \* pendingDomainEvents: its flush is a scheduled microtask
  base,      \* the snapshot in the store
  applied,   \* the events applied to the store since
  rpc,       \* the request of co.inFlight: "none", "asked" or "answered"
  answer,    \* what the server answered
  timers,    \* delayed replays that have not started
  received,  \* hasReceivedValue: the subscription ever delivered a value
  failures   \* bound used so far

store  == <<base, applied>>
client == <<co, tracker, buffer, store, rpc, answer, timers, received, failures>>
vars   == <<stream, client>>

ClientTyped ==
  /\ co \in Recovery /\ tracker \in Tracker
  /\ buffer \in Seq(1 .. stored)
  /\ base \in Nat /\ applied \in Seq(Nat)
  /\ rpc \in {"none", "asked", "answered"} /\ answer \in Seq(Nat)
  /\ timers \in Nat /\ received \in BOOLEAN

(* The types of all variables, bounds included. *)
TypeOK == StreamTypeOK /\ ClientTyped /\ failures \in 0 .. MaxFailures

(* The connection is made: the subscription and ensureSnapshotRecovery start. *)
Init ==
  /\ StreamInit
  /\ co = Begun(NewRecovery, "snapshot") /\ tracker = NoTracker
  /\ buffer = <<>> /\ base = 0 /\ applied = <<>>
  /\ rpc = "asked" /\ answer = <<>>
  /\ timers = 0 /\ received = FALSE /\ failures = 0

(******************************* Helpers ***********************************)
(* The last event of a batch once it is sorted; 0 when there is none. *)
Newest(events) ==
  IF events = <<>> THEN 0
  ELSE events[CHOOSE i \in DOMAIN events: \A j \in DOMAIN events: events[j] <= events[i]]

(* Mutant: events are applied without looking at what has been applied. *)
FreshUnfiltered(events) == events

(* markEventBatchApplied keeps the events that are new and sorts them. *)
Fresh(events) ==
  LET new == {i \in DOMAIN events: events[i] > co.latestSequence}
      rank == [i \in new |-> Cardinality({j \in new: \/ events[j] < events[i]
                                                     \/ events[j] = events[i] /\ j <= i})]
  IN  [k \in 1 .. Cardinality(new) |-> events[CHOOSE i \in new: rank[i] = k]]

(* beginReplayRecovery in state r; when it may begin, the request goes out. *)
StartReplay(r) ==
  /\ co' = Begun(r, "replay")
  /\ rpc' = IF MayBegin(r, "replay") THEN "asked" ELSE rpc
  /\ answer' = IF MayBegin(r, "replay") THEN <<>> ELSE answer

(* flushPendingDomainEvents, continuing in state r. *)
FlushBuffer ==
  /\ applied' = applied \o Fresh(buffer)
  /\ buffer' = <<>>
Flushed(r) == Applied(r, Newest(buffer))

(***************************** Live events *********************************)
Receive ==
  /\ out # <<>>
  /\ out' = Tail(out)
  /\ received' = TRUE
  /\ UNCHANGED <<engine, stage, merge, breaks, base, tracker, timers, failures>>

Deliver ==
  /\ Receive
  /\ Verdict(co, Head(out)) # "recover"
  /\ co' = Classified(co, Head(out))
  /\ buffer' = IF Verdict(co, Head(out)) = "apply" THEN Append(buffer, Head(out))
               ELSE buffer
  /\ UNCHANGED <<applied, rpc, answer>>

(* A gap: flush what was accepted, then replay. *)
DeliverGap ==
  /\ Receive
  /\ Verdict(co, Head(out)) = "recover"
  /\ FlushBuffer
  /\ StartReplay(Flushed(Classified(co, Head(out))))

Flush ==
  /\ buffer # <<>>
  /\ FlushBuffer
  /\ co' = Flushed(co)
  /\ UNCHANGED <<stream, tracker, base, rpc, answer, timers, received, failures>>

(****************************** Requests ***********************************)
(* The server reads its projections or its store at some moment between      *)
(* request and response.                                                     *)
Respond ==
  /\ rpc = "asked"
  /\ rpc' = "answered"
  /\ answer' = IF co.inFlight = "snapshot" THEN <<stored>>
               ELSE ReadEvents(co.replayStart)
  /\ UNCHANGED <<stream, co, tracker, buffer, store, timers, received, failures>>

(* Mutant: the events deferred during the snapshot are forgotten. *)
SnapshotArrivesForgetting ==
  /\ rpc = "answered" /\ co.inFlight = "snapshot"
  /\ base' = answer[1] /\ applied' = <<>>
  /\ co' = Resolved(SnapshotCompleted(co, answer[1]))
  /\ rpc' = "none" /\ answer' = <<>>
  /\ UNCHANGED <<stream, tracker, buffer, timers, received, failures>>

(* syncSnapshot and completeSnapshotRecovery: replay if anything newer was   *)
(* seen meanwhile.                                                           *)
SnapshotArrives ==
  /\ rpc = "answered" /\ co.inFlight = "snapshot"
  /\ base' = answer[1] /\ applied' = <<>>
  /\ LET r == SnapshotCompleted(co, answer[1])
     IN  IF NeedsReplay(r) THEN StartReplay(Resolved(r))
         ELSE co' = Resolved(r) /\ rpc' = "none" /\ answer' = <<>>
  /\ UNCHANGED <<stream, tracker, buffer, timers, received, failures>>

(* The replayed events are applied; then the coordinator decides whether to  *)
(* replay again now, later or not at all.                                    *)
ReplayArrives ==
  /\ rpc = "answered" /\ co.inFlight = "replay"
  /\ applied' = applied \o Fresh(answer)
  /\ LET r == Applied(co, Newest(answer))
         done == ReplayCompleted(r)
         decision == RetryDecision(tracker, Resolved(done), NeedsReplay(done),
                                   ReplayMadeProgress(r))
     IN  /\ tracker' = decision.tracker
         /\ timers' = IF decision.retry = "later" THEN timers + 1 ELSE timers
         /\ IF decision.retry = "now" THEN StartReplay(Resolved(done))
            ELSE co' = Resolved(done) /\ rpc' = "none" /\ answer' = <<>>
  /\ UNCHANGED <<stream, buffer, base, received, failures>>

ReplayTimer ==
  /\ timers > 0
  /\ timers' = timers - 1
  /\ StartReplay(co)
  /\ UNCHANGED <<stream, tracker, buffer, store, received, failures>>

Fail ==
  /\ rpc # "none"
  /\ failures < MaxFailures
  /\ failures' = failures + 1
  /\ answer' = <<>>
  /\ UNCHANGED <<stream, buffer, store, timers, received>>

(* The client gives up bootstrapping until something asks for it again. *)
SnapshotFails ==
  /\ Fail
  /\ co.inFlight = "snapshot"
  /\ co' = SnapshotFailed(co)
  /\ rpc' = "none"
  /\ UNCHANGED tracker

(* A failed replay falls back to a snapshot. *)
ReplayFails ==
  /\ Fail
  /\ co.inFlight = "replay"
  /\ co' = Begun(ReplayFailed(co), "snapshot")
  /\ rpc' = "asked"
  /\ tracker' = NoTracker

(* ensureBootstrapped, also by reconnect() of a saved environment. *)
EnsureBootstrapped ==
  /\ ~co.bootstrapped /\ co.inFlight = "none"
  /\ co' = Begun(co, "snapshot")
  /\ rpc' = "asked" /\ answer' = <<>>
  /\ UNCHANGED <<stream, tracker, buffer, store, timers, received, failures>>

(**************************** Connections **********************************)
(* The subscription loop tries again; its hook runs before the new stream is  *)
(* asked for, and only if the old ones ever delivered a value.               *)
Resubscribe ==
  /\ stage = "closed"
  /\ stage' = "asked"
  /\ IF received THEN FlushBuffer /\ StartReplay(Flushed(co))
     ELSE UNCHANGED <<co, buffer, applied, rpc, answer>>
  /\ UNCHANGED <<engine, merge, out, breaks, tracker, base, timers, received,
                 failures>>

(* A request in flight is sent again, its lost answer included.              *)
ConnectionBreaks ==
  /\ Break
  /\ rpc' = IF rpc = "answered" THEN "asked" ELSE rpc
  /\ answer' = <<>>
  /\ UNCHANGED <<co, tracker, buffer, store, timers, received, failures>>

Next ==
  \/ StreamStep /\ UNCHANGED client
  \/ Deliver \/ DeliverGap \/ Flush
  \/ Respond \/ SnapshotArrives \/ ReplayArrives \/ ReplayTimer
  \/ SnapshotFails \/ ReplayFails \/ EnsureBootstrapped
  \/ Resubscribe \/ ConnectionBreaks

Spec == Init /\ [][Next]_vars

(* Microtasks and timers run, requests are answered or fail, and what the    *)
(* stream emitted is delivered or lost with the connection.                  *)
FairSpec ==
  /\ Spec
  /\ WF_vars(Deliver \/ DeliverGap)
  /\ WF_vars(Flush)
  /\ WF_vars(Respond \/ SnapshotArrives \/ ReplayArrives)
  /\ WF_vars(ReplayTimer)

(****************************** Properties *********************************)
Position == base + Len(applied)

(* The client's store is the state after a prefix of the server's events: a  *)
(* snapshot, then every event after it once and in order, although live      *)
(* events, replays and snapshots overlap and any of them may be lost or      *)
(* late; and the coordinator's latestSequence is where the store really is.  *)
StoreIsPrefix ==
  /\ \A i \in DOMAIN applied: applied[i] = base + i
  /\ co.latestSequence = Position
  /\ Position <= stored

(* Nothing the client ever saw is forgotten: when no request, retry or flush *)
(* is under way in a bootstrapped client, it has applied the highest         *)
(* sequence it observed, deferred events included.                           *)
NothingObservedIsForgotten ==
  co.bootstrapped /\ co.inFlight = "none" /\ timers = 0 /\ buffer = <<>>
    => co.latestSequence = co.highestObservedSequence

(* Whatever the client observed it applies in the end, gaps, failed replays  *)
(* and broken connections notwithstanding, unless its last snapshot failed   *)
(* and nothing asks for another one.                                         *)
ObservedIsApplied ==
  \A n \in 1 .. MaxEvents:
    co.highestObservedSequence >= n
      ~> \/ co.latestSequence >= n
         \/ ~co.bootstrapped /\ co.inFlight = "none"

R == INSTANCE Replica WITH history <- stored, copy <- Position

(* The store implements the abstract replica: it moves forward only.         *)
ImplementsReplica == R!Spec
=============================================================================
