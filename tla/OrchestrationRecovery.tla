------------------------ MODULE OrchestrationRecovery ------------------------
(***************************************************************************)
(* createOrchestrationRecoveryCoordinator of orchestrationRecovery.ts: the *)
(* client's bookkeeping of what it has applied, what it has seen and which *)
(* recovery is in flight.  Each method is an operator from a coordinator   *)
(* state to the next one; ClientSync calls them in the order               *)
(* connection.ts does.                                                     *)
(***************************************************************************)
EXTENDS Naturals

CONSTANT MaxNoProgress   \* MAX_NO_PROGRESS_REPLAY_RETRIES

ASSUME RecoveryAssumption == MaxNoProgress \in Nat \ {0}

Recovery ==
  [latestSequence: Nat, highestObservedSequence: Nat, bootstrapped: BOOLEAN,
   pendingReplay: BOOLEAN, inFlight: {"none", "snapshot", "replay"},
   replayStart: Nat]

NewRecovery ==
  [latestSequence |-> 0, highestObservedSequence |-> 0, bootstrapped |-> FALSE,
   pendingReplay |-> FALSE, inFlight |-> "none", replayStart |-> 0]

Larger(a, b) == IF a < b THEN b ELSE a

(* Mutant: live events are applied before the first snapshot. *)
VerdictBeforeBootstrap(r, n) ==
  CASE n <= r.latestSequence -> "ignore"
    [] n > r.latestSequence /\ r.inFlight = "replay" -> "defer"
    [] OTHER -> IF n = r.latestSequence + 1 THEN "apply" ELSE "recover"

(* classifyDomainEvent: the verdict, and the state it leaves. *)
Verdict(r, n) ==
  CASE n <= r.latestSequence -> "ignore"
    [] n > r.latestSequence /\ (~r.bootstrapped \/ r.inFlight # "none") -> "defer"
    [] OTHER -> IF n = r.latestSequence + 1 THEN "apply" ELSE "recover"

Observed(r, n) ==
  [r EXCEPT !.highestObservedSequence = Larger(@, n)]

Classified(r, n) ==
  IF Verdict(r, n) \in {"defer", "recover"}
  THEN [Observed(r, n) EXCEPT !.pendingReplay = TRUE] ELSE Observed(r, n)

(* markEventBatchApplied, of a batch whose last event is n. *)
Applied(r, n) ==
  IF n <= r.latestSequence THEN r
  ELSE [Observed(r, n) EXCEPT !.latestSequence = n]

(* Mutant: only deferred events ask for another replay. *)
NeedsReplayDeferred(r) == r.pendingReplay

(* resolveReplayNeedAfterRecovery *)
NeedsReplay(r) == r.pendingReplay \/ r.highestObservedSequence > r.latestSequence
Resolved(r) == [r EXCEPT !.pendingReplay = FALSE]

MayBegin(r, kind) ==
  /\ r.inFlight = "none"
  /\ kind = "replay" => r.bootstrapped

(* beginSnapshotRecovery and beginReplayRecovery; a refusal asks for a replay *)
(* after whatever is in flight.                                              *)
Begun(r, kind) ==
  CASE ~MayBegin(r, kind) -> [r EXCEPT !.pendingReplay = TRUE]
    [] MayBegin(r, kind) /\ kind = "snapshot" -> [r EXCEPT !.inFlight = "snapshot"]
    [] MayBegin(r, kind) /\ kind = "replay" ->
         [r EXCEPT !.pendingReplay = FALSE, !.inFlight = "replay",
                   !.replayStart = r.latestSequence]

SnapshotCompleted(r, n) ==
  [Applied(r, n) EXCEPT !.bootstrapped = TRUE, !.inFlight = "none"]

SnapshotFailed(r) == [r EXCEPT !.inFlight = "none"]

ReplayMadeProgress(r) == r.latestSequence > r.replayStart
ReplayCompleted(r) == [r EXCEPT !.inFlight = "none", !.replayStart = 0]
ReplayFailed(r) ==
  [r EXCEPT !.inFlight = "none", !.replayStart = 0, !.bootstrapped = FALSE]

(* deriveReplayRetryDecision: r is the state after completion. *)
Tracker == [attempts: Nat, latest: Nat, highest: Nat]
NoTracker == [attempts |-> 0, latest |-> 0, highest |-> 0]

SameFrontier(t, r) ==
  /\ t.attempts > 0
  /\ t.latest = r.latestSequence /\ t.highest = r.highestObservedSequence

Attempt(t, r) == IF SameFrontier(t, r) THEN t.attempts + 1 ELSE 1

RetryDecision(t, r, needed, progress) ==
  CASE ~needed -> [retry |-> "no", tracker |-> NoTracker]
    [] needed /\ progress -> [retry |-> "now", tracker |-> NoTracker]
    [] needed /\ ~progress /\ Attempt(t, r) > MaxNoProgress ->
         [retry |-> "no", tracker |-> NoTracker]
    [] OTHER -> [retry |-> "later",
                 tracker |-> [attempts |-> Attempt(t, r),
                              latest |-> r.latestSequence,
                              highest |-> r.highestObservedSequence]]
=============================================================================
