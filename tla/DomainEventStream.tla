--------------------------- MODULE DomainEventStream ---------------------------
(***************************************************************************)
(* subscribeOrchestrationDomainEvents of ws.ts: the stream of domain       *)
(* events one client subscription gets.  It fixes a fence (the snapshot    *)
(* sequence of the read model), reads the events behind the fence from the *)
(* store, then merges them with a fresh subscription to the engine's       *)
(* PubSub; a reorder buffer drops duplicates and emits in sequence order.  *)
(*                                                                         *)
(* An event is its sequence number.  Commits put events in the store and   *)
(* in the read model; the engine publishes them one by one afterwards      *)
(* (OrchestrationEngine models those steps).                               *)
(***************************************************************************)
EXTENDS Naturals, Sequences

CONSTANTS
  ReadLimit,   \* the most events one read of the store returns (1000)
  MaxEvents,   \* bound: events committed in one behaviour
  MaxBreaks    \* bound: broken connections, server restarts, failed reads

ASSUME StreamAssumption ==
  ReadLimit \in Nat \ {0} /\ MaxEvents \in Nat /\ MaxBreaks \in Nat

VARIABLES
  stored,     \* events in the store and in the read model
  published,  \* events published to the PubSub, or lost to a crash
  stage,      \* "closed", "asked", "fenced", "replayed" or "live"
  next,       \* nextSequence of the reorder buffer
  pending,    \* pendingBySequence
  replay,     \* replayStream: what is left of it
  live,       \* liveStream: published to this subscription, not yet merged
  out,        \* emitted, on its way to the client
  breaks      \* bound used so far

engine == <<stored, published>>
merge  == <<next, pending, replay, live>>
stream == <<engine, stage, merge, out, breaks>>

StreamTypeOK ==
  /\ stored \in Nat /\ published \in 0 .. stored
  /\ stage \in {"closed", "asked", "fenced", "replayed", "live"}
  /\ next \in Nat
  /\ pending \subseteq 1 .. stored
  /\ replay \in Seq(1 .. stored) /\ live \in Seq(1 .. stored)
  /\ out \in Seq(1 .. stored)
  /\ breaks \in 0 .. MaxBreaks

Span(a, b) == [i \in 1 .. (b + 1 - a) |-> a + i - 1]   \* <<a, ..., b>>

(* readEvents(n): the events after n, one page of the store's default limit. *)
ReadEvents(n) == Span(n + 1, IF stored > n + ReadLimit THEN n + ReadLimit ELSE stored)

StreamInit ==
  /\ stored = 0 /\ published = 0
  /\ stage = "asked"
  /\ next = 0 /\ pending = {} /\ replay = <<>> /\ live = <<>>
  /\ out = <<>>
  /\ breaks = 0

(******************************* The engine ********************************)
(* A command of one or two events commits. *)
Commit ==
  /\ \E n \in {1, 2}: stored + n <= MaxEvents /\ stored' = stored + n
  /\ UNCHANGED <<published, stage, merge, out, breaks>>

Publish ==
  /\ published < stored
  /\ published' = published + 1
  /\ live' = IF stage = "live" THEN Append(live, published') ELSE live
  /\ UNCHANGED <<stored, stage, next, pending, replay, out, breaks>>

(***************************** The subscription ****************************)
(* getReadModel: the fence. *)
Fence ==
  /\ stage = "asked"
  /\ stage' = "fenced"
  /\ next' = stored + 1
  /\ UNCHANGED <<engine, pending, replay, live, out, breaks>>

(* runCollect(readEvents(fence)), enriched. *)
ReadReplay ==
  /\ stage = "fenced"
  /\ stage' = "replayed"
  /\ replay' = ReadEvents(next - 1)
  /\ UNCHANGED <<engine, next, pending, live, out, breaks>>

(* Effect.catch: a failed read yields no events. *)
ReadReplayFails ==
  /\ stage = "fenced"
  /\ breaks < MaxBreaks
  /\ breaks' = breaks + 1
  /\ stage' = "replayed"
  /\ UNCHANGED <<engine, merge, out>>

(* The merged stream runs: only now is there a subscription to the PubSub. *)
GoLive ==
  /\ stage = "replayed"
  /\ stage' = "live"
  /\ UNCHANGED <<engine, merge, out, breaks>>

(* Mutant: an event is emitted as it comes. *)
AdmitUnordered(e) ==
  /\ next' = IF e < next THEN next ELSE e + 1
  /\ out' = IF e < next THEN out ELSE Append(out, e)
  /\ UNCHANGED pending

(* The reorder buffer admits e and emits what has become consecutive. *)
Admit(e) ==
  IF e < next \/ e \in pending
  THEN UNCHANGED <<next, pending, out>>
  ELSE LET buffered == pending \union {e}
           end == CHOOSE m \in next .. stored + 1:
                    m \notin buffered /\ (next .. (m - 1)) \subseteq buffered
       IN  /\ next' = end
           /\ pending' = {m \in buffered: m >= end}
           /\ out' = out \o Span(next, end - 1)

MergeReplay ==
  /\ stage \in {"replayed", "live"}
  /\ replay # <<>>
  /\ replay' = Tail(replay)
  /\ Admit(Head(replay))
  /\ UNCHANGED <<engine, stage, live, breaks>>

MergeLive ==
  /\ stage = "live"
  /\ live # <<>>
  /\ live' = Tail(live)
  /\ Admit(Head(live))
  /\ UNCHANGED <<engine, stage, replay, breaks>>

(* The connection breaks, or the server restarts: what was not delivered is  *)
(* lost, and after a restart events never published before stay unpublished. *)
Break ==
  /\ stage # "closed"
  /\ breaks < MaxBreaks
  /\ breaks' = breaks + 1
  /\ stage' = "closed"
  /\ next' = 0 /\ pending' = {} /\ replay' = <<>> /\ live' = <<>> /\ out' = <<>>
  /\ published' \in {published, stored}
  /\ UNCHANGED stored

StreamStep ==
  \/ Commit \/ Publish
  \/ Fence \/ ReadReplay \/ ReadReplayFails \/ GoLive
  \/ MergeReplay \/ MergeLive

(****************************** Properties *********************************)
(* What a subscription emits is consecutive: duplicates between the replay   *)
(* and the live stream and events that overtake one another never show.      *)
EmitsInOrder ==
  \A i \in DOMAIN out: out[i] = next - 1 - Len(out) + i

(* "multiple consumers [...] each independently receive all domain events",  *)
(* OrchestrationEngine.ts:298-300: a live subscription that has merged all   *)
(* it was handed has emitted every published event behind its fence.         *)
LiveStreamIsComplete ==
  stage = "live" /\ replay = <<>> /\ live = <<>> => next > published
=============================================================================
