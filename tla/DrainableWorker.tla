---------------------------- MODULE DrainableWorker ----------------------------
(***************************************************************************)
(* The queue every reactor of the server works from: one fiber that takes  *)
(* items from an unbounded queue and processes them one at a time, and a   *)
(* drain() that resolves when nothing is left to do.                       *)
(*                                                                         *)
(* Items are numbered in the order they are enqueued.  enqueue is one      *)
(* transaction over the queue and the counter of outstanding items; taking *)
(* an item, processing it and counting it down are three separate steps,   *)
(* so drain, a transaction over the counter alone, can run between them.   *)
(***************************************************************************)
EXTENDS Naturals, Sequences

CONSTANTS
  Drainer,     \* callers of drain()
  MayFail,     \* TRUE: process may fail or die.  The reactors catch every
               \* failure of theirs, so this is a process without that guard
  MaxItems     \* bound: items enqueued in one behaviour

ASSUME DrainableAssumption == MayFail \in BOOLEAN /\ MaxItems \in Nat

VARIABLES
  queue,        \* items not yet taken
  outstanding,  \* the TxRef: items enqueued and not counted down yet
  current,      \* the item the worker holds (0: none)
  phase,        \* "waiting", "processing", "ensuring" or "dead"
  failing,      \* the item in hand failed: the worker ends after ensuring
  enqueued,     \* how many items were ever enqueued
  handled,      \* items whose processing ended, in that order
  drainer       \* drainer[d]: "idle", "draining" or "drained"

worker == <<current, phase, failing>>
vars   == <<queue, outstanding, worker, enqueued, handled, drainer>>

TypeOK ==
  /\ queue \in Seq(Nat)
  /\ outstanding \in Nat
  /\ current \in Nat
  /\ phase \in {"waiting", "processing", "ensuring", "dead"}
  /\ failing \in BOOLEAN
  /\ enqueued \in Nat
  /\ handled \in Seq(Nat)
  /\ drainer \in [Drainer -> {"idle", "draining", "drained"}]

Init ==
  /\ queue = <<>> /\ outstanding = 0
  /\ current = 0 /\ phase = "waiting" /\ failing = FALSE
  /\ enqueued = 0 /\ handled = <<>>
  /\ drainer = [d \in Drainer |-> "idle"]

Enqueue ==
  /\ enqueued < MaxItems
  /\ enqueued' = enqueued + 1
  /\ queue' = Append(queue, enqueued')
  /\ outstanding' = outstanding + 1
  /\ UNCHANGED <<worker, handled, drainer>>

Take ==
  /\ phase = "waiting"
  /\ queue # <<>>
  /\ current' = Head(queue)
  /\ queue' = Tail(queue)
  /\ phase' = "processing"
  /\ UNCHANGED <<outstanding, failing, enqueued, handled, drainer>>

(* process(a) ends, successfully or not. *)
Process ==
  /\ phase = "processing"
  /\ handled' = Append(handled, current)
  /\ phase' = "ensuring"
  /\ UNCHANGED <<queue, outstanding, current, failing, enqueued, drainer>>

ProcessFails ==
  /\ phase = "processing"
  /\ MayFail
  /\ handled' = Append(handled, current)
  /\ phase' = "ensuring"
  /\ failing' = TRUE
  /\ UNCHANGED <<queue, outstanding, current, enqueued, drainer>>

(* Mutant: nothing counts the item down. *)
EnsureNothing ==
  /\ phase = "ensuring"
  /\ current' = 0
  /\ phase' = IF failing THEN "dead" ELSE "waiting"
  /\ UNCHANGED <<queue, outstanding, failing, enqueued, handled, drainer>>

(* Effect.ensuring counts the item down; a failure then ends Effect.forever. *)
Ensure ==
  /\ phase = "ensuring"
  /\ outstanding' = outstanding - 1
  /\ current' = 0
  /\ phase' = IF failing THEN "dead" ELSE "waiting"
  /\ UNCHANGED <<queue, failing, enqueued, handled, drainer>>

CallDrain(d) ==
  /\ drainer[d] # "draining"
  /\ drainer' = [drainer EXCEPT ![d] = "draining"]
  /\ UNCHANGED <<queue, outstanding, worker, enqueued, handled>>

(* Mutant: drain looks at the queue only. *)
DrainedWhenQueueEmpty(d) ==
  /\ drainer[d] = "draining"
  /\ queue = <<>>
  /\ drainer' = [drainer EXCEPT ![d] = "drained"]
  /\ UNCHANGED <<queue, outstanding, worker, enqueued, handled>>

(* The transaction retries until the counter is zero. *)
Drained(d) ==
  /\ drainer[d] = "draining"
  /\ outstanding = 0
  /\ drainer' = [drainer EXCEPT ![d] = "drained"]
  /\ UNCHANGED <<queue, outstanding, worker, enqueued, handled>>

WorkerStep == Take \/ Process \/ ProcessFails \/ Ensure

Next ==
  \/ Enqueue
  \/ WorkerStep
  \/ \E d \in Drainer: CallDrain(d) \/ Drained(d)

Spec == Init /\ [][Next]_vars

(* The worker fiber runs whenever it can, and a retried transaction is run   *)
(* again whenever the counter changes.  While items keep coming the counter  *)
(* may be zero only now and then; a drain that never sees it at zero waits.  *)
FairSpec ==
  /\ Spec
  /\ WF_vars(WorkerStep)
  /\ \A d \in Drainer: WF_vars(Drained(d))

(* "Resolves when the queue is empty and the worker is idle (not             *)
(* processing)", DrainableWorker.ts:26: at the moment drain returns nothing  *)
(* is queued and nothing is in hand, items enqueued since the call included. *)
DrainReturnsIdle ==
  [][\A d \in Drainer:
       drainer[d] = "draining" /\ drainer'[d] = "drained"
         => queue = <<>> /\ current = 0 /\ Len(handled) = enqueued]_vars

(* Items are processed once each and in the order they were enqueued.        *)
InOrder == \A i \in DOMAIN handled: handled[i] = i

(* Processing never stops on its own: every drain returns, unless a process  *)
(* ended the worker (the reactors wrap theirs so that none does).            *)
DrainReturns ==
  \A d \in Drainer:
    drainer[d] = "draining" ~> drainer[d] = "drained" \/ phase = "dead"
=============================================================================
