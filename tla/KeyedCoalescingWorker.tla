------------------------ MODULE KeyedCoalescingWorker ------------------------
(***************************************************************************)
(* The worker that persists terminal histories: values enqueued for a key  *)
(* are merged into one, and a single fiber processes the keys in turn.     *)
(* The state is one TxRef (latestByKey, queuedKeys, activeKeys) and a      *)
(* TxQueue of keys.  enqueue is one transaction over both; the worker      *)
(* takes a key, claims its value and releases the key in transactions of   *)
(* its own, and requeues a failed key after its cleanup transaction.       *)
(*                                                                         *)
(* A value is represented by the set of the submissions merged into it     *)
(* ({} stands for the absent entry), the most a merge can preserve.        *)
(***************************************************************************)
EXTENDS Naturals, Sequences

CONSTANTS
  Key,
  Nobody,          \* the worker holds no key
  MayFail,         \* process may fail
  MaxSubmissions   \* bound: calls of enqueue in one behaviour

ASSUME KeyedAssumption ==
  /\ Nobody \notin Key
  /\ MayFail \in BOOLEAN /\ MaxSubmissions \in Nat

VARIABLES
  latestByKey,  \* latestByKey[k]: submissions waiting, merged
  queuedKeys,
  activeKeys,
  queue,        \* the TxQueue of keys
  phase,        \* "waiting", "taken", "processing", "done", "failed", "requeue"
  key,          \* the key in hand
  value,        \* the value in hand
  submitted,    \* submitted[k]: the submissions made for k
  handled       \* handled[k]: the submissions whose processing ended

state   == <<latestByKey, queuedKeys, activeKeys>>
hand    == <<phase, key, value>>
history == <<submitted, handled>>
vars    == <<state, queue, hand, history>>

Submission == 1 .. MaxSubmissions

TypeOK ==
  /\ latestByKey \in [Key -> SUBSET Submission]
  /\ queuedKeys \subseteq Key /\ activeKeys \subseteq Key
  /\ queue \in Seq(Key)
  /\ phase \in {"waiting", "taken", "processing", "done", "failed", "requeue"}
  /\ key \in Key \union {Nobody}
  /\ value \subseteq Submission
  /\ submitted \in [Key -> SUBSET Submission]
  /\ handled \in [Key -> SUBSET Submission]

Init ==
  /\ latestByKey = [k \in Key |-> {}]
  /\ queuedKeys = {} /\ activeKeys = {}
  /\ queue = <<>>
  /\ phase = "waiting" /\ key = Nobody /\ value = {}
  /\ submitted = [k \in Key |-> {}]
  /\ handled = [k \in Key |-> {}]

Unused(i) == \A k \in Key: i \notin submitted[k]

(* Mutant: the value replaces the waiting one instead of merging with it. *)
EnqueueReplacing(k, i) ==
  /\ Unused(i)
  /\ submitted' = [submitted EXCEPT ![k] = @ \union {i}]
  /\ latestByKey' = [latestByKey EXCEPT ![k] = {i}]
  /\ LET idle == k \notin queuedKeys \union activeKeys
     IN  /\ queuedKeys' = IF idle THEN queuedKeys \union {k} ELSE queuedKeys
         /\ queue' = IF idle THEN Append(queue, k) ELSE queue
  /\ UNCHANGED <<activeKeys, hand, handled>>

(* Mutant: only queued keys count, an active one is queued once more. *)
EnqueueIgnoringActive(k, i) ==
  /\ Unused(i)
  /\ submitted' = [submitted EXCEPT ![k] = @ \union {i}]
  /\ latestByKey' = [latestByKey EXCEPT ![k] = @ \union {i}]
  /\ LET idle == k \notin queuedKeys
     IN  /\ queuedKeys' = IF idle THEN queuedKeys \union {k} ELSE queuedKeys
         /\ queue' = IF idle THEN Append(queue, k) ELSE queue
  /\ UNCHANGED <<activeKeys, hand, handled>>

(* enqueue: merge, and queue the key unless it is queued or active. *)
Enqueue(k, i) ==
  /\ Unused(i)
  /\ submitted' = [submitted EXCEPT ![k] = @ \union {i}]
  /\ latestByKey' = [latestByKey EXCEPT ![k] = @ \union {i}]
  /\ LET idle == k \notin queuedKeys \union activeKeys
     IN  /\ queuedKeys' = IF idle THEN queuedKeys \union {k} ELSE queuedKeys
         /\ queue' = IF idle THEN Append(queue, k) ELSE queue
  /\ UNCHANGED <<activeKeys, hand, handled>>

Take ==
  /\ phase = "waiting"
  /\ queue # <<>>
  /\ key' = Head(queue)
  /\ queue' = Tail(queue)
  /\ phase' = "taken"
  /\ UNCHANGED <<state, value, history>>

LetGo == phase' = "waiting" /\ key' = Nobody /\ value' = {}

(* The first modify: the value moves from the map to the worker's hand. *)
Claim ==
  /\ phase = "taken"
  /\ queuedKeys' = queuedKeys \ {key}
  /\ IF latestByKey[key] = {}
     THEN LetGo /\ UNCHANGED <<latestByKey, activeKeys>>
     ELSE /\ activeKeys' = activeKeys \union {key}
          /\ value' = latestByKey[key]
          /\ latestByKey' = [latestByKey EXCEPT ![key] = {}]
          /\ phase' = "processing"
          /\ UNCHANGED key
  /\ UNCHANGED <<queue, history>>

Process ==
  /\ phase = "processing"
  /\ handled' = [handled EXCEPT ![key] = @ \union value]
  /\ phase' = "done"
  /\ UNCHANGED <<state, queue, key, value, submitted>>

ProcessFails ==
  /\ phase = "processing"
  /\ MayFail
  /\ handled' = [handled EXCEPT ![key] = @ \union value]
  /\ phase' = "failed"
  /\ UNCHANGED <<state, queue, key, value, submitted>>

(* The modify after process: more came in, go on with the same key. *)
Continue ==
  /\ phase = "done"
  /\ latestByKey[key] # {}
  /\ value' = latestByKey[key]
  /\ latestByKey' = [latestByKey EXCEPT ![key] = {}]
  /\ phase' = "processing"
  /\ UNCHANGED <<queuedKeys, activeKeys, queue, key, history>>

Release ==
  /\ phase = "done"
  /\ latestByKey[key] = {}
  /\ activeKeys' = activeKeys \ {key}
  /\ LetGo
  /\ UNCHANGED <<latestByKey, queuedKeys, queue, history>>

(* Mutant: a failed key is released with what waits for it. *)
CleanupWithoutRequeue ==
  /\ phase = "failed"
  /\ activeKeys' = activeKeys \ {key}
  /\ LetGo
  /\ UNCHANGED <<latestByKey, queuedKeys, queue, history>>

(* cleanupFailedKey: the key is no longer active; if more came in it is     *)
(* marked queued and offered in a second step.                              *)
Cleanup ==
  /\ phase = "failed"
  /\ activeKeys' = activeKeys \ {key}
  /\ IF latestByKey[key] # {} /\ key \notin queuedKeys
     THEN /\ queuedKeys' = queuedKeys \union {key}
          /\ phase' = "requeue"
          /\ value' = {}
          /\ UNCHANGED key
     ELSE /\ UNCHANGED queuedKeys
          /\ LetGo
  /\ UNCHANGED <<latestByKey, queue, history>>

Requeue ==
  /\ phase = "requeue"
  /\ queue' = Append(queue, key)
  /\ LetGo
  /\ UNCHANGED <<state, history>>

WorkerStep ==
  Take \/ Claim \/ Process \/ ProcessFails \/ Continue \/ Release \/ Cleanup
       \/ Requeue

Next ==
  \/ \E k \in Key, i \in Submission: Enqueue(k, i)
  \/ WorkerStep

Spec == Init /\ [][Next]_vars

(* The worker fiber runs whenever it can. *)
FairSpec == Spec /\ WF_vars(WorkerStep)

(* Mutant: drainKey forgets the key that is being processed. *)
QuietIgnoringActive(k) == latestByKey[k] = {} /\ k \notin queuedKeys

(* What lets drainKey(k) return. *)
Quiet(k) == latestByKey[k] = {} /\ k \notin queuedKeys \union activeKeys

(* drainKey returns only when every value ever enqueued for the key has been *)
(* processed to its end: nothing waits, is in hand, or is between the queue  *)
(* and the state.                                                            *)
DrainedKeyIsHandled == \A k \in Key: Quiet(k) => handled[k] = submitted[k]

InHand(k) == IF key = k /\ phase = "processing" THEN value ELSE {}

(* No update is lost and none is processed twice: every submission of a key  *)
(* is waiting, or in hand, or handled, and is in one of these places only.   *)
EverySubmissionSomewhere ==
  \A k \in Key:
    /\ submitted[k] = latestByKey[k] \union InHand(k) \union handled[k]
    /\ latestByKey[k] \intersect (InHand(k) \union handled[k]) = {}
    /\ InHand(k) \intersect handled[k] = {}

(* The queue and the two sets agree: a key is in the queue, or in the worker's *)
(* hand, at most once, so no key is processed twice or waits in two places,  *)
(* and a value that waits always has a key that will lead the worker to it.  *)
KeysWaitOnce ==
  /\ \A i, j \in DOMAIN queue: queue[i] = queue[j] => i = j
  /\ \A k \in Key:
       /\ k \in queuedKeys <=>
            \/ \E i \in DOMAIN queue: queue[i] = k
            \/ key = k /\ phase \in {"taken", "requeue"}
       /\ k \in activeKeys <=> key = k /\ phase \in {"processing", "done", "failed"}
       /\ k \notin queuedKeys \intersect activeKeys
       /\ latestByKey[k] # {} => k \in queuedKeys \union activeKeys

(* Every value is processed in the end, although a key may fail any number   *)
(* of times: "requeues pending work for a key after a processor failure and  *)
(* keeps draining", KeyedCoalescingWorker.test.ts.                           *)
EverySubmissionHandled ==
  \A k \in Key, i \in Submission: i \in submitted[k] ~> i \in handled[k]
=============================================================================
