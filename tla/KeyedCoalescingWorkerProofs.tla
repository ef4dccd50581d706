--------------------- MODULE KeyedCoalescingWorkerProofs ---------------------
(***************************************************************************)
(* Proofs about KeyedCoalescingWorker, for any keys and any number of      *)
(* submissions and failures.                                               *)
(*                                                                         *)
(* EverySubmissionSomewhere and DrainedKeyIsHandled rest on KeysWaitOnce,  *)
(* and that on where the worker is: Hand says when it holds a key, and     *)
(* that the key in its hand is not in the queue as well.  They are         *)
(* inductive together.                                                     *)
(***************************************************************************)
EXTENDS KeyedCoalescingWorker, SequenceTheorems, TLAPS

In(k, q) == \E i \in DOMAIN q: q[i] = k
Distinct(q) == \A i, j \in DOMAIN q: q[i] = q[j] => i = j

Hand ==
  /\ phase = "waiting" <=> key = Nobody
  /\ phase \in {"taken", "requeue"} => ~In(key, queue)

Inv == TypeOK /\ Hand /\ EverySubmissionSomewhere /\ KeysWaitOnce

(***************************** Sequences of keys ***************************)
LEMMA AppendKey ==
  ASSUME NEW q \in Seq(Key), NEW k \in Key, Distinct(q), ~In(k, q)
  PROVE  /\ Append(q, k) \in Seq(Key)
         /\ Distinct(Append(q, k))
         /\ \A x \in Key: In(x, Append(q, k)) <=> In(x, q) \/ x = k
<1> DEFINE r == Append(q, k)
<1>1. /\ r \in Seq(Key) /\ Len(r) = Len(q) + 1 /\ Len(q) \in Nat
      /\ DOMAIN r = 1 .. Len(q) + 1 /\ DOMAIN q = 1 .. Len(q)
      /\ \A i \in 1 .. Len(q): r[i] = q[i]
      /\ r[Len(q) + 1] = k
  BY AppendProperties, LenProperties
<1>2. Distinct(r)
  BY <1>1 DEF Distinct, In
<1>3. \A x \in Key: In(x, r) <=> In(x, q) \/ x = k
  BY <1>1 DEF In
<1> QED  BY <1>1, <1>2, <1>3

LEMMA TailKey ==
  ASSUME NEW q \in Seq(Key), q # <<>>, Distinct(q)
  PROVE  /\ Head(q) \in Key /\ Tail(q) \in Seq(Key)
         /\ Distinct(Tail(q))
         /\ ~In(Head(q), Tail(q))
         /\ \A x \in Key: In(x, q) <=> In(x, Tail(q)) \/ x = Head(q)
<1> DEFINE r == Tail(q)
<1>1. /\ r \in Seq(Key) /\ Len(r) = Len(q) - 1 /\ Len(q) \in Nat \ {0}
      /\ DOMAIN r = 1 .. Len(q) - 1 /\ DOMAIN q = 1 .. Len(q)
      /\ \A i \in 1 .. Len(q) - 1: r[i] = q[i + 1]
      /\ Head(q) = q[1] /\ Head(q) \in Key
  <2>1. Len(q) \in Nat \ {0}  BY EmptySeq, LenProperties
  <2> QED  BY <2>1, HeadTailProperties, LenProperties
<1>2. Distinct(r)
  <2> SUFFICES ASSUME NEW i \in DOMAIN r, NEW j \in DOMAIN r, r[i] = r[j]
               PROVE  i = j
    BY DEF Distinct
  <2>1. i + 1 \in DOMAIN q /\ j + 1 \in DOMAIN q /\ q[i + 1] = q[j + 1]
    BY <1>1
  <2> QED  BY <1>1, <2>1 DEF Distinct
<1>3. ~In(Head(q), r)
  <2> SUFFICES ASSUME NEW i \in DOMAIN r, r[i] = Head(q) PROVE FALSE
    BY DEF In
  <2>1. i + 1 \in DOMAIN q /\ 1 \in DOMAIN q /\ q[i + 1] = q[1]  BY <1>1
  <2> QED  BY <1>1, <2>1 DEF Distinct
<1>4. \A x \in Key: In(x, q) <=> In(x, r) \/ x = Head(q)
  <2> TAKE x \in Key
  <2>1. ASSUME In(x, q), x # Head(q) PROVE In(x, r)
    <3>1. PICK i \in DOMAIN q: q[i] = x  BY <2>1 DEF In
    <3>2. i - 1 \in DOMAIN r /\ r[i - 1] = x  BY <1>1, <2>1, <3>1
    <3> QED  BY <3>2 DEF In
  <2>2. ASSUME In(x, r) PROVE In(x, q)
    <3>1. PICK i \in DOMAIN r: r[i] = x  BY <2>2 DEF In
    <3>2. i + 1 \in DOMAIN q /\ q[i + 1] = x  BY <1>1, <3>1
    <3> QED  BY <3>2 DEF In
  <2>3. In(Head(q), q)  BY <1>1 DEF In
  <2> QED  BY <2>1, <2>2, <2>3
<1> QED  BY <1>1, <1>2, <1>3, <1>4

(* The parts of KeysWaitOnce in terms of In and Distinct. *)
KeyPlaced(k) ==
  /\ k \in queuedKeys <=> In(k, queue) \/ (key = k /\ phase \in {"taken", "requeue"})
  /\ k \in activeKeys <=> key = k /\ phase \in {"processing", "done", "failed"}
  /\ k \notin queuedKeys \intersect activeKeys
  /\ latestByKey[k] # {} => k \in queuedKeys \union activeKeys

LEMMA KeysWaitOnceParts ==
  KeysWaitOnce <=> Distinct(queue) /\ \A k \in Key: KeyPlaced(k)
BY DEF KeysWaitOnce, Distinct, KeyPlaced, In

(******************************* The steps *********************************)
LEMMA InitInv == Init => Inv
<1> SUFFICES ASSUME Init PROVE Inv
  OBVIOUS
<1>1. queue = <<>> /\ DOMAIN queue = {} /\ queue \in Seq(Key)
  <2>1. <<>> \in Seq(Key) /\ DOMAIN <<>> = {}  BY EmptySeq
  <2> QED  BY <2>1 DEF Init
<1>2. TypeOK  BY <1>1 DEF Init, TypeOK
<1>3. Hand  BY <1>1 DEF Init, Hand
<1>4. EverySubmissionSomewhere
  BY DEF Init, EverySubmissionSomewhere, InHand
<1>5. KeysWaitOnce  BY <1>1 DEF Init, KeysWaitOnce
<1> QED  BY <1>2, <1>3, <1>4, <1>5 DEF Inv

LEMMA EnqueueInv ==
  ASSUME Inv, NEW k \in Key, NEW i \in Submission, Enqueue(k, i)
  PROVE  Inv'
<1> USE DEF Inv
<1>1. Distinct(queue) /\ \A x \in Key: KeyPlaced(x)  BY KeysWaitOnceParts
<1>2. /\ UNCHANGED <<activeKeys, phase, key, value, handled>>
      /\ submitted' = [submitted EXCEPT ![k] = @ \union {i}]
      /\ latestByKey' = [latestByKey EXCEPT ![k] = @ \union {i}]
  BY DEF Enqueue, hand
<1>3. /\ queue' \in Seq(Key) /\ Distinct(queue') /\ queuedKeys' \subseteq Key
      /\ \A x \in Key: In(x, queue') =>
           In(x, queue) \/ (x = k /\ k \notin queuedKeys \union activeKeys)
      /\ \A x \in Key: In(x, queue) => In(x, queue')
      /\ \A x \in Key: x \in queuedKeys' <=> x \in queuedKeys \/
           (x = k /\ In(k, queue'))
      /\ k \in queuedKeys' \union activeKeys
      /\ k \in activeKeys => k \notin queuedKeys'
  <2>1. CASE k \in queuedKeys \union activeKeys
    <3>1. queue' = queue /\ queuedKeys' = queuedKeys  BY <2>1 DEF Enqueue
    <3> QED  BY <1>1, <2>1, <3>1 DEF TypeOK, KeyPlaced
  <2>2. CASE k \notin queuedKeys \union activeKeys
    <3>1. queue' = Append(queue, k) /\ queuedKeys' = queuedKeys \union {k}
      BY <2>2 DEF Enqueue
    <3>2. ~In(k, queue)  BY <1>1, <2>2 DEF KeyPlaced
    <3>3. /\ Append(queue, k) \in Seq(Key) /\ Distinct(Append(queue, k))
          /\ \A x \in Key: In(x, Append(queue, k)) <=> In(x, queue) \/ x = k
      BY <1>1, <3>2, AppendKey DEF TypeOK
    <3> QED  BY <2>2, <3>1, <3>3 DEF TypeOK
  <2> QED  BY <2>1, <2>2
<1>4. TypeOK'  BY <1>2, <1>3 DEF TypeOK
<1>5. Hand'
  BY <1>1, <1>2, <1>3 DEF TypeOK, Hand, KeyPlaced
<1>6. EverySubmissionSomewhere'
  BY <1>2 DEF TypeOK, EverySubmissionSomewhere, InHand, Enqueue, Unused
<1>7. ASSUME NEW x \in Key PROVE KeyPlaced(x)'
  BY <1>1, <1>2, <1>3 DEF TypeOK, KeyPlaced
<1>8. KeysWaitOnce'
  BY <1>3, <1>7, KeysWaitOnceParts DEF KeysWaitOnce, Distinct, KeyPlaced, In
<1> QED  BY <1>4, <1>5, <1>6, <1>8

LEMMA TakeInv == ASSUME Inv, Take PROVE Inv'
<1> USE DEF Inv
<1>1. Distinct(queue) /\ \A x \in Key: KeyPlaced(x)  BY KeysWaitOnceParts
<1>2. /\ Head(queue) \in Key /\ Tail(queue) \in Seq(Key)
      /\ Distinct(Tail(queue)) /\ ~In(Head(queue), Tail(queue))
      /\ \A x \in Key: In(x, queue) <=> In(x, Tail(queue)) \/ x = Head(queue)
  BY <1>1, TailKey DEF TypeOK, Take
<1>3. /\ phase = "waiting" /\ phase' = "taken" /\ queue' = Tail(queue)
      /\ key = Nobody /\ key' = Head(queue) /\ key' \in Key
      /\ UNCHANGED <<state, value, history>>
  BY <1>2 DEF Take, Hand
<1>4. TypeOK'  BY <1>2, <1>3 DEF TypeOK, state, history
<1>5. Hand'  BY <1>2, <1>3, KeyedAssumption DEF Hand
<1>6. EverySubmissionSomewhere'
  BY <1>3 DEF EverySubmissionSomewhere, InHand, state, history
<1>7. ASSUME NEW x \in Key PROVE KeyPlaced(x)'
  BY <1>1, <1>2, <1>3, KeyedAssumption DEF KeyPlaced, state
<1>8. KeysWaitOnce'
  BY <1>2, <1>3, <1>7 DEF KeysWaitOnce, Distinct, KeyPlaced, In
<1> QED  BY <1>4, <1>5, <1>6, <1>8

(* Steps that leave the queue as it is. *)
LEMMA QueueKept ==
  ASSUME Inv, UNCHANGED queue, \A x \in Key: KeyPlaced(x)'
  PROVE  KeysWaitOnce'
BY DEF Inv, KeysWaitOnce, KeyPlaced, In

LEMMA ClaimInv == ASSUME Inv, Claim PROVE Inv'
<1> USE DEF Inv
<1>1. \A x \in Key: KeyPlaced(x)  BY KeysWaitOnceParts
<1>2. key \in Key /\ phase = "taken" /\ ~In(key, queue) /\ queue' = queue
      /\ queuedKeys' = queuedKeys \ {key}
      /\ submitted' = submitted /\ handled' = handled
  BY DEF Claim, Hand, TypeOK, history
<1>3. CASE latestByKey[key] = {}
  <2>1. /\ phase' = "waiting" /\ key' = Nobody /\ value' = {}
        /\ UNCHANGED <<latestByKey, activeKeys>>
    BY <1>3 DEF Claim, LetGo
  <2>2. TypeOK'  BY <1>2, <2>1 DEF TypeOK
  <2>3. Hand'  BY <1>2, <2>1 DEF Hand
  <2>4. EverySubmissionSomewhere'
    BY <1>2, <2>1 DEF EverySubmissionSomewhere, InHand
  <2>5. ASSUME NEW x \in Key PROVE KeyPlaced(x)'
    BY <1>1, <1>2, <1>3, <2>1, KeyedAssumption DEF KeyPlaced
  <2> QED  BY <1>2, <2>2, <2>3, <2>4, <2>5, QueueKept
<1>4. CASE latestByKey[key] # {}
  <2>1. /\ phase' = "processing" /\ key' = key /\ value' = latestByKey[key]
        /\ activeKeys' = activeKeys \union {key}
        /\ latestByKey' = [latestByKey EXCEPT ![key] = {}]
    BY <1>4 DEF Claim
  <2>2. TypeOK'  BY <1>2, <2>1 DEF TypeOK
  <2>3. Hand'  BY <1>2, <2>1, KeyedAssumption DEF Hand
  <2>4. EverySubmissionSomewhere'
    BY <1>2, <2>1 DEF EverySubmissionSomewhere, InHand, TypeOK
  <2>5. ASSUME NEW x \in Key PROVE KeyPlaced(x)'
    BY <1>1, <1>2, <2>1 DEF KeyPlaced, TypeOK
  <2> QED  BY <1>2, <2>2, <2>3, <2>4, <2>5, QueueKept
<1> QED  BY <1>3, <1>4

LEMMA ProcessInv == ASSUME Inv, Process \/ ProcessFails PROVE Inv'
<1> USE DEF Inv
<1>1. \A x \in Key: KeyPlaced(x)  BY KeysWaitOnceParts
<1>2. /\ key \in Key /\ phase = "processing" /\ phase' \in {"done", "failed"}
      /\ handled' = [handled EXCEPT ![key] = @ \union value]
      /\ UNCHANGED <<latestByKey, queuedKeys, activeKeys, queue, key, value,
                     submitted>>
  BY DEF Process, ProcessFails, Hand, TypeOK, state
<1>3. TypeOK'  BY <1>2 DEF TypeOK
<1>4. Hand'  BY <1>2, KeyedAssumption DEF Hand
<1>5. EverySubmissionSomewhere'
  BY <1>2 DEF EverySubmissionSomewhere, InHand, TypeOK
<1>6. ASSUME NEW x \in Key PROVE KeyPlaced(x)'
  BY <1>1, <1>2 DEF KeyPlaced
<1> QED  BY <1>2, <1>3, <1>4, <1>5, <1>6, QueueKept

LEMMA ContinueInv == ASSUME Inv, Continue PROVE Inv'
<1> USE DEF Inv
<1>1. \A x \in Key: KeyPlaced(x)  BY KeysWaitOnceParts
<1>2. /\ key \in Key /\ phase = "done" /\ phase' = "processing"
      /\ value' = latestByKey[key]
      /\ latestByKey' = [latestByKey EXCEPT ![key] = {}]
      /\ UNCHANGED <<queuedKeys, activeKeys, queue, key, submitted, handled>>
  BY DEF Continue, Hand, TypeOK, history
<1>3. TypeOK'  BY <1>2 DEF TypeOK
<1>4. Hand'  BY <1>2, KeyedAssumption DEF Hand
<1>5. EverySubmissionSomewhere'
  BY <1>2 DEF EverySubmissionSomewhere, InHand, TypeOK
<1>6. ASSUME NEW x \in Key PROVE KeyPlaced(x)'
  BY <1>1, <1>2 DEF KeyPlaced, TypeOK
<1> QED  BY <1>2, <1>3, <1>4, <1>5, <1>6, QueueKept

(* The key is let go with nothing waiting for it. *)
LEMMA LetGoInv ==
  ASSUME Inv, LetGo, phase \in {"done", "failed"}, latestByKey[key] = {},
         activeKeys' = activeKeys \ {key},
         UNCHANGED <<latestByKey, queuedKeys, queue, history>>
  PROVE  Inv'
<1> USE DEF Inv
<1>1. \A x \in Key: KeyPlaced(x)  BY KeysWaitOnceParts
<1>2. /\ key \in Key /\ phase' = "waiting" /\ key' = Nobody /\ value' = {}
      /\ submitted' = submitted /\ handled' = handled
  BY DEF LetGo, Hand, TypeOK, history
<1>3. TypeOK'  BY <1>2 DEF TypeOK
<1>4. Hand'  BY <1>2 DEF Hand
<1>5. EverySubmissionSomewhere'
  BY <1>2 DEF EverySubmissionSomewhere, InHand
<1>6. ASSUME NEW x \in Key PROVE KeyPlaced(x)'
  BY <1>1, <1>2, KeyedAssumption DEF KeyPlaced
<1> QED  BY <1>3, <1>4, <1>5, <1>6, QueueKept

LEMMA CleanupInv == ASSUME Inv, Cleanup PROVE Inv'
<1> USE DEF Inv
<1>1. \A x \in Key: KeyPlaced(x)  BY KeysWaitOnceParts
<1>2. /\ key \in Key /\ phase = "failed" /\ key \in activeKeys
      /\ key \notin queuedKeys /\ ~In(key, queue)
  <2>1. key \in Key /\ phase = "failed"  BY DEF Cleanup, Hand, TypeOK
  <2> QED  BY <1>1, <2>1 DEF KeyPlaced
<1>3. CASE latestByKey[key] = {}
  BY <1>2, <1>3, LetGoInv DEF Cleanup
<1>4. CASE latestByKey[key] # {}
  <2>1. /\ phase' = "requeue" /\ value' = {} /\ key' = key
        /\ queuedKeys' = queuedKeys \union {key}
        /\ activeKeys' = activeKeys \ {key}
        /\ UNCHANGED <<latestByKey, queue, submitted, handled>>
    BY <1>2, <1>4 DEF Cleanup, history
  <2>2. TypeOK'  BY <1>2, <2>1 DEF TypeOK
  <2>3. Hand'  BY <1>2, <2>1, KeyedAssumption DEF Hand
  <2>4. EverySubmissionSomewhere'
    BY <1>2, <2>1 DEF EverySubmissionSomewhere, InHand
  <2>5. ASSUME NEW x \in Key PROVE KeyPlaced(x)'
    BY <1>1, <1>2, <2>1 DEF KeyPlaced
  <2> QED  BY <2>1, <2>2, <2>3, <2>4, <2>5, QueueKept
<1> QED  BY <1>3, <1>4

LEMMA RequeueInv == ASSUME Inv, Requeue PROVE Inv'
<1> USE DEF Inv
<1>1. Distinct(queue) /\ \A x \in Key: KeyPlaced(x)  BY KeysWaitOnceParts
<1>2. /\ key \in Key /\ phase = "requeue" /\ ~In(key, queue)
      /\ queue' = Append(queue, key)
      /\ phase' = "waiting" /\ key' = Nobody /\ value' = {}
      /\ UNCHANGED <<latestByKey, queuedKeys, activeKeys, submitted, handled>>
  BY DEF Requeue, LetGo, Hand, TypeOK, state, history
<1>3. /\ Append(queue, key) \in Seq(Key) /\ Distinct(Append(queue, key))
      /\ \A x \in Key: In(x, Append(queue, key)) <=> In(x, queue) \/ x = key
  BY <1>1, <1>2, AppendKey DEF TypeOK
<1>4. TypeOK'  BY <1>2, <1>3 DEF TypeOK
<1>5. Hand'  BY <1>2 DEF Hand
<1>6. EverySubmissionSomewhere'
  BY <1>2 DEF EverySubmissionSomewhere, InHand
<1>7. ASSUME NEW x \in Key PROVE KeyPlaced(x)'
  BY <1>1, <1>2, <1>3, KeyedAssumption DEF KeyPlaced
<1>8. KeysWaitOnce'
  BY <1>2, <1>3, <1>7 DEF KeysWaitOnce, Distinct, KeyPlaced, In
<1> QED  BY <1>4, <1>5, <1>6, <1>8

LEMMA StepInv == ASSUME Inv, [Next]_vars PROVE Inv'
<1>1. CASE \E k \in Key, i \in Submission: Enqueue(k, i)
  BY <1>1, EnqueueInv
<1>2. CASE Take  BY <1>2, TakeInv
<1>3. CASE Claim  BY <1>3, ClaimInv
<1>4. CASE Process \/ ProcessFails  BY <1>4, ProcessInv
<1>5. CASE Continue  BY <1>5, ContinueInv
<1>6. CASE Release  BY <1>6, LetGoInv DEF Release
<1>7. CASE Cleanup  BY <1>7, CleanupInv
<1>8. CASE Requeue  BY <1>8, RequeueInv
<1>9. CASE UNCHANGED vars
  BY <1>9 DEF vars, state, hand, history, Inv, TypeOK, Hand, In,
              EverySubmissionSomewhere, InHand, KeysWaitOnce
<1> QED
  BY <1>1, <1>2, <1>3, <1>4, <1>5, <1>6, <1>7, <1>8, <1>9 DEF Next, WorkerStep

LEMMA Invariance == Spec => []Inv
<1> QED  BY InitInv, StepInv, PTL DEF Spec

(* The maps, sets and the queue keep their types: in particular the worker   *)
(* never offers anything but a key, KeyedCoalescingWorker.ts:57-74.          *)
THEOREM KeyedTypeCorrect == Spec => []TypeOK
<1>1. Inv => TypeOK  BY DEF Inv
<1> QED  BY <1>1, Invariance, PTL

(* queuedKeys, activeKeys and the TxQueue agree in every state, although     *)
(* they change in different transactions, so no key waits twice or is        *)
(* processed by two claims, and no waiting value is stranded.                *)
THEOREM KeysWaitInOnePlace == Spec => []KeysWaitOnce
<1>1. Inv => KeysWaitOnce  BY DEF Inv
<1> QED  BY <1>1, Invariance, PTL

(* Merging, claiming, continuing and cleaning up after a failure lose no     *)
(* submission and process none twice.                                        *)
THEOREM NoSubmissionIsLost == Spec => []EverySubmissionSomewhere
<1>1. Inv => EverySubmissionSomewhere  BY DEF Inv
<1> QED  BY <1>1, Invariance, PTL

(* The transaction of drainKey, KeyedCoalescingWorker.ts:128-137, lets its   *)
(* caller go only when every value of the key was processed.                 *)
THEOREM DrainKeyIsComplete == Spec => []DrainedKeyIsHandled
<1>1. ASSUME Inv PROVE DrainedKeyIsHandled
  <2> SUFFICES ASSUME NEW k \in Key, Quiet(k) PROVE handled[k] = submitted[k]
    BY DEF DrainedKeyIsHandled
  <2>1. InHand(k) = {}
    BY <1>1 DEF Inv, KeysWaitOnce, Quiet, InHand
  <2> QED  BY <1>1, <2>1 DEF Inv, EverySubmissionSomewhere, Quiet
<1> QED  BY <1>1, Invariance, PTL
=============================================================================
