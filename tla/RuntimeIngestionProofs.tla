------------------------ MODULE RuntimeIngestionProofs ------------------------
(***************************************************************************)
(* Proofs about RuntimeIngestion, for any number of messages, turns,       *)
(* pieces, changes of the settings and failures, and about the worker it   *)
(* extends, for any number of items and callers.                           *)
(*                                                                         *)
(* 0. The worker processes every item once and in order, and drain returns *)
(*    only when nothing is left.  Inv adds where the items are: the queue  *)
(*    holds the consecutive numbers that follow the handled ones and the   *)
(*    one in hand, and the counter counts the queue and the item in hand.  *)
(* 1. What the handling of an event consists of (Fits), from StepsOf.      *)
(* 2. Core, on which everything rests.  The events of the queue are in the *)
(*    order of the turns, nothing of an item follows its end, nothing of a *)
(*    turn follows its end (Order); the steps in hand are older than every *)
(*    event in the queue, and when they end an item or a turn nothing of   *)
(*    it is left to come (Todos); a message is remembered under its turn   *)
(*    (IdsOf).  StepKinds reduces every step of the specification to one   *)
(*    of four: Emitted, Taken, Handled and Quiet.                          *)
(* 3. CompletedOnce: a completed message is forgotten, or about to be, or  *)
(*    its turn has passed, so that the end of the turn does not find it.   *)
(* 4. BuffersAreReleased: what is cached of a turn has an end coming, or a *)
(*    step in hand that drops it.                                          *)
(* 5. OnlyWhatWasSaid: text, buffer, step in hand and queue follow one     *)
(*    another, in this order.                                              *)
(* 6. TextIsWhatWasSaid, of runs without failure: every piece that was     *)
(*    said is held, in order, or to come from a step, an event or the end  *)
(*    of its item (Texts); a message that is over is complete or has that  *)
(*    still to come (Finishing); a plan gathers until it is in the thread  *)
(*    (Plans).  All three need to know which steps follow one another and  *)
(*    which turns were cut off (Ground).                                   *)
(* 7. The ingestion uses its DrainableWorker as the worker was proved.     *)
(***************************************************************************)
EXTENDS RuntimeIngestion, SequenceTheorems, FiniteSetTheorems, TLAPS

(****************************** The worker *******************************)
InHand == IF current = 0 THEN 0 ELSE 1

Places ==
  /\ outstanding = Len(queue) + InHand
  /\ phase \in {"processing", "ensuring"} <=> current # 0
  /\ phase = "processing" => current = Len(handled) + 1
  /\ phase = "ensuring" => current = Len(handled)
  /\ LET before == enqueued - Len(queue)
     IN  /\ before = Len(handled) + (IF phase = "processing" THEN 1 ELSE 0)
         /\ \A i \in 1 .. Len(queue): queue[i] = before + i

Inv == TypeOK /\ Places /\ InOrder

LEMMA InitInv == Init => Inv
<1> SUFFICES ASSUME Init PROVE Inv
  OBVIOUS
<1>1. /\ queue = <<>> /\ handled = <<>> /\ Len(queue) = 0 /\ Len(handled) = 0
      /\ queue \in Seq(Nat) /\ handled \in Seq(Nat)
      /\ DOMAIN handled = {}
  <2>1. queue = <<>> /\ handled = <<>>  BY DEF Init
  <2>2. <<>> \in Seq(Nat) /\ Len(<<>>) = 0 /\ DOMAIN <<>> = {}
    BY EmptySeq
  <2> QED  BY <2>1, <2>2
<1>2. TypeOK  BY <1>1 DEF Init, TypeOK
<1>3. InOrder  BY <1>1 DEF InOrder
<1>4. Places
  <2>1. outstanding = 0 /\ current = 0 /\ phase = "waiting" /\ enqueued = 0
    BY DEF Init
  <2>2. Len(queue) = 0 /\ InHand = 0  BY <1>1, <2>1 DEF InHand
  <2>3. Len(handled) = 0  BY <1>1
  <2>4. enqueued - Len(queue) = 0 /\ 1 .. Len(queue) = {}  BY <2>1, <2>2
  <2> QED  BY <2>1, <2>2, <2>3, <2>4 DEF Places
<1> QED  BY <1>2, <1>3, <1>4 DEF Inv

LEMMA EnqueueInv == ASSUME Inv, Enqueue PROVE Inv'
<1>1. /\ queue' \in Seq(Nat) /\ Len(queue') = Len(queue) + 1
      /\ \A i \in 1 .. Len(queue): queue'[i] = queue[i]
      /\ queue'[Len(queue) + 1] = enqueued + 1
      /\ Len(queue) \in Nat /\ Len(handled) \in Nat
  BY AppendProperties, LenProperties DEF Inv, TypeOK, Enqueue
<1>2. TypeOK'  BY <1>1 DEF Inv, TypeOK, Enqueue, worker
<1>3. InOrder'  BY DEF Inv, InOrder, Enqueue
<1>4. outstanding' = Len(queue') + InHand'
  BY <1>1 DEF Inv, TypeOK, Places, Enqueue, worker, InHand
<1>5. enqueued' - Len(queue') = enqueued - Len(queue)
  BY <1>1 DEF Inv, TypeOK, Enqueue
<1>6. \A i \in 1 .. Len(queue'): queue'[i] = (enqueued' - Len(queue')) + i
  <2> TAKE i \in 1 .. Len(queue')
  <2>1. CASE i \in 1 .. Len(queue)
    BY <1>1, <1>5, <2>1 DEF Inv, Places
  <2>2. CASE i = Len(queue) + 1
    BY <1>1, <1>5, <2>2 DEF Inv, TypeOK
  <2> QED  BY <1>1, <2>1, <2>2
<1>7. Places'
  BY <1>1, <1>4, <1>5, <1>6 DEF Inv, Places, Enqueue, worker
<1> QED  BY <1>2, <1>3, <1>7 DEF Inv

LEMMA TakeInv == ASSUME Inv, Take PROVE Inv'
<1>1. /\ queue' \in Seq(Nat) /\ Len(queue') = Len(queue) - 1
      /\ Len(queue) \in Nat \ {0} /\ Len(handled) \in Nat
      /\ current' = queue[1]
      /\ \A i \in 1 .. Len(queue'): queue'[i] = queue[i + 1]
  <2>1. queue \in Seq(Nat) /\ queue # <<>>  BY DEF Inv, TypeOK, Take
  <2>2. Len(queue) \in Nat \ {0} /\ Len(handled) \in Nat
    BY <2>1, EmptySeq, LenProperties DEF Inv, TypeOK
  <2> QED  BY <2>1, <2>2, HeadTailProperties DEF Take
<1>2. current' = Len(handled) + 1
  BY <1>1 DEF Inv, TypeOK, Places, Take
<1>3. TypeOK'  BY <1>1, <1>2 DEF Inv, TypeOK, Take
<1>4. InOrder'  BY DEF Inv, InOrder, Take
<1>5. current = 0  BY DEF Inv, Places, Take
<1>6. outstanding' = Len(queue') + InHand'
  BY <1>1, <1>2, <1>5 DEF Inv, TypeOK, Places, Take, InHand
<1>7. /\ enqueued' - Len(queue') = Len(handled) + 1
      /\ enqueued' - Len(queue') = (enqueued - Len(queue)) + 1
  BY <1>1 DEF Inv, TypeOK, Places, Take
<1>8. \A i \in 1 .. Len(queue'): queue'[i] = (enqueued' - Len(queue')) + i
  <2> TAKE i \in 1 .. Len(queue')
  <2>1. i + 1 \in 1 .. Len(queue)  BY <1>1
  <2>2. queue[i + 1] = (enqueued - Len(queue)) + (i + 1)
    BY <2>1 DEF Inv, Places
  <2> QED  BY <1>1, <1>7, <2>2 DEF Inv, TypeOK
<1>9. Places'
  BY <1>1, <1>2, <1>6, <1>7, <1>8 DEF Places, Take
<1> QED  BY <1>3, <1>4, <1>9 DEF Inv

LEMMA ProcessInv == ASSUME Inv, Process \/ ProcessFails PROVE Inv'
<1>1. /\ phase = "processing" /\ phase' = "ensuring"
      /\ handled' = Append(handled, current)
      /\ failing' \in BOOLEAN
      /\ UNCHANGED <<queue, outstanding, current, enqueued, drainer>>
  BY DEF Inv, TypeOK, Process, ProcessFails
<1>2. /\ current = Len(handled) + 1 /\ Len(handled) \in Nat
      /\ Len(queue) \in Nat
  BY <1>1, LenProperties DEF Inv, TypeOK, Places
<1>3. /\ handled' \in Seq(Nat) /\ Len(handled') = Len(handled) + 1
      /\ DOMAIN handled' = 1 .. Len(handled) + 1
      /\ DOMAIN handled = 1 .. Len(handled)
      /\ \A i \in 1 .. Len(handled): handled'[i] = handled[i]
      /\ handled'[Len(handled) + 1] = current
  BY <1>1, AppendProperties, LenProperties DEF Inv, TypeOK
<1>4. TypeOK'  BY <1>1, <1>3 DEF Inv, TypeOK
<1>5. InOrder'  BY <1>2, <1>3 DEF Inv, InOrder
<1>6. Places'  BY <1>1, <1>2, <1>3 DEF Inv, TypeOK, Places, InHand
<1> QED  BY <1>4, <1>5, <1>6 DEF Inv

LEMMA EnsureInv == ASSUME Inv, Ensure PROVE Inv'
<1>1. /\ current # 0 /\ current' = 0 /\ phase' \in {"waiting", "dead"}
      /\ outstanding = Len(queue) + 1 /\ Len(queue) \in Nat
  BY LenProperties DEF Inv, TypeOK, Places, Ensure, InHand
<1>2. TypeOK'  BY <1>1 DEF Inv, TypeOK, Ensure
<1>3. InOrder'  BY DEF Inv, InOrder, Ensure
<1>4. outstanding' = Len(queue') + InHand'
  BY <1>1 DEF Ensure, InHand
<1>5. Places'  BY <1>1, <1>4 DEF Inv, Places, Ensure
<1> QED  BY <1>2, <1>3, <1>5 DEF Inv

LEMMA StepInv == ASSUME Inv, [Next]_vars PROVE Inv'
<1>1. CASE Enqueue  BY <1>1, EnqueueInv
<1>2. CASE Take  BY <1>2, TakeInv
<1>3. CASE Process \/ ProcessFails  BY <1>3, ProcessInv
<1>4. CASE Ensure  BY <1>4, EnsureInv
<1>5. CASE \E d \in Drainer: CallDrain(d) \/ Drained(d)
  <2>1. /\ UNCHANGED <<queue, outstanding, worker, enqueued, handled>>
        /\ drainer' \in [Drainer -> {"idle", "draining", "drained"}]
    BY <1>5 DEF CallDrain, Drained, Inv, TypeOK
  <2> QED  BY <2>1 DEF Inv, TypeOK, Places, InOrder, InHand, worker
<1>6. CASE UNCHANGED vars
  BY <1>6 DEF vars, worker, Inv, TypeOK, Places, InOrder, InHand
<1> QED  BY <1>1, <1>2, <1>3, <1>4, <1>5, <1>6 DEF Next, WorkerStep

LEMMA Invariance == Spec => []Inv
<1> QED  BY InitInv, StepInv, PTL DEF Spec

(* The worker's state is well typed: the counter in particular never goes    *)
(* below zero, DrainableWorker.ts:48-53.                                     *)
THEOREM DrainableTypeCorrect == Spec => []TypeOK
<1>1. Inv => TypeOK  BY DEF Inv
<1> QED  BY <1>1, Invariance, PTL

(* However many items are enqueued while the worker is busy, each is         *)
(* processed once, in the order of enqueue.                                  *)
THEOREM ItemsAreProcessedInOrder == Spec => []InOrder
<1>1. Inv => InOrder  BY DEF Inv
<1> QED  BY <1>1, Invariance, PTL

(* A drain that returns finds the queue empty, the worker idle and every     *)
(* item processed to its end: the counter is zero only then, although the    *)
(* queue, the hand and the counter change in different steps.                *)
THEOREM DrainReturnsWhenIdle == Spec => DrainReturnsIdle
<1> DEFINE Idle ==
      \A d \in Drainer:
        drainer[d] = "draining" /\ drainer'[d] = "drained"
          => queue = <<>> /\ current = 0 /\ Len(handled) = enqueued
<1>1. ASSUME Inv, [Next]_vars PROVE Idle
  <2> SUFFICES ASSUME NEW d \in Drainer,
                      drainer[d] = "draining", drainer'[d] = "drained"
               PROVE  queue = <<>> /\ current = 0 /\ Len(handled) = enqueued
    OBVIOUS
  <2>1. outstanding = 0
    BY <1>1 DEF Next, WorkerStep, Enqueue, Take, Process, ProcessFails, Ensure,
                CallDrain, Drained, vars, Inv, TypeOK
  <2>2. Len(queue) \in Nat /\ Len(handled) \in Nat
    BY <1>1, LenProperties DEF Inv, TypeOK
  <2>3. Len(queue) = 0 /\ current = 0
    BY <1>1, <2>1, <2>2 DEF Inv, Places, InHand
  <2>4. queue = <<>>  BY <1>1, <2>3, EmptySeq DEF Inv, TypeOK
  <2> QED  BY <1>1, <2>2, <2>3, <2>4 DEF Inv, TypeOK, Places
<1>2. Inv /\ [Next]_vars => [Idle]_vars
  BY <1>1
<1> QED  BY <1>2, Invariance, PTL DEF Spec, DrainReturnsIdle

(************************ The handling of an event ***********************)
EventTypes == {"turn.started", "content.delta", "item.completed", "turn.proposed.delta",
               "turn.proposed.completed", "turn.completed", "session.exited"}
Ends      == {"turn.completed", "session.exited"}
ItemTypes == {"content.delta", "item.completed"}
Ops == {"session", "delta", "remember", "activity", "flush", "complete", "forget", "propose",
        "plan", "clear", "exit"}
ItemOps == {"delta", "remember", "activity", "flush", "complete", "forget"}
Event == [type: EventTypes, turn: Turns, item: Item \union {None}, n: Nat]
Todo  == [op: Ops, item: Item \union {None}, turn: Turns, text: Seq(Nat)]

(* The order in which the remembered messages of a turn are finalized.       *)
LEMMA OrderOf ==
  ASSUME NEW S, IsFiniteSet(S)
  PROVE  /\ Cardinality(S) \in Nat
         /\ SetToSeq(S) \in [1 .. Cardinality(S) -> S]
         /\ \A j, k \in 1 .. Cardinality(S): SetToSeq(S)[j] = SetToSeq(S)[k] => j = k
         /\ \A i \in S: \E k \in 1 .. Cardinality(S): SetToSeq(S)[k] = i
<1> DEFINE n == Cardinality(S)
<1>1. n \in Nat /\ ExistsBijection(1 .. n, S)  BY FS_CardinalityType
<1>2. PICK g: g \in Bijection(1 .. n, S)  BY <1>1 DEF ExistsBijection
<1>3. g \in [1 .. n -> S] /\ IsInjective(g)
  BY <1>2 DEF Bijection, Injection, IsInjective
<1>4. SetToSeq(S) \in [1 .. n -> S] /\ IsInjective(SetToSeq(S))
  BY <1>3 DEF SetToSeq
<1>5. \A j, k \in 1 .. n: SetToSeq(S)[j] = SetToSeq(S)[k] => j = k
  BY <1>4 DEF IsInjective
<1>6. SetToSeq(S) \in Injection(1 .. n, S)
  BY <1>4, <1>5 DEF Injection, IsInjective
<1>7. IsFiniteSet(1 .. n) /\ Cardinality(1 .. n) = n
  BY <1>1, FS_Interval
<1>8. SetToSeq(S) \in Surjection(1 .. n, S)
  BY <1>6, <1>7, FS_Injection
<1>9. \A i \in S: \E k \in 1 .. n: SetToSeq(S)[k] = i
  BY <1>8 DEF Surjection
<1> QED  BY <1>1, <1>4, <1>5, <1>9

LEMMA Halves ==
  \A n \in Nat: \A k \in 1 .. 2 * n:
    /\ (k + 1) \div 2 \in 1 .. n
    /\ \/ k % 2 = 1 /\ k = 2 * ((k + 1) \div 2) - 1
       \/ k % 2 = 0 /\ k = 2 * ((k + 1) \div 2)
OBVIOUS

LEMMA Doubles ==
  \A n \in Nat: \A m \in 1 .. n:
    /\ 2 * m \in 1 .. 2 * n /\ (2 * m + 1) \div 2 = m /\ (2 * m) % 2 = 0
    /\ 2 * m - 1 \in 1 .. 2 * n /\ (2 * m - 1 + 1) \div 2 = m /\ (2 * m - 1) % 2 = 1
OBVIOUS

(* A flush and a completion of each message of S, in this order.             *)
Finalizations(F, n, S, t) ==
  /\ n \in Nat /\ F \in Seq(Todo) /\ DOMAIN F = 1 .. n
  /\ \A k \in 1 .. n: F[k].op \in {"flush", "complete"} /\ F[k].item \in S /\ F[k].turn = t
                      /\ F[k].text = <<>>
  /\ \A j, k \in 1 .. n:
       F[j].op = "complete" /\ F[k].op = "complete" /\ F[j].item = F[k].item => j = k
  /\ \A k \in 1 .. n: F[k].op = "flush" =>
       k + 1 \in 1 .. n /\ F[k + 1].op = "complete" /\ F[k + 1].item = F[k].item
  /\ \A i \in S: /\ \E k \in 1 .. n: F[k].op = "flush" /\ F[k].item = i
                 /\ \E k \in 1 .. n: F[k].op = "complete" /\ F[k].item = i

LEMMA Finalizes ==
  ASSUME NEW S \in SUBSET Message, IsFiniteSet(S), NEW t \in Turns,
         NEW F, F = FinalizeAll(S, t), NEW m, m = 2 * Cardinality(S)
  PROVE  Finalizations(F, m, S, t)
<1> DEFINE n == Cardinality(S)
           f == SetToSeq(S)
<1>1. n \in Nat /\ f \in [1 .. n -> S] /\ (\A j, k \in 1 .. n: f[j] = f[k] => j = k)
      /\ \A i \in S: \E k \in 1 .. n: f[k] = i
  BY OrderOf
<1>2. F = [k \in 1 .. 2 * n |-> Finalize(f[(k + 1) \div 2], t, <<>>)[2 - (k % 2)]]
  BY DEF FinalizeAll
<1>10. m = 2 * n  OBVIOUS
<1> HIDE DEF n, f
<1>3. ASSUME NEW k \in 1 .. 2 * n
      PROVE  /\ f[(k + 1) \div 2] \in S
             /\ \/ k % 2 = 1 /\ F[k].op = "flush"
                \/ k % 2 = 0 /\ F[k].op = "complete"
             /\ F[k].item = f[(k + 1) \div 2]
             /\ F[k] \in Todo /\ F[k].turn = t /\ F[k].text = <<>>
  <2>1. (k + 1) \div 2 \in 1 .. n /\ k % 2 \in {0, 1}  BY <1>1, Halves
  <2>2. F[k] = Finalize(f[(k + 1) \div 2], t, <<>>)[2 - (k % 2)]  BY <1>2
  <2>3. ASSUME NEW op \in {"flush", "complete"}, F[k] = Op(op, f[(k + 1) \div 2], t, <<>>)
        PROVE  /\ F[k].op = op /\ F[k].item = f[(k + 1) \div 2]
               /\ F[k] \in Todo /\ F[k].turn = t /\ F[k].text = <<>>
    BY <1>1, <2>1, <2>3, EmptySeq DEF Op, Todo, Ops, Item
  <2>4. CASE k % 2 = 1
    <3>1. F[k] = Op("flush", f[(k + 1) \div 2], t, <<>>)  BY <2>2, <2>4 DEF Finalize
    <3>2. /\ F[k].op = "flush" /\ F[k].item = f[(k + 1) \div 2]
          /\ F[k] \in Todo /\ F[k].turn = t /\ F[k].text = <<>>
      BY <2>3, <3>1
    <3> QED  BY <1>1, <2>1, <2>4, <3>2
  <2>5. CASE k % 2 = 0
    <3>1. F[k] = Op("complete", f[(k + 1) \div 2], t, <<>>)  BY <2>2, <2>5 DEF Finalize
    <3> QED  BY <1>1, <2>1, <2>3, <2>5, <3>1
  <2> QED  BY <2>1, <2>4, <2>5
<1>4. \A k \in 1 .. 2 * n: F[k].op \in {"flush", "complete"} /\ F[k].item \in S /\ F[k].turn = t
                           /\ F[k].text = <<>> /\ F[k] \in Todo
  BY <1>3
<1>5. DOMAIN F = 1 .. 2 * n  BY <1>2
<1>6. F \in Seq(Todo)
  <2>1. F \in [1 .. 2 * n -> Todo]  BY <1>2, <1>4, <1>5
  <2>2. 2 * n \in Nat  BY <1>1
  <2> QED  BY <2>1, <2>2, SeqDef
<1>7. \A j, k \in 1 .. 2 * n:
        F[j].op = "complete" /\ F[k].op = "complete" /\ F[j].item = F[k].item => j = k
  <2> SUFFICES ASSUME NEW j \in 1 .. 2 * n, NEW k \in 1 .. 2 * n, F[j].op = "complete",
                      F[k].op = "complete", F[j].item = F[k].item
               PROVE  j = k
    OBVIOUS
  <2>1. j % 2 = 0 /\ k % 2 = 0  BY <1>3 DEF Op
  <2>2. f[(j + 1) \div 2] = f[(k + 1) \div 2]  BY <1>3, <2>1
  <2>3. (j + 1) \div 2 = (k + 1) \div 2  BY <1>1, <2>2, Halves
  <2> QED  BY <1>1, <2>1, <2>3, Halves
<1>9. \A k \in 1 .. 2 * n: F[k].op = "flush" => 
        k + 1 \in 1 .. 2 * n /\ F[k + 1].op = "complete" /\ F[k + 1].item = F[k].item
  <2> SUFFICES ASSUME NEW k \in 1 .. 2 * n, F[k].op = "flush"
               PROVE  k + 1 \in 1 .. 2 * n /\ F[k + 1].op = "complete" /\ F[k + 1].item = F[k].item
    OBVIOUS
  <2>1. k % 2 = 1  BY <1>3
  <2>2. k + 1 \in 1 .. 2 * n /\ (k + 1) % 2 = 0 /\ (k + 1 + 1) \div 2 = (k + 1) \div 2
    BY <1>1, <2>1
  <2>3. F[k + 1].item = f[(k + 1 + 1) \div 2] /\ F[k].item = f[(k + 1) \div 2]
        /\ F[k + 1].op = "complete"
    BY <1>3, <2>2
  <2> QED  BY <2>2, <2>3
<1>8. \A i \in S: /\ \E k \in 1 .. 2 * n: F[k].op = "flush" /\ F[k].item = i
                  /\ \E k \in 1 .. 2 * n: F[k].op = "complete" /\ F[k].item = i
  <2> TAKE i \in S
  <2>1. PICK j \in 1 .. n: f[j] = i  BY <1>1
  <2> HIDE <1>2, <1>10
  <2>2. /\ 2 * j \in 1 .. 2 * n /\ (2 * j + 1) \div 2 = j /\ (2 * j) % 2 = 0
        /\ 2 * j - 1 \in 1 .. 2 * n /\ (2 * j - 1 + 1) \div 2 = j /\ (2 * j - 1) % 2 = 1
    <3>1. n \in Nat  BY <1>1
    <3> QED  BY <3>1, Doubles
  <2>3. F[2 * j].op = "complete" /\ F[2 * j].item = i  BY <1>3, <2>1, <2>2
  <2>4. F[2 * j - 1].op = "flush" /\ F[2 * j - 1].item = i  BY <1>3, <2>1, <2>2
  <2> QED  BY <2>2, <2>3, <2>4
<1>11. Finalizations(F, 2 * n, S, t)
  BY <1>1, <1>4, <1>5, <1>6, <1>7, <1>8, <1>9 DEF Finalizations
<1> QED  BY <1>10, <1>11

Provider == [turn: Nat, turns: 0 .. MaxTurns, of: [Item -> Nat], closed: SUBSET Message,
             planned: SUBSET Nat, cut: SUBSET Nat]
Said   == [text: [Item -> Nat], plan: [Turns -> Nat]]
Caches == [buffer: [Message -> Seq(Nat)], ids: [Turns -> SUBSET Message],
           plan: [Turns -> Seq(Nat)]]
Thread == [text: [Item -> Seq(Nat)], plan: [Turns -> Seq(Nat)],
           shown: [Message -> {"absent", "streaming", "complete"}],
           completions: [Message -> Nat]]
Troubles == {"toStreaming", "toBuffered", "exits", "failures"}

Typed ==
  /\ events \in Seq(Event) /\ steps \in Seq(Todo)
  /\ provider \in Provider /\ provider.turn \in {0, provider.turns}
  /\ \A i \in Item: provider.of[i] <= provider.turns
  /\ said \in Said /\ streaming \in BOOLEAN
  /\ caches \in Caches /\ (\A t \in Turns: IsFiniteSet(caches.ids[t]))
  /\ thread \in Thread /\ count \in [Troubles -> Nat]

Has(s, op, i) == \E k \in DOMAIN s: s[k].op = op /\ s[k].item = i
HasBefore(s, k, op, i) == \E j \in DOMAIN s: j < k /\ s[j].op = op /\ s[j].item = i
HasAfter(s, k, op, i)  == \E j \in DOMAIN s: j > k /\ s[j].op = op /\ s[j].item = i

(* What the handling of an event consists of.                                *)
Fits(s, e) ==
  /\ s \in Seq(Todo)
  /\ \A k \in DOMAIN s:
       /\ s[k].turn = e.turn
       /\ s[k].op \in {"delta", "activity"} =>
            e.type = "content.delta" /\ DOMAIN s = {1} /\ s[k].item = e.item
       /\ s[k].op = "delta" => s[k].item \in Message /\ s[k].text = <<e.n>>
       /\ s[k].op = "activity" =>
            s[k].item \in Reasoning /\ s[k].text = Append(thread.text[e.item], e.n)
       /\ s[k].op \in {"remember", "forget"} =>
            e.type = "item.completed" /\ s[k].item = e.item
       /\ s[k].op \in {"flush", "complete"} =>
            \/ e.type = "item.completed" /\ s[k].item = e.item
            \/ e.type = "turn.completed" /\ s[k].item \in caches.ids[e.turn]
       /\ s[k].op = "flush" =>
            s[k].text = <<>> \/ (e.type = "item.completed" /\ s[k].text = Fallback(e))
       /\ s[k].op = "remember" => k = 1
       /\ s[k].op = "flush" /\ e.type = "item.completed" => k = 2
       /\ s[k].op = "complete" /\ e.type = "item.completed" =>
            HasAfter(s, k, "forget", e.item) /\ Len(s) = k + 1
       /\ s[k].op = "forget" => HasBefore(s, k, "flush", e.item)
       /\ s[k].op = "clear" =>
            /\ e.type = "turn.completed"
            /\ \A i \in caches.ids[e.turn]: HasBefore(s, k, "flush", i)
       /\ s[k].op = "exit" => e.type = "session.exited"
       /\ s[k].op = "propose" => e.type = "turn.proposed.delta"
  /\ \A j, k \in DOMAIN s: s[j].op = "complete" /\ s[k].op = "complete" /\ s[j].item = s[k].item
                             => j = k
  /\ e.type = "turn.completed" =>
       /\ \E k \in DOMAIN s: s[k].op = "clear"
       /\ \E k \in DOMAIN s: s[k].op = "plan"
       /\ \A i \in caches.ids[e.turn]: Has(s, "flush", i) /\ Has(s, "complete", i)
  /\ e.type = "session.exited" => \E k \in DOMAIN s: s[k].op = "exit"

Wellformed(e) == /\ e \in Event
                 /\ e.type = "content.delta" => e.item \in Item
                 /\ e.type = "item.completed" => e.item \in Message

LEMMA OpTyped ==
  ASSUME NEW op \in Ops, NEW item \in Item \union {None}, NEW t \in Turns, NEW text \in Seq(Nat)
  PROVE  /\ Op(op, item, t, text) \in Todo /\ Op(op, item, t, text).op = op
         /\ Op(op, item, t, text).item = item /\ Op(op, item, t, text).turn = t
         /\ Op(op, item, t, text).text = text
BY DEF Op, Todo

LEMMA PiecesTyped == ASSUME NEW n \in Nat PROVE Pieces(n) \in Seq(Nat)
<1>1. Pieces(n) \in [1 .. n -> Nat]  BY DEF Pieces
<1> QED  BY <1>1, SeqDef

LEMMA OneStep ==
  ASSUME NEW o \in Todo, NEW s, s = <<o>> 
  PROVE  s \in Seq(Todo) /\ DOMAIN s = {1} /\ s[1] = o
<1>1. s \in Seq(Todo) /\ Len(s) = 1 /\ s[1] = o  OBVIOUS
<1>2. DOMAIN s = 1 .. 1  BY <1>1, LenProperties
<1> QED  BY <1>1, <1>2

LEMMA FitsSimple ==
  ASSUME Typed, NEW e, Wellformed(e),
         e.type \in {"turn.started", "content.delta", "turn.proposed.delta",
                     "turn.proposed.completed"}
  PROVE  Fits(StepsOf(e), e)
<1> DEFINE s == StepsOf(e)
<1>1. e.turn \in Turns /\ e.n \in Nat /\ e.item \in Item \union {None}
  BY DEF Wellformed, Event
<1>2. <<>> \in Seq(Nat) /\ <<e.n>> \in Seq(Nat) /\ Pieces(e.n) \in Seq(Nat)
  BY <1>1, PiecesTyped, EmptySeq
<1>3. ASSUME NEW op \in {"session", "propose", "plan"}, NEW text \in Seq(Nat),
             s = <<Op(op, None, e.turn, text)>>, op = "propose" => e.type = "turn.proposed.delta",
             e.type \notin {"turn.completed", "session.exited"}
      PROVE  Fits(s, e)
  <2>1. op \in Ops /\ None \in Item \union {None}  BY DEF Ops
  <2> DEFINE o == Op(op, None, e.turn, text)
  <2>2. o \in Todo /\ o.op = op /\ o.turn = e.turn
    BY <1>1, <2>1 DEF Op, Todo
  <2>3. s = <<o>>  BY <1>3
  <2> HIDE DEF s, o
  <2>4. s \in Seq(Todo) /\ DOMAIN s = {1} /\ s[1] = o  BY <2>2, <2>3, OneStep
  <2> QED  BY <1>3, <2>2, <2>4 DEF Fits
<1>4. ASSUME NEW op \in {"delta", "activity"}, NEW text \in Seq(Nat),
             s = <<Op(op, e.item, e.turn, text)>>, e.type = "content.delta",
             op = "delta" => e.item \in Message /\ text = <<e.n>>,
             op = "activity" =>
               e.item \in Reasoning /\ text = Append(thread.text[e.item], e.n)
      PROVE  Fits(s, e)
  <2>1. op \in Ops  BY DEF Ops
  <2> DEFINE o == Op(op, e.item, e.turn, text)
  <2>2. /\ o \in Todo /\ o.op = op /\ o.turn = e.turn
        /\ o.item = e.item /\ o.text = text
    BY <1>1, <2>1 DEF Op, Todo
  <2>3. s = <<o>>  BY <1>4
  <2> HIDE DEF s, o
  <2>4. s \in Seq(Todo) /\ DOMAIN s = {1} /\ s[1] = o  BY <2>2, <2>3, OneStep
  <2> QED  BY <1>4, <2>2, <2>4 DEF Fits
<1>5. CASE e.type = "turn.started"
  BY <1>2, <1>3, <1>5 DEF StepsOf
<1>6. CASE e.type = "turn.proposed.delta"  BY <1>2, <1>3, <1>6 DEF StepsOf
<1>7. CASE e.type = "turn.proposed.completed"  BY <1>2, <1>3, <1>7 DEF StepsOf
<1>8. CASE e.type = "content.delta" /\ e.item \in Message
  BY <1>2, <1>4, <1>8 DEF StepsOf
<1>9. CASE e.type = "content.delta" /\ e.item \notin Message
  <2>1. e.item \in Reasoning  BY <1>9 DEF Wellformed, Item
  <2> DEFINE text == Append(thread.text[e.item], e.n)
  <2>2. text \in Seq(Nat)
    BY <1>1, <1>9, AppendProperties DEF Typed, Thread, Wellformed
  <2>3. s = <<Op("activity", e.item, e.turn, text)>>
    BY <1>9 DEF StepsOf
  <2>4. text = Append(thread.text[e.item], e.n)  OBVIOUS
  <2> HIDE DEF s, text
  <2>5. Fits(s, e)  BY <1>4, <1>9, <2>1, <2>2, <2>3, <2>4
  <2> QED  BY <2>5 DEF s
<1> QED  BY <1>5, <1>6, <1>7, <1>8, <1>9

LEMMA ConcatElements ==
  ASSUME NEW S, NEW s \in Seq(S), NEW t \in Seq(S), NEW r, r = s \o t
  PROVE  /\ r \in Seq(S) /\ Len(r) = Len(s) + Len(t)
         /\ Len(s) \in Nat /\ Len(t) \in Nat
         /\ \A k \in 1 .. Len(s): r[k] = s[k]
         /\ \A k \in 1 .. Len(t): r[Len(s) + k] = t[k]
BY ConcatProperties, LenProperties

LEMMA Concat3 ==
  ASSUME NEW a \in Todo, NEW b \in Todo, NEW c \in Todo, NEW d \in Todo,
         NEW s, s = (<<a>> \o <<b, c>>) \o <<d>>
  PROVE  s \in Seq(Todo) /\ Len(s) = 4 /\ s[1] = a /\ s[2] = b /\ s[3] = c /\ s[4] = d
<1>1. PICK x, y, z: x = <<a>> /\ y = <<b, c>> /\ z = <<d>>  OBVIOUS
<1>2. PICK xy: xy = x \o y  OBVIOUS
<1>3. s = xy \o z  BY <1>1, <1>2
<1>4. /\ x \in Seq(Todo) /\ Len(x) = 1 /\ x[1] = a
      /\ y \in Seq(Todo) /\ Len(y) = 2 /\ y[1] = b /\ y[2] = c
      /\ z \in Seq(Todo) /\ Len(z) = 1 /\ z[1] = d
  BY <1>1
<1>5. /\ xy \in Seq(Todo) /\ Len(xy) = Len(x) + Len(y)
      /\ \A k \in 1 .. Len(x): xy[k] = x[k]
      /\ \A k \in 1 .. Len(y): xy[Len(x) + k] = y[k]
  <2>1. x \in Seq(Todo) /\ y \in Seq(Todo) /\ xy = x \o y  BY <1>2, <1>4
  <2>2. xy \in Seq(Todo) /\ Len(xy) = Len(x) + Len(y)  BY <2>1, ConcatElements
  <2>3. \A k \in 1 .. Len(x): xy[k] = x[k]  BY <2>1, ConcatElements
  <2>4. \A k \in 1 .. Len(y): xy[Len(x) + k] = y[k]  BY <2>1, ConcatElements
  <2> QED  BY <2>2, <2>3, <2>4
<1>6. Len(xy) = 3 /\ xy[1] = a /\ xy[2] = b /\ xy[3] = c
  <2>1. xy[1 + 1] = y[1] /\ xy[1 + 2] = y[2] /\ xy[1] = x[1]  BY <1>4, <1>5
  <2> QED  BY <1>4, <1>5, <2>1
<1>7. /\ s \in Seq(Todo) /\ Len(s) = 4
      /\ \A k \in 1 .. 3: s[k] = xy[k]
      /\ \A k \in 1 .. 1: s[3 + k] = z[k]
  BY <1>3, <1>4, <1>5, <1>6, ConcatElements
<1>8. s[3 + 1] = z[1]  BY <1>7
<1> QED  BY <1>4, <1>6, <1>7, <1>8

(* The end of an item.                                                       *)
LEMMA StepsOfCompleted ==
  ASSUME Typed, NEW e, Wellformed(e), e.type = "item.completed", NEW s, s = StepsOf(e)
  PROVE  /\ s \in Seq(Todo) /\ Len(s) = 4 /\ DOMAIN s = {1, 2, 3, 4}
         /\ \A k \in DOMAIN s: s[k].item = e.item /\ s[k].turn = e.turn
         /\ s[1].op = "remember" /\ s[2].op = "flush" /\ s[3].op = "complete"
         /\ s[4].op = "forget" /\ s[2].text = Fallback(e)
<1>1. e.turn \in Turns /\ e.n \in Nat /\ e.item \in Message /\ e.item \in Item \union {None}
  BY DEF Wellformed, Event, Item
<1>2. <<>> \in Seq(Nat) /\ Fallback(e) \in Seq(Nat)
  BY <1>1, PiecesTyped, EmptySeq DEF Fallback
<1> DEFINE a == Op("remember", e.item, e.turn, <<>>)
           b == Op("flush", e.item, e.turn, Fallback(e))
           c == Op("complete", e.item, e.turn, <<>>)
           d == Op("forget", e.item, e.turn, <<>>)
<1>3. a \in Todo /\ a.op = "remember" /\ a.item = e.item /\ a.turn = e.turn
  BY <1>1, <1>2 DEF Op, Todo, Ops
<1>4. b \in Todo /\ b.op = "flush" /\ b.item = e.item /\ b.turn = e.turn /\ b.text = Fallback(e)
  BY <1>1, <1>2 DEF Op, Todo, Ops
<1>5. c \in Todo /\ c.op = "complete" /\ c.item = e.item /\ c.turn = e.turn
  BY <1>1, <1>2 DEF Op, Todo, Ops
<1>6. d \in Todo /\ d.op = "forget" /\ d.item = e.item /\ d.turn = e.turn
  BY <1>1, <1>2 DEF Op, Todo, Ops
<1>7. s = (<<a>> \o <<b, c>>) \o <<d>>
  BY DEF StepsOf, Finalize
<1> HIDE DEF a, b, c, d
<1>8. s \in Seq(Todo) /\ Len(s) = 4 /\ s[1] = a /\ s[2] = b /\ s[3] = c /\ s[4] = d
  BY <1>3, <1>4, <1>5, <1>6, <1>7, Concat3
<1>9. DOMAIN s = 1 .. 4  BY <1>8, LenProperties
<1>10. DOMAIN s = {1, 2, 3, 4}  BY <1>9
<1> QED  BY <1>3, <1>4, <1>5, <1>6, <1>8, <1>10

LEMMA FitsCompleted ==
  ASSUME Typed, NEW e, Wellformed(e), e.type = "item.completed" PROVE Fits(StepsOf(e), e)
<1>1. PICK s: s = StepsOf(e)  OBVIOUS
<1>2. /\ s \in Seq(Todo) /\ Len(s) = 4 /\ DOMAIN s = {1, 2, 3, 4}
      /\ \A k \in DOMAIN s: s[k].item = e.item /\ s[k].turn = e.turn
      /\ s[1].op = "remember" /\ s[2].op = "flush" /\ s[3].op = "complete"
      /\ s[4].op = "forget" /\ s[2].text = Fallback(e)
  BY <1>1, StepsOfCompleted
<1>3. Has(s, "flush", e.item) /\ HasBefore(s, 4, "flush", e.item)
      /\ HasAfter(s, 3, "forget", e.item)
  BY <1>2 DEF Has, HasBefore, HasAfter
<1>4. \A k \in DOMAIN s: /\ s[k].op = "complete" => k = 3
                         /\ s[k].op \in {"remember", "flush", "complete", "forget"}
                         /\ s[k].op = "flush" => k = 2
                         /\ s[k].op = "remember" => k = 1
                         /\ s[k].op = "forget" => k = 4
  BY <1>2
<1>5. Fits(s, e)  BY <1>2, <1>3, <1>4 DEF Fits
<1> QED  BY <1>1, <1>5

LEMMA FitsExited ==
  ASSUME Typed, NEW e, Wellformed(e), e.type = "session.exited" PROVE Fits(StepsOf(e), e)
<1> DEFINE s == StepsOf(e)
           a == Op("session", None, e.turn, <<>>)
           b == Op("exit", None, e.turn, <<>>)
<1>1. e.turn \in Turns  BY DEF Wellformed, Event
<1>2. a \in Todo /\ a.op = "session" /\ a.turn = e.turn
  BY <1>1, EmptySeq DEF Op, Todo, Ops
<1>3. b \in Todo /\ b.op = "exit" /\ b.turn = e.turn
  BY <1>1, EmptySeq DEF Op, Todo, Ops
<1>4. s = <<a, b>>  BY DEF StepsOf
<1> HIDE DEF s, a, b
<1>5. s \in Seq(Todo) /\ Len(s) = 2 /\ s[1] = a /\ s[2] = b  BY <1>2, <1>3, <1>4
<1>6. DOMAIN s = 1 .. 2  BY <1>5, LenProperties
<1>7. \A k \in DOMAIN s: \/ k = 1 /\ s[k] = a
                         \/ k = 2 /\ s[k] = b
  BY <1>5, <1>6
<1>8. Fits(s, e)  BY <1>2, <1>3, <1>5, <1>6, <1>7 DEF Fits
<1> QED  BY <1>8 DEF s

(* The end of a turn finalizes what is remembered of it, then forgets it.    *)
EndedSteps(s, e, n, F) ==
  /\ s \in Seq(Todo) /\ Len(s) = n + 3 /\ DOMAIN s = 1 .. n + 3 /\ DOMAIN F = 1 .. n
  /\ \A k \in DOMAIN s: s[k].turn = e.turn
  /\ s[1].op = "session" /\ s[n + 2].op = "clear"
  /\ s[n + 3].op = "plan" /\ s[n + 3].text = <<>>
  /\ \A k \in 1 .. n: 1 + k \in DOMAIN s /\ 1 + k < n + 2 /\ s[1 + k] = F[k]
  /\ \A k \in DOMAIN s: k = 1 \/ k = n + 2 \/ k = n + 3 \/ (k - 1 \in 1 .. n /\ s[k] = F[k - 1])
  /\ \A k \in 1 .. n: F[k].op \in {"flush", "complete"} /\ F[k].item \in caches.ids[e.turn]
                      /\ F[k].text = <<>>
  /\ \A j, k \in 1 .. n:
       F[j].op = "complete" /\ F[k].op = "complete" /\ F[j].item = F[k].item => j = k
  /\ \A k \in 1 .. n: F[k].op = "flush" =>
       k + 1 \in 1 .. n /\ F[k + 1].op = "complete" /\ F[k + 1].item = F[k].item
  /\ \A i \in caches.ids[e.turn]: /\ \E k \in 1 .. n: F[k].op = "flush" /\ F[k].item = i
                                  /\ \E k \in 1 .. n: F[k].op = "complete" /\ F[k].item = i

LEMMA StepsOfEnded ==
  ASSUME Typed, NEW e, Wellformed(e), e.type = "turn.completed", NEW s, s = StepsOf(e)
  PROVE  \E n \in Nat: \E F \in Seq(Todo): EndedSteps(s, e, n, F)
<1> DEFINE ids == caches.ids[e.turn]
           a == Op("session", None, e.turn, <<>>)
           b == Op("clear", None, e.turn, <<>>)
           c == Op("plan", None, e.turn, <<>>)
<1>1. e.turn \in Turns  BY DEF Wellformed, Event
<1>2. a \in Todo /\ a.op = "session" /\ a.turn = e.turn
  BY <1>1, EmptySeq DEF Op, Todo, Ops
<1>3. b \in Todo /\ b.op = "clear" /\ b.turn = e.turn
  BY <1>1, EmptySeq DEF Op, Todo, Ops
<1>4. c \in Todo /\ c.op = "plan" /\ c.turn = e.turn
  BY <1>1, EmptySeq DEF Op, Todo, Ops
<1>5. ids \in SUBSET Message /\ IsFiniteSet(ids)  BY <1>1 DEF Typed, Caches
<1>6. PICK F: F = FinalizeAll(ids, e.turn)  OBVIOUS
<1>7. PICK n \in Nat: n = 2 * Cardinality(ids)  BY <1>5, FS_CardinalityType
<1>8. /\ F \in Seq(Todo) /\ DOMAIN F = 1 .. n
      /\ \A k \in 1 .. n: F[k].op \in {"flush", "complete"} /\ F[k].item \in ids
                          /\ F[k].turn = e.turn /\ F[k].text = <<>>
      /\ \A j, k \in 1 .. n:
           F[j].op = "complete" /\ F[k].op = "complete" /\ F[j].item = F[k].item => j = k
      /\ \A k \in 1 .. n: F[k].op = "flush" =>
           k + 1 \in 1 .. n /\ F[k + 1].op = "complete" /\ F[k + 1].item = F[k].item
      /\ \A i \in ids: /\ \E k \in 1 .. n: F[k].op = "flush" /\ F[k].item = i
                       /\ \E k \in 1 .. n: F[k].op = "complete" /\ F[k].item = i
  <2> HIDE DEF ids
  <2>1. Finalizations(F, n, ids, e.turn)  BY <1>1, <1>5, <1>6, <1>7, Finalizes
  <2> QED  BY <2>1 DEF Finalizations
<1>9. s = (<<a>> \o F) \o <<b, c>>  BY <1>6 DEF StepsOf
<1> HIDE DEF a, b, c, ids
<1>10. Len(F) = n  BY <1>7, <1>8, LenProperties
<1>11. PICK x, y: x = <<a>> /\ y = <<b, c>>  OBVIOUS
<1>12. /\ x \in Seq(Todo) /\ Len(x) = 1 /\ x[1] = a
       /\ y \in Seq(Todo) /\ Len(y) = 2 /\ y[1] = b /\ y[2] = c
  BY <1>2, <1>3, <1>4, <1>11
<1>13. PICK xF: xF = x \o F  OBVIOUS
<1>14. s = xF \o y  BY <1>9, <1>11, <1>13
<1>15. /\ xF \in Seq(Todo) /\ Len(xF) = Len(x) + Len(F)
       /\ \A k \in 1 .. Len(x): xF[k] = x[k]
       /\ \A k \in 1 .. Len(F): xF[Len(x) + k] = F[k]
  <2>1. x \in Seq(Todo) /\ F \in Seq(Todo) /\ xF = x \o F  BY <1>8, <1>12, <1>13
  <2>2. xF \in Seq(Todo) /\ Len(xF) = Len(x) + Len(F)  BY <2>1, ConcatElements
  <2>3. \A k \in 1 .. Len(x): xF[k] = x[k]  BY <2>1, ConcatElements
  <2>4. \A k \in 1 .. Len(F): xF[Len(x) + k] = F[k]  BY <2>1, ConcatElements
  <2> QED  BY <2>2, <2>3, <2>4
<1>16. Len(xF) = n + 1 /\ xF[1] = a /\ \A k \in 1 .. n: xF[1 + k] = F[k]
  BY <1>7, <1>10, <1>12, <1>15
<1>17. /\ s \in Seq(Todo) /\ Len(s) = Len(xF) + Len(y)
       /\ \A k \in 1 .. Len(xF): s[k] = xF[k]
       /\ \A k \in 1 .. Len(y): s[Len(xF) + k] = y[k]
  <2>1. xF \in Seq(Todo) /\ y \in Seq(Todo) /\ s = xF \o y  BY <1>12, <1>14, <1>15
  <2>2. s \in Seq(Todo) /\ Len(s) = Len(xF) + Len(y)  BY <2>1, ConcatElements
  <2>3. \A k \in 1 .. Len(xF): s[k] = xF[k]  BY <2>1, ConcatElements
  <2>4. \A k \in 1 .. Len(y): s[Len(xF) + k] = y[k]  BY <2>1, ConcatElements
  <2> QED  BY <2>2, <2>3, <2>4
<1>18. /\ DOMAIN s = 1 .. n + 3 /\ s[1] = a /\ (\A k \in 1 .. n: s[1 + k] = F[k])
       /\ s[n + 2] = b /\ s[n + 3] = c
  <2>1. Len(s) = n + 3  BY <1>7, <1>12, <1>16, <1>17
  <2>2. s[1] = a  BY <1>7, <1>16, <1>17
  <2>3. ASSUME NEW k \in 1 .. n PROVE s[1 + k] = F[k]
    <3>1. 1 + k \in 1 .. Len(xF)  BY <1>7, <1>16
    <3> QED  BY <1>16, <1>17, <3>1
  <2>4. s[(n + 1) + 1] = y[1] /\ s[(n + 1) + 2] = y[2]  BY <1>12, <1>16, <1>17
  <2>5. (n + 1) + 1 = n + 2 /\ (n + 1) + 2 = n + 3  BY <1>7
  <2>6. DOMAIN s = 1 .. n + 3  BY <1>17, <2>1, LenProperties
  <2> QED  BY <1>12, <2>2, <2>3, <2>4, <2>5, <2>6
<1>19. ASSUME NEW k \in DOMAIN s
       PROVE  \/ k = 1 /\ s[k] = a
              \/ k - 1 \in 1 .. n /\ s[k] = F[k - 1]
              \/ k = n + 2 /\ s[k] = b
              \/ k = n + 3 /\ s[k] = c
  <2>1. CASE k - 1 \in 1 .. n
    <3>1. s[1 + (k - 1)] = F[k - 1] /\ 1 + (k - 1) = k  BY <1>7, <1>18, <2>1
    <3> QED  BY <2>1, <3>1
  <2> QED  BY <1>7, <1>18, <2>1
<1>20. ASSUME NEW k \in 1 .. n
       PROVE  1 + k \in DOMAIN s /\ 1 + k < n + 2 /\ s[1 + k] = F[k]
  BY <1>7, <1>18
<1>21. ASSUME NEW k \in DOMAIN s PROVE s[k].turn = e.turn
  <2>1. CASE k - 1 \in 1 .. n /\ s[k] = F[k - 1]  BY <1>8, <2>1
  <2> QED  BY <1>2, <1>3, <1>4, <1>19, <2>1
<1>22. Len(s) = n + 3  BY <1>7, <1>17, <1>18, LenProperties
<1>23. c.text = <<>>  BY DEF c, Op
<1>24. EndedSteps(s, e, n, F)
  BY <1>2, <1>3, <1>4, <1>8, <1>17, <1>18, <1>19, <1>20, <1>21, <1>22, <1>23 DEF EndedSteps, ids
<1> QED  BY <1>7, <1>8, <1>24

LEMMA FitsEnded ==
  ASSUME Typed, NEW e, Wellformed(e), e.type = "turn.completed" PROVE Fits(StepsOf(e), e)
<1> DEFINE ids == caches.ids[e.turn]
<1>1. PICK s: s = StepsOf(e)  OBVIOUS
<1>2. PICK n \in Nat, F \in Seq(Todo): EndedSteps(s, e, n, F)  BY <1>1, StepsOfEnded
<1>3. \A i \in ids: /\ HasBefore(s, n + 2, "flush", i) /\ Has(s, "flush", i)
                   /\ Has(s, "complete", i)
  <2> TAKE i \in ids
  <2>1. PICK k \in 1 .. n: F[k].op = "flush" /\ F[k].item = i  BY <1>2 DEF EndedSteps
  <2>2. PICK j \in 1 .. n: F[j].op = "complete" /\ F[j].item = i  BY <1>2 DEF EndedSteps
  <2>3. 1 + k \in DOMAIN s /\ 1 + k < n + 2 /\ s[1 + k] = F[k]  BY <1>2 DEF EndedSteps
  <2>4. 1 + j \in DOMAIN s /\ s[1 + j] = F[j]  BY <1>2 DEF EndedSteps
  <2> QED  BY <2>1, <2>2, <2>3, <2>4 DEF Has, HasBefore
<1>4. \A j, k \in DOMAIN s:
        s[j].op = "complete" /\ s[k].op = "complete" /\ s[j].item = s[k].item => j = k
  <2> SUFFICES ASSUME NEW j \in DOMAIN s, NEW k \in DOMAIN s, s[j].op = "complete",
                      s[k].op = "complete", s[j].item = s[k].item
               PROVE  j = k
    OBVIOUS
  <2>1. j - 1 \in 1 .. n /\ s[j] = F[j - 1] /\ k - 1 \in 1 .. n /\ s[k] = F[k - 1]
    BY <1>2 DEF EndedSteps
  <2>2. j - 1 = k - 1  BY <1>2, <2>1 DEF EndedSteps
  <2>3. j \in 1 .. n + 3 /\ k \in 1 .. n + 3  BY <1>2 DEF EndedSteps
  <2> QED  BY <2>2, <2>3
<1>5. n + 2 \in DOMAIN s /\ n + 3 \in DOMAIN s  BY <1>2 DEF EndedSteps
<1>6. \A k \in DOMAIN s:
        /\ s[k].op \in {"session", "flush", "complete", "clear", "plan"}
        /\ s[k].op \in {"flush", "complete"} => s[k].item \in ids /\ s[k].text = <<>>
        /\ s[k].op = "clear" => k = n + 2
  <2> TAKE k \in DOMAIN s
  <2>1. CASE k - 1 \in 1 .. n /\ s[k] = F[k - 1]
    <3>1. \A m \in 1 .. n: F[m].op \in {"flush", "complete"} /\ F[m].item \in ids /\ F[m].text = <<>>
      BY <1>2 DEF EndedSteps
    <3>2. k # n + 2 /\ k # n + 3  BY <1>2, <2>1 DEF EndedSteps
    <3> QED  BY <2>1, <3>1, <3>2
  <2>2. CASE k = 1 \/ k = n + 2 \/ k = n + 3  BY <1>2, <2>2 DEF EndedSteps
  <2> QED  BY <1>2, <2>1, <2>2 DEF EndedSteps
<1>7. /\ s \in Seq(Todo) /\ s[n + 2].op = "clear" /\ s[n + 3].op = "plan"
      /\ \A k \in DOMAIN s: s[k].turn = e.turn
  BY <1>2 DEF EndedSteps
<1>8. Fits(s, e)  BY <1>3, <1>4, <1>5, <1>6, <1>7 DEF Fits, ids
<1> QED  BY <1>1, <1>8

LEMMA StepsFit == ASSUME Typed, NEW e, Wellformed(e) PROVE Fits(StepsOf(e), e)
<1>1. e.type \in EventTypes  BY DEF Wellformed, Event
<1> QED  BY <1>1, FitsSimple, FitsCompleted, FitsExited, FitsEnded DEF EventTypes

(************************* What the provider does ************************)
(* Nothing of the turn, or of the item, is on its way or will be.            *)
TurnPassed(t)  == provider.turn # t /\ \A j \in DOMAIN events: events[j].turn # t
NothingMore(i) == /\ provider.of[i] # 0 /\ (i \in provider.closed \/ provider.of[i] # provider.turn)
                  /\ \A j \in DOMAIN events: events[j].item # i

EventFits(e) ==
  /\ Wellformed(e) /\ e.turn <= provider.turns
  /\ e.type \in ItemTypes => provider.of[e.item] = e.turn
  /\ e.type \notin ItemTypes => e.item = None
  /\ e.type = "content.delta" => e.n <= said.text[e.item]
  /\ e.type = "item.completed" => e.item \in provider.closed
  /\ e.type \in Ends => e.turn # provider.turn
Precedes(d, e) ==
  /\ d.turn <= e.turn /\ (d.type \in Ends => d.turn < e.turn)
  /\ d.type = "item.completed" => d.item # e.item
  /\ d.type = "content.delta" /\ e.type = "content.delta" /\ d.item = e.item => d.n < e.n
StepFits(o) ==
  /\ o.turn <= provider.turns /\ \A j \in DOMAIN events: o.turn <= events[j].turn
  /\ o.op \in ItemOps => provider.of[o.item] = o.turn /\ o.item \in Item
  /\ o.op \in ItemOps \ {"activity"} => o.item \in Message
  /\ o.op = "activity" => o.item \in Reasoning
  /\ o.op \in {"remember", "flush", "complete", "forget"} => NothingMore(o.item)
  /\ o.op \in {"clear", "exit"} => TurnPassed(o.turn)
  /\ o.op \in {"delta", "activity"} => Len(steps) = 1

Order == /\ \A k \in DOMAIN events: EventFits(events[k])
         /\ \A j, k \in DOMAIN events: j < k => Precedes(events[j], events[k])
Todos == \A k \in DOMAIN steps: StepFits(steps[k]) /\ (steps[k].op = "remember" => k = 1)
IdsOf == \A t \in Turns: \A i \in caches.ids[t]: provider.of[i] = t
Busy  == /\ steps # <<>> => phase = "processing"
         /\ failing => phase \in {"ensuring", "dead"}

Core == Typed /\ Order /\ Todos /\ IdsOf /\ Busy

(* What the provider does: one more event, of the running turn.              *)
Emitted(e) ==
  /\ Wellformed(e) /\ events' = Append(events, e)
  /\ UNCHANGED <<streaming, steps, caches, thread, phase, failing>>
  /\ provider' \in Provider /\ said' \in Said /\ count' \in [Troubles -> Nat]
  /\ e.turn = provider'.turns /\ provider.turns <= e.turn
  /\ provider.turn # 0 => e.turn = provider.turn
  /\ provider.turn = 0 => e.turn > provider.turns
  /\ provider'.turn = IF e.type \in Ends THEN 0 ELSE e.turn
  /\ \A i \in Item: provider'.of[i] = IF e.type \in ItemTypes /\ e.item = i THEN e.turn
                                      ELSE provider.of[i]
  /\ e.type \in ItemTypes => Writable(e.item)
  /\ e.type \notin ItemTypes => e.item = None
  /\ provider'.closed = provider.closed \union (IF e.type = "item.completed" THEN {e.item} ELSE {})
  /\ e.type = "content.delta" => said.text[e.item] < e.n /\ e.n = said'.text[e.item]
  /\ \A i \in Item: said.text[i] <= said'.text[i]
  /\ count'.failures = count.failures /\ count'.toStreaming = count.toStreaming

(* What the worker does with a step: it is gone, or all of them are.         *)
Popped ==
  /\ UNCHANGED <<vars, events, provider, said, streaming>>
  /\ phase = "processing" /\ steps # <<>>
  /\ count' \in [Troubles -> Nat] /\ count'.toStreaming = count.toStreaming
  /\ \/ steps' = Tail(steps) /\ UNCHANGED count
     \/ steps' = <<>> /\ count'.failures = count.failures + 1

LEMMA Nones == None \notin Item
BY IngestionAssumption DEF Item

LEMMA EmittedBy ==
  ASSUME Typed, NEW type \in EventTypes, NEW t \in Turns, NEW i \in Item \union {None},
         NEW n \in Nat, Emit(type, t, i, n),
         type = "content.delta" => i \in Item /\ said.text[i] < n /\ n = said'.text[i],
         type = "item.completed" => i \in Message,
         type \in ItemTypes => Writable(i), type \notin ItemTypes => i = None,
         provider' \in Provider, said' \in Said, count' \in [Troubles -> Nat],
         t = provider'.turns, provider.turns <= t,
         provider.turn # 0 => t = provider.turn, provider.turn = 0 => t > provider.turns,
         provider'.turn = IF type \in Ends THEN 0 ELSE t,
         \A j \in Item: provider'.of[j] = IF type \in ItemTypes /\ i = j THEN t
                                          ELSE provider.of[j],
         provider'.closed = provider.closed \union (IF type = "item.completed" THEN {i} ELSE {}),
         \A j \in Item: said.text[j] <= said'.text[j],
         count'.failures = count.failures /\ count'.toStreaming = count.toStreaming
  PROVE  \E e \in Event: Emitted(e)
<1>1. PICK e: e = [type |-> type, turn |-> t, item |-> i, n |-> n]  OBVIOUS
<1>2. e \in Event /\ e.type = type /\ e.turn = t /\ e.item = i /\ e.n = n
  BY <1>1 DEF Event
<1>3. events' = Append(events, e) /\ UNCHANGED <<streaming, steps, caches, thread, phase, failing>>
  BY <1>1 DEF Emit, Enqueue, worker
<1>4. Wellformed(e)  BY <1>2 DEF Wellformed
<1>5. provider'.closed = provider.closed \union (IF e.type = "item.completed" THEN {e.item} ELSE {})
  BY <1>2
<1>6. \A j \in Item: provider'.of[j] = IF e.type \in ItemTypes /\ e.item = j THEN e.turn
                                       ELSE provider.of[j]
  BY <1>2
<1>7. Emitted(e)  BY <1>2, <1>3, <1>4, <1>5, <1>6 DEF Emitted
<1> QED  BY <1>2, <1>7

LEMMA ProviderEmits ==
  ASSUME Typed, StartTurn \/ (\E i \in Item: Say(i) \/ FinishItem(i)) \/ Propose \/ FinishPlan
                \/ EndTurn \/ ExitSession
  PROVE  \E e \in Event: Emitted(e)
<1>1. /\ provider \in Provider /\ provider.turn \in {0, provider.turns} /\ said \in Said
      /\ provider.turns \in 0 .. MaxTurns /\ MaxTurns \in Nat
      /\ count \in [Troubles -> Nat] /\ provider.closed \in SUBSET Message
  BY IngestionAssumption DEF Typed, Provider
<1>2. provider.turn # 0 => provider.turn \in Turns /\ provider.turn = provider.turns
  BY <1>1 DEF Turns
<1>3. None \in Item \union {None} /\ \A j \in Item: said.text[j] <= said.text[j]
  BY <1>1 DEF Said
<1>4. CASE StartTurn
  <2>1. PICK t: t = provider.turns + 1  OBVIOUS
  <2>2. /\ provider.turn = 0 /\ UNCHANGED <<said, count>> /\ t \in Turns
        /\ provider' = [provider EXCEPT !.turn = t, !.turns = t]
    BY <1>1, <1>4, <2>1 DEF StartTurn, Turns, Provider
  <2>3. provider'.turn = t /\ provider'.turns = t /\ provider'.of = provider.of
        /\ provider'.closed = provider.closed
    BY <1>1, <2>2 DEF Provider
  <2>4. provider' \in Provider
    <3>1. t \in Nat /\ t \in 0 .. MaxTurns  BY <1>1, <2>2 DEF Turns
    <3> QED  BY <1>1, <2>2, <3>1 DEF Provider
  <2>5. Emit("turn.started", t, None, 0)  BY <1>4, <2>3 DEF StartTurn
  <2>6. provider.turns <= t /\ t > provider.turns  BY <1>1, <2>1
  <2>7. said' \in Said /\ count' \in [Troubles -> Nat] /\ count' = count /\ said' = said
    BY <1>1, <2>2
  <2>8. provider'.turn = IF "turn.started" \in Ends THEN 0 ELSE t  BY <2>3 DEF Ends
  <2>9. "turn.started" \in EventTypes /\ "turn.started" \notin ItemTypes /\ 0 \in Nat
    BY DEF EventTypes, ItemTypes
  <2>10. provider'.closed = provider.closed \union (IF "turn.started" = "item.completed" THEN {None} ELSE {})
    BY <2>3
  <2>11. \A j \in Item: provider'.of[j] = IF "turn.started" \in ItemTypes /\ None = j THEN t
                                          ELSE provider.of[j]
    BY <2>3, <2>9
  <2>12. \A j \in Item: said.text[j] <= said'.text[j]  BY <1>3, <2>7
  <2> QED
    BY <1>3, <2>2, <2>3, <2>4, <2>5, <2>6, <2>7, <2>8, <2>9, <2>10, <2>11, <2>12, EmittedBy
<1>5. ASSUME NEW i \in Item, Say(i) PROVE \E e \in Event: Emitted(e)
  <2>1. /\ Writable(i) /\ UNCHANGED count /\ provider.turn # 0
        /\ provider' = [provider EXCEPT !.of[i] = provider.turn]
        /\ said' = [said EXCEPT !.text[i] = @ + 1]
    BY <1>5 DEF Say, Writable
  <2>2. /\ provider'.turn = provider.turn /\ provider'.turns = provider.turns
        /\ provider'.of = [provider.of EXCEPT ![i] = provider.turn]
        /\ provider'.closed = provider.closed /\ provider' \in Provider
    BY <1>1, <2>1 DEF Provider
  <2>3. PICK n: n = said'.text[i]  OBVIOUS
  <2>4. /\ said'.text = [said.text EXCEPT ![i] = said.text[i] + 1] /\ said' \in Said
        /\ n \in Nat /\ said.text[i] \in Nat /\ n = said.text[i] + 1 /\ said.text[i] < n
    BY <1>1, <2>1, <2>3 DEF Said
  <2>5. Emit("content.delta", provider.turn, i, n)  BY <1>5, <2>3 DEF Say
  <2>6. \A k \in Item: said.text[k] <= said'.text[k]  BY <1>1, <2>4 DEF Said
  <2>7. /\ "content.delta" \in EventTypes /\ "content.delta" \in ItemTypes
        /\ "content.delta" \notin Ends /\ i \in Item \union {None}
    BY DEF EventTypes, ItemTypes, Ends
  <2>8. \A j \in Item: provider'.of[j] = IF "content.delta" \in ItemTypes /\ i = j
                                         THEN provider.turn ELSE provider.of[j]
    BY <1>1, <2>2, <2>7 DEF Provider
  <2>9. provider'.closed = provider.closed \union (IF "content.delta" = "item.completed" THEN {i} ELSE {})
    BY <2>2
  <2>10. provider'.turn = IF "content.delta" \in Ends THEN 0 ELSE provider.turn  BY <2>2, <2>7
  <2>11. provider.turn \in Turns /\ provider.turn = provider'.turns /\ provider.turns <= provider.turn
    BY <1>1, <1>2, <2>1, <2>2
  <2>12. count' \in [Troubles -> Nat] /\ count' = count  BY <1>1, <2>1
  <2> QED
    BY <2>1, <2>2, <2>3, <2>4, <2>5, <2>6, <2>7, <2>8, <2>9, <2>10, <2>11, <2>12, EmittedBy
<1>6. ASSUME NEW i \in Item, FinishItem(i) PROVE \E e \in Event: Emitted(e)
  <2>1. /\ Writable(i) /\ i \in Message /\ UNCHANGED count /\ provider.turn # 0
        /\ provider' = [provider EXCEPT !.of[i] = provider.turn, !.closed = @ \union {i}]
    BY <1>6 DEF FinishItem, Writable
  <2>2. /\ provider'.turn = provider.turn /\ provider'.turns = provider.turns
        /\ provider'.of = [provider.of EXCEPT ![i] = provider.turn]
        /\ provider'.closed = provider.closed \union {i} /\ provider' \in Provider
    BY <1>1, <2>1 DEF Provider
  <2>3. PICK n \in Nat: Emit("item.completed", provider.turn, i, n)
        /\ said' \in Said /\ \A k \in Item: said.text[k] <= said'.text[k]
    <3>1. CASE UNCHANGED said /\ Emit("item.completed", provider.turn, i, 0)
      BY <1>1, <3>1 DEF Said
    <3>2. CASE /\ said' = [said EXCEPT !.text[i] = IF @ = 0 THEN 1 ELSE @]
               /\ Emit("item.completed", provider.turn, i, said'.text[i])
      <4>1. said'.text = [said.text EXCEPT ![i] = IF said.text[i] = 0 THEN 1 ELSE said.text[i]]
            /\ said' \in Said
        BY <1>1, <3>2 DEF Said
      <4>2. said'.text[i] \in Nat /\ \A k \in Item: said.text[k] <= said'.text[k]
        BY <1>1, <4>1 DEF Said
      <4> QED  BY <3>2, <4>1, <4>2
    <3> QED  BY <1>6, <3>1, <3>2 DEF FinishItem
  <2>4. /\ "item.completed" \in EventTypes /\ "item.completed" \in ItemTypes
        /\ "item.completed" \notin Ends /\ i \in Item \union {None}
    BY DEF EventTypes, ItemTypes, Ends
  <2>5. \A j \in Item: provider'.of[j] = IF "item.completed" \in ItemTypes /\ i = j
                                         THEN provider.turn ELSE provider.of[j]
    BY <1>1, <2>2, <2>4 DEF Provider
  <2>6. provider'.closed = provider.closed \union (IF "item.completed" = "item.completed" THEN {i} ELSE {})
    BY <2>2
  <2>7. provider'.turn = IF "item.completed" \in Ends THEN 0 ELSE provider.turn  BY <2>2, <2>4
  <2>8. provider.turn \in Turns /\ provider.turn = provider'.turns /\ provider.turns <= provider.turn
    BY <1>1, <1>2, <2>1, <2>2
  <2>9. count' \in [Troubles -> Nat] /\ count' = count  BY <1>1, <2>1
  <2> QED
    BY <2>1, <2>2, <2>3, <2>4, <2>5, <2>6, <2>7, <2>8, <2>9, EmittedBy
<1>7. ASSUME NEW type \in {"turn.proposed.delta", "turn.proposed.completed", "turn.completed",
                           "session.exited"},
             NEW n \in Nat, Emit(type, provider.turn, None, n), provider.turn # 0,
             provider'.turn = IF type \in Ends THEN 0 ELSE provider.turn,
             provider' \in Provider, provider'.turns = provider.turns,
             provider'.of = provider.of, provider'.closed = provider.closed,
             said' \in Said, said'.text = said.text, count' \in [Troubles -> Nat],
             count'.failures = count.failures /\ count'.toStreaming = count.toStreaming
      PROVE  \E e \in Event: Emitted(e)
  <2>1. type \in EventTypes /\ type \notin ItemTypes /\ type # "content.delta"
        /\ type # "item.completed"
    BY DEF EventTypes, ItemTypes
  <2>2. \A j \in Item: provider'.of[j] = IF type \in ItemTypes /\ None = j
                                         THEN provider.turn ELSE provider.of[j]
    BY <1>7, <2>1
  <2>3. provider'.closed = provider.closed \union (IF type = "item.completed" THEN {None} ELSE {})
    BY <1>7, <2>1
  <2>4. provider.turn \in Turns /\ provider.turn = provider'.turns /\ provider.turns <= provider.turn
    BY <1>1, <1>2, <1>7
  <2>5. \A k \in Item: said.text[k] <= said'.text[k]  BY <1>3, <1>7
  <2> QED
    BY <1>3, <1>7, <2>1, <2>2, <2>3, <2>4, <2>5, EmittedBy
<1>8. CASE Propose
  <2>1. /\ provider.turn # 0 /\ provider.turn \in Turns /\ UNCHANGED <<provider, count>>
        /\ said' = [said EXCEPT !.plan[provider.turn] = @ + 1]
    BY <1>2, <1>8 DEF Propose
  <2>2. said' \in Said /\ said'.text = said.text /\ said'.plan[provider.turn] \in Nat
    BY <1>1, <2>1 DEF Said
  <2>3. Emit("turn.proposed.delta", provider.turn, None, said'.plan[provider.turn])
    BY <1>8 DEF Propose
  <2> QED  BY <1>1, <1>7, <2>1, <2>2, <2>3 DEF Ends
<1>9. CASE FinishPlan
  <2>1. /\ provider.turn # 0 /\ provider.turn \in Turns /\ UNCHANGED count
        /\ provider' = [provider EXCEPT !.planned = @ \union {provider.turn}]
        /\ said' = [said EXCEPT !.plan[provider.turn] = IF @ = 0 THEN 1 ELSE @]
    BY <1>2, <1>9 DEF FinishPlan
  <2>2. said' \in Said /\ said'.text = said.text /\ said'.plan[provider.turn] \in Nat
    BY <1>1, <2>1 DEF Said
  <2>3. /\ provider' \in Provider /\ provider'.turns = provider.turns
        /\ provider'.of = provider.of /\ provider'.closed = provider.closed
        /\ provider'.turn = provider.turn
    BY <1>1, <2>1 DEF Provider, Turns
  <2>4. Emit("turn.proposed.completed", provider.turn, None, said'.plan[provider.turn])
    BY <1>9 DEF FinishPlan
  <2> QED  BY <1>1, <1>7, <2>1, <2>2, <2>3, <2>4 DEF Ends
<1>10. CASE EndTurn
  <2>1. /\ provider.turn # 0 /\ UNCHANGED <<said, count>>
        /\ provider' = [provider EXCEPT !.turn = 0]
        /\ Emit("turn.completed", provider.turn, None, 0)
    BY <1>10 DEF EndTurn
  <2>2. /\ provider' \in Provider /\ provider'.turns = provider.turns
        /\ provider'.of = provider.of /\ provider'.closed = provider.closed
        /\ provider'.turn = 0
    BY <1>1, <2>1 DEF Provider
  <2> QED  BY <1>1, <1>7, <2>1, <2>2 DEF Ends
<1>11. CASE ExitSession
  <2>1. /\ provider.turn # 0 /\ UNCHANGED said /\ Trouble("exits")
        /\ provider' = [provider EXCEPT !.turn = 0, !.cut = @ \union {provider.turn}]
        /\ Emit("session.exited", provider.turn, None, 0)
    BY <1>11 DEF ExitSession
  <2>2. /\ provider' \in Provider /\ provider'.turns = provider.turns
        /\ provider'.of = provider.of /\ provider'.closed = provider.closed
        /\ provider'.turn = 0
    BY <1>1, <2>1 DEF Provider
  <2>3. /\ count' \in [Troubles -> Nat] /\ count'.failures = count.failures
        /\ count'.toStreaming = count.toStreaming
    BY <1>1, <2>1 DEF Trouble, Troubles
  <2> QED  BY <1>1, <1>7, <2>1, <2>2, <2>3 DEF Ends
<1> QED  BY <1>4, <1>5, <1>6, <1>8, <1>9, <1>10, <1>11

LEMMA AppendElements ==
  ASSUME NEW S, NEW s \in Seq(S), NEW e \in S, NEW r, r = Append(s, e)
  PROVE  /\ r \in Seq(S) /\ Len(r) = Len(s) + 1 /\ Len(s) \in Nat
         /\ DOMAIN s = 1 .. Len(s) /\ DOMAIN r = 1 .. Len(s) + 1
         /\ \A k \in DOMAIN s: r[k] = s[k]
         /\ r[Len(s) + 1] = e
<1>1. r \in Seq(S) /\ Len(r) = Len(s) + 1 /\ Len(s) \in Nat
  BY AppendProperties, LenProperties
<1>2. DOMAIN s = 1 .. Len(s) /\ DOMAIN r = 1 .. Len(s) + 1  BY <1>1, LenProperties
<1>3. (\A k \in 1 .. Len(s): r[k] = s[k]) /\ r[Len(s) + 1] = e  BY AppendProperties
<1> QED  BY <1>1, <1>2, <1>3

LEMMA TailElements ==
  ASSUME NEW S, NEW s \in Seq(S), s # <<>>, NEW r, r = Tail(s)
  PROVE  /\ r \in Seq(S) /\ Len(s) \in Nat \ {0} /\ Len(r) = Len(s) - 1
         /\ DOMAIN s = 1 .. Len(s) /\ DOMAIN r = 1 .. Len(s) - 1
         /\ 1 \in DOMAIN s /\ Head(s) = s[1] /\ Head(s) \in S
         /\ \A k \in DOMAIN r: k + 1 \in DOMAIN s /\ r[k] = s[k + 1]
<1>1. Len(s) \in Nat \ {0}  BY EmptySeq, LenProperties
<1>2. r \in Seq(S) /\ Len(r) = Len(s) - 1 /\ \A k \in 1 .. Len(s) - 1: r[k] = s[k + 1]
  BY HeadTailProperties
<1>3. DOMAIN s = 1 .. Len(s) /\ DOMAIN r = 1 .. Len(s) - 1  BY <1>1, <1>2, LenProperties
<1>4. Head(s) = s[1] /\ Head(s) \in S  BY HeadTailProperties
<1> QED  BY <1>1, <1>2, <1>3, <1>4

(* What stays true of the past when the provider goes on.                    *)
LEMMA PastStays ==
  ASSUME Core, NEW e, Emitted(e)
  PROVE  /\ e \in Event /\ e.turn \in Turns /\ e.turn \in Nat \ {0}
         /\ \A i \in Item: provider.of[i] # 0 => provider'.of[i] = provider.of[i]
         /\ provider'.turn \in {0, e.turn}
         /\ \A t \in Turns: t <= provider.turns /\ t # provider.turn => t # e.turn
         /\ \A t \in Turns: t <= provider.turns /\ TurnPassed(t) => TurnPassed(t)'
         /\ \A i \in Item: NothingMore(i) => NothingMore(i)'
         /\ provider.turns \in Nat
<1>1. /\ e \in Event /\ e.turn \in Turns /\ e.turn \in Nat \ {0} /\ provider.turns \in Nat
      /\ provider.turn \in {0, provider.turns} /\ provider'.turn \in {0, e.turn}
      /\ \A i \in Item: provider.of[i] \in Nat /\ provider.of[i] <= provider.turns
      /\ e.type \in ItemTypes => e.item \in Item
  <2>1. /\ provider \in Provider /\ provider.turn \in {0, provider.turns}
        /\ \A i \in Item: provider.of[i] <= provider.turns
    BY DEF Core, Typed
  <2>2. /\ provider.turns \in Nat /\ \A i \in Item: provider.of[i] \in Nat
    BY <2>1, IngestionAssumption DEF Provider
  <2>3. /\ e \in Event /\ e.turn \in Turns /\ e.turn \in Nat \ {0}
        /\ e.type \in ItemTypes => e.item \in Item
    BY IngestionAssumption DEF Emitted, Wellformed, Event, Turns, ItemTypes, Item
  <2>4. provider'.turn \in {0, e.turn}  BY DEF Emitted
  <2> QED  BY <2>1, <2>2, <2>3, <2>4
<1>2. /\ provider.turn # 0 => e.turn = provider.turn
      /\ provider.turn = 0 => e.turn > provider.turns
      /\ \A i \in Item: provider'.of[i] = IF e.type \in ItemTypes /\ e.item = i THEN e.turn
                                          ELSE provider.of[i]
      /\ e.type \in ItemTypes => Writable(e.item)
      /\ e.type \notin ItemTypes => e.item = None
      /\ provider.closed \subseteq provider'.closed
  BY DEF Emitted
<1>3. \A i \in Item: provider.of[i] # 0 => provider'.of[i] = provider.of[i]
  BY <1>1, <1>2 DEF Writable
<1>4. \A t \in Turns: t <= provider.turns /\ t # provider.turn => t # e.turn
  BY <1>1, <1>2 DEF Turns
<1>5. /\ DOMAIN events' = 1 .. Len(events) + 1 /\ DOMAIN events = 1 .. Len(events)
      /\ Len(events) \in Nat /\ events'[Len(events) + 1] = e
      /\ \A k \in DOMAIN events: events'[k] = events[k]
  <2>1. events \in Seq(Event) /\ events' = Append(events, e)  BY DEF Core, Typed, Emitted
  <2> QED  BY <1>1, <2>1, AppendElements
<1>6. \A k \in DOMAIN events': (k \in DOMAIN events /\ events'[k] = events[k]) \/ events'[k] = e
  BY <1>5
<1>7. ASSUME NEW t \in Turns, t <= provider.turns, TurnPassed(t) PROVE TurnPassed(t)'
  <2>1. t # provider.turn /\ t # e.turn /\ t # 0 /\ \A k \in DOMAIN events: events[k].turn # t
    BY <1>4, <1>7 DEF TurnPassed, Turns
  <2>2. \A k \in DOMAIN events': events'[k].turn # t  BY <1>6, <2>1
  <2> QED  BY <1>1, <2>1, <2>2 DEF TurnPassed
<1>8. ASSUME NEW i \in Item, NothingMore(i) PROVE NothingMore(i)'
  <2>1. /\ provider.of[i] # 0 /\ (i \in provider.closed \/ provider.of[i] # provider.turn)
        /\ \A k \in DOMAIN events: events[k].item # i
    BY <1>8 DEF NothingMore
  <2>2. e.item # i  BY <1>1, <1>2, <2>1, Nones DEF Writable
  <2>3. provider'.of[i] = provider.of[i]  BY <1>3, <2>1
  <2>4. \A k \in DOMAIN events': events'[k].item # i  BY <1>6, <2>1, <2>2
  <2>5. i \in provider'.closed \/ provider'.of[i] # provider'.turn
    BY <1>1, <1>2, <2>1, <2>3
  <2> QED  BY <2>1, <2>3, <2>4, <2>5 DEF NothingMore
<1> QED  BY <1>1, <1>3, <1>4, <1>7, <1>8

LEMMA EmittedKeepsCore == ASSUME Core, NEW e, Emitted(e) PROVE Core'
<1>1. /\ Typed /\ Order /\ Todos /\ IdsOf /\ Busy /\ Wellformed(e)
      /\ UNCHANGED <<streaming, steps, caches, thread, phase, failing>>
  BY DEF Core, Emitted
<1>2. /\ e \in Event /\ e.turn \in Turns /\ e.turn \in Nat \ {0}
      /\ \A i \in Item: provider.of[i] # 0 => provider'.of[i] = provider.of[i]
      /\ provider'.turn \in {0, e.turn}
      /\ \A t \in Turns: t <= provider.turns /\ t # provider.turn => t # e.turn
      /\ \A t \in Turns: t <= provider.turns /\ TurnPassed(t) => TurnPassed(t)'
      /\ \A i \in Item: NothingMore(i) => NothingMore(i)'
      /\ provider.turns \in Nat
  BY PastStays
<1>3. /\ events \in Seq(Event) /\ events' = Append(events, e) /\ events' \in Seq(Event)
      /\ DOMAIN events' = 1 .. Len(events) + 1 /\ DOMAIN events = 1 .. Len(events)
      /\ Len(events) \in Nat /\ events'[Len(events) + 1] = e
      /\ \A k \in DOMAIN events: events'[k] = events[k]
  <2>1. events \in Seq(Event) /\ events' = Append(events, e)  BY DEF Core, Typed, Emitted
  <2> QED  BY <1>2, <2>1, AppendElements
<1>4. /\ provider.turn # 0 => e.turn = provider.turn
      /\ provider.turn = 0 => e.turn > provider.turns
      /\ provider.turns <= e.turn /\ e.turn = provider'.turns
      /\ \A i \in Item: provider'.of[i] = IF e.type \in ItemTypes /\ e.item = i THEN e.turn
                                          ELSE provider.of[i]
      /\ e.type \in ItemTypes => Writable(e.item) /\ e.item \in Item
      /\ e.type \notin ItemTypes => e.item = None
      /\ provider.closed \subseteq provider'.closed
      /\ e.type = "item.completed" => e.item \in provider'.closed
      /\ e.type = "content.delta" => said.text[e.item] < e.n /\ e.n = said'.text[e.item]
      /\ e.type \in Ends => provider'.turn = 0
      /\ \A i \in Item: said.text[i] <= said'.text[i]
      /\ provider' \in Provider /\ said' \in Said /\ count' \in [Troubles -> Nat]
  BY DEF Emitted, Wellformed, ItemTypes, Item
<1>5. Typed'
  <2>1. \A i \in Item: provider'.of[i] <= provider'.turns
    BY <1>1, <1>2, <1>4 DEF Typed, Provider
  <2>2. provider'.turn \in {0, provider'.turns}  BY <1>2, <1>4
  <2> QED  BY <1>1, <1>3, <1>4, <2>1, <2>2 DEF Typed
<1>6. ASSUME NEW k \in DOMAIN events PROVE EventFits(events[k])' /\ Precedes(events[k], e)
  <2>1. PICK d \in Event: d = events[k] /\ d = events'[k]  BY <1>3
  <2>2. EventFits(d) /\ d.turn \in Turns  BY <1>1, <2>1 DEF Order, Event
  <2>3. d.turn \in Nat \ {0} /\ d.n \in Nat  BY IngestionAssumption, <2>2 DEF Turns, Event
  <2>4. d.turn <= provider'.turns  BY <1>2, <1>4, <2>2, <2>3 DEF EventFits
  <2>5. d.type \in ItemTypes => provider'.of[d.item] = d.turn /\ d.item \in Item
    BY <1>2, <2>2, <2>3 DEF EventFits, Wellformed, ItemTypes, Item
  <2>6. d.type = "content.delta" => d.n <= said'.text[d.item]
    <3>1. SUFFICES ASSUME d.type = "content.delta" PROVE d.n <= said'.text[d.item]
      OBVIOUS
    <3>2. d.item \in Item /\ d.n <= said.text[d.item]  BY <2>2, <3>1 DEF EventFits, Wellformed
    <3>3. said.text[d.item] \in Nat /\ said'.text[d.item] \in Nat
      BY <1>1, <1>4, <3>2 DEF Typed, Said
    <3> QED  BY <1>4, <2>3, <3>2, <3>3
  <2>7. d.type \in Ends => d.turn # provider'.turn /\ d.turn # e.turn
    BY <1>2, <2>2, <2>3 DEF EventFits
  <2>8. EventFits(d)'
    BY <1>4, <2>2, <2>4, <2>5, <2>6, <2>7 DEF EventFits, Wellformed, Event
  <2>9. d.turn <= e.turn /\ (d.type \in Ends => d.turn < e.turn)
    BY <1>2, <1>4, <2>2, <2>3, <2>4, <2>7
  <2>10. d.type = "item.completed" => d.item # e.item
    BY <1>4, <2>2, <2>5, Nones DEF EventFits, Writable, ItemTypes
  <2>11. d.type = "content.delta" /\ e.type = "content.delta" /\ d.item = e.item => d.n < e.n
    <3>1. SUFFICES ASSUME d.type = "content.delta", e.type = "content.delta", d.item = e.item
                   PROVE  d.n < e.n
      OBVIOUS
    <3>2. d.n <= said.text[e.item] /\ said.text[e.item] < e.n
      BY <1>4, <2>2, <3>1 DEF EventFits
    <3>3. said.text[e.item] \in Nat /\ e.n \in Nat
      BY <1>1, <1>2, <1>4, <3>1 DEF Typed, Said, Event, ItemTypes
    <3> QED  BY <2>3, <3>2, <3>3
  <2> QED  BY <2>1, <2>8, <2>9, <2>10, <2>11 DEF Precedes
<1>7. EventFits(e)'
  <2>1. e.n \in Nat /\ e.turn <= provider'.turns  BY <1>2, <1>4 DEF Event
  <2>2. e.type = "content.delta" => e.n <= said'.text[e.item]
    BY <1>4, <2>1
  <2>3. e.type \in ItemTypes => provider'.of[e.item] = e.turn  BY <1>4
  <2>4. e.type \in Ends => e.turn # provider'.turn  BY <1>2, <1>4
  <2> QED  BY <1>1, <1>4, <2>1, <2>2, <2>3, <2>4 DEF EventFits, Wellformed, Event
<1>8. Order'
  <2>1. \A k \in DOMAIN events': k \in DOMAIN events \/ k = Len(events) + 1  BY <1>3
  <2>2. ASSUME NEW k \in DOMAIN events' PROVE EventFits(events[k])'
    <3>1. CASE k \in DOMAIN events  BY <1>6, <3>1
    <3>2. CASE k = Len(events) + 1
      <4>1. events'[k] = e  BY <1>3, <3>2
      <4> QED  BY <1>7, <4>1
    <3> QED  BY <2>1, <3>1, <3>2
  <2>3. ASSUME NEW j \in DOMAIN events', NEW k \in DOMAIN events', j < k
        PROVE  Precedes(events[j], events[k])'
    <3>1. j \in DOMAIN events  BY <1>3, <2>3
    <3>2. CASE k \in DOMAIN events
      <4>1. Precedes(events[j], events[k])  BY <1>1, <2>3, <3>1, <3>2 DEF Order
      <4> QED  BY <1>3, <3>1, <3>2, <4>1 DEF Precedes
    <3>3. CASE k = Len(events) + 1
      <4>1. events'[k] = e /\ events'[j] = events[j]  BY <1>3, <3>1, <3>3
      <4> QED  BY <1>6, <3>1, <4>1 DEF Precedes
    <3> QED  BY <2>1, <3>2, <3>3
  <2> QED  BY <2>2, <2>3 DEF Order
<1>9. Todos'
  <2> SUFFICES ASSUME NEW k \in DOMAIN steps
               PROVE  StepFits(steps[k])' /\ (steps[k].op = "remember" => k = 1)
    BY <1>1 DEF Todos
  <2>1. PICK o: o = steps[k] /\ o = steps'[k]  BY <1>1
  <2>2. StepFits(o) /\ o \in Todo /\ (o.op = "remember" => k = 1)
    BY <1>1, <2>1 DEF Todos, Typed
  <2>3. o.turn \in Turns /\ o.turn \in Nat \ {0}  BY <2>2, IngestionAssumption DEF Todo, Turns
  <2>4. o.turn <= provider.turns /\ o.turn <= provider'.turns
    BY <1>2, <1>4, <2>2, <2>3 DEF StepFits
  <2>5. \A j \in DOMAIN events': o.turn <= events'[j].turn
    <3> TAKE j \in DOMAIN events'
    <3>1. CASE j \in DOMAIN events  BY <1>3, <2>2, <3>1 DEF StepFits
    <3>2. CASE j = Len(events) + 1  BY <1>3, <1>4, <2>4, <3>2
    <3> QED  BY <1>3, <3>1, <3>2
  <2>6. o.op \in ItemOps => provider'.of[o.item] = o.turn
    BY <1>2, <2>2, <2>3 DEF StepFits
  <2>7. o.op \in {"remember", "flush", "complete", "forget"} => NothingMore(o.item)'
    <3>1. SUFFICES ASSUME o.op \in {"remember", "flush", "complete", "forget"}
                   PROVE  NothingMore(o.item)'
      OBVIOUS
    <3>2. NothingMore(o.item) /\ o.item \in Item  BY <2>2, <3>1 DEF StepFits, ItemOps
    <3>3. PICK i: i = o.item  OBVIOUS
    <3>4. NothingMore(i)'  BY <1>2, <3>2, <3>3
    <3> QED  BY <3>3, <3>4 DEF NothingMore
  <2>8. o.op \in {"clear", "exit"} => TurnPassed(o.turn)'
    <3>1. SUFFICES ASSUME o.op \in {"clear", "exit"} PROVE TurnPassed(o.turn)'
      OBVIOUS
    <3>2. TurnPassed(o.turn)  BY <2>2, <3>1 DEF StepFits
    <3>3. PICK t: t = o.turn  OBVIOUS
    <3>4. TurnPassed(t)'  BY <1>2, <2>3, <2>4, <3>2, <3>3
    <3> QED  BY <3>3, <3>4 DEF TurnPassed
  <2>9. StepFits(o)'
    BY <1>1, <2>2, <2>4, <2>5, <2>6, <2>7, <2>8 DEF StepFits
  <2> QED  BY <2>1, <2>2, <2>9 DEF StepFits
<1>10. IdsOf'
  <2>1. ASSUME NEW t \in Turns, NEW i \in caches.ids[t] PROVE provider'.of[i] = t
    <3>1. provider.of[i] = t /\ t # 0  BY <1>1 DEF IdsOf, Turns
    <3>2. i \in Item  BY <1>1 DEF Typed, Caches, Item
    <3> QED  BY <1>2, <3>1, <3>2
  <2> QED  BY <1>1, <2>1 DEF IdsOf
<1>11. Busy'  BY <1>1 DEF Busy
<1> QED  BY <1>5, <1>8, <1>9, <1>10, <1>11 DEF Core

(************************* What the worker takes *************************)
(* What the worker does when it takes an event.                              *)
Taken(e) ==
  /\ phase = "waiting" /\ steps = <<>> /\ ~failing
  /\ events # <<>> /\ e = events[1] /\ Wellformed(e) /\ events' = Tail(events)
  /\ Fits(steps', e) /\ phase' = "processing" /\ failing' = failing
  /\ UNCHANGED <<provider, said, streaming, caches, thread, count>>

Aligned == Len(events) = Len(queue)

LEMMA EventTaken ==
  ASSUME Core, Inv, Aligned, TakeEvent PROVE \E e \in Event: Taken(e)
<1>1. /\ phase = "waiting" /\ queue # <<>> /\ phase' = "processing" /\ failing' = failing
      /\ steps' = StepsOf(Head(events)) /\ events' = Tail(events)
      /\ UNCHANGED <<provider, said, streaming, caches, thread, count>>
  BY DEF TakeEvent, Take
<1>2. steps = <<>> /\ ~failing  BY <1>1 DEF Core, Busy
<1>3. events # <<>> /\ events \in Seq(Event)
  <2>1. queue \in Seq(Nat) /\ events \in Seq(Event)  BY DEF Inv, TypeOK, Core, Typed
  <2>2. Len(queue) # 0  BY <1>1, <2>1, EmptySeq
  <2> QED  BY <2>1, <2>2, EmptySeq DEF Aligned
<1>4. PICK e: e = events[1]  OBVIOUS
<1>5. Head(events) = e /\ e \in Event /\ 1 \in DOMAIN events
  BY <1>3, <1>4, TailElements
<1>6. Wellformed(e)  BY <1>4, <1>5 DEF Core, Order, EventFits
<1>7. Fits(StepsOf(e), e)  BY <1>6, StepsFit DEF Core
<1>8. steps' = StepsOf(e)  BY <1>1, <1>5
<1>9. Fits(steps', e)
  <2>1. PICK s: s = StepsOf(e)  OBVIOUS
  <2>2. Fits(s, e)  BY <1>7, <2>1
  <2> QED  BY <1>8, <2>1, <2>2
<1> QED  BY <1>1, <1>2, <1>3, <1>4, <1>5, <1>6, <1>9 DEF Taken

LEMMA RestOfEvents ==
  ASSUME Core, NEW e, Taken(e)
  PROVE  /\ e \in Event /\ EventFits(e) /\ e.turn \in Turns /\ e.turn \in Nat \ {0}
         /\ events' \in Seq(Event)
         /\ \A k \in DOMAIN events': k + 1 \in DOMAIN events /\ events'[k] = events[k + 1]
         /\ \A k \in DOMAIN events': Precedes(e, events'[k]) /\ EventFits(events'[k])
         /\ \A k \in DOMAIN events: k = 1 \/ (k - 1 \in DOMAIN events' /\ events[k] = events'[k - 1])
         /\ 1 \in DOMAIN events
<1>1. events \in Seq(Event) /\ events # <<>> /\ events' = Tail(events) /\ e = events[1]
  BY DEF Core, Typed, Taken
<1>2. /\ events' \in Seq(Event) /\ DOMAIN events = 1 .. Len(events) /\ Len(events) \in Nat \ {0}
      /\ DOMAIN events' = 1 .. Len(events) - 1 /\ 1 \in DOMAIN events /\ e \in Event
      /\ \A k \in DOMAIN events': k + 1 \in DOMAIN events /\ events'[k] = events[k + 1]
  BY <1>1, TailElements
<1>3. EventFits(e)  BY <1>1, <1>2 DEF Core, Order
<1>4. e.turn \in Turns /\ e.turn \in Nat \ {0}
  BY <1>2, IngestionAssumption DEF Event, Turns
<1>5. \A k \in DOMAIN events': Precedes(e, events'[k]) /\ EventFits(events'[k])
  <2> TAKE k \in DOMAIN events'
  <2>1. k + 1 \in DOMAIN events /\ events'[k] = events[k + 1] /\ 1 < k + 1  BY <1>2
  <2> QED  BY <1>1, <1>2, <2>1 DEF Core, Order
<1>6. \A k \in DOMAIN events: k = 1 \/ (k - 1 \in DOMAIN events' /\ events[k] = events'[k - 1])
  <2> TAKE k \in DOMAIN events
  <2>1. CASE k # 1
    <3>1. k - 1 \in DOMAIN events' /\ (k - 1) + 1 = k  BY <1>2, <2>1
    <3> QED  BY <1>2, <3>1
  <2> QED  BY <2>1
<1> QED  BY <1>2, <1>3, <1>4, <1>5, <1>6

LEMMA TakenKeepsCore == ASSUME Core, NEW e, Taken(e) PROVE Core'
<1>1. /\ Typed /\ Order /\ IdsOf /\ steps' \in Seq(Todo)
      /\ UNCHANGED <<provider, said, streaming, caches, thread, count>>
      /\ phase' = "processing" /\ ~failing'
  BY DEF Core, Taken, Fits
<1>2. /\ e \in Event /\ EventFits(e) /\ e.turn \in Turns /\ e.turn \in Nat \ {0}
      /\ events' \in Seq(Event)
      /\ \A k \in DOMAIN events': k + 1 \in DOMAIN events /\ events'[k] = events[k + 1]
      /\ \A k \in DOMAIN events': Precedes(e, events'[k]) /\ EventFits(events'[k])
  BY RestOfEvents
<1>3. Typed'  BY <1>1, <1>2 DEF Typed
<1>4. Order'
  <2>1. ASSUME NEW k \in DOMAIN events' PROVE EventFits(events[k])'
    BY <1>1, <1>2, <2>1 DEF EventFits
  <2>2. ASSUME NEW j \in DOMAIN events', NEW k \in DOMAIN events', j < k
        PROVE  Precedes(events[j], events[k])'
    <3>1. DOMAIN events' \subseteq Nat  BY <1>2, LenProperties
    <3>2. j + 1 \in DOMAIN events /\ k + 1 \in DOMAIN events /\ j + 1 < k + 1
      BY <1>2, <2>2, <3>1
    <3>3. Precedes(events[j + 1], events[k + 1])  BY <1>1, <3>2 DEF Order
    <3>4. events'[j] = events[j + 1] /\ events'[k] = events[k + 1]  BY <1>2
    <3> QED  BY <3>3, <3>4 DEF Precedes
  <2> QED  BY <2>1, <2>2 DEF Order
<1>5. \A j \in DOMAIN events': e.turn <= events'[j].turn  BY <1>2 DEF Precedes
<1>6. e.type \in Ends => TurnPassed(e.turn)'
  <2> SUFFICES ASSUME e.type \in Ends PROVE TurnPassed(e.turn)'
    OBVIOUS
  <2>1. PICK t: t = e.turn  OBVIOUS
  <2>2. \A j \in DOMAIN events': events'[j].turn # t
    <3> TAKE j \in DOMAIN events'
    <3>1. t < events'[j].turn  BY <1>2, <2>1 DEF Precedes
    <3>2. events'[j].turn \in Nat  BY <1>2, IngestionAssumption DEF EventFits, Wellformed, Event, Turns
    <3> QED  BY <1>2, <2>1, <3>1, <3>2
  <2>3. provider'.turn # t  BY <1>1, <1>2, <2>1 DEF EventFits
  <2> QED  BY <2>1, <2>2, <2>3 DEF TurnPassed
<1>7. ASSUME NEW i \in Message,
             \/ e.type = "item.completed" /\ i = e.item
             \/ e.type = "turn.completed" /\ i \in caches.ids[e.turn]
      PROVE  NothingMore(i)' /\ provider.of[i] = e.turn
  <2>1. CASE e.type = "item.completed" /\ i = e.item
    <3>1. provider.of[i] = e.turn /\ i \in provider.closed
      BY <1>2, <2>1 DEF EventFits, ItemTypes
    <3>2. \A j \in DOMAIN events': events'[j].item # i  BY <1>2, <2>1 DEF Precedes
    <3> QED  BY <1>1, <1>2, <3>1, <3>2 DEF NothingMore
  <2>2. CASE e.type = "turn.completed" /\ i \in caches.ids[e.turn]
    <3>1. provider.of[i] = e.turn  BY <1>1, <1>2, <2>2 DEF IdsOf
    <3>2. e.turn # provider.turn  BY <1>2, <2>2 DEF EventFits, Ends
    <3>3. ASSUME NEW j \in DOMAIN events' PROVE events'[j].item # i
      <4>1. e.turn < events'[j].turn  BY <1>2, <2>2 DEF Precedes, Ends
      <4>2. events'[j].turn \in Nat
        BY <1>2, IngestionAssumption DEF EventFits, Wellformed, Event, Turns
      <4>3. i # None  BY Nones DEF Item
      <4> QED  BY <1>2, <3>1, <4>1, <4>2, <4>3 DEF EventFits
    <3> QED  BY <1>1, <1>2, <3>1, <3>2, <3>3 DEF NothingMore
  <2> QED  BY <1>7, <2>1, <2>2
<1>8. Todos'
  <2> SUFFICES ASSUME NEW k \in DOMAIN steps'
               PROVE  StepFits(steps[k])' /\ (steps'[k].op = "remember" => k = 1)
    BY DEF Todos
  <2>1. PICK o: o = steps'[k]  OBVIOUS
  <2>2. /\ o.turn = e.turn
        /\ o.op \in {"delta", "activity"} =>
             e.type = "content.delta" /\ DOMAIN steps' = {1} /\ o.item = e.item
        /\ o.op = "delta" => o.item \in Message
        /\ o.op = "activity" => o.item \in Reasoning
        /\ o.op \in {"remember", "forget"} => e.type = "item.completed" /\ o.item = e.item
        /\ o.op \in {"flush", "complete"} =>
             \/ e.type = "item.completed" /\ o.item = e.item
             \/ e.type = "turn.completed" /\ o.item \in caches.ids[e.turn]
        /\ o.op = "clear" => e.type = "turn.completed"
        /\ o.op = "exit" => e.type = "session.exited"
        /\ o.op = "remember" => k = 1
    BY <2>1 DEF Taken, Fits
  <2>3. o.turn <= provider'.turns /\ \A j \in DOMAIN events': o.turn <= events'[j].turn
    BY <1>1, <1>2, <1>5, <2>2 DEF EventFits
  <2>4. o.op \in {"remember", "flush", "complete", "forget"} =>
          o.item \in Message /\ (\/ e.type = "item.completed" /\ o.item = e.item
                                 \/ e.type = "turn.completed" /\ o.item \in caches.ids[e.turn])
    <3>1. e.type = "item.completed" => e.item \in Message  BY <1>2 DEF EventFits, Wellformed
    <3>2. caches.ids[e.turn] \subseteq Message  BY <1>1, <1>2 DEF Typed, Caches
    <3> QED  BY <2>2, <3>1, <3>2
  <2>5. o.op \in {"remember", "flush", "complete", "forget"} =>
          NothingMore(o.item)' /\ provider.of[o.item] = o.turn
    <3>1. SUFFICES ASSUME o.op \in {"remember", "flush", "complete", "forget"}
                   PROVE  NothingMore(o.item)' /\ provider.of[o.item] = o.turn
      OBVIOUS
    <3>2. PICK i \in Message: i = o.item  BY <2>4, <3>1
    <3>3. NothingMore(i)' /\ provider.of[i] = e.turn  BY <1>7, <2>4, <3>1, <3>2
    <3> QED  BY <2>2, <3>2, <3>3 DEF NothingMore
  <2>6. o.op \in {"delta", "activity"} => provider.of[o.item] = o.turn /\ Len(steps') = 1
    <3>1. o.op \in {"delta", "activity"} => provider.of[o.item] = o.turn
      BY <1>2, <2>2 DEF EventFits, ItemTypes
    <3>2. DOMAIN steps' = {1} => Len(steps') = 1
      <4>1. DOMAIN steps' = 1 .. Len(steps') /\ Len(steps') \in Nat  BY <1>1, LenProperties
      <4>2. \A n \in Nat: 1 .. n = {1} => n = 1
        <5> TAKE n \in Nat
        <5>1. 1 .. n = {1} => 1 \in 1 .. n /\ (n >= 1 => n \in {1})  OBVIOUS
        <5> QED  BY <5>1
      <4> QED  BY <4>1, <4>2
    <3> QED  BY <2>2, <3>1, <3>2
  <2>7. o.op \in {"clear", "exit"} => TurnPassed(o.turn)'
    <3>1. o.op \in {"clear", "exit"} => e.type \in Ends  BY <2>2 DEF Ends
    <3> QED  BY <1>6, <2>2, <3>1 DEF TurnPassed
  <2>8. o.op \in ItemOps => o.op \in {"remember", "flush", "complete", "forget"}
                            \/ o.op = "delta" \/ o.op = "activity"
    BY DEF ItemOps
  <2>9. o.op \in ItemOps => provider'.of[o.item] = o.turn /\ o.item \in Item
    BY <1>1, <2>2, <2>4, <2>5, <2>6, <2>8 DEF Item
  <2>10. o.op \in ItemOps \ {"activity"} => o.item \in Message
    BY <2>2, <2>4, <2>8
  <2>11. StepFits(o)'
    BY <2>2, <2>3, <2>5, <2>6, <2>7, <2>9, <2>10 DEF StepFits
  <2> QED  BY <2>1, <2>2, <2>11 DEF StepFits
<1>9. IdsOf'  BY <1>1 DEF IdsOf
<1>10. Busy'  BY <1>1 DEF Busy
<1> QED  BY <1>3, <1>4, <1>8, <1>9, <1>10 DEF Core

(************************* What the handler does *************************)
(* A dispatch that fails is counted; what did not fail left the count alone. *)
Succeeds == count' = count

(* What a step of the handler changes, by the kind of the step.              *)
IdsAfter(o) ==
  /\ o.op \in {"delta", "remember"} =>
       caches'.ids = [caches.ids EXCEPT ![o.turn] = caches.ids[o.turn] \union {o.item}]
  /\ o.op = "forget" =>
       caches'.ids = [caches.ids EXCEPT ![o.turn] = caches.ids[o.turn] \ {o.item}]
  /\ o.op = "clear" => caches'.ids = [caches.ids EXCEPT ![o.turn] = {}]
  /\ o.op = "exit" => caches'.ids = [t \in Turns |-> {}]
  /\ o.op \notin {"delta", "remember", "forget", "clear", "exit"} => caches'.ids = caches.ids
BufferAfter(o) ==
  /\ o.op = "delta" /\ streaming => caches'.buffer = caches.buffer
  /\ o.op = "delta" /\ ~streaming => \E text \in {<<>>, caches.buffer[o.item] \o o.text}:
       caches'.buffer = [caches.buffer EXCEPT ![o.item] = text]
  /\ o.op = "flush" => caches'.buffer = [caches.buffer EXCEPT ![o.item] = <<>>]
  /\ o.op = "exit" => caches'.buffer =
       [i \in Message |-> IF i \in UNION {caches.ids[t]: t \in Turns} THEN <<>>
                          ELSE caches.buffer[i]]
  /\ o.op \notin {"delta", "flush", "exit"} => caches'.buffer = caches.buffer
PlanAfter(o) ==
  /\ o.op = "propose" => caches'.plan = [caches.plan EXCEPT ![o.turn] = caches.plan[o.turn] \o o.text]
  /\ o.op = "plan" => caches'.plan = [caches.plan EXCEPT ![o.turn] = <<>>]
  /\ o.op = "exit" => caches'.plan = [t \in Turns |-> <<>>]
  /\ o.op \notin {"propose", "plan", "exit"} => caches'.plan = caches.plan
TextAfter(o) ==
  \/ thread'.text = thread.text
  \/ /\ o.op = "delta" /\ streaming
     /\ thread'.text = [thread.text EXCEPT ![o.item] = thread.text[o.item] \o o.text]
  \/ /\ o.op = "delta" /\ ~streaming
     /\ caches'.buffer = [caches.buffer EXCEPT ![o.item] = <<>>]
     /\ thread'.text = [thread.text EXCEPT ![o.item] =
                          thread.text[o.item] \o (caches.buffer[o.item] \o o.text)]
  \/ /\ o.op = "flush"
     /\ thread'.text = [thread.text EXCEPT ![o.item] =
          thread.text[o.item] \o (IF caches.buffer[o.item] # <<>> THEN caches.buffer[o.item]
                                  ELSE o.text)]
  \/ /\ o.op = "activity"
     /\ thread'.text = [thread.text EXCEPT ![o.item] = o.text]
CompletionsAfter(o) ==
  /\ o.op = "complete" /\ Succeeds => thread'.completions =
       [thread.completions EXCEPT ![o.item] = thread.completions[o.item] + 1]
  /\ o.op # "complete" \/ ~Succeeds => thread'.completions = thread.completions

Handled(o) ==
  /\ steps # <<>> /\ o \in Todo /\ o = steps[1] /\ StepFits(o) /\ Popped
  /\ caches' \in Caches /\ (\A t \in Turns: IsFiniteSet(caches'.ids[t])) /\ thread' \in Thread
  /\ IdsAfter(o) /\ BufferAfter(o) /\ PlanAfter(o) /\ TextAfter(o) /\ CompletionsAfter(o)

LEMMA CountOfTroubles ==
  ASSUME count \in [Troubles -> Nat], NEW what \in Troubles, Trouble(what)
  PROVE  /\ count' \in [Troubles -> Nat] /\ count' # count
         /\ count'[what] = count[what] + 1
         /\ \A w \in Troubles: w # what => count'[w] = count[w]
<1>1. count' = [count EXCEPT ![what] = count[what] + 1]  BY DEF Trouble
<1>2. count' \in [Troubles -> Nat] /\ count'[what] = count[what] + 1
      /\ \A w \in Troubles: w # what => count'[w] = count[w]
  BY <1>1
<1>3. count[what] \in Nat  OBVIOUS
<1> QED  BY <1>2, <1>3

LEMMA DispatchPops ==
  ASSUME Typed, NEW change, phase = "processing", steps # <<>>, Unchanged, Dispatch(change)
  PROVE  Popped /\ (\/ thread' = change /\ Succeeds
                    \/ thread' = thread /\ ~Succeeds)
<1>1. count \in [Troubles -> Nat] /\ "failures" \in Troubles /\ "toStreaming" \in Troubles
  BY DEF Typed, Troubles
<1>2. CASE Go /\ thread' = change
  BY <1>1, <1>2 DEF Go, Popped, Unchanged, Succeeds
<1>3. CASE Trouble("failures") /\ steps' = <<>> /\ UNCHANGED thread
  <2>1. count' \in [Troubles -> Nat] /\ count' # count
        /\ count'["failures"] = count["failures"] + 1
        /\ count'["toStreaming"] = count["toStreaming"]
    BY <1>1, <1>3, CountOfTroubles
  <2> QED  BY <1>3, <2>1 DEF Popped, Unchanged, Succeeds
<1> QED  BY <1>2, <1>3 DEF Dispatch

LEMMA GoPops ==
  ASSUME Typed, phase = "processing", steps # <<>>, Unchanged, Go
  PROVE  Popped /\ Succeeds
BY DEF Typed, Go, Popped, Unchanged, Succeeds

LEMMA StepInHand ==
  ASSUME Core, NEW op, Doing(op)
  PROVE  /\ phase = "processing" /\ steps # <<>> /\ Head(steps) \in Todo
         /\ Head(steps) = steps[1] /\ Head(steps).op = op /\ StepFits(Head(steps))
         /\ Head(steps).turn \in Turns /\ Head(steps).text \in Seq(Nat)
<1>1. steps # <<>> /\ steps \in Seq(Todo)  BY DEF Core, Typed, Doing
<1>2. 1 \in DOMAIN steps /\ Head(steps) = steps[1] /\ Head(steps) \in Todo
  BY <1>1, TailElements
<1> QED  BY <1>1, <1>2 DEF Core, Todos, Doing, Todo

LEMMA AppendedTyped ==
  ASSUME Typed, NEW i \in Message, NEW text \in Seq(Nat)
  PROVE  /\ Appended(i, text) \in Thread
         /\ Appended(i, text).text = [thread.text EXCEPT ![i] = thread.text[i] \o text]
         /\ Appended(i, text).completions = thread.completions
<1>1. thread \in Thread /\ i \in Item /\ thread.text[i] \in Seq(Nat)
  BY DEF Typed, Thread, Item
<1>2. thread.text[i] \o text \in Seq(Nat)  BY <1>1, ConcatProperties
<1> QED  BY <1>1, <1>2 DEF Appended, Thread

LEMMA Remembered ==
  ASSUME Typed, NEW i \in Message, NEW t \in Turns, NEW r, r = Remember(i, t)
  PROVE  /\ r \in Caches /\ \A u \in Turns: IsFiniteSet(r.ids[u])
         /\ r.ids = [caches.ids EXCEPT ![t] = caches.ids[t] \union {i}]
         /\ r.buffer = caches.buffer /\ r.plan = caches.plan
<1>1. caches \in Caches /\ \A u \in Turns: IsFiniteSet(caches.ids[u])  BY DEF Typed
<1>2. /\ r \in Caches /\ r.buffer = caches.buffer /\ r.plan = caches.plan
      /\ r.ids = [caches.ids EXCEPT ![t] = caches.ids[t] \union {i}]
  BY <1>1 DEF Remember, Caches
<1>3. IsFiniteSet(caches.ids[t] \union {i})  BY <1>1, FS_AddElement
<1>4. \A u \in Turns: IsFiniteSet(r.ids[u])
  <2> TAKE u \in Turns
  <2>1. r.ids[u] = IF u = t THEN caches.ids[t] \union {i} ELSE caches.ids[u]
    BY <1>1, <1>2 DEF Caches
  <2> QED  BY <1>1, <1>3, <2>1
<1> QED  BY <1>2, <1>4

LEMMA HandledTakeDelta == ASSUME Core, TakeDelta PROVE Handled(Head(steps))
<1>1. PICK o: o = Head(steps)  OBVIOUS
<1>2. /\ phase = "processing" /\ steps # <<>> /\ o \in Todo /\ o = steps[1] /\ o.op = "delta"
      /\ StepFits(o) /\ o.turn \in Turns /\ o.text \in Seq(Nat)
  BY <1>1, StepInHand DEF TakeDelta
<1>3. o.item \in Message  BY <1>2 DEF StepFits, ItemOps
<1>4. PICK r: r = Remember(o.item, o.turn)  OBVIOUS
<1>5. /\ r \in Caches /\ (\A u \in Turns: IsFiniteSet(r.ids[u]))
      /\ r.ids = [caches.ids EXCEPT ![o.turn] = caches.ids[o.turn] \union {o.item}]
      /\ r.buffer = caches.buffer /\ r.plan = caches.plan
  <2>1. PICK i \in Message, t \in Turns: i = o.item /\ t = o.turn  BY <1>2, <1>3
  <2>2. Typed /\ r = Remember(i, t)  BY <1>4, <2>1 DEF Core
  <2>3. r \in Caches /\ (\A u \in Turns: IsFiniteSet(r.ids[u]))  BY <2>2, Remembered
  <2>4. r.ids = [caches.ids EXCEPT ![t] = caches.ids[t] \union {i}]  BY <2>2, Remembered
  <2>5. r.buffer = caches.buffer /\ r.plan = caches.plan  BY <2>2, Remembered
  <2> QED  BY <2>1, <2>3, <2>4, <2>5
<1>6. PICK text: text = caches.buffer[o.item] \o o.text  OBVIOUS
<1>7. Typed /\ caches.buffer[o.item] \in Seq(Nat) /\ text \in Seq(Nat) /\ <<>> \in Seq(Nat)
  BY <1>2, <1>3, <1>6, ConcatProperties, EmptySeq DEF Core, Typed, Caches
<1>8. /\ Unchanged
      /\ \/ streaming /\ Dispatch(Appended(o.item, o.text)) /\ caches' = r
         \/ ~streaming /\ Go /\ caches' = [r EXCEPT !.buffer[o.item] = text] /\ UNCHANGED thread
         \/ /\ ~streaming /\ Dispatch(Appended(o.item, text))
            /\ caches' = [r EXCEPT !.buffer[o.item] = <<>>]
  BY <1>1, <1>4, <1>6 DEF TakeDelta
<1>9. streaming \in BOOLEAN /\ thread \in Thread  BY <1>7 DEF Typed
<1>10. ASSUME NEW new \in Seq(Nat), caches' = [r EXCEPT !.buffer[o.item] = new]
       PROVE  /\ caches' \in Caches /\ caches'.ids = r.ids /\ caches'.plan = caches.plan
              /\ caches'.buffer = [caches.buffer EXCEPT ![o.item] = new]
  BY <1>3, <1>5, <1>10 DEF Caches
<1>11. CASE streaming /\ Dispatch(Appended(o.item, o.text)) /\ caches' = r
  <2>1. /\ Appended(o.item, o.text) \in Thread
        /\ Appended(o.item, o.text).text =
             [thread.text EXCEPT ![o.item] = thread.text[o.item] \o o.text]
        /\ Appended(o.item, o.text).completions = thread.completions
    BY <1>2, <1>3, <1>7, AppendedTyped
  <2>2. /\ Popped
        /\ \/ thread' = Appended(o.item, o.text) /\ Succeeds
           \/ thread' = thread /\ ~Succeeds
    BY <1>2, <1>7, <1>8, <1>11, DispatchPops
  <2> QED
    BY <1>1, <1>2, <1>5, <1>9, <1>11, <2>1, <2>2
    DEF Handled, IdsAfter, BufferAfter, PlanAfter, TextAfter, CompletionsAfter
<1>12. CASE ~streaming /\ Go /\ caches' = [r EXCEPT !.buffer[o.item] = text] /\ UNCHANGED thread
  <2>1. Popped /\ Succeeds  BY <1>2, <1>7, <1>8, <1>12, GoPops
  <2>2. /\ caches' \in Caches /\ caches'.ids = r.ids /\ caches'.plan = caches.plan
        /\ caches'.buffer = [caches.buffer EXCEPT ![o.item] = text]
    BY <1>7, <1>10, <1>12
  <2> QED
    BY <1>1, <1>2, <1>5, <1>6, <1>9, <1>12, <2>1, <2>2
    DEF Handled, IdsAfter, BufferAfter, PlanAfter, TextAfter, CompletionsAfter
<1>13. CASE /\ ~streaming /\ Dispatch(Appended(o.item, text))
            /\ caches' = [r EXCEPT !.buffer[o.item] = <<>>]
  <2>1. /\ Appended(o.item, text) \in Thread
        /\ Appended(o.item, text).text =
             [thread.text EXCEPT ![o.item] = thread.text[o.item] \o text]
        /\ Appended(o.item, text).completions = thread.completions
    BY <1>3, <1>7, AppendedTyped
  <2>2. /\ Popped
        /\ \/ thread' = Appended(o.item, text) /\ Succeeds
           \/ thread' = thread /\ ~Succeeds
    BY <1>2, <1>7, <1>8, <1>13, DispatchPops
  <2>3. /\ caches' \in Caches /\ caches'.ids = r.ids /\ caches'.plan = caches.plan
        /\ caches'.buffer = [caches.buffer EXCEPT ![o.item] = <<>>]
    BY <1>7, <1>10, <1>13
  <2> QED
    BY <1>1, <1>2, <1>5, <1>6, <1>9, <1>13, <2>1, <2>2, <2>3
    DEF Handled, IdsAfter, BufferAfter, PlanAfter, TextAfter, CompletionsAfter
<1> QED  BY <1>8, <1>11, <1>12, <1>13

LEMMA HandledFlush == ASSUME Core, Flush PROVE Handled(Head(steps))
<1>1. PICK o: o = Head(steps)  OBVIOUS
<1>2. /\ phase = "processing" /\ steps # <<>> /\ o \in Todo /\ o = steps[1] /\ o.op = "flush"
      /\ StepFits(o) /\ o.turn \in Turns /\ o.text \in Seq(Nat)
  BY <1>1, StepInHand DEF Flush
<1>3. o.item \in Message  BY <1>2 DEF StepFits, ItemOps
<1>4. PICK text: text = IF caches.buffer[o.item] # <<>> THEN caches.buffer[o.item] ELSE o.text
  OBVIOUS
<1>5. /\ Typed /\ caches.buffer[o.item] \in Seq(Nat) /\ text \in Seq(Nat) /\ caches \in Caches
      /\ <<>> \in Seq(Nat) /\ (\A t \in Turns: IsFiniteSet(caches.ids[t])) /\ thread \in Thread
  BY <1>2, <1>3, <1>4, EmptySeq DEF Core, Typed, Caches
<1>6. /\ Unchanged /\ caches' = [caches EXCEPT !.buffer[o.item] = <<>>]
      /\ \/ text = <<>> /\ Go /\ UNCHANGED thread
         \/ Dispatch(Appended(o.item, text))
  BY <1>1, <1>4 DEF Flush
<1>7. /\ caches' \in Caches /\ caches'.ids = caches.ids /\ caches'.plan = caches.plan
      /\ caches'.buffer = [caches.buffer EXCEPT ![o.item] = <<>>]
  BY <1>3, <1>5, <1>6 DEF Caches
<1>8. /\ Popped
      /\ \/ thread' = Appended(o.item, text) /\ Succeeds
         \/ thread' = thread
  <2>1. CASE text = <<>> /\ Go /\ UNCHANGED thread  BY <1>2, <1>5, <1>6, <2>1, GoPops
  <2>2. CASE Dispatch(Appended(o.item, text))  BY <1>2, <1>5, <1>6, <2>2, DispatchPops
  <2> QED  BY <1>6, <2>1, <2>2
<1>9. /\ Appended(o.item, text) \in Thread
      /\ Appended(o.item, text).text =
           [thread.text EXCEPT ![o.item] = thread.text[o.item] \o text]
      /\ Appended(o.item, text).completions = thread.completions
  BY <1>3, <1>5, AppendedTyped
<1>10. thread' \in Thread /\ thread'.completions = thread.completions /\ TextAfter(o)
  BY <1>2, <1>4, <1>5, <1>8, <1>9 DEF TextAfter
<1> QED
  BY <1>1, <1>2, <1>5, <1>7, <1>8, <1>10
  DEF Handled, IdsAfter, BufferAfter, PlanAfter, CompletionsAfter

LEMMA HandledDispatch ==
  ASSUME Core, ShowSession \/ Complete \/ AppendReasoning PROVE Handled(Head(steps))
<1>1. PICK o: o = Head(steps)  OBVIOUS
<1>2. /\ phase = "processing" /\ steps # <<>> /\ o \in Todo /\ o = steps[1]
      /\ o.op \in {"session", "complete", "activity"}
      /\ StepFits(o) /\ o.turn \in Turns /\ o.text \in Seq(Nat)
      /\ ShowSession => o.op = "session"
      /\ Complete => o.op = "complete"
      /\ AppendReasoning => o.op = "activity"
  <2>1. CASE Doing("session")  BY <1>1, <2>1, StepInHand DEF Doing, Complete, AppendReasoning
  <2>2. CASE Doing("complete")  BY <1>1, <2>2, StepInHand DEF Doing, ShowSession, AppendReasoning
  <2>3. CASE Doing("activity")  BY <1>1, <2>3, StepInHand DEF Doing, Complete, ShowSession
  <2> QED  BY <2>1, <2>2, <2>3 DEF ShowSession, Complete, AppendReasoning
<1>3. /\ Typed /\ caches \in Caches /\ (\A t \in Turns: IsFiniteSet(caches.ids[t]))
      /\ thread \in Thread
  BY DEF Core, Typed
<1>4. Unchanged /\ caches' = caches
  BY DEF ShowSession, Complete, AppendReasoning
<1>5. IdsAfter(o) /\ BufferAfter(o) /\ PlanAfter(o)
  BY <1>2, <1>4 DEF IdsAfter, BufferAfter, PlanAfter
<1>6. CASE ShowSession
  <2>1. Dispatch(thread)  BY <1>6 DEF ShowSession
  <2>2. Popped /\ thread' = thread  BY <1>2, <1>3, <1>4, <2>1, DispatchPops
  <2> QED  BY <1>1, <1>2, <1>3, <1>4, <1>5, <1>6, <2>2 DEF Handled, TextAfter, CompletionsAfter
<1>7. CASE Complete
  <2>1. PICK change: change = [thread EXCEPT !.shown[o.item] = "complete",
                                             !.completions[o.item] = @ + 1]
    OBVIOUS
  <2>2. Dispatch(change)  BY <1>1, <1>7, <2>1 DEF Complete
  <2>3. Popped /\ (\/ thread' = change /\ Succeeds
                   \/ thread' = thread /\ ~Succeeds)
    BY <1>2, <1>3, <1>4, <2>2, DispatchPops
  <2>4. o.item \in Message  BY <1>2, <1>7 DEF StepFits, ItemOps
  <2>5. /\ change \in Thread /\ change.text = thread.text
        /\ change.completions = [thread.completions EXCEPT ![o.item] = thread.completions[o.item] + 1]
    <3>1. PICK shown, completions:
            /\ shown = [thread.shown EXCEPT ![o.item] = "complete"]
            /\ completions = [thread.completions EXCEPT ![o.item] = thread.completions[o.item] + 1]
      OBVIOUS
    <3>2. change = [thread EXCEPT !.shown = shown, !.completions = completions]
      BY <1>3, <2>1, <3>1 DEF Thread
    <3>3. /\ shown \in [Message -> {"absent", "streaming", "complete"}]
          /\ completions \in [Message -> Nat]
      BY <1>3, <2>4, <3>1 DEF Thread
    <3> QED  BY <1>3, <3>1, <3>2, <3>3 DEF Thread
  <2> QED
    BY <1>1, <1>2, <1>3, <1>4, <1>5, <1>7, <2>3, <2>5 DEF Handled, TextAfter, CompletionsAfter
<1>8. CASE AppendReasoning
  <2>1. PICK change: change = [thread EXCEPT !.text[o.item] = o.text]  OBVIOUS
  <2>2. Dispatch(change)  BY <1>1, <1>8, <2>1 DEF AppendReasoning
  <2>3. Popped /\ (\/ thread' = change /\ Succeeds
                   \/ thread' = thread /\ ~Succeeds)
    BY <1>2, <1>3, <1>4, <2>2, DispatchPops
  <2>4. o.item \in Item  BY <1>2, <1>8 DEF StepFits, ItemOps
  <2>5. /\ change \in Thread /\ change.text = [thread.text EXCEPT ![o.item] = o.text]
        /\ change.completions = thread.completions
    BY <1>2, <1>3, <2>1, <2>4 DEF Thread
  <2> QED
    BY <1>1, <1>2, <1>3, <1>4, <1>5, <1>8, <2>3, <2>5 DEF Handled, TextAfter, CompletionsAfter
<1> QED  BY <1>6, <1>7, <1>8

LEMMA HandledIds ==
  ASSUME Core, RememberItem \/ Forget \/ ClearTurn \/ ClearSession PROVE Handled(Head(steps))
<1>1. PICK o: o = Head(steps)  OBVIOUS
<1>2. /\ phase = "processing" /\ steps # <<>> /\ o \in Todo /\ o = steps[1]
      /\ o.op \in {"remember", "forget", "clear", "exit"}
      /\ StepFits(o) /\ o.turn \in Turns
      /\ RememberItem => o.op = "remember"
      /\ Forget => o.op = "forget"
      /\ ClearTurn => o.op = "clear"
      /\ ClearSession => o.op = "exit"
  <2>1. CASE Doing("remember")
    BY <1>1, <2>1, StepInHand DEF Doing, Forget, ClearTurn, ClearSession
  <2>2. CASE Doing("forget")
    BY <1>1, <2>2, StepInHand DEF Doing, RememberItem, ClearTurn, ClearSession
  <2>3. CASE Doing("clear")
    BY <1>1, <2>3, StepInHand DEF Doing, RememberItem, Forget, ClearSession
  <2>4. CASE Doing("exit")
    BY <1>1, <2>4, StepInHand DEF Doing, RememberItem, ClearTurn, Forget
  <2> QED  BY <2>1, <2>2, <2>3, <2>4 DEF RememberItem, Forget, ClearTurn, ClearSession
<1>3. /\ Typed /\ caches \in Caches /\ (\A t \in Turns: IsFiniteSet(caches.ids[t]))
      /\ thread \in Thread /\ <<>> \in Seq(Nat) /\ IsFiniteSet({})
  BY EmptySeq, FS_EmptySet DEF Core, Typed
<1>4. Unchanged /\ thread' = thread /\ Go
  BY DEF RememberItem, Forget, ClearTurn, ClearSession
<1>5. Popped /\ Succeeds  BY <1>2, <1>3, <1>4, GoPops
<1>6. TextAfter(o) /\ CompletionsAfter(o)
  BY <1>2, <1>4 DEF TextAfter, CompletionsAfter
<1>7. CASE RememberItem
  <2>1. o.item \in Message /\ caches' = Remember(o.item, o.turn)
    BY <1>1, <1>2, <1>7 DEF RememberItem, StepFits, ItemOps
  <2>2. /\ caches' \in Caches /\ (\A u \in Turns: IsFiniteSet(caches'.ids[u]))
        /\ caches'.ids = [caches.ids EXCEPT ![o.turn] = caches.ids[o.turn] \union {o.item}]
        /\ caches'.buffer = caches.buffer /\ caches'.plan = caches.plan
    <3>1. PICK i \in Message, t \in Turns, r \in {caches'}: i = o.item /\ t = o.turn /\ r = caches'
      BY <1>2, <2>1
    <3>2. Typed /\ r = Remember(i, t)  BY <1>3, <2>1, <3>1
    <3>3. r \in Caches /\ (\A u \in Turns: IsFiniteSet(r.ids[u]))  BY <3>2, Remembered
    <3>4. r.ids = [caches.ids EXCEPT ![t] = caches.ids[t] \union {i}]  BY <3>2, Remembered
    <3>5. r.buffer = caches.buffer /\ r.plan = caches.plan  BY <3>2, Remembered
    <3> QED  BY <3>1, <3>3, <3>4, <3>5
  <2> QED
    BY <1>1, <1>2, <1>3, <1>4, <1>5, <1>6, <1>7, <2>2 DEF Handled, IdsAfter, BufferAfter, PlanAfter
<1>8. CASE Forget
  <2>1. caches' = [caches EXCEPT !.ids[o.turn] = @ \ {o.item}]  BY <1>1, <1>8 DEF Forget
  <2>2. /\ caches' \in Caches /\ caches'.buffer = caches.buffer /\ caches'.plan = caches.plan
        /\ caches'.ids = [caches.ids EXCEPT ![o.turn] = caches.ids[o.turn] \ {o.item}]
    BY <1>2, <1>3, <2>1 DEF Caches
  <2>3. IsFiniteSet(caches.ids[o.turn] \ {o.item})  BY <1>2, <1>3, FS_RemoveElement
  <2>4. \A u \in Turns: IsFiniteSet(caches'.ids[u])
    <3> TAKE u \in Turns
    <3>1. caches'.ids[u] = IF u = o.turn THEN caches.ids[o.turn] \ {o.item} ELSE caches.ids[u]
      BY <1>3, <2>2 DEF Caches
    <3> QED  BY <1>3, <2>3, <3>1
  <2> QED
    BY <1>1, <1>2, <1>3, <1>4, <1>5, <1>6, <1>8, <2>2, <2>4
    DEF Handled, IdsAfter, BufferAfter, PlanAfter
<1>9. CASE ClearTurn
  <2>1. caches' = [caches EXCEPT !.ids[o.turn] = {}]  BY <1>1, <1>9 DEF ClearTurn
  <2>2. /\ caches' \in Caches /\ caches'.buffer = caches.buffer /\ caches'.plan = caches.plan
        /\ caches'.ids = [caches.ids EXCEPT ![o.turn] = {}]
    BY <1>2, <1>3, <2>1 DEF Caches
  <2>4. \A u \in Turns: IsFiniteSet(caches'.ids[u])
    <3> TAKE u \in Turns
    <3>1. caches'.ids[u] = IF u = o.turn THEN {} ELSE caches.ids[u]
      BY <1>3, <2>2 DEF Caches
    <3> QED  BY <1>3, <3>1
  <2> QED
    BY <1>1, <1>2, <1>3, <1>4, <1>5, <1>6, <1>9, <2>2, <2>4
    DEF Handled, IdsAfter, BufferAfter, PlanAfter
<1>10. CASE ClearSession
  <2>1. caches' = [buffer |-> [i \in Message |-> IF i \in UNION {caches.ids[t]: t \in Turns}
                                                 THEN <<>> ELSE caches.buffer[i]],
                   ids |-> [t \in Turns |-> {}], plan |-> [t \in Turns |-> <<>>]]
    BY <1>10 DEF ClearSession
  <2>2. /\ caches'.ids = [t \in Turns |-> {}] /\ caches'.plan = [t \in Turns |-> <<>>]
        /\ caches'.buffer = [i \in Message |-> IF i \in UNION {caches.ids[t]: t \in Turns}
                                               THEN <<>> ELSE caches.buffer[i]]
    BY <2>1
  <2>3. caches'.ids \in [Turns -> SUBSET Message] /\ caches'.plan \in [Turns -> Seq(Nat)]
    BY <1>3, <2>2
  <2>4. caches'.buffer \in [Message -> Seq(Nat)]
    <3>1. \A i \in Message: caches.buffer[i] \in Seq(Nat)  BY <1>3 DEF Caches
    <3> HIDE <2>1
    <3> QED  BY <1>3, <2>2, <3>1
  <2>5. caches' \in Caches  BY <2>1, <2>3, <2>4 DEF Caches
  <2>6. \A u \in Turns: IsFiniteSet(caches'.ids[u])  BY <1>3, <2>2
  <2> QED
    BY <1>1, <1>2, <1>3, <1>4, <1>5, <1>6, <1>10, <2>2, <2>5, <2>6
    DEF Handled, IdsAfter, BufferAfter, PlanAfter
<1> QED  BY <1>7, <1>8, <1>9, <1>10

LEMMA HandledPlan ==
  ASSUME Core, BufferPlan \/ UpsertPlan PROVE Handled(Head(steps))
<1>1. PICK o: o = Head(steps)  OBVIOUS
<1>2. /\ phase = "processing" /\ steps # <<>> /\ o \in Todo /\ o = steps[1]
      /\ o.op \in {"propose", "plan"}
      /\ StepFits(o) /\ o.turn \in Turns /\ o.text \in Seq(Nat)
      /\ BufferPlan => o.op = "propose"
      /\ UpsertPlan => o.op = "plan"
  <2>1. CASE Doing("propose")  BY <1>1, <2>1, StepInHand DEF Doing, UpsertPlan
  <2>2. CASE Doing("plan")  BY <1>1, <2>2, StepInHand DEF Doing, BufferPlan
  <2> QED  BY <2>1, <2>2 DEF BufferPlan, UpsertPlan
<1>3. /\ Typed /\ caches \in Caches /\ (\A t \in Turns: IsFiniteSet(caches.ids[t]))
      /\ thread \in Thread /\ <<>> \in Seq(Nat) /\ caches.plan[o.turn] \in Seq(Nat)
  BY <1>2, EmptySeq DEF Core, Typed, Caches
<1>4. CASE BufferPlan
  <2>1. PICK text: text = caches.plan[o.turn] \o o.text  OBVIOUS
  <2>2. caches' = [caches EXCEPT !.plan[o.turn] = text] /\ Go /\ UNCHANGED thread /\ Unchanged
    BY <1>1, <1>4, <2>1 DEF BufferPlan
  <2>3. text \in Seq(Nat)  BY <1>2, <1>3, <2>1, ConcatProperties
  <2>4. /\ caches' \in Caches /\ caches'.buffer = caches.buffer /\ caches'.ids = caches.ids
        /\ caches'.plan = [caches.plan EXCEPT ![o.turn] = text]
    BY <1>2, <1>3, <2>2, <2>3 DEF Caches
  <2>5. Popped /\ Succeeds  BY <1>2, <1>3, <2>2, GoPops
  <2> QED
    BY <1>1, <1>2, <1>3, <1>4, <2>1, <2>2, <2>4, <2>5
    DEF Handled, IdsAfter, BufferAfter, PlanAfter, TextAfter, CompletionsAfter
<1>5. CASE UpsertPlan
  <2>1. PICK text: text = IF caches.plan[o.turn] # <<>> THEN caches.plan[o.turn] ELSE o.text
    OBVIOUS
  <2>2. PICK change: change = [thread EXCEPT !.plan[o.turn] = text]  OBVIOUS
  <2>3. /\ caches' = [caches EXCEPT !.plan[o.turn] = <<>>] /\ Unchanged
        /\ \/ Go /\ UNCHANGED thread
           \/ Dispatch(change)
    BY <1>1, <1>5, <2>1, <2>2 DEF UpsertPlan
  <2>4. text \in Seq(Nat)  BY <1>2, <1>3, <2>1
  <2>5. change \in Thread /\ change.text = thread.text /\ change.completions = thread.completions
    BY <1>2, <1>3, <2>2, <2>4 DEF Thread
  <2>6. /\ caches' \in Caches /\ caches'.buffer = caches.buffer /\ caches'.ids = caches.ids
        /\ caches'.plan = [caches.plan EXCEPT ![o.turn] = <<>>]
    BY <1>2, <1>3, <2>3 DEF Caches
  <2>7. Popped /\ (thread' = thread \/ thread' = change)
    <3>1. CASE Go /\ UNCHANGED thread  BY <1>2, <1>3, <2>3, <3>1, GoPops
    <3>2. CASE Dispatch(change)  BY <1>2, <1>3, <2>3, <3>2, DispatchPops
    <3> QED  BY <2>3, <3>1, <3>2
  <2>8. thread' \in Thread /\ thread'.text = thread.text /\ thread'.completions = thread.completions
    BY <1>3, <2>5, <2>7
  <2> QED
    BY <1>1, <1>2, <1>3, <1>5, <2>6, <2>7, <2>8
    DEF Handled, IdsAfter, BufferAfter, PlanAfter, TextAfter, CompletionsAfter
<1> QED  BY <1>4, <1>5

LEMMA HandlerHandles == ASSUME Core, HandlerStep PROVE \E o \in Todo: Handled(o)
<1>1. Handled(Head(steps))
  BY HandledTakeDelta, HandledFlush, HandledDispatch, HandledIds, HandledPlan DEF HandlerStep
<1> QED  BY <1>1 DEF Handled

(*************************** The invariant Core **************************)
(* After a step of the handler the steps that were to follow, or none.       *)
LEMMA RestOfSteps ==
  ASSUME Core, NEW o, Handled(o)
  PROVE  /\ steps' \in Seq(Todo) /\ 1 \in DOMAIN steps
         /\ DOMAIN steps \subseteq Nat \ {0} /\ DOMAIN steps' \subseteq Nat \ {0}
         /\ \A k \in DOMAIN steps': k + 1 \in DOMAIN steps /\ steps'[k] = steps[k + 1]
         /\ Len(steps) \in Nat /\ (Len(steps) = 1 => steps' = <<>> /\ DOMAIN steps' = {})
         /\ Succeeds => /\ Len(steps') = Len(steps) - 1
                        /\ \A k \in DOMAIN steps: k = 1 \/ (k - 1 \in DOMAIN steps' /\ steps[k] = steps'[k - 1])
         /\ o.op = "delta" \/ o.op = "activity" => Len(steps) = 1
         /\ count'.failures = count.failures => Succeeds
         /\ o.turn \in Turns /\ o.turn \in Nat \ {0}
<1>1. steps \in Seq(Todo) /\ steps # <<>> /\ o = steps[1] /\ Popped /\ StepFits(o)
      /\ o \in Todo /\ count \in [Troubles -> Nat]
  BY DEF Core, Typed, Handled
<1>2. PICK r: r = Tail(steps)  OBVIOUS
<1>3. /\ r \in Seq(Todo) /\ Len(steps) \in Nat \ {0} /\ Len(r) = Len(steps) - 1
      /\ DOMAIN steps = 1 .. Len(steps) /\ DOMAIN r = 1 .. Len(steps) - 1
      /\ 1 \in DOMAIN steps
      /\ \A k \in DOMAIN r: k + 1 \in DOMAIN steps /\ r[k] = steps[k + 1]
  BY <1>1, <1>2, TailElements
<1>4. /\ <<>> \in Seq(Todo) /\ DOMAIN <<>> = {} /\ Len(<<>>) = 0
      /\ \A s \in Seq(Todo): Len(s) = 0 => s = <<>>
  BY EmptySeq
<1>5. \/ steps' = r /\ Succeeds
      \/ steps' = <<>> /\ count'.failures = count.failures + 1
  BY <1>1, <1>2 DEF Popped, Succeeds
<1>6. count.failures \in Nat  BY <1>1 DEF Troubles
<1>7. count'.failures = count.failures + 1 => ~Succeeds /\ count'.failures # count.failures
  BY <1>6 DEF Succeeds
<1>8. Len(steps) = 1 => r = <<>>  BY <1>3, <1>4
<1>9. o.op = "delta" \/ o.op = "activity" => Len(steps) = 1  BY <1>1 DEF StepFits
<1>10. o.turn \in Turns /\ o.turn \in Nat \ {0}  BY <1>1, IngestionAssumption DEF Todo, Turns
<1>11. \A k \in DOMAIN steps: k = 1 \/ (k - 1 \in DOMAIN r /\ steps[k] = r[k - 1])
  <2> TAKE k \in DOMAIN steps
  <2>1. CASE k # 1
    <3>1. k - 1 \in DOMAIN r /\ (k - 1) + 1 = k  BY <1>3, <2>1
    <3> QED  BY <1>3, <3>1
  <2> QED  BY <2>1
<1>12. CASE steps' = r /\ Succeeds
  BY <1>3, <1>4, <1>8, <1>9, <1>10, <1>11, <1>12 DEF Succeeds
<1>13. CASE steps' = <<>> /\ count'.failures = count.failures + 1
  BY <1>3, <1>4, <1>7, <1>9, <1>10, <1>13
<1> QED  BY <1>5, <1>12, <1>13

LEMMA HandledKeepsCore == ASSUME Core, NEW o, Handled(o) PROVE Core'
<1>1. /\ Typed /\ Order /\ Todos /\ IdsOf /\ Busy
      /\ UNCHANGED <<events, provider, said, streaming, phase, failing>>
      /\ phase = "processing" /\ count' \in [Troubles -> Nat]
      /\ caches' \in Caches /\ (\A t \in Turns: IsFiniteSet(caches'.ids[t])) /\ thread' \in Thread
      /\ o \in Todo /\ StepFits(o) /\ IdsAfter(o)
  BY DEF Core, Handled, Popped, vars, worker
<1>2. /\ steps' \in Seq(Todo) /\ DOMAIN steps' \subseteq Nat \ {0}
      /\ \A k \in DOMAIN steps': k + 1 \in DOMAIN steps /\ steps'[k] = steps[k + 1]
      /\ Len(steps) \in Nat /\ (Len(steps) = 1 => steps' = <<>> /\ DOMAIN steps' = {})
      /\ o.turn \in Turns
  BY RestOfSteps
<1>3. Typed'  BY <1>1, <1>2 DEF Typed
<1>4. Order'  BY <1>1 DEF Order, EventFits, Precedes
<1>5. Todos'
  <2> SUFFICES ASSUME NEW k \in DOMAIN steps'
               PROVE  StepFits(steps[k])' /\ (steps'[k].op = "remember" => k = 1)
    BY DEF Todos
  <2>1. /\ k + 1 \in DOMAIN steps /\ steps'[k] = steps[k + 1] /\ k + 1 # 1
        /\ Len(steps) # 1
    BY <1>2
  <2>2. StepFits(steps[k + 1]) /\ steps[k + 1].op # "remember"  BY <1>1, <2>1 DEF Todos
  <2>3. steps[k + 1].op \notin {"delta", "activity"}  BY <2>1, <2>2 DEF StepFits
  <2>4. StepFits(steps[k])'
    BY <1>1, <2>1, <2>2, <2>3 DEF StepFits, NothingMore, TurnPassed
  <2> QED  BY <2>1, <2>2, <2>4
<1>6. IdsOf'
  <2>1. ASSUME NEW t \in Turns, NEW i \in caches'.ids[t] PROVE provider.of[i] = t
    <3>1. caches.ids \in [Turns -> SUBSET Message]  BY <1>1 DEF Typed, Caches
    <3>2. i \in caches.ids[t] \/ (o.op \in {"delta", "remember"} /\ t = o.turn /\ i = o.item)
      BY <1>1, <1>2, <3>1 DEF IdsAfter
    <3>3. o.op \in {"delta", "remember"} => provider.of[o.item] = o.turn
      BY <1>1 DEF StepFits, ItemOps
    <3> QED  BY <1>1, <3>2, <3>3 DEF IdsOf
  <2> QED  BY <1>1, <2>1 DEF IdsOf
<1>7. Busy'  BY <1>1 DEF Busy
<1> QED  BY <1>3, <1>4, <1>5, <1>6, <1>7 DEF Core

(* A step in which the texts, the events and the provider do not move.       *)
Quiet ==
  /\ UNCHANGED <<events, provider, said, caches, thread>>
  /\ streaming' \in BOOLEAN /\ count' \in [Troubles -> Nat]
  /\ count'.failures = count.failures /\ count.toStreaming <= count'.toStreaming
  /\ streaming' = streaming \/ ~streaming' \/ count.toStreaming < count'.toStreaming
  /\ \/ steps' = steps
     \/ steps' = <<>> /\ failing'
  /\ failing => failing'
  /\ Busy'

LEMMA QuietKeepsCore == ASSUME Core, Quiet PROVE Core'
<1>1. /\ Typed /\ Order /\ Todos /\ IdsOf /\ Busy' /\ <<>> \in Seq(Todo) /\ DOMAIN <<>> = {}
  BY EmptySeq DEF Core, Quiet
<1>2. Typed' /\ Order' /\ IdsOf'
  <2>1. steps' \in Seq(Todo)  BY <1>1 DEF Quiet, Typed
  <2>2. Typed'  BY <1>1, <2>1 DEF Quiet, Typed
  <2>3. Order'  BY <1>1 DEF Quiet, Order, EventFits, Precedes
  <2>4. IdsOf'  BY <1>1 DEF Quiet, IdsOf
  <2> QED  BY <2>2, <2>3, <2>4
<1>3. Todos'
  <2>1. CASE steps' = steps
    BY <1>1, <2>1 DEF Quiet, Todos, StepFits, NothingMore, TurnPassed
  <2>2. CASE steps' = <<>>
    BY <1>1, <2>2 DEF Todos
  <2> QED  BY <2>1, <2>2 DEF Quiet
<1> QED  BY <1>1, <1>2, <1>3 DEF Core

LEMMA OtherStepsAreQuiet ==
  ASSUME Core, \/ ToggleStreaming \/ EndHandling \/ Interrupted \/ CountDown
               \/ \E d \in Drainer: (CallDrain(d) \/ Drained(d)) /\ UNCHANGED steps /\ Rest
               \/ UNCHANGED ingestionVars
  PROVE  Quiet
<1>1. /\ count \in [Troubles -> Nat] /\ streaming \in BOOLEAN /\ Busy
      /\ count.toStreaming \in Nat /\ count.toStreaming <= count.toStreaming
  BY DEF Core, Typed, Troubles
<1>2. CASE ToggleStreaming
  <2>1. PICK what: what = IF streaming THEN "toBuffered" ELSE "toStreaming"  OBVIOUS
  <2>2. what \in Troubles /\ Trouble(what) /\ what # "failures"
    BY <1>2, <2>1 DEF ToggleStreaming, Troubles
  <2>3. /\ count' \in [Troubles -> Nat] /\ count'[what] = count[what] + 1
        /\ \A w \in Troubles: w # what => count'[w] = count[w]
    BY <1>1, <2>2, CountOfTroubles
  <2>4. count'["failures"] = count["failures"]  BY <2>2, <2>3 DEF Troubles
  <2>5. /\ count.toStreaming <= count'.toStreaming
        /\ ~streaming => count.toStreaming < count'.toStreaming
    BY <1>1, <2>1, <2>3 DEF Troubles
  <2> QED
    BY <1>1, <1>2, <2>3, <2>4, <2>5 DEF Quiet, ToggleStreaming, vars, worker, Busy
<1>3. CASE EndHandling \/ Interrupted \/ CountDown
  <2>1. UNCHANGED <<events, provider, said, streaming, caches, thread, count>>
    BY <1>3 DEF EndHandling, Interrupted, CountDown, Rest
  <2>2. CASE EndHandling
    BY <1>1, <2>1, <2>2 DEF EndHandling, Process, Quiet, Busy
  <2>3. CASE Interrupted
    BY <1>1, <2>1, <2>3 DEF Interrupted, ProcessFails, Quiet, Busy
  <2>4. CASE CountDown
    BY <1>1, <2>1, <2>4 DEF CountDown, Ensure, Quiet, Busy
  <2> QED  BY <1>3, <2>2, <2>3, <2>4
<1>4. CASE \E d \in Drainer: (CallDrain(d) \/ Drained(d)) /\ UNCHANGED steps /\ Rest
  BY <1>1, <1>4 DEF CallDrain, Drained, Rest, worker, Quiet, Busy
<1>5. CASE UNCHANGED ingestionVars
  BY <1>1, <1>5 DEF ingestionVars, vars, worker, Quiet, Busy
<1> QED  BY <1>2, <1>3, <1>4, <1>5

LEMMA StepKinds ==
  ASSUME Core, Inv, Aligned, [IngestionNext]_ingestionVars
  PROVE  \/ \E e \in Event: Emitted(e)
         \/ \E e \in Event: Taken(e)
         \/ \E o \in Todo: Handled(o)
         \/ Quiet
<1>1. CASE StartTurn \/ (\E i \in Item: Say(i) \/ FinishItem(i)) \/ Propose \/ FinishPlan
           \/ EndTurn \/ ExitSession
  BY <1>1, ProviderEmits DEF Core
<1>2. CASE TakeEvent  BY <1>2, EventTaken
<1>3. CASE HandlerStep  BY <1>3, HandlerHandles
<1>4. CASE \/ ToggleStreaming \/ EndHandling \/ Interrupted \/ CountDown
           \/ \E d \in Drainer: (CallDrain(d) \/ Drained(d)) /\ UNCHANGED steps /\ Rest
           \/ UNCHANGED ingestionVars
  BY <1>4, OtherStepsAreQuiet
<1> QED  BY <1>1, <1>2, <1>3, <1>4 DEF IngestionNext, IngestionWorker

LEMMA StepIsWorkerStep ==
  ASSUME [IngestionNext]_ingestionVars PROVE [Next]_vars
<1>1. CASE StartTurn \/ (\E i \in Item: Say(i) \/ FinishItem(i)) \/ Propose \/ FinishPlan
           \/ EndTurn \/ ExitSession
  BY <1>1 DEF StartTurn, Say, FinishItem, Propose, FinishPlan, EndTurn, ExitSession, Emit, Next
<1>2. CASE ToggleStreaming \/ HandlerStep
  BY <1>2 DEF ToggleStreaming, HandlerStep, ShowSession, TakeDelta, RememberItem, Flush,
     Complete, Forget, ClearTurn, AppendReasoning, BufferPlan, UpsertPlan, ClearSession,
     Unchanged
<1>3. CASE TakeEvent \/ EndHandling \/ Interrupted \/ CountDown
  BY <1>3 DEF TakeEvent, EndHandling, Interrupted, CountDown, Next, WorkerStep
<1>4. CASE \E d \in Drainer: (CallDrain(d) \/ Drained(d)) /\ UNCHANGED steps /\ Rest
  BY <1>4 DEF Next
<1>5. CASE UNCHANGED ingestionVars
  BY <1>5 DEF ingestionVars
<1> QED  BY <1>1, <1>2, <1>3, <1>4, <1>5 DEF IngestionNext, IngestionWorker

LEMMA AlignedStays ==
  ASSUME Typed, Inv, Aligned, [IngestionNext]_ingestionVars PROVE Aligned'
<1>1. /\ queue \in Seq(Nat) /\ events \in Seq(Event) /\ Len(events) = Len(queue)
      /\ enqueued \in Nat
  BY DEF Inv, TypeOK, Typed, Aligned
<1>2. ASSUME NEW type, NEW t, NEW i, NEW n, Emit(type, t, i, n) PROVE Aligned'
  <2>1. PICK e: e = [type |-> type, turn |-> t, item |-> i, n |-> n]  OBVIOUS
  <2>2. events' = Append(events, e) /\ queue' = Append(queue, enqueued + 1)
    BY <1>2, <2>1 DEF Emit, Enqueue
  <2>3. \A S: \A s \in Seq(S): \A x: Len(Append(s, x)) = Len(s) + 1  OBVIOUS
  <2> QED  BY <1>1, <2>2, <2>3 DEF Aligned
<1>3. CASE StartTurn \/ (\E i \in Item: Say(i) \/ FinishItem(i)) \/ Propose \/ FinishPlan
           \/ EndTurn \/ ExitSession
  BY <1>2, <1>3 DEF StartTurn, Say, FinishItem, Propose, FinishPlan, EndTurn, ExitSession
<1>4. CASE TakeEvent
  <2>1. queue' = Tail(queue) /\ queue # <<>> /\ events' = Tail(events)
    BY <1>4 DEF TakeEvent, Take
  <2>2. events # <<>>
    <3>1. Len(queue) # 0  BY <1>1, <2>1, EmptySeq
    <3> QED  BY <1>1, <3>1, EmptySeq
  <2>3. Len(Tail(queue)) = Len(queue) - 1 /\ Len(Tail(events)) = Len(events) - 1
    BY <1>1, <2>1, <2>2, HeadTailProperties
  <2> QED  BY <1>1, <2>1, <2>3 DEF Aligned
<1>5. CASE HandlerStep \/ ToggleStreaming \/ EndHandling \/ Interrupted \/ CountDown
           \/ (\E d \in Drainer: (CallDrain(d) \/ Drained(d)) /\ UNCHANGED steps /\ Rest)
           \/ UNCHANGED ingestionVars
  <2>1. events' = events /\ queue' = queue
    <3>1. CASE HandlerStep \/ ToggleStreaming
      BY <3>1 DEF HandlerStep, ShowSession, TakeDelta, RememberItem, Flush, Complete, Forget,
         ClearTurn, AppendReasoning, BufferPlan, UpsertPlan, ClearSession, Unchanged, vars,
         ToggleStreaming
    <3>2. CASE EndHandling \/ Interrupted \/ CountDown
      BY <3>2 DEF EndHandling, Interrupted, CountDown, Process, ProcessFails, Ensure, Rest
    <3>3. CASE \E d \in Drainer: (CallDrain(d) \/ Drained(d)) /\ UNCHANGED steps /\ Rest
      BY <3>3 DEF CallDrain, Drained, Rest
    <3>4. CASE UNCHANGED ingestionVars  BY <3>4 DEF ingestionVars, vars
    <3> QED  BY <1>5, <3>1, <3>2, <3>3, <3>4
  <2> QED  BY <1>1, <2>1 DEF Aligned
<1> QED  BY <1>3, <1>4, <1>5 DEF IngestionNext, IngestionWorker

IngestionInv == Core /\ Aligned /\ Inv

LEMMA IngestionInitInv == IngestionInit => IngestionInv
<1> SUFFICES ASSUME IngestionInit PROVE IngestionInv
  OBVIOUS
<1>1. Inv  BY InitInv DEF IngestionInit
<1>2. /\ events = <<>> /\ steps = <<>> /\ queue = <<>> /\ phase = "waiting" /\ failing = FALSE
      /\ provider = [turn |-> 0, turns |-> 0, of |-> [i \in Item |-> 0],
                     closed |-> {}, planned |-> {}, cut |-> {}]
      /\ said = [text |-> [i \in Item |-> 0], plan |-> [t \in Turns |-> 0]]
      /\ streaming \in BOOLEAN
      /\ caches = [buffer |-> [i \in Message |-> <<>>], ids |-> [t \in Turns |-> {}],
                   plan |-> [t \in Turns |-> <<>>]]
      /\ thread = [text |-> [i \in Item |-> <<>>], plan |-> [t \in Turns |-> <<>>],
                   shown |-> [i \in Message |-> "absent"],
                   completions |-> [i \in Message |-> 0]]
      /\ count = [toStreaming |-> 0, toBuffered |-> 0, exits |-> 0, failures |-> 0]
  BY DEF IngestionInit, Init
<1>3. <<>> \in Seq(Event) /\ <<>> \in Seq(Todo) /\ <<>> \in Seq(Nat) /\ DOMAIN <<>> = {}
  BY EmptySeq
<1>4. provider \in Provider /\ provider.turn = 0 /\ provider.turns = 0
      /\ \A i \in Item: provider.of[i] = 0
  BY <1>2, IngestionAssumption DEF Provider
<1>5. said \in Said /\ count \in [Troubles -> Nat]  BY <1>2 DEF Said, Troubles
<1>6. caches \in Caches /\ \A t \in Turns: caches.ids[t] = {}
  <2>1. [i \in Message |-> <<>>] \in [Message -> Seq(Nat)]
        /\ [t \in Turns |-> <<>>] \in [Turns -> Seq(Nat)]
        /\ [t \in Turns |-> {}] \in [Turns -> SUBSET Message]
    BY <1>3
  <2> QED  BY <1>2, <2>1 DEF Caches
<1>7. thread \in Thread
  <2>1. [i \in Item |-> <<>>] \in [Item -> Seq(Nat)]
        /\ [t \in Turns |-> <<>>] \in [Turns -> Seq(Nat)]
    BY <1>3
  <2>2. [i \in Message |-> "absent"] \in [Message -> {"absent", "streaming", "complete"}]
        /\ [i \in Message |-> 0] \in [Message -> Nat]
    OBVIOUS
  <2> QED  BY <1>2, <2>1, <2>2 DEF Thread
<1>8. Typed
  <2>1. \A t \in Turns: IsFiniteSet(caches.ids[t])  BY <1>6, FS_EmptySet
  <2> QED  BY <1>2, <1>3, <1>4, <1>5, <1>6, <1>7, <2>1 DEF Typed
<1>9. Order /\ Todos /\ IdsOf /\ Busy
  BY <1>2, <1>3, <1>6 DEF Order, Todos, IdsOf, Busy
<1> QED  BY <1>1, <1>2, <1>8, <1>9 DEF IngestionInv, Core, Aligned

LEMMA IngestionStepInv ==
  ASSUME IngestionInv, [IngestionNext]_ingestionVars PROVE IngestionInv'
<1>1. Core'
  BY StepKinds, EmittedKeepsCore, TakenKeepsCore, HandledKeepsCore, QuietKeepsCore
  DEF IngestionInv
<1>2. Aligned'  BY AlignedStays DEF IngestionInv, Core
<1>3. Inv'  BY StepIsWorkerStep, StepInv DEF IngestionInv
<1> QED  BY <1>1, <1>2, <1>3 DEF IngestionInv

(***************************** Completed once ****************************)
(* A message that was completed is done with: nothing of it is on its way,   *)
(* and it is remembered only where it is about to be forgotten, or will      *)
(* never be finalized again.  One that is about to be completed was not yet. *)
Completing(i) ==
  /\ thread.completions[i] \in {0, 1}
  /\ \A j, k \in DOMAIN steps:
       /\ steps[j].op = "complete" /\ steps[j].item = i
       /\ steps[k].op = "complete" /\ steps[k].item = i
       => j = k
  /\ \A k \in DOMAIN steps: steps[k].op = "complete" /\ steps[k].item = i =>
       /\ thread.completions[i] = 0
       /\ \/ TurnPassed(provider.of[i])
          \/ HasAfter(steps, k, "forget", i) /\ Len(steps) = k + 1
  /\ thread.completions[i] = 1 =>
       /\ NothingMore(i) /\ ~Has(steps, "delta", i) /\ ~Has(steps, "remember", i)
       /\ \/ \A t \in Turns: i \notin caches.ids[t]
          \/ Has(steps, "forget", i) /\ Len(steps) = 1
          \/ failing
          \/ TurnPassed(provider.of[i])

CompletedInv == \A i \in Message: Completing(i)

LEMMA TurnOf ==
  ASSUME Core, NEW i \in Item, provider.of[i] # 0
  PROVE  provider.of[i] \in Turns /\ provider.of[i] <= provider.turns
BY IngestionAssumption DEF Core, Typed, Provider, Turns

LEMMA EmittedKeepsCompleted ==
  ASSUME Core, CompletedInv, NEW e, Emitted(e) PROVE CompletedInv'
<1>1. UNCHANGED <<steps, caches, thread, failing>>  BY DEF Emitted
<1> SUFFICES ASSUME NEW i \in Message PROVE Completing(i)'
  BY DEF CompletedInv
<1>2. Completing(i) /\ i \in Item  BY DEF CompletedInv, Item
<1>3. /\ provider.of[i] # 0 => provider'.of[i] = provider.of[i]
      /\ \A t \in Turns: t <= provider.turns /\ TurnPassed(t) => TurnPassed(t)'
      /\ NothingMore(i) => NothingMore(i)'
  BY <1>2, PastStays
<1>4. provider.of[i] # 0 /\ TurnPassed(provider.of[i]) => TurnPassed(provider.of[i])'
  <2> SUFFICES ASSUME provider.of[i] # 0, TurnPassed(provider.of[i])
               PROVE  TurnPassed(provider.of[i])'
    OBVIOUS
  <2>1. PICK t \in Turns: t = provider.of[i] /\ t <= provider.turns /\ t = provider'.of[i]
    BY <1>2, <1>3, TurnOf
  <2>2. TurnPassed(t)'  BY <1>3, <2>1
  <2> QED  BY <2>1, <2>2 DEF TurnPassed
<1>5. \A k \in DOMAIN steps: steps[k].op = "complete" /\ steps[k].item = i => provider.of[i] # 0
  <2> TAKE k \in DOMAIN steps
  <2>1. StepFits(steps[k]) /\ steps[k] \in Todo  BY DEF Core, Todos, Typed
  <2>2. steps[k].turn # 0  BY <2>1 DEF Todo, Turns
  <2> QED  BY <2>1, <2>2 DEF StepFits, ItemOps
<1>6. NothingMore(i) => provider.of[i] # 0  BY DEF NothingMore
<1>7. \A k \in DOMAIN steps: steps[k].op = "complete" /\ steps[k].item = i =>
        /\ thread.completions[i] = 0
        /\ \/ TurnPassed(provider.of[i])'
           \/ HasAfter(steps, k, "forget", i) /\ Len(steps) = k + 1
  BY <1>2, <1>4, <1>5 DEF Completing
<1>8. thread.completions[i] = 1 =>
        /\ NothingMore(i)'
        /\ \/ \A t \in Turns: i \notin caches.ids[t]
           \/ Has(steps, "forget", i) /\ Len(steps) = 1
           \/ failing
           \/ TurnPassed(provider.of[i])'
  BY <1>2, <1>3, <1>4, <1>6 DEF Completing
<1> QED  BY <1>1, <1>2, <1>7, <1>8 DEF Completing, Has, HasAfter

LEMMA TakenKeepsCompleted ==
  ASSUME Core, CompletedInv, NEW e, Taken(e) PROVE CompletedInv'
<1>1. /\ UNCHANGED <<provider, caches, thread>> /\ ~failing /\ Fits(steps', e) /\ steps = <<>>
      /\ DOMAIN <<>> = {} /\ caches \in Caches /\ thread \in Thread
  BY EmptySeq DEF Core, Typed, Taken
<1>2. /\ e \in Event /\ EventFits(e) /\ e.turn \in Turns /\ e.turn \in Nat \ {0}
      /\ 1 \in DOMAIN events /\ e = events[1]
      /\ \A k \in DOMAIN events': k + 1 \in DOMAIN events /\ events'[k] = events[k + 1]
  BY RestOfEvents DEF Taken
<1>3. Todos' /\ Core'  BY TakenKeepsCore DEF Core
<1> SUFFICES ASSUME NEW i \in Message PROVE Completing(i)'
  BY DEF CompletedInv
<1>4. Completing(i) /\ thread.completions[i] \in {0, 1}  BY DEF CompletedInv, Completing
<1>5. thread.completions[i] = 1 =>
        /\ NothingMore(i) /\ e.item # i
        /\ (\A t \in Turns: i \notin caches.ids[t]) \/ TurnPassed(provider.of[i])
  BY <1>1, <1>2, <1>4 DEF Completing, NothingMore, Has
<1>6. TurnPassed(provider.of[i]) => TurnPassed(provider.of[i])' /\ provider.of[i] # e.turn
  BY <1>1, <1>2 DEF TurnPassed
<1>7. NothingMore(i) => NothingMore(i)'  BY <1>1, <1>2 DEF NothingMore
<1>8. ASSUME NEW k \in DOMAIN steps', steps'[k].op = "complete", steps'[k].item = i
      PROVE  /\ thread.completions[i] = 0
             /\ \/ TurnPassed(provider.of[i])'
                \/ HasAfter(steps', k, "forget", i) /\ Len(steps') = k + 1
  <2>1. \/ e.type = "item.completed" /\ e.item = i
        \/ e.type = "turn.completed" /\ i \in caches.ids[e.turn]
    BY <1>1, <1>8 DEF Fits
  <2>2. CASE e.type = "item.completed" /\ e.item = i
    <3>1. thread.completions[i] = 0  BY <1>4, <1>5, <2>2
    <3>2. HasAfter(steps', k, "forget", i) /\ Len(steps') = k + 1
      BY <1>1, <1>8, <2>2 DEF Fits
    <3> QED  BY <3>1, <3>2
  <2>3. CASE e.type = "turn.completed" /\ i \in caches.ids[e.turn]
    <3>1. provider.of[i] = e.turn  BY <1>2, <2>3 DEF Core, IdsOf
    <3>2. thread.completions[i] = 0  BY <1>2, <1>4, <1>5, <1>6, <2>3, <3>1
    <3>3. PICK m \in DOMAIN steps': steps'[m].op = "clear" /\ steps'[m].turn = e.turn
      BY <1>1, <2>3 DEF Fits
    <3>4. TurnPassed(e.turn)'
      <4>1. StepFits(steps[m])'  BY <1>3, <3>3 DEF Todos
      <4> QED  BY <3>3, <4>1 DEF StepFits, TurnPassed
    <3> QED  BY <1>1, <3>1, <3>2, <3>4 DEF TurnPassed
  <2> QED  BY <2>1, <2>2, <2>3
<1>9. \A j, k \in DOMAIN steps':
        /\ steps'[j].op = "complete" /\ steps'[j].item = i
        /\ steps'[k].op = "complete" /\ steps'[k].item = i
        => j = k
  BY <1>1 DEF Fits
<1>10. thread.completions[i] = 1 => ~Has(steps', "delta", i) /\ ~Has(steps', "remember", i)
  BY <1>1, <1>5 DEF Fits, Has
<1> QED
  BY <1>1, <1>4, <1>5, <1>6, <1>7, <1>8, <1>9, <1>10 DEF Completing, Has, HasAfter

LEMMA HandledKeepsCompleted ==
  ASSUME Core, CompletedInv, NEW o, Handled(o) PROVE CompletedInv'
<1>1. /\ UNCHANGED <<provider, events, failing>> /\ o \in Todo /\ StepFits(o) /\ o = steps[1]
      /\ IdsAfter(o) /\ CompletionsAfter(o) /\ caches.ids \in [Turns -> SUBSET Message]
      /\ thread.completions \in [Message -> Nat]
  BY DEF Core, Typed, Caches, Thread, Handled, Popped, vars, worker
<1>2. /\ 1 \in DOMAIN steps /\ steps' \in Seq(Todo)
      /\ DOMAIN steps \subseteq Nat \ {0} /\ DOMAIN steps' \subseteq Nat \ {0}
      /\ \A k \in DOMAIN steps': k + 1 \in DOMAIN steps /\ steps'[k] = steps[k + 1]
      /\ Len(steps) \in Nat /\ (Len(steps) = 1 => steps' = <<>> /\ DOMAIN steps' = {})
      /\ Succeeds => /\ Len(steps') = Len(steps) - 1
                     /\ \A k \in DOMAIN steps: k = 1 \/ (k - 1 \in DOMAIN steps' /\ steps[k] = steps'[k - 1])
      /\ o.op = "delta" \/ o.op = "activity" => Len(steps) = 1
      /\ o.turn \in Turns
  BY RestOfSteps
<1>3. ~Succeeds => steps' = <<>> /\ DOMAIN steps' = {}
  <2>1. DOMAIN <<>> = {}  BY EmptySeq
  <2> QED  BY <2>1 DEF Handled, Popped, Succeeds
<1> SUFFICES ASSUME NEW i \in Message PROVE Completing(i)'
  BY DEF CompletedInv
<1>4. Completing(i) /\ i \in Item /\ thread.completions[i] \in {0, 1}
  BY DEF CompletedInv, Completing, Item
<1>5. /\ TurnPassed(provider.of[i]) => TurnPassed(provider.of[i])'
      /\ NothingMore(i) => NothingMore(i)'
  BY <1>1 DEF TurnPassed, NothingMore
<1>6. \A op: ~Has(steps, op, i) => ~Has(steps', op, i)  BY <1>2 DEF Has
<1>7. \A j, k \in DOMAIN steps':
        /\ steps'[j].op = "complete" /\ steps'[j].item = i
        /\ steps'[k].op = "complete" /\ steps'[k].item = i
        => j = k
  <2> SUFFICES ASSUME NEW j \in DOMAIN steps', NEW k \in DOMAIN steps',
                      steps'[j].op = "complete" /\ steps'[j].item = i,
                      steps'[k].op = "complete" /\ steps'[k].item = i
               PROVE  j = k
    OBVIOUS
  <2>1. j + 1 = k + 1  BY <1>2, <1>4 DEF Completing
  <2>2. j \in Nat /\ k \in Nat  BY <1>2
  <2> QED  BY <2>1, <2>2
<1>8. ASSUME NEW k \in DOMAIN steps', steps'[k].op = "complete", steps'[k].item = i
      PROVE  /\ thread'.completions[i] = 0
             /\ \/ TurnPassed(provider.of[i])'
                \/ HasAfter(steps', k, "forget", i) /\ Len(steps') = k + 1
  <2>1. /\ k + 1 \in DOMAIN steps /\ steps[k + 1].op = "complete" /\ steps[k + 1].item = i
        /\ k \in Nat \ {0} /\ Succeeds
    BY <1>2, <1>3, <1>8
  <2>2. ~(o.op = "complete" /\ o.item = i)
    <3>1. k + 1 # 1  BY <2>1
    <3> QED  BY <1>1, <1>2, <1>4, <2>1, <3>1 DEF Completing
  <2>3. thread.completions[i] = 0  BY <1>4, <2>1 DEF Completing
  <2>4. thread'.completions[i] = thread.completions[i]
    BY <1>1, <2>2 DEF CompletionsAfter
  <2>5. CASE HasAfter(steps, k + 1, "forget", i) /\ Len(steps) = (k + 1) + 1
    <3>1. PICK j \in DOMAIN steps: j > k + 1 /\ steps[j].op = "forget" /\ steps[j].item = i
      BY <2>5 DEF HasAfter
    <3>2. j - 1 \in DOMAIN steps' /\ steps[j] = steps'[j - 1] /\ j - 1 > k
      BY <1>2, <2>1, <3>1
    <3>3. Len(steps') = k + 1  BY <1>2, <2>1, <2>5
    <3> QED  BY <2>3, <2>4, <3>1, <3>2, <3>3 DEF HasAfter
  <2>6. TurnPassed(provider.of[i]) \/ (HasAfter(steps, k + 1, "forget", i) /\ Len(steps) = (k + 1) + 1)
    BY <1>4, <2>1 DEF Completing
  <2> QED  BY <1>5, <2>3, <2>4, <2>5, <2>6
<1>9. CASE o.op = "complete" /\ o.item = i /\ Succeeds
  <2>1. thread.completions[i] = 0 /\ thread'.completions[i] = 1 /\ NothingMore(i)
        /\ caches'.ids = caches.ids
    <3>1. thread.completions[i] = 0  BY <1>1, <1>2, <1>4, <1>9 DEF Completing
    <3>2. thread'.completions = [thread.completions EXCEPT ![i] = thread.completions[i] + 1]
      BY <1>1, <1>9 DEF CompletionsAfter
    <3>3. NothingMore(i)  BY <1>1, <1>9 DEF StepFits
    <3>4. caches'.ids = caches.ids  BY <1>1, <1>9 DEF IdsAfter
    <3> QED  BY <1>1, <3>1, <3>2, <3>3, <3>4
  <2>2. ~Has(steps', "delta", i) /\ ~Has(steps', "remember", i)
    <3> SUFFICES ASSUME NEW k \in DOMAIN steps', steps'[k].op \in {"delta", "remember"}
                 PROVE  FALSE
      BY DEF Has
    <3>1. k + 1 \in DOMAIN steps /\ steps[k + 1] = steps'[k] /\ k + 1 # 1  BY <1>2
    <3>2. StepFits(steps[k + 1]) /\ (steps[k + 1].op = "remember" => k + 1 = 1)
      BY <3>1 DEF Core, Todos
    <3>3. Len(steps) # 1  BY <1>2
    <3> QED  BY <3>1, <3>2, <3>3 DEF StepFits
  <2>3. TurnPassed(provider.of[i]) \/ (HasAfter(steps, 1, "forget", i) /\ Len(steps) = 1 + 1)
    BY <1>1, <1>2, <1>4, <1>9 DEF Completing
  <2>4. CASE HasAfter(steps, 1, "forget", i) /\ Len(steps) = 1 + 1
    <3>1. PICK j \in DOMAIN steps: j > 1 /\ steps[j].op = "forget" /\ steps[j].item = i
      BY <2>4 DEF HasAfter
    <3>2. j - 1 \in DOMAIN steps' /\ steps[j] = steps'[j - 1]  BY <1>2, <1>9, <3>1
    <3>3. Len(steps') = 1  BY <1>2, <1>9, <2>4
    <3>4. Has(steps', "forget", i)  BY <3>1, <3>2 DEF Has
    <3> QED
      BY <1>5, <1>7, <1>8, <2>1, <2>2, <3>3, <3>4 DEF Completing, Has, HasAfter
  <2> QED
    BY <1>5, <1>7, <1>8, <2>1, <2>2, <2>3, <2>4 DEF Completing, Has, HasAfter
<1>10. CASE ~(o.op = "complete" /\ o.item = i /\ Succeeds)
  <2>1. thread'.completions[i] = thread.completions[i]
    BY <1>1, <1>10 DEF CompletionsAfter
  <2>2. ASSUME thread.completions[i] = 1
        PROVE  \/ \A t \in Turns: i \notin caches'.ids[t]
               \/ failing'
               \/ TurnPassed(provider.of[i])'
    <3>1. ~(o.op \in {"delta", "remember"} /\ o.item = i)
      BY <1>1, <1>2, <1>4, <2>2 DEF Completing, Has
    <3>2. \A t \in Turns: i \notin caches.ids[t] => i \notin caches'.ids[t]
      <4> TAKE t \in Turns
      <4>1. CASE o.op \in {"delta", "remember"}
        <5>1. caches'.ids = [caches.ids EXCEPT ![o.turn] = caches.ids[o.turn] \union {o.item}]
          BY <1>1, <4>1 DEF IdsAfter
        <5> QED  BY <1>1, <1>2, <3>1, <4>1, <5>1
      <4>2. CASE o.op = "forget"
        <5>1. caches'.ids = [caches.ids EXCEPT ![o.turn] = caches.ids[o.turn] \ {o.item}]
          BY <1>1, <4>2 DEF IdsAfter
        <5> QED  BY <1>1, <1>2, <5>1
      <4>3. CASE o.op = "clear" \/ o.op = "exit"  BY <1>1, <1>2, <4>3 DEF IdsAfter
      <4>4. CASE o.op \notin {"delta", "remember", "forget", "clear", "exit"}
        BY <1>1, <4>4 DEF IdsAfter
      <4> QED  BY <4>1, <4>2, <4>3, <4>4
    <3>3. CASE Has(steps, "forget", i) /\ Len(steps) = 1
      <4>1. o.op = "forget" /\ o.item = i
        <5>1. PICK k \in DOMAIN steps: steps[k].op = "forget" /\ steps[k].item = i
          BY <3>3 DEF Has
        <5>2. DOMAIN steps = 1 .. Len(steps)  BY LenProperties DEF Core, Typed
        <5>3. k = 1  BY <3>3, <5>1, <5>2
        <5> QED  BY <1>1, <5>1, <5>3
      <4>2. caches'.ids = [caches.ids EXCEPT ![o.turn] = caches.ids[o.turn] \ {i}]
        BY <1>1, <4>1 DEF IdsAfter
      <4>3. provider.of[i] = o.turn  BY <1>1, <4>1 DEF StepFits, ItemOps
      <4>4. \A t \in Turns: i \in caches.ids[t] => t = o.turn
        BY <4>3 DEF Core, IdsOf
      <4> QED  BY <1>1, <1>2, <4>2, <4>4
    <3> QED  BY <1>1, <1>4, <1>5, <2>2, <3>2, <3>3 DEF Completing
  <2>3. thread.completions[i] = 1 =>
          NothingMore(i) /\ ~Has(steps, "delta", i) /\ ~Has(steps, "remember", i)
    BY <1>4 DEF Completing
  <2>4. thread'.completions[i] = 1 =>
          /\ NothingMore(i)' /\ ~Has(steps', "delta", i) /\ ~Has(steps', "remember", i)
          /\ \/ \A t \in Turns: i \notin caches'.ids[t]
             \/ failing'
             \/ TurnPassed(provider.of[i])'
    BY <1>5, <1>6, <2>1, <2>2, <2>3
  <2> QED
    BY <1>4, <1>7, <1>8, <2>1, <2>4 DEF Completing, Has, HasAfter
<1> QED  BY <1>9, <1>10

LEMMA QuietKeepsCompleted == ASSUME Core, CompletedInv, Quiet PROVE CompletedInv'
<1>1. UNCHANGED <<events, provider, caches, thread>> /\ (failing => failing')
  BY DEF Quiet
<1> SUFFICES ASSUME NEW i \in Message PROVE Completing(i)'
  BY DEF CompletedInv
<1>2. Completing(i)  BY DEF CompletedInv
<1>3. CASE steps' = steps
  BY <1>1, <1>2, <1>3 DEF Completing, NothingMore, TurnPassed, Has, HasAfter
<1>4. CASE steps' = <<>> /\ failing'
  <2>1. DOMAIN steps' = {}  BY <1>4, EmptySeq
  <2> QED  BY <1>1, <1>2, <1>4, <2>1 DEF Completing, NothingMore, Has
<1> QED  BY <1>3, <1>4 DEF Quiet

LEMMA CompletedInitInv == IngestionInit => CompletedInv
<1> SUFFICES ASSUME IngestionInit, NEW i \in Message PROVE Completing(i)
  BY DEF CompletedInv
<1>1. steps = <<>> /\ DOMAIN <<>> = {} /\ thread.completions[i] = 0
  BY EmptySeq DEF IngestionInit
<1> QED  BY <1>1 DEF Completing

(* An assistant message is completed once, whether by the end of its item or *)
(* by the end of its turn, whatever fails and whenever the worker ends.      *)
THEOREM MessagesAreCompletedOnce == IngestionSpec => []CompletedOnce
<1>1. IngestionInit => IngestionInv /\ CompletedInv
  BY IngestionInitInv, CompletedInitInv
<1>2. IngestionInv /\ CompletedInv /\ [IngestionNext]_ingestionVars => (IngestionInv /\ CompletedInv)'
  BY IngestionStepInv, StepKinds, EmittedKeepsCompleted, TakenKeepsCompleted,
     HandledKeepsCompleted, QuietKeepsCompleted DEF IngestionInv
<1>3. IngestionInv /\ CompletedInv => CompletedOnce
  <2> SUFFICES ASSUME CompletedInv, NEW i \in Message PROVE thread.completions[i] <= 1
    BY DEF CompletedOnce
  <2>1. thread.completions[i] \in {0, 1}  BY DEF CompletedInv, Completing
  <2> QED  BY <2>1
<1> QED  BY <1>1, <1>2, <1>3, PTL DEF IngestionSpec

(************************** Buffers are released *************************)
(* While no dispatch failed and the worker lives: what the caches hold of a  *)
(* turn is released, by the end of the turn or session that is still to come *)
(* or by a step that is left of the one in hand.                             *)
Live == count.failures = 0 /\ ~failing
EndComing(t) == \/ provider.turn = t
                \/ \E k \in DOMAIN events: events[k].type \in Ends /\ events[k].turn = t
Clears(op, t) == \E k \in DOMAIN steps: steps[k].op \in {"exit", op} /\ steps[k].turn = t

BuffersRemembered ==
  \A i \in Message: caches.buffer[i] # <<>> => \E t \in Turns: i \in caches.ids[t]
IdsReleased   == \A t \in Turns: caches.ids[t] # {} => EndComing(t) \/ Clears("clear", t)
PlansReleased == \A t \in Turns: caches.plan[t] # <<>> => EndComing(t) \/ Clears("plan", t)
EndsComing ==
  /\ \A k \in DOMAIN steps: steps[k].op \in {"delta", "remember", "propose"} => EndComing(steps[k].turn)
  /\ \A k \in DOMAIN events: EndComing(events[k].turn)
FlushedFirst == \A k \in DOMAIN steps: \A i \in Message:
  /\ caches.buffer[i] # <<>>
  /\ \/ steps[k].op = "clear" /\ i \in caches.ids[steps[k].turn]
     \/ steps[k].op = "forget" /\ i = steps[k].item
  => HasBefore(steps, k, "flush", i)

Releasing == BuffersRemembered /\ IdsReleased /\ PlansReleased /\ EndsComing /\ FlushedFirst
ReleaseInv == Live => Releasing

LEMMA EmittedKeepsReleased ==
  ASSUME Core, ReleaseInv, NEW e, Emitted(e) PROVE ReleaseInv'
<1> SUFFICES ASSUME Live' PROVE Releasing'
  BY DEF ReleaseInv
<1>1. /\ UNCHANGED <<steps, caches, thread, failing>> /\ Releasing
      /\ events \in Seq(Event) /\ events' = Append(events, e)
      /\ provider'.turn = IF e.type \in Ends THEN 0 ELSE e.turn
      /\ provider.turn # 0 => e.turn = provider.turn
      /\ provider.turn \in {0, provider.turns}
  BY DEF Emitted, ReleaseInv, Live, Core, Typed
<1>2. e \in Event /\ e.turn \in Turns /\ e.turn # 0  BY PastStays
<1>3. /\ DOMAIN events' = 1 .. Len(events) + 1 /\ DOMAIN events = 1 .. Len(events)
      /\ Len(events) \in Nat /\ events'[Len(events) + 1] = e
      /\ \A k \in DOMAIN events: events'[k] = events[k]
  BY <1>1, <1>2, AppendElements
<1>4. Len(events) + 1 \in DOMAIN events' /\ DOMAIN events \subseteq DOMAIN events'  BY <1>3
<1>5. ASSUME NEW t, t # 0, EndComing(t) PROVE EndComing(t)'
  <2>1. CASE provider.turn = t
    <3>1. e.turn = t  BY <1>1, <1>5, <2>1
    <3> QED  BY <1>1, <1>3, <1>4, <3>1 DEF EndComing
  <2>2. CASE provider.turn # t
    <3>1. PICK k \in DOMAIN events: events[k].type \in Ends /\ events[k].turn = t
      BY <1>5, <2>2 DEF EndComing
    <3> QED  BY <1>3, <1>4, <3>1 DEF EndComing
  <2> QED  BY <2>1, <2>2
<1>6. EndComing(e.turn)'
  <2>1. PICK t: t = e.turn  OBVIOUS
  <2>2. EndComing(t)'  BY <1>1, <1>3, <1>4, <2>1 DEF EndComing
  <2> QED  BY <2>1, <2>2 DEF EndComing
<1>7. IdsReleased' /\ PlansReleased' /\ BuffersRemembered'
  <2>1. \A t \in Turns: t # 0  BY DEF Turns
  <2>2. \A t \in Turns: EndComing(t) => EndComing(t)'  BY <1>5, <2>1
  <2>3. \A t \in Turns: (Clears("clear", t) => Clears("clear", t)')
                        /\ (Clears("plan", t) => Clears("plan", t)')
    BY <1>1 DEF Clears
  <2> QED  BY <1>1, <2>2, <2>3 DEF Releasing, IdsReleased, PlansReleased, BuffersRemembered
<1>8. EndsComing'
  <2>1. ASSUME NEW k \in DOMAIN steps, steps[k].op \in {"delta", "remember", "propose"}
        PROVE  EndComing(steps[k].turn)'
    <3>1. PICK t: t = steps[k].turn  OBVIOUS
    <3>2. steps[k] \in Todo /\ EndComing(t)
      BY <1>1, <2>1, <3>1 DEF Core, Typed, Releasing, EndsComing
    <3>3. t # 0  BY <3>1, <3>2 DEF Todo, Turns
    <3>4. EndComing(t)'  BY <1>5, <3>2, <3>3
    <3> QED  BY <1>1, <3>1, <3>4 DEF EndComing
  <2>2. ASSUME NEW k \in DOMAIN events' PROVE EndComing(events[k].turn)'
    <3>1. CASE k \in DOMAIN events
      <4>1. PICK t: t = events[k].turn /\ t = events'[k].turn  BY <1>3, <3>1
      <4>2. events[k] \in Event /\ EndComing(t)
        BY <1>1, <3>1, <4>1 DEF Releasing, EndsComing
      <4>3. t \in Turns  BY <4>1, <4>2 DEF Event
      <4>4. EndComing(t)'  BY <1>5, <4>2, <4>3 DEF Turns
      <4> QED  BY <4>1, <4>4 DEF EndComing
    <3>2. CASE k = Len(events) + 1
      <4>1. events'[k] = e  BY <1>3, <3>2
      <4> QED  BY <1>6, <4>1 DEF EndComing
    <3> QED  BY <1>3, <3>1, <3>2
  <2> QED  BY <1>1, <2>1, <2>2 DEF EndsComing
<1>9. FlushedFirst'  BY <1>1 DEF Releasing, FlushedFirst, HasBefore
<1> QED  BY <1>7, <1>8, <1>9 DEF Releasing

LEMMA TakenKeepsReleased ==
  ASSUME Core, ReleaseInv, NEW e, Taken(e) PROVE ReleaseInv'
<1> SUFFICES ASSUME Live' PROVE Releasing'
  BY DEF ReleaseInv
<1>1. /\ UNCHANGED <<provider, caches, failing, count>> /\ Releasing /\ e = events[1]
      /\ steps = <<>> /\ DOMAIN steps = {} /\ Fits(steps', e)
  BY EmptySeq DEF Taken, ReleaseInv, Live
<1>2. /\ e \in Event /\ EventFits(e) /\ e.turn \in Turns /\ e.turn # 0 /\ 1 \in DOMAIN events
      /\ \A k \in DOMAIN events': k + 1 \in DOMAIN events /\ events'[k] = events[k + 1]
      /\ \A k \in DOMAIN events': Precedes(e, events'[k]) /\ EventFits(events'[k])
      /\ \A k \in DOMAIN events: k = 1 \/ (k - 1 \in DOMAIN events' /\ events[k] = events'[k - 1])
  BY RestOfEvents
<1>3. ASSUME NEW t, EndComing(t), ~(e.type \in Ends /\ e.turn = t) PROVE EndComing(t)'
  <2>1. CASE provider.turn = t  BY <1>1, <2>1 DEF EndComing
  <2>2. CASE provider.turn # t
    <3>1. PICK k \in DOMAIN events: events[k].type \in Ends /\ events[k].turn = t
      BY <1>3, <2>2 DEF EndComing
    <3>2. k # 1  BY <1>1, <1>3, <3>1
    <3>3. k - 1 \in DOMAIN events' /\ events[k] = events'[k - 1]  BY <1>2, <3>1, <3>2
    <3> QED  BY <3>1, <3>3 DEF EndComing
  <2> QED  BY <2>1, <2>2
<1>4. e.type \in Ends => Clears("clear", e.turn)' /\ Clears("plan", e.turn)'
  <2>1. CASE e.type = "turn.completed"
    <3>1. \A k \in DOMAIN steps': steps'[k].turn = e.turn  BY <1>1 DEF Fits
    <3>2. \E k \in DOMAIN steps': steps'[k].op = "clear"  BY <1>1, <2>1 DEF Fits
    <3>3. \E k \in DOMAIN steps': steps'[k].op = "plan"  BY <1>1, <2>1 DEF Fits
    <3> QED  BY <3>1, <3>2, <3>3 DEF Clears
  <2>2. CASE e.type = "session.exited"
    <3>1. \A k \in DOMAIN steps': steps'[k].turn = e.turn  BY <1>1 DEF Fits
    <3>2. \E k \in DOMAIN steps': steps'[k].op = "exit"  BY <1>1, <2>2 DEF Fits
    <3> QED  BY <3>1, <3>2 DEF Clears
  <2> QED  BY <2>1, <2>2 DEF Ends
<1>5. \A t \in Turns: EndComing(t) => EndComing(t)' \/ (Clears("clear", t)' /\ Clears("plan", t)')
  <2> TAKE t \in Turns
  <2>1. CASE e.type \in Ends /\ e.turn = t
    <3>1. Clears("clear", t)' /\ Clears("plan", t)'  BY <1>4, <2>1 DEF Clears
    <3> QED  BY <3>1
  <2> QED  BY <1>3, <2>1
<1>6. \A t \in Turns: ~Clears("clear", t) /\ ~Clears("plan", t)  BY <1>1 DEF Clears
<1>7. IdsReleased' /\ PlansReleased' /\ BuffersRemembered'
  BY <1>1, <1>5, <1>6 DEF Releasing, IdsReleased, PlansReleased, BuffersRemembered
<1>8. ASSUME e.type \notin Ends PROVE EndComing(e.turn)'
  <2>1. PICK t: t = e.turn  OBVIOUS
  <2>2. EndComing(t)  BY <1>1, <1>2, <2>1 DEF Releasing, EndsComing
  <2>3. EndComing(t)'  BY <1>3, <1>8, <2>2
  <2> QED  BY <2>1, <2>3 DEF EndComing
<1>9. EndsComing'
  <2>1. ASSUME NEW k \in DOMAIN steps', steps'[k].op \in {"delta", "remember", "propose"}
        PROVE  EndComing(steps[k].turn)'
    <3>1. /\ steps'[k].turn = e.turn
          /\ e.type \in {"content.delta", "item.completed", "turn.proposed.delta"}
      BY <1>1, <2>1 DEF Fits
    <3>2. e.type \notin Ends  BY <3>1 DEF Ends
    <3> QED  BY <1>8, <3>1, <3>2 DEF EndComing
  <2>2. ASSUME NEW k \in DOMAIN events' PROVE EndComing(events[k].turn)'
    <3>1. PICK t: t = events'[k].turn  OBVIOUS
    <3>2. EndComing(t)  BY <1>1, <1>2, <3>1 DEF Releasing, EndsComing
    <3>3. ~(e.type \in Ends /\ e.turn = t)
      <4>1. Precedes(e, events'[k]) /\ t \in Turns
        BY <1>2, <3>1 DEF EventFits, Wellformed, Event
      <4> QED  BY <1>2, <3>1, <4>1 DEF Precedes, Turns
    <3>4. EndComing(t)'  BY <1>3, <3>2, <3>3
    <3> QED  BY <3>1, <3>4 DEF EndComing
  <2> QED  BY <2>1, <2>2 DEF EndsComing
<1>10. FlushedFirst'
  <2> SUFFICES ASSUME NEW k \in DOMAIN steps', NEW i \in Message,
                      \/ steps'[k].op = "clear" /\ i \in caches.ids[steps'[k].turn]
                      \/ steps'[k].op = "forget" /\ i = steps'[k].item
               PROVE  HasBefore(steps', k, "flush", i)
    BY <1>1 DEF FlushedFirst, HasBefore
  <2> QED  BY <1>1 DEF Fits
<1> QED  BY <1>7, <1>9, <1>10 DEF Releasing

LEMMA HandledKeepsReleased ==
  ASSUME Core, ReleaseInv, NEW o, Handled(o) PROVE ReleaseInv'
<1> SUFFICES ASSUME Live' PROVE Releasing'
  BY DEF ReleaseInv
<1>1. /\ UNCHANGED <<provider, events, failing>> /\ o \in Todo /\ StepFits(o) /\ o = steps[1]
      /\ IdsAfter(o) /\ BufferAfter(o) /\ PlanAfter(o) /\ caches.ids \in [Turns -> SUBSET Message]
      /\ caches.buffer \in [Message -> Seq(Nat)] /\ caches.plan \in [Turns -> Seq(Nat)]
      /\ count \in [Troubles -> Nat]
  BY DEF Core, Typed, Caches, Thread, Handled, Popped, vars, worker
<1>2. /\ 1 \in DOMAIN steps /\ steps' \in Seq(Todo)
      /\ DOMAIN steps \subseteq Nat \ {0} /\ DOMAIN steps' \subseteq Nat \ {0}
      /\ \A k \in DOMAIN steps': k + 1 \in DOMAIN steps /\ steps'[k] = steps[k + 1]
      /\ Len(steps) \in Nat /\ (Len(steps) = 1 => steps' = <<>> /\ DOMAIN steps' = {})
      /\ Succeeds => /\ Len(steps') = Len(steps) - 1
                     /\ \A k \in DOMAIN steps: k = 1 \/ (k - 1 \in DOMAIN steps' /\ steps[k] = steps'[k - 1])
      /\ o.op = "delta" \/ o.op = "activity" => Len(steps) = 1
      /\ o.turn \in Turns
      /\ count'.failures = count.failures => Succeeds
  BY RestOfSteps
<1>3. Succeeds /\ Releasing
  <2>1. count.failures \in Nat /\ count'.failures = 0  BY <1>1 DEF Live, Troubles
  <2>2. count'.failures = count.failures \/ count'.failures = count.failures + 1
    BY DEF Handled, Popped
  <2>3. count.failures = 0  BY <2>1, <2>2
  <2> QED  BY <1>1, <1>2, <2>1, <2>3 DEF ReleaseInv, Live
<1>4. \A k \in DOMAIN steps: k = 1 \/ (k - 1 \in DOMAIN steps' /\ steps[k] = steps'[k - 1])
  BY <1>2, <1>3
<1>5. \A t: EndComing(t) <=> EndComing(t)'  BY <1>1 DEF EndComing
<1>6. ASSUME NEW op, NEW t, Clears(op, t)
      PROVE  Clears(op, t)' \/ o.op = "exit" \/ (o.op = op /\ o.turn = t)
  <2>1. PICK k \in DOMAIN steps: steps[k].op \in {"exit", op} /\ steps[k].turn = t
    BY <1>6 DEF Clears
  <2>2. CASE k = 1  BY <1>1, <2>1, <2>2
  <2>3. CASE k # 1
    <3>1. k - 1 \in DOMAIN steps' /\ steps[k] = steps'[k - 1]  BY <1>4, <2>3
    <3> QED  BY <2>1, <3>1 DEF Clears
  <2> QED  BY <2>2, <2>3
<1>7. o.op \in {"delta", "remember", "propose"} => EndComing(o.turn)
  BY <1>1, <1>2, <1>3 DEF Releasing, EndsComing
<1>8. \A t \in Turns, i \in Message: i \in caches'.ids[t] =>
        \/ i \in caches.ids[t]
        \/ o.op \in {"delta", "remember"} /\ t = o.turn /\ i = o.item
  <2>1. CASE o.op \in {"delta", "remember"}
    <3>1. caches'.ids = [caches.ids EXCEPT ![o.turn] = caches.ids[o.turn] \union {o.item}]
      BY <1>1, <2>1 DEF IdsAfter
    <3> QED  BY <1>1, <1>2, <2>1, <3>1
  <2>2. CASE o.op = "forget"
    <3>1. caches'.ids = [caches.ids EXCEPT ![o.turn] = caches.ids[o.turn] \ {o.item}]
      BY <1>1, <2>2 DEF IdsAfter
    <3> QED  BY <1>1, <1>2, <3>1
  <2>3. CASE o.op = "clear" \/ o.op = "exit"  BY <1>1, <1>2, <2>3 DEF IdsAfter
  <2>4. CASE o.op \notin {"delta", "remember", "forget", "clear", "exit"}
    BY <1>1, <2>4 DEF IdsAfter
  <2> QED  BY <2>1, <2>2, <2>3, <2>4
<1>9. IdsReleased'
  <2> SUFFICES ASSUME NEW t \in Turns, caches'.ids[t] # {}
               PROVE  EndComing(t)' \/ Clears("clear", t)'
    BY DEF IdsReleased
  <2>1. o.op # "exit" /\ ~(o.op = "clear" /\ o.turn = t)
    <3>1. CASE o.op = "exit"  BY <1>1, <3>1 DEF IdsAfter
    <3>2. CASE o.op = "clear" /\ o.turn = t
      <4>1. caches'.ids = [caches.ids EXCEPT ![t] = {}]  BY <1>1, <3>2 DEF IdsAfter
      <4> QED  BY <1>1, <4>1
    <3> QED  BY <3>1, <3>2
  <2>2. CASE caches.ids[t] # {}
    <3>1. EndComing(t) \/ Clears("clear", t)  BY <1>3, <2>2 DEF Releasing, IdsReleased
    <3> QED  BY <1>5, <1>6, <2>1, <3>1
  <2>3. CASE caches.ids[t] = {}
    <3>1. o.op \in {"delta", "remember"} /\ t = o.turn  BY <1>1, <1>2, <2>3 DEF IdsAfter
    <3> QED  BY <1>5, <1>7, <3>1
  <2> QED  BY <2>2, <2>3
<1>10. PlansReleased'
  <2> SUFFICES ASSUME NEW t \in Turns, caches'.plan[t] # <<>>
               PROVE  EndComing(t)' \/ Clears("plan", t)'
    BY DEF PlansReleased
  <2>1. o.op # "exit" /\ ~(o.op = "plan" /\ o.turn = t)
    BY <1>1, <1>2 DEF PlanAfter
  <2>2. CASE caches.plan[t] # <<>>
    <3>1. EndComing(t) \/ Clears("plan", t)  BY <1>3, <2>2 DEF Releasing, PlansReleased
    <3> QED  BY <1>5, <1>6, <2>1, <3>1
  <2>3. CASE caches.plan[t] = <<>>
    <3>1. o.op = "propose" /\ t = o.turn  BY <1>1, <1>2, <2>3 DEF PlanAfter
    <3> QED  BY <1>5, <1>7, <3>1
  <2> QED  BY <2>2, <2>3
<1>11. EndsComing'
  <2>1. ASSUME NEW k \in DOMAIN steps', steps'[k].op \in {"delta", "remember", "propose"}
        PROVE  EndComing(steps[k].turn)'
    <3>1. k + 1 \in DOMAIN steps /\ steps'[k] = steps[k + 1]  BY <1>2
    <3>2. EndComing(steps[k + 1].turn)  BY <1>3, <2>1, <3>1 DEF Releasing, EndsComing
    <3> QED  BY <1>1, <3>1, <3>2 DEF EndComing
  <2>2. \A k \in DOMAIN events': EndComing(events[k].turn)'
    BY <1>1, <1>3 DEF Releasing, EndsComing, EndComing
  <2> QED  BY <2>1, <2>2 DEF EndsComing
<1>12. ASSUME NEW i \in Message, caches'.buffer[i] # <<>>
       PROVE  /\ caches.buffer[i] # <<>> \/ (o.op = "delta" /\ o.item = i)
              /\ ~(o.op = "flush" /\ o.item = i)
              /\ o.op = "exit" => \A t \in Turns: i \notin caches.ids[t]
  <2>1. CASE o.op = "delta"
    BY <1>1, <1>12, <2>1 DEF BufferAfter
  <2>2. CASE o.op = "flush"  BY <1>1, <1>12, <2>2 DEF BufferAfter
  <2>3. CASE o.op = "exit"  BY <1>1, <1>12, <2>3 DEF BufferAfter
  <2>4. CASE o.op \notin {"delta", "flush", "exit"}  BY <1>1, <1>12, <2>4 DEF BufferAfter
  <2> QED  BY <2>1, <2>2, <2>3, <2>4
<1>13. BuffersRemembered'
  <2> SUFFICES ASSUME NEW i \in Message, caches'.buffer[i] # <<>>
               PROVE  \E t \in Turns: i \in caches'.ids[t]
    BY DEF BuffersRemembered
  <2>1. CASE o.op = "delta" /\ o.item = i
    <3>1. caches'.ids = [caches.ids EXCEPT ![o.turn] = caches.ids[o.turn] \union {i}]
      BY <1>1, <2>1 DEF IdsAfter
    <3> QED  BY <1>1, <1>2, <3>1
  <2>2. CASE ~(o.op = "delta" /\ o.item = i)
    <3>1. caches.buffer[i] # <<>> /\ (o.op = "exit" => \A t \in Turns: i \notin caches.ids[t])
      BY <1>12, <2>2
    <3>2. PICK t \in Turns: i \in caches.ids[t]
      BY <1>3, <3>1 DEF Releasing, BuffersRemembered
    <3>3. o.op # "exit"  BY <3>1, <3>2
    <3>4. \A j, op: ~HasBefore(steps, 1, op, j)  BY <1>2 DEF HasBefore
    <3>5. ~(o.op = "clear" /\ o.turn = t)
      BY <1>1, <1>2, <1>3, <3>1, <3>2, <3>4 DEF Releasing, FlushedFirst
    <3>6. ~(o.op = "forget" /\ o.item = i)
      BY <1>1, <1>2, <1>3, <3>1, <3>2, <3>4 DEF Releasing, FlushedFirst
    <3>7. i \in caches'.ids[t]
      <4>1. CASE o.op \in {"delta", "remember"}
        <5>1. caches'.ids = [caches.ids EXCEPT ![o.turn] = caches.ids[o.turn] \union {o.item}]
          BY <1>1, <4>1 DEF IdsAfter
        <5> QED  BY <1>1, <1>2, <3>2, <5>1
      <4>2. CASE o.op = "forget"
        <5>1. caches'.ids = [caches.ids EXCEPT ![o.turn] = caches.ids[o.turn] \ {o.item}]
          BY <1>1, <4>2 DEF IdsAfter
        <5> QED  BY <1>1, <1>2, <3>2, <3>6, <4>2, <5>1
      <4>3. CASE o.op = "clear"  BY <1>1, <1>2, <3>2, <3>5, <4>3 DEF IdsAfter
      <4>4. CASE o.op \notin {"delta", "remember", "forget", "clear", "exit"}
        BY <1>1, <3>2, <4>4 DEF IdsAfter
      <4> QED  BY <3>3, <4>1, <4>2, <4>3, <4>4
    <3> QED  BY <3>7
  <2> QED  BY <2>1, <2>2
<1>14. FlushedFirst'
  <2> SUFFICES ASSUME NEW k \in DOMAIN steps', NEW i \in Message, caches'.buffer[i] # <<>>,
                      \/ steps'[k].op = "clear" /\ i \in caches'.ids[steps'[k].turn]
                      \/ steps'[k].op = "forget" /\ i = steps'[k].item
               PROVE  HasBefore(steps', k, "flush", i)
    BY DEF FlushedFirst, HasBefore
  <2>1. k + 1 \in DOMAIN steps /\ steps'[k] = steps[k + 1] /\ o.op # "delta" /\ k \in Nat \ {0}
    BY <1>2
  <2>2. caches.buffer[i] # <<>> /\ ~(o.op = "flush" /\ o.item = i)  BY <1>12, <2>1
  <2>3. \/ steps[k + 1].op = "clear" /\ i \in caches.ids[steps[k + 1].turn]
        \/ steps[k + 1].op = "forget" /\ i = steps[k + 1].item
    <3>1. CASE steps'[k].op = "clear" /\ i \in caches'.ids[steps'[k].turn]
      <4>1. PICK t \in Turns: t = steps'[k].turn
        <5>1. steps'[k] \in Todo  BY <1>2
        <5> QED  BY <5>1 DEF Todo
      <4>2. TurnPassed(t)
        <5>1. StepFits(steps[k + 1])  BY <2>1 DEF Core, Todos
        <5> QED  BY <2>1, <3>1, <4>1, <5>1 DEF StepFits
      <4>3. ~EndComing(t)  BY <4>2 DEF EndComing, TurnPassed
      <4>4. i \in caches.ids[t]  BY <1>7, <1>8, <3>1, <4>1, <4>3
      <4> QED  BY <2>1, <3>1, <4>1, <4>4
    <3>2. CASE steps'[k].op = "forget" /\ i = steps'[k].item  BY <2>1, <3>2
    <3> QED  BY <3>1, <3>2
  <2>4. HasBefore(steps, k + 1, "flush", i)
    BY <1>3, <2>1, <2>2, <2>3 DEF Releasing, FlushedFirst
  <2>5. PICK j \in DOMAIN steps: j < k + 1 /\ steps[j].op = "flush" /\ steps[j].item = i
    BY <2>4 DEF HasBefore
  <2>6. j # 1  BY <1>1, <2>2, <2>5
  <2>7. j - 1 \in DOMAIN steps' /\ steps[j] = steps'[j - 1] /\ j - 1 < k
    BY <1>2, <1>4, <2>1, <2>5, <2>6
  <2> QED  BY <2>5, <2>7 DEF HasBefore
<1> QED  BY <1>9, <1>10, <1>11, <1>13, <1>14 DEF Releasing

LEMMA QuietKeepsReleased == ASSUME Core, ReleaseInv, Quiet PROVE ReleaseInv'
<1> SUFFICES ASSUME Live' PROVE Releasing'
  BY DEF ReleaseInv
<1>1. UNCHANGED <<events, provider, caches, thread, steps>> /\ Releasing
  BY DEF Quiet, Live, ReleaseInv
<1> QED
  BY <1>1 DEF Releasing, BuffersRemembered, IdsReleased, PlansReleased, EndsComing, FlushedFirst,
     EndComing, Clears, HasBefore

LEMMA ReleaseInitInv == IngestionInit => ReleaseInv
<1> SUFFICES ASSUME IngestionInit PROVE Releasing
  BY DEF ReleaseInv
<1>1. /\ DOMAIN steps = {} /\ DOMAIN events = {}
      /\ \A i \in Message: caches.buffer[i] = <<>>
      /\ \A t \in Turns: caches.ids[t] = {} /\ caches.plan[t] = <<>>
  BY EmptySeq DEF IngestionInit
<1> QED
  BY <1>1 DEF Releasing, BuffersRemembered, IdsReleased, PlansReleased, EndsComing, FlushedFirst

(* Once the events are handled and no turn runs, the caches are empty, also  *)
(* of a turn that was cut off by its session, if no dispatch failed.         *)
THEOREM CachesAreReleased == IngestionSpec => []BuffersAreReleased
<1>1. IngestionInit => IngestionInv /\ ReleaseInv
  BY IngestionInitInv, ReleaseInitInv
<1>2. IngestionInv /\ ReleaseInv /\ [IngestionNext]_ingestionVars => (IngestionInv /\ ReleaseInv)'
  BY IngestionStepInv, StepKinds, EmittedKeepsReleased, TakenKeepsReleased,
     HandledKeepsReleased, QuietKeepsReleased DEF IngestionInv
<1>3. IngestionInv /\ ReleaseInv => BuffersAreReleased
  <2> SUFFICES ASSUME IngestionInv, ReleaseInv, Done, count.failures = 0, provider.turn = 0
               PROVE  /\ \A i \in Message: caches.buffer[i] = <<>>
                      /\ \A t \in Turns: caches.ids[t] = {} /\ caches.plan[t] = <<>>
    BY DEF BuffersAreReleased
  <2>1. /\ outstanding = 0 /\ phase # "dead" /\ queue \in Seq(Nat) /\ events \in Seq(Event)
        /\ outstanding = Len(queue) + InHand /\ (phase \in {"processing", "ensuring"} <=> current # 0)
        /\ phase \in {"waiting", "processing", "ensuring", "dead"} /\ Busy
    BY DEF IngestionInv, Inv, TypeOK, Places, Core, Typed, Done
  <2>2. Len(queue) = 0 /\ InHand = 0
    <3>1. Len(queue) \in Nat /\ InHand \in {0, 1}  BY <2>1, LenProperties DEF InHand
    <3> QED  BY <2>1, <3>1
  <2>3. phase = "waiting"  BY <2>1, <2>2 DEF InHand
  <2>4. steps = <<>> /\ ~failing  BY <2>1, <2>3 DEF Busy
  <2>5. DOMAIN events = {} /\ DOMAIN steps = {}
    <3>1. Len(events) = 0  BY <2>2 DEF IngestionInv, Aligned
    <3>2. events = <<>>  BY <2>1, <3>1, EmptySeq
    <3> QED  BY <2>4, <3>2, EmptySeq
  <2>6. Releasing  BY <2>4 DEF ReleaseInv, Live
  <2>7. \A t \in Turns: ~EndComing(t) /\ ~Clears("clear", t) /\ ~Clears("plan", t)
    BY <2>5 DEF EndComing, Clears, Turns
  <2>8. \A t \in Turns: caches.ids[t] = {} /\ caches.plan[t] = <<>>
    BY <2>6, <2>7 DEF Releasing, IdsReleased, PlansReleased
  <2> QED  BY <2>6, <2>8 DEF Releasing, BuffersRemembered
<1> QED  BY <1>1, <1>2, <1>3, PTL DEF IngestionSpec

(*************************** Only what was said **************************)
(* Pieces are in order when each is above the ones before it.                *)
Below(s, n)   == \A k \in DOMAIN s: s[k] < n
AtMost(s, n)  == \A k \in DOMAIN s: s[k] <= n
Follows(s, t) == \A k \in DOMAIN t: Below(s, t[k])

LEMMA PiecesOfConcat ==
  ASSUME NEW s \in Seq(Nat), NEW t \in Seq(Nat), NEW r, r = s \o t
  PROVE  /\ r \in Seq(Nat) /\ Len(s) \in Nat
         /\ DOMAIN r \subseteq Nat /\ DOMAIN s \subseteq Nat /\ DOMAIN t \subseteq Nat
         /\ \A k \in DOMAIN r: \/ k \in DOMAIN s /\ r[k] = s[k]
                               \/ /\ k > Len(s) /\ k - Len(s) \in DOMAIN t
                                  /\ r[k] = t[k - Len(s)]
         /\ \A k \in DOMAIN s: k <= Len(s) /\ s[k] \in Nat
         /\ \A k \in DOMAIN t: t[k] \in Nat
<1>1. /\ r \in Seq(Nat) /\ Len(r) = Len(s) + Len(t) /\ Len(s) \in Nat /\ Len(t) \in Nat
      /\ \A k \in 1 .. Len(s): r[k] = s[k]
      /\ \A k \in 1 .. Len(t): r[Len(s) + k] = t[k]
  <2>1. r \in Seq(Nat) /\ Len(r) = Len(s) + Len(t) /\ Len(s) \in Nat /\ Len(t) \in Nat
    BY ConcatElements
  <2>2. \A k \in 1 .. Len(s): r[k] = s[k]  BY ConcatElements
  <2>3. \A k \in 1 .. Len(t): r[Len(s) + k] = t[k]  BY ConcatElements
  <2> QED  BY <2>1, <2>2, <2>3
<1>2. DOMAIN r = 1 .. Len(s) + Len(t) /\ DOMAIN s = 1 .. Len(s) /\ DOMAIN t = 1 .. Len(t)
  BY <1>1, LenProperties
<1>3. ASSUME NEW k \in DOMAIN r, k \notin DOMAIN s
      PROVE  k > Len(s) /\ k - Len(s) \in DOMAIN t /\ r[k] = t[k - Len(s)]
  <2>1. k > Len(s) /\ k - Len(s) \in 1 .. Len(t) /\ Len(s) + (k - Len(s)) = k
    BY <1>1, <1>2, <1>3
  <2> QED  BY <1>1, <1>2, <2>1
<1>4. (\A k \in DOMAIN s: s[k] \in Nat) /\ (\A k \in DOMAIN t: t[k] \in Nat)
  BY ElementOfSeq, <1>2
<1> QED  BY <1>1, <1>2, <1>3, <1>4

LEMMA ConcatOrdered ==
  ASSUME NEW s \in Seq(Nat), NEW t \in Seq(Nat), NEW r, r = s \o t,
         InTheOrderSaid(s), InTheOrderSaid(t), Follows(s, t)
  PROVE  r \in Seq(Nat) /\ InTheOrderSaid(r)
<1>1. /\ r \in Seq(Nat) /\ Len(s) \in Nat
      /\ DOMAIN r \subseteq Nat /\ DOMAIN s \subseteq Nat /\ DOMAIN t \subseteq Nat
      /\ \A k \in DOMAIN r: \/ k \in DOMAIN s /\ r[k] = s[k]
                            \/ /\ k > Len(s) /\ k - Len(s) \in DOMAIN t
                               /\ r[k] = t[k - Len(s)]
      /\ \A k \in DOMAIN s: k <= Len(s)
  BY PiecesOfConcat
<1>2. ASSUME NEW j \in DOMAIN r, NEW k \in DOMAIN r, j < k PROVE r[j] < r[k]
  <2>1. CASE k \in DOMAIN s /\ r[k] = s[k]
    <3>1. j \in DOMAIN s /\ r[j] = s[j]  BY <1>1, <1>2, <2>1
    <3> QED  BY <1>2, <2>1, <3>1 DEF InTheOrderSaid
  <2>2. CASE k > Len(s) /\ k - Len(s) \in DOMAIN t /\ r[k] = t[k - Len(s)]
    <3>1. CASE j \in DOMAIN s /\ r[j] = s[j]  BY <2>2, <3>1 DEF Follows, Below
    <3>2. CASE j > Len(s) /\ j - Len(s) \in DOMAIN t /\ r[j] = t[j - Len(s)]
      <4>1. j - Len(s) < k - Len(s)  BY <1>1, <1>2
      <4> QED  BY <2>2, <3>2, <4>1 DEF InTheOrderSaid
    <3> QED  BY <1>1, <3>1, <3>2
  <2> QED  BY <1>1, <2>1, <2>2
<1> QED  BY <1>1, <1>2 DEF InTheOrderSaid

LEMMA ConcatBelow ==
  ASSUME NEW s \in Seq(Nat), NEW t \in Seq(Nat), NEW r, r = s \o t, NEW n, Below(s, n), Below(t, n)
  PROVE  Below(r, n)
<1>1. \A k \in DOMAIN r: \/ k \in DOMAIN s /\ r[k] = s[k]
                         \/ k - Len(s) \in DOMAIN t /\ r[k] = t[k - Len(s)]
  BY PiecesOfConcat
<1> QED  BY <1>1 DEF Below

LEMMA ConcatAtMost ==
  ASSUME NEW s \in Seq(Nat), NEW t \in Seq(Nat), NEW r, r = s \o t, NEW n, AtMost(s, n), AtMost(t, n)
  PROVE  AtMost(r, n)
<1>1. \A k \in DOMAIN r: \/ k \in DOMAIN s /\ r[k] = s[k]
                         \/ k - Len(s) \in DOMAIN t /\ r[k] = t[k - Len(s)]
  BY PiecesOfConcat
<1> QED  BY <1>1 DEF AtMost

LEMMA ConcatFollows ==
  ASSUME NEW s \in Seq(Nat), NEW t \in Seq(Nat), NEW r, r = s \o t,
         NEW u, Follows(u, s), Follows(u, t)
  PROVE  Follows(u, r)
<1>1. \A k \in DOMAIN r: \/ k \in DOMAIN s /\ r[k] = s[k]
                         \/ k - Len(s) \in DOMAIN t /\ r[k] = t[k - Len(s)]
  BY PiecesOfConcat
<1> QED  BY <1>1 DEF Follows

LEMMA EmptyBounded ==
  ASSUME NEW r, r = <<>>
  PROVE  /\ r \in Seq(Nat) /\ InTheOrderSaid(r)
         /\ (\A n: Below(r, n) /\ AtMost(r, n)) /\ (\A u: Follows(u, r) /\ Follows(r, u))
BY EmptySeq DEF InTheOrderSaid, Below, AtMost, Follows

LEMMA PiecesOrdered == ASSUME NEW n \in Nat PROVE InTheOrderSaid(Pieces(n))
<1>1. DOMAIN Pieces(n) = 1 .. n /\ \A k \in 1 .. n: Pieces(n)[k] = k  BY DEF Pieces
<1> QED  BY <1>1 DEF InTheOrderSaid

LEMMA AppendBounded ==
  ASSUME NEW s \in Seq(Nat), NEW n \in Nat, NEW r, r = Append(s, n)
  PROVE  /\ InTheOrderSaid(s) /\ Below(s, n) => InTheOrderSaid(r)
         /\ \A m: Below(s, m) /\ n < m => Below(r, m)
<1>1. /\ Len(s) \in Nat /\ DOMAIN s = 1 .. Len(s) /\ DOMAIN r = 1 .. Len(s) + 1
      /\ \A k \in DOMAIN s: r[k] = s[k]
      /\ r[Len(s) + 1] = n
  BY AppendElements
<1>2. \A k \in DOMAIN r: \/ k \in DOMAIN s /\ r[k] = s[k]
                         \/ k = Len(s) + 1 /\ r[k] = n
  BY <1>1
<1>3. ASSUME InTheOrderSaid(s), Below(s, n), NEW j \in DOMAIN r, NEW k \in DOMAIN r, j < k
      PROVE  r[j] < r[k]
  <2>1. j \in DOMAIN s /\ r[j] = s[j]  BY <1>1, <1>3
  <2>2. CASE k \in DOMAIN s /\ r[k] = s[k]  BY <1>3, <2>1, <2>2 DEF InTheOrderSaid
  <2>3. CASE k = Len(s) + 1 /\ r[k] = n  BY <1>3, <2>1, <2>3 DEF Below
  <2> QED  BY <1>2, <2>2, <2>3
<1>4. InTheOrderSaid(s) /\ Below(s, n) => InTheOrderSaid(r)  BY <1>3 DEF InTheOrderSaid
<1> QED  BY <1>2, <1>4 DEF Below

LEMMA AppendAtMost ==
  ASSUME NEW s \in Seq(Nat), NEW n \in Nat, NEW r, r = Append(s, n), NEW m, AtMost(s, m), n <= m
  PROVE  AtMost(r, m)
<1>1. /\ Len(s) \in Nat /\ DOMAIN s = 1 .. Len(s) /\ DOMAIN r = 1 .. Len(s) + 1
      /\ \A k \in DOMAIN s: r[k] = s[k]
      /\ r[Len(s) + 1] = n
  BY AppendElements
<1> QED  BY <1>1 DEF AtMost

LEMMA OneBounded ==
  ASSUME NEW n \in Nat, NEW r, r = <<n>>
  PROVE  /\ InTheOrderSaid(r) /\ (\A m: n < m => Below(r, m)) /\ (\A m: n <= m => AtMost(r, m))
         /\ \A u: Below(u, n) => Follows(u, r)
<1>1. r \in Seq(Nat) /\ Len(r) = 1 /\ r[1] = n  OBVIOUS
<1>2. DOMAIN r = 1 .. 1  BY <1>1, LenProperties
<1>3. \A k \in DOMAIN r: k = 1 /\ r[k] = n  BY <1>1, <1>2
<1> QED  BY <1>3 DEF InTheOrderSaid, Below, AtMost, Follows

(* As long as streaming was not switched on: the buffers continue the texts, *)
(* the step in hand continues the buffers, the events continue the step.     *)
TextsSpoken == \A i \in Item:
  InTheOrderSaid(thread.text[i]) /\ (i \notin provider.closed => AtMost(thread.text[i], said.text[i]))
BuffersSpoken == \A i \in Message:
  /\ InTheOrderSaid(caches.buffer[i]) /\ Follows(thread.text[i], caches.buffer[i])
  /\ i \notin provider.closed => AtMost(caches.buffer[i], said.text[i])
StepsSpoken == \A k \in DOMAIN steps: LET o == steps[k] IN
  /\ o.op = "delta" => /\ InTheOrderSaid(o.text) /\ Follows(thread.text[o.item], o.text)
                       /\ Follows(caches.buffer[o.item], o.text)
  /\ o.op = "activity" => InTheOrderSaid(o.text)
  /\ o.op \in {"delta", "activity"} /\ o.item \notin provider.closed =>
       AtMost(o.text, said.text[o.item])
  /\ o.op = "flush" => InTheOrderSaid(o.text)
  /\ o.op = "flush" /\ o.text # <<>> =>
       /\ thread.text[o.item] = <<>> /\ o.item \in provider.closed
       /\ \A j \in DOMAIN steps: j < k => steps[j].op # "flush"
EventsSpoken == \A j \in DOMAIN events: LET e == events[j] IN
  e.type = "content.delta" =>
    /\ Below(thread.text[e.item], e.n)
    /\ e.item \in Message => Below(caches.buffer[e.item], e.n)
    /\ \A k \in DOMAIN steps: steps[k].op \in {"delta", "activity"} /\ steps[k].item = e.item =>
         Below(steps[k].text, e.n)
Spoken == /\ streaming => \A i \in Message: caches.buffer[i] = <<>>
          /\ TextsSpoken /\ BuffersSpoken /\ StepsSpoken /\ EventsSpoken
SaidInv == count.toStreaming = 0 => Spoken

LEMMA EmittedKeepsSaid ==
  ASSUME Core, SaidInv, NEW e, Emitted(e) PROVE SaidInv'
<1> SUFFICES ASSUME count'.toStreaming = 0 PROVE Spoken'
  BY DEF SaidInv
<1>1. /\ Spoken /\ UNCHANGED <<streaming, steps, caches, thread>>
      /\ events \in Seq(Event) /\ events' = Append(events, e) /\ said \in Said /\ said' \in Said
      /\ provider.closed \subseteq provider'.closed
      /\ \A i \in Item: said.text[i] <= said'.text[i]
      /\ thread \in Thread /\ caches \in Caches /\ steps \in Seq(Todo)
  BY DEF Emitted, SaidInv, Core, Typed
<1>2. e \in Event  BY PastStays
<1>3. /\ DOMAIN events' = 1 .. Len(events) + 1 /\ DOMAIN events = 1 .. Len(events)
      /\ Len(events) \in Nat /\ events'[Len(events) + 1] = e
      /\ \A k \in DOMAIN events: events'[k] = events[k]
  BY <1>1, <1>2, AppendElements
<1>4. ASSUME NEW s \in Seq(Nat), NEW i \in Item, AtMost(s, said.text[i])
      PROVE  AtMost(s, said'.text[i])
  <2>1. said.text[i] \in Nat /\ said'.text[i] \in Nat /\ said.text[i] <= said'.text[i]
    BY <1>1 DEF Said
  <2>2. \A k \in DOMAIN s: s[k] \in Nat  BY ElementOfSeq, LenProperties
  <2>3. ASSUME NEW k \in DOMAIN s PROVE s[k] <= said'.text[i]
    BY <1>4, <2>1, <2>2 DEF AtMost
  <2> QED  BY <2>3 DEF AtMost
<1>5. \A i \in Item: thread.text[i] \in Seq(Nat)  BY <1>1 DEF Thread
<1>6. \A i \in Message: caches.buffer[i] \in Seq(Nat) /\ i \in Item  BY <1>1 DEF Caches, Item
<1>7. \A k \in DOMAIN steps: steps[k] \in Todo /\ StepFits(steps[k]) /\ steps[k].text \in Seq(Nat)
  <2>1. \A k \in DOMAIN steps: steps[k] \in Todo  BY <1>1
  <2>2. \A k \in DOMAIN steps: steps[k].text \in Seq(Nat)  BY <2>1 DEF Todo
  <2>3. \A k \in DOMAIN steps: StepFits(steps[k])  BY DEF Core, Todos
  <2> QED  BY <2>1, <2>2, <2>3
<1>8. \A k \in DOMAIN steps: steps[k].op \in {"delta", "activity"} => steps[k].item \in Item
  BY <1>7 DEF StepFits, ItemOps
<1>9. TextsSpoken'  BY <1>1, <1>4, <1>5 DEF Spoken, TextsSpoken
<1>10. BuffersSpoken'  BY <1>1, <1>4, <1>6 DEF Spoken, BuffersSpoken
<1>11. StepsSpoken'
  <2> SUFFICES ASSUME NEW k \in DOMAIN steps
               PROVE  /\ steps[k].op \in {"delta", "activity"} /\ steps[k].item \notin provider'.closed =>
                           AtMost(steps[k].text, said'.text[steps[k].item])
                      /\ steps[k].op = "flush" /\ steps[k].text # <<>> => steps[k].item \in provider'.closed
    BY <1>1 DEF Spoken, StepsSpoken
  <2>1. steps[k].op \in {"delta", "activity"} /\ steps[k].item \notin provider'.closed =>
          AtMost(steps[k].text, said'.text[steps[k].item])
    <3>1. SUFFICES ASSUME steps[k].op \in {"delta", "activity"}, steps[k].item \notin provider'.closed
                   PROVE  AtMost(steps[k].text, said'.text[steps[k].item])
      OBVIOUS
    <3>2. AtMost(steps[k].text, said.text[steps[k].item])
      BY <1>1, <3>1 DEF Spoken, StepsSpoken
    <3> QED  BY <1>4, <1>7, <1>8, <3>1, <3>2
  <2>2. steps[k].op = "flush" /\ steps[k].text # <<>> => steps[k].item \in provider'.closed
    BY <1>1 DEF Spoken, StepsSpoken
  <2> QED  BY <2>1, <2>2
<1>12. ASSUME e.type = "content.delta"
       PROVE  /\ Below(thread.text[e.item], e.n)
              /\ e.item \in Message => Below(caches.buffer[e.item], e.n)
              /\ \A k \in DOMAIN steps:
                   steps[k].op \in {"delta", "activity"} /\ steps[k].item = e.item =>
                     Below(steps[k].text, e.n)
  <2>1. /\ e.item \in Item /\ said.text[e.item] < e.n /\ e.item \notin provider.closed /\ e.n \in Nat
        /\ said.text[e.item] \in Nat
    BY <1>1, <1>2, <1>12 DEF Emitted, Wellformed, Writable, ItemTypes, Event, Said
  <2>2. ASSUME NEW s \in Seq(Nat), AtMost(s, said.text[e.item]) PROVE Below(s, e.n)
    <3>1. \A k \in DOMAIN s: s[k] \in Nat  BY ElementOfSeq, LenProperties
    <3> QED  BY <2>1, <2>2, <3>1 DEF AtMost, Below
  <2>3. Below(thread.text[e.item], e.n)
    BY <1>1, <1>5, <2>1, <2>2 DEF Spoken, TextsSpoken
  <2>4. e.item \in Message => Below(caches.buffer[e.item], e.n)
    BY <1>1, <1>6, <2>1, <2>2 DEF Spoken, BuffersSpoken
  <2>5. ASSUME NEW k \in DOMAIN steps, steps[k].op \in {"delta", "activity"},
               steps[k].item = e.item
        PROVE  Below(steps[k].text, e.n)
    <3>1. AtMost(steps[k].text, said.text[e.item])
      BY <1>1, <2>1, <2>5 DEF Spoken, StepsSpoken
    <3> QED  BY <1>7, <2>2, <3>1
  <2> QED  BY <2>3, <2>4, <2>5
<1>13. EventsSpoken'
  <2> SUFFICES ASSUME NEW j \in DOMAIN events', events'[j].type = "content.delta"
               PROVE  /\ Below(thread.text[events'[j].item], events'[j].n)
                      /\ events'[j].item \in Message =>
                           Below(caches.buffer[events'[j].item], events'[j].n)
                      /\ \A k \in DOMAIN steps:
                           steps[k].op \in {"delta", "activity"} /\ steps[k].item = events'[j].item =>
                             Below(steps[k].text, events'[j].n)
    BY <1>1 DEF EventsSpoken
  <2>1. CASE j \in DOMAIN events
    <3>1. events'[j] = events[j]  BY <1>3, <2>1
    <3> QED  BY <1>1, <2>1, <3>1 DEF Spoken, EventsSpoken
  <2>2. CASE j = Len(events) + 1
    <3>1. events'[j] = e  BY <1>3, <2>2
    <3> QED  BY <1>12, <3>1
  <2> QED  BY <1>3, <2>1, <2>2
<1>14. streaming' => \A i \in Message: caches'.buffer[i] = <<>>  BY <1>1 DEF Spoken
<1> QED  BY <1>9, <1>10, <1>11, <1>13, <1>14 DEF Spoken

LEMMA TakenKeepsSaid ==
  ASSUME Core, SaidInv, NEW e, Taken(e) PROVE SaidInv'
<1> SUFFICES ASSUME count'.toStreaming = 0 PROVE Spoken'
  BY DEF SaidInv
<1>1. /\ UNCHANGED <<provider, said, caches, thread, streaming>> /\ Spoken /\ e = events[1]
      /\ steps = <<>> /\ DOMAIN steps = {} /\ Fits(steps', e)
      /\ thread \in Thread /\ caches \in Caches /\ said \in Said /\ <<>> \in Seq(Nat)
  BY EmptySeq DEF Taken, SaidInv, Core, Typed
<1>2. /\ e \in Event /\ EventFits(e) /\ e.n \in Nat /\ 1 \in DOMAIN events
      /\ \A k \in DOMAIN events': k + 1 \in DOMAIN events /\ events'[k] = events[k + 1]
      /\ \A k \in DOMAIN events': Precedes(e, events'[k]) /\ EventFits(events'[k])
  BY RestOfEvents DEF Event
<1>3. TextsSpoken' /\ BuffersSpoken' /\ (streaming' => \A i \in Message: caches'.buffer[i] = <<>>)
  BY <1>1 DEF Spoken, TextsSpoken, BuffersSpoken
<1>4. e.type = "content.delta" =>
        /\ Below(thread.text[e.item], e.n) /\ e.item \in Item /\ thread.text[e.item] \in Seq(Nat)
        /\ e.item \in Message => Below(caches.buffer[e.item], e.n)
        /\ e.n <= said.text[e.item] /\ said.text[e.item] \in Nat
  BY <1>1, <1>2 DEF Spoken, EventsSpoken, EventFits, Wellformed, Thread, Said
<1>5. StepsSpoken'
  <2> SUFFICES ASSUME NEW k \in DOMAIN steps'
               PROVE  LET o == steps'[k] IN
         /\ o.op = "delta" => /\ InTheOrderSaid(o.text) /\ Follows(thread.text[o.item], o.text)
                              /\ Follows(caches.buffer[o.item], o.text)
         /\ o.op = "activity" => InTheOrderSaid(o.text)
         /\ o.op \in {"delta", "activity"} /\ o.item \notin provider.closed =>
              AtMost(o.text, said.text[o.item])
         /\ o.op = "flush" => InTheOrderSaid(o.text)
         /\ o.op = "flush" /\ o.text # <<>> =>
              /\ thread.text[o.item] = <<>> /\ o.item \in provider.closed
              /\ \A j \in DOMAIN steps': j < k => steps'[j].op # "flush"
    BY <1>1 DEF StepsSpoken
  <2>1. PICK o: o = steps'[k]  OBVIOUS
  <2>2. CASE o.op = "delta"
    <3>1. e.type = "content.delta" /\ o.item = e.item /\ o.item \in Message /\ o.text = <<e.n>>
      BY <1>1, <2>1, <2>2 DEF Fits
    <3>2. /\ InTheOrderSaid(o.text) /\ AtMost(o.text, said.text[o.item])
          /\ Follows(thread.text[o.item], o.text) /\ Follows(caches.buffer[o.item], o.text)
      BY <1>2, <1>4, <3>1, OneBounded
    <3> QED  BY <2>1, <2>2, <3>2
  <2>3. CASE o.op = "activity"
    <3>1. e.type = "content.delta" /\ o.item = e.item /\ o.text = Append(thread.text[e.item], e.n)
      BY <1>1, <2>1, <2>3 DEF Fits
    <3>2. InTheOrderSaid(thread.text[e.item])
          /\ (e.item \notin provider.closed => AtMost(thread.text[e.item], said.text[e.item]))
      BY <1>1, <1>4, <3>1 DEF Spoken, TextsSpoken
    <3>3. /\ InTheOrderSaid(o.text)
          /\ o.item \notin provider.closed => AtMost(o.text, said.text[o.item])
      <4>1. PICK s \in Seq(Nat): s = thread.text[e.item]  BY <1>4, <3>1
      <4>2. o.text = Append(s, e.n) /\ InTheOrderSaid(s) /\ Below(s, e.n)
        BY <1>4, <3>1, <3>2, <4>1
      <4>3. InTheOrderSaid(o.text)  BY <1>2, <4>2, AppendBounded
      <4>4. AtMost(s, said.text[e.item]) => AtMost(o.text, said.text[e.item])
        <5>1. PICK n, m: n = e.n /\ m = said.text[e.item]  OBVIOUS
        <5>2. n \in Nat /\ n <= m /\ o.text = Append(s, n)  BY <1>2, <1>4, <3>1, <4>2, <5>1
        <5>3. AtMost(s, m) => AtMost(o.text, m)  BY <5>2, AppendAtMost
        <5> QED  BY <5>1, <5>3
      <4> QED  BY <3>1, <3>2, <4>1, <4>3, <4>4
    <3> QED  BY <2>1, <2>3, <3>3
  <2>4. CASE o.op = "flush"
    <3>1. CASE o.text = <<>>
      <4>1. InTheOrderSaid(o.text)  BY <3>1, EmptyBounded
      <4> QED  BY <2>1, <2>4, <3>1, <4>1
    <3>2. CASE o.text # <<>>
      <4>1. e.type = "item.completed" /\ o.item = e.item /\ o.text = Fallback(e)
        <5>1. o.text = <<>> \/ (e.type = "item.completed" /\ o.text = Fallback(e))
          BY <1>1, <2>1, <2>4 DEF Fits
        <5>2. \/ e.type = "item.completed" /\ o.item = e.item
              \/ e.type = "turn.completed" /\ o.item \in caches.ids[e.turn]
          BY <1>1, <2>1, <2>4 DEF Fits
        <5> QED  BY <3>2, <5>1, <5>2
      <4>2. thread.text[e.item] = <<>> /\ o.text = Pieces(e.n)  BY <3>2, <4>1 DEF Fallback
      <4>3. InTheOrderSaid(o.text)  BY <1>2, <4>2, PiecesOrdered
      <4>4. o.item \in provider.closed  BY <1>2, <4>1 DEF EventFits
      <4>5. \A j \in DOMAIN steps': steps'[j].op = "flush" => j = 2  BY <1>1, <4>1 DEF Fits
      <4>6. k = 2  BY <2>1, <2>4, <4>5
      <4> QED  BY <2>1, <2>4, <4>1, <4>2, <4>3, <4>4, <4>5, <4>6
    <3> QED  BY <3>1, <3>2
  <2>5. CASE o.op \notin {"delta", "activity", "flush"}  BY <2>1, <2>5
  <2> QED  BY <2>2, <2>3, <2>4, <2>5
<1>6. EventsSpoken'
  <2> SUFFICES ASSUME NEW j \in DOMAIN events', events'[j].type = "content.delta"
               PROVE  /\ Below(thread.text[events'[j].item], events'[j].n)
                      /\ events'[j].item \in Message =>
                           Below(caches.buffer[events'[j].item], events'[j].n)
                      /\ \A k \in DOMAIN steps':
                           steps'[k].op \in {"delta", "activity"} /\ steps'[k].item = events'[j].item =>
                             Below(steps'[k].text, events'[j].n)
    BY <1>1 DEF EventsSpoken
  <2>1. PICK d: d = events'[j]  OBVIOUS
  <2>2. /\ Below(thread.text[d.item], d.n)
        /\ d.item \in Message => Below(caches.buffer[d.item], d.n)
    BY <1>1, <1>2, <2>1 DEF Spoken, EventsSpoken
  <2>3. ASSUME NEW k \in DOMAIN steps', steps'[k].op \in {"delta", "activity"},
               steps'[k].item = d.item
        PROVE  Below(steps'[k].text, d.n)
    <3>1. e.type = "content.delta" /\ e.item = d.item  BY <1>1, <2>3 DEF Fits
    <3>2. e.n < d.n  BY <1>2, <2>1, <3>1 DEF Precedes
    <3>3. CASE steps'[k].op = "delta"
      <4>1. steps'[k].text = <<e.n>>  BY <1>1, <3>3 DEF Fits
      <4> QED  BY <1>2, <3>2, <4>1, OneBounded
    <3>4. CASE steps'[k].op = "activity"
      <4>1. steps'[k].text = Append(thread.text[e.item], e.n)  BY <1>1, <3>4 DEF Fits
      <4>2. Below(thread.text[e.item], d.n)  BY <2>2, <3>1
      <4> QED  BY <1>2, <1>4, <3>1, <3>2, <4>1, <4>2, AppendBounded
    <3> QED  BY <2>3, <3>3, <3>4
  <2> QED  BY <2>1, <2>2, <2>3
<1> QED  BY <1>3, <1>5, <1>6 DEF Spoken

LEMMA HandledKeepsSaid ==
  ASSUME Core, SaidInv, NEW o, Handled(o) PROVE SaidInv'
<1> SUFFICES ASSUME count'.toStreaming = 0 PROVE Spoken'
  BY DEF SaidInv
<1>1. /\ UNCHANGED <<provider, events, said, streaming>> /\ o \in Todo /\ StepFits(o) /\ o = steps[1]
      /\ BufferAfter(o) /\ TextAfter(o) /\ Spoken /\ steps \in Seq(Todo)
      /\ thread \in Thread /\ caches \in Caches /\ said \in Said
      /\ caches' \in Caches /\ thread' \in Thread
  BY DEF Core, Typed, Handled, Popped, vars, worker, SaidInv
<1>2. /\ 1 \in DOMAIN steps /\ steps' \in Seq(Todo)
      /\ DOMAIN steps \subseteq Nat \ {0} /\ DOMAIN steps' \subseteq Nat \ {0}
      /\ \A k \in DOMAIN steps': k + 1 \in DOMAIN steps /\ steps'[k] = steps[k + 1]
      /\ Len(steps) \in Nat /\ (Len(steps) = 1 => steps' = <<>> /\ DOMAIN steps' = {})
      /\ o.op = "delta" \/ o.op = "activity" => Len(steps) = 1
  BY RestOfSteps
<1>3. /\ caches.buffer \in [Message -> Seq(Nat)] /\ thread.text \in [Item -> Seq(Nat)]
      /\ o.text \in Seq(Nat) /\ \A i \in Message: i \in Item
  BY <1>1 DEF Caches, Thread, Todo, Item
<1>4. /\ o.op = "delta" => /\ o.item \in Message /\ InTheOrderSaid(o.text)
                           /\ Follows(thread.text[o.item], o.text)
                           /\ Follows(caches.buffer[o.item], o.text)
      /\ o.op = "activity" => o.item \in Reasoning /\ o.item \in Item /\ InTheOrderSaid(o.text)
      /\ o.op \in {"delta", "activity"} /\ o.item \notin provider.closed =>
           AtMost(o.text, said.text[o.item])
      /\ o.op = "flush" => o.item \in Message /\ InTheOrderSaid(o.text) /\ NothingMore(o.item)
      /\ o.op = "flush" /\ o.text # <<>> =>
           /\ thread.text[o.item] = <<>> /\ o.item \in provider.closed
  BY <1>1, <1>2 DEF Spoken, StepsSpoken, StepFits, ItemOps
<1>5. \A i \in Message: \/ caches'.buffer[i] \in {caches.buffer[i], <<>>}
                        \/ /\ o.op = "delta" /\ ~streaming /\ i = o.item
                           /\ caches'.buffer[i] = caches.buffer[i] \o o.text
  <2> TAKE i \in Message
  <2>1. CASE o.op = "delta" /\ streaming  BY <1>1, <2>1 DEF BufferAfter
  <2>2. CASE o.op = "delta" /\ ~streaming
    <3>1. PICK text \in {<<>>, caches.buffer[o.item] \o o.text}:
            caches'.buffer = [caches.buffer EXCEPT ![o.item] = text]
      BY <1>1, <2>2 DEF BufferAfter
    <3> QED  BY <1>3, <2>2, <3>1
  <2>3. CASE o.op = "flush"  BY <1>1, <1>3, <2>3 DEF BufferAfter
  <2>4. CASE o.op = "exit"  BY <1>1, <1>3, <2>4 DEF BufferAfter
  <2>5. CASE o.op \notin {"delta", "flush", "exit"}  BY <1>1, <2>5 DEF BufferAfter
  <2> QED  BY <2>1, <2>2, <2>3, <2>4, <2>5
<1>6. \A i \in Item: i # o.item => thread'.text[i] = thread.text[i]
  BY <1>1, <1>3 DEF TextAfter
<1>7. \A i \in Message:
        /\ InTheOrderSaid(caches.buffer[i]) /\ Follows(thread.text[i], caches.buffer[i])
        /\ i \notin provider.closed => AtMost(caches.buffer[i], said.text[i])
  BY <1>1 DEF Spoken, BuffersSpoken
<1>8. \A i \in Item: /\ InTheOrderSaid(thread.text[i])
                     /\ i \notin provider.closed => AtMost(thread.text[i], said.text[i])
  BY <1>1 DEF Spoken, TextsSpoken
<1>9. o.op \notin {"delta", "flush", "activity"} => thread'.text = thread.text
  BY <1>1 DEF TextAfter
(* What was appended to the text of the item of the step.                    *)
<1>10. ASSUME thread'.text[o.item] # thread.text[o.item], o.item \in Message
       PROVE  \E more \in Seq(Nat):
                /\ thread'.text[o.item] = thread.text[o.item] \o more
                /\ InTheOrderSaid(more) /\ Follows(thread.text[o.item], more)
                /\ o.item \notin provider.closed => AtMost(more, said.text[o.item])
                /\ caches'.buffer[o.item] = <<>>
                /\ o.op = "delta" => \A n: Below(caches.buffer[o.item], n) /\ Below(o.text, n)
                                              => Below(more, n)
  <2>1. PICK b \in Seq(Nat): b = caches.buffer[o.item]  BY <1>3, <1>10
  <2>2. /\ InTheOrderSaid(b) /\ Follows(thread.text[o.item], b)
        /\ o.item \notin provider.closed => AtMost(b, said.text[o.item])
    BY <1>7, <1>10, <2>1
  <2>3. o.item \in Item /\ thread.text[o.item] \in Seq(Nat) /\ o.op # "activity"
    <3>1. o.op = "activity" => o.item \notin Message
      BY <1>4, IngestionAssumption
    <3> QED  BY <1>3, <1>10, <3>1
  <2>4. CASE /\ o.op = "delta" /\ streaming
             /\ thread'.text = [thread.text EXCEPT ![o.item] = thread.text[o.item] \o o.text]
    <3>1. b = <<>> /\ caches'.buffer[o.item] = b
      BY <1>1, <1>10, <2>1, <2>4 DEF Spoken, BufferAfter
    <3>2. thread'.text[o.item] = thread.text[o.item] \o o.text  BY <1>3, <2>3, <2>4
    <3> QED  BY <1>3, <1>4, <2>4, <3>1, <3>2
  <2>5. CASE /\ o.op = "delta" /\ ~streaming
             /\ caches'.buffer = [caches.buffer EXCEPT ![o.item] = <<>>]
             /\ thread'.text = [thread.text EXCEPT ![o.item] =
                                  thread.text[o.item] \o (caches.buffer[o.item] \o o.text)]
    <3>1. PICK r: r = b \o o.text  OBVIOUS
    <3>2. r \in Seq(Nat) /\ InTheOrderSaid(r)
      <4>1. PICK t \in Seq(Nat): t = o.text  BY <1>3
      <4>2. r = b \o t /\ InTheOrderSaid(b) /\ InTheOrderSaid(t) /\ Follows(b, t)
        BY <1>4, <2>1, <2>2, <2>5, <3>1, <4>1
      <4> QED  BY <4>2, ConcatOrdered
    <3>3. Follows(thread.text[o.item], r)
      <4>1. PICK u, t \in Seq(Nat): u = thread.text[o.item] /\ t = o.text  BY <1>3, <2>3
      <4>2. r = b \o t /\ Follows(u, b) /\ Follows(u, t)
        BY <1>4, <2>2, <2>5, <3>1, <4>1
      <4>3. Follows(u, r)  BY <4>2, ConcatFollows
      <4> QED  BY <4>1, <4>3
    <3>4. ASSUME o.item \notin provider.closed PROVE AtMost(r, said.text[o.item])
      <4>1. PICK t \in Seq(Nat): t = o.text  BY <1>3
      <4>2. PICK n: n = said.text[o.item]  OBVIOUS
      <4>3. r = b \o t /\ AtMost(b, n) /\ AtMost(t, n)
        BY <1>4, <2>2, <2>5, <3>1, <3>4, <4>1, <4>2
      <4>4. AtMost(r, n)  BY <4>3, ConcatAtMost
      <4> QED  BY <4>2, <4>4
    <3>5. \A n: Below(b, n) /\ Below(o.text, n) => Below(r, n)
      BY <1>3, <3>1, ConcatBelow
    <3>6. thread'.text[o.item] = thread.text[o.item] \o r /\ caches'.buffer[o.item] = <<>>
      BY <1>3, <1>10, <2>1, <2>3, <2>5, <3>1
    <3> QED  BY <2>1, <3>2, <3>3, <3>4, <3>5, <3>6
  <2>6. CASE /\ o.op = "flush"
             /\ thread'.text = [thread.text EXCEPT ![o.item] =
                  thread.text[o.item] \o (IF caches.buffer[o.item] # <<>>
                                          THEN caches.buffer[o.item] ELSE o.text)]
    <3>1. PICK r: r = IF b # <<>> THEN b ELSE o.text  OBVIOUS
    <3>2. thread'.text[o.item] = thread.text[o.item] \o r  BY <1>3, <2>1, <2>3, <2>6, <3>1
    <3>3. caches'.buffer[o.item] = <<>>  BY <1>1, <1>3, <1>10, <2>6 DEF BufferAfter
    <3>4. /\ r \in Seq(Nat) /\ InTheOrderSaid(r) /\ Follows(thread.text[o.item], r)
          /\ o.item \notin provider.closed => AtMost(r, said.text[o.item])
      <4>1. CASE b # <<>>  BY <2>2, <3>1, <4>1
      <4>2. CASE b = <<>> /\ o.text = <<>>
        <5>1. r = <<>>  BY <3>1, <4>2
        <5> QED  BY <5>1, EmptyBounded
      <4>3. CASE b = <<>> /\ o.text # <<>>
        <5>1. r = o.text /\ thread.text[o.item] = <<>> /\ o.item \in provider.closed
          BY <1>4, <2>6, <3>1, <4>3
        <5>2. Follows(thread.text[o.item], r)  BY <5>1, EmptyBounded
        <5> QED  BY <1>3, <1>4, <2>6, <5>1, <5>2
      <4> QED  BY <4>1, <4>2, <4>3
    <3> QED  BY <2>6, <3>2, <3>3, <3>4
  <2> QED  BY <1>1, <1>10, <2>3, <2>4, <2>5, <2>6 DEF TextAfter
<1>11. TextsSpoken'
  <2> SUFFICES ASSUME NEW i \in Item
               PROVE  /\ InTheOrderSaid(thread'.text[i])
                      /\ i \notin provider.closed => AtMost(thread'.text[i], said.text[i])
    BY <1>1 DEF TextsSpoken
  <2>1. CASE thread'.text[i] = thread.text[i]  BY <1>8, <2>1
  <2>2. CASE thread'.text[i] # thread.text[i] /\ i \in Message
    <3>1. i = o.item  BY <1>6, <2>2
    <3>2. PICK more \in Seq(Nat):
            /\ thread'.text[i] = thread.text[i] \o more
            /\ InTheOrderSaid(more) /\ Follows(thread.text[i], more)
            /\ i \notin provider.closed => AtMost(more, said.text[i])
      BY <1>10, <2>2, <3>1
    <3>3. PICK s \in Seq(Nat): s = thread.text[i]  BY <1>3
    <3>4. PICK r: r = s \o more  OBVIOUS
    <3>5. InTheOrderSaid(r)  BY <1>8, <3>2, <3>3, <3>4, ConcatOrdered
    <3>6. i \notin provider.closed => AtMost(r, said.text[i])
      <4>1. SUFFICES ASSUME i \notin provider.closed PROVE AtMost(r, said.text[i])
        OBVIOUS
      <4>2. PICK n: n = said.text[i]  OBVIOUS
      <4>3. AtMost(s, n) /\ AtMost(more, n)  BY <1>8, <3>2, <3>3, <4>1, <4>2
      <4>4. AtMost(r, n)  BY <3>4, <4>3, ConcatAtMost
      <4> QED  BY <4>2, <4>4
    <3> QED  BY <3>2, <3>3, <3>4, <3>5, <3>6
  <2>3. CASE thread'.text[i] # thread.text[i] /\ i \notin Message
    <3>1. i = o.item  BY <1>6, <2>3
    <3>2. o.op = "activity"  BY <1>4, <1>9, <2>3, <3>1
    <3>3. thread'.text[i] = o.text  BY <1>1, <1>3, <2>3, <3>1, <3>2 DEF TextAfter
    <3> QED  BY <1>4, <3>1, <3>2, <3>3
  <2> QED  BY <2>1, <2>2, <2>3
<1>12. BuffersSpoken'
  <2> SUFFICES ASSUME NEW i \in Message
        PROVE  /\ InTheOrderSaid(caches'.buffer[i]) /\ Follows(thread'.text[i], caches'.buffer[i])
               /\ i \notin provider.closed => AtMost(caches'.buffer[i], said.text[i])
    BY <1>1 DEF BuffersSpoken
  <2>1. CASE caches'.buffer[i] = <<>>  BY <2>1, EmptyBounded
  <2>2. CASE caches'.buffer[i] # <<>>
    <3>1. thread'.text[i] = thread.text[i]
      <4>1. i # o.item => thread'.text[i] = thread.text[i]  BY <1>3, <1>6
      <4> QED  BY <1>10, <2>2, <4>1
    <3>2. CASE caches'.buffer[i] = caches.buffer[i]  BY <1>7, <3>1, <3>2
    <3>3. CASE /\ o.op = "delta" /\ i = o.item
               /\ caches'.buffer[i] = caches.buffer[i] \o o.text
      <4>1. PICK b \in Seq(Nat): b = caches.buffer[i]  BY <1>3
      <4>2. PICK r: r = b \o o.text  OBVIOUS
      <4>3. /\ InTheOrderSaid(b) /\ Follows(thread.text[i], b)
            /\ i \notin provider.closed => AtMost(b, said.text[i])
        BY <1>7, <4>1
      <4>4. InTheOrderSaid(r)  BY <1>3, <1>4, <3>3, <4>1, <4>2, <4>3, ConcatOrdered
      <4>5. Follows(thread.text[i], r)
        <5>1. PICK u, t \in Seq(Nat): u = thread.text[i] /\ t = o.text  BY <1>3
        <5>2. r = b \o t /\ Follows(u, b) /\ Follows(u, t)
          BY <1>4, <3>3, <4>2, <4>3, <5>1
        <5>3. Follows(u, r)  BY <5>2, ConcatFollows
        <5> QED  BY <5>1, <5>3
      <4>6. ASSUME i \notin provider.closed PROVE AtMost(r, said.text[i])
        <5>0. PICK n: n = said.text[i]  OBVIOUS
        <5>1. PICK t \in Seq(Nat): t = o.text  BY <1>3
        <5>2. r = b \o t /\ AtMost(b, n) /\ AtMost(t, n)
          BY <1>4, <3>3, <4>2, <4>3, <4>6, <5>0, <5>1
        <5>3. AtMost(r, n)  BY <5>2, ConcatAtMost
        <5> QED  BY <5>0, <5>3
      <4> QED  BY <3>1, <3>3, <4>1, <4>2, <4>4, <4>5, <4>6
    <3> QED  BY <1>5, <2>2, <3>2, <3>3
  <2> QED  BY <2>1, <2>2
<1>13. ASSUME NEW k \in DOMAIN steps'
       PROVE  /\ steps'[k] = steps[k + 1] /\ k + 1 \in DOMAIN steps /\ 1 < k + 1
              /\ steps'[k].op \notin {"delta", "activity"} /\ o.op \notin {"delta", "activity"}
  <2>1. /\ steps'[k] = steps[k + 1] /\ k + 1 \in DOMAIN steps /\ 1 < k + 1 /\ Len(steps) # 1
        /\ o.op \notin {"delta", "activity"}
    BY <1>2
  <2>2. StepFits(steps[k + 1])  BY <2>1 DEF Core, Todos
  <2> QED  BY <2>1, <2>2 DEF StepFits
<1>14. StepsSpoken'
  <2> SUFFICES ASSUME NEW k \in DOMAIN steps', steps'[k].op = "flush"
               PROVE  LET s == steps'[k] IN
                 /\ InTheOrderSaid(s.text)
                 /\ s.text # <<>> => /\ thread'.text[s.item] = <<>> /\ s.item \in provider.closed
                                     /\ \A j \in DOMAIN steps': j < k => steps'[j].op # "flush"
    BY <1>1, <1>13 DEF StepsSpoken
  <2>1. PICK s: s = steps'[k] /\ s = steps[k + 1]  BY <1>13
  <2>2. k + 1 \in DOMAIN steps /\ 1 < k + 1 /\ s.op = "flush"  BY <1>13, <2>1
  <2>3. /\ InTheOrderSaid(s.text)
        /\ s.text # <<>> => /\ thread.text[s.item] = <<>> /\ s.item \in provider.closed
                            /\ \A j \in DOMAIN steps: j < k + 1 => steps[j].op # "flush"
    BY <1>1, <2>1, <2>2 DEF Spoken, StepsSpoken
  <2>4. ASSUME s.text # <<>> PROVE thread'.text = thread.text
    <3>1. o.op # "flush"  BY <1>1, <1>2, <2>2, <2>3, <2>4
    <3> QED  BY <1>9, <1>13, <3>1
  <2>5. ASSUME s.text # <<>>, NEW j \in DOMAIN steps', j < k PROVE steps'[j].op # "flush"
    <3>1. j + 1 < k + 1 /\ j + 1 \in DOMAIN steps /\ steps'[j] = steps[j + 1]
      BY <1>2, <2>5
    <3> QED  BY <2>3, <2>5, <3>1
  <2> QED  BY <2>1, <2>3, <2>4, <2>5
<1>15. EventsSpoken'
  <2> SUFFICES ASSUME NEW j \in DOMAIN events, events[j].type = "content.delta"
               PROVE  /\ Below(thread'.text[events[j].item], events[j].n)
                      /\ events[j].item \in Message =>
                           Below(caches'.buffer[events[j].item], events[j].n)
    BY <1>1, <1>13 DEF EventsSpoken
  <2>1. PICK d: d = events[j]  OBVIOUS
  <2>2. /\ Below(thread.text[d.item], d.n)
        /\ d.item \in Message => Below(caches.buffer[d.item], d.n)
        /\ o.op \in {"delta", "activity"} /\ o.item = d.item => Below(o.text, d.n)
    BY <1>1, <1>2, <2>1 DEF Spoken, EventsSpoken
  <2>3. d.item \in Item  BY <2>1 DEF Core, Order, EventFits, Wellformed
  <2>4. o.op = "flush" => d.item # o.item  BY <1>4, <2>1 DEF NothingMore
  <2>5. Below(thread'.text[d.item], d.n)
    <3>1. CASE thread'.text[d.item] = thread.text[d.item]  BY <2>2, <3>1
    <3>2. CASE thread'.text[d.item] # thread.text[d.item]
      <4>1. d.item = o.item /\ o.op \in {"delta", "activity"}
        BY <1>6, <1>9, <2>3, <2>4, <3>2
      <4>2. CASE o.op = "delta"
        <5>1. PICK more \in Seq(Nat):
                /\ thread'.text[o.item] = thread.text[o.item] \o more
                /\ \A n: Below(caches.buffer[o.item], n) /\ Below(o.text, n) => Below(more, n)
          BY <1>4, <1>10, <3>2, <4>1, <4>2
        <5>2. Below(more, d.n)  BY <1>4, <2>2, <4>1, <4>2, <5>1
        <5>3. PICK s \in Seq(Nat): s = thread.text[d.item]  BY <1>3, <2>3
        <5>4. PICK r: r = s \o more  OBVIOUS
        <5>5. Below(r, d.n)  BY <2>2, <5>2, <5>3, <5>4, ConcatBelow
        <5> QED  BY <4>1, <5>1, <5>3, <5>4, <5>5
      <4>3. CASE o.op = "activity"
        <5>1. thread'.text[d.item] = o.text
          BY <1>1, <1>3, <2>3, <3>2, <4>1, <4>3 DEF TextAfter
        <5> QED  BY <2>2, <4>1, <4>3, <5>1
      <4> QED  BY <4>1, <4>2, <4>3
    <3> QED  BY <3>1, <3>2
  <2>6. ASSUME d.item \in Message PROVE Below(caches'.buffer[d.item], d.n)
    <3>1. CASE caches'.buffer[d.item] = <<>>  BY <3>1, EmptyBounded
    <3>2. CASE caches'.buffer[d.item] = caches.buffer[d.item]  BY <2>2, <2>6, <3>2
    <3>3. CASE /\ o.op = "delta" /\ d.item = o.item
               /\ caches'.buffer[d.item] = caches.buffer[d.item] \o o.text
      <4>1. PICK b \in Seq(Nat): b = caches.buffer[d.item]  BY <1>3, <2>6
      <4>2. PICK t \in Seq(Nat): t = o.text  BY <1>3
      <4>3. PICK r: r = b \o t  OBVIOUS
      <4>4. Below(b, d.n) /\ Below(t, d.n)  BY <2>2, <2>6, <3>3, <4>1, <4>2
      <4>5. Below(r, d.n)  BY <4>3, <4>4, ConcatBelow
      <4> QED  BY <3>3, <4>1, <4>2, <4>3, <4>5
    <3> QED  BY <1>5, <2>6, <3>1, <3>2, <3>3
  <2> QED  BY <2>1, <2>5, <2>6
<1>16. streaming' => \A i \in Message: caches'.buffer[i] = <<>>
  BY <1>1, <1>5 DEF Spoken
<1> QED  BY <1>11, <1>12, <1>14, <1>15, <1>16 DEF Spoken

LEMMA QuietKeepsSaid == ASSUME Core, SaidInv, Quiet PROVE SaidInv'
<1> SUFFICES ASSUME count'.toStreaming = 0 PROVE Spoken'
  BY DEF SaidInv
<1>1. UNCHANGED <<events, provider, said, caches, thread>> /\ (streaming' => streaming) /\ Spoken
  <2>1. count.toStreaming \in Nat  BY DEF Core, Typed, Troubles
  <2>2. count.toStreaming = 0 /\ (streaming' => streaming)  BY <2>1 DEF Quiet
  <2> QED  BY <2>2 DEF Quiet, SaidInv
<1>2. CASE steps' = steps
  BY <1>1, <1>2 DEF Spoken, TextsSpoken, BuffersSpoken, StepsSpoken, EventsSpoken
<1>3. CASE steps' = <<>>
  <2>1. DOMAIN steps' = {}  BY <1>3, EmptySeq
  <2> QED
    BY <1>1, <2>1 DEF Spoken, TextsSpoken, BuffersSpoken, StepsSpoken, EventsSpoken
<1> QED  BY <1>2, <1>3 DEF Quiet

LEMMA SaidInitInv == IngestionInit => SaidInv
<1> SUFFICES ASSUME IngestionInit PROVE Spoken
  BY DEF SaidInv
<1>1. /\ DOMAIN steps = {} /\ DOMAIN events = {}
      /\ \A i \in Message: caches.buffer[i] = <<>>
      /\ \A i \in Item: thread.text[i] = <<>>
  BY EmptySeq DEF IngestionInit
<1> QED
  BY <1>1, EmptyBounded DEF Spoken, TextsSpoken, BuffersSpoken, StepsSpoken, EventsSpoken

(* Whatever fails, a text never has a piece twice or out of order, as long   *)
(* as streaming is not switched on in the middle of it.                      *)
THEOREM TextsAreInTheOrderSaid == IngestionSpec => []OnlyWhatWasSaid
<1>1. IngestionInit => IngestionInv /\ SaidInv
  BY IngestionInitInv, SaidInitInv
<1>2. IngestionInv /\ SaidInv /\ [IngestionNext]_ingestionVars => (IngestionInv /\ SaidInv)'
  BY IngestionStepInv, StepKinds, EmittedKeepsSaid, TakenKeepsSaid,
     HandledKeepsSaid, QuietKeepsSaid DEF IngestionInv
<1>3. IngestionInv /\ SaidInv => OnlyWhatWasSaid
  BY DEF SaidInv, Spoken, TextsSpoken, OnlyWhatWasSaid
<1> QED  BY <1>1, <1>2, <1>3, PTL DEF IngestionSpec

(************************* What was said is kept *************************)
(* What the provider reports, what the handler writes and which steps follow *)
(* which: Emitted, Handled and Fits, as far as whole texts depend on it.     *)
PlanTypes == {"turn.proposed.delta", "turn.proposed.completed"}

(* What the provider did, beyond the event it reports.                       *)
Spoke(e) ==
  /\ provider'.cut = provider.cut \union (IF e.type = "session.exited" THEN {e.turn} ELSE {})
  /\ provider'.planned = provider.planned \union
       (IF e.type = "turn.proposed.completed" THEN {e.turn} ELSE {})
  /\ e.type # "turn.started" => provider.turn = e.turn
  /\ e.type = "content.delta" => e.n = said.text[e.item] + 1
  /\ e.type = "item.completed" =>
       \/ e.n = 0 /\ said'.text = said.text
       \/ /\ e.n = (IF said.text[e.item] = 0 THEN 1 ELSE said.text[e.item])
          /\ e.n = said'.text[e.item]
  /\ \A i \in Item: ~(e.type \in ItemTypes /\ e.item = i) => said'.text[i] = said.text[i]
  /\ e.type = "turn.proposed.delta" => e.n = said.plan[e.turn] + 1
  /\ e.type = "turn.proposed.completed" =>
       e.n = IF said.plan[e.turn] = 0 THEN 1 ELSE said.plan[e.turn]
  /\ e.type \in PlanTypes => e.turn \notin provider.planned
                             /\ said'.plan = [said.plan EXCEPT ![e.turn] = e.n]
  /\ e.type \notin PlanTypes => said'.plan = said.plan

LEMMA EmittedIs ==
  ASSUME Typed, NEW e \in Event, Emitted(e), NEW type, NEW t, NEW i, NEW n, Emit(type, t, i, n)
  PROVE  e.type = type /\ e.turn = t /\ e.item = i /\ e.n = n
<1>1. PICK d: d = [type |-> type, turn |-> t, item |-> i, n |-> n]  OBVIOUS
<1>2. events' = Append(events, d) /\ events' = Append(events, e)  BY <1>1 DEF Emit, Emitted
<1>3. PICK S: S = Event \union {d}  OBVIOUS
<1>4. d \in S /\ e \in S /\ events \in Seq(S)
  <2>1. events \in Seq(Event)  BY DEF Typed
  <2>2. DOMAIN events = 1 .. Len(events) /\ Len(events) \in Nat  BY <2>1, LenProperties
  <2>3. \A k \in 1 .. Len(events): events[k] \in S  BY <1>3, <2>1, <2>2, ElementOfSeq
  <2>4. events \in [1 .. Len(events) -> S]  BY <2>1, <2>2, <2>3, LenProperties
  <2>5. events \in Seq(S)  BY <2>2, <2>4, SeqDef
  <2> QED  BY <1>3, <2>5
<1>5. PICK r: r = events'  OBVIOUS
<1>6. r[Len(events) + 1] = d
  <2>1. r = Append(events, d) /\ d \in S /\ events \in Seq(S)  BY <1>2, <1>4, <1>5
  <2> HIDE <1>1
  <2> QED  BY <2>1, AppendElements
<1>7. r[Len(events) + 1] = e  BY <1>2, <1>4, <1>5, AppendElements
<1> QED  BY <1>1, <1>6, <1>7

LEMMA ProviderSpeaks ==
  ASSUME Typed, NEW e \in Event, Emitted(e),
         StartTurn \/ (\E i \in Item: Say(i) \/ FinishItem(i)) \/ Propose \/ FinishPlan
           \/ EndTurn \/ ExitSession
  PROVE  Spoke(e)
<1>1. /\ provider \in Provider /\ provider.turn \in {0, provider.turns} /\ said \in Said
      /\ provider.turns \in 0 .. MaxTurns /\ MaxTurns \in Nat
  BY IngestionAssumption DEF Typed, Provider
<1>2. provider.turn # 0 => provider.turn \in Turns  BY <1>1 DEF Turns
<1>3. CASE StartTurn
  <2>1. e.type = "turn.started"  BY <1>3, EmittedIs DEF StartTurn
  <2>2. said' = said /\ provider'.cut = provider.cut /\ provider'.planned = provider.planned
    BY <1>1, <1>3 DEF StartTurn, Provider
  <2> QED  BY <2>1, <2>2 DEF Spoke, ItemTypes, PlanTypes
<1>4. ASSUME NEW i \in Item, Say(i) PROVE Spoke(e)
  <2>1. /\ provider' = [provider EXCEPT !.of[i] = provider.turn]
        /\ said' = [said EXCEPT !.text[i] = @ + 1]
    BY <1>4 DEF Say
  <2>2. PICK n: n = said'.text[i]  OBVIOUS
  <2>3. Emit("content.delta", provider.turn, i, n)  BY <1>4, <2>2 DEF Say
  <2>4. e.type = "content.delta" /\ e.turn = provider.turn /\ e.item = i /\ e.n = n
    BY <2>3, EmittedIs
  <2>5. /\ said'.text = [said.text EXCEPT ![i] = said.text[i] + 1] /\ said'.plan = said.plan
        /\ provider'.cut = provider.cut /\ provider'.planned = provider.planned
    BY <1>1, <2>1 DEF Provider, Said
  <2>6. said.text \in [Item -> Nat]  BY <1>1 DEF Said
  <2> QED  BY <2>2, <2>4, <2>5, <2>6 DEF Spoke, ItemTypes, PlanTypes
<1>5. ASSUME NEW i \in Item, FinishItem(i) PROVE Spoke(e)
  <2>1. provider' = [provider EXCEPT !.of[i] = provider.turn, !.closed = @ \union {i}]
    BY <1>5 DEF FinishItem
  <2>2. provider'.cut = provider.cut /\ provider'.planned = provider.planned
    BY <1>1, <2>1 DEF Provider
  <2>3. CASE UNCHANGED said /\ Emit("item.completed", provider.turn, i, 0)
    <3>1. e.type = "item.completed" /\ e.turn = provider.turn /\ e.item = i /\ e.n = 0
      BY <2>3, EmittedIs
    <3> QED  BY <2>2, <2>3, <3>1 DEF Spoke, ItemTypes, PlanTypes
  <2>4. CASE /\ said' = [said EXCEPT !.text[i] = IF @ = 0 THEN 1 ELSE @]
             /\ Emit("item.completed", provider.turn, i, said'.text[i])
    <3>1. PICK n: n = said'.text[i]  OBVIOUS
    <3>2. Emit("item.completed", provider.turn, i, n)  BY <2>4, <3>1
    <3>3. e.type = "item.completed" /\ e.turn = provider.turn /\ e.item = i /\ e.n = n
      BY <3>2, EmittedIs
    <3>4. /\ said'.text = [said.text EXCEPT ![i] = IF said.text[i] = 0 THEN 1 ELSE said.text[i]]
          /\ said'.plan = said.plan /\ said.text \in [Item -> Nat]
      BY <1>1, <2>4 DEF Said
    <3>5. said'.text[i] = (IF said.text[i] = 0 THEN 1 ELSE said.text[i])
          /\ \A j \in Item: j # i => said'.text[j] = said.text[j]
      BY <3>4
    <3> QED  BY <2>2, <3>1, <3>3, <3>4, <3>5 DEF Spoke, ItemTypes, PlanTypes
  <2> QED  BY <1>5, <2>3, <2>4 DEF FinishItem
<1>6. CASE Propose
  <2>1. /\ provider.turn # 0 /\ provider.turn \notin provider.planned /\ provider' = provider
        /\ said' = [said EXCEPT !.plan[provider.turn] = @ + 1]
    BY <1>6 DEF Propose
  <2>2. PICK n: n = said'.plan[provider.turn]  OBVIOUS
  <2>3. Emit("turn.proposed.delta", provider.turn, None, n)  BY <1>6, <2>2 DEF Propose
  <2>4. e.type = "turn.proposed.delta" /\ e.turn = provider.turn /\ e.n = n  BY <2>3, EmittedIs
  <2>5. /\ said'.text = said.text /\ said.plan \in [Turns -> Nat] /\ provider.turn \in Turns
        /\ said'.plan = [said.plan EXCEPT ![provider.turn] = said.plan[provider.turn] + 1]
    BY <1>1, <1>2, <2>1 DEF Said
  <2>6. n = said.plan[e.turn] + 1 /\ said'.plan = [said.plan EXCEPT ![e.turn] = e.n]
    BY <2>2, <2>4, <2>5
  <2> QED  BY <2>1, <2>4, <2>5, <2>6 DEF Spoke, ItemTypes, PlanTypes
<1>7. CASE FinishPlan
  <2>1. /\ provider.turn # 0 /\ provider.turn \notin provider.planned
        /\ provider' = [provider EXCEPT !.planned = @ \union {provider.turn}]
        /\ said' = [said EXCEPT !.plan[provider.turn] = IF @ = 0 THEN 1 ELSE @]
    BY <1>7 DEF FinishPlan
  <2>2. PICK n: n = said'.plan[provider.turn]  OBVIOUS
  <2>3. Emit("turn.proposed.completed", provider.turn, None, n)  BY <1>7, <2>2 DEF FinishPlan
  <2>4. e.type = "turn.proposed.completed" /\ e.turn = provider.turn /\ e.n = n
    BY <2>3, EmittedIs
  <2>5. /\ said'.text = said.text /\ said.plan \in [Turns -> Nat] /\ provider.turn \in Turns
        /\ said'.plan = [said.plan EXCEPT ![provider.turn] =
                           IF said.plan[provider.turn] = 0 THEN 1 ELSE said.plan[provider.turn]]
        /\ provider'.cut = provider.cut
        /\ provider'.planned = provider.planned \union {provider.turn}
    BY <1>1, <1>2, <2>1 DEF Said, Provider
  <2>6. n = (IF said.plan[e.turn] = 0 THEN 1 ELSE said.plan[e.turn])
        /\ said'.plan = [said.plan EXCEPT ![e.turn] = e.n]
    BY <2>2, <2>4, <2>5
  <2> QED  BY <2>1, <2>4, <2>5, <2>6 DEF Spoke, ItemTypes, PlanTypes
<1>8. CASE EndTurn
  <2>1. e.type = "turn.completed" /\ e.turn = provider.turn  BY <1>8, EmittedIs DEF EndTurn
  <2>2. said' = said /\ provider'.cut = provider.cut /\ provider'.planned = provider.planned
    BY <1>1, <1>8 DEF EndTurn, Provider
  <2> QED  BY <2>1, <2>2 DEF Spoke, ItemTypes, PlanTypes
<1>9. CASE ExitSession
  <2>1. e.type = "session.exited" /\ e.turn = provider.turn  BY <1>9, EmittedIs DEF ExitSession
  <2>2. /\ said' = said /\ provider'.planned = provider.planned
        /\ provider'.cut = provider.cut \union {provider.turn}
    BY <1>1, <1>9 DEF ExitSession, Provider
  <2> QED  BY <2>1, <2>2 DEF Spoke, ItemTypes, PlanTypes
<1> QED  BY <1>3, <1>4, <1>5, <1>6, <1>7, <1>8, <1>9

(* What a step of the handler does to the thread when its dispatch succeeds. *)
Wrote(o) ==
  /\ o.op = "delta" =>
       \/ /\ streaming /\ caches'.buffer = caches.buffer
          /\ thread'.text = [thread.text EXCEPT ![o.item] = thread.text[o.item] \o o.text]
       \/ /\ thread'.text = thread.text
          /\ caches'.buffer = [caches.buffer EXCEPT ![o.item] = caches.buffer[o.item] \o o.text]
       \/ /\ caches'.buffer = [caches.buffer EXCEPT ![o.item] = <<>>]
          /\ thread'.text = [thread.text EXCEPT ![o.item] =
               thread.text[o.item] \o (caches.buffer[o.item] \o o.text)]
  /\ o.op = "flush" => thread'.text = [thread.text EXCEPT ![o.item] = thread.text[o.item] \o
       (IF caches.buffer[o.item] # <<>> THEN caches.buffer[o.item] ELSE o.text)]
  /\ o.op = "activity" => thread'.text = [thread.text EXCEPT ![o.item] = o.text]
  /\ o.op \notin {"delta", "flush", "activity"} => thread'.text = thread.text
  /\ o.op \in {"delta", "flush"} =>
       \A i \in Message: i # o.item => thread'.shown[i] = thread.shown[i]
  /\ o.op = "complete" => thread'.shown = [thread.shown EXCEPT ![o.item] = "complete"]
  /\ o.op \notin {"delta", "flush", "complete"} => thread'.shown = thread.shown
  /\ o.op = "plan" => thread'.plan = [thread.plan EXCEPT ![o.turn] =
       IF caches.plan[o.turn] # <<>> THEN caches.plan[o.turn]
       ELSE IF o.text # <<>> THEN o.text ELSE thread.plan[o.turn]]
  /\ o.op # "plan" => thread'.plan = thread.plan

LEMMA AppendedWrites ==
  ASSUME Typed, NEW i \in Message, NEW text \in Seq(Nat), thread' = Appended(i, text)
  PROVE  /\ thread'.text = [thread.text EXCEPT ![i] = thread.text[i] \o text]
         /\ thread'.plan = thread.plan
         /\ \A j \in Message: j # i => thread'.shown[j] = thread.shown[j]
<1>1. thread \in Thread /\ i \in Item /\ thread.text[i] \in Seq(Nat)
  BY DEF Typed, Thread, Item
<1> QED  BY <1>1 DEF Appended, Thread

LEMMA DeltaWrites == ASSUME Core, Succeeds, TakeDelta PROVE Wrote(Head(steps))
<1>1. PICK o: o = Head(steps)  OBVIOUS
<1>2. /\ phase = "processing" /\ steps # <<>> /\ o \in Todo /\ o.op = "delta"
      /\ StepFits(o) /\ o.turn \in Turns /\ o.text \in Seq(Nat)
  BY <1>1, StepInHand DEF TakeDelta
<1>3. o.item \in Message /\ Typed /\ Unchanged /\ caches \in Caches
  BY <1>2 DEF StepFits, ItemOps, Core, TakeDelta, Typed
<1>4. PICK r: r = Remember(o.item, o.turn)  OBVIOUS
<1>5. r.buffer = caches.buffer /\ r \in Caches  BY <1>2, <1>3, <1>4, Remembered
<1>6. PICK b \in Seq(Nat): b = caches.buffer[o.item]  BY <1>3 DEF Caches
<1>7. PICK text: text = b \o o.text  OBVIOUS
<1>8. text \in Seq(Nat)  BY <1>2, <1>6, <1>7, ConcatProperties
<1>9. /\ IF streaming
         THEN Dispatch(Appended(o.item, o.text)) /\ caches' = r
         ELSE IF Len(text) <= BufferLimit
         THEN Go /\ caches' = [r EXCEPT !.buffer[o.item] = text] /\ UNCHANGED thread
         ELSE /\ Dispatch(Appended(o.item, text))
              /\ caches' = [r EXCEPT !.buffer[o.item] = <<>>]
  BY <1>1, <1>4, <1>6, <1>7 DEF TakeDelta
<1>10. CASE streaming
  <2>1. thread' = Appended(o.item, o.text)
    BY <1>2, <1>3, <1>9, <1>10, DispatchPops
  <2>2. caches'.buffer = caches.buffer  BY <1>5, <1>9, <1>10
  <2>3. /\ thread'.text = [thread.text EXCEPT ![o.item] = thread.text[o.item] \o o.text]
        /\ thread'.plan = thread.plan
        /\ \A j \in Message: j # o.item => thread'.shown[j] = thread.shown[j]
    BY <1>2, <1>3, <2>1, AppendedWrites
  <2> QED  BY <1>1, <1>2, <1>10, <2>2, <2>3 DEF Wrote
<1>11. CASE ~streaming /\ Len(text) <= BufferLimit
  <2>1. caches' = [r EXCEPT !.buffer[o.item] = text] /\ thread' = thread  BY <1>9, <1>11
  <2>2. caches'.buffer = [caches.buffer EXCEPT ![o.item] = text]  BY <1>5, <2>1 DEF Caches
  <2> QED  BY <1>1, <1>2, <1>6, <1>7, <2>1, <2>2 DEF Wrote
<1>12. CASE ~streaming /\ ~(Len(text) <= BufferLimit)
  <2>1. thread' = Appended(o.item, text)
    BY <1>2, <1>3, <1>9, <1>12, DispatchPops
  <2>2. caches' = [r EXCEPT !.buffer[o.item] = <<>>]  BY <1>9, <1>12
  <2>3. caches'.buffer = [caches.buffer EXCEPT ![o.item] = <<>>]  BY <1>5, <2>2 DEF Caches
  <2>4. /\ thread'.text = [thread.text EXCEPT ![o.item] = thread.text[o.item] \o text]
        /\ thread'.plan = thread.plan
        /\ \A j \in Message: j # o.item => thread'.shown[j] = thread.shown[j]
    BY <1>3, <1>8, <2>1, AppendedWrites
  <2> QED  BY <1>1, <1>2, <1>6, <1>7, <2>3, <2>4 DEF Wrote
<1> QED  BY <1>10, <1>11, <1>12

LEMMA FlushWrites == ASSUME Core, Succeeds, Flush PROVE Wrote(Head(steps))
<1>1. PICK o: o = Head(steps)  OBVIOUS
<1>2. /\ phase = "processing" /\ steps # <<>> /\ o \in Todo /\ o.op = "flush"
      /\ StepFits(o) /\ o.text \in Seq(Nat)
  BY <1>1, StepInHand DEF Flush
<1>3. o.item \in Message /\ Typed /\ Unchanged /\ caches \in Caches /\ thread \in Thread
  BY <1>2 DEF StepFits, ItemOps, Core, Flush, Typed
<1>4. PICK text: text = IF caches.buffer[o.item] # <<>> THEN caches.buffer[o.item] ELSE o.text
  OBVIOUS
<1>5. text \in Seq(Nat)  BY <1>2, <1>3, <1>4 DEF Caches
<1>6. IF text = <<>> THEN Go /\ UNCHANGED thread ELSE Dispatch(Appended(o.item, text))
  BY <1>1, <1>4 DEF Flush
<1>7. CASE text = <<>>
  <2>1. thread' = thread /\ thread.text \in [Item -> Seq(Nat)] /\ o.item \in Item
    BY <1>3, <1>6, <1>7 DEF Thread, Item
  <2>2. thread.text[o.item] \o text = thread.text[o.item]
    <3>1. PICK s \in Seq(Nat): s = thread.text[o.item]  BY <2>1
    <3>2. s \o <<>> = s  BY <3>1, ConcatEmptySeq
    <3> QED  BY <1>7, <3>1, <3>2
  <2>3. thread'.text = [thread.text EXCEPT ![o.item] = thread.text[o.item] \o text]
    BY <2>1, <2>2
  <2> QED  BY <1>1, <1>2, <1>4, <2>1, <2>3 DEF Wrote
<1>8. CASE text # <<>>
  <2>1. thread' = Appended(o.item, text)  BY <1>2, <1>3, <1>6, <1>8, DispatchPops
  <2>2. /\ thread'.text = [thread.text EXCEPT ![o.item] = thread.text[o.item] \o text]
        /\ thread'.plan = thread.plan
        /\ \A j \in Message: j # o.item => thread'.shown[j] = thread.shown[j]
    BY <1>3, <1>5, <2>1, AppendedWrites
  <2> QED  BY <1>1, <1>2, <1>4, <2>2 DEF Wrote
<1> QED  BY <1>7, <1>8

LEMMA HandlerWrites == ASSUME Core, Succeeds, HandlerStep PROVE Wrote(Head(steps))
<1>1. thread \in Thread /\ Typed  BY DEF Core, Typed
<1>2. CASE TakeDelta  BY <1>2, DeltaWrites
<1>3. CASE Flush  BY <1>3, FlushWrites
<1>4. CASE ShowSession
  <2>1. thread' = thread /\ Head(steps).op = "session"
    BY <1>1, <1>4, StepInHand, DispatchPops DEF ShowSession, Doing
  <2> QED  BY <2>1 DEF Wrote
<1>5. CASE RememberItem \/ Forget \/ ClearTurn \/ BufferPlan \/ ClearSession
  <2>1. thread' = thread /\ Head(steps).op \in {"remember", "forget", "clear", "propose", "exit"}
    BY <1>5 DEF RememberItem, Forget, ClearTurn, BufferPlan, ClearSession, Doing
  <2> QED  BY <2>1 DEF Wrote
<1>6. CASE Complete
  <2>1. PICK o: o = Head(steps)  OBVIOUS
  <2>2. PICK th: th = [thread EXCEPT !.shown[o.item] = "complete", !.completions[o.item] = @ + 1]
    OBVIOUS
  <2>3. thread' = th /\ o.op = "complete"
    BY <1>1, <1>6, <2>1, <2>2, StepInHand, DispatchPops DEF Complete, Doing
  <2>4. th.text = thread.text /\ th.plan = thread.plan
        /\ th.shown = [thread.shown EXCEPT ![o.item] = "complete"]
    BY <1>1, <2>2 DEF Thread
  <2> QED  BY <2>1, <2>3, <2>4 DEF Wrote
<1>7. CASE AppendReasoning
  <2>1. PICK o: o = Head(steps)  OBVIOUS
  <2>2. PICK th: th = [thread EXCEPT !.text[o.item] = o.text]  OBVIOUS
  <2>3. thread' = th /\ o.op = "activity"
    BY <1>1, <1>7, <2>1, <2>2, StepInHand, DispatchPops DEF AppendReasoning, Doing
  <2>4. th.text = [thread.text EXCEPT ![o.item] = o.text] /\ th.plan = thread.plan
        /\ th.shown = thread.shown
    BY <1>1, <2>2 DEF Thread
  <2> QED  BY <2>1, <2>3, <2>4 DEF Wrote
<1>8. CASE UpsertPlan
  <2>1. PICK o: o = Head(steps)  OBVIOUS
  <2>2. PICK text: text = IF caches.plan[o.turn] # <<>> THEN caches.plan[o.turn] ELSE o.text
    OBVIOUS
  <2>3. PICK th: th = [thread EXCEPT !.plan[o.turn] = text]  OBVIOUS
  <2>4. /\ o.op = "plan" /\ Doing("plan") /\ Unchanged
        /\ IF text = <<>> THEN Go /\ UNCHANGED thread ELSE Dispatch(th)
    BY <1>8, <2>1, <2>2, <2>3 DEF UpsertPlan, Doing
  <2>5. th.text = thread.text /\ th.shown = thread.shown
        /\ th.plan = [thread.plan EXCEPT ![o.turn] = text]
    BY <1>1, <2>3 DEF Thread
  <2>6. CASE text = <<>>
    <3>1. thread' = thread /\ caches.plan[o.turn] = <<>> /\ o.text = <<>>
      BY <2>2, <2>4, <2>6
    <3>2. thread.plan = [thread.plan EXCEPT ![o.turn] = thread.plan[o.turn]]
      BY <1>1 DEF Thread
    <3> QED  BY <2>1, <2>4, <3>1, <3>2 DEF Wrote
  <2>7. CASE text # <<>>
    <3>1. thread' = th  BY <1>1, <2>4, <2>7, StepInHand, DispatchPops
    <3>2. text = IF caches.plan[o.turn] # <<>> THEN caches.plan[o.turn]
                 ELSE IF o.text # <<>> THEN o.text ELSE thread.plan[o.turn]
      BY <2>2, <2>7
    <3> QED  BY <2>1, <2>4, <2>5, <3>1, <3>2 DEF Wrote
  <2> QED  BY <2>6, <2>7
<1> QED  BY <1>2, <1>3, <1>4, <1>5, <1>6, <1>7, <1>8 DEF HandlerStep

(* What Fits leaves out: what stands where among the steps of an event.      *)
Shapes(s, e) ==
  /\ \A k \in DOMAIN s: LET o == s[k] IN
       /\ o.op \in {"exit", "plan"} => k = Len(s)
       /\ o.op = "propose" => Len(s) = 1 /\ o.text = <<e.n>>
       /\ o.op = "plan" => \/ e.type = "turn.proposed.completed" /\ o.text = Pieces(e.n)
                           \/ e.type = "turn.completed" /\ o.text = <<>>
       /\ o.op = "flush" => /\ k + 1 \in DOMAIN s
                            /\ s[k + 1].op = "complete" /\ s[k + 1].item = o.item
       /\ o.op = "clear" => \A i \in caches.ids[e.turn]: HasBefore(s, k, "complete", i)
  /\ e.type = "content.delta" =>
       1 \in DOMAIN s /\ s[1].item = e.item /\ s[1].op \in {"delta", "activity"}
  /\ e.type = "item.completed" =>
       /\ Has(s, "complete", e.item)
       /\ \E k \in DOMAIN s: s[k].op = "flush" /\ s[k].item = e.item /\ s[k].text = Fallback(e)
  /\ e.type = "turn.proposed.delta" => 1 \in DOMAIN s /\ s[1].op = "propose"
  /\ e.type = "turn.proposed.completed" =>
       1 \in DOMAIN s /\ s[1].op = "plan" /\ s[1].text = Pieces(e.n)

LEMMA OneShape ==
  ASSUME Typed, NEW e, Wellformed(e),
         e.type \in {"turn.started", "content.delta", "turn.proposed.delta",
                     "turn.proposed.completed"}
  PROVE  Shapes(StepsOf(e), e)
<1>1. e.turn \in Turns /\ e.n \in Nat /\ e.item \in Item \union {None}
  BY DEF Wellformed, Event
<1>2. <<>> \in Seq(Nat) /\ <<e.n>> \in Seq(Nat) /\ Pieces(e.n) \in Seq(Nat)
  BY <1>1, PiecesTyped, EmptySeq
<1>3. PICK s: s = StepsOf(e)  OBVIOUS
<1>4. ASSUME NEW op \in Ops, NEW item \in Item \union {None}, NEW text \in Seq(Nat),
             s = <<Op(op, item, e.turn, text)>>
      PROVE  /\ DOMAIN s = {1} /\ Len(s) = 1
             /\ s[1].op = op /\ s[1].item = item /\ s[1].text = text
  <2>1. PICK o: o = Op(op, item, e.turn, text)  OBVIOUS
  <2>2. o \in Todo /\ o.op = op /\ o.item = item /\ o.text = text
    <3>1. o = [op |-> op, item |-> item, turn |-> e.turn, text |-> text]  BY <2>1 DEF Op
    <3>2. op \in Ops /\ item \in Item \union {None} /\ text \in Seq(Nat)  BY <1>4
    <3> QED  BY <1>1, <3>1, <3>2 DEF Todo
  <2>3. s = <<o>>  BY <1>4, <2>1
  <2>4. DOMAIN s = {1} /\ s[1] = o  BY <2>2, <2>3, OneStep
  <2>5. Len(s) = 1  BY <2>3
  <2> QED  BY <2>2, <2>4, <2>5
<1>5. CASE e.type = "turn.started"
  <2>1. s = <<Op("session", None, e.turn, <<>>)>>  BY <1>3, <1>5 DEF StepsOf
  <2>2. DOMAIN s = {1} /\ s[1].op = "session"  BY <1>2, <1>4, <2>1 DEF Ops
  <2>3. Shapes(s, e)  BY <1>5, <2>2 DEF Shapes
  <2> QED  BY <1>3, <2>3
<1>6. CASE e.type = "turn.proposed.delta"
  <2>1. s = <<Op("propose", None, e.turn, <<e.n>>)>>  BY <1>3, <1>6 DEF StepsOf
  <2>2. DOMAIN s = {1} /\ Len(s) = 1 /\ s[1].op = "propose" /\ s[1].text = <<e.n>>
    BY <1>2, <1>4, <2>1 DEF Ops
  <2>3. Shapes(s, e)  BY <1>6, <2>2 DEF Shapes
  <2> QED  BY <1>3, <2>3
<1>7. CASE e.type = "turn.proposed.completed"
  <2>1. s = <<Op("plan", None, e.turn, Pieces(e.n))>>  BY <1>3, <1>7 DEF StepsOf
  <2>2. DOMAIN s = {1} /\ Len(s) = 1 /\ s[1].op = "plan" /\ s[1].text = Pieces(e.n)
    BY <1>2, <1>4, <2>1 DEF Ops
  <2>3. Shapes(s, e)  BY <1>7, <2>2 DEF Shapes
  <2> QED  BY <1>3, <2>3
<1>8. CASE e.type = "content.delta"
  <2>1. PICK text: text = IF e.item \in Message THEN <<e.n>> ELSE Append(thread.text[e.item], e.n)
    OBVIOUS
  <2>2. PICK op \in {"delta", "activity"}: op = IF e.item \in Message THEN "delta" ELSE "activity"
    OBVIOUS
  <2>3. s = <<Op(op, e.item, e.turn, text)>>  BY <1>3, <1>8, <2>1, <2>2 DEF StepsOf
  <2>4. e.item \in Item  BY <1>8 DEF Wellformed
  <2>5. text \in Seq(Nat)
    BY <1>1, <1>2, <2>1, <2>4, AppendProperties DEF Typed, Thread
  <2>6. DOMAIN s = {1} /\ Len(s) = 1 /\ s[1].op = op /\ s[1].item = e.item
    BY <1>1, <1>4, <2>3, <2>5 DEF Ops
  <2>7. Shapes(s, e)  BY <1>8, <2>2, <2>6 DEF Shapes
  <2> QED  BY <1>3, <2>7
<1> QED  BY <1>5, <1>6, <1>7, <1>8

LEMMA CompletedShape ==
  ASSUME Typed, NEW e, Wellformed(e), e.type = "item.completed" PROVE Shapes(StepsOf(e), e)
<1>1. PICK s: s = StepsOf(e)  OBVIOUS
<1>2. /\ s \in Seq(Todo) /\ Len(s) = 4 /\ DOMAIN s = {1, 2, 3, 4}
      /\ \A k \in DOMAIN s: s[k].item = e.item /\ s[k].turn = e.turn
      /\ s[1].op = "remember" /\ s[2].op = "flush" /\ s[3].op = "complete"
      /\ s[4].op = "forget" /\ s[2].text = Fallback(e)
  BY <1>1, StepsOfCompleted
<1>3. \A k \in DOMAIN s: /\ s[k].op \in {"remember", "flush", "complete", "forget"}
                         /\ s[k].op = "flush" => k = 2
  BY <1>2
<1>4. 2 + 1 \in DOMAIN s /\ s[2 + 1].op = "complete" /\ s[2 + 1].item = e.item  BY <1>2
<1>5. Has(s, "complete", e.item)  BY <1>2 DEF Has
<1>6. Shapes(s, e)  BY <1>2, <1>3, <1>4, <1>5 DEF Shapes
<1> QED  BY <1>1, <1>6

LEMMA ExitedShape ==
  ASSUME Typed, NEW e, Wellformed(e), e.type = "session.exited" PROVE Shapes(StepsOf(e), e)
<1>1. PICK s: s = StepsOf(e)  OBVIOUS
<1>2. PICK a, b: a = Op("session", None, e.turn, <<>>) /\ b = Op("exit", None, e.turn, <<>>)
  OBVIOUS
<1>3. a.op = "session" /\ b.op = "exit"  BY <1>2 DEF Op
<1>4. s = <<a, b>>  BY <1>1, <1>2 DEF StepsOf
<1>5. DOMAIN s = {1, 2} /\ Len(s) = 2 /\ s[1] = a /\ s[2] = b  BY <1>4
<1>6. Shapes(s, e)  BY <1>3, <1>5 DEF Shapes
<1> QED  BY <1>1, <1>6

LEMMA EndedShape ==
  ASSUME Typed, NEW e, Wellformed(e), e.type = "turn.completed" PROVE Shapes(StepsOf(e), e)
<1>1. PICK s: s = StepsOf(e)  OBVIOUS
<1>2. PICK n \in Nat, F \in Seq(Todo): EndedSteps(s, e, n, F)  BY <1>1, StepsOfEnded
<1>3. \A k \in DOMAIN s:
        /\ s[k].op \in {"session", "flush", "complete", "clear", "plan"}
        /\ s[k].op = "flush" => k - 1 \in 1 .. n /\ s[k] = F[k - 1]
        /\ s[k].op = "clear" => k = n + 2
        /\ s[k].op = "plan" => k = Len(s) /\ s[k].text = <<>>
  <2> TAKE k \in DOMAIN s
  <2>1. CASE k - 1 \in 1 .. n /\ s[k] = F[k - 1]
    <3>1. F[k - 1].op \in {"flush", "complete"}  BY <1>2, <2>1 DEF EndedSteps
    <3> QED  BY <2>1, <3>1
  <2>2. CASE k = 1 \/ k = n + 2 \/ k = n + 3  BY <1>2, <2>2 DEF EndedSteps
  <2> QED  BY <1>2, <2>1, <2>2 DEF EndedSteps
<1>4. ASSUME NEW k \in DOMAIN s, s[k].op = "flush"
      PROVE  k + 1 \in DOMAIN s /\ s[k + 1].op = "complete" /\ s[k + 1].item = s[k].item
  <2>1. PICK m \in 1 .. n: m = k - 1 /\ s[k] = F[m]  BY <1>3, <1>4
  <2>2. m + 1 \in 1 .. n /\ F[m + 1].op = "complete" /\ F[m + 1].item = F[m].item
    BY <1>2, <1>4, <2>1 DEF EndedSteps
  <2>3. 1 + (m + 1) \in DOMAIN s /\ s[1 + (m + 1)] = F[m + 1]  BY <1>2, <2>2 DEF EndedSteps
  <2>4. DOMAIN s = 1 .. n + 3  BY <1>2 DEF EndedSteps
  <2>5. 1 + (m + 1) = k + 1  BY <2>1, <2>4
  <2> QED  BY <2>1, <2>2, <2>3, <2>5
<1>5. \A i \in caches.ids[e.turn]: HasBefore(s, n + 2, "complete", i)
  <2> TAKE i \in caches.ids[e.turn]
  <2>1. PICK j \in 1 .. n: F[j].op = "complete" /\ F[j].item = i  BY <1>2 DEF EndedSteps
  <2>2. 1 + j \in DOMAIN s /\ 1 + j < n + 2 /\ s[1 + j] = F[j]  BY <1>2 DEF EndedSteps
  <2> QED  BY <2>1, <2>2 DEF HasBefore
<1>6. Shapes(s, e)  BY <1>3, <1>4, <1>5 DEF Shapes
<1> QED  BY <1>1, <1>6

LEMMA StepsAreShaped ==
  ASSUME Core, TakeEvent, NEW e, Taken(e) PROVE Shapes(steps', e)
<1>1. Typed /\ Wellformed(e) /\ events # <<>> /\ e = events[1] /\ e.type \in EventTypes
  BY DEF Core, Taken, Wellformed, Event
<1>2. Head(events) = e  BY <1>1, TailElements DEF Typed
<1>3. PICK s: s = StepsOf(e)  OBVIOUS
<1>4. Shapes(s, e)
  BY <1>1, <1>3, OneShape, CompletedShape, ExitedShape, EndedShape DEF EventTypes
<1>5. steps' = s  BY <1>2, <1>3 DEF TakeEvent
<1> QED  BY <1>4, <1>5

(* The steps of the specification while nothing fails and the worker lives.  *)
Smooth   == Live /\ count.toStreaming = 0
Speaks(e) == Emitted(e) /\ Spoke(e)
Takes(e)  == Taken(e) /\ Shapes(steps', e)
Does(o)   == Handled(o) /\ Succeeds /\ Wrote(o)
Still == UNCHANGED <<events, provider, said, steps, caches, thread>>

LEMMA SmoothKinds ==
  ASSUME Core, Inv, Aligned, [IngestionNext]_ingestionVars, Smooth'
  PROVE  /\ Smooth
         /\ \/ \E e \in Event: Speaks(e)
            \/ \E e \in Event: Takes(e)
            \/ \E o \in Todo: Does(o)
            \/ Still
<1>1. count \in [Troubles -> Nat] /\ Typed  BY DEF Core, Typed
<1>2. count.failures \in Nat /\ count.toStreaming \in Nat  BY <1>1 DEF Troubles
<1>3. CASE StartTurn \/ (\E i \in Item: Say(i) \/ FinishItem(i)) \/ Propose \/ FinishPlan
             \/ EndTurn \/ ExitSession
  <2>1. PICK e \in Event: Emitted(e)  BY <1>1, <1>3, ProviderEmits
  <2>2. Spoke(e)  BY <1>1, <1>3, <2>1, ProviderSpeaks
  <2>3. Smooth  BY <2>1 DEF Emitted, Smooth, Live
  <2> QED  BY <2>1, <2>2, <2>3 DEF Speaks
<1>4. CASE TakeEvent
  <2>1. PICK e \in Event: Taken(e)  BY <1>4, EventTaken
  <2>2. Shapes(steps', e)  BY <1>4, <2>1, StepsAreShaped
  <2>3. Smooth  BY <2>1 DEF Taken, Smooth, Live
  <2> QED  BY <2>1, <2>2, <2>3 DEF Takes
<1>5. CASE HandlerStep
  <2>1. PICK o \in Todo: Handled(o)  BY <1>5, HandlerHandles
  <2>2. /\ failing' = failing /\ count'.toStreaming = count.toStreaming
        /\ count'.failures \in {count.failures, count.failures + 1}
    BY <2>1 DEF Handled, Popped, vars, worker
  <2>3. count'.failures = 0 /\ count'.toStreaming = 0 /\ ~failing'  BY DEF Smooth, Live
  <2>4. count.failures = 0  BY <1>2, <2>2, <2>3
  <2>5. Smooth  BY <2>2, <2>3, <2>4 DEF Smooth, Live
  <2>6. Succeeds  BY <2>1, <2>3, <2>4, RestOfSteps
  <2>7. steps # <<>> /\ o = steps[1] /\ steps \in Seq(Todo)
    BY <1>1, <2>1 DEF Handled, Typed
  <2>8. Head(steps) = o  BY <2>7, TailElements
  <2>9. Wrote(o)  BY <1>5, <2>6, <2>8, HandlerWrites
  <2> QED  BY <2>1, <2>5, <2>6, <2>9 DEF Does
<1>6. CASE \/ ToggleStreaming \/ EndHandling \/ Interrupted \/ CountDown
           \/ \E d \in Drainer: (CallDrain(d) \/ Drained(d)) /\ UNCHANGED steps /\ Rest
           \/ UNCHANGED ingestionVars
  <2>1. Quiet  BY <1>6, OtherStepsAreQuiet
  <2>2. /\ count'.failures = 0 /\ count'.toStreaming = 0 /\ ~failing'
        /\ count'.failures = count.failures /\ count.toStreaming <= count'.toStreaming
        /\ failing => failing'
    BY <2>1 DEF Smooth, Live, Quiet
  <2>3. Smooth  BY <1>2, <2>2 DEF Smooth, Live
  <2>4. Still  BY <2>1, <2>2 DEF Quiet, Still
  <2> QED  BY <2>3, <2>4
<1> QED  BY <1>3, <1>4, <1>5, <1>6 DEF IngestionNext, IngestionWorker

(* The events and the steps after a step, by their places.                   *)
LEMMA AfterSpeaking ==
  ASSUME Core, NEW e \in Event, Speaks(e)
  PROVE  /\ UNCHANGED <<steps, caches, thread>> /\ Spoke(e) /\ Wellformed(e)
         /\ Len(events) \in Nat /\ Len(events) + 1 \in DOMAIN events'
         /\ DOMAIN events = 1 .. Len(events) /\ events'[Len(events) + 1] = e
         /\ \A k \in DOMAIN events: k \in DOMAIN events' /\ events'[k] = events[k]
         /\ \A k \in DOMAIN events': k \in DOMAIN events \/ k = Len(events) + 1
         /\ e.turn \in Turns /\ e.turn \in Nat \ {0} /\ e.turn = provider'.turns
         /\ provider.turns <= e.turn /\ provider'.turn \in {0, e.turn}
         /\ \A t \in Turns: t <= provider.turns /\ t # provider.turn => t # e.turn
         /\ \A i \in Item: NothingMore(i) => NothingMore(i)'
<1>1. /\ UNCHANGED <<steps, caches, thread>> /\ Spoke(e) /\ Wellformed(e) /\ Emitted(e)
      /\ events \in Seq(Event) /\ events' = Append(events, e)
      /\ e.turn = provider'.turns /\ provider.turns <= e.turn
  BY DEF Speaks, Emitted, Core, Typed
<1>2. /\ DOMAIN events' = 1 .. Len(events) + 1 /\ DOMAIN events = 1 .. Len(events)
      /\ Len(events) \in Nat /\ events'[Len(events) + 1] = e
      /\ \A k \in DOMAIN events: events'[k] = events[k]
  BY <1>1, AppendElements
<1>3. Len(events) + 1 \in DOMAIN events' /\ DOMAIN events \subseteq DOMAIN events'  BY <1>2
<1>4. \A k \in DOMAIN events': k \in DOMAIN events \/ k = Len(events) + 1  BY <1>2
<1> QED  BY <1>1, <1>2, <1>3, <1>4, PastStays

LEMMA AfterTaking ==
  ASSUME Core, NEW e, Takes(e)
  PROVE  /\ UNCHANGED <<provider, said, caches, thread>> /\ DOMAIN steps = {}
         /\ e = events[1] /\ 1 \in DOMAIN events /\ EventFits(e) /\ Wellformed(e)
         /\ e \in Event /\ e.turn \in Turns /\ e.turn \in Nat \ {0}
         /\ Fits(steps', e) /\ Shapes(steps', e)
         /\ \A k \in DOMAIN events: k \in Nat \ {0}
         /\ \A k \in DOMAIN events': /\ k + 1 \in DOMAIN events /\ events'[k] = events[k + 1]
                                     /\ k \in Nat \ {0} /\ Precedes(e, events'[k])
         /\ \A k \in DOMAIN events: k = 1 \/ (k - 1 \in DOMAIN events' /\ events[k] = events'[k - 1])
<1>1. /\ UNCHANGED <<provider, said, caches, thread>> /\ steps = <<>> /\ e = events[1]
      /\ Fits(steps', e) /\ Shapes(steps', e) /\ Wellformed(e) /\ Taken(e)
      /\ events \in Seq(Event)
  BY DEF Takes, Taken, Core, Typed
<1>2. DOMAIN steps = {}  BY <1>1, EmptySeq
<1>3. events' \in Seq(Event)  BY <1>1, RestOfEvents
<1>4. \A k \in DOMAIN events': k \in Nat \ {0}
  <2>1. DOMAIN events' = 1 .. Len(events')  BY <1>3, LenProperties
  <2> QED  BY <2>1
<1>5. \A k \in DOMAIN events: k \in Nat \ {0}
  <2>1. DOMAIN events = 1 .. Len(events)  BY <1>1, LenProperties
  <2> QED  BY <2>1
<1> QED  BY <1>1, <1>2, <1>4, <1>5, RestOfEvents

LEMMA AfterDoing ==
  ASSUME Core, NEW o \in Todo, Does(o)
  PROVE  /\ UNCHANGED <<events, provider, said>> /\ StepFits(o) /\ o = steps[1]
         /\ Wrote(o) /\ IdsAfter(o) /\ BufferAfter(o) /\ PlanAfter(o)
         /\ 1 \in DOMAIN steps /\ o.turn \in Turns /\ o.turn \in Nat \ {0} /\ Len(steps) \in Nat
         /\ Len(steps') = Len(steps) - 1 /\ (Len(steps) = 1 => DOMAIN steps' = {})
         /\ \A k \in DOMAIN steps: k \in 1 .. Len(steps)
         /\ \A k \in DOMAIN steps: StepFits(steps[k]) /\ steps[k] \in Todo
         /\ \A k \in DOMAIN steps': k + 1 \in DOMAIN steps /\ steps'[k] = steps[k + 1] /\ k \in Nat \ {0}
         /\ \A k \in DOMAIN steps: k = 1 \/ (k - 1 \in DOMAIN steps' /\ steps[k] = steps'[k - 1])
         /\ o.op \in {"delta", "activity"} => Len(steps) = 1
<1>1. /\ UNCHANGED <<events, provider, said>> /\ StepFits(o) /\ o = steps[1] /\ Handled(o)
      /\ Wrote(o) /\ IdsAfter(o) /\ BufferAfter(o) /\ PlanAfter(o) /\ steps \in Seq(Todo) /\ Succeeds
  BY DEF Does, Handled, Popped, Core, Typed
<1>2. DOMAIN steps = 1 .. Len(steps)  BY <1>1, LenProperties
<1>3. \A k \in DOMAIN steps: StepFits(steps[k]) /\ steps[k] \in Todo
  BY <1>1 DEF Core, Todos
<1>4. /\ 1 \in DOMAIN steps /\ o.turn \in Turns /\ o.turn \in Nat \ {0} /\ Len(steps) \in Nat
      /\ Len(steps') = Len(steps) - 1 /\ (Len(steps) = 1 => DOMAIN steps' = {})
      /\ \A k \in DOMAIN steps': k + 1 \in DOMAIN steps /\ steps'[k] = steps[k + 1]
      /\ DOMAIN steps' \subseteq Nat \ {0}
      /\ \A k \in DOMAIN steps: k = 1 \/ (k - 1 \in DOMAIN steps' /\ steps[k] = steps'[k - 1])
      /\ o.op \in {"delta", "activity"} => Len(steps) = 1
  BY <1>1, RestOfSteps
<1> QED  BY <1>1, <1>2, <1>3, <1>4

(* Which turns were cut off, how the steps in hand stand to one another, and *)
(* that only turns that began are cached.                                    *)
CutTurns ==
  /\ \A t \in provider.cut: t \in Turns /\ t <= provider.turns /\ t # provider.turn
  /\ \A j \in DOMAIN events: events[j].type = "session.exited" => events[j].turn \in provider.cut
  /\ \A k \in DOMAIN steps: steps[k].op = "exit" => steps[k].turn \in provider.cut
Handling ==
  /\ \A j, k \in DOMAIN steps: steps[j].turn = steps[k].turn
  /\ \A k \in DOMAIN steps: LET o == steps[k] IN
       /\ o.op \in {"exit", "plan"} => k = Len(steps)
       /\ o.op = "propose" => Len(steps) = 1
       /\ o.op = "flush" => /\ k + 1 \in DOMAIN steps
                            /\ steps[k + 1].op = "complete" /\ steps[k + 1].item = o.item
       /\ o.op \in {"remember", "forget"} => o.item \in provider.closed
Begun == \A t \in Turns: caches.ids[t] # {} \/ caches.plan[t] # <<>> =>
  /\ t <= provider.turns
  /\ \A j \in DOMAIN events: t <= events[j].turn
  /\ \A k \in DOMAIN steps: t <= steps[k].turn
Ground == CutTurns /\ Handling /\ Begun

LEMMA SpeakingKeepsGround ==
  ASSUME Core, Ground, NEW e \in Event, Speaks(e) PROVE Ground'
<1>1. /\ UNCHANGED <<steps, caches, thread>> /\ Spoke(e) /\ Wellformed(e)
      /\ Len(events) + 1 \in DOMAIN events' /\ events'[Len(events) + 1] = e
      /\ \A k \in DOMAIN events: k \in DOMAIN events' /\ events'[k] = events[k]
      /\ \A k \in DOMAIN events': k \in DOMAIN events \/ k = Len(events) + 1
      /\ e.turn \in Turns /\ e.turn \in Nat \ {0} /\ e.turn = provider'.turns
      /\ provider.turns <= e.turn /\ provider'.turn \in {0, e.turn}
      /\ \A t \in Turns: t <= provider.turns /\ t # provider.turn => t # e.turn
  BY AfterSpeaking
<1>2. /\ provider.turns \in Nat /\ provider'.turns \in Nat
      /\ provider'.closed = provider.closed \union (IF e.type = "item.completed" THEN {e.item} ELSE {})
      /\ provider'.turn = IF e.type \in Ends THEN 0 ELSE e.turn
  BY DEF Speaks, Emitted, Core, Typed, Provider
<1>3. Turns \subseteq Nat \ {0}  BY DEF Turns
<1>4. /\ provider'.cut = provider.cut \union (IF e.type = "session.exited" THEN {e.turn} ELSE {})
  BY <1>1 DEF Spoke
<1>5. CutTurns'
  <2>1. ASSUME NEW t \in provider'.cut
        PROVE  t \in Turns /\ t <= provider'.turns /\ t # provider'.turn
    <3>1. CASE t \in provider.cut
      <4>1. t \in Turns /\ t <= provider.turns /\ t # provider.turn
        BY <3>1 DEF Ground, CutTurns
      <4> QED  BY <1>1, <1>2, <1>3, <4>1
    <3>2. CASE e.type = "session.exited" /\ t = e.turn
      <4>1. provider'.turn = 0  BY <1>2, <3>2 DEF Ends
      <4> QED  BY <1>1, <3>2, <4>1
    <3> QED  BY <1>4, <2>1, <3>1, <3>2
  <2>2. ASSUME NEW j \in DOMAIN events', events'[j].type = "session.exited"
        PROVE  events'[j].turn \in provider'.cut
    <3>1. CASE j \in DOMAIN events
      BY <1>1, <1>4, <2>2, <3>1 DEF Ground, CutTurns
    <3>2. CASE j = Len(events) + 1  BY <1>1, <1>4, <2>2, <3>2
    <3> QED  BY <1>1, <3>1, <3>2
  <2>3. \A k \in DOMAIN steps: steps[k].op = "exit" => steps[k].turn \in provider'.cut
    BY <1>4 DEF Ground, CutTurns
  <2> QED  BY <1>1, <2>1, <2>2, <2>3 DEF CutTurns
<1>6. Handling'
  BY <1>1, <1>2 DEF Ground, Handling
<1>7. Begun'
  <2> SUFFICES ASSUME NEW t \in Turns, caches.ids[t] # {} \/ caches.plan[t] # <<>>
               PROVE  /\ t <= provider'.turns
                      /\ \A j \in DOMAIN events': t <= events'[j].turn
                      /\ \A k \in DOMAIN steps: t <= steps[k].turn
    BY <1>1 DEF Begun
  <2>1. /\ t <= provider.turns
        /\ \A j \in DOMAIN events: t <= events[j].turn
        /\ \A k \in DOMAIN steps: t <= steps[k].turn
    BY DEF Ground, Begun
  <2>2. t <= e.turn  BY <1>1, <1>2, <1>3, <2>1
  <2> QED  BY <1>1, <2>1, <2>2
<1> QED  BY <1>5, <1>6, <1>7 DEF Ground

LEMMA TakingKeepsGround ==
  ASSUME Core, Ground, NEW e, Takes(e) PROVE Ground'
<1>1. /\ UNCHANGED <<provider, said, caches, thread>> /\ e = events[1] /\ 1 \in DOMAIN events
      /\ EventFits(e) /\ Wellformed(e) /\ Fits(steps', e) /\ Shapes(steps', e)
      /\ \A k \in DOMAIN events': k + 1 \in DOMAIN events /\ events'[k] = events[k + 1]
  BY AfterTaking
<1>2. CutTurns'
  <2>1. \A k \in DOMAIN steps': steps'[k].op = "exit" => steps'[k].turn \in provider.cut
    BY <1>1 DEF Fits, Ground, CutTurns
  <2>2. \A j \in DOMAIN events': events'[j].type = "session.exited" => events'[j].turn \in provider.cut
    BY <1>1 DEF Ground, CutTurns
  <2> QED  BY <1>1, <2>1, <2>2 DEF Ground, CutTurns
<1>3. Handling'
  <2>1. \A k \in DOMAIN steps': steps'[k].turn = e.turn  BY <1>1 DEF Fits
  <2>2. ASSUME NEW k \in DOMAIN steps', steps'[k].op \in {"remember", "forget"}
        PROVE  steps'[k].item \in provider.closed
    <3>1. e.type = "item.completed" /\ steps'[k].item = e.item  BY <1>1, <2>2 DEF Fits
    <3> QED  BY <1>1, <3>1 DEF EventFits
  <2>3. ASSUME NEW k \in DOMAIN steps'
        PROVE  LET o == steps'[k] IN
                 /\ o.op \in {"exit", "plan"} => k = Len(steps')
                 /\ o.op = "propose" => Len(steps') = 1
                 /\ o.op = "flush" => /\ k + 1 \in DOMAIN steps'
                                      /\ steps'[k + 1].op = "complete" /\ steps'[k + 1].item = o.item
    BY <1>1 DEF Shapes
  <2> QED  BY <1>1, <2>1, <2>2, <2>3 DEF Handling
<1>4. Begun'
  <2> SUFFICES ASSUME NEW t \in Turns, caches.ids[t] # {} \/ caches.plan[t] # <<>>
               PROVE  /\ t <= provider.turns
                      /\ \A j \in DOMAIN events': t <= events'[j].turn
                      /\ \A k \in DOMAIN steps': t <= steps'[k].turn
    BY <1>1 DEF Begun
  <2>1. t <= provider.turns /\ \A j \in DOMAIN events: t <= events[j].turn
    BY DEF Ground, Begun
  <2>2. \A k \in DOMAIN steps': steps'[k].turn = e.turn  BY <1>1 DEF Fits
  <2> QED  BY <1>1, <2>1, <2>2
<1> QED  BY <1>2, <1>3, <1>4 DEF Ground

LEMMA DoingKeepsGround ==
  ASSUME Core, Ground, NEW o \in Todo, Does(o) PROVE Ground'
<1>1. /\ UNCHANGED <<events, provider, said>> /\ StepFits(o) /\ o = steps[1]
      /\ IdsAfter(o) /\ PlanAfter(o) /\ 1 \in DOMAIN steps /\ o.turn \in Turns
      /\ Len(steps) \in Nat /\ Len(steps') = Len(steps) - 1 /\ (Len(steps) = 1 => DOMAIN steps' = {})
      /\ \A k \in DOMAIN steps: k \in 1 .. Len(steps)
      /\ \A k \in DOMAIN steps': k + 1 \in DOMAIN steps /\ steps'[k] = steps[k + 1] /\ k \in Nat \ {0}
      /\ \A k \in DOMAIN steps: k = 1 \/ (k - 1 \in DOMAIN steps' /\ steps[k] = steps'[k - 1])
  BY AfterDoing
<1>2. CutTurns'  BY <1>1 DEF Ground, CutTurns
<1>3. Handling'
  <2>1. \A j, k \in DOMAIN steps': steps'[j].turn = steps'[k].turn
    BY <1>1 DEF Ground, Handling
  <2>2. ASSUME NEW k \in DOMAIN steps'
        PROVE  LET s == steps'[k] IN
                 /\ s.op \in {"exit", "plan"} => k = Len(steps')
                 /\ s.op = "propose" => Len(steps') = 1
                 /\ s.op = "flush" => /\ k + 1 \in DOMAIN steps'
                                      /\ steps'[k + 1].op = "complete" /\ steps'[k + 1].item = s.item
                 /\ s.op \in {"remember", "forget"} => s.item \in provider.closed
    <3>1. PICK s: s = steps'[k]  OBVIOUS
    <3>2. s = steps[k + 1] /\ k + 1 \in DOMAIN steps /\ k \in Nat \ {0}  BY <1>1, <3>1
    <3>3. /\ s.op \in {"exit", "plan"} => k + 1 = Len(steps)
          /\ s.op = "propose" => Len(steps) = 1
          /\ s.op = "flush" => /\ (k + 1) + 1 \in DOMAIN steps
                               /\ steps[(k + 1) + 1].op = "complete"
                               /\ steps[(k + 1) + 1].item = s.item
          /\ s.op \in {"remember", "forget"} => s.item \in provider.closed
      BY <3>2 DEF Ground, Handling
    <3>4. s.op # "propose"  BY <1>1, <3>2, <3>3
    <3>5. s.op = "flush" => k + 1 \in DOMAIN steps' /\ steps[(k + 1) + 1] = steps'[k + 1]
      <4>1. (k + 1) + 1 # 1 /\ ((k + 1) + 1) - 1 = k + 1  BY <3>2
      <4> QED  BY <1>1, <3>3, <4>1
    <3> QED  BY <1>1, <3>1, <3>2, <3>3, <3>4, <3>5
  <2> QED  BY <1>1, <2>1, <2>2 DEF Handling
<1>4. Begun'
  <2> SUFFICES ASSUME NEW t \in Turns, caches'.ids[t] # {} \/ caches'.plan[t] # <<>>
               PROVE  /\ t <= provider.turns
                      /\ \A j \in DOMAIN events: t <= events[j].turn
                      /\ \A k \in DOMAIN steps': t <= steps'[k].turn
    BY <1>1 DEF Begun
  <2>1. \A k \in DOMAIN steps: steps[k].turn = o.turn  BY <1>1 DEF Ground, Handling
  <2>2. o.turn <= provider.turns /\ \A j \in DOMAIN events: o.turn <= events[j].turn
    BY <1>1 DEF StepFits
  <2>3. caches \in Caches  BY DEF Core, Typed
  <2>4. caches.ids[t] # {} \/ caches.plan[t] # <<>> \/ t = o.turn
    <3>1. ASSUME caches'.ids[t] # {}, t # o.turn PROVE caches.ids[t] # {}
      <4>1. caches.ids \in [Turns -> SUBSET Message]  BY <2>3 DEF Caches
      <4>2. CASE o.op = "forget"
        <5>1. caches'.ids = [caches.ids EXCEPT ![o.turn] = caches.ids[o.turn] \ {o.item}]
          BY <1>1, <4>2 DEF IdsAfter
        <5> QED  BY <3>1, <4>1, <5>1
      <4>3. CASE o.op \in {"delta", "remember"}
        <5>1. caches'.ids = [caches.ids EXCEPT ![o.turn] = caches.ids[o.turn] \union {o.item}]
          BY <1>1, <4>3 DEF IdsAfter
        <5> QED  BY <3>1, <4>1, <5>1
      <4>4. CASE o.op \in {"clear", "exit"}  BY <1>1, <3>1, <4>1, <4>4 DEF IdsAfter
      <4>5. CASE o.op \notin {"delta", "remember", "forget", "clear", "exit"}
        BY <1>1, <3>1, <4>5 DEF IdsAfter
      <4> QED  BY <4>2, <4>3, <4>4, <4>5
    <3>2. ASSUME caches'.plan[t] # <<>>, t # o.turn PROVE caches.plan[t] # <<>>
      <4>1. caches.plan \in [Turns -> Seq(Nat)]  BY <2>3 DEF Caches
      <4> QED  BY <1>1, <3>2, <4>1 DEF PlanAfter
    <3> QED  BY <3>1, <3>2
  <2>5. CASE t = o.turn
    <3>1. t \in Nat /\ \A k \in DOMAIN steps': steps'[k].turn = t  BY <1>1, <2>1, <2>5 DEF Turns
    <3> QED  BY <2>2, <2>5, <3>1
  <2>6. CASE caches.ids[t] # {} \/ caches.plan[t] # <<>>
    BY <1>1, <2>6 DEF Ground, Begun
  <2> QED  BY <2>4, <2>5, <2>6
<1> QED  BY <1>2, <1>3, <1>4 DEF Ground

(* What is cached when a session has ended is of the turn it cut off.        *)
LEMMA OnlyTheCutTurn ==
  ASSUME Core, Ground, Releasing, NEW o \in Todo, Does(o), o.op = "exit", NEW t \in Turns,
         caches.ids[t] # {} \/ caches.plan[t] # <<>>
  PROVE  t = o.turn /\ t \in provider.cut /\ Len(steps) = 1 /\ TurnPassed(t)
<1>1. /\ StepFits(o) /\ o = steps[1] /\ 1 \in DOMAIN steps /\ o.turn \in Turns
  BY AfterDoing
<1>2. Len(steps) = 1 /\ o.turn \in provider.cut /\ \A k \in DOMAIN steps: steps[k].turn = o.turn
  BY <1>1 DEF Ground, CutTurns, Handling
<1>3. t <= provider.turns /\ t <= o.turn  BY <1>1 DEF Ground, Begun
<1>4. TurnPassed(o.turn) /\ o.turn <= provider.turns /\ \A j \in DOMAIN events: o.turn <= events[j].turn
  BY <1>1 DEF StepFits
<1>5. EndComing(t) \/ Clears("clear", t) \/ Clears("plan", t)
  BY DEF Releasing, IdsReleased, PlansReleased
<1>6. CASE Clears("clear", t) \/ Clears("plan", t)  BY <1>2, <1>4, <1>6 DEF Clears
<1>7. ~EndComing(t)
  <2>1. t \in Nat \ {0} /\ o.turn \in Nat \ {0}  BY <1>1 DEF Turns
  <2>2. provider.turn \in {0, provider.turns} /\ provider.turns \in Nat
    BY DEF Core, Typed, Provider
  <2>3. provider.turn # t
    <3> SUFFICES ASSUME provider.turn = t PROVE FALSE  OBVIOUS
    <3>1. t = o.turn  BY <1>3, <1>4, <2>1, <2>2
    <3> QED  BY <1>4, <3>1 DEF TurnPassed
  <2>4. ASSUME NEW j \in DOMAIN events PROVE events[j].turn # t
    <3>1. events[j] \in Event  BY DEF Core, Order, EventFits, Wellformed
    <3>2. events[j].turn \in Nat  BY <3>1 DEF Event, Turns
    <3> QED  BY <1>3, <1>4, <2>1, <3>2 DEF TurnPassed
  <2> QED  BY <2>3, <2>4 DEF EndComing
<1> QED  BY <1>2, <1>4, <1>5, <1>6, <1>7

(* The pieces of a sequence, counted on: the first after n, the last m.      *)
Counts(s, n, m) == s \in Seq(Nat) /\ m = n + Len(s) /\ \A k \in DOMAIN s: s[k] = n + k

LEMMA CountsTo ==
  ASSUME NEW n \in Nat, NEW s, NEW m, Counts(s, n, m)
  PROVE  /\ s \in Seq(Nat) /\ Len(s) \in Nat /\ m \in Nat /\ m = n + Len(s) /\ n <= m
         /\ s = <<>> <=> n = m
<1>1. s \in Seq(Nat) /\ m = n + Len(s)  BY DEF Counts
<1>2. Len(s) \in Nat /\ (s = <<>> <=> Len(s) = 0)  BY <1>1, LenProperties, EmptySeq
<1> QED  BY <1>1, <1>2

LEMMA EmptyCounts == ASSUME NEW s, s = <<>> PROVE \A n \in Nat: Counts(s, n, n)
BY EmptySeq DEF Counts

LEMMA OneCounts == ASSUME NEW n \in Nat, NEW s, s = <<n + 1>> PROVE Counts(s, n, n + 1)
<1>1. n + 1 \in Nat /\ Len(s) = 1 /\ s[1] = n + 1 /\ s \in Seq(Nat)  OBVIOUS
<1>2. DOMAIN s = 1 .. 1  BY <1>1, LenProperties
<1> QED  BY <1>1, <1>2 DEF Counts

LEMMA ConcatCounts ==
  ASSUME NEW n \in Nat, NEW s, NEW t, NEW r, r = s \o t,
         NEW m, NEW l, Counts(s, n, m), Counts(t, m, l)
  PROVE  Counts(r, n, l)
<1>1. s \in Seq(Nat) /\ t \in Seq(Nat) /\ m = n + Len(s) /\ l = m + Len(t)  BY DEF Counts
<1>2. /\ r \in Seq(Nat) /\ Len(s) \in Nat
      /\ DOMAIN r \subseteq Nat
      /\ \A k \in DOMAIN r: \/ k \in DOMAIN s /\ r[k] = s[k]
                            \/ /\ k > Len(s) /\ k - Len(s) \in DOMAIN t
                               /\ r[k] = t[k - Len(s)]
  BY <1>1, PiecesOfConcat
<1>3. Len(r) = Len(s) + Len(t) /\ Len(t) \in Nat  BY <1>1, ConcatElements
<1>4. ASSUME NEW k \in DOMAIN r PROVE r[k] = n + k
  <2>1. CASE k \in DOMAIN s /\ r[k] = s[k]  BY <2>1 DEF Counts
  <2>2. CASE k - Len(s) \in DOMAIN t /\ r[k] = t[k - Len(s)]
    <3>1. r[k] = m + (k - Len(s))  BY <2>2 DEF Counts
    <3> QED  BY <1>1, <1>2, <3>1
  <2> QED  BY <1>2, <2>1, <2>2
<1>5. l = n + Len(r)  BY <1>1, <1>2, <1>3
<1> QED  BY <1>2, <1>4, <1>5 DEF Counts

LEMMA AppendCounts ==
  ASSUME NEW n \in Nat, NEW s, NEW m, NEW r, Counts(s, n, m), r = Append(s, m + 1)
  PROVE  Counts(r, n, m + 1)
<1>1. s \in Seq(Nat) /\ Len(s) \in Nat /\ m = n + Len(s)  BY LenProperties DEF Counts
<1>2. PICK p \in Nat: p = m + 1  BY <1>1
<1>3. /\ r \in Seq(Nat) /\ Len(r) = Len(s) + 1 /\ DOMAIN s = 1 .. Len(s)
      /\ DOMAIN r = 1 .. Len(s) + 1 /\ r[Len(s) + 1] = p
      /\ \A k \in DOMAIN s: r[k] = s[k]
  BY <1>1, <1>2, AppendElements
<1>4. ASSUME NEW k \in DOMAIN r PROVE r[k] = n + k
  <2>1. CASE k \in DOMAIN s  BY <1>3, <2>1 DEF Counts
  <2>2. CASE k = Len(s) + 1  BY <1>1, <1>2, <1>3, <2>2
  <2> QED  BY <1>1, <1>3, <2>1, <2>2
<1>5. m + 1 = n + Len(r)  BY <1>1, <1>3
<1> QED  BY <1>3, <1>4, <1>5 DEF Counts

LEMMA CountedPieces == ASSUME NEW s, NEW m, Counts(s, 0, m) PROVE s = Pieces(m)
<1>1. s \in Seq(Nat) /\ m = 0 + Len(s)  BY DEF Counts
<1>2. Len(s) \in Nat /\ DOMAIN s = 1 .. Len(s) /\ s \in [1 .. Len(s) -> Nat]
  BY <1>1, LenProperties
<1>3. \A k \in 1 .. Len(s): s[k] = k  BY <1>2 DEF Counts
<1>4. s = [k \in 1 .. Len(s) |-> s[k]] /\ m = Len(s)  BY <1>1, <1>2
<1> QED  BY <1>2, <1>3, <1>4 DEF Pieces

LEMMA PiecesCount ==
  ASSUME NEW n \in Nat, NEW s, s = Pieces(n) PROVE Counts(s, 0, n) /\ (s = <<>> <=> n = 0)
<1>1. s \in Seq(Nat)  BY PiecesTyped
<1>2. DOMAIN s = 1 .. n /\ \A k \in 1 .. n: s[k] = k  BY DEF Pieces
<1>3. Len(s) = n  BY <1>1, <1>2, LenProperties
<1>4. s = <<>> <=> n = 0  BY <1>1, <1>3, EmptySeq
<1> QED  BY <1>1, <1>2, <1>3, <1>4 DEF Counts

(* Pieces that are all below a number: so is the last.                       *)
LEMMA CountedBelow ==
  ASSUME NEW n \in Nat, NEW s, NEW m, Counts(s, n, m), NEW l \in Nat, Below(s, l)
  PROVE  m = n \/ m < l
<1>1. s \in Seq(Nat) /\ m = n + Len(s)  BY DEF Counts
<1>2. Len(s) \in Nat /\ DOMAIN s = 1 .. Len(s)  BY <1>1, LenProperties
<1>3. Len(s) > 0 => Len(s) \in DOMAIN s  BY <1>2
<1> QED  BY <1>1, <1>2, <1>3 DEF Counts, Below

(* What is held of a text: in the thread and, after it, in the buffer.       *)
Uncut(i) == i \in provider.closed \/ provider.of[i] \notin provider.cut
Kept(i)  == IF i \in Message THEN caches.buffer[i] ELSE <<>>
Held(i)  == Len(thread.text[i]) + Len(Kept(i))
Whole(i) == /\ Counts(thread.text[i], 0, Len(thread.text[i]))
            /\ Counts(Kept(i), Len(thread.text[i]), Held(i))
            /\ Held(i) <= said.text[i]

LEMMA HeldIs ==
  ASSUME Typed, NEW i \in Item
  PROVE  /\ thread.text[i] \in Seq(Nat) /\ Kept(i) \in Seq(Nat) /\ said.text[i] \in Nat
         /\ Len(thread.text[i]) \in Nat /\ Len(Kept(i)) \in Nat /\ Held(i) \in Nat
         /\ Held(i) = Len(thread.text[i]) + Len(Kept(i))
         /\ Kept(i) = <<>> => Held(i) = Len(thread.text[i])
         /\ Held(i) = 0 <=> thread.text[i] = <<>> /\ Kept(i) = <<>>
<1>1. thread.text[i] \in Seq(Nat) /\ said.text[i] \in Nat
  BY DEF Typed, Thread, Said
<1>2. Kept(i) \in Seq(Nat)  BY EmptySeq DEF Typed, Caches, Kept
<1>3. Len(thread.text[i]) \in Nat /\ Len(Kept(i)) \in Nat  BY <1>1, <1>2, LenProperties
<1>4. (thread.text[i] = <<>> <=> Len(thread.text[i]) = 0) /\ (Kept(i) = <<>> <=> Len(Kept(i)) = 0)
  BY <1>1, <1>2, EmptySeq
<1>5. PICK a \in Nat, b \in Nat: a = Len(thread.text[i]) /\ b = Len(Kept(i))  BY <1>3
<1>6. Held(i) = a + b  BY <1>5 DEF Held
<1> QED  BY <1>1, <1>2, <1>4, <1>5, <1>6

(* Every piece that was said is held or still to come: in the step in hand,  *)
(* in an event, with the end of its item, or with the flush that follows.    *)
DeltaComing(i) == \E j \in DOMAIN events: events[j].type = "content.delta" /\ events[j].item = i
ItemComing(i)  == \E j \in DOMAIN events: events[j].type = "item.completed" /\ events[j].item = i
EventTexts == \A j \in DOMAIN events: LET e == events[j] IN
  /\ e.type = "content.delta" => e.n # 0
  /\ e.type = "item.completed" => e.n \in {0, said.text[e.item]}
StepText(i) == \A k \in DOMAIN steps: LET o == steps[k] IN o.item = i =>
  /\ o.op = "delta" => o.text = <<Held(i) + 1>> /\ Held(i) < said.text[i]
  /\ o.op = "activity" =>
       o.text = Append(thread.text[i], Held(i) + 1) /\ Held(i) < said.text[i]
  /\ o.op = "flush" /\ o.text # <<>> => o.text = Pieces(said.text[i])
Coming(i, n) ==
  \/ \E k \in DOMAIN steps: /\ steps[k].op \in {"delta", "activity"} /\ steps[k].item = i
                            /\ n = Held(i) + 1
  \/ \E j \in DOMAIN events: /\ events[j].type = "content.delta" /\ events[j].item = i
                             /\ n = events[j].n
  \/ \E j \in DOMAIN events: /\ events[j].type = "item.completed" /\ events[j].item = i
                             /\ events[j].n = n /\ n = 1 /\ ~DeltaComing(i)
  \/ \E k \in DOMAIN steps: /\ steps[k].op = "flush" /\ steps[k].item = i
                            /\ steps[k].text # <<>> /\ Held(i) = 0
Covered(i) == \A n \in 1 .. said.text[i]: n <= Held(i) \/ Coming(i, n)
(* What was finished leaves nothing in its buffer.                           *)
Flushing == \A i \in Message: i \in provider.closed =>
  \/ ItemComing(i) \/ Has(steps, "flush", i)
  \/ caches.buffer[i] = <<>> /\ NothingMore(i) /\ ~Has(steps, "delta", i)
Texts == EventTexts /\ Flushing
         /\ \A i \in Item: Uncut(i) => Whole(i) /\ StepText(i) /\ Covered(i)

LEMMA SpeakingKeepsTexts ==
  ASSUME Core, Ground, Texts, NEW e \in Event, Speaks(e) PROVE Texts'
<1>1. /\ UNCHANGED <<steps, caches, thread>> /\ Spoke(e) /\ Wellformed(e) /\ Typed
      /\ Len(events) \in Nat /\ Len(events) + 1 \in DOMAIN events'
      /\ DOMAIN events = 1 .. Len(events) /\ events'[Len(events) + 1] = e
      /\ \A k \in DOMAIN events: k \in DOMAIN events' /\ events'[k] = events[k]
      /\ \A k \in DOMAIN events': k \in DOMAIN events \/ k = Len(events) + 1
      /\ \A i \in Item: NothingMore(i) => NothingMore(i)'
  BY AfterSpeaking DEF Core
<1>2. /\ \A i \in Item: provider'.of[i] = IF e.type \in ItemTypes /\ e.item = i THEN e.turn
                                          ELSE provider.of[i]
      /\ e.type \in ItemTypes => Writable(e.item) /\ e.item \in Item
      /\ provider'.closed = provider.closed \union (IF e.type = "item.completed" THEN {e.item} ELSE {})
      /\ provider'.cut = provider.cut \union (IF e.type = "session.exited" THEN {e.turn} ELSE {})
      /\ e.type # "turn.started" => provider.turn = e.turn
      /\ \A i \in Item: said.text[i] <= said'.text[i]
      /\ \A i \in Item: said'.text[i] \in Nat /\ said.text[i] \in Nat
  BY <1>1 DEF Speaks, Emitted, Spoke, ItemTypes, Wellformed, Item, Said, Typed
<1>3. ASSUME NEW i \in Item
      PROVE  /\ Kept(i)' = Kept(i) /\ Held(i)' = Held(i) /\ Held(i) \in Nat
             /\ thread'.text[i] = thread.text[i]
  BY <1>1, HeldIs DEF Held, Kept
<1>4. ASSUME e.type \in ItemTypes
      PROVE  /\ e.item \notin provider.closed /\ Uncut(e.item)
             /\ \A j \in DOMAIN events: ~(events[j].type = "item.completed" /\ events[j].item = e.item)
             /\ \A k \in DOMAIN steps: ~(steps[k].op = "flush" /\ steps[k].item = e.item)
  <2>1. /\ provider.of[e.item] \in {0, provider.turn} /\ e.item \notin provider.closed
        /\ provider.turn # 0
    BY <1>2, <1>4 DEF Writable
  <2>2. \A t \in provider.cut: t \in Turns /\ t # provider.turn  BY DEF Ground, CutTurns
  <2>3. 0 \notin Turns  BY DEF Turns
  <2>4. Uncut(e.item)  BY <2>1, <2>2, <2>3 DEF Uncut
  <2>5. \A j \in DOMAIN events: events[j].type = "item.completed" => events[j].item \in provider.closed
    BY DEF Core, Order, EventFits
  <2>6. \A k \in DOMAIN steps: steps[k].op = "flush" => NothingMore(steps[k].item)
    BY DEF Core, Todos, StepFits
  <2>7. ~NothingMore(e.item)  BY <2>1 DEF NothingMore
  <2> QED  BY <2>1, <2>4, <2>5, <2>6, <2>7
<1>5. ASSUME NEW j \in DOMAIN events
      PROVE  /\ events[j].type = "content.delta" =>
                  events[j].n # 0 /\ events[j].n <= said.text[events[j].item]
             /\ events[j].type = "item.completed" => events[j].n \in {0, said.text[events[j].item]}
             /\ events[j].type \in ItemTypes => events[j].item \in Item
             /\ events[j] \in Event
  BY DEF Texts, EventTexts, Core, Order, EventFits, Wellformed, ItemTypes, Item
<1>6. ASSUME NEW i \in Item, ~(e.type \in ItemTypes /\ e.item = i) PROVE said'.text[i] = said.text[i]
  BY <1>1, <1>6 DEF Spoke
<1>7. EventTexts'
  <2> SUFFICES ASSUME NEW j \in DOMAIN events'
               PROVE  /\ events'[j].type = "content.delta" => events'[j].n # 0
                      /\ events'[j].type = "item.completed" =>
                           events'[j].n \in {0, said'.text[events'[j].item]}
    BY DEF EventTexts
  <2>1. CASE j \in DOMAIN events
    <3>1. PICK d \in Event: d = events[j] /\ d = events'[j]  BY <1>1, <1>5, <2>1
    <3>2. d.type = "item.completed" => said'.text[d.item] = said.text[d.item]
      <4> SUFFICES ASSUME d.type = "item.completed" PROVE said'.text[d.item] = said.text[d.item]
        OBVIOUS
      <4>1. d.item \in Item /\ ~(e.type \in ItemTypes /\ e.item = d.item)
        BY <1>4, <1>5, <2>1, <3>1 DEF ItemTypes
      <4> QED  BY <1>6, <4>1
    <3> QED  BY <1>5, <2>1, <3>1, <3>2
  <2>2. CASE j = Len(events) + 1
    <3>1. events'[j] = e  BY <1>1, <2>2
    <3>2. e.type = "content.delta" => e.n = said.text[e.item] + 1 /\ e.item \in Item
      BY <1>1, <1>2 DEF Spoke, ItemTypes
    <3>3. e.type = "content.delta" => e.n # 0  BY <1>2, <3>2
    <3>4. e.type = "item.completed" => e.n \in {0, said'.text[e.item]}  BY <1>1 DEF Spoke
    <3> QED  BY <3>1, <3>3, <3>4
  <2> QED  BY <1>1, <2>1, <2>2
<1>8. Flushing'
  <2> SUFFICES ASSUME NEW i \in Message, i \in provider'.closed
               PROVE  \/ ItemComing(i)' \/ Has(steps, "flush", i)
                      \/ caches.buffer[i] = <<>> /\ NothingMore(i)' /\ ~Has(steps, "delta", i)
    BY <1>1 DEF Flushing, Has
  <2>1. CASE i \in provider.closed
    <3>1. ItemComing(i) => ItemComing(i)'  BY <1>1 DEF ItemComing
    <3>2. i \in Item  BY DEF Item
    <3> QED  BY <1>1, <2>1, <3>1, <3>2 DEF Texts, Flushing
  <2>2. CASE i \notin provider.closed
    <3>1. e.type = "item.completed" /\ e.item = i  BY <1>2, <2>2
    <3>2. ItemComing(i)'  BY <1>1, <3>1 DEF ItemComing
    <3> QED  BY <3>2
  <2> QED  BY <2>1, <2>2
<1>9. ASSUME NEW i \in Item, Uncut(i)' PROVE Whole(i)' /\ StepText(i)' /\ Covered(i)'
  <2>1. Uncut(i)
    <3>1. CASE e.type \in ItemTypes /\ e.item = i  BY <1>4, <3>1
    <3>2. CASE ~(e.type \in ItemTypes /\ e.item = i)
      <4>1. provider'.of[i] = provider.of[i]  BY <1>2, <3>2
      <4>2. i \in provider'.closed => i \in provider.closed  BY <1>2, <3>2 DEF ItemTypes
      <4> QED  BY <1>2, <1>9, <4>1, <4>2 DEF Uncut
    <3> QED  BY <3>1, <3>2
  <2>2. Whole(i) /\ StepText(i) /\ Covered(i)  BY <2>1 DEF Texts
  <2>3. PICK h \in Nat: h = Held(i) /\ h = Held(i)'  BY <1>3
  <2>4. PICK s \in Nat, s2 \in Nat: s = said.text[i] /\ s2 = said'.text[i] /\ s <= s2
    BY <1>2
  <2>5. Whole(i)'
    <3>1. h <= s2  BY <2>2, <2>3, <2>4 DEF Whole
    <3> QED  BY <1>3, <2>2, <2>3, <2>4, <3>1 DEF Whole
  <2>6. StepText(i)'
    <3> SUFFICES ASSUME NEW k \in DOMAIN steps, steps[k].item = i
                 PROVE  /\ steps[k].op = "delta" => steps[k].text = <<h + 1>> /\ h < s2
                        /\ steps[k].op = "activity" =>
                             steps[k].text = Append(thread.text[i], h + 1) /\ h < s2
                        /\ steps[k].op = "flush" /\ steps[k].text # <<>> =>
                             steps[k].text = Pieces(s2)
      BY <1>1, <2>3, <2>4 DEF StepText
    <3>1. /\ steps[k].op = "delta" => steps[k].text = <<h + 1>> /\ h < s
          /\ steps[k].op = "activity" => steps[k].text = Append(thread.text[i], h + 1) /\ h < s
          /\ steps[k].op = "flush" /\ steps[k].text # <<>> => steps[k].text = Pieces(s)
      BY <2>2, <2>3, <2>4 DEF StepText
    <3>2. steps[k].op = "flush" => s2 = s  BY <1>4, <1>6, <2>4
    <3> QED  BY <2>4, <3>1, <3>2
  <2>7. Covered(i)'
    <3> SUFFICES ASSUME NEW n \in 1 .. s2 PROVE n <= h \/ Coming(i, n)'
      BY <2>3, <2>4 DEF Covered
    <3>1. CASE n <= s
      <4>1. n \in 1 .. s  BY <3>1
      <4>2. n <= h \/ Coming(i, n)  BY <2>2, <2>3, <2>4, <4>1 DEF Covered
      <4>3. CASE \/ \E k \in DOMAIN steps: /\ steps[k].op \in {"delta", "activity"} /\ steps[k].item = i
                                           /\ n = Held(i) + 1
                 \/ \E k \in DOMAIN steps: /\ steps[k].op = "flush" /\ steps[k].item = i
                                           /\ steps[k].text # <<>> /\ Held(i) = 0
        BY <1>1, <2>3, <4>3 DEF Coming
      <4>4. CASE \E j \in DOMAIN events: /\ events[j].type = "content.delta" /\ events[j].item = i
                                         /\ n = events[j].n
        BY <1>1, <4>4 DEF Coming
      <4>5. CASE \E j \in DOMAIN events: /\ events[j].type = "item.completed" /\ events[j].item = i
                                         /\ events[j].n = n /\ n = 1 /\ ~DeltaComing(i)
        <5>1. PICK j \in DOMAIN events: /\ events[j].type = "item.completed" /\ events[j].item = i
                                        /\ events[j].n = n /\ n = 1
          BY <4>5
        <5>2. ~(e.type \in ItemTypes /\ e.item = i)  BY <1>4, <5>1
        <5>3. ~DeltaComing(i)'  BY <1>1, <4>5, <5>2 DEF DeltaComing, ItemTypes
        <5>4. j \in DOMAIN events' /\ events'[j] = events[j]  BY <1>1
        <5> QED  BY <5>1, <5>3, <5>4 DEF Coming
      <4> QED  BY <4>2, <4>3, <4>4, <4>5 DEF Coming
    <3>2. CASE ~(n <= s)
      <4>1. e.type \in ItemTypes /\ e.item = i  BY <1>6, <2>4, <3>2
      <4>2. CASE e.type = "content.delta"
        <5>1. e.n = s + 1 /\ e.n = s2  BY <1>1, <2>4, <4>1, <4>2 DEF Spoke, Speaks, Emitted
        <5>2. n = e.n  BY <2>4, <3>2, <5>1
        <5> QED  BY <1>1, <4>1, <4>2, <5>2 DEF Coming
      <4>3. CASE e.type = "item.completed"
        <5>1. \/ s2 = s
              \/ e.n = (IF s = 0 THEN 1 ELSE s) /\ e.n = s2
          BY <1>1, <2>4, <4>1, <4>3 DEF Spoke
        <5>2. s = 0 /\ s2 = 1 /\ e.n = 1 /\ n = 1  BY <2>4, <3>2, <5>1
        <5>3. ~DeltaComing(i)'
          <6>1. ASSUME NEW j \in DOMAIN events', events'[j].type = "content.delta", events'[j].item = i
                PROVE  FALSE
            <7>1. j \in DOMAIN events /\ events[j] = events'[j]  BY <1>1, <4>3, <6>1
            <7>2. events[j].n # 0 /\ events[j].n <= 0 /\ events[j] \in Event
              BY <1>5, <2>4, <5>2, <6>1, <7>1
            <7> QED  BY <7>2 DEF Event
          <6> QED  BY <6>1 DEF DeltaComing
        <5> QED  BY <1>1, <4>1, <4>3, <5>2, <5>3 DEF Coming
      <4> QED  BY <4>1, <4>2, <4>3 DEF ItemTypes
    <3> QED  BY <3>1, <3>2
  <2> QED  BY <2>5, <2>6, <2>7
<1> QED  BY <1>7, <1>8, <1>9 DEF Texts

(* The piece in an event is the next one when the event is taken.            *)
LEMMA NextPiece ==
  ASSUME Core, Spoken, Texts, NEW e, Takes(e), e.type = "content.delta", Uncut(e.item)
  PROVE  e.n = Held(e.item) + 1 /\ Held(e.item) < said.text[e.item]
<1>1. /\ DOMAIN steps = {} /\ e = events[1] /\ 1 \in DOMAIN events /\ EventFits(e)
      /\ e.item \in Item /\ e \in Event /\ Typed
      /\ \A k \in DOMAIN events': Precedes(e, events'[k])
      /\ \A k \in DOMAIN events: k = 1 \/ (k - 1 \in DOMAIN events' /\ events[k] = events'[k - 1])
  BY AfterTaking DEF Core, Wellformed
<1>2. PICK i \in Item: i = e.item  BY <1>1
<1>3. /\ thread.text[i] \in Seq(Nat) /\ Kept(i) \in Seq(Nat) /\ said.text[i] \in Nat
      /\ Len(thread.text[i]) \in Nat /\ Len(Kept(i)) \in Nat /\ Held(i) \in Nat
      /\ Held(i) = Len(thread.text[i]) + Len(Kept(i))
  BY <1>1, HeldIs
<1>4. Whole(i) /\ Covered(i)  BY <1>2 DEF Texts
<1>5. PICK n \in Nat: n = e.n /\ n # 0 /\ n <= said.text[i]
  BY <1>1, <1>2 DEF Event, EventFits, Texts, EventTexts
<1>6. Below(thread.text[i], n) /\ Below(Kept(i), n)
  <2>1. /\ Below(thread.text[i], n) /\ (i \in Message => Below(caches.buffer[i], n))
    BY <1>1, <1>2, <1>5 DEF Spoken, EventsSpoken
  <2>2. Below(<<>>, n)  BY EmptyBounded
  <2> QED  BY <2>1, <2>2 DEF Kept
<1>7. Held(i) < n
  <2>1. PICK a \in Nat, h \in Nat: a = Len(thread.text[i]) /\ h = Held(i)  BY <1>3
  <2>2. Counts(thread.text[i], 0, a) /\ Counts(Kept(i), a, h)  BY <1>4, <2>1 DEF Whole
  <2>3. (a = 0 \/ a < n) /\ (h = a \/ h < n)  BY <1>6, <2>2, CountedBelow
  <2> QED  BY <1>5, <2>1, <2>3
<1>8. PICK h \in Nat: h = Held(i)  BY <1>3
<1>9. h + 1 \in 1 .. said.text[i]  BY <1>3, <1>5, <1>7, <1>8
<1>10. Coming(i, h + 1)
  <2>1. h + 1 <= Held(i) \/ Coming(i, h + 1)  BY <1>4, <1>9 DEF Covered
  <2> QED  BY <1>8, <2>1
<1>11. DeltaComing(i)  BY <1>1, <1>2 DEF DeltaComing
<1>12. PICK j \in DOMAIN events: /\ events[j].type = "content.delta" /\ events[j].item = i
                                 /\ h + 1 = events[j].n
  BY <1>1, <1>10, <1>11 DEF Coming
<1>13. n = h + 1
  <2>1. CASE j = 1  BY <1>1, <1>5, <1>12, <2>1
  <2>2. CASE j # 1
    <3>1. j - 1 \in DOMAIN events' /\ events[j] = events'[j - 1]  BY <1>1, <2>2
    <3>2. Precedes(e, events[j])  BY <1>1, <3>1
    <3>3. n < h + 1  BY <1>2, <1>5, <1>12, <3>2 DEF Precedes
    <3> QED  BY <1>7, <1>8, <3>3
  <2> QED  BY <2>1, <2>2
<1>14. PICK m \in Nat: m = said.text[i]  BY <1>3
<1>15. h < m  BY <1>5, <1>13, <1>14
<1>16. e.n = h + 1  BY <1>5, <1>13
<1>17. h = Held(e.item) /\ m = said.text[e.item]  BY <1>2, <1>8, <1>14
<1> HIDE <1>2
<1> QED  BY <1>15, <1>16, <1>17

LEMMA TakingKeepsTexts ==
  ASSUME Core, Spoken, Texts, NEW e, Takes(e) PROVE Texts'
<1>1. /\ UNCHANGED <<provider, said, caches, thread>> /\ DOMAIN steps = {}
      /\ e = events[1] /\ 1 \in DOMAIN events /\ EventFits(e) /\ Wellformed(e) /\ e \in Event
      /\ Fits(steps', e) /\ Shapes(steps', e) /\ Typed
      /\ \A k \in DOMAIN events: k \in Nat \ {0}
      /\ \A k \in DOMAIN events': /\ k + 1 \in DOMAIN events /\ events'[k] = events[k + 1]
                                  /\ k \in Nat \ {0} /\ Precedes(e, events'[k])
      /\ \A k \in DOMAIN events: k = 1 \/ (k - 1 \in DOMAIN events' /\ events[k] = events'[k - 1])
  BY AfterTaking DEF Core
<1>2. ASSUME NEW i \in Item
      PROVE  /\ Kept(i)' = Kept(i) /\ Held(i)' = Held(i) /\ Held(i) \in Nat
             /\ thread'.text[i] = thread.text[i] /\ said'.text[i] = said.text[i]
             /\ said.text[i] \in Nat /\ (Uncut(i)' <=> Uncut(i))
  BY <1>1, HeldIs DEF Held, Kept, Uncut
<1>3. EventTexts'  BY <1>1 DEF Texts, EventTexts
<1>4. \A i \in Item: DeltaComing(i)' => DeltaComing(i)  BY <1>1 DEF DeltaComing
<1>5. e.type = "item.completed" => Has(steps', "flush", e.item)
  BY <1>1 DEF Shapes, Has
<1>6. Flushing'
  <2> SUFFICES ASSUME NEW i \in Message, i \in provider.closed
               PROVE  \/ ItemComing(i)' \/ Has(steps', "flush", i)
                      \/ caches.buffer[i] = <<>> /\ NothingMore(i)' /\ ~Has(steps', "delta", i)
    BY <1>1 DEF Flushing, Has
  <2>1. ~Has(steps, "flush", i)  BY <1>1 DEF Has
  <2>2. CASE ItemComing(i)
    <3>1. PICK j \in DOMAIN events: events[j].type = "item.completed" /\ events[j].item = i
      BY <2>2 DEF ItemComing
    <3>2. CASE j = 1  BY <1>1, <1>5, <3>1, <3>2
    <3>3. CASE j # 1
      <4>1. j - 1 \in DOMAIN events' /\ events[j] = events'[j - 1]  BY <1>1, <3>3
      <4> QED  BY <3>1, <4>1 DEF ItemComing
    <3> QED  BY <3>2, <3>3
  <2>3. CASE caches.buffer[i] = <<>> /\ NothingMore(i)
    <3>1. NothingMore(i)'  BY <1>1, <2>3 DEF NothingMore
    <3>2. e.item # i  BY <1>1, <2>3 DEF NothingMore
    <3>3. ~Has(steps', "delta", i)  BY <1>1, <3>2 DEF Has, Fits
    <3> QED  BY <2>3, <3>1, <3>3
  <2> QED  BY <2>1, <2>2, <2>3 DEF Texts, Flushing
<1>7. ASSUME NEW i \in Item, Uncut(i) PROVE Whole(i)' /\ StepText(i)' /\ Covered(i)'
  <2>1. Whole(i) /\ StepText(i) /\ Covered(i)  BY <1>7 DEF Texts
  <2>2. PICK h \in Nat: h = Held(i) /\ h = Held(i)'  BY <1>2
  <2>3. PICK s \in Nat: s = said.text[i] /\ s = said'.text[i]  BY <1>2
  <2>4. Whole(i)'  BY <1>2, <2>1 DEF Whole
  <2>5. e.type = "content.delta" /\ e.item = i => e.n = h + 1 /\ h < s
    BY <1>7, <2>2, <2>3, NextPiece
  <2>6. StepText(i)'
    <3> SUFFICES ASSUME NEW k \in DOMAIN steps', steps'[k].item = i
                 PROVE  /\ steps'[k].op = "delta" => steps'[k].text = <<h + 1>> /\ h < s
                        /\ steps'[k].op = "activity" =>
                             steps'[k].text = Append(thread.text[i], h + 1) /\ h < s
                        /\ steps'[k].op = "flush" /\ steps'[k].text # <<>> =>
                             steps'[k].text = Pieces(s)
      BY <1>1, <2>2, <2>3 DEF StepText
    <3>1. CASE steps'[k].op \in {"delta", "activity"}
      <4>1. e.type = "content.delta" /\ e.item = i  BY <1>1, <3>1 DEF Fits
      <4>2. /\ steps'[k].op = "delta" => steps'[k].text = <<e.n>>
            /\ steps'[k].op = "activity" => steps'[k].text = Append(thread.text[e.item], e.n)
        BY <1>1 DEF Fits
      <4> QED  BY <2>5, <3>1, <4>1, <4>2
    <3>2. CASE steps'[k].op = "flush" /\ steps'[k].text # <<>>
      <4>1. e.type = "item.completed" /\ steps'[k].text = Fallback(e) /\ e.item = i
        BY <1>1, <3>2 DEF Fits
      <4>2. PICK n \in Nat: n = e.n  BY <1>1 DEF Event
      <4>3. steps'[k].text = Pieces(n)  BY <3>2, <4>1, <4>2 DEF Fallback
      <4>4. n # 0  BY <3>2, <4>3, PiecesCount
      <4>5. n \in {0, said.text[i]}  BY <1>1, <4>1, <4>2 DEF Texts, EventTexts
      <4> QED  BY <2>3, <3>2, <4>3, <4>4, <4>5
    <3>3. CASE ~(steps'[k].op \in {"delta", "activity"})
               /\ ~(steps'[k].op = "flush" /\ steps'[k].text # <<>>)
      BY <3>3
    <3> QED  BY <3>1, <3>2, <3>3
  <2>7. Covered(i)'
    <3> SUFFICES ASSUME NEW n \in 1 .. s, ~(n <= h) PROVE Coming(i, n)'
      BY <2>2, <2>3 DEF Covered
    <3>1. Coming(i, n)  BY <2>1, <2>2, <2>3 DEF Covered
    <3>2. CASE \E j \in DOMAIN events: /\ events[j].type = "content.delta" /\ events[j].item = i
                                       /\ n = events[j].n
      <4>1. PICK j \in DOMAIN events: /\ events[j].type = "content.delta" /\ events[j].item = i
                                      /\ n = events[j].n
        BY <3>2
      <4>2. CASE j = 1
        <5>1. n = h + 1  BY <1>1, <2>5, <4>1, <4>2
        <5>2. 1 \in DOMAIN steps' /\ steps'[1].item = i /\ steps'[1].op \in {"delta", "activity"}
          BY <1>1, <4>1, <4>2 DEF Shapes
        <5> QED  BY <2>2, <5>1, <5>2 DEF Coming
      <4>3. CASE j # 1
        <5>1. j - 1 \in DOMAIN events' /\ events[j] = events'[j - 1]  BY <1>1, <4>3
        <5> QED  BY <4>1, <5>1 DEF Coming
      <4> QED  BY <4>2, <4>3
    <3>3. CASE \E j \in DOMAIN events: /\ events[j].type = "item.completed" /\ events[j].item = i
                                       /\ events[j].n = n /\ n = 1 /\ ~DeltaComing(i)
      <4>1. PICK j \in DOMAIN events: /\ events[j].type = "item.completed" /\ events[j].item = i
                                      /\ events[j].n = n /\ n = 1
        BY <3>3
      <4>2. CASE j = 1
        <5>1. PICK k \in DOMAIN steps': /\ steps'[k].op = "flush" /\ steps'[k].item = i
                                        /\ steps'[k].text = Fallback(e)
          BY <1>1, <4>1, <4>2 DEF Shapes
        <5>2. h = 0  BY <3>3, <4>1
        <5>3. thread.text[i] = <<>>  BY <1>1, <2>2, <5>2, HeldIs
        <5>4. PICK m \in Nat: m = e.n /\ m = 1  BY <1>1, <4>1, <4>2
        <5>5. Fallback(e) = Pieces(m)  BY <1>1, <4>1, <4>2, <5>3, <5>4 DEF Fallback
        <5>6. steps'[k].text # <<>>  BY <5>1, <5>4, <5>5, PiecesCount
        <5> QED  BY <2>2, <5>1, <5>2, <5>6 DEF Coming
      <4>3. CASE j # 1
        <5>1. j - 1 \in DOMAIN events' /\ events[j] = events'[j - 1]  BY <1>1, <4>3
        <5>2. ~DeltaComing(i)'  BY <1>4, <3>3
        <5> QED  BY <4>1, <5>1, <5>2 DEF Coming
      <4> QED  BY <4>2, <4>3
    <3> QED  BY <1>1, <3>1, <3>2, <3>3 DEF Coming
  <2> QED  BY <2>4, <2>6, <2>7
<1>8. \A i \in Item: Uncut(i)' => Whole(i)' /\ StepText(i)' /\ Covered(i)'
  BY <1>2, <1>7
<1> QED  BY <1>3, <1>6, <1>8 DEF Texts

(* What a step of the handler makes of a text.                               *)
Moved(o, i) ==
  /\ Whole(i)' /\ Held(i) <= Held(i)' /\ Held(i)' \in Nat
  /\ o.op \in {"delta", "activity"} /\ o.item = i => Held(i)' = Held(i) + 1
  /\ o.op = "flush" /\ o.item = i => caches'.buffer[i] = <<>>
  /\ o.op = "flush" /\ o.item = i /\ o.text # <<>> /\ Held(i) = 0 => Held(i)' = said.text[i]
  /\ ~(o.op \in {"delta", "activity", "flush"} /\ o.item = i) =>
       Held(i)' = Held(i) /\ (i \in Message => caches'.buffer[i] = caches.buffer[i])

LEMMA OthersAreUnmoved ==
  ASSUME Core, Ground, Releasing, Texts, NEW o \in Todo, Does(o), NEW i \in Item, Uncut(i),
         ~(o.op \in {"delta", "activity", "flush"} /\ o.item = i)
  PROVE  Moved(o, i)
<1>1. /\ UNCHANGED <<events, provider, said>> /\ StepFits(o) /\ o = steps[1] /\ 1 \in DOMAIN steps
      /\ Wrote(o) /\ BufferAfter(o) /\ \A k \in DOMAIN steps: k \in 1 .. Len(steps)
      /\ caches \in Caches /\ thread \in Thread /\ Typed
  BY AfterDoing DEF Core, Typed
<1>2. o.op \in {"delta", "flush"} => o.item # i /\ o.item \in Message /\ o.item \in Item
  BY <1>1 DEF StepFits, ItemOps, Item
<1>3. thread'.text[i] = thread.text[i]
  <2>1. thread.text \in [Item -> Seq(Nat)]  BY <1>1 DEF Thread
  <2>2. CASE o.op = "delta"
    <3>1. \/ thread'.text = thread.text
          \/ thread'.text = [thread.text EXCEPT ![o.item] = thread.text[o.item] \o o.text]
          \/ thread'.text = [thread.text EXCEPT ![o.item] =
               thread.text[o.item] \o (caches.buffer[o.item] \o o.text)]
      BY <1>1, <2>2 DEF Wrote
    <3> QED  BY <1>2, <2>1, <2>2, <3>1
  <2>3. CASE o.op = "flush"
    <3>1. PICK x: thread'.text = [thread.text EXCEPT ![o.item] = x]  BY <1>1, <2>3 DEF Wrote
    <3> QED  BY <1>2, <2>1, <2>3, <3>1
  <2>4. CASE o.op = "activity"
    <3>1. thread'.text = [thread.text EXCEPT ![o.item] = o.text]  BY <1>1, <2>4 DEF Wrote
    <3> QED  BY <2>1, <2>4, <3>1
  <2>5. CASE o.op \notin {"delta", "flush", "activity"}  BY <1>1, <2>5 DEF Wrote
  <2> QED  BY <2>2, <2>3, <2>4, <2>5
<1>4. ASSUME i \in Message PROVE caches'.buffer[i] = caches.buffer[i]
  <2>1. caches.buffer \in [Message -> Seq(Nat)]  BY <1>1 DEF Caches
  <2>2. CASE o.op = "delta"
    <3>1. CASE streaming  BY <1>1, <2>2, <3>1 DEF BufferAfter
    <3>2. CASE ~streaming
      <4>1. PICK x: caches'.buffer = [caches.buffer EXCEPT ![o.item] = x]
        BY <1>1, <2>2, <3>2 DEF BufferAfter
      <4> QED  BY <1>2, <1>4, <2>1, <2>2, <4>1
    <3> QED  BY <3>1, <3>2
  <2>3. CASE o.op = "flush"
    <3>1. caches'.buffer = [caches.buffer EXCEPT ![o.item] = <<>>]  BY <1>1, <2>3 DEF BufferAfter
    <3> QED  BY <1>2, <1>4, <2>1, <2>3, <3>1
  <2>4. CASE o.op = "exit"
    <3>1. caches'.buffer[i] = IF i \in UNION {caches.ids[t]: t \in Turns} THEN <<>>
                              ELSE caches.buffer[i]
      BY <1>1, <1>4, <2>4 DEF BufferAfter
    <3>2. ASSUME NEW t \in Turns, i \in caches.ids[t] PROVE caches.buffer[i] = <<>>
      <4>1. t \in provider.cut /\ Len(steps) = 1 /\ TurnPassed(t)  BY <2>4, <3>2, OnlyTheCutTurn
      <4>2. provider.of[i] = t  BY <3>2 DEF Core, IdsOf
      <4>3. i \in provider.closed  BY <4>1, <4>2 DEF Uncut
      <4>4. ~ItemComing(i)
        <5>1. \A j \in DOMAIN events: events[j].type = "item.completed" =>
                provider.of[events[j].item] = events[j].turn
          BY DEF Core, Order, EventFits, ItemTypes
        <5> QED  BY <4>1, <4>2, <5>1 DEF ItemComing, TurnPassed
      <4>5. ~Has(steps, "flush", i)  BY <1>1, <2>4, <4>1 DEF Has
      <4> QED  BY <1>4, <4>3, <4>4, <4>5 DEF Texts, Flushing
    <3> QED  BY <3>1, <3>2
  <2>5. CASE o.op \notin {"delta", "flush", "exit"}  BY <1>1, <2>5 DEF BufferAfter
  <2> QED  BY <2>2, <2>3, <2>4, <2>5
<1>5. Kept(i)' = Kept(i) /\ Held(i)' = Held(i) /\ Held(i) \in Nat /\ Whole(i)
  BY <1>1, <1>3, <1>4, HeldIs DEF Kept, Held, Texts
<1>6. Whole(i)'  BY <1>1, <1>3, <1>5 DEF Whole
<1> QED  BY <1>4, <1>5, <1>6 DEF Moved

LEMMA DeltaMoves ==
  ASSUME Core, Spoken, Texts, NEW o \in Todo, Does(o), NEW i \in Item, Uncut(i),
         o.op = "delta", o.item = i
  PROVE  Moved(o, i)
<1>1. /\ UNCHANGED <<events, provider, said>> /\ StepFits(o) /\ o = steps[1] /\ 1 \in DOMAIN steps
      /\ Wrote(o) /\ caches \in Caches /\ thread \in Thread /\ Typed /\ i \in Message
  BY AfterDoing DEF Core, Typed, StepFits, ItemOps
<1>2. Whole(i) /\ StepText(i)  BY DEF Texts
<1>3. PICK t: t = thread.text[i]  OBVIOUS
<1>4. PICK b: b = caches.buffer[i]  OBVIOUS
<1>5. PICK h \in Nat, a \in Nat: h = Held(i) /\ a = Len(t)  BY <1>1, <1>3, HeldIs
<1>6. Counts(t, 0, a) /\ Counts(b, a, h)  BY <1>1, <1>2, <1>3, <1>4, <1>5 DEF Whole, Kept
<1>7. PICK p: p = <<h + 1>>  OBVIOUS
<1>8. o.text = p /\ h < said.text[i]  BY <1>1, <1>2, <1>5, <1>7 DEF StepText
<1>9. PICK g \in Nat: g = h + 1 /\ Counts(p, h, g)  BY <1>7, OneCounts
<1>10. thread.text \in [Item -> Seq(Nat)] /\ caches.buffer \in [Message -> Seq(Nat)]
  BY <1>1 DEF Thread, Caches
<1>11. PICK u, c: u = thread'.text[i] /\ c = caches'.buffer[i]  OBVIOUS
<1>12. \E x \in Nat: Counts(u, 0, x) /\ Counts(c, x, g)
  <2>1. CASE /\ streaming /\ caches'.buffer = caches.buffer
             /\ thread'.text = [thread.text EXCEPT ![o.item] = thread.text[o.item] \o o.text]
    <3>1. b = <<>> /\ c = b  BY <1>1, <1>4, <1>11, <2>1 DEF Spoken
    <3>2. u = t \o p  BY <1>3, <1>8, <1>10, <1>11, <2>1
    <3>3. a = h  BY <1>6, <3>1, CountsTo
    <3>4. Counts(u, 0, g)  BY <1>6, <1>9, <3>2, <3>3, ConcatCounts
    <3>5. Counts(c, g, g)  BY <3>1, EmptyCounts
    <3> QED  BY <3>4, <3>5
  <2>2. CASE /\ thread'.text = thread.text
             /\ caches'.buffer = [caches.buffer EXCEPT ![o.item] = caches.buffer[o.item] \o o.text]
    <3>1. u = t /\ c = b \o p  BY <1>1, <1>3, <1>4, <1>8, <1>10, <1>11, <2>2
    <3>2. Counts(c, a, g)  BY <1>6, <1>9, <3>1, ConcatCounts
    <3> QED  BY <1>6, <3>1, <3>2
  <2>3. CASE /\ caches'.buffer = [caches.buffer EXCEPT ![o.item] = <<>>]
             /\ thread'.text = [thread.text EXCEPT ![o.item] =
                  thread.text[o.item] \o (caches.buffer[o.item] \o o.text)]
    <3>1. PICK m: m = b \o p  OBVIOUS
    <3>2. u = t \o m /\ c = <<>>  BY <1>1, <1>3, <1>4, <1>8, <1>10, <1>11, <2>3, <3>1
    <3>3. Counts(m, a, g)  BY <1>6, <1>9, <3>1, ConcatCounts
    <3>4. Counts(u, 0, g)  BY <1>6, <3>2, <3>3, ConcatCounts
    <3>5. Counts(c, g, g)  BY <3>2, EmptyCounts
    <3> QED  BY <3>4, <3>5
  <2> QED  BY <1>1, <2>1, <2>2, <2>3 DEF Wrote
<1>13. PICK x \in Nat: Counts(u, 0, x) /\ Counts(c, x, g)  BY <1>12
<1>14. x = Len(u) /\ g = Len(u) + Len(c)
  <2>1. x = 0 + Len(u) /\ Len(u) \in Nat  BY <1>13, CountsTo
  <2>2. g = x + Len(c)  BY <1>13, CountsTo
  <2> QED  BY <2>1, <2>2
<1>15. Kept(i)' = c /\ Held(i)' = g  BY <1>1, <1>11, <1>14 DEF Kept, Held
<1>16. PICK n \in Nat: n = said.text[i] /\ n = said'.text[i]  BY <1>1, HeldIs
<1>17. g <= n  BY <1>8, <1>9, <1>16
<1>18. Whole(i)'  BY <1>11, <1>13, <1>14, <1>15, <1>16, <1>17 DEF Whole
<1> QED  BY <1>5, <1>9, <1>15, <1>18 DEF Moved

LEMMA ActivityMoves ==
  ASSUME Core, Texts, NEW o \in Todo, Does(o), NEW i \in Item, Uncut(i),
         o.op = "activity", o.item = i
  PROVE  Moved(o, i)
<1>1. /\ UNCHANGED <<events, provider, said>> /\ StepFits(o) /\ o = steps[1] /\ 1 \in DOMAIN steps
      /\ Wrote(o) /\ thread \in Thread /\ Typed /\ i \in Reasoning
  BY AfterDoing DEF Core, Typed, StepFits, ItemOps
<1>2. i \notin Message  BY <1>1, IngestionAssumption
<1>3. Whole(i) /\ StepText(i)  BY DEF Texts
<1>4. PICK t: t = thread.text[i]  OBVIOUS
<1>5. Kept(i) = <<>> /\ Kept(i)' = <<>>  BY <1>2 DEF Kept
<1>6. PICK h \in Nat: h = Held(i) /\ h = Len(t)  BY <1>1, <1>4, <1>5, HeldIs
<1>7. Counts(t, 0, h)  BY <1>3, <1>4, <1>6 DEF Whole
<1>8. thread.text \in [Item -> Seq(Nat)]  BY <1>1 DEF Thread
<1>9. o.text = Append(t, h + 1) /\ h < said.text[i]  BY <1>1, <1>3, <1>4, <1>6 DEF StepText
<1>10. PICK u: u = thread'.text[i]  OBVIOUS
<1>11. u = Append(t, h + 1)
  <2>1. thread'.text = [thread.text EXCEPT ![o.item] = o.text]  BY <1>1 DEF Wrote
  <2> QED  BY <1>8, <1>9, <1>10, <2>1
<1>12. PICK g \in Nat: g = h + 1 /\ Counts(u, 0, g)
  <2>1. Counts(u, 0, h + 1)  BY <1>7, <1>11, AppendCounts
  <2> QED  BY <2>1
<1>13. Counts(<<>>, g, g)  BY EmptyCounts
<1>14. Len(u) = g /\ Len(<<>>) = 0
  <2>1. g = 0 + Len(u) /\ Len(u) \in Nat  BY <1>12, CountsTo
  <2> QED  BY <2>1
<1>15. Held(i)' = g  BY <1>5, <1>10, <1>12, <1>14 DEF Held
<1>16. PICK n \in Nat: n = said.text[i] /\ n = said'.text[i]  BY <1>1, HeldIs
<1>17. g <= n  BY <1>9, <1>12, <1>16
<1>18. Whole(i)'  BY <1>5, <1>10, <1>12, <1>13, <1>14, <1>15, <1>16, <1>17 DEF Whole
<1> QED  BY <1>6, <1>12, <1>15, <1>18 DEF Moved

LEMMA FlushMoves ==
  ASSUME Core, Spoken, Texts, NEW o \in Todo, Does(o), NEW i \in Item, Uncut(i),
         o.op = "flush", o.item = i
  PROVE  Moved(o, i)
<1>1. /\ UNCHANGED <<events, provider, said>> /\ StepFits(o) /\ o = steps[1] /\ 1 \in DOMAIN steps
      /\ Wrote(o) /\ BufferAfter(o) /\ caches \in Caches /\ thread \in Thread /\ Typed
      /\ i \in Message /\ o.text \in Seq(Nat)
  BY AfterDoing DEF Core, Typed, StepFits, ItemOps, Todo
<1>2. Whole(i) /\ StepText(i)  BY DEF Texts
<1>3. PICK t: t = thread.text[i]  OBVIOUS
<1>4. PICK b: b = caches.buffer[i]  OBVIOUS
<1>5. PICK h \in Nat, a \in Nat: h = Held(i) /\ a = Len(t)  BY <1>1, <1>3, HeldIs
<1>6. Counts(t, 0, a) /\ Counts(b, a, h)  BY <1>1, <1>2, <1>3, <1>4, <1>5 DEF Whole, Kept
<1>7. PICK n \in Nat: n = said.text[i] /\ n = said'.text[i] /\ h <= n
  BY <1>1, <1>2, <1>5, HeldIs DEF Whole
<1>8. thread.text \in [Item -> Seq(Nat)] /\ caches.buffer \in [Message -> Seq(Nat)]
  BY <1>1 DEF Thread, Caches
<1>9. caches'.buffer[i] = <<>>
  <2>1. caches'.buffer = [caches.buffer EXCEPT ![o.item] = <<>>]  BY <1>1 DEF BufferAfter
  <2> QED  BY <1>1, <1>8, <2>1
<1>10. PICK p: p = IF b # <<>> THEN b ELSE o.text  OBVIOUS
<1>11. PICK u: u = thread'.text[i]  OBVIOUS
<1>12. u = t \o p
  <2>1. thread'.text = [thread.text EXCEPT ![o.item] = thread.text[o.item] \o
          (IF caches.buffer[o.item] # <<>> THEN caches.buffer[o.item] ELSE o.text)]
    BY <1>1 DEF Wrote
  <2>2. thread'.text = [thread.text EXCEPT ![i] = t \o p]  BY <1>3, <1>4, <1>10, <2>1
  <2> QED  BY <1>8, <1>11, <2>2
<1>13. PICK g \in Nat: /\ Counts(p, a, g) /\ h <= g /\ g <= n
                       /\ o.text # <<>> /\ h = 0 => g = n
  <2>1. CASE b # <<>>
    <3>1. p = b  BY <1>10, <2>1
    <3>2. h # a /\ a <= h  BY <1>6, <2>1, CountsTo
    <3>3. Counts(p, a, h) /\ h # 0  BY <1>6, <3>1, <3>2
    <3> QED  BY <1>7, <3>3
  <2>2. CASE b = <<>> /\ o.text = <<>>
    <3>1. p = <<>>  BY <1>10, <2>2
    <3>2. Counts(p, h, h) /\ a = h  BY <1>6, <2>2, <3>1, EmptyCounts, CountsTo
    <3> QED  BY <1>7, <2>2, <3>2
  <2>3. CASE b = <<>> /\ o.text # <<>>
    <3>1. p = Pieces(n)  BY <1>1, <1>2, <1>7, <1>10, <2>3 DEF StepText
    <3>2. t = <<>>  BY <1>1, <1>3, <2>3 DEF Spoken, StepsSpoken
    <3>3. a = 0  BY <1>6, <3>2, CountsTo
    <3>4. Counts(p, 0, n)  BY <3>1, PiecesCount
    <3> QED  BY <1>7, <3>3, <3>4
  <2> QED  BY <2>1, <2>2, <2>3
<1>14. Counts(u, 0, g)
  <2>1. Counts(t, 0, a) /\ Counts(p, a, g) /\ u = t \o p  BY <1>6, <1>12, <1>13
  <2> QED  BY <2>1, ConcatCounts
<1>15. Kept(i)' = <<>>  BY <1>1, <1>9 DEF Kept
<1>16. Counts(<<>>, g, g)  BY EmptyCounts
<1>17. Len(u) = g /\ Len(<<>>) = 0
  <2>1. g = 0 + Len(u) /\ Len(u) \in Nat  BY <1>14, CountsTo
  <2> QED  BY <2>1
<1>18. Held(i)' = g  BY <1>11, <1>15, <1>17 DEF Held
<1>19. g <= said'.text[i] /\ h <= g /\ (o.text # <<>> /\ h = 0 => g = said.text[i])
  BY <1>7, <1>13
<1>20. Whole(i)'  BY <1>11, <1>14, <1>15, <1>16, <1>17, <1>18, <1>19 DEF Whole
<1> QED  BY <1>5, <1>9, <1>18, <1>19, <1>20 DEF Moved

LEMMA StepMoves ==
  ASSUME Core, Ground, Releasing, Spoken, Texts, NEW o \in Todo, Does(o), NEW i \in Item, Uncut(i)
  PROVE  Moved(o, i)
<1>1. CASE o.op = "delta" /\ o.item = i  BY <1>1, DeltaMoves
<1>2. CASE o.op = "activity" /\ o.item = i  BY <1>2, ActivityMoves
<1>3. CASE o.op = "flush" /\ o.item = i  BY <1>3, FlushMoves
<1>4. CASE ~(o.op \in {"delta", "activity", "flush"} /\ o.item = i)  BY <1>4, OthersAreUnmoved
<1> QED  BY <1>1, <1>2, <1>3, <1>4

LEMMA DoingKeepsTexts ==
  ASSUME Core, Ground, Releasing, Spoken, Texts, NEW o \in Todo, Does(o) PROVE Texts'
<1>1. /\ UNCHANGED <<events, provider, said>> /\ StepFits(o) /\ o = steps[1] /\ 1 \in DOMAIN steps
      /\ Len(steps) \in Nat /\ (Len(steps) = 1 => DOMAIN steps' = {}) /\ Typed
      /\ \A k \in DOMAIN steps: k \in 1 .. Len(steps)
      /\ \A k \in DOMAIN steps: StepFits(steps[k]) /\ steps[k] \in Todo
      /\ \A k \in DOMAIN steps': k + 1 \in DOMAIN steps /\ steps'[k] = steps[k + 1] /\ k \in Nat \ {0}
      /\ \A k \in DOMAIN steps: k = 1 \/ (k - 1 \in DOMAIN steps' /\ steps[k] = steps'[k - 1])
      /\ o.op \in {"delta", "activity"} => Len(steps) = 1
  BY AfterDoing DEF Core
<1>2. \A k \in DOMAIN steps: steps[k].op \in {"delta", "activity"} => Len(steps) = 1 /\ k = 1
  BY <1>1 DEF StepFits
<1>3. \A k \in DOMAIN steps': steps'[k].op \notin {"delta", "activity"}  BY <1>1, <1>2
<1>4. EventTexts'  BY <1>1 DEF Texts, EventTexts
<1>5. ASSUME NEW i \in Item, Uncut(i) PROVE Moved(o, i) /\ Whole(i) /\ StepText(i) /\ Covered(i)
  BY <1>5, StepMoves DEF Texts
<1>6. Flushing'
  <2> SUFFICES ASSUME NEW i \in Message, i \in provider.closed
               PROVE  \/ ItemComing(i)' \/ Has(steps', "flush", i)
                      \/ caches'.buffer[i] = <<>> /\ NothingMore(i)' /\ ~Has(steps', "delta", i)
    BY <1>1 DEF Flushing, Has
  <2>1. i \in Item /\ Uncut(i)  BY DEF Item, Uncut
  <2>2. Moved(o, i)  BY <1>5, <2>1
  <2>3. ItemComing(i) => ItemComing(i)'  BY <1>1 DEF ItemComing
  <2>4. NothingMore(i) => NothingMore(i)'  BY <1>1 DEF NothingMore
  <2>5. ~Has(steps', "delta", i)  BY <1>3 DEF Has
  <2>6. CASE Has(steps, "flush", i)
    <3>1. PICK k \in DOMAIN steps: steps[k].op = "flush" /\ steps[k].item = i
      BY <2>6 DEF Has
    <3>2. CASE k = 1
      <4>1. o.op = "flush" /\ o.item = i  BY <1>1, <3>1, <3>2
      <4>2. caches'.buffer[i] = <<>>  BY <2>2, <4>1 DEF Moved
      <4>3. NothingMore(i)  BY <1>1, <4>1 DEF StepFits
      <4> QED  BY <2>4, <2>5, <4>2, <4>3
    <3>3. CASE k # 1
      <4>1. k - 1 \in DOMAIN steps' /\ steps[k] = steps'[k - 1]  BY <1>1, <3>3
      <4> QED  BY <3>1, <4>1 DEF Has
    <3> QED  BY <3>2, <3>3
  <2>7. CASE caches.buffer[i] = <<>> /\ NothingMore(i) /\ ~Has(steps, "delta", i) /\ ~Has(steps, "flush", i)
    <3>1. ~(o.op \in {"delta", "flush"} /\ o.item = i)  BY <1>1, <2>7 DEF Has
    <3>2. ~(o.op = "activity" /\ o.item = i)
      <4>1. o.op = "activity" => o.item \in Reasoning  BY <1>1 DEF StepFits
      <4> QED  BY <4>1, IngestionAssumption
    <3>3. caches'.buffer[i] = <<>>  BY <2>2, <2>7, <3>1, <3>2 DEF Moved
    <3> QED  BY <2>4, <2>5, <2>7, <3>3
  <2> QED  BY <2>3, <2>6, <2>7 DEF Texts, Flushing
<1>7. ASSUME NEW i \in Item, Uncut(i) PROVE Whole(i)' /\ StepText(i)' /\ Covered(i)'
  <2>1. Moved(o, i) /\ StepText(i) /\ Covered(i)  BY <1>5, <1>7
  <2>2. Whole(i)'  BY <2>1 DEF Moved
  <2>3. PICK s \in Nat: s = said.text[i] /\ s = said'.text[i]  BY <1>1, HeldIs
  <2>4. PICK h \in Nat, g \in Nat: h = Held(i) /\ g = Held(i)' /\ h <= g
    BY <1>1, <2>1, HeldIs DEF Moved
  <2>5. StepText(i)'
    <3> SUFFICES ASSUME NEW k \in DOMAIN steps', steps'[k].item = i,
                        steps'[k].op = "flush" /\ steps'[k].text # <<>>
                 PROVE  steps'[k].text = Pieces(s)
      BY <1>3, <2>3 DEF StepText
    <3>1. k + 1 \in DOMAIN steps /\ steps'[k] = steps[k + 1]  BY <1>1
    <3> QED  BY <2>1, <2>3, <3>1 DEF StepText
  <2>6. Covered(i)'
    <3> SUFFICES ASSUME NEW n \in 1 .. s, ~(n <= g) PROVE Coming(i, n)'
      BY <2>3, <2>4 DEF Covered
    <3>1. ~(n <= h)  BY <2>4
    <3>2. Coming(i, n)  BY <2>1, <2>3, <2>4, <3>1 DEF Covered
    <3>3. ASSUME NEW k \in DOMAIN steps, steps[k].op \in {"delta", "activity"}, steps[k].item = i,
                 n = Held(i) + 1
          PROVE  FALSE
      <4>1. o.op \in {"delta", "activity"} /\ o.item = i  BY <1>1, <1>2, <3>3
      <4>2. g = h + 1  BY <2>1, <2>4, <4>1 DEF Moved
      <4> QED  BY <2>4, <3>3, <4>2
    <3>4. ASSUME NEW j \in DOMAIN events, events[j].type = "content.delta", events[j].item = i,
                 n = events[j].n
          PROVE  Coming(i, n)'
      BY <1>1, <3>4 DEF Coming
    <3>5. ASSUME NEW j \in DOMAIN events, events[j].type = "item.completed", events[j].item = i,
                 events[j].n = n, n = 1, ~DeltaComing(i)
          PROVE  Coming(i, n)'
      <4>1. ~DeltaComing(i)'  BY <1>1, <3>5 DEF DeltaComing
      <4> QED  BY <1>1, <3>5, <4>1 DEF Coming
    <3>6. ASSUME NEW k \in DOMAIN steps, steps[k].op = "flush", steps[k].item = i,
                 steps[k].text # <<>>, Held(i) = 0
          PROVE  Coming(i, n)'
      <4>1. CASE k = 1
        <5>1. o.op = "flush" /\ o.item = i /\ o.text # <<>>  BY <1>1, <3>6, <4>1
        <5>2. g = s  BY <2>1, <2>3, <2>4, <3>6, <5>1 DEF Moved
        <5> QED  BY <5>2
      <4>2. CASE k # 1
        <5>1. k - 1 \in DOMAIN steps' /\ steps[k] = steps'[k - 1]  BY <1>1, <4>2
        <5>2. o.op \notin {"delta", "activity"}  BY <1>1, <4>2
        <5>3. 1 < k  BY <1>1, <4>2
        <5>4. o.op # "flush"  BY <1>1, <3>6, <5>3 DEF Spoken, StepsSpoken
        <5>5. g = h  BY <2>1, <2>4, <5>2, <5>4 DEF Moved
        <5> QED  BY <2>4, <3>6, <5>1, <5>5 DEF Coming
      <4> QED  BY <4>1, <4>2
    <3> QED  BY <3>2, <3>3, <3>4, <3>5, <3>6 DEF Coming
  <2> QED  BY <2>2, <2>5, <2>6
<1>8. \A i \in Item: Uncut(i)' <=> Uncut(i)  BY <1>1 DEF Uncut
<1> QED  BY <1>4, <1>6, <1>7, <1>8 DEF Texts

(* Every message that is over is complete, or will be: its end is coming, or *)
(* it is being handled, or the message is remembered for the end of its turn. *)
Ending == \A i \in Message: i \in provider.closed =>
  ItemComing(i) \/ Has(steps, "complete", i) \/ thread.shown[i] = "complete"
Left == \A i \in Message:
  i \notin provider.closed /\ provider.of[i] # 0 /\ provider.of[i] \notin provider.cut =>
    \/ DeltaComing(i) \/ Has(steps, "delta", i) \/ i \in caches.ids[provider.of[i]]
    \/ Has(steps, "complete", i) \/ thread.shown[i] = "complete"
CompletedFirst == \A k \in DOMAIN steps, t \in Turns, i \in Message:
  steps[k].op = "clear" /\ steps[k].turn = t /\ i \in caches.ids[t] =>
    HasBefore(steps, k, "complete", i) \/ thread.shown[i] = "complete"
Finishing == Ending /\ Left /\ CompletedFirst

LEMMA SpeakingKeepsFinishing ==
  ASSUME Core, Finishing, NEW e \in Event, Speaks(e) PROVE Finishing'
<1>1. /\ UNCHANGED <<steps, caches, thread>> /\ Spoke(e) /\ Wellformed(e)
      /\ Len(events) + 1 \in DOMAIN events' /\ events'[Len(events) + 1] = e
      /\ \A k \in DOMAIN events: k \in DOMAIN events' /\ events'[k] = events[k]
      /\ e.turn \in Nat \ {0}
  BY AfterSpeaking
<1>2. /\ \A i \in Item: provider'.of[i] = IF e.type \in ItemTypes /\ e.item = i THEN e.turn
                                          ELSE provider.of[i]
      /\ provider'.closed = provider.closed \union (IF e.type = "item.completed" THEN {e.item} ELSE {})
      /\ provider'.cut = provider.cut \union (IF e.type = "session.exited" THEN {e.turn} ELSE {})
  BY <1>1 DEF Speaks, Emitted, Spoke
<1>3. \A i \in Item: /\ ItemComing(i) => ItemComing(i)'
                     /\ DeltaComing(i) => DeltaComing(i)'
  BY <1>1 DEF ItemComing, DeltaComing
<1>4. Ending'
  <2> SUFFICES ASSUME NEW i \in Message, i \in provider'.closed
               PROVE  ItemComing(i)' \/ Has(steps, "complete", i) \/ thread.shown[i] = "complete"
    BY <1>1 DEF Ending, Has
  <2>1. i \in Item  BY DEF Item
  <2>2. CASE i \in provider.closed  BY <1>3, <2>1, <2>2 DEF Finishing, Ending
  <2>3. CASE i \notin provider.closed
    <3>1. e.type = "item.completed" /\ e.item = i  BY <1>2, <2>3
    <3> QED  BY <1>1, <3>1 DEF ItemComing
  <2> QED  BY <2>2, <2>3
<1>5. Left'
  <2> SUFFICES ASSUME NEW i \in Message, i \notin provider'.closed, provider'.of[i] # 0,
                      provider'.of[i] \notin provider'.cut
               PROVE  \/ DeltaComing(i)' \/ Has(steps, "delta", i) \/ i \in caches.ids[provider'.of[i]]
                      \/ Has(steps, "complete", i) \/ thread.shown[i] = "complete"
    BY <1>1 DEF Left, Has
  <2>1. i \in Item  BY DEF Item
  <2>2. CASE e.type \in ItemTypes /\ e.item = i
    <3>1. e.type = "content.delta"  BY <1>2, <2>2 DEF ItemTypes
    <3>2. DeltaComing(i)'  BY <1>1, <2>2, <3>1 DEF DeltaComing
    <3> QED  BY <3>2
  <2>3. CASE ~(e.type \in ItemTypes /\ e.item = i)
    <3>1. provider'.of[i] = provider.of[i] /\ i \notin provider.closed
          /\ provider.of[i] \notin provider.cut
      BY <1>2, <2>1, <2>3
    <3> QED  BY <1>3, <2>1, <3>1 DEF Finishing, Left
  <2> QED  BY <2>2, <2>3
<1>6. CompletedFirst'  BY <1>1 DEF Finishing, CompletedFirst, HasBefore
<1> QED  BY <1>4, <1>5, <1>6 DEF Finishing

LEMMA TakingKeepsFinishing ==
  ASSUME Core, Finishing, NEW e, Takes(e) PROVE Finishing'
<1>1. /\ UNCHANGED <<provider, said, caches, thread>> /\ DOMAIN steps = {}
      /\ e = events[1] /\ Wellformed(e) /\ Fits(steps', e) /\ Shapes(steps', e)
      /\ \A k \in DOMAIN events: k = 1 \/ (k - 1 \in DOMAIN events' /\ events[k] = events'[k - 1])
  BY AfterTaking
<1>2. \A i, op: ~Has(steps, op, i)  BY <1>1 DEF Has
<1>3. Ending'
  <2> SUFFICES ASSUME NEW i \in Message, i \in provider.closed
               PROVE  ItemComing(i)' \/ Has(steps', "complete", i) \/ thread.shown[i] = "complete"
    BY <1>1 DEF Ending, Has
  <2>1. CASE ItemComing(i)
    <3>1. PICK j \in DOMAIN events: events[j].type = "item.completed" /\ events[j].item = i
      BY <2>1 DEF ItemComing
    <3>2. CASE j = 1  BY <1>1, <3>1, <3>2 DEF Shapes
    <3>3. CASE j # 1
      <4>1. j - 1 \in DOMAIN events' /\ events[j] = events'[j - 1]  BY <1>1, <3>3
      <4> QED  BY <3>1, <4>1 DEF ItemComing
    <3> QED  BY <3>2, <3>3
  <2>2. CASE thread.shown[i] = "complete"  BY <2>2
  <2> QED  BY <1>2, <2>1, <2>2 DEF Finishing, Ending
<1>4. Left'
  <2> SUFFICES ASSUME NEW i \in Message, i \notin provider.closed, provider.of[i] # 0,
                      provider.of[i] \notin provider.cut
               PROVE  \/ DeltaComing(i)' \/ Has(steps', "delta", i) \/ i \in caches.ids[provider.of[i]]
                      \/ Has(steps', "complete", i) \/ thread.shown[i] = "complete"
    BY <1>1 DEF Left, Has
  <2>1. CASE DeltaComing(i)
    <3>1. PICK j \in DOMAIN events: events[j].type = "content.delta" /\ events[j].item = i
      BY <2>1 DEF DeltaComing
    <3>2. CASE j = 1
      <4>1. 1 \in DOMAIN steps' /\ steps'[1].item = i /\ steps'[1].op \in {"delta", "activity"}
        BY <1>1, <3>1, <3>2 DEF Shapes
      <4>2. steps'[1].op # "activity"
        <5>1. steps'[1].op = "activity" => i \in Reasoning  BY <1>1, <4>1 DEF Fits
        <5> QED  BY <5>1, IngestionAssumption
      <4> QED  BY <4>1, <4>2 DEF Has
    <3>3. CASE j # 1
      <4>1. j - 1 \in DOMAIN events' /\ events[j] = events'[j - 1]  BY <1>1, <3>3
      <4> QED  BY <3>1, <4>1 DEF DeltaComing
    <3> QED  BY <3>2, <3>3
  <2>2. CASE i \in caches.ids[provider.of[i]] \/ thread.shown[i] = "complete"  BY <2>2
  <2> QED  BY <1>2, <2>1, <2>2 DEF Finishing, Left
<1>5. CompletedFirst'
  <2> SUFFICES ASSUME NEW k \in DOMAIN steps', NEW t \in Turns, NEW i \in Message,
                      steps'[k].op = "clear", steps'[k].turn = t, i \in caches.ids[t]
               PROVE  HasBefore(steps', k, "complete", i)
    BY <1>1 DEF CompletedFirst, HasBefore
  <2>1. t = e.turn  BY <1>1 DEF Fits
  <2> QED  BY <1>1, <2>1 DEF Shapes
<1> QED  BY <1>3, <1>4, <1>5 DEF Finishing

LEMMA DoingKeepsFinishing ==
  ASSUME Core, Ground, Releasing, Texts, Finishing, NEW o \in Todo, Does(o) PROVE Finishing'
<1>1. /\ UNCHANGED <<events, provider, said>> /\ StepFits(o) /\ o = steps[1] /\ 1 \in DOMAIN steps
      /\ Wrote(o) /\ IdsAfter(o) /\ o.turn \in Turns /\ Typed
      /\ Len(steps) \in Nat /\ (Len(steps) = 1 => DOMAIN steps' = {})
      /\ \A k \in DOMAIN steps: k \in 1 .. Len(steps)
      /\ \A k \in DOMAIN steps: StepFits(steps[k]) /\ steps[k] \in Todo
      /\ \A k \in DOMAIN steps': k + 1 \in DOMAIN steps /\ steps'[k] = steps[k + 1] /\ k \in Nat \ {0}
      /\ \A k \in DOMAIN steps: k = 1 \/ (k - 1 \in DOMAIN steps' /\ steps[k] = steps'[k - 1])
      /\ o.op \in {"delta", "activity"} => Len(steps) = 1
  BY AfterDoing DEF Core
<1>2. thread.shown \in [Message -> {"absent", "streaming", "complete"}]
      /\ caches.ids \in [Turns -> SUBSET Message]
  BY <1>1 DEF Typed, Thread, Caches
<1>3. \A i \in Item: (ItemComing(i) <=> ItemComing(i)') /\ (DeltaComing(i) <=> DeltaComing(i)')
  BY <1>1 DEF ItemComing, DeltaComing
<1>4. ASSUME NEW i \in Message, thread.shown[i] = "complete"
      PROVE  thread'.shown[i] = "complete" \/ (o.op \in {"delta", "flush"} /\ o.item = i)
  <2>1. CASE o.op = "complete"
    <3>1. thread'.shown = [thread.shown EXCEPT ![o.item] = "complete"]  BY <1>1, <2>1 DEF Wrote
    <3> QED  BY <1>2, <1>4, <3>1
  <2>2. CASE o.op \in {"delta", "flush"} /\ o.item # i  BY <1>1, <1>4, <2>2 DEF Wrote
  <2>3. CASE o.op \notin {"delta", "flush", "complete"}  BY <1>1, <1>4, <2>3 DEF Wrote
  <2> QED  BY <2>1, <2>2, <2>3
<1>5. ASSUME NEW i \in Message, o.op = "complete", o.item = i PROVE thread'.shown[i] = "complete"
  <2>1. thread'.shown = [thread.shown EXCEPT ![o.item] = "complete"]  BY <1>1, <1>5 DEF Wrote
  <2> QED  BY <1>2, <1>5, <2>1
<1>6. ASSUME NEW i \in Message, o.op = "flush", o.item = i
      PROVE  1 \in DOMAIN steps' /\ steps'[1].op = "complete" /\ steps'[1].item = i
             /\ steps'[1] = steps[2]
  <2>1. 1 + 1 \in DOMAIN steps /\ steps[1 + 1].op = "complete" /\ steps[1 + 1].item = i
    BY <1>1, <1>6 DEF Ground, Handling
  <2>2. 1 + 1 = 2 /\ 2 - 1 = 1 /\ 2 # 1  OBVIOUS
  <2> QED  BY <1>1, <2>1, <2>2
<1>7. ASSUME NEW i \in Message, Has(steps, "complete", i)
      PROVE  Has(steps', "complete", i) \/ thread'.shown[i] = "complete"
  <2>1. PICK k \in DOMAIN steps: steps[k].op = "complete" /\ steps[k].item = i  BY <1>7 DEF Has
  <2>2. CASE k = 1  BY <1>1, <1>5, <2>1, <2>2
  <2>3. CASE k # 1
    <3>1. k - 1 \in DOMAIN steps' /\ steps[k] = steps'[k - 1]  BY <1>1, <2>3
    <3> QED  BY <2>1, <3>1 DEF Has
  <2> QED  BY <2>2, <2>3
<1>8. Ending'
  <2> SUFFICES ASSUME NEW i \in Message, i \in provider.closed, ~ItemComing(i)
               PROVE  Has(steps', "complete", i) \/ thread'.shown[i] = "complete"
    <3>1. \A i \in Message: i \in Item  BY DEF Item
    <3> QED  BY <1>1, <1>3, <3>1 DEF Ending, Has
  <2>1. CASE Has(steps, "complete", i)  BY <1>7, <2>1
  <2>2. CASE thread.shown[i] = "complete"
    <3>1. CASE o.op = "flush" /\ o.item = i  BY <1>6, <3>1 DEF Has
    <3>2. CASE o.op = "delta" /\ o.item = i
      <4>1. Len(steps) = 1 /\ Has(steps, "delta", i)  BY <1>1, <3>2 DEF Has
      <4>2. ~Has(steps, "flush", i)  BY <1>1, <3>2, <4>1 DEF Has
      <4> QED  BY <4>1, <4>2 DEF Texts, Flushing
    <3> QED  BY <1>4, <2>2, <3>1, <3>2
  <2> QED  BY <2>1, <2>2 DEF Finishing, Ending
<1>9. Left'
  <2> SUFFICES ASSUME NEW i \in Message, i \notin provider.closed, provider.of[i] # 0,
                      provider.of[i] \notin provider.cut, ~DeltaComing(i)
               PROVE  \/ i \in caches'.ids[provider.of[i]]
                      \/ Has(steps', "complete", i) \/ thread'.shown[i] = "complete"
    <3>1. \A i \in Message: i \in Item  BY DEF Item
    <3> QED  BY <1>1, <1>3, <3>1 DEF Left, Has
  <2>1. PICK t \in Turns: t = provider.of[i]  BY TurnOf DEF Item
  <2>2. CASE o.op = "delta" /\ o.item = i
    <3>1. o.turn = t  BY <1>1, <2>1, <2>2 DEF StepFits, ItemOps
    <3>2. caches'.ids = [caches.ids EXCEPT ![o.turn] = caches.ids[o.turn] \union {o.item}]
      BY <1>1, <2>2 DEF IdsAfter
    <3> QED  BY <1>2, <2>1, <2>2, <3>1, <3>2
  <2>3. CASE Has(steps, "delta", i)
    <3>1. PICK k \in DOMAIN steps: steps[k].op = "delta" /\ steps[k].item = i  BY <2>3 DEF Has
    <3>2. Len(steps) = 1  BY <1>1, <3>1 DEF StepFits
    <3>3. k = 1  BY <1>1, <3>2
    <3> QED  BY <1>1, <2>2, <3>1, <3>3
  <2>4. CASE i \in caches.ids[t]
    <3>1. CASE o.op \in {"delta", "remember"}
      <4>1. caches'.ids = [caches.ids EXCEPT ![o.turn] = caches.ids[o.turn] \union {o.item}]
        BY <1>1, <3>1 DEF IdsAfter
      <4> QED  BY <1>1, <1>2, <2>1, <2>4, <4>1
    <3>2. CASE o.op = "forget"
      <4>1. o.item # i  BY <1>1, <3>2 DEF Ground, Handling
      <4>2. caches'.ids = [caches.ids EXCEPT ![o.turn] = caches.ids[o.turn] \ {o.item}]
        BY <1>1, <3>2 DEF IdsAfter
      <4> QED  BY <1>1, <1>2, <2>1, <2>4, <4>1, <4>2
    <3>3. CASE o.op = "clear" /\ o.turn = t
      <4>1. ~HasBefore(steps, 1, "complete", i)  BY <1>1 DEF HasBefore
      <4>2. thread.shown[i] = "complete"
        BY <1>1, <2>4, <3>3, <4>1 DEF Finishing, CompletedFirst
      <4> QED  BY <1>4, <3>3, <4>2
    <3>4. CASE o.op = "clear" /\ o.turn # t
      <4>1. caches'.ids = [caches.ids EXCEPT ![o.turn] = {}]  BY <1>1, <3>4 DEF IdsAfter
      <4> QED  BY <1>1, <1>2, <2>1, <2>4, <3>4, <4>1
    <3>5. CASE o.op = "exit"
      <4>1. t \in provider.cut  BY <2>4, <3>5, OnlyTheCutTurn
      <4> QED  BY <2>1, <4>1
    <3>6. CASE o.op \notin {"delta", "remember", "forget", "clear", "exit"}
      BY <1>1, <2>1, <2>4, <3>6 DEF IdsAfter
    <3> QED  BY <3>1, <3>2, <3>3, <3>4, <3>5, <3>6
  <2>5. CASE Has(steps, "complete", i)  BY <1>7, <2>5
  <2>6. CASE thread.shown[i] = "complete"
    <3>1. CASE o.op = "flush" /\ o.item = i  BY <1>6, <3>1 DEF Has
    <3> QED  BY <1>4, <2>2, <2>6, <3>1
  <2> QED  BY <2>1, <2>3, <2>4, <2>5, <2>6 DEF Finishing, Left
<1>10. CompletedFirst'
  <2> SUFFICES ASSUME NEW k \in DOMAIN steps', NEW t \in Turns, NEW i \in Message,
                      steps'[k].op = "clear", steps'[k].turn = t, i \in caches'.ids[t]
               PROVE  HasBefore(steps', k, "complete", i) \/ thread'.shown[i] = "complete"
    BY DEF CompletedFirst
  <2>1. /\ k + 1 \in DOMAIN steps /\ steps[k + 1].op = "clear" /\ steps[k + 1].turn = t
        /\ k \in Nat \ {0} /\ o.op \notin {"delta", "activity"}
    BY <1>1
  <2>2. o.op # "remember"
    <3>1. TurnPassed(t)  BY <1>1, <2>1 DEF StepFits
    <3>2. o.op = "remember" => EndComing(o.turn)  BY <1>1 DEF Releasing, EndsComing
    <3>3. o.turn = t  BY <1>1, <2>1 DEF Ground, Handling
    <3> QED  BY <3>1, <3>2, <3>3 DEF EndComing, TurnPassed
  <2>3. i \in caches.ids[t]
    <3>1. CASE o.op = "forget"
      <4>1. caches'.ids = [caches.ids EXCEPT ![o.turn] = caches.ids[o.turn] \ {o.item}]
        BY <1>1, <3>1 DEF IdsAfter
      <4> QED  BY <1>1, <1>2, <4>1
    <3>2. CASE o.op = "clear"
      <4>1. caches'.ids = [caches.ids EXCEPT ![o.turn] = {}]  BY <1>1, <3>2 DEF IdsAfter
      <4> QED  BY <1>1, <1>2, <4>1
    <3>3. CASE o.op = "exit"
      <4>1. caches'.ids = [u \in Turns |-> {}]  BY <1>1, <3>3 DEF IdsAfter
      <4> QED  BY <4>1
    <3>4. CASE o.op \notin {"delta", "remember", "forget", "clear", "exit"}
      BY <1>1, <3>4 DEF IdsAfter
    <3> QED  BY <2>1, <2>2, <3>1, <3>2, <3>3, <3>4
  <2>4. HasBefore(steps, k + 1, "complete", i) \/ thread.shown[i] = "complete"
    BY <2>1, <2>3 DEF Finishing, CompletedFirst
  <2>5. CASE HasBefore(steps, k + 1, "complete", i)
    <3>1. PICK j \in DOMAIN steps: j < k + 1 /\ steps[j].op = "complete" /\ steps[j].item = i
      BY <2>5 DEF HasBefore
    <3>2. CASE j = 1  BY <1>1, <1>5, <3>1, <3>2
    <3>3. CASE j # 1
      <4>1. j - 1 \in DOMAIN steps' /\ steps[j] = steps'[j - 1] /\ j - 1 < k
        BY <1>1, <2>1, <3>1, <3>3
      <4> QED  BY <3>1, <4>1 DEF HasBefore
    <3> QED  BY <3>2, <3>3
  <2>6. CASE thread.shown[i] = "complete"
    <3>1. CASE o.op = "flush" /\ o.item = i
      <4>1. 1 \in DOMAIN steps' /\ steps'[1].op = "complete" /\ steps'[1].item = i
        BY <1>6, <3>1
      <4>2. 1 < k  BY <2>1, <4>1
      <4> QED  BY <4>1, <4>2 DEF HasBefore
    <3> QED  BY <1>4, <2>1, <2>6, <3>1
  <2> QED  BY <2>4, <2>5, <2>6
<1> QED  BY <1>8, <1>9, <1>10 DEF Finishing

(* A proposed plan is open while its pieces gather in the cache, and each is *)
(* cached or still to come; it is settled once it is in the thread.          *)
PlanDelta(j, t) == events[j].type = "turn.proposed.delta" /\ events[j].turn = t
PlanDone(j, t)  == events[j].type = "turn.proposed.completed" /\ events[j].turn = t
PlanEvents ==
  /\ \A j \in DOMAIN events: LET e == events[j] IN
       /\ e.type = "turn.proposed.delta" => e.n # 0 /\ e.n <= said.plan[e.turn]
       /\ e.type = "turn.proposed.completed" => e.turn \in provider.planned /\ e.n = said.plan[e.turn]
  /\ \A j, k \in DOMAIN events: j < k /\ events[j].turn = events[k].turn =>
       /\ events[j].type = "turn.proposed.completed" => events[k].type \notin PlanTypes
       /\ events[j].type = "turn.proposed.delta" /\ events[k].type = "turn.proposed.delta" =>
            events[j].n < events[k].n
NoMorePlan(t) == /\ t \in provider.planned \/ t # provider.turn
                 /\ \A j \in DOMAIN events: events[j].turn = t => events[j].type \notin PlanTypes
PlanSteps == \A k \in DOMAIN steps: steps[k].op = "plan" => NoMorePlan(steps[k].turn)
PlanComing(t, n) ==
  \/ \E k \in DOMAIN steps: /\ steps[k].op = "propose" /\ steps[k].turn = t
                            /\ n = Len(caches.plan[t]) + 1
  \/ \E j \in DOMAIN events: PlanDelta(j, t) /\ n = events[j].n
  \/ \E j \in DOMAIN events: /\ PlanDone(j, t) /\ n = 1 /\ events[j].n = 1
                             /\ \A l \in DOMAIN events: ~PlanDelta(l, t)
  \/ \E k \in DOMAIN steps: /\ steps[k].op = "plan" /\ steps[k].turn = t
                            /\ steps[k].text # <<>> /\ caches.plan[t] = <<>>
PlanCovered(t) == \A n \in 1 .. said.plan[t]: n <= Len(caches.plan[t]) \/ PlanComing(t, n)
PlanText(t) ==
  /\ Counts(caches.plan[t], 0, Len(caches.plan[t]))
  /\ Len(caches.plan[t]) <= said.plan[t]
  /\ \A j \in DOMAIN events: PlanDelta(j, t) => Len(caches.plan[t]) < events[j].n
  /\ \A k \in DOMAIN steps: LET o == steps[k] IN o.turn = t =>
       /\ o.op = "propose" =>
            /\ o.text = <<Len(caches.plan[t]) + 1>> /\ Len(caches.plan[t]) < said.plan[t]
            /\ \A j \in DOMAIN events: PlanDelta(j, t) => Len(caches.plan[t]) + 1 < events[j].n
       /\ o.op = "plan" /\ o.text # <<>> => o.text = Pieces(said.plan[t])
PlanOpen(t) == thread.plan[t] = <<>> /\ PlanText(t) /\ PlanCovered(t)
PlanSettled(t) ==
  /\ t <= provider.turns /\ NoMorePlan(t)
  /\ thread.plan[t] = Pieces(said.plan[t]) /\ caches.plan[t] = <<>>
  /\ \A k \in DOMAIN steps: steps[k].turn = t =>
       steps[k].op # "propose" /\ (steps[k].op = "plan" => steps[k].text = <<>>)
Plans == /\ PlanEvents /\ PlanSteps
         /\ \A t \in Turns: t \notin provider.cut => PlanOpen(t) \/ PlanSettled(t)

LEMMA PlanIs ==
  ASSUME Typed, NEW t \in Turns
  PROVE  /\ caches.plan[t] \in Seq(Nat) /\ Len(caches.plan[t]) \in Nat /\ said.plan[t] \in Nat
         /\ caches.plan[t] = <<>> <=> Len(caches.plan[t]) = 0
<1>1. caches.plan[t] \in Seq(Nat) /\ said.plan[t] \in Nat  BY DEF Typed, Caches, Said
<1> QED  BY <1>1, LenProperties, EmptySeq

LEMMA SpeakingKeepsPlans ==
  ASSUME Core, Plans, NEW e \in Event, Speaks(e) PROVE Plans'
<1>1. /\ UNCHANGED <<steps, caches, thread>> /\ Spoke(e) /\ Wellformed(e) /\ Typed
      /\ Len(events) \in Nat /\ Len(events) + 1 \in DOMAIN events'
      /\ DOMAIN events = 1 .. Len(events) /\ events'[Len(events) + 1] = e
      /\ \A k \in DOMAIN events: k \in DOMAIN events' /\ events'[k] = events[k]
      /\ \A k \in DOMAIN events': k \in DOMAIN events \/ k = Len(events) + 1
      /\ e.turn \in Turns /\ e.turn \in Nat \ {0} /\ e.turn = provider'.turns
      /\ provider.turns <= e.turn /\ provider'.turn \in {0, e.turn}
      /\ \A t \in Turns: t <= provider.turns /\ t # provider.turn => t # e.turn
  BY AfterSpeaking DEF Core
<1>2. /\ provider'.planned = provider.planned \union
           (IF e.type = "turn.proposed.completed" THEN {e.turn} ELSE {})
      /\ provider'.cut = provider.cut \union (IF e.type = "session.exited" THEN {e.turn} ELSE {})
      /\ e.type \in PlanTypes => e.turn \notin provider.planned /\ provider.turn = e.turn
  BY <1>1 DEF Spoke, PlanTypes
<1>3. /\ \A t \in Turns: said.plan[t] \in Nat
      /\ \A t \in Turns: ~(e.type \in PlanTypes /\ e.turn = t) => said'.plan[t] = said.plan[t]
      /\ e.type \in PlanTypes => said'.plan[e.turn] = e.n
      /\ e.type = "turn.proposed.delta" => e.n = said.plan[e.turn] + 1
      /\ e.type = "turn.proposed.completed" =>
           \/ said.plan[e.turn] = 0 /\ e.n = 1
           \/ said.plan[e.turn] # 0 /\ e.n = said.plan[e.turn]
  <2>1. said.plan \in [Turns -> Nat]  BY <1>1 DEF Typed, Said
  <2>2. /\ e.type = "turn.proposed.delta" => e.n = said.plan[e.turn] + 1
        /\ e.type = "turn.proposed.completed" =>
             e.n = IF said.plan[e.turn] = 0 THEN 1 ELSE said.plan[e.turn]
    BY <1>1 DEF Spoke
  <2>3. \A t \in Turns: ~(e.type \in PlanTypes /\ e.turn = t) => said'.plan[t] = said.plan[t]
    <3>1. CASE e.type \in PlanTypes
      <4>1. said'.plan = [said.plan EXCEPT ![e.turn] = e.n]  BY <1>1, <3>1 DEF Spoke
      <4> QED  BY <2>1, <3>1, <4>1
    <3>2. CASE e.type \notin PlanTypes
      <4>1. said'.plan = said.plan  BY <1>1, <3>2 DEF Spoke
      <4> QED  BY <4>1
    <3> QED  BY <3>1, <3>2
  <2>4. e.type \in PlanTypes => said'.plan[e.turn] = e.n
    <3> SUFFICES ASSUME e.type \in PlanTypes PROVE said'.plan[e.turn] = e.n
      OBVIOUS
    <3>1. said'.plan = [said.plan EXCEPT ![e.turn] = e.n]  BY <1>1 DEF Spoke
    <3> QED  BY <1>1, <2>1, <3>1
  <2> QED  BY <2>1, <2>2, <2>3, <2>4
<1>4. ASSUME NEW j \in DOMAIN events
      PROVE  /\ events[j] \in Event /\ events[j].turn \in Turns
             /\ events[j].type = "turn.proposed.delta" =>
                  events[j].n # 0 /\ events[j].n <= said.plan[events[j].turn]
             /\ events[j].type = "turn.proposed.completed" =>
                  /\ events[j].turn \in provider.planned
                  /\ events[j].n = said.plan[events[j].turn]
  BY DEF Plans, PlanEvents, Core, Order, EventFits, Wellformed, Event
<1>5. ASSUME NEW t \in Turns, t <= provider.turns, NoMorePlan(t)
      PROVE  NoMorePlan(t)' /\ ~(e.type \in PlanTypes /\ e.turn = t)
  <2>1. ~(e.type \in PlanTypes /\ e.turn = t)  BY <1>2, <1>5 DEF NoMorePlan
  <2>2. t \in provider'.planned \/ t # provider'.turn
    <3>1. t # 0  BY DEF Turns
    <3>2. CASE t \in provider.planned  BY <1>2, <3>2
    <3>3. CASE t # provider.turn  BY <1>1, <1>5, <3>1, <3>3
    <3> QED  BY <1>5, <3>2, <3>3 DEF NoMorePlan
  <2>3. \A j \in DOMAIN events': events'[j].turn = t => events'[j].type \notin PlanTypes
    BY <1>1, <1>5, <2>1 DEF NoMorePlan
  <2> QED  BY <2>1, <2>2, <2>3 DEF NoMorePlan
<1>6. ASSUME NEW k \in DOMAIN steps, steps[k].op = "plan"
      PROVE  /\ steps[k].turn \in Turns /\ NoMorePlan(steps[k].turn)'
             /\ ~(e.type \in PlanTypes /\ e.turn = steps[k].turn)
  <2>1. steps[k] \in Todo /\ steps[k].turn <= provider.turns
    <3>1. steps \in Seq(Todo)  BY <1>1 DEF Typed
    <3>2. steps[k] \in Todo  BY <3>1, ElementOfSeq, LenProperties
    <3> QED  BY <3>2 DEF Core, Todos, StepFits
  <2>2. steps[k].turn \in Turns /\ NoMorePlan(steps[k].turn)
    BY <1>6, <2>1 DEF Todo, Plans, PlanSteps
  <2>3. PICK t \in Turns: t = steps[k].turn  BY <2>2
  <2>4. NoMorePlan(t)' /\ ~(e.type \in PlanTypes /\ e.turn = t)  BY <1>5, <2>1, <2>2, <2>3
  <2> QED  BY <1>1, <2>3, <2>4
<1>7. PlanSteps'
  <2>1. DOMAIN steps' = DOMAIN steps /\ \A k \in DOMAIN steps: steps'[k] = steps[k]  BY <1>1
  <2>2. \A k \in DOMAIN steps: steps[k].op = "plan" => NoMorePlan(steps[k].turn)'  BY <1>6
  <2> QED  BY <2>1, <2>2 DEF PlanSteps
<1>8. PlanEvents'
  <2>1. ASSUME NEW j \in DOMAIN events'
        PROVE  /\ events'[j].type = "turn.proposed.delta" =>
                    events'[j].n # 0 /\ events'[j].n <= said'.plan[events'[j].turn]
               /\ events'[j].type = "turn.proposed.completed" =>
                    /\ events'[j].turn \in provider'.planned
                    /\ events'[j].n = said'.plan[events'[j].turn]
    <3>1. CASE j \in DOMAIN events
      <4>1. PICK d \in Event: d = events[j] /\ d = events'[j]  BY <1>1, <1>4, <3>1
      <4>2. d.turn \in Turns /\ d.n \in Nat  BY DEF Event
      <4>3. CASE ~(e.type \in PlanTypes /\ e.turn = d.turn)
        <5>1. said'.plan[d.turn] = said.plan[d.turn]  BY <1>3, <4>2, <4>3
        <5> QED  BY <1>2, <1>4, <3>1, <4>1, <5>1
      <4>4. CASE e.type \in PlanTypes /\ e.turn = d.turn
        <5>1. d.type # "turn.proposed.completed"  BY <1>2, <1>4, <3>1, <4>1, <4>4
        <5>2. PICK m \in Nat, n \in Nat: m = said.plan[d.turn] /\ n = said'.plan[d.turn] /\ m <= n
          BY <1>3, <4>2, <4>4 DEF PlanTypes
        <5>3. d.type = "turn.proposed.delta" => d.n # 0 /\ d.n <= m  BY <1>4, <3>1, <4>1, <5>2
        <5>4. d.type = "turn.proposed.delta" => d.n # 0 /\ d.n <= n  BY <4>2, <5>2, <5>3
        <5> QED  BY <4>1, <5>1, <5>2, <5>4
      <4> QED  BY <4>3, <4>4
    <3>2. CASE j = Len(events) + 1
      <4>1. events'[j] = e  BY <1>1, <3>2
      <4>2. e.type = "turn.proposed.delta" => e.n # 0 /\ e.n <= said'.plan[e.turn]
        BY <1>1, <1>3 DEF PlanTypes
      <4>3. e.type = "turn.proposed.completed" => e.turn \in provider'.planned
                                                  /\ e.n = said'.plan[e.turn]
        BY <1>2, <1>3 DEF PlanTypes
      <4> QED  BY <4>1, <4>2, <4>3
    <3> QED  BY <1>1, <3>1, <3>2
  <2>2. ASSUME NEW j \in DOMAIN events', NEW k \in DOMAIN events', j < k,
               events'[j].turn = events'[k].turn
        PROVE  /\ events'[j].type = "turn.proposed.completed" => events'[k].type \notin PlanTypes
               /\ events'[j].type = "turn.proposed.delta" /\ events'[k].type = "turn.proposed.delta"
                    => events'[j].n < events'[k].n
    <3>1. CASE k \in DOMAIN events
      <4>1. j \in DOMAIN events  BY <1>1, <2>2, <3>1
      <4>2. events'[j] = events[j] /\ events'[k] = events[k]  BY <1>1, <3>1, <4>1
      <4> QED  BY <2>2, <3>1, <4>1, <4>2 DEF Plans, PlanEvents
    <3>2. CASE k = Len(events) + 1
      <4>1. j \in DOMAIN events /\ events'[j] = events[j] /\ events'[k] = e  BY <1>1, <2>2, <3>2
      <4>2. events[j].turn = e.turn  BY <2>2, <4>1
      <4>3. events[j].type = "turn.proposed.completed" => e.type \notin PlanTypes
        BY <1>2, <1>4, <4>1, <4>2
      <4>4. events[j].type = "turn.proposed.delta" /\ e.type = "turn.proposed.delta"
              => events[j].n < e.n
        <5>1. events[j].n \in Nat  BY <1>4, <4>1 DEF Event
        <5> QED  BY <1>1, <1>3, <1>4, <4>1, <4>2, <5>1
      <4> QED  BY <4>1, <4>3, <4>4
    <3> QED  BY <1>1, <3>1, <3>2
  <2> QED  BY <2>1, <2>2 DEF PlanEvents
<1>9. ASSUME NEW t \in Turns, PlanSettled(t) PROVE PlanSettled(t)'
  <2>1. t <= provider.turns /\ NoMorePlan(t)  BY <1>9 DEF PlanSettled
  <2>2. NoMorePlan(t)' /\ ~(e.type \in PlanTypes /\ e.turn = t)  BY <1>5, <2>1
  <2>3. said'.plan[t] = said.plan[t]  BY <1>3, <2>2
  <2>4. t <= provider'.turns
    <3>1. provider.turns \in Nat /\ t \in Nat /\ provider'.turns \in Nat
      BY <1>1 DEF Typed, Provider, Turns
    <3> QED  BY <1>1, <2>1, <3>1
  <2> QED  BY <1>1, <1>9, <2>2, <2>3, <2>4 DEF PlanSettled
<1>10. ASSUME NEW t \in Turns, PlanOpen(t), ~(e.type \in PlanTypes /\ e.turn = t) PROVE PlanOpen(t)'
  <2>1. said'.plan[t] = said.plan[t]  BY <1>3, <1>10
  <2>2. \A j \in DOMAIN events: (PlanDelta(j, t) <=> PlanDelta(j, t)') /\ (PlanDone(j, t) <=> PlanDone(j, t)')
    BY <1>1 DEF PlanDelta, PlanDone
  <2>3. \A j \in DOMAIN events': PlanDelta(j, t)' => j \in DOMAIN events /\ PlanDelta(j, t)
    BY <1>1, <1>10 DEF PlanDelta, PlanTypes
  <2>4. PlanText(t)'
    BY <1>1, <1>10, <2>1, <2>3 DEF PlanOpen, PlanText
  <2>5. PlanCovered(t)'
    <3>1. ASSUME NEW n, PlanComing(t, n) PROVE PlanComing(t, n)'
      <4>1. CASE \/ \E k \in DOMAIN steps: /\ steps[k].op = "propose" /\ steps[k].turn = t
                                           /\ n = Len(caches.plan[t]) + 1
                 \/ \E k \in DOMAIN steps: /\ steps[k].op = "plan" /\ steps[k].turn = t
                                           /\ steps[k].text # <<>> /\ caches.plan[t] = <<>>
        BY <1>1, <4>1 DEF PlanComing
      <4>2. CASE \E j \in DOMAIN events: PlanDelta(j, t) /\ n = events[j].n
        BY <1>1, <2>2, <4>2 DEF PlanComing
      <4>3. CASE \E j \in DOMAIN events: /\ PlanDone(j, t) /\ n = 1 /\ events[j].n = 1
                                         /\ \A l \in DOMAIN events: ~PlanDelta(l, t)
        <5>1. \A l \in DOMAIN events': ~PlanDelta(l, t)'  BY <2>3, <4>3
        <5> QED  BY <1>1, <2>2, <4>3, <5>1 DEF PlanComing
      <4> QED  BY <3>1, <4>1, <4>2, <4>3 DEF PlanComing
    <3> QED  BY <1>1, <1>10, <2>1, <3>1 DEF PlanOpen, PlanCovered
  <2> QED  BY <1>1, <1>10, <2>4, <2>5 DEF PlanOpen
<1>11. ASSUME NEW t \in Turns, PlanOpen(t), e.type \in PlanTypes, e.turn = t PROVE PlanOpen(t)'
  <2>1. PICK h \in Nat, s \in Nat, s2 \in Nat:
          h = Len(caches.plan[t]) /\ s = said.plan[t] /\ s2 = said'.plan[t] /\ s <= s2 /\ s2 = e.n
          /\ h = Len(caches'.plan[t])
    <3>1. Len(caches.plan[t]) \in Nat /\ said.plan[t] \in Nat  BY <1>1, PlanIs
    <3>2. e.n \in Nat /\ said'.plan[t] = e.n /\ said.plan[t] <= e.n
      BY <1>1, <1>3, <1>11 DEF PlanTypes, Event
    <3> QED  BY <1>1, <3>1, <3>2
  <2>2. \A k \in DOMAIN steps: ~(steps[k].op = "plan" /\ steps[k].turn = t)  BY <1>6, <1>11
  <2>3. /\ e.type = "turn.proposed.delta" => s2 = s + 1
        /\ e.type = "turn.proposed.completed" => s2 = s \/ (s = 0 /\ s2 = 1)
    BY <1>3, <1>11, <2>1
  <2>4. \A j \in DOMAIN events: (PlanDelta(j, t) <=> PlanDelta(j, t)') /\ (PlanDone(j, t) <=> PlanDone(j, t)')
    BY <1>1 DEF PlanDelta, PlanDone
  <2>5. \A j \in DOMAIN events': PlanDelta(j, t)' =>
          \/ j \in DOMAIN events /\ PlanDelta(j, t) /\ events'[j] = events[j]
          \/ e.type = "turn.proposed.delta" /\ events'[j].n = s + 1
    BY <1>1, <2>1, <2>3 DEF PlanDelta
  <2>6. /\ h <= s /\ \A j \in DOMAIN events: PlanDelta(j, t) => h < events[j].n
        /\ \A k \in DOMAIN steps: steps[k].turn = t /\ steps[k].op = "propose" =>
             /\ steps[k].text = <<h + 1>> /\ h < s
             /\ \A j \in DOMAIN events: PlanDelta(j, t) => h + 1 < events[j].n
    BY <1>11, <2>1 DEF PlanOpen, PlanText
  <2>7. PlanText(t)'
    <3>1. \A j \in DOMAIN events': PlanDelta(j, t)' => h < events'[j].n
      BY <2>1, <2>5, <2>6
    <3>2. h <= s2  BY <2>1, <2>6
    <3>3. \A k \in DOMAIN steps: steps[k].turn = t /\ steps[k].op = "propose" =>
             /\ steps[k].text = <<h + 1>> /\ h < s2
             /\ \A j \in DOMAIN events': PlanDelta(j, t)' => h + 1 < events'[j].n
      <4> SUFFICES ASSUME NEW k \in DOMAIN steps, steps[k].turn = t /\ steps[k].op = "propose"
                   PROVE  /\ steps[k].text = <<h + 1>> /\ h < s2
                          /\ \A j \in DOMAIN events': PlanDelta(j, t)' => h + 1 < events'[j].n
        OBVIOUS
      <4>1. steps[k].text = <<h + 1>> /\ h < s  BY <2>6
      <4>2. \A j \in DOMAIN events: PlanDelta(j, t) => h + 1 < events[j].n  BY <2>6
      <4>3. \A j \in DOMAIN events': PlanDelta(j, t)' => h + 1 < events'[j].n
        BY <2>5, <4>1, <4>2
      <4>4. h < s2  BY <2>1, <4>1
      <4> QED  BY <4>1, <4>3, <4>4
    <3>4. Counts(caches.plan[t], 0, Len(caches.plan[t]))  BY <1>11 DEF PlanOpen, PlanText
    <3> QED  BY <1>1, <2>1, <2>2, <3>1, <3>2, <3>3, <3>4 DEF PlanText
  <2>8. PlanCovered(t)'
    <3> SUFFICES ASSUME NEW n \in 1 .. s2, ~(n <= h) PROVE PlanComing(t, n)'
      BY <2>1 DEF PlanCovered
    <3>1. CASE n <= s
      <4>1. n \in 1 .. s  BY <3>1
      <4>2. PlanComing(t, n)  BY <1>11, <2>1, <4>1 DEF PlanOpen, PlanCovered
      <4>3. \A j \in DOMAIN events: ~PlanDone(j, t)  BY <1>2, <1>4, <1>11 DEF PlanDone
      <4>4. CASE \E k \in DOMAIN steps: /\ steps[k].op = "propose" /\ steps[k].turn = t
                                        /\ n = Len(caches.plan[t]) + 1
        BY <1>1, <4>4 DEF PlanComing
      <4>5. CASE \E j \in DOMAIN events: PlanDelta(j, t) /\ n = events[j].n
        BY <1>1, <2>4, <4>5 DEF PlanComing
      <4> QED  BY <2>2, <4>2, <4>3, <4>4, <4>5 DEF PlanComing
    <3>2. CASE ~(n <= s) /\ e.type = "turn.proposed.delta"
      <4>1. n = e.n  BY <2>1, <2>3, <3>2
      <4>2. PICK l \in DOMAIN events': l = Len(events) + 1 /\ events'[l] = e  BY <1>1
      <4>3. PlanDelta(l, t)'  BY <1>11, <3>2, <4>2 DEF PlanDelta
      <4> QED  BY <4>1, <4>2, <4>3 DEF PlanComing
    <3>3. CASE ~(n <= s) /\ e.type = "turn.proposed.completed"
      <4>1. s = 0 /\ n = 1 /\ e.n = 1  BY <2>1, <2>3, <3>3
      <4>2. PICK l \in DOMAIN events': l = Len(events) + 1 /\ events'[l] = e  BY <1>1
      <4>3. PlanDone(l, t)'  BY <1>11, <3>3, <4>2 DEF PlanDone
      <4>4. \A j \in DOMAIN events': ~PlanDelta(j, t)'
        <5> SUFFICES ASSUME NEW j \in DOMAIN events', PlanDelta(j, t)' PROVE FALSE
          OBVIOUS
        <5>1. j \in DOMAIN events /\ PlanDelta(j, t)  BY <2>5, <3>3
        <5>2. events[j].n \in Nat /\ events[j].n # 0 /\ events[j].n <= 0
          BY <1>4, <2>1, <4>1, <5>1 DEF PlanDelta, Event
        <5> QED  BY <5>2
      <4> QED  BY <4>1, <4>2, <4>3, <4>4 DEF PlanComing
    <3> QED  BY <1>11, <3>1, <3>2, <3>3 DEF PlanTypes
  <2> QED  BY <1>1, <1>11, <2>7, <2>8 DEF PlanOpen
<1>12. ASSUME NEW t \in Turns, t \notin provider'.cut PROVE PlanOpen(t)' \/ PlanSettled(t)'
  <2>1. PlanOpen(t) \/ PlanSettled(t)  BY <1>2, <1>12 DEF Plans
  <2> QED  BY <1>9, <1>10, <1>11, <2>1
<1> QED  BY <1>7, <1>8, <1>12 DEF Plans

LEMMA TakingKeepsPlans ==
  ASSUME Core, Plans, NEW e, Takes(e) PROVE Plans'
<1>1. /\ UNCHANGED <<provider, said, caches, thread>> /\ DOMAIN steps = {}
      /\ e = events[1] /\ 1 \in DOMAIN events /\ EventFits(e) /\ Wellformed(e) /\ e \in Event
      /\ e.turn \in Turns /\ e.turn \in Nat \ {0} /\ Fits(steps', e) /\ Shapes(steps', e) /\ Typed
      /\ \A k \in DOMAIN events: k \in Nat \ {0}
      /\ \A k \in DOMAIN events': /\ k + 1 \in DOMAIN events /\ events'[k] = events[k + 1]
                                  /\ k \in Nat \ {0} /\ Precedes(e, events'[k])
      /\ \A k \in DOMAIN events: k = 1 \/ (k - 1 \in DOMAIN events' /\ events[k] = events'[k - 1])
  BY AfterTaking DEF Core
<1>2. \A k \in DOMAIN steps': steps'[k].turn = e.turn  BY <1>1 DEF Fits
<1>3. \A k \in DOMAIN steps':
        /\ steps'[k].op = "propose" => e.type = "turn.proposed.delta" /\ steps'[k].text = <<e.n>>
        /\ steps'[k].op = "plan" =>
             \/ e.type = "turn.proposed.completed" /\ steps'[k].text = Pieces(e.n)
             \/ e.type = "turn.completed" /\ steps'[k].text = <<>>
  BY <1>1 DEF Fits, Shapes
<1>4. /\ e.type = "turn.proposed.delta" => e.n # 0 /\ e.n <= said.plan[e.turn]
      /\ e.type = "turn.proposed.completed" => e.turn \in provider.planned /\ e.n = said.plan[e.turn]
  BY <1>1 DEF Plans, PlanEvents
<1>5. ASSUME NEW k \in DOMAIN events', events'[k].turn = e.turn
      PROVE  /\ e.type = "turn.proposed.completed" => events'[k].type \notin PlanTypes
             /\ e.type = "turn.proposed.delta" /\ events'[k].type = "turn.proposed.delta" =>
                  e.n < events'[k].n
             /\ e.type \notin Ends
  <2>1. k + 1 \in DOMAIN events /\ events'[k] = events[k + 1] /\ 1 < k + 1  BY <1>1
  <2>2. e.type \notin Ends  BY <1>1, <1>5 DEF Precedes
  <2> QED  BY <1>1, <1>5, <2>1, <2>2 DEF Plans, PlanEvents
<1>6. PlanEvents'
  <2>1. ASSUME NEW j \in DOMAIN events'
        PROVE  /\ events'[j].type = "turn.proposed.delta" =>
                    events'[j].n # 0 /\ events'[j].n <= said.plan[events'[j].turn]
               /\ events'[j].type = "turn.proposed.completed" =>
                    /\ events'[j].turn \in provider.planned
                    /\ events'[j].n = said.plan[events'[j].turn]
    BY <1>1 DEF Plans, PlanEvents
  <2>2. ASSUME NEW j \in DOMAIN events', NEW k \in DOMAIN events', j < k,
               events'[j].turn = events'[k].turn
        PROVE  /\ events'[j].type = "turn.proposed.completed" => events'[k].type \notin PlanTypes
               /\ events'[j].type = "turn.proposed.delta" /\ events'[k].type = "turn.proposed.delta"
                    => events'[j].n < events'[k].n
    <3>1. /\ j + 1 \in DOMAIN events /\ k + 1 \in DOMAIN events /\ j + 1 < k + 1
          /\ events'[j] = events[j + 1] /\ events'[k] = events[k + 1]
      BY <1>1, <2>2
    <3> QED  BY <2>2, <3>1 DEF Plans, PlanEvents
  <2> QED  BY <1>1, <2>1, <2>2 DEF PlanEvents
<1>7. \A t \in Turns: NoMorePlan(t) => NoMorePlan(t)'  BY <1>1 DEF NoMorePlan
<1>8. PlanSteps'
  <2>1. ASSUME e.type \in {"turn.proposed.completed", "turn.completed"} PROVE NoMorePlan(e.turn)'
    <3>1. e.turn \in provider.planned \/ e.turn # provider.turn
      BY <1>1, <1>4, <2>1 DEF EventFits, Ends
    <3>2. \A k \in DOMAIN events': events'[k].turn = e.turn => events'[k].type \notin PlanTypes
      BY <1>5, <2>1 DEF Ends
    <3>3. PICK t: t = e.turn  OBVIOUS
    <3>4. NoMorePlan(t)'  BY <1>1, <3>1, <3>2, <3>3 DEF NoMorePlan
    <3> QED  BY <1>1, <3>3, <3>4 DEF NoMorePlan
  <2>2. ASSUME NEW k \in DOMAIN steps', steps'[k].op = "plan" PROVE NoMorePlan(steps[k].turn)'
    <3>1. NoMorePlan(e.turn)'  BY <1>3, <2>1, <2>2
    <3>2. PICK t: t = e.turn /\ t = steps'[k].turn  BY <1>2
    <3> QED  BY <3>1, <3>2 DEF NoMorePlan
  <2> QED  BY <2>2 DEF PlanSteps
<1>9. ASSUME NEW t \in Turns, PlanSettled(t) PROVE PlanSettled(t)'
  <2>1. NoMorePlan(t)'  BY <1>7, <1>9 DEF PlanSettled
  <2>2. e.turn = t => e.type \notin PlanTypes  BY <1>1, <1>9 DEF PlanSettled, NoMorePlan
  <2>3. \A k \in DOMAIN steps': steps'[k].turn = t =>
          steps'[k].op # "propose" /\ (steps'[k].op = "plan" => steps'[k].text = <<>>)
    BY <1>2, <1>3, <2>2 DEF PlanTypes
  <2> QED  BY <1>1, <1>9, <2>1, <2>3 DEF PlanSettled
<1>10. ASSUME NEW t \in Turns
       PROVE  \A j \in DOMAIN events':
                /\ j + 1 \in DOMAIN events /\ events'[j] = events[j + 1]
                /\ PlanDelta(j, t)' <=> PlanDelta(j + 1, t)
  BY <1>1 DEF PlanDelta
<1>11. ASSUME NEW t \in Turns, NEW j \in DOMAIN events, j # 1
       PROVE  /\ j - 1 \in DOMAIN events' /\ events'[j - 1] = events[j]
              /\ PlanDelta(j, t) => PlanDelta(j - 1, t)'
              /\ PlanDone(j, t) => PlanDone(j - 1, t)'
  BY <1>1, <1>11 DEF PlanDelta, PlanDone
<1>12. ASSUME NEW t \in Turns, NEW n, n = 1,
              NEW j \in DOMAIN events, j # 1, PlanDone(j, t), events[j].n = 1,
              \A l \in DOMAIN events: ~PlanDelta(l, t)
       PROVE  PlanComing(t, n)'
  <2>1. \A l \in DOMAIN events': ~PlanDelta(l, t)'  BY <1>10, <1>12
  <2>2. PICK m \in DOMAIN events': m = j - 1 /\ events'[m] = events[j] /\ PlanDone(m, t)'
    BY <1>11, <1>12
  <2> QED  BY <1>12, <2>1, <2>2 DEF PlanComing
<1>13. ASSUME NEW t \in Turns, NEW n, NEW j \in DOMAIN events, j # 1, PlanDelta(j, t), n = events[j].n
       PROVE  PlanComing(t, n)'
  <2>1. PICK m \in DOMAIN events': m = j - 1 /\ events'[m] = events[j] /\ PlanDelta(m, t)'
    BY <1>11, <1>13
  <2> QED  BY <1>13, <2>1 DEF PlanComing
<1>14. ASSUME NEW t \in Turns, NEW n, PlanComing(t, n)
       PROVE  \/ PlanComing(t, n)'
              \/ PlanDelta(1, t) /\ n = e.n
              \/ PlanDone(1, t) /\ n = 1 /\ e.n = 1
  <2>1. CASE \E j \in DOMAIN events: PlanDelta(j, t) /\ n = events[j].n
    <3>1. PICK j \in DOMAIN events: PlanDelta(j, t) /\ n = events[j].n  BY <2>1
    <3>2. CASE j = 1  BY <1>1, <3>1, <3>2
    <3>3. CASE j # 1  BY <1>13, <3>1, <3>3
    <3> QED  BY <3>2, <3>3
  <2>2. CASE \E j \in DOMAIN events: /\ PlanDone(j, t) /\ n = 1 /\ events[j].n = 1
                                     /\ \A l \in DOMAIN events: ~PlanDelta(l, t)
    <3>1. PICK j \in DOMAIN events: PlanDone(j, t) /\ n = 1 /\ events[j].n = 1  BY <2>2
    <3>2. CASE j = 1  BY <1>1, <3>1, <3>2
    <3>3. CASE j # 1  BY <1>12, <2>2, <3>1, <3>3
    <3> QED  BY <3>2, <3>3
  <2> QED  BY <1>1, <1>14, <2>1, <2>2 DEF PlanComing
<1>15. ASSUME NEW t \in Turns, PlanOpen(t) PROVE PlanOpen(t)'
  <2>1. PICK h \in Nat, s \in Nat:
          /\ h = Len(caches.plan[t]) /\ h = Len(caches'.plan[t])
          /\ s = said.plan[t] /\ s = said'.plan[t]
    BY <1>1, PlanIs
  <2>2. /\ h <= s /\ \A j \in DOMAIN events: PlanDelta(j, t) => h < events[j].n
        /\ Counts(caches.plan[t], 0, h)
    BY <1>15, <2>1 DEF PlanOpen, PlanText
  <2>3. ASSUME NEW n \in 1 .. s, ~(n <= h) PROVE PlanComing(t, n)
    BY <1>15, <2>1, <2>3 DEF PlanOpen, PlanCovered
  <2>4. ASSUME PlanDelta(1, t) PROVE e.n = h + 1 /\ h < s
    <3>1. e.type = "turn.proposed.delta" /\ e.turn = t  BY <1>1, <2>4 DEF PlanDelta
    <3>2. PICK n \in Nat: n = e.n /\ h < n /\ n <= s  BY <1>1, <1>4, <2>1, <2>2, <2>4, <3>1 DEF Event
    <3>3. h + 1 \in 1 .. s /\ ~(h + 1 <= h)  BY <3>2
    <3>4. PlanComing(t, h + 1)  BY <2>3, <3>3
    <3>5. PICK j \in DOMAIN events: PlanDelta(j, t) /\ h + 1 = events[j].n
      BY <1>1, <2>4, <3>4 DEF PlanComing
    <3>6. CASE j = 1  BY <1>1, <3>2, <3>5, <3>6
    <3>7. CASE j # 1
      <4>1. 1 < j /\ events[1].turn = events[j].turn /\ events[1].type = "turn.proposed.delta"
            /\ events[j].type = "turn.proposed.delta"
        BY <1>1, <2>4, <3>5, <3>7 DEF PlanDelta
      <4>2. events[1].n < events[j].n  BY <1>1, <4>1 DEF Plans, PlanEvents
      <4> QED  BY <1>1, <3>2, <3>5, <4>2
    <3> QED  BY <3>2, <3>6, <3>7
  <2>5. PlanText(t)'
    <3>1. \A j \in DOMAIN events': PlanDelta(j, t)' => h < events'[j].n  BY <1>10, <2>2
    <3>2. ASSUME NEW k \in DOMAIN steps', steps'[k].turn = t, steps'[k].op = "propose"
          PROVE  /\ steps'[k].text = <<h + 1>> /\ h < s
                 /\ \A j \in DOMAIN events': PlanDelta(j, t)' => h + 1 < events'[j].n
      <4>1. e.turn = t /\ e.type = "turn.proposed.delta" /\ steps'[k].text = <<e.n>>
        BY <1>2, <1>3, <3>2
      <4>2. e.n = h + 1 /\ h < s  BY <1>1, <2>4, <4>1 DEF PlanDelta
      <4>3. \A j \in DOMAIN events': PlanDelta(j, t)' => e.n < events'[j].n
        BY <1>5, <4>1 DEF PlanDelta
      <4> QED  BY <4>1, <4>2, <4>3
    <3>3. ASSUME NEW k \in DOMAIN steps', steps'[k].turn = t, steps'[k].op = "plan",
                 steps'[k].text # <<>>
          PROVE  steps'[k].text = Pieces(s)
      BY <1>2, <1>3, <1>4, <2>1, <3>3
    <3>4. caches' = caches /\ DOMAIN steps' = DOMAIN steps'  BY <1>1
    <3> QED  BY <2>1, <2>2, <3>1, <3>2, <3>3, <3>4 DEF PlanText
  <2>6. PlanCovered(t)'
    <3> SUFFICES ASSUME NEW n \in 1 .. s, ~(n <= h) PROVE PlanComing(t, n)'
      BY <2>1 DEF PlanCovered
    <3>1. PlanComing(t, n)  BY <2>3
    <3>2. CASE PlanDelta(1, t) /\ n = e.n
      <4>1. n = h + 1  BY <2>4, <3>2
      <4>2. e.type = "turn.proposed.delta" /\ e.turn = t  BY <1>1, <3>2 DEF PlanDelta
      <4>3. 1 \in DOMAIN steps' /\ steps'[1].op = "propose" /\ steps'[1].turn = t
        BY <1>1, <1>2, <4>2 DEF Shapes
      <4> QED  BY <2>1, <4>1, <4>3 DEF PlanComing
    <3>3. CASE PlanDone(1, t) /\ n = 1 /\ e.n = 1
      <4>1. e.type = "turn.proposed.completed" /\ e.turn = t  BY <1>1, <3>3 DEF PlanDone
      <4>2. 1 \in DOMAIN steps' /\ steps'[1].op = "plan" /\ steps'[1].turn = t
            /\ steps'[1].text = Pieces(e.n)
        BY <1>1, <1>2, <4>1 DEF Shapes
      <4>3. PICK m \in Nat: m = e.n /\ m = 1  BY <3>3
      <4>4. steps'[1].text # <<>>  BY <4>2, <4>3, PiecesCount
      <4>5. h = 0  BY <3>3
      <4>6. caches.plan[t] = <<>>  BY <1>1, <2>1, <4>5, PlanIs
      <4> QED  BY <1>1, <4>2, <4>4, <4>6 DEF PlanComing
    <3> QED  BY <1>14, <3>1, <3>2, <3>3
  <2> QED  BY <1>1, <1>15, <2>5, <2>6 DEF PlanOpen
<1>16. ASSUME NEW t \in Turns, t \notin provider.cut PROVE PlanOpen(t)' \/ PlanSettled(t)'
  <2>1. PlanOpen(t) \/ PlanSettled(t)  BY <1>16 DEF Plans
  <2> QED  BY <1>9, <1>15, <2>1
<1> QED  BY <1>1, <1>6, <1>8, <1>16 DEF Plans

LEMMA DoingKeepsPlans ==
  ASSUME Core, Ground, Releasing, Plans, NEW o \in Todo, Does(o) PROVE Plans'
<1>1. /\ UNCHANGED <<events, provider, said>> /\ StepFits(o) /\ o = steps[1] /\ 1 \in DOMAIN steps
      /\ Wrote(o) /\ PlanAfter(o) /\ o.turn \in Turns /\ Typed
      /\ Len(steps) \in Nat /\ (Len(steps) = 1 => DOMAIN steps' = {})
      /\ \A k \in DOMAIN steps: k \in 1 .. Len(steps)
      /\ \A k \in DOMAIN steps': k + 1 \in DOMAIN steps /\ steps'[k] = steps[k + 1] /\ k \in Nat \ {0}
      /\ \A k \in DOMAIN steps: k = 1 \/ (k - 1 \in DOMAIN steps' /\ steps[k] = steps'[k - 1])
  BY AfterDoing DEF Core
<1>2. \A k \in DOMAIN steps: /\ steps[k].op = "plan" => k = Len(steps)
                             /\ steps[k].op = "propose" => Len(steps) = 1 /\ k = 1
  BY <1>1 DEF Ground, Handling
<1>3. caches.plan \in [Turns -> Seq(Nat)] /\ thread.plan \in [Turns -> Seq(Nat)]
  BY <1>1 DEF Typed, Caches, Thread
<1>4. PlanEvents'  BY <1>1 DEF Plans, PlanEvents
<1>5. \A t: NoMorePlan(t) => NoMorePlan(t)'  BY <1>1 DEF NoMorePlan
<1>6. PlanSteps'
  <2>1. ASSUME NEW k \in DOMAIN steps', steps'[k].op = "plan" PROVE NoMorePlan(steps[k].turn)'
    <3>1. PICK t: t = steps'[k].turn /\ t = steps[k + 1].turn  BY <1>1
    <3>2. NoMorePlan(t)  BY <1>1, <2>1, <3>1 DEF Plans, PlanSteps
    <3>3. NoMorePlan(t)'  BY <1>5, <3>2
    <3> QED  BY <3>1, <3>3 DEF NoMorePlan
  <2> QED  BY <2>1 DEF PlanSteps
<1>7. ASSUME NEW t \in Turns, t \notin provider.cut, ~(o.op \in {"propose", "plan"} /\ o.turn = t)
      PROVE  caches'.plan[t] = caches.plan[t] /\ thread'.plan[t] = thread.plan[t]
  <2>1. caches'.plan[t] = caches.plan[t]
    <3>1. CASE o.op = "propose"
      <4>1. caches'.plan = [caches.plan EXCEPT ![o.turn] = caches.plan[o.turn] \o o.text]
        BY <1>1, <3>1 DEF PlanAfter
      <4> QED  BY <1>3, <1>7, <3>1, <4>1
    <3>2. CASE o.op = "plan"
      <4>1. caches'.plan = [caches.plan EXCEPT ![o.turn] = <<>>]  BY <1>1, <3>2 DEF PlanAfter
      <4> QED  BY <1>3, <1>7, <3>2, <4>1
    <3>3. CASE o.op = "exit"
      <4>1. caches'.plan = [u \in Turns |-> <<>>]  BY <1>1, <3>3 DEF PlanAfter
      <4>2. caches.plan[t] = <<>>  BY <1>7, <3>3, OnlyTheCutTurn
      <4> QED  BY <4>1, <4>2
    <3>4. CASE o.op \notin {"propose", "plan", "exit"}  BY <1>1, <3>4 DEF PlanAfter
    <3> QED  BY <3>1, <3>2, <3>3, <3>4
  <2>2. thread'.plan[t] = thread.plan[t]
    <3>1. CASE o.op = "plan"
      <4>1. PICK x: thread'.plan = [thread.plan EXCEPT ![o.turn] = x]  BY <1>1, <3>1 DEF Wrote
      <4> QED  BY <1>3, <1>7, <3>1, <4>1
    <3>2. CASE o.op # "plan"  BY <1>1, <3>2 DEF Wrote
    <3> QED  BY <3>1, <3>2
  <2> QED  BY <2>1, <2>2
<1>8. \A t, j: PlanDelta(j, t)' <=> PlanDelta(j, t)  BY <1>1 DEF PlanDelta
<1>9. \A t, j: PlanDone(j, t)' <=> PlanDone(j, t)  BY <1>1 DEF PlanDone
<1>10. ASSUME NEW t \in Turns, t \notin provider.cut, PlanSettled(t),
              ~(o.op \in {"propose", "plan"} /\ o.turn = t)
       PROVE  PlanSettled(t)'
  <2>1. NoMorePlan(t)'  BY <1>5, <1>10 DEF PlanSettled
  <2>2. \A k \in DOMAIN steps': steps'[k].turn = t =>
          steps'[k].op # "propose" /\ (steps'[k].op = "plan" => steps'[k].text = <<>>)
    BY <1>1, <1>10 DEF PlanSettled
  <2> QED  BY <1>1, <1>7, <1>10, <2>1, <2>2 DEF PlanSettled
<1>11. ASSUME NEW t \in Turns, t \notin provider.cut, PlanOpen(t),
              ~(o.op \in {"propose", "plan"} /\ o.turn = t)
       PROVE  PlanOpen(t)'
  <2>1. caches'.plan[t] = caches.plan[t] /\ thread'.plan[t] = thread.plan[t] /\ said' = said
    BY <1>1, <1>7, <1>11
  <2>2. PlanText(t)'
    <3>1. ASSUME NEW k \in DOMAIN steps', steps'[k].turn = t
          PROVE  /\ steps'[k].op # "propose"
                 /\ steps'[k].op = "plan" /\ steps'[k].text # <<>> =>
                      steps'[k].text = Pieces(said.plan[t])
      <4>1. k + 1 \in DOMAIN steps /\ steps'[k] = steps[k + 1] /\ k + 1 # 1  BY <1>1
      <4>2. steps'[k].op # "propose"  BY <1>2, <4>1
      <4> QED  BY <1>11, <3>1, <4>1, <4>2 DEF PlanOpen, PlanText
    <3>2. /\ Counts(caches.plan[t], 0, Len(caches.plan[t])) /\ Len(caches.plan[t]) <= said.plan[t]
          /\ \A j \in DOMAIN events: PlanDelta(j, t) => Len(caches.plan[t]) < events[j].n
      BY <1>11 DEF PlanOpen, PlanText
    <3> QED  BY <1>1, <1>8, <2>1, <3>1, <3>2 DEF PlanText
  <2>3. PlanCovered(t)'
    <3>1. ASSUME NEW n, PlanComing(t, n) PROVE PlanComing(t, n)'
      <4>1. ASSUME NEW k \in DOMAIN steps, steps[k].op = "propose", steps[k].turn = t PROVE FALSE
        <5>1. k = 1  BY <1>2, <4>1
        <5> QED  BY <1>1, <1>11, <4>1, <5>1
      <4>2. CASE \E j \in DOMAIN events: PlanDelta(j, t) /\ n = events[j].n
        BY <1>1, <1>8, <4>2 DEF PlanComing
      <4>3. CASE \E j \in DOMAIN events: /\ PlanDone(j, t) /\ n = 1 /\ events[j].n = 1
                                         /\ \A l \in DOMAIN events: ~PlanDelta(l, t)
        BY <1>1, <1>8, <1>9, <4>3 DEF PlanComing
      <4>4. ASSUME NEW k \in DOMAIN steps, steps[k].op = "plan", steps[k].turn = t,
                   steps[k].text # <<>>, caches.plan[t] = <<>>
            PROVE  PlanComing(t, n)'
        <5>1. k # 1  BY <1>1, <1>11, <4>4
        <5>2. k - 1 \in DOMAIN steps' /\ steps[k] = steps'[k - 1]  BY <1>1, <5>1
        <5> QED  BY <2>1, <4>4, <5>2 DEF PlanComing
      <4> QED  BY <3>1, <4>1, <4>2, <4>3, <4>4 DEF PlanComing
    <3>2. PlanCovered(t)  BY <1>11 DEF PlanOpen
    <3> QED  BY <2>1, <3>1, <3>2 DEF PlanCovered
  <2> QED  BY <1>11, <2>1, <2>2, <2>3 DEF PlanOpen
<1>12. ASSUME NEW t \in Turns, PlanOpen(t), o.op = "propose", o.turn = t PROVE PlanOpen(t)'
  <2>1. PICK h \in Nat, s \in Nat: /\ h = Len(caches.plan[t]) /\ s = said.plan[t] /\ s = said'.plan[t]
    BY <1>1, PlanIs
  <2>2. /\ o.text = <<h + 1>> /\ h < s /\ Counts(caches.plan[t], 0, h)
        /\ \A j \in DOMAIN events: PlanDelta(j, t) => h + 1 < events[j].n
    BY <1>1, <1>12, <2>1 DEF PlanOpen, PlanText
  <2>3. PICK r: r = caches.plan[t] \o o.text  OBVIOUS
  <2>4. caches'.plan[t] = r
    <3>1. caches'.plan = [caches.plan EXCEPT ![o.turn] = caches.plan[o.turn] \o o.text]
      BY <1>1, <1>12 DEF PlanAfter
    <3> QED  BY <1>3, <1>12, <2>3, <3>1
  <2>5. Counts(r, 0, h + 1)
    <3>1. PICK m, p, q: m = h + 1 /\ p = o.text /\ q = caches.plan[t]  OBVIOUS
    <3>2. Counts(p, h, m)  BY <2>2, <3>1, OneCounts
    <3>3. Counts(q, 0, h) /\ r = q \o p  BY <2>2, <2>3, <3>1
    <3>4. Counts(r, 0, m)
      <4> HIDE <3>1
      <4> QED  BY <3>2, <3>3, ConcatCounts
    <3> QED  BY <3>1, <3>4
  <2>6. Len(r) = h + 1
    <3>1. PICK m: m = h + 1  OBVIOUS
    <3>2. Counts(r, 0, m)  BY <2>5, <3>1
    <3>3. m = 0 + Len(r) /\ Len(r) \in Nat  BY <3>2, CountsTo
    <3> QED  BY <3>1, <3>3
  <2>7. DOMAIN steps' = {}  BY <1>1, <1>2, <1>12
  <2>8. PlanText(t)'
    <3>1. h + 1 <= s  BY <2>2
    <3> QED  BY <1>1, <1>8, <2>1, <2>2, <2>4, <2>5, <2>6, <2>7, <3>1 DEF PlanText
  <2>9. PlanCovered(t)'
    <3> SUFFICES ASSUME NEW n \in 1 .. s, ~(n <= h + 1) PROVE PlanComing(t, n)'
      BY <2>1, <2>4, <2>6 DEF PlanCovered
    <3>1. ~(n <= h) /\ n # h + 1  OBVIOUS
    <3>2. PlanComing(t, n)  BY <1>12, <2>1, <3>1 DEF PlanOpen, PlanCovered
    <3>3. \A k \in DOMAIN steps: steps[k].op # "plan"  BY <1>1, <1>2, <1>12
    <3>4. CASE \E j \in DOMAIN events: PlanDelta(j, t) /\ n = events[j].n
      BY <1>1, <1>8, <3>4 DEF PlanComing
    <3>5. CASE \E j \in DOMAIN events: /\ PlanDone(j, t) /\ n = 1 /\ events[j].n = 1
                                       /\ \A l \in DOMAIN events: ~PlanDelta(l, t)
      BY <1>1, <1>8, <1>9, <3>5 DEF PlanComing
    <3> QED  BY <2>1, <3>1, <3>2, <3>3, <3>4, <3>5 DEF PlanComing
  <2>10. thread'.plan[t] = <<>>  BY <1>1, <1>12 DEF Wrote, PlanOpen
  <2> QED  BY <2>8, <2>9, <2>10 DEF PlanOpen
<1>13. ASSUME NEW t \in Turns, o.op = "plan", o.turn = t, PlanOpen(t) \/ PlanSettled(t)
       PROVE  PlanSettled(t)'
  <2>1. Len(steps) = 1 /\ DOMAIN steps' = {}  BY <1>1, <1>2, <1>13
  <2>2. \A k \in DOMAIN steps: k = 1  BY <1>1, <2>1
  <2>3. NoMorePlan(t) /\ NoMorePlan(t)' /\ t <= provider.turns
    BY <1>1, <1>5, <1>13 DEF StepFits, Plans, PlanSteps
  <2>4. caches'.plan[t] = <<>>
    <3>1. caches'.plan = [caches.plan EXCEPT ![o.turn] = <<>>]  BY <1>1, <1>13 DEF PlanAfter
    <3> QED  BY <1>3, <1>13, <3>1
  <2>5. thread'.plan[t] = IF caches.plan[t] # <<>> THEN caches.plan[t]
                          ELSE IF o.text # <<>> THEN o.text ELSE thread.plan[t]
    <3>1. thread'.plan = [thread.plan EXCEPT ![o.turn] =
            IF caches.plan[o.turn] # <<>> THEN caches.plan[o.turn]
            ELSE IF o.text # <<>> THEN o.text ELSE thread.plan[o.turn]]
      BY <1>1, <1>13 DEF Wrote
    <3> QED  BY <1>3, <1>13, <3>1
  <2>6. thread'.plan[t] = Pieces(said.plan[t])
    <3>1. CASE PlanSettled(t)
      <4>1. caches.plan[t] = <<>> /\ o.text = <<>> /\ thread.plan[t] = Pieces(said.plan[t])
        BY <1>1, <1>13, <3>1 DEF PlanSettled
      <4> QED  BY <2>5, <4>1
    <3>2. CASE PlanOpen(t)
      <4>1. PICK h \in Nat, s \in Nat: h = Len(caches.plan[t]) /\ s = said.plan[t]
        BY <1>1, PlanIs
      <4>2. /\ Counts(caches.plan[t], 0, h) /\ h <= s /\ thread.plan[t] = <<>>
            /\ o.text # <<>> => o.text = Pieces(s)
        BY <1>1, <1>13, <3>2, <4>1 DEF PlanOpen, PlanText
      <4>3. \A j \in DOMAIN events: ~PlanDelta(j, t) /\ ~PlanDone(j, t)
        BY <2>3 DEF NoMorePlan, PlanDelta, PlanDone, PlanTypes
      <4>4. ASSUME NEW n, PlanComing(t, n) PROVE o.text # <<>> /\ caches.plan[t] = <<>>
        BY <1>1, <1>13, <2>2, <4>3, <4>4 DEF PlanComing
      <4>5. h = s \/ (o.text # <<>> /\ caches.plan[t] = <<>>)
        <5> SUFFICES ASSUME h # s PROVE o.text # <<>> /\ caches.plan[t] = <<>>
          OBVIOUS
        <5>1. h + 1 \in 1 .. s /\ ~(h + 1 <= h)  BY <4>2
        <5>2. PlanComing(t, h + 1)  BY <3>2, <4>1, <5>1 DEF PlanOpen, PlanCovered
        <5> QED  BY <4>4, <5>2
      <4>6. CASE caches.plan[t] # <<>>
        <5>1. h = s  BY <4>5, <4>6
        <5>2. caches.plan[t] = Pieces(s)  BY <4>2, <5>1, CountedPieces
        <5> QED  BY <2>5, <4>1, <4>6, <5>2
      <4>7. CASE caches.plan[t] = <<>> /\ o.text # <<>>
        BY <2>5, <4>1, <4>2, <4>7
      <4>8. CASE caches.plan[t] = <<>> /\ o.text = <<>>
        <5>1. h = s  BY <4>5, <4>8
        <5>2. caches.plan[t] = Pieces(s)  BY <4>2, <5>1, CountedPieces
        <5> QED  BY <2>5, <4>1, <4>2, <4>8, <5>2
      <4> QED  BY <4>6, <4>7, <4>8
    <3> QED  BY <1>13, <3>1, <3>2
  <2> QED  BY <1>1, <2>1, <2>3, <2>4, <2>6 DEF PlanSettled
<1>14. ASSUME NEW t \in Turns, t \notin provider.cut PROVE PlanOpen(t)' \/ PlanSettled(t)'
  <2>1. PlanOpen(t) \/ PlanSettled(t)  BY <1>14 DEF Plans
  <2>2. CASE o.op = "propose" /\ o.turn = t
    <3>1. ~PlanSettled(t)  BY <1>1, <2>2 DEF PlanSettled
    <3> QED  BY <1>12, <2>1, <2>2, <3>1
  <2>3. CASE o.op = "plan" /\ o.turn = t  BY <1>13, <2>1, <2>3
  <2>4. CASE ~(o.op \in {"propose", "plan"} /\ o.turn = t)  BY <1>10, <1>11, <1>14, <2>1, <2>4
  <2> QED  BY <2>2, <2>3, <2>4
<1> QED  BY <1>1, <1>4, <1>6, <1>14 DEF Plans

(* What holds between the steps while nothing fails.                         *)
KeptInv == Smooth => Ground /\ Texts /\ Finishing /\ Plans

LEMMA StillKeepsAll ==
  ASSUME Still, Ground, Texts, Finishing, Plans PROVE Ground' /\ Texts' /\ Finishing' /\ Plans'
<1>1. UNCHANGED <<events, provider, said, steps, caches, thread>>  BY DEF Still
<1>2. Ground'  BY <1>1 DEF Ground, CutTurns, Handling, Begun
<1>3. Texts'
  <2>1. \A i \in Item: /\ Kept(i)' = Kept(i) /\ Held(i)' = Held(i) /\ (Uncut(i)' <=> Uncut(i))
                       /\ (DeltaComing(i)' <=> DeltaComing(i)) /\ (ItemComing(i)' <=> ItemComing(i))
                       /\ (NothingMore(i)' <=> NothingMore(i))
    BY <1>1 DEF Kept, Held, Uncut, DeltaComing, ItemComing, NothingMore
  <2>2. EventTexts'  BY <1>1 DEF Texts, EventTexts
  <2>3. Flushing'
    <3>1. \A i \in Message: i \in Item  BY DEF Item
    <3> QED  BY <1>1, <2>1, <3>1 DEF Texts, Flushing, Has
  <2>4. ASSUME NEW i \in Item, Whole(i) /\ StepText(i) /\ Covered(i)
        PROVE  Whole(i)' /\ StepText(i)' /\ Covered(i)'
    <3>1. Whole(i)' /\ StepText(i)'  BY <1>1, <2>1, <2>4 DEF Whole, StepText
    <3>2. \A n: Coming(i, n) => Coming(i, n)'  BY <1>1, <2>1 DEF Coming
    <3>3. Covered(i)'  BY <1>1, <2>1, <2>4, <3>2 DEF Covered
    <3> QED  BY <3>1, <3>3
  <2> QED  BY <2>1, <2>2, <2>3, <2>4 DEF Texts
<1>4. Finishing'
  BY <1>1 DEF Finishing, Ending, Left, CompletedFirst, ItemComing, DeltaComing, Has, HasBefore
<1>5. Plans'
  <2>1. PlanEvents'  BY <1>1 DEF Plans, PlanEvents
  <2>2. PlanSteps'  BY <1>1 DEF Plans, PlanSteps, NoMorePlan
  <2>3. ASSUME NEW t \in Turns, PlanOpen(t) PROVE PlanOpen(t)'
    <3>1. PlanText(t)'  BY <1>1, <2>3 DEF PlanOpen, PlanText, PlanDelta
    <3>2. \A n: PlanComing(t, n) => PlanComing(t, n)'
      BY <1>1 DEF PlanComing, PlanDelta, PlanDone
    <3>3. PlanCovered(t)'  BY <1>1, <2>3, <3>2 DEF PlanOpen, PlanCovered
    <3> QED  BY <1>1, <2>3, <3>1, <3>3 DEF PlanOpen
  <2>4. ASSUME NEW t \in Turns, PlanSettled(t) PROVE PlanSettled(t)'
    BY <1>1, <2>4 DEF PlanSettled, NoMorePlan
  <2> QED  BY <1>1, <2>1, <2>2, <2>3, <2>4 DEF Plans
<1> QED  BY <1>2, <1>3, <1>4, <1>5

LEMMA KeptStepInv ==
  ASSUME IngestionInv, ReleaseInv, SaidInv, KeptInv, [IngestionNext]_ingestionVars PROVE KeptInv'
<1> SUFFICES ASSUME Smooth' PROVE Ground' /\ Texts' /\ Finishing' /\ Plans'
  BY DEF KeptInv
<1>1. Core /\ Inv /\ Aligned  BY DEF IngestionInv
<1>2. /\ Smooth
      /\ \/ \E e \in Event: Speaks(e)
         \/ \E e \in Event: Takes(e)
         \/ \E o \in Todo: Does(o)
         \/ Still
  BY <1>1, SmoothKinds
<1>3. Ground /\ Texts /\ Finishing /\ Plans /\ Releasing /\ Spoken
  BY <1>2 DEF KeptInv, ReleaseInv, SaidInv, Smooth
<1>4. ASSUME NEW e \in Event, Speaks(e) PROVE Ground' /\ Texts' /\ Finishing' /\ Plans'
  BY <1>1, <1>3, <1>4, SpeakingKeepsGround, SpeakingKeepsTexts, SpeakingKeepsFinishing,
     SpeakingKeepsPlans
<1>5. ASSUME NEW e \in Event, Takes(e) PROVE Ground' /\ Texts' /\ Finishing' /\ Plans'
  BY <1>1, <1>3, <1>5, TakingKeepsGround, TakingKeepsTexts, TakingKeepsFinishing, TakingKeepsPlans
<1>6. ASSUME NEW o \in Todo, Does(o) PROVE Ground' /\ Texts' /\ Finishing' /\ Plans'
  BY <1>1, <1>3, <1>6, DoingKeepsGround, DoingKeepsTexts, DoingKeepsFinishing, DoingKeepsPlans
<1>7. CASE Still  BY <1>3, <1>7, StillKeepsAll
<1> QED  BY <1>2, <1>4, <1>5, <1>6, <1>7

LEMMA KeptInitInv == IngestionInit => KeptInv
<1> SUFFICES ASSUME IngestionInit PROVE Ground /\ Texts /\ Finishing /\ Plans
  BY DEF KeptInv
<1>1. /\ DOMAIN steps = {} /\ DOMAIN events = {}
      /\ provider.cut = {} /\ provider.closed = {} /\ \A i \in Item: provider.of[i] = 0
      /\ \A i \in Item: said.text[i] = 0 /\ thread.text[i] = <<>>
      /\ \A i \in Message: caches.buffer[i] = <<>>
      /\ \A t \in Turns: caches.ids[t] = {} /\ caches.plan[t] = <<>> /\ thread.plan[t] = <<>>
                         /\ said.plan[t] = 0
  BY EmptySeq DEF IngestionInit
<1>2. Ground  BY <1>1 DEF Ground, CutTurns, Handling, Begun
<1>3. \A s: s = <<>> => Counts(s, 0, 0) /\ Len(s) = 0
  <2>1. Len(<<>>) = 0  BY EmptySeq
  <2> QED  BY <2>1, EmptyCounts
<1>4. Texts
  <2>1. EventTexts /\ Flushing  BY <1>1 DEF EventTexts, Flushing
  <2>2. ASSUME NEW i \in Item PROVE Whole(i) /\ StepText(i) /\ Covered(i)
    <3>1. Kept(i) = <<>>  BY <1>1 DEF Kept
    <3>2. Held(i) = 0  BY <1>1, <1>3, <3>1 DEF Held
    <3> QED  BY <1>1, <1>3, <3>1, <3>2 DEF Whole, StepText, Covered
  <2> QED  BY <2>1, <2>2 DEF Texts
<1>5. Finishing
  <2>1. \A i \in Message: i \in Item  BY DEF Item
  <2> QED  BY <1>1, <2>1 DEF Finishing, Ending, Left, CompletedFirst
<1>6. Plans
  <2>1. PlanEvents /\ PlanSteps  BY <1>1 DEF PlanEvents, PlanSteps
  <2>2. \A t \in Turns: PlanOpen(t)  BY <1>1, <1>3 DEF PlanOpen, PlanText, PlanCovered
  <2> QED  BY <2>1, <2>2 DEF Plans
<1> QED  BY <1>2, <1>4, <1>5, <1>6

(* Once the events are handled, what is over is in the thread as it was      *)
(* said, and complete.                                                       *)
LEMMA KeptMeans ==
  ASSUME IngestionInv, ReleaseInv, KeptInv PROVE TextIsWhatWasSaid
<1> SUFFICES ASSUME Done, count.failures = 0, count.toStreaming = 0
             PROVE  /\ \A i \in Item: Over(i) => thread.text[i] = Pieces(said.text[i])
                    /\ \A t \in Turns: Ended(t) => thread.plan[t] = Pieces(said.plan[t])
                    /\ \A i \in Message: Over(i) => thread.shown[i] = "complete"
  BY DEF TextIsWhatWasSaid
<1>1. /\ outstanding = 0 /\ phase # "dead" /\ queue \in Seq(Nat) /\ events \in Seq(Event)
      /\ outstanding = Len(queue) + InHand /\ (phase \in {"processing", "ensuring"} <=> current # 0)
      /\ phase \in {"waiting", "processing", "ensuring", "dead"} /\ Busy /\ Core /\ Typed
  BY DEF IngestionInv, Inv, TypeOK, Places, Core, Typed, Done
<1>2. Len(queue) = 0 /\ InHand = 0
  <2>1. Len(queue) \in Nat /\ InHand \in {0, 1}  BY <1>1, LenProperties DEF InHand
  <2> QED  BY <1>1, <2>1
<1>3. phase = "waiting"  BY <1>1, <1>2 DEF InHand
<1>4. steps = <<>> /\ ~failing  BY <1>1, <1>3 DEF Busy
<1>5. DOMAIN events = {} /\ DOMAIN steps = {}
  <2>1. Len(events) = 0  BY <1>2 DEF IngestionInv, Aligned
  <2>2. events = <<>>  BY <1>1, <2>1, EmptySeq
  <2> QED  BY <1>4, <2>2, EmptySeq
<1>6. Releasing /\ Ground /\ Texts /\ Finishing /\ Plans
  BY <1>4 DEF ReleaseInv, KeptInv, Smooth, Live
<1>7. ASSUME NEW i \in Item, Over(i), i \notin provider.closed
      PROVE  /\ provider.of[i] \in Turns /\ provider.of[i] # 0 /\ provider.of[i] \notin provider.cut
             /\ caches.ids[provider.of[i]] = {}
  <2>1. /\ provider.of[i] \in 1 .. provider.turns /\ provider.of[i] # provider.turn
        /\ provider.of[i] \notin provider.cut
    BY <1>7 DEF Over, Ended
  <2>2. provider.of[i] \in Nat /\ provider.turns \in Nat  BY <1>1 DEF Typed, Provider
  <2>3. provider.of[i] # 0  BY <2>1, <2>2
  <2>4. provider.of[i] \in Turns  BY <1>1, <2>3, TurnOf
  <2>5. ~EndComing(provider.of[i]) /\ ~Clears("clear", provider.of[i])
    BY <1>5, <2>1 DEF EndComing, Clears
  <2> QED  BY <1>6, <2>1, <2>3, <2>4, <2>5 DEF Releasing, IdsReleased
<1>8. ASSUME NEW i \in Message, Over(i) PROVE caches.buffer[i] = <<>>
  <2>1. i \in Item  BY DEF Item
  <2>2. CASE i \in provider.closed
    BY <1>5, <1>6, <2>2 DEF Texts, Flushing, ItemComing, Has
  <2>3. CASE i \notin provider.closed
    <3>1. \A t \in Turns: i \in caches.ids[t] => t = provider.of[i]
      BY <1>1 DEF Core, IdsOf
    <3>2. \A t \in Turns: i \notin caches.ids[t]  BY <1>7, <1>8, <2>1, <2>3, <3>1
    <3> QED  BY <1>6, <3>2 DEF Releasing, BuffersRemembered
  <2> QED  BY <2>2, <2>3
<1>9. ASSUME NEW i \in Item, Over(i) PROVE thread.text[i] = Pieces(said.text[i])
  <2>1. Uncut(i)  BY <1>7, <1>9 DEF Uncut
  <2>2. Whole(i) /\ Covered(i)  BY <1>6, <2>1 DEF Texts
  <2>3. Kept(i) = <<>>  BY <1>8, <1>9 DEF Kept
  <2>4. PICK h \in Nat, s \in Nat: h = Held(i) /\ h = Len(thread.text[i]) /\ s = said.text[i]
    BY <1>1, <2>3, HeldIs
  <2>5. h <= s /\ Counts(thread.text[i], 0, h)  BY <2>2, <2>4 DEF Whole
  <2>6. \A n: ~Coming(i, n)  BY <1>5 DEF Coming
  <2>7. h = s
    <3> SUFFICES ASSUME h # s PROVE FALSE  OBVIOUS
    <3>1. h + 1 \in 1 .. s /\ ~(h + 1 <= h)  BY <2>5
    <3> QED  BY <2>2, <2>4, <2>6, <3>1 DEF Covered
  <2>8. thread.text[i] = Pieces(h)  BY <2>5, CountedPieces
  <2> QED  BY <2>4, <2>7, <2>8
<1>10. ASSUME NEW t \in Turns, Ended(t) PROVE thread.plan[t] = Pieces(said.plan[t])
  <2>1. t \notin provider.cut /\ provider.turn # t  BY <1>10 DEF Ended
  <2>2. CASE PlanSettled(t)  BY <2>2 DEF PlanSettled
  <2>3. CASE PlanOpen(t)
    <3>1. ~EndComing(t) /\ ~Clears("plan", t)  BY <1>5, <2>1 DEF EndComing, Clears
    <3>2. caches.plan[t] = <<>>  BY <1>6, <3>1 DEF Releasing, PlansReleased
    <3>3. PICK s \in Nat: s = said.plan[t]  BY <1>1, PlanIs
    <3>4. Len(caches.plan[t]) = 0  BY <1>1, <3>2, PlanIs
    <3>5. s = 0
      <4> SUFFICES ASSUME s # 0 PROVE FALSE  OBVIOUS
      <4>1. 1 \in 1 .. s /\ ~(1 <= 0)  OBVIOUS
      <4>2. PlanComing(t, 1)  BY <2>3, <3>3, <3>4, <4>1 DEF PlanOpen, PlanCovered
      <4> QED  BY <1>5, <4>2 DEF PlanComing
    <3>6. Pieces(s) = <<>>  BY <3>5, PiecesCount
    <3> QED  BY <2>3, <3>3, <3>6 DEF PlanOpen
  <2> QED  BY <1>6, <2>1, <2>2, <2>3 DEF Plans
<1>11. ASSUME NEW i \in Message, Over(i) PROVE thread.shown[i] = "complete"
  <2>1. i \in Item /\ ~ItemComing(i) /\ ~DeltaComing(i) /\ \A op: ~Has(steps, op, i)
    BY <1>5 DEF Item, ItemComing, DeltaComing, Has
  <2>2. CASE i \in provider.closed  BY <1>6, <2>1, <2>2 DEF Finishing, Ending
  <2>3. CASE i \notin provider.closed
    <3>1. /\ provider.of[i] # 0 /\ provider.of[i] \notin provider.cut
          /\ i \notin caches.ids[provider.of[i]]
      BY <1>7, <1>11, <2>1, <2>3
    <3> QED  BY <1>6, <2>1, <2>3, <3>1 DEF Finishing, Left
  <2> QED  BY <2>2, <2>3
<1> QED  BY <1>9, <1>10, <1>11

(* Buffered, spilled, streamed, sent with the end of its item or cut short:  *)
(* a text or plan that is over is in the thread, whole and in order, and its *)
(* message complete, as soon as no event is left to handle.                  *)
THEOREM TextsAreWhatWasSaid == IngestionSpec => []TextIsWhatWasSaid
<1> DEFINE All == IngestionInv /\ ReleaseInv /\ SaidInv /\ KeptInv
<1>1. IngestionInit => All
  BY IngestionInitInv, ReleaseInitInv, SaidInitInv, KeptInitInv
<1>2. All /\ [IngestionNext]_ingestionVars => All'
  <2> SUFFICES ASSUME All, [IngestionNext]_ingestionVars PROVE All'
    OBVIOUS
  <2>1. IngestionInv' /\ KeptInv'  BY IngestionStepInv, KeptStepInv
  <2>2. ReleaseInv'
    BY StepKinds, EmittedKeepsReleased, TakenKeepsReleased, HandledKeepsReleased, QuietKeepsReleased
    DEF IngestionInv
  <2>3. SaidInv'
    BY StepKinds, EmittedKeepsSaid, TakenKeepsSaid, HandledKeepsSaid, QuietKeepsSaid
    DEF IngestionInv
  <2> QED  BY <2>1, <2>2, <2>3
<1>3. All => TextIsWhatWasSaid  BY KeptMeans
<1> QED  BY <1>1, <1>2, <1>3, PTL DEF IngestionSpec

(********************** The worker of the ingestion **********************)
(* The ingestion implements the worker: every behaviour of it is one of the  *)
(* worker that DrainableWorker.ts specifies.                                 *)
THEOREM IngestionIsADrainableWorker == IngestionSpec => Spec
<1>1. IngestionInit => Init  BY DEF IngestionInit
<1>2. [IngestionNext]_ingestionVars => [Next]_vars  BY StepIsWorkerStep
<1> QED  BY <1>1, <1>2, PTL DEF IngestionSpec, Spec

(* drain() of the ingestion returns only when no event is queued and none is *)
(* being handled, dispatches of the handler included.                        *)
THEOREM IngestionDrainsIdle == IngestionSpec => DrainReturnsIdle
<1> QED  BY IngestionIsADrainableWorker, DrainReturnsWhenIdle, PTL
=============================================================================
