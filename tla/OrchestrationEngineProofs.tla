--------------------- MODULE OrchestrationEngineProofs ---------------------
(***************************************************************************)
(* Theorems about the orchestration engine, for every set of commands,     *)
(* every decider and every bound.                                          *)
(***************************************************************************)
EXTENDS OrchestrationEngine, SequenceTheorems, TLAPS

(***************************************************************************)
(* Facts about sequences                                                   *)
(***************************************************************************)

(* A function on an initial segment of the naturals is a sequence. *)
LEMMA FunctionIsSeq ==
  ASSUME NEW S, NEW n \in Nat, NEW f \in [1 .. n -> S]
  PROVE  f \in Seq(S) /\ Len(f) = n
  BY SeqDef, LenProperties

(***************************************************************************)
(* Type correctness                                                        *)
(***************************************************************************)
LEMMA EventsType ==
  ASSUME NEW c \in Command
  PROVE  /\ Events[c] \in Seq(Body)
         /\ Len(Events[c]) \in Nat \ {0}
         /\ \A i \in 1 .. Len(Events[c]): Events[c][i] \in Body
<1>1. Events[c] \in Seq(Body) /\ Events[c] # <<>>  BY EventsAssumption
<1> QED  BY <1>1, EmptySeq, LenProperties

LEMMA SnapshotSequenceType ==
  ASSUME NEW s \in Seq(Event)
  PROVE  SnapshotSequence(s) \in Nat
<1>1. CASE s = <<>>  BY <1>1 DEF SnapshotSequence
<1>2. CASE s # <<>>
  <2>1. Len(s) \in 1 .. Len(s)  BY <1>2, EmptySeq, LenProperties
  <2>2. s[Len(s)] \in Event  BY <2>1, ElementOfSeq
  <2> QED  BY <1>2, <2>2 DEF SnapshotSequence, Event
<1> QED  BY <1>1, <1>2

LEMMA CurrentType ==
  ASSUME TypeOK, phase # "idle"
  PROVE  Current \in Command
<1>1. req \in DOMAIN requests /\ requests \in Seq(Command)  BY DEF TypeOK
<1> QED  BY <1>1, ElementOfSeq, LenProperties DEF Current

LEMMA NextEventType ==
  ASSUME TypeOK, phase # "idle", Len(staged) < Len(Events[Current])
  PROVE  NextEvent \in Event
<1>1. Current \in Command  BY CurrentType
<1>2. Len(staged) \in Nat /\ Len(log) \in Nat  BY LenProperties DEF TypeOK
<1>3. Len(staged) + 1 \in 1 .. Len(Events[Current])  BY <1>1, <1>2, EventsType
<1>4. Events[Current][Len(staged) + 1] \in Body  BY <1>1, <1>3, EventsType
<1>5. CASE Transactional
  <2>1. 1 + Len(log) + Len(staged) \in Nat \ {0}  BY <1>2
  <2> QED  BY <1>1, <1>4, <1>5, <2>1 DEF NextEvent, Event
<1>6. CASE ~Transactional
  <2>1. 1 + Len(log) + 0 \in Nat \ {0}  BY <1>2
  <2> QED  BY <1>1, <1>4, <1>6, <2>1 DEF NextEvent, Event
<1> QED  BY <1>5, <1>6

LEMMA SpendType ==
  ASSUME TypeOK, NEW k \in {"failure", "reconcile", "crash"}, Spend(k)
  PROVE  budget' \in [{"failure", "reconcile", "crash"} -> Nat]
  BY DEF TypeOK, Spend

LEMMA TypeInit == Init => TypeOK
  BY BoundsAssumption, EmptySeq DEF Init, TypeOK, NoReceipt, Receipt, Phase, Outcome

LEMMA TypeStep == TypeOK /\ [Next]_vars => TypeOK'
<1> SUFFICES ASSUME TypeOK, [Next]_vars PROVE TypeOK'
  OBVIOUS
<1> USE DEF TypeOK, vars, store, job, pubsub, callers
<1>1. ASSUME NEW c \in Command, Dispatch(c) PROVE TypeOK'
  <2>1. /\ requests' \in Seq(Command) /\ Len(requests') = Len(requests) + 1
        /\ Len(requests) \in Nat
        /\ DOMAIN requests = 1 .. Len(requests)
        /\ DOMAIN requests' = 1 .. (Len(requests) + 1)
    BY <1>1, AppendProperties, LenProperties DEF Dispatch
  <2>2. replies' \in Seq(Reply) /\ Len(replies') = Len(requests')
    BY <1>1, <2>1, AppendProperties DEF Dispatch, Pending, Reply
  <2>3. queue' \in Seq(DOMAIN requests')
    <3>1. DOMAIN requests \subseteq DOMAIN requests'  BY <2>1
    <3>2. queue \in Seq(DOMAIN requests')  BY <3>1, SeqMonotonic
    <3>3. Len(requests) + 1 \in DOMAIN requests'  BY <2>1
    <3> QED  BY <1>1, <3>2, <3>3, AppendProperties DEF Dispatch
  <2>4. phase # "idle" => req \in DOMAIN requests'  BY <2>1
  <2> QED  BY <1>1, <2>1, <2>2, <2>3, <2>4 DEF Dispatch
<1>2. ASSUME NEW s \in Subscriber, Subscribe(s) PROVE TypeOK'
  <2>1. since' \in [Subscriber -> Nat]
    <3>1. SnapshotSequence(readModel) \in Nat  BY SnapshotSequenceType
    <3>2. CASE outbox = <<>>  BY <1>2, <3>1, <3>2 DEF Subscribe
    <3>3. CASE outbox # <<>>
      <4>1. Head(outbox) \in Event  BY <3>3, HeadTailProperties
      <4>2. Head(outbox).seq \in Nat \ {0}  BY <4>1 DEF Event
      <4>3. Head(outbox).seq - 1 \in Nat  BY <4>2
      <4> QED  BY <1>2, <3>3, <4>3 DEF Subscribe
    <3> QED  BY <3>2, <3>3
  <2>2. inbox' \in [Subscriber -> Seq(Event)]
    BY <1>2, EmptySeq DEF Subscribe
  <2> QED  BY <1>2, <2>1, <2>2 DEF Subscribe
<1>3. CASE Take
  <2>1. Head(queue) \in DOMAIN requests /\ queue' \in Seq(DOMAIN requests)
    BY <1>3, HeadTailProperties DEF Take
  <2>2. req' \in Nat /\ req' \in DOMAIN requests
    BY <1>3, <2>1, LenProperties DEF Take
  <2>3. start' \in Nat  BY <1>3, SnapshotSequenceType DEF Take
  <2>4. phase' \in Phase  BY <1>3 DEF Take, Phase
  <2> QED  BY <1>3, <2>1, <2>2, <2>3, <2>4 DEF Take
<1>4. CASE LookupHit
  BY <1>4, CurrentType DEF LookupHit, Phase, Outcome, Receipt
<1>5. CASE LookupFails
  BY <1>5, SpendType DEF LookupFails, Phase, Outcome
<1>6. CASE DecideAllowed
  BY <1>6 DEF DecideAllowed, Phase
<1>7. CASE DecideRefused
  BY <1>7 DEF DecideRefused, Phase, Outcome
<1>8. CASE AppendEvent
  BY <1>8, NextEventType, AppendProperties DEF AppendEvent
<1>9. CASE TransactionFails
  BY <1>9, SpendType DEF TransactionFails, Phase, Outcome
<1>10. CASE Commit
  <2>1. Current \in Command  BY <1>10, CurrentType DEF Commit
  <2>2. Len(staged) \in 1 .. Len(staged)
    BY <1>10, <2>1, EventsType DEF Commit
  <2>3. result' \in Nat
    <3>1. staged[Len(staged)] \in Event  BY <2>2, ElementOfSeq
    <3> QED  BY <1>10, <3>1 DEF Commit, Event
  <2>4. receipts' \in [Command -> Receipt]
    BY <1>10, <2>1, <2>3 DEF Commit, Receipt
  <2>5. log' \in Seq(Event)  BY <1>10, ConcatProperties DEF Commit
  <2>6. phase' \in Phase /\ phase # "idle"  BY <1>10 DEF Commit, Phase
  <2> QED  BY <1>10, <2>3, <2>4, <2>5, <2>6 DEF Commit
<1>11. CASE ApplyReadModel
  BY <1>11, ConcatProperties DEF ApplyReadModel, Phase
<1>12. CASE Publish
  BY <1>12, HeadTailProperties, AppendProperties DEF Publish
<1>13. CASE Published
  BY <1>13 DEF Published, Phase
<1>14. CASE Reconcile
  <2> DEFINE persisted == SubSeq(log, start + 1, Len(log))
  <2>1. \A i \in start + 1 .. Len(log): log[i] \in Event
    BY ElementOfSeq, LenProperties
  <2>2. persisted \in Seq(Event)
    BY <2>1, SubSeqProperties, LenProperties
  <2>3. readModel' \in Seq(Event) /\ outbox' \in Seq(Event)
    BY <1>14, <2>2, ConcatProperties DEF Reconcile
  <2> QED  BY <1>14, <2>3 DEF Reconcile, Phase
<1>15. CASE ReconcileFails
  BY <1>15, SpendType DEF ReconcileFails, Phase
<1>16. CASE RecordRejection
  BY <1>16, CurrentType, SnapshotSequenceType DEF RecordRejection, Receipt, Phase
<1>17. CASE RecordRejectionFails
  BY <1>17, SpendType DEF RecordRejectionFails, Phase
<1>18. CASE CompleteDeferred
  BY <1>18 DEF CompleteDeferred, Rest, ReplyOf, Reply, Outcome, Phase
<1>19. CASE Crash
  <2>1. /\ replies \in [1 .. Len(replies) -> Reply] /\ Len(replies) \in Nat
        /\ DOMAIN replies = 1 .. Len(replies)
    BY LenProperties
  <2>2. replies' \in [1 .. Len(replies) -> Reply]
    BY <1>19, <2>1 DEF Crash, Lost, Reply
  <2>3. replies' \in Seq(Reply) /\ Len(replies') = Len(replies)
    BY <2>1, <2>2, FunctionIsSeq
  <2>4. budget' \in [{"failure", "reconcile", "crash"} -> Nat]
    BY <1>19, SpendType DEF Crash
  <2> QED  BY <1>19, <2>3, <2>4, EmptySeq DEF Crash, Rest, Phase, Outcome
<1>20. CASE Restart
  BY <1>20 DEF Restart
<1>21. CASE UNCHANGED vars
  BY <1>21
<1> QED
  BY <1>1, <1>2, <1>3, <1>4, <1>5, <1>6, <1>7, <1>8, <1>9, <1>10, <1>11,
     <1>12, <1>13, <1>14, <1>15, <1>16, <1>17, <1>18, <1>19, <1>20, <1>21
     DEF Next, WorkerStep

(* Every variable keeps its type, whatever the commands, the decider and the *)
(* subscribers are.                                                          *)
THEOREM TypeCorrect == Spec => []TypeOK
  BY TypeInit, TypeStep, PTL DEF Spec

(***************************************************************************)
(* The inductive invariant of the transactional engine                     *)
(***************************************************************************)

(* What the worker holds in each phase, and what the receipt of the command  *)
(* it processes says by then.                                                *)
Undecided == receipts[Current].status = "none"
AcceptedAtResult == receipts[Current] = [status |-> "accepted", seq |-> result]

StagedBlock ==
  /\ Len(staged) <= Len(Events[Current])
  /\ \A i \in 1 .. Len(staged):
       staged[i] = [seq |-> Len(log) + i, cmd |-> Current,
                    body |-> Events[Current][i]]

WorkerInv ==
  /\ ~up => phase = "idle" /\ queue = <<>>
  /\ phase \notin {"transaction", "apply"} => staged = <<>>
  /\ phase # "publish" => outbox = <<>>
  /\ phase \in {"lookup", "transaction", "reconcile"} => start = Len(log)
  /\ phase \in {"idle", "lookup", "transaction", "apply"} => outcome = "ok"
  /\ phase \in {"publish", "reconcile"} => outcome # "previouslyRejected"
  /\ phase = "reconcile" => outcome # "ok"
  /\ phase = "reject" => outcome = "invariant"
  /\ phase = "transaction" => StagedBlock
  /\ phase = "transaction" => Undecided
  /\ phase \in {"reconcile", "publish", "reject"} /\ outcome = "invariant"
       => Undecided
  /\ phase \in {"apply", "publish", "reply"} /\ outcome = "ok"
       => AcceptedAtResult
  /\ phase = "reply" /\ outcome = "previouslyRejected"
       => receipts[Current].status = "rejected"

NumberedInv == \A i \in 1 .. Len(log): log[i].seq = i

IndInv ==
  /\ TypeOK
  /\ WorkerInv
  /\ NumberedInv
  /\ ReadModelIsStore
  /\ ExactlyOnce
  /\ AcknowledgedIsCommitted

LEMMA IndInit == Init => IndInv
<1> SUFFICES ASSUME Init PROVE IndInv
  OBVIOUS
<1>1. TypeOK  BY TypeInit
<1>2. WorkerInv  BY DEF Init, WorkerInv
<1>3. Len(log) = 0 /\ DOMAIN log = {}  BY EmptySeq DEF Init
<1>4. NumberedInv  BY <1>3 DEF NumberedInv
<1>5. ReadModelIsStore  BY DEF Init, ReadModelIsStore
<1>6. ExactlyOnce
  BY <1>3 DEF Init, ExactlyOnce, NoReceipt, EventsOfCommand
<1>7. AcknowledgedIsCommitted  BY DEF Init, AcknowledgedIsCommitted
<1> QED  BY <1>1, <1>2, <1>4, <1>5, <1>6, <1>7 DEF IndInv

(* The snapshot sequence of a fully numbered log is its length. *)
LEMMA SnapshotOfLog ==
  ASSUME TypeOK, NumberedInv
  PROVE  SnapshotSequence(log) = Len(log)
<1>1. CASE log = <<>>  BY <1>1, EmptySeq DEF SnapshotSequence
<1>2. CASE log # <<>>
  <2>1. Len(log) \in 1 .. Len(log)  BY <1>2, EmptySeq, LenProperties DEF TypeOK
  <2> QED  BY <1>2, <2>1 DEF SnapshotSequence, NumberedInv
<1> QED  BY <1>1, <1>2

(***************************************************************************)
(* Steps that leave the store alone                                        *)
(***************************************************************************)
LEMMA StoreFrame ==
  ASSUME UNCHANGED store, NumberedInv, ExactlyOnce
  PROVE  NumberedInv' /\ ExactlyOnce'
<1>1. log' = log /\ receipts' = receipts  BY DEF store
<1>2. NumberedInv'  BY <1>1 DEF NumberedInv
<1>3. ExactlyOnce'  BY <1>1 DEF ExactlyOnce, BlockEndsAt, EventsOfCommand
<1> QED  BY <1>2, <1>3

LEMMA AcknowledgedFrame ==
  ASSUME UNCHANGED receipts, UNCHANGED callers, AcknowledgedIsCommitted
  PROVE  AcknowledgedIsCommitted'
  BY DEF AcknowledgedIsCommitted, callers

(***************************************************************************)
(* The commit: the one step that extends the log and accepts a command     *)
(***************************************************************************)
LEMMA CommitStore ==
  ASSUME Transactional, IndInv, Commit
  PROVE  /\ Current \in Command
         /\ staged # <<>>
         /\ Len(staged) = Len(Events[Current])
         /\ log' = log \o staged
         /\ Len(log') = Len(log) + Len(staged)
         /\ \A i \in 1 .. Len(log): log'[i] = log[i]
         /\ \A i \in 1 .. Len(staged): log'[Len(log) + i] = staged[i]
         /\ result' = Len(log')
         /\ Undecided
<1>1. Current \in Command  BY CurrentType DEF IndInv, Commit
<1>2. Len(staged) = Len(Events[Current]) /\ Len(staged) \in Nat \ {0}
  BY <1>1, EventsType DEF Commit
<1>3. staged # <<>>  BY <1>2, EmptySeq
<1>4. log \in Seq(Event) /\ staged \in Seq(Event)  BY DEF IndInv, TypeOK
<1>5. log' = log \o staged  BY DEF Commit
<1>6. Len(log) \in Nat  BY <1>4, LenProperties
<1>7. /\ Len(log') = Len(log) + Len(staged)
      /\ \A i \in 1 .. Len(log) + Len(staged):
           log'[i] = IF i <= Len(log) THEN log[i] ELSE staged[i - Len(log)]
  BY <1>4, <1>5, ConcatProperties
<1>8. \A i \in 1 .. Len(log): log'[i] = log[i]  BY <1>2, <1>6, <1>7
<1>9. \A i \in 1 .. Len(staged): log'[Len(log) + i] = staged[i]
  BY <1>2, <1>6, <1>7
<1>10. Len(staged) \in 1 .. Len(staged)  BY <1>2
<1>11. staged[Len(staged)].seq = Len(log) + Len(staged)
  <2>1. StagedBlock  BY DEF IndInv, WorkerInv, Commit
  <2>2. staged[Len(staged)] =
          [seq |-> Len(log) + Len(staged), cmd |-> Current,
           body |-> Events[Current][Len(staged)]]
    BY <2>1, <1>10 DEF StagedBlock
  <2> QED  BY <2>2
<1>12. result' = Len(log')  BY <1>7, <1>11 DEF Commit
<1>13. Undecided  BY DEF IndInv, WorkerInv, Commit
<1> QED  BY <1>1, <1>2, <1>3, <1>5, <1>7, <1>8, <1>9, <1>12, <1>13

LEMMA CommitExactlyOnce ==
  ASSUME Transactional, IndInv, Commit
  PROVE  NumberedInv' /\ ExactlyOnce'
<1> DEFINE k == Len(staged)
           n == Len(log)
<1>0. n \in Nat /\ k \in Nat \ {0} /\ log \in Seq(Event) /\ staged \in Seq(Event)
  BY CommitStore, LenProperties, EmptySeq DEF IndInv, TypeOK
<1>1. \A i \in 1 .. k:
        staged[i] = [seq |-> n + i, cmd |-> Current, body |-> Events[Current][i]]
  BY DEF IndInv, WorkerInv, StagedBlock, Commit
<1>2. /\ Len(log') = n + k
      /\ \A i \in 1 .. n: log'[i] = log[i]
      /\ \A i \in 1 .. k: log'[n + i] = staged[i]
  BY CommitStore
<1>2a. log' \in Seq(Event) /\ DOMAIN log' = 1 .. (n + k) /\ DOMAIN log = 1 .. n
  <2>1. log' \in Seq(Event)  BY <1>0, CommitStore, ConcatProperties
  <2> QED  BY <2>1, <1>0, <1>2, LenProperties
<1>3. \A i \in n + 1 .. n + k: /\ log'[i].seq = i
                               /\ log'[i].cmd = Current
                               /\ log'[i].body = Events[Current][i - n]
  <2> SUFFICES ASSUME NEW i \in n + 1 .. n + k
               PROVE  log'[i].seq = i /\ log'[i].cmd = Current
                        /\ log'[i].body = Events[Current][i - n]
    OBVIOUS
  <2>1. i - n \in 1 .. k /\ n + (i - n) = i  BY <1>0
  <2>2. log'[i] = staged[i - n]  BY <1>2, <2>1
  <2>3. staged[i - n] = [seq |-> n + (i - n), cmd |-> Current,
                         body |-> Events[Current][i - n]]
    BY <1>1, <2>1
  <2> QED  BY <2>1, <2>2, <2>3
<1>4. NumberedInv'
  <2> SUFFICES ASSUME NEW i \in 1 .. (n + k) PROVE log'[i].seq = i
    BY <1>2 DEF NumberedInv
  <2>1. i \in 1 .. n \/ i \in n + 1 .. n + k  BY <1>0
  <2> QED  BY <2>1, <1>2, <1>3 DEF IndInv, NumberedInv
<1>5. receipts' = [receipts EXCEPT ![Current] =
                     [status |-> "accepted", seq |-> n + k]]
  BY <1>2, CommitStore DEF Commit
<1>6. Current \in Command /\ k = Len(Events[Current]) /\ Undecided
  BY CommitStore
<1>7. ASSUME NEW c \in Command, c # Current
      PROVE  /\ receipts'[c].status = "accepted" => BlockEndsAt(log', c, receipts'[c].seq)
             /\ receipts'[c].status # "accepted" => EventsOfCommand(log', c) = {}
  <2>1. receipts'[c] = receipts[c]  BY <1>5, <1>7 DEF IndInv, TypeOK
  <2>2. EventsOfCommand(log', c) = EventsOfCommand(log, c)
    <3>1. \A i \in 1 .. (n + k):
            log'[i].cmd = c <=> i \in 1 .. n /\ log[i].cmd = c
      <4> TAKE i \in 1 .. (n + k)
      <4>1. i \in 1 .. n \/ i \in n + 1 .. n + k  BY <1>0
      <4>2. i \in n + 1 .. n + k => i \notin 1 .. n  BY <1>0
      <4> QED  BY <4>1, <4>2, <1>2, <1>3, <1>7
    <3>2. 1 .. n \subseteq 1 .. (n + k)  BY <1>0
    <3> QED  BY <3>1, <3>2, <1>2a DEF EventsOfCommand
  <2>3. ASSUME receipts[c].status = "accepted"
        PROVE  BlockEndsAt(log', c, receipts[c].seq)
    <3> DEFINE l == receipts[c].seq
               j == Len(Events[c])
    <3>1. BlockEndsAt(log, c, l)  BY <2>3 DEF IndInv, ExactlyOnce
    <3>2. l \in Nat /\ j \in Nat \ {0}
      BY EventsType DEF IndInv, TypeOK, Receipt
    <3>3. j <= l /\ l <= n  BY <3>1 DEF BlockEndsAt
    <3>4. \A i \in 1 .. j: l - j + i \in 1 .. n  BY <3>2, <3>3, <1>0
    <3>5. \A i \in 1 .. j: log'[l - j + i].body = Events[c][i]
      BY <3>1, <3>4, <1>2 DEF BlockEndsAt
    <3>6. l <= n + k  BY <3>2, <3>3, <1>0
    <3>7. EventsOfCommand(log', c) = (l - j + 1) .. l
      BY <2>2, <3>1 DEF BlockEndsAt
    <3> QED  BY <2>1, <3>3, <3>5, <3>6, <3>7, <1>2 DEF BlockEndsAt
  <2>4. receipts[c].status # "accepted" => EventsOfCommand(log', c) = {}
    BY <2>2 DEF IndInv, ExactlyOnce
  <2> QED  BY <2>1, <2>3, <2>4
<1>8. /\ receipts'[Current] = [status |-> "accepted", seq |-> n + k]
      /\ BlockEndsAt(log', Current, n + k)
  <2>1. receipts'[Current] = [status |-> "accepted", seq |-> n + k]
    BY <1>5, <1>6 DEF IndInv, TypeOK
  <2>2. EventsOfCommand(log, Current) = {}
    BY <1>6 DEF IndInv, ExactlyOnce, Undecided
  <2>3. \A i \in 1 .. (n + k): log'[i].cmd = Current <=> i \in n + 1 .. n + k
    <3> TAKE i \in 1 .. (n + k)
    <3>1. i \in 1 .. n \/ i \in n + 1 .. n + k  BY <1>0
    <3>2. i \in 1 .. n => i \notin n + 1 .. n + k  BY <1>0
    <3>3. i \in 1 .. n => log[i].cmd # Current
      BY <2>2, <1>2a DEF EventsOfCommand
    <3> QED  BY <3>1, <3>2, <3>3, <1>2, <1>3
  <2>4. n + 1 .. n + k \subseteq 1 .. (n + k)  BY <1>0
  <2>5. {i \in DOMAIN log': log'[i].cmd = Current} = n + 1 .. n + k
    BY <2>3, <2>4, <1>2a
  <2>6. n + k - k = n /\ k <= n + k  BY <1>0
  <2>7. \A i \in 1 .. k: log'[n + i].body = Events[Current][i]
    <3> TAKE i \in 1 .. k
    <3>1. log'[n + i] = staged[i]  BY <1>2
    <3>2. staged[i] = [seq |-> n + i, cmd |-> Current,
                       body |-> Events[Current][i]]
      BY <1>1
    <3> QED  BY <3>1, <3>2
  <2>8. Current' = Current  BY DEF Commit, Current, callers
  <2> QED  BY <2>1, <2>5, <2>6, <2>7, <2>8, <1>2, <1>6
           DEF BlockEndsAt, EventsOfCommand
<1>9. ExactlyOnce'
  <2> SUFFICES ASSUME NEW c \in Command
      PROVE  /\ receipts'[c].status = "accepted" => BlockEndsAt(log', c, receipts'[c].seq)
             /\ receipts'[c].status # "accepted" => EventsOfCommand(log', c) = {}
    BY DEF ExactlyOnce
  <2>1. Current' = Current  BY DEF Commit, Current, callers
  <2>2. CASE c # Current  BY <2>2, <1>7
  <2>3. CASE c = Current  BY <2>1, <2>3, <1>8
  <2> QED  BY <2>2, <2>3
<1> QED  BY <1>4, <1>9

(***************************************************************************)
(* Every step preserves the inductive invariant                            *)
(***************************************************************************)

(* The queue holds dispatches of the past: no step but a new dispatch makes  *)
(* requests longer, and none changes what it held.                           *)
LEMMA CurrentFrame ==
  ASSUME TypeOK, phase # "idle", req' = req,
         requests' = requests \/ \E c \in Command: requests' = Append(requests, c)
  PROVE  Current' = Current
<1>1. requests \in Seq(Command) /\ req \in 1 .. Len(requests)
  BY LenProperties DEF TypeOK
<1>2. CASE requests' = requests  BY <1>2 DEF Current
<1>3. CASE \E c \in Command: requests' = Append(requests, c)
  <2>1. PICK c \in Command: requests' = Append(requests, c)  BY <1>3
  <2> QED  BY <1>1, <2>1, AppendProperties DEF Current
<1> QED  BY <1>2, <1>3

(* Steps that change nothing but the callers or the subscriptions.           *)
LEMMA WorkerFrame ==
  ASSUME IndInv, UNCHANGED <<store, up, job>>,
         queue' = queue \/ up,
         requests' = requests \/ \E c \in Command: requests' = Append(requests, c)
  PROVE  WorkerInv'
<1>1. phase # "idle" => Current' = Current
  BY CurrentFrame DEF IndInv, job
<1>2. UNCHANGED <<log, receipts, up, phase, req, start, outcome, result, staged,
                  outbox>>
  BY DEF store, job
<1>3. phase # "idle" => (Undecided' = Undecided
                         /\ AcceptedAtResult' = AcceptedAtResult
                         /\ StagedBlock' = StagedBlock)
  BY <1>1, <1>2 DEF Undecided, AcceptedAtResult, StagedBlock
<1> QED  BY <1>1, <1>2, <1>3 DEF IndInv, WorkerInv

LEMMA WorkerInvStep ==
  ASSUME Transactional, IndInv, [Next]_vars
  PROVE  WorkerInv'
<1> USE DEF store, job, pubsub, callers
<1> TypeOK /\ WorkerInv /\ NumberedInv /\ ReadModelIsStore /\ ExactlyOnce
  BY DEF IndInv
<1>1. ASSUME NEW c \in Command, Dispatch(c) PROVE WorkerInv'
  BY <1>1, WorkerFrame DEF Dispatch
<1>2. ASSUME NEW s \in Subscriber, Subscribe(s) PROVE WorkerInv'
  BY <1>2, WorkerFrame DEF Subscribe
<1>3. CASE Take
  <2>1. readModel = log  BY <1>3 DEF Take, ReadModelIsStore
  <2>2. start' = Len(log)  BY <1>3, <2>1, SnapshotOfLog DEF Take
  <2> QED  BY <1>3, <2>2 DEF Take, WorkerInv
<1>4. CASE LookupHit
  <2>1. Current' = Current  BY <1>4 DEF LookupHit, Current
  <2>2. receipts[Current] \in Receipt
    BY <1>4, CurrentType DEF LookupHit, TypeOK
  <2>3. receipts[Current].status = "accepted" =>
          receipts[Current] = [status |-> "accepted", seq |-> receipts[Current].seq]
    BY <2>2 DEF Receipt
  <2>4. receipts[Current].status \in {"accepted", "rejected"}
    BY <1>4, <2>2 DEF LookupHit, Receipt
  <2> QED  BY <1>4, <2>1, <2>3, <2>4 DEF LookupHit, WorkerInv, AcceptedAtResult
<1>5. CASE LookupFails
  BY <1>5 DEF LookupFails, WorkerInv
<1>6. CASE DecideAllowed
  <2>1. Current' = Current  BY <1>6 DEF DecideAllowed, Current
  <2>2. Len(Events[Current]) \in Nat /\ staged = <<>>
    BY <1>6, CurrentType, EventsType DEF DecideAllowed, WorkerInv
  <2>3. StagedBlock'
    BY <1>6, <2>1, <2>2 DEF DecideAllowed, StagedBlock
  <2> QED  BY <1>6, <2>1, <2>3 DEF DecideAllowed, WorkerInv, Undecided
<1>7. CASE DecideRefused
  <2>1. Current' = Current  BY <1>7 DEF DecideRefused, Current
  <2> QED  BY <1>7, <2>1 DEF DecideRefused, WorkerInv, Undecided
<1>8. CASE AppendEvent
  <2>1. Current' = Current  BY <1>8 DEF AppendEvent, Current
  <2>2. StagedBlock  BY <1>8 DEF AppendEvent, WorkerInv
  <2>3. log' = log  BY <1>8 DEF AppendEvent
  <2>4. NextEvent = [seq |-> Len(log) + (Len(staged) + 1), cmd |-> Current,
                     body |-> Events[Current][Len(staged) + 1]]
    BY LenProperties DEF NextEvent, TypeOK
  <2>5. /\ Len(staged') = Len(staged) + 1 /\ Len(staged) \in Nat
        /\ \A i \in 1 .. Len(staged): staged'[i] = staged[i]
        /\ staged'[Len(staged) + 1] = NextEvent
    <3>1. NextEvent \in Event  BY <1>8, NextEventType DEF AppendEvent
    <3> QED  BY <1>8, <3>1, AppendProperties, LenProperties
             DEF AppendEvent, TypeOK
  <2>6. Len(Events[Current]) \in Nat
    BY <1>8, CurrentType, EventsType DEF AppendEvent
  <2>7. StagedBlock'
    <3>1. Len(staged') <= Len(Events[Current])
      BY <1>8, <2>5, <2>6 DEF AppendEvent
    <3>2. ASSUME NEW i \in 1 .. Len(staged')
          PROVE  staged'[i] = [seq |-> Len(log) + i, cmd |-> Current,
                               body |-> Events[Current][i]]
      <4>1. CASE i = Len(staged) + 1  BY <4>1, <2>4, <2>5
      <4>2. CASE i # Len(staged) + 1
        <5>1. i \in 1 .. Len(staged)  BY <4>2, <2>5
        <5> QED  BY <5>1, <2>2, <2>5 DEF StagedBlock
      <4> QED  BY <4>1, <4>2
    <3> QED  BY <3>1, <3>2, <2>1, <2>3 DEF StagedBlock
  <2> QED  BY <1>8, <2>1, <2>3, <2>7 DEF AppendEvent, WorkerInv, Undecided
<1>9. CASE TransactionFails
  BY <1>9 DEF TransactionFails, Spend, WorkerInv
<1>10. CASE Commit
  <2>1. Current' = Current /\ Current \in Command
    BY <1>10, CommitStore DEF Commit, Current
  <2>2. receipts'[Current] = [status |-> "accepted", seq |-> result']
    BY <1>10, <2>1 DEF Commit, TypeOK
  <2>3. AcceptedAtResult'  BY <2>1, <2>2 DEF AcceptedAtResult
  <2> QED  BY <1>10, <2>3 DEF Commit, WorkerInv
<1>11. CASE ApplyReadModel
  <2>1. Current' = Current  BY <1>11 DEF ApplyReadModel, Current
  <2> QED  BY <1>11, <2>1
           DEF ApplyReadModel, WorkerInv, AcceptedAtResult, Undecided
<1>12. CASE Publish
  <2>1. Current' = Current  BY <1>12 DEF Publish, Current
  <2> QED  BY <1>12, <2>1 DEF Publish, WorkerInv, AcceptedAtResult, Undecided
<1>13. CASE Published
  <2>1. Current' = Current  BY <1>13 DEF Published, Current
  <2> QED  BY <1>13, <2>1
           DEF Published, WorkerInv, AcceptedAtResult, Undecided
<1>14. CASE Reconcile
  <2>1. Current' = Current  BY <1>14 DEF Reconcile, Current
  <2> QED  BY <1>14, <2>1
           DEF Reconcile, WorkerInv, AcceptedAtResult, Undecided
<1>15. CASE ReconcileFails
  <2>1. Current' = Current  BY <1>15 DEF ReconcileFails, Current
  <2> QED  BY <1>15, <2>1
           DEF ReconcileFails, WorkerInv, AcceptedAtResult, Undecided
<1>16. CASE RecordRejection
  BY <1>16 DEF RecordRejection, WorkerInv
<1>17. CASE RecordRejectionFails
  BY <1>17 DEF RecordRejectionFails, WorkerInv
<1>18. CASE CompleteDeferred
  BY <1>18 DEF CompleteDeferred, Rest, WorkerInv
<1>19. CASE Crash
  BY <1>19 DEF Crash, Rest, WorkerInv
<1>20. CASE Restart
  BY <1>20 DEF Restart, WorkerInv
<1>21. CASE UNCHANGED vars
  BY <1>21, WorkerFrame DEF vars
<1> QED
  BY <1>1, <1>2, <1>3, <1>4, <1>5, <1>6, <1>7, <1>8, <1>9, <1>10, <1>11,
     <1>12, <1>13, <1>14, <1>15, <1>16, <1>17, <1>18, <1>19, <1>20, <1>21
     DEF Next, WorkerStep

(* Only a commit and a recorded rejection write a receipt, and each of them  *)
(* the receipt of a command that had none; only a commit extends the log.    *)
LEMMA StoreStep ==
  ASSUME Transactional, IndInv, [Next]_vars
  PROVE  \/ UNCHANGED store
         \/ Commit
         \/ RecordRejection /\ Undecided /\ Current \in Command
<1> USE DEF store
<1>1. ASSUME AppendEvent PROVE UNCHANGED store
  BY <1>1 DEF AppendEvent
<1>2. ASSUME RecordRejection PROVE Undecided /\ Current \in Command
  BY <1>2, CurrentType DEF RecordRejection, IndInv, WorkerInv
<1>3. ASSUME NEW c \in Command, Dispatch(c) PROVE UNCHANGED store
  BY <1>3 DEF Dispatch
<1>4. ASSUME NEW s \in Subscriber, Subscribe(s) PROVE UNCHANGED store
  BY <1>4 DEF Subscribe
<1> QED
  BY <1>1, <1>2, <1>3, <1>4
     DEF Next, WorkerStep, vars, Take, LookupHit, LookupFails, DecideAllowed,
         DecideRefused, TransactionFails, ApplyReadModel, Publish, Published,
         Reconcile, ReconcileFails, RecordRejectionFails, CompleteDeferred,
         Crash, Restart

LEMMA StoreInvStep ==
  ASSUME Transactional, IndInv, [Next]_vars
  PROVE  NumberedInv' /\ ExactlyOnce'
<1>1. CASE UNCHANGED store  BY <1>1, StoreFrame DEF IndInv
<1>2. CASE Commit  BY <1>2, CommitExactlyOnce
<1>3. CASE RecordRejection /\ Undecided /\ Current \in Command
  <2>1. log' = log  BY <1>3 DEF RecordRejection
  <2>2. receipts'[Current].status = "rejected" /\ receipts[Current].status = "none"
    BY <1>3 DEF RecordRejection, Undecided, IndInv, TypeOK
  <2>3. \A c \in Command: c # Current => receipts'[c] = receipts[c]
    BY <1>3 DEF RecordRejection, IndInv, TypeOK
  <2>4. NumberedInv'  BY <2>1 DEF IndInv, NumberedInv
  <2>5. ASSUME NEW c \in Command
        PROVE  /\ receipts'[c].status = "accepted"
                    => BlockEndsAt(log', c, receipts'[c].seq)
               /\ receipts'[c].status # "accepted"
                    => EventsOfCommand(log', c) = {}
    <3>1. CASE c = Current
      BY <3>1, <2>1, <2>2 DEF IndInv, ExactlyOnce
    <3>2. CASE c # Current
      BY <3>2, <2>1, <2>3 DEF IndInv, ExactlyOnce
    <3> QED  BY <3>1, <3>2
  <2> QED  BY <2>4, <2>5 DEF ExactlyOnce
<1> QED  BY <1>1, <1>2, <1>3, StoreStep

LEMMA ReadModelStep ==
  ASSUME Transactional, IndInv, [Next]_vars
  PROVE  ReadModelIsStore'
<1> USE DEF store, job, pubsub, callers
<1> TypeOK /\ WorkerInv /\ NumberedInv /\ ReadModelIsStore
  BY DEF IndInv
<1>1. ASSUME NEW c \in Command, Dispatch(c) PROVE ReadModelIsStore'
  BY <1>1 DEF Dispatch, ReadModelIsStore
<1>2. ASSUME NEW s \in Subscriber, Subscribe(s) PROVE ReadModelIsStore'
  BY <1>2 DEF Subscribe, ReadModelIsStore
<1>3. CASE Take  BY <1>3 DEF Take, ReadModelIsStore
<1>4. CASE LookupHit  BY <1>4 DEF LookupHit, ReadModelIsStore
<1>5. CASE LookupFails  BY <1>5 DEF LookupFails, ReadModelIsStore
<1>6. CASE DecideAllowed  BY <1>6 DEF DecideAllowed, ReadModelIsStore
<1>7. CASE DecideRefused  BY <1>7 DEF DecideRefused, ReadModelIsStore
<1>8. CASE AppendEvent  BY <1>8 DEF AppendEvent, ReadModelIsStore
<1>9. CASE TransactionFails  BY <1>9 DEF TransactionFails, ReadModelIsStore
<1>10. CASE Commit  BY <1>10 DEF Commit, ReadModelIsStore
<1>11. CASE ApplyReadModel  BY <1>11 DEF ApplyReadModel, ReadModelIsStore
<1>12. CASE Publish  BY <1>12 DEF Publish, ReadModelIsStore
<1>13. CASE Published  BY <1>13 DEF Published, ReadModelIsStore
<1>14. CASE Reconcile
  <2>1. start = Len(log) /\ Len(log) \in Nat
    BY <1>14, LenProperties DEF Reconcile, WorkerInv, TypeOK
  <2>2. SubSeq(log, start + 1, Len(log)) = <<>>  BY <2>1, SubSeqEmpty
  <2>3. readModel' = readModel
    BY <1>14, <2>2, ConcatEmptySeq DEF Reconcile, TypeOK
  <2> QED  BY <1>14, <2>3 DEF Reconcile, ReadModelIsStore
<1>15. CASE ReconcileFails  BY <1>15 DEF ReconcileFails, ReadModelIsStore
<1>16. CASE RecordRejection  BY <1>16 DEF RecordRejection, ReadModelIsStore
<1>17. CASE RecordRejectionFails
  BY <1>17 DEF RecordRejectionFails, ReadModelIsStore
<1>18. CASE CompleteDeferred
  BY <1>18 DEF CompleteDeferred, Rest, ReadModelIsStore
<1>19. CASE Crash  BY <1>19 DEF Crash, ReadModelIsStore
<1>20. CASE Restart  BY <1>20 DEF Restart, WorkerInv, ReadModelIsStore
<1>21. CASE UNCHANGED vars  BY <1>21 DEF vars, ReadModelIsStore
<1> QED
  BY <1>1, <1>2, <1>3, <1>4, <1>5, <1>6, <1>7, <1>8, <1>9, <1>10, <1>11,
     <1>12, <1>13, <1>14, <1>15, <1>16, <1>17, <1>18, <1>19, <1>20, <1>21
     DEF Next, WorkerStep

(* A receipt that exists is not touched. *)
LEMMA ReceiptsFinalStep ==
  ASSUME Transactional, IndInv, [Next]_vars
  PROVE  \A c \in Command:
           receipts[c].status # "none" => receipts'[c] = receipts[c]
<1>1. CASE UNCHANGED store  BY <1>1 DEF store
<1>2. CASE Commit
  <2>1. Undecided /\ Current \in Command  BY <1>2, CommitStore
  <2> QED  BY <1>2, <2>1 DEF Commit, Undecided, IndInv, TypeOK
<1>3. CASE RecordRejection /\ Undecided /\ Current \in Command
  BY <1>3 DEF RecordRejection, Undecided, IndInv, TypeOK
<1> QED  BY <1>1, <1>2, <1>3, StoreStep

LEMMA AcknowledgedStep ==
  ASSUME Transactional, IndInv, [Next]_vars
  PROVE  AcknowledgedIsCommitted'
<1> DEFINE Ack(r, q, x) ==
             /\ q.status = "ok" => r[x] = [status |-> "accepted", seq |-> q.seq]
             /\ q.status = "previouslyRejected" => r[x].status = "rejected"
<1>1. \A n \in DOMAIN requests: Ack(receipts, replies[n], requests[n])
  BY DEF IndInv, AcknowledgedIsCommitted
<1>2. \A n \in DOMAIN requests: requests[n] \in Command
  BY ElementOfSeq, LenProperties DEF IndInv, TypeOK
<1>3. \A n \in DOMAIN requests: Ack(receipts', replies[n], requests[n])
  <2> TAKE n \in DOMAIN requests
  <2>1. receipts[requests[n]].status # "none" =>
          receipts'[requests[n]] = receipts[requests[n]]
    BY <1>2, ReceiptsFinalStep
  <2> QED  BY <1>1, <2>1
<1>4. DOMAIN replies = DOMAIN requests /\ DOMAIN requests = 1 .. Len(requests)
  BY LenProperties DEF IndInv, TypeOK
<1>5. CASE UNCHANGED callers
  BY <1>3, <1>5 DEF callers, AcknowledgedIsCommitted
<1>6. ASSUME NEW c \in Command, Dispatch(c) PROVE AcknowledgedIsCommitted'
  <2>1. /\ requests \in Seq(Command) /\ replies \in Seq(Reply)
        /\ Len(replies) = Len(requests)
    BY DEF IndInv, TypeOK
  <2>2. /\ DOMAIN requests' = 1 .. (Len(requests) + 1) /\ Len(requests) \in Nat
        /\ \A n \in 1 .. Len(requests): requests'[n] = requests[n]
        /\ \A n \in 1 .. Len(requests): replies'[n] = replies[n]
        /\ replies'[Len(requests) + 1] = Pending
    BY <1>6, <2>1, AppendProperties, LenProperties DEF Dispatch, Pending, Reply
  <2>3. ASSUME NEW n \in DOMAIN requests'
        PROVE  Ack(receipts', replies'[n], requests'[n])
    <3>1. CASE n \in 1 .. Len(requests)  BY <3>1, <1>3, <1>4, <2>2
    <3>2. CASE n = Len(requests) + 1  BY <3>2, <2>2 DEF Pending
    <3> QED  BY <3>1, <3>2, <2>2
  <2> QED  BY <2>3 DEF AcknowledgedIsCommitted
<1>7. CASE CompleteDeferred
  <2>1. requests' = requests /\ receipts' = receipts
    BY <1>7 DEF CompleteDeferred, store
  <2>2. req \in DOMAIN requests /\ phase = "reply"
    BY <1>7 DEF CompleteDeferred, IndInv, TypeOK
  <2>3. Ack(receipts, ReplyOf(outcome), requests[req])
    BY <2>2 DEF IndInv, WorkerInv, ReplyOf, AcceptedAtResult, Current
  <2>4. \A n \in DOMAIN requests:
          replies'[n] = IF n = req THEN ReplyOf(outcome) ELSE replies[n]
    BY <1>4, <1>7 DEF CompleteDeferred
  <2> QED  BY <1>1, <2>1, <2>3, <2>4 DEF AcknowledgedIsCommitted
<1>8. CASE Crash
  <2>1. requests' = requests /\ receipts' = receipts
    BY <1>8 DEF Crash, store
  <2>2. \A n \in DOMAIN requests: replies'[n] = replies[n] \/ replies'[n] = Lost
    BY <1>4, <1>8 DEF Crash
  <2>3. Lost.status = "lost"  BY DEF Lost
  <2> QED  BY <1>1, <2>1, <2>2, <2>3 DEF AcknowledgedIsCommitted
<1> QED
  BY <1>5, <1>6, <1>7, <1>8
     DEF Next, WorkerStep, vars, callers, Subscribe, Take, LookupHit, LookupFails,
         DecideAllowed, DecideRefused, AppendEvent, TransactionFails, Commit,
         ApplyReadModel, Publish, Published, Reconcile, ReconcileFails,
         RecordRejection, RecordRejectionFails, Restart

LEMMA IndStep ==
  ASSUME Transactional, IndInv, [Next]_vars
  PROVE  IndInv'
  BY TypeStep, WorkerInvStep, StoreInvStep, ReadModelStep, AcknowledgedStep
     DEF IndInv

(***************************************************************************)
(* Theorems                                                                *)
(***************************************************************************)
LEMMA Invariance == ASSUME Transactional PROVE Spec => []IndInv
<1>1. IndInv /\ [Next]_vars => IndInv'  BY IndStep
<1> QED  BY <1>1, IndInit, PTL DEF Spec

(* processEnvelope: whatever the decider decides, whichever steps fail and   *)
(* wherever the process stops, a command has its whole block of events in    *)
(* the store or none, and the receipt says which.                            *)
THEOREM CommandsTakeEffectOnce == ASSUME Transactional PROVE Spec => []ExactlyOnce
<1>1. IndInv => ExactlyOnce  BY DEF IndInv
<1> QED  BY <1>1, Invariance, PTL

(* What a caller was told stays true: an acknowledged command is committed   *)
(* at the sequence its caller, and every caller that retried it, was given.  *)
THEOREM AcknowledgementsAreDurable ==
  ASSUME Transactional PROVE Spec => []AcknowledgedIsCommitted
<1>1. IndInv => AcknowledgedIsCommitted  BY DEF IndInv
<1> QED  BY <1>1, Invariance, PTL

(* The in-memory read model is the fold of exactly the committed events.     *)
THEOREM ReadModelFollowsStore ==
  ASSUME Transactional PROVE Spec => []ReadModelIsStore
<1>1. IndInv => ReadModelIsStore  BY DEF IndInv
<1> QED  BY <1>1, Invariance, PTL

(* A recorded outcome is final and the event store is append-only.           *)
THEOREM OutcomesAreFinal == ASSUME Transactional PROVE Spec => OutcomesFinal
<1> DEFINE Final == /\ \A c \in Command:
                         receipts[c].status # "none" => receipts'[c] = receipts[c]
                    /\ Len(log) <= Len(log')
                    /\ \A i \in DOMAIN log: log'[i] = log[i]
<1>1. IndInv /\ [Next]_vars => Final
  <2> SUFFICES ASSUME IndInv, [Next]_vars PROVE Final
    OBVIOUS
  <2>1. \A c \in Command:
          receipts[c].status # "none" => receipts'[c] = receipts[c]
    BY ReceiptsFinalStep
  <2>2. Len(log) \in Nat /\ DOMAIN log = 1 .. Len(log)
    BY LenProperties DEF IndInv, TypeOK
  <2>3. CASE log' = log  BY <2>1, <2>2, <2>3
  <2>4. CASE Commit
    <3>1. /\ Len(log') = Len(log) + Len(staged)
          /\ \A i \in 1 .. Len(log): log'[i] = log[i]
      BY <2>4, CommitStore
    <3>2. Len(staged) \in Nat  BY LenProperties DEF IndInv, TypeOK
    <3> QED  BY <2>1, <2>2, <3>1, <3>2
  <2> QED  BY <2>3, <2>4, StoreStep DEF store, RecordRejection
<1>2. IndInv /\ [Next]_vars => [Final]_vars  BY <1>1
<1> QED  BY <1>2, Invariance, PTL DEF Spec, OutcomesFinal

(***************************************************************************)
(* What subscriptions receive                                              *)
(***************************************************************************)

(* The events to publish are the last ones of the read model, and what a     *)
(* subscription was sent ends right before them.                             *)
OutboxInv ==
  /\ Len(outbox) <= Len(readModel)
  /\ \A i \in 1 .. Len(outbox):
       outbox[i] = readModel[(Len(readModel) - Len(outbox)) + i]

Follows(s) ==
  /\ since[s] + Len(inbox[s]) = Len(readModel) - Len(outbox)
  /\ \A i \in 1 .. Len(inbox[s]): inbox[s][i] = readModel[since[s] + i]

PubSubInv ==
  /\ ~up => active = {}
  /\ OutboxInv
  /\ \A s \in active: Follows(s)

LEMMA PubSubInit == Init => PubSubInv
<1> SUFFICES ASSUME Init PROVE PubSubInv
  OBVIOUS
<1>1. Len(outbox) = 0 /\ Len(readModel) = 0  BY EmptySeq DEF Init
<1> QED  BY <1>1 DEF Init, PubSubInv, OutboxInv

LEMMA PubSubTypes ==
  ASSUME TypeOK
  PROVE  /\ Len(readModel) \in Nat /\ Len(outbox) \in Nat /\ Len(staged) \in Nat
         /\ Len(log) \in Nat /\ active \subseteq Subscriber
         /\ \A s \in Subscriber: since[s] \in Nat /\ inbox[s] \in Seq(Event)
                                 /\ Len(inbox[s]) \in Nat
<1>1. \A s \in Subscriber: inbox[s] \in Seq(Event) /\ since[s] \in Nat  BY DEF TypeOK
<1> QED  BY <1>1, LenProperties DEF TypeOK

LEMMA PubSubFrame ==
  ASSUME PubSubInv, UNCHANGED <<readModel, outbox, up, active, since, inbox>>
  PROVE  PubSubInv'
BY DEF PubSubInv, OutboxInv, Follows

(* The read model is numbered like the log it is a prefix of. *)
LEMMA ReadModelNumbered ==
  ASSUME IndInv, up
  PROVE  \A i \in 1 .. Len(readModel): readModel[i].seq = i /\ readModel[i] = log[i]
<1> SUFFICES ASSUME NEW i \in 1 .. Len(readModel)
             PROVE  readModel[i].seq = i /\ readModel[i] = log[i]
  OBVIOUS
<1>1. /\ log = IF phase = "apply" THEN readModel \o staged ELSE readModel
      /\ readModel \in Seq(Event) /\ staged \in Seq(Event)
  BY DEF IndInv, ReadModelIsStore, TypeOK
<1>2. Len(readModel) \in Nat /\ Len(staged) \in Nat  BY PubSubTypes DEF IndInv
<1>3. readModel[i] = log[i] /\ i \in 1 .. Len(log)
  <2>1. CASE phase = "apply"
    <3>1. /\ Len(readModel \o staged) = Len(readModel) + Len(staged)
          /\ \A j \in 1 .. Len(readModel) + Len(staged):
               (readModel \o staged)[j] =
                 IF j <= Len(readModel) THEN readModel[j] ELSE staged[j - Len(readModel)]
      BY <1>1, ConcatProperties
    <3> QED  BY <1>1, <1>2, <2>1, <3>1
  <2>2. CASE phase # "apply"  BY <1>1, <2>2
  <2> QED  BY <2>1, <2>2
<1>4. log[i].seq = i  BY <1>3 DEF IndInv, NumberedInv
<1> QED  BY <1>3, <1>4

LEMMA SubscribeFollows ==
  ASSUME IndInv, PubSubInv, NEW s \in Subscriber, Subscribe(s)
  PROVE  PubSubInv'
<1> DEFINE n == Len(readModel)
           k == Len(outbox)
<1>1. /\ up /\ up' = up /\ readModel' = readModel /\ outbox' = outbox
      /\ active' = active \union {s}
      /\ since' = [since EXCEPT ![s] = IF outbox = <<>> THEN SnapshotSequence(readModel)
                                       ELSE Head(outbox).seq - 1]
      /\ inbox' = [inbox EXCEPT ![s] = <<>>]
  BY DEF Subscribe, job
<1>2. /\ n \in Nat /\ k \in Nat /\ readModel \in Seq(Event) /\ outbox \in Seq(Event)
      /\ since \in [Subscriber -> Nat] /\ inbox \in [Subscriber -> Seq(Event)]
      /\ active \subseteq Subscriber
  BY PubSubTypes DEF IndInv, TypeOK
<1>3. \A i \in 1 .. n: readModel[i].seq = i  BY <1>1, ReadModelNumbered
<1>4. OutboxInv  BY DEF PubSubInv
<1>5. since'[s] = n - k
  <2>1. CASE outbox = <<>>
    <3>1. k = 0  BY <2>1, EmptySeq
    <3>2. SnapshotSequence(readModel) = n
      <4>1. CASE n = 0
        <5>1. readModel = <<>>  BY <1>2, <4>1, EmptySeq
        <5> QED  BY <4>1, <5>1 DEF SnapshotSequence
      <4>2. CASE n # 0
        <5>1. n \in 1 .. n  BY <1>2, <4>2
        <5>2. readModel # <<>>  BY <4>2, EmptySeq
        <5> QED  BY <1>3, <5>1, <5>2 DEF SnapshotSequence
      <4> QED  BY <4>1, <4>2
    <3> QED  BY <1>1, <1>2, <2>1, <3>1, <3>2
  <2>2. CASE outbox # <<>>
    <3>1. k > 0 /\ 1 \in 1 .. k  BY <1>2, <2>2, EmptySeq
    <3>2. Head(outbox) = outbox[1]  BY <1>2, <2>2
    <3>3. k <= n /\ outbox[1] = readModel[(n - k) + 1]  BY <1>4, <3>1 DEF OutboxInv
    <3>4. (n - k) + 1 \in 1 .. n  BY <1>2, <3>1, <3>3
    <3>5. Head(outbox).seq = (n - k) + 1  BY <1>3, <3>2, <3>3, <3>4
    <3>6. Head(outbox).seq - 1 = n - k  BY <1>2, <3>5
    <3> QED  BY <1>1, <1>2, <2>2, <3>6
  <2> QED  BY <2>1, <2>2
<1>6. inbox'[s] = <<>> /\ Len(inbox'[s]) = 0  BY <1>1, <1>2, EmptySeq
<1>7. k <= n  BY <1>4 DEF OutboxInv
<1>8. Follows(s)'
  <2>1. since'[s] + Len(inbox'[s]) = n - k  BY <1>2, <1>5, <1>6, <1>7
  <2> QED  BY <1>1, <1>6, <2>1 DEF Follows
<1>9. ASSUME NEW t \in active, t # s PROVE Follows(t)'
  <2>1. since'[t] = since[t] /\ inbox'[t] = inbox[t]  BY <1>1, <1>2, <1>9
  <2> QED  BY <1>1, <2>1 DEF PubSubInv, Follows
<1>10. OutboxInv'  BY <1>1, <1>4 DEF OutboxInv
<1> QED  BY <1>1, <1>8, <1>9, <1>10 DEF PubSubInv

LEMMA ApplyFollows ==
  ASSUME IndInv, PubSubInv, ApplyReadModel
  PROVE  PubSubInv'
<1> DEFINE n == Len(readModel)
           k == Len(staged)
<1>1. /\ up /\ up' = up /\ readModel' = readModel \o staged /\ outbox' = staged
      /\ UNCHANGED <<active, since, inbox>>
  BY DEF ApplyReadModel, pubsub
<1>2. outbox = <<>> /\ Len(outbox) = 0  BY EmptySeq DEF ApplyReadModel, IndInv, WorkerInv
<1>3. n \in Nat /\ k \in Nat /\ readModel \in Seq(Event) /\ staged \in Seq(Event)
  BY PubSubTypes DEF IndInv, TypeOK
<1>4. /\ Len(readModel') = n + k
      /\ \A i \in 1 .. n + k:
           readModel'[i] = IF i <= n THEN readModel[i] ELSE staged[i - n]
  BY <1>1, <1>3, ConcatProperties
<1>5. OutboxInv'
  <2>1. \A i \in 1 .. k: staged[i] = readModel'[n + i]  BY <1>3, <1>4
  <2>2. (n + k) - k = n /\ k <= n + k  BY <1>3
  <2> QED  BY <1>1, <1>4, <2>1, <2>2 DEF OutboxInv
<1>6. ASSUME NEW t \in active PROVE Follows(t)'
  <2>1. /\ since[t] + Len(inbox[t]) = n - 0
        /\ \A i \in 1 .. Len(inbox[t]): inbox[t][i] = readModel[since[t] + i]
    BY <1>2 DEF PubSubInv, Follows
  <2>2. since[t] \in Nat /\ Len(inbox[t]) \in Nat  BY PubSubTypes DEF IndInv
  <2>3. since[t] + Len(inbox[t]) = (n + k) - k  BY <1>3, <2>1, <2>2
  <2>4. \A i \in 1 .. Len(inbox[t]): inbox[t][i] = readModel'[since[t] + i]
    <3> SUFFICES ASSUME NEW i \in 1 .. Len(inbox[t])
                 PROVE  readModel[since[t] + i] = readModel'[since[t] + i]
      BY <2>1
    <3>1. since[t] + i \in 1 .. n + k /\ since[t] + i <= n  BY <1>3, <2>1, <2>2
    <3> QED  BY <1>4, <3>1
  <2> QED  BY <1>1, <1>4, <2>3, <2>4 DEF Follows
<1> QED  BY <1>1, <1>5, <1>6 DEF PubSubInv

LEMMA PublishFollows ==
  ASSUME IndInv, PubSubInv, Publish
  PROVE  PubSubInv'
<1> DEFINE n == Len(readModel)
           k == Len(outbox)
           e == Head(outbox)
<1>1. /\ up /\ up' = up /\ readModel' = readModel /\ outbox # <<>> /\ outbox' = Tail(outbox)
      /\ inbox' = [s \in Subscriber |-> IF s \in active THEN Append(inbox[s], e) ELSE inbox[s]]
      /\ UNCHANGED <<active, since>>
  BY DEF Publish
<1>2. /\ n \in Nat /\ k \in Nat /\ readModel \in Seq(Event) /\ outbox \in Seq(Event)
      /\ active \subseteq Subscriber
  BY PubSubTypes DEF IndInv, TypeOK
<1>3. /\ e \in Event /\ e = outbox[1] /\ k > 0
      /\ Len(outbox') = k - 1 /\ \A i \in 1 .. k - 1: outbox'[i] = outbox[i + 1]
  BY <1>1, <1>2, HeadTailProperties, EmptySeq
<1>4. k <= n /\ \A i \in 1 .. k: outbox[i] = readModel[(n - k) + i]
  BY DEF PubSubInv, OutboxInv
<1> HIDE DEF e, n, k
<1>5. OutboxInv'
  <2>1. \A i \in 1 .. k - 1: outbox'[i] = readModel[(n - (k - 1)) + i]
    <3> SUFFICES ASSUME NEW i \in 1 .. k - 1
                 PROVE  outbox[i + 1] = readModel[(n - (k - 1)) + i]
      BY <1>3
    <3>1. i + 1 \in 1 .. k /\ (n - k) + (i + 1) = (n - (k - 1)) + i  BY <1>2
    <3>2. outbox[i + 1] = readModel[(n - k) + (i + 1)]  BY <1>4, <3>1
    <3> QED  BY <3>1, <3>2
  <2>2. k - 1 <= n  BY <1>2, <1>4
  <2> QED  BY <1>1, <1>3, <2>1, <2>2 DEF OutboxInv, n
<1>6. e = readModel[(n - k) + 1]
  <2>1. 1 \in 1 .. k  BY <1>2, <1>3
  <2> QED  BY <1>3, <1>4, <2>1
<1>7. ASSUME NEW t \in active PROVE Follows(t)'
  <2> DEFINE m == Len(inbox[t])
             b == since[t]
  <2>1. b \in Nat /\ inbox[t] \in Seq(Event) /\ m \in Nat  BY PubSubTypes DEF IndInv
  <2>2. b + m = n - k /\ \A i \in 1 .. m: inbox[t][i] = readModel[b + i]
    BY DEF PubSubInv, Follows, n, k
  <2>3. inbox'[t] = Append(inbox[t], e)  BY <1>1, <1>2
  <2>4. /\ Len(inbox'[t]) = m + 1 /\ \A i \in 1 .. m: inbox'[t][i] = inbox[t][i]
        /\ inbox'[t][m + 1] = e
    BY <1>3, <2>1, <2>3, AppendProperties
  <2> HIDE DEF m, b
  <2>5. b + (m + 1) = n - (k - 1)  BY <1>2, <2>1, <2>2
  <2>6. ASSUME NEW i \in 1 .. m + 1 PROVE inbox'[t][i] = readModel[b + i]
    <3>1. CASE i = m + 1
      <4>1. b + i = (n - k) + 1  BY <1>2, <2>1, <2>2, <3>1
      <4> QED  BY <1>6, <2>4, <3>1, <4>1
    <3>2. CASE i # m + 1
      <4>1. i \in 1 .. m  BY <2>1, <3>2
      <4> QED  BY <2>2, <2>4, <4>1
    <3> QED  BY <3>1, <3>2
  <2> QED  BY <1>1, <1>3, <2>4, <2>5, <2>6 DEF Follows, b, n
<1> QED  BY <1>1, <1>5, <1>7 DEF PubSubInv

LEMMA PubSubStep ==
  ASSUME Transactional, IndInv, PubSubInv, [Next]_vars
  PROVE  PubSubInv'
<1> USE DEF store, job, pubsub, callers
<1> TypeOK /\ WorkerInv  BY DEF IndInv
<1>1. ASSUME NEW c \in Command, Dispatch(c) PROVE PubSubInv'
  BY <1>1, PubSubFrame DEF Dispatch
<1>2. ASSUME NEW s \in Subscriber, Subscribe(s) PROVE PubSubInv'
  BY <1>2, SubscribeFollows
<1>3. CASE \/ Take \/ LookupHit \/ LookupFails \/ DecideAllowed \/ DecideRefused
           \/ AppendEvent \/ TransactionFails \/ Commit \/ Published \/ ReconcileFails
           \/ RecordRejection \/ RecordRejectionFails
  BY <1>3, PubSubFrame DEF Take, LookupHit, LookupFails, DecideAllowed, DecideRefused,
     AppendEvent, TransactionFails, Commit, Published, ReconcileFails, RecordRejection,
     RecordRejectionFails
<1>4. CASE ApplyReadModel  BY <1>4, ApplyFollows
<1>5. CASE Publish  BY <1>5, PublishFollows
<1>6. CASE Reconcile
  <2>1. start = Len(log) /\ Len(log) \in Nat
    BY <1>6, LenProperties DEF Reconcile, WorkerInv, TypeOK
  <2>2. SubSeq(log, start + 1, Len(log)) = <<>>  BY <2>1, SubSeqEmpty
  <2>3. readModel' = readModel /\ outbox' = <<>>
    BY <1>6, <2>2, ConcatEmptySeq DEF Reconcile, TypeOK
  <2>4. outbox = <<>>  BY <1>6 DEF Reconcile, WorkerInv
  <2> QED  BY <1>6, <2>3, <2>4, PubSubFrame DEF Reconcile
<1>7. CASE CompleteDeferred
  <2>1. outbox = <<>> /\ outbox' = <<>>  BY <1>7 DEF CompleteDeferred, Rest, WorkerInv
  <2> QED  BY <1>7, <2>1, PubSubFrame DEF CompleteDeferred
<1>8. CASE Crash
  <2>1. active' = {} /\ readModel' = <<>> /\ outbox' = <<>>  BY <1>8 DEF Crash, Rest
  <2>2. Len(outbox') = 0 /\ Len(readModel') = 0  BY <2>1, EmptySeq
  <2> QED  BY <2>1, <2>2 DEF PubSubInv, OutboxInv
<1>9. CASE Restart
  <2>1. active' = {} /\ outbox' = <<>> /\ readModel' = log
    BY <1>9 DEF Restart, WorkerInv, PubSubInv
  <2>2. Len(outbox') = 0 /\ Len(readModel') \in Nat
    BY <2>1, EmptySeq, PubSubTypes
  <2> QED  BY <2>1, <2>2 DEF PubSubInv, OutboxInv
<1>10. CASE UNCHANGED vars  BY <1>10, PubSubFrame DEF vars
<1> QED
  BY <1>1, <1>2, <1>3, <1>4, <1>5, <1>6, <1>7, <1>8, <1>9, <1>10 DEF Next, WorkerStep

(* streamDomainEvents: a subscription receives exactly the committed events  *)
(* published since it began, once and in order, and all of them by the time  *)
(* the worker is idle, whatever failed or was reconciled in between.         *)
THEOREM SubscriptionsFollowStore ==
  ASSUME Transactional PROVE Spec => []SubscribersSeeStore
<1>1. IndInv /\ PubSubInv /\ [Next]_vars => PubSubInv'  BY PubSubStep
<1>2. IndInv /\ PubSubInv => SubscribersSeeStore
  <2> SUFFICES ASSUME IndInv, PubSubInv, NEW s \in active
               PROVE  /\ since[s] + Len(inbox[s]) <= Len(log)
                      /\ \A i \in DOMAIN inbox[s]: inbox[s][i] = log[since[s] + i]
                      /\ phase = "idle" => since[s] + Len(inbox[s]) = Len(log)
    BY DEF SubscribersSeeStore
  <2>1. up  BY DEF PubSubInv
  <2>2. /\ Len(readModel) \in Nat /\ Len(outbox) \in Nat /\ Len(staged) \in Nat
        /\ since[s] \in Nat /\ inbox[s] \in Seq(Event) /\ Len(inbox[s]) \in Nat
    BY PubSubTypes DEF IndInv
  <2>3. DOMAIN inbox[s] = 1 .. Len(inbox[s])  BY <2>2, LenProperties
  <2>4. /\ since[s] + Len(inbox[s]) = Len(readModel) - Len(outbox)
        /\ \A i \in 1 .. Len(inbox[s]): inbox[s][i] = readModel[since[s] + i]
    BY DEF PubSubInv, Follows
  <2>5. /\ readModel \in Seq(Event) /\ staged \in Seq(Event)
        /\ log = IF phase = "apply" THEN readModel \o staged ELSE readModel
    BY <2>1 DEF IndInv, ReadModelIsStore, TypeOK
  <2>6. Len(readModel) <= Len(log) /\ Len(log) \in Nat
    <3>1. Len(readModel \o staged) = Len(readModel) + Len(staged)
      BY <2>5, ConcatProperties
    <3> QED  BY <2>2, <2>5, <3>1
  <2>7. since[s] + Len(inbox[s]) <= Len(log)  BY <2>2, <2>4, <2>6
  <2>8. \A i \in 1 .. Len(inbox[s]): inbox[s][i] = log[since[s] + i]
    <3> SUFFICES ASSUME NEW i \in 1 .. Len(inbox[s])
                 PROVE  readModel[since[s] + i] = log[since[s] + i]
      BY <2>4
    <3>1. since[s] + i \in 1 .. Len(readModel)  BY <2>2, <2>4
    <3> QED  BY <2>1, <3>1, ReadModelNumbered
  <2>9. phase = "idle" => since[s] + Len(inbox[s]) = Len(log)
    <3> SUFFICES ASSUME phase = "idle" PROVE since[s] + Len(inbox[s]) = Len(log)
      OBVIOUS
    <3>1. Len(outbox) = 0  BY EmptySeq DEF IndInv, WorkerInv
    <3> QED  BY <2>2, <2>4, <2>5, <3>1
  <2> QED  BY <2>3, <2>7, <2>8, <2>9
<1> QED  BY <1>1, <1>2, PubSubInit, Invariance, PTL DEF Spec

(***************************************************************************)
(* The engine implements CommandLog: every step of the engine is, seen     *)
(* through the log without sequence numbers, the receipts and the answers, *)
(* a step of the abstract log or no step at all.                           *)
(***************************************************************************)
(* A dispatch waits in the queue or with the worker, once, and is unanswered *)
(* until then.                                                               *)
CallerInv ==
  /\ \A i \in 1 .. Len(queue): replies[queue[i]] = Pending
  /\ \A i, j \in 1 .. Len(queue): queue[i] = queue[j] => i = j
  /\ phase # "idle" => /\ replies[req] = Pending
                       /\ \A i \in 1 .. Len(queue): queue[i] # req

RefInv == IndInv /\ CallerInv

LEMMA CallerInit == Init => CallerInv
  BY EmptySeq DEF Init, CallerInv

LEMMA CallerStep ==
  ASSUME IndInv, CallerInv, [Next]_vars
  PROVE  CallerInv'
<1> USE DEF store, job, pubsub, callers
<1> TypeOK  BY DEF IndInv
<1>0. /\ Len(queue) \in Nat /\ Len(requests) \in Nat
      /\ DOMAIN requests = 1 .. Len(requests)
      /\ DOMAIN replies = 1 .. Len(requests)
      /\ \A i \in 1 .. Len(queue): queue[i] \in 1 .. Len(requests)
      /\ phase # "idle" => req \in 1 .. Len(requests)
  BY LenProperties, ElementOfSeq DEF TypeOK
<1>1. ASSUME NEW c \in Command, Dispatch(c) PROVE CallerInv'
  <2> DEFINE n == Len(requests) + 1
  <2>1. /\ Len(queue') = Len(queue) + 1
        /\ \A i \in 1 .. Len(queue): queue'[i] = queue[i]
        /\ queue'[Len(queue) + 1] = n
    <3>1. queue \in Seq(Nat) /\ n \in Nat
      BY <1>0, SeqMonotonic DEF TypeOK
    <3> QED  BY <1>1, <3>1, AppendProperties DEF Dispatch
  <2>2. /\ \A i \in 1 .. Len(requests): replies'[i] = replies[i]
        /\ replies'[n] = Pending
    BY <1>0, <1>1, AppendProperties DEF Dispatch, Pending, Reply, TypeOK
  <2>3. \A i \in 1 .. Len(queue'): queue'[i] = IF i <= Len(queue) THEN queue[i] ELSE n
    BY <1>0, <2>1
  <2>4. \A i \in 1 .. Len(queue'): replies'[queue'[i]] = Pending
    BY <1>0, <2>1, <2>2, <2>3 DEF CallerInv
  <2>5. \A i, j \in 1 .. Len(queue'): queue'[i] = queue'[j] => i = j
    BY <1>0, <2>1, <2>3 DEF CallerInv
  <2>6. phase # "idle" => /\ replies'[req] = Pending
                          /\ \A i \in 1 .. Len(queue'): queue'[i] # req
    BY <1>0, <2>1, <2>2, <2>3 DEF CallerInv
  <2> QED  BY <1>1, <2>4, <2>5, <2>6 DEF CallerInv, Dispatch
<1>2. CASE Take
  <2>1. /\ Len(queue') = Len(queue) - 1 /\ Len(queue) \in Nat \ {0}
        /\ \A i \in 1 .. Len(queue'): queue'[i] = queue[i + 1]
    BY <1>2, HeadTailProperties, EmptySeq DEF Take, TypeOK
  <2>2. req' = queue[1]  BY <1>2 DEF Take, TypeOK
  <2>3. replies' = replies  BY <1>2 DEF Take
  <2>4. \A i \in 1 .. Len(queue'): i + 1 \in 1 .. Len(queue) /\ i + 1 # 1
    BY <2>1
  <2>5. 1 \in 1 .. Len(queue)  BY <2>1
  <2>6. \A i, j \in 1 .. Len(queue'): i + 1 = j + 1 => i = j  BY <2>1
  <2>7. \A i \in 1 .. Len(queue'): replies'[queue'[i]] = Pending
    BY <2>1, <2>3, <2>4 DEF CallerInv
  <2>8. \A i, j \in 1 .. Len(queue'): queue'[i] = queue'[j] => i = j
    BY <2>1, <2>4, <2>6 DEF CallerInv
  <2>9. \A i \in 1 .. Len(queue'): queue'[i] # req'
    BY <2>1, <2>2, <2>4, <2>5 DEF CallerInv
  <2>10. replies'[req'] = Pending  BY <2>2, <2>3, <2>5 DEF CallerInv
  <2> QED  BY <2>7, <2>8, <2>9, <2>10 DEF CallerInv
<1>3. CASE CompleteDeferred
  <2>1. \A i \in 1 .. Len(queue): queue[i] # req
    BY <1>3 DEF CompleteDeferred, CallerInv
  <2>2. \A n \in 1 .. Len(requests): n # req => replies'[n] = replies[n]
    BY <1>0, <1>3 DEF CompleteDeferred
  <2>3. \A i \in 1 .. Len(queue): replies'[queue[i]] = Pending
    BY <1>0, <2>1, <2>2 DEF CallerInv
  <2> QED  BY <1>3, <2>3 DEF CompleteDeferred, Rest, CallerInv
<1>4. CASE Crash
  BY <1>4, EmptySeq DEF Crash, Rest, CallerInv
<1>5. ASSUME UNCHANGED <<queue, replies, req>>,
             phase # "idle" \/ UNCHANGED phase
      PROVE  CallerInv'
  BY <1>5 DEF CallerInv
<1> QED
  BY <1>1, <1>2, <1>3, <1>4, <1>5
     DEF Next, WorkerStep, vars, Subscribe, LookupHit, LookupFails,
         DecideAllowed, DecideRefused, AppendEvent, TransactionFails, Commit,
         ApplyReadModel, Publish, Published, Reconcile, ReconcileFails,
         RecordRejection, RecordRejectionFails, Restart

LEMMA RefInvariance == ASSUME Transactional PROVE Spec => [](RefInv)
<1>1. Init => RefInv  BY IndInit, CallerInit DEF RefInv
<1>2. RefInv /\ [Next]_vars => RefInv'  BY IndStep, CallerStep DEF RefInv
<1> QED  BY <1>1, <1>2, PTL DEF Spec

(***************************************************************************)
(* The refinement mapping                                                  *)
(***************************************************************************)
LEMMA UnnumberedType ==
  ASSUME NEW es \in Seq(Event)
  PROVE  /\ Unnumbered(es) \in Seq([cmd: Command, body: Body])
         /\ Len(Unnumbered(es)) = Len(es)
         /\ \A i \in 1 .. Len(es):
              Unnumbered(es)[i] = [cmd |-> es[i].cmd, body |-> es[i].body]
<1>1. Len(es) \in Nat /\ DOMAIN es = 1 .. Len(es)  BY LenProperties
<1>2. \A i \in 1 .. Len(es): es[i] \in Event  BY ElementOfSeq
<1>3. Unnumbered(es) \in [1 .. Len(es) -> [cmd: Command, body: Body]]
  BY <1>1, <1>2 DEF Unnumbered, Event
<1>4. \A i \in 1 .. Len(es):
        Unnumbered(es)[i] = [cmd |-> es[i].cmd, body |-> es[i].body]
  BY <1>1 DEF Unnumbered
<1> QED  BY <1>1, <1>3, <1>4, FunctionIsSeq

LEMMA BlockType ==
  ASSUME NEW c \in Command
  PROVE  /\ CL!Block(c) \in Seq([cmd: Command, body: Body])
         /\ Len(CL!Block(c)) = Len(Events[c])
         /\ \A i \in 1 .. Len(Events[c]):
              CL!Block(c)[i] = [cmd |-> c, body |-> Events[c][i]]
<1>1. Events[c] \in Seq(Body) /\ Len(Events[c]) \in Nat
      /\ DOMAIN Events[c] = 1 .. Len(Events[c])
  BY EventsType, LenProperties
<1>2. CL!Block(c) \in [1 .. Len(Events[c]) -> [cmd: Command, body: Body]]
  BY <1>1, EventsType DEF CL!Block
<1>3. \A i \in 1 .. Len(Events[c]):
        CL!Block(c)[i] = [cmd |-> c, body |-> Events[c][i]]
  BY <1>1 DEF CL!Block
<1> QED  BY <1>1, <1>2, <1>3, FunctionIsSeq

LEMMA InitRefines == Init => CL!Init
<1> SUFFICES ASSUME Init PROVE CL!Init
  OBVIOUS
<1>1. Unnumbered(log) = <<>>
  <2>1. log \in Seq(Event) /\ Len(log) = 0  BY EmptySeq DEF Init
  <2> QED  BY <2>1, UnnumberedType, EmptySeq
<1> QED  BY <1>1 DEF Init, CL!Init, CL!Undecided, NoReceipt

(* A commit is the acceptance of its command. *)
LEMMA CommitRefines ==
  ASSUME Transactional, IndInv, Commit
  PROVE  CL!Accept(Current)
<1> DEFINE c == Current
           S == [cmd: Command, body: Body]
<1>1. c \in Command /\ Len(staged) = Len(Events[c]) /\ Undecided
  BY CommitStore
<1>2. /\ log' = log \o staged /\ Len(log') = Len(log) + Len(staged)
      /\ \A i \in 1 .. Len(log): log'[i] = log[i]
      /\ \A i \in 1 .. Len(staged): log'[Len(log) + i] = staged[i]
      /\ result' = Len(log')
  BY CommitStore
<1>3. /\ log \in Seq(Event) /\ staged \in Seq(Event) /\ log' \in Seq(Event)
      /\ Len(log) \in Nat /\ Len(staged) \in Nat
  BY <1>2, ConcatProperties, LenProperties DEF IndInv, TypeOK
<1>4. \A i \in 1 .. Len(staged):
        staged[i] = [seq |-> Len(log) + i, cmd |-> c, body |-> Events[c][i]]
  BY DEF IndInv, WorkerInv, StagedBlock, Commit
<1>5. Unnumbered(log') = Unnumbered(log) \o CL!Block(c)
  <2> DEFINE new == Unnumbered(log) \o CL!Block(c)
  <2>1. /\ Unnumbered(log) \in Seq(S) /\ Len(Unnumbered(log)) = Len(log)
        /\ Unnumbered(log') \in Seq(S) /\ Len(Unnumbered(log')) = Len(log')
    BY <1>3, UnnumberedType
  <2>2. CL!Block(c) \in Seq(S) /\ Len(CL!Block(c)) = Len(staged)
    BY <1>1, BlockType
  <2>3. /\ new \in Seq(S)
        /\ Len(new) = Len(log) + Len(staged)
        /\ \A i \in 1 .. Len(log) + Len(staged):
             new[i] = IF i <= Len(log) THEN Unnumbered(log)[i]
                      ELSE CL!Block(c)[i - Len(log)]
    <3> DEFINE u == Unnumbered(log)
               b == CL!Block(c)
    <3>1. u \in Seq(S) /\ b \in Seq(S)  BY <2>1, <2>2
    <3> HIDE DEF u, b, S
    <3>2. /\ u \o b \in Seq(S)
          /\ Len(u \o b) = Len(u) + Len(b)
          /\ \A i \in 1 .. Len(u) + Len(b):
               (u \o b)[i] = IF i <= Len(u) THEN u[i] ELSE b[i - Len(u)]
      BY <3>1, ConcatProperties
    <3> QED  BY <2>1, <2>2, <3>2 DEF u, b
  <2>4. ASSUME NEW i \in 1 .. Len(log')
        PROVE  Unnumbered(log')[i] = new[i]
    <3>1. Unnumbered(log')[i] = [cmd |-> log'[i].cmd, body |-> log'[i].body]
      BY <1>3, UnnumberedType
    <3>2. CASE i <= Len(log)
      <4>1. i \in 1 .. Len(log)  BY <1>2, <1>3, <3>2
      <4>2. new[i] = Unnumbered(log)[i]  BY <1>2, <2>3, <3>2
      <4>3. Unnumbered(log)[i] = [cmd |-> log[i].cmd, body |-> log[i].body]
        BY <1>3, <4>1, UnnumberedType
      <4> QED  BY <1>2, <3>1, <4>1, <4>2, <4>3
    <3>3. CASE ~(i <= Len(log))
      <4>1. /\ i - Len(log) \in 1 .. Len(staged)
            /\ Len(log) + (i - Len(log)) = i
        BY <1>2, <1>3, <3>3
      <4>2. new[i] = CL!Block(c)[i - Len(log)]  BY <1>2, <2>3, <3>3
      <4>3. CL!Block(c)[i - Len(log)] =
              [cmd |-> c, body |-> Events[c][i - Len(log)]]
        BY <1>1, <4>1, BlockType
      <4>4. log'[i] = staged[i - Len(log)]  BY <1>2, <4>1
      <4>5. staged[i - Len(log)] =
              [seq |-> Len(log) + (i - Len(log)), cmd |-> c,
               body |-> Events[c][i - Len(log)]]
        BY <1>4, <4>1
      <4> QED  BY <3>1, <4>2, <4>3, <4>4, <4>5
    <3> QED  BY <3>2, <3>3
  <2> QED  BY <1>2, <2>1, <2>3, <2>4, SeqEqual
<1>6. Len(Unnumbered(log')) = Len(log')  BY <1>3, UnnumberedType
<1>7. receipts' = [receipts EXCEPT ![c] =
                     [status |-> "accepted", seq |-> Len(log')]]
  BY <1>2 DEF Commit
<1>8. UNCHANGED callers  BY DEF Commit
<1> HIDE DEF c
<1> QED
  BY <1>1, <1>5, <1>6, <1>7, <1>8
     DEF CL!Accept, CL!Accepted, Undecided, callers, c

(* Recording a rejection rejects the command. *)
LEMMA RejectionRefines ==
  ASSUME Transactional, IndInv, RecordRejection, Undecided, Current \in Command
  PROVE  CL!Reject(Current)
<1>1. readModel = log /\ log' = log  
  BY DEF RecordRejection, IndInv, WorkerInv, ReadModelIsStore
<1>2. SnapshotSequence(readModel) = Len(Unnumbered(log))
  BY <1>1, SnapshotOfLog, UnnumberedType DEF IndInv, TypeOK
<1> QED  BY <1>1, <1>2
         DEF RecordRejection, CL!Reject, CL!Rejected, Undecided, callers

(* Completing the Deferred answers the caller truthfully. *)
LEMMA ReplyRefines ==
  ASSUME IndInv, CallerInv, CompleteDeferred
  PROVE  \E n \in DOMAIN replies: \E a \in CL!Answers: CL!Answer(n, a)
<1>1. /\ req \in DOMAIN requests /\ phase = "reply" /\ replies[req] = Pending
      /\ DOMAIN replies = DOMAIN requests
  BY LenProperties DEF CompleteDeferred, IndInv, TypeOK, CallerInv
<1>2. Current \in Command  BY <1>1, CurrentType DEF IndInv
<1>3. Len(Unnumbered(log)) = Len(log) /\ Len(log) \in Nat
  BY UnnumberedType, LenProperties DEF IndInv, TypeOK
<1>4. ReplyOf(outcome) \in CL!Answers
  <2>1. CASE outcome = "ok"
    <3>1. receipts[Current] = [status |-> "accepted", seq |-> result]
      BY <1>1, <2>1 DEF IndInv, WorkerInv, AcceptedAtResult
    <3>2. BlockEndsAt(log, Current, result)
      BY <1>2, <3>1 DEF IndInv, ExactlyOnce
    <3>3. result \in 0 .. Len(log)
      BY <1>3, <3>2 DEF BlockEndsAt, IndInv, TypeOK
    <3> QED  BY <2>1, <1>3, <3>3 DEF ReplyOf, CL!Answers
  <2>2. CASE outcome # "ok"
    BY <2>2, <1>3 DEF ReplyOf, CL!Answers
  <2> QED  BY <2>1, <2>2
<1>5. CL!Truthful(requests[req], ReplyOf(outcome))
  BY <1>1 DEF CL!Truthful, CL!Accepted, ReplyOf, IndInv, WorkerInv,
              AcceptedAtResult, Current
<1>6. CL!Answer(req, ReplyOf(outcome))
  BY <1>1, <1>5 DEF CL!Answer, CL!Pending, Pending, CompleteDeferred, store
<1> QED  BY <1>1, <1>4, <1>6

LEMMA StepRefines ==
  ASSUME Transactional, IndInv, CallerInv, [Next]_vars
  PROVE  [CL!Next]_(CL!vars)
<1>1. CASE Commit
  <2>1. Current \in Command  BY <1>1, CommitStore
  <2> QED  BY <1>1, <2>1, CommitRefines DEF CL!Next
<1>2. CASE RecordRejection /\ Undecided /\ Current \in Command
  BY <1>2, RejectionRefines DEF CL!Next
<1>3. CASE CompleteDeferred
  BY <1>3, ReplyRefines DEF CL!Next
<1>4. ASSUME NEW c \in Command, Dispatch(c) PROVE CL!Next
  <2>1. CL!Submit(c)
    BY <1>4 DEF Dispatch, CL!Submit, CL!Pending, Pending, store
  <2> QED  BY <2>1 DEF CL!Next
<1>5. CASE Crash
  <2>1. CL!Abandon
    BY <1>5 DEF Crash, CL!Abandon, CL!Pending, CL!Lost, Pending, Lost, store
  <2> QED  BY <2>1 DEF CL!Next
<1>6. CASE UNCHANGED store /\ UNCHANGED callers
  BY <1>6 DEF store, callers, CL!vars
<1> QED
  BY <1>1, <1>2, <1>3, <1>4, <1>5, <1>6, StoreStep
     DEF Next, WorkerStep, vars, Subscribe, Take, LookupHit, LookupFails,
         DecideAllowed, DecideRefused, AppendEvent, TransactionFails,
         ApplyReadModel, Publish, Published, Reconcile, ReconcileFails,
         RecordRejection, RecordRejectionFails, Restart

(* processEnvelope over a transactional store is an implementation of the    *)
(* exactly-once command log, with any commands, any decider, any number of   *)
(* failures and crashes.                                                     *)
THEOREM EngineImplementsCommandLog ==
  ASSUME Transactional PROVE Spec => ImplementsCommandLog
<1>1. RefInv /\ [Next]_vars => [CL!Next]_(CL!vars)
  BY StepRefines DEF RefInv
<1> QED  BY <1>1, InitRefines, RefInvariance, PTL
         DEF Spec, ImplementsCommandLog, CL!Spec
=============================================================================
