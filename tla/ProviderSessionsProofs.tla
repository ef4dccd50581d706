------------------------ MODULE ProviderSessionsProofs ------------------------
(***************************************************************************)
(* Proofs about ProviderSessions: the state of a thread's session is well  *)
(* typed and the adapter opens one session at a time, the turn it shows is *)
(* the one that runs, and a live session the directory could record is one *)
(* the reaper sees, for any modes, turns and bounds, whoever calls the     *)
(* service and whatever fails.                                             *)
(*                                                                         *)
(* TypeOK is not inductive: what a caller, a queue or the ingestion holds  *)
(* is written to the thread and the adapter later.  Inv types those too.   *)
(* SInv says what is true of a turn while its events are still on the way: *)
(* what shows a turn that has ended is followed by what closes it, and the *)
(* start of the running one is shown or followed by nothing but its errors.*)
(***************************************************************************)
EXTENDS ProviderSessions, SequenceTheorems, TLAPS

SomeTurn == Turns \union {None}
SomeMode == Mode \union {None}
Status == {"none", "running", "ready", "error", "stopped"}
RequestType == [task: {"turn", "mode", "interrupt", "stop"}, turn: SomeTurn]
Steps == {"idle", "resolve", "close", "open", "record", "bind", "deliver", "note",
          "halt", "halting", "unbind", "halted"}
Tasks == {"turn", "mode", "interrupt", "stop", "rollback", "reap"}
Call == [step: Steps, task: Tasks \union {None}, turn: SomeTurn, mode: SomeMode,
         bind: BOOLEAN]
Adapter == [entry: BOOLEAN, alive: BOOLEAN, mode: SomeMode, queue: Seq(SomeTurn),
            running: SomeTurn, unrecorded: BOOLEAN]
Kinds == {"turns", "modes", "stops", "interrupts", "rollbacks", "sweeps", "exits", "errors",
          "strays", "crashes", "failures", "lost"}
Outcome == {"none", "sent", "failed", "untold", "lost"}

ThreadTyped  == th \in [mode: Mode, session: Session]
AdapterTyped == adapter \in Adapter /\ (adapter.alive => adapter.entry)
BindingTyped == binding \in Binding \union {None}
CallsTyped   == call \in [Caller -> Call]
Bound        == \A c \in Caller:
                  call[c].step \in {"deliver", "note", "halting", "unbind"} => binding \in Binding
QueuesTyped  == requests \in Seq(RequestType) /\ events \in Seq(EventType)
SeenTyped    == seen = None \/ seen \in [event: EventType, session: Session]
OutcomeTyped == outcome \in [Turns -> Outcome]
CountTyped   == count \in [Kinds -> Nat]
OneOpens     == \A c \in Caller: call[c].step = "open" <=> lock = c

Inv == /\ ThreadTyped /\ AdapterTyped /\ BindingTyped /\ CallsTyped /\ QueuesTyped
       /\ SeenTyped /\ OutcomeTyped /\ CountTyped /\ OneOpens /\ Bound

USE DEF Caller

LEMMA InitInv == Init => Inv
<1> SUFFICES ASSUME Init PROVE Inv
  OBVIOUS
<1> USE DEF Init
<1>1. ThreadTyped  BY DEF ThreadTyped, Session, Status, SomeMode, SomeTurn, NoSession
<1>2. AdapterTyped  BY DEF AdapterTyped, Adapter, NoAdapter, SomeMode, SomeTurn
<1>3. BindingTyped  BY DEF BindingTyped
<1>4. CallsTyped  BY DEF CallsTyped, Call, NoCall, Steps, SomeMode, SomeTurn
<1>5. QueuesTyped  BY DEF QueuesTyped
<1>6. SeenTyped /\ OutcomeTyped  BY DEF SeenTyped, OutcomeTyped, Outcome
<1>7. CountTyped  BY DEF CountTyped, Kinds, NoCount
<1>8. OneOpens  BY NoneAssumption DEF OneOpens, NoCall
<1>9. Bound  BY DEF Bound, NoCall
<1> QED  BY <1>1, <1>2, <1>3, <1>4, <1>5, <1>6, <1>7, <1>8, <1>9 DEF Inv

(* What the steps of a caller do to its call. *)
LEMMA GotoTyped ==
  ASSUME CallsTyped, NEW c \in Caller, NEW s \in Steps, Goto(c, s)
  PROVE  CallsTyped' /\ call'[c].step = s /\ \A d \in Caller \ {c}: call'[d] = call[d]
BY DEF CallsTyped, Goto, Call

LEMMA FinishTyped ==
  ASSUME CallsTyped, NEW c \in Caller, Finish(c)
  PROVE  CallsTyped' /\ call'[c].step = "idle" /\ \A d \in Caller \ {c}: call'[d] = call[d]
BY DEF CallsTyped, Finish, NoCall, Call, Steps, SomeMode, SomeTurn

LEMMA BeginTyped ==
  ASSUME CallsTyped, NEW c \in Caller, NEW s \in Steps, NEW r, r.task \in Tasks,
         r.turn \in SomeTurn, NEW m \in SomeMode, NEW b \in BOOLEAN, Begin(c, s, r, m, b)
  PROVE  CallsTyped' /\ call'[c].step = s /\ \A d \in Caller \ {c}: call'[d] = call[d]
BY DEF CallsTyped, Begin, Call

LEMMA OthersOpen ==
  ASSUME OneOpens, NEW c \in Caller, call[c].step # "open", call'[c].step # "open",
         \A d \in Caller \ {c}: call'[d] = call[d], UNCHANGED lock
  PROVE  OneOpens'
BY DEF OneOpens

(* A binding is never dropped. *)
LEMMA StaysBound ==
  ASSUME Bound, NEW c \in Caller, \A d \in Caller \ {c}: call'[d] = call[d],
         binding \in Binding => binding' \in Binding,
         call'[c].step \in {"deliver", "note", "halting", "unbind"} => binding' \in Binding
  PROVE  Bound'
BY DEF Bound

LEMMA NoAdapterTyped == NoAdapter \in Adapter /\ ~NoAdapter.alive
BY EmptySeq DEF NoAdapter, Adapter, SomeMode, SomeTurn

LEMMA CloseTyped ==
  ASSUME AdapterTyped, QueuesTyped, CountTyped, UNCHANGED requests,
         IF adapter.entry THEN CloseEntry ELSE UNCHANGED <<adapter, events, count>>
  PROVE  AdapterTyped' /\ QueuesTyped' /\ CountTyped'
<1>1. AdapterTyped'
  <2>1. adapter' = NoAdapter \/ adapter' = adapter  BY DEF CloseEntry
  <2> QED  BY <2>1, NoAdapterTyped DEF AdapterTyped
<1>2. [type |-> "session.exited", turn |-> None] \in EventType  BY DEF EventType, SomeTurn
<1>3. \/ UNCHANGED <<events, count>>
      \/ /\ events' = Append(events, [type |-> "session.exited", turn |-> None])
         /\ UNCHANGED count
      \/ UNCHANGED events /\ count' = [count EXCEPT !.lost = 1]
  BY DEF CloseEntry
<1>4. events' \in Seq(EventType)
  BY <1>2, <1>3, AppendProperties DEF QueuesTyped
<1>5. QueuesTyped'  BY <1>4 DEF QueuesTyped
<1>6. CASE UNCHANGED count  BY <1>6, <1>1, <1>5 DEF CountTyped
<1>7. CASE count' = [count EXCEPT !.lost = 1]
  <2>1. CountTyped'  BY <1>7 DEF CountTyped, Kinds
  <2> QED  BY <2>1, <1>1, <1>5
<1> QED  BY <1>3, <1>6, <1>7

LEMMA HappensTyped ==
  ASSUME CountTyped, NEW what \in Kinds, NEW max, Happens(what, max) PROVE CountTyped'
BY DEF CountTyped, Happens, HappensTimes

LEMMA RequestTyped ==
  ASSUME QueuesTyped, NEW r \in RequestType, Request(r), UNCHANGED events PROVE QueuesTyped'
BY AppendProperties DEF QueuesTyped, Request

LEMMA EventTyped ==
  ASSUME QueuesTyped, NEW e \in EventType, events' = Append(events, e), UNCHANGED requests
  PROVE  QueuesTyped'
BY AppendProperties DEF QueuesTyped

(******************************** The user *********************************)
LEMMA UserInv ==
  ASSUME Inv, AskTurn \/ (\E m \in Mode: SetMode(m)) \/ AskStop \/ AskInterrupt PROVE Inv'
<1> USE DEF Inv
<1>1. CASE AskTurn
  <2>1. CountTyped' /\ count'.turns \in Turns
    BY <1>1, BoundsAssumption DEF AskTurn, Happens, HappensTimes, CountTyped, Kinds, Turns
  <2>2. [task |-> "turn", turn |-> count'.turns] \in RequestType
    BY <2>1 DEF RequestType, SomeTurn
  <2>3. QueuesTyped'  BY <1>1, <2>2, RequestTyped DEF AskTurn
  <2> QED
    BY <1>1, <2>1, <2>3 DEF AskTurn, ThreadTyped, AdapterTyped, BindingTyped, CallsTyped,
       SeenTyped, OutcomeTyped, OneOpens, Bound
<1>2. CASE \E m \in Mode: SetMode(m)
  <2>1. PICK m \in Mode: SetMode(m)  BY <1>2
  <2>2. CountTyped'  BY <2>1, HappensTyped DEF SetMode, Kinds
  <2>3. ThreadTyped'  BY <2>1 DEF SetMode, ThreadTyped
  <2>4. [task |-> "mode", turn |-> None] \in RequestType  BY DEF RequestType, SomeTurn
  <2>5. QueuesTyped'  BY <2>1, <2>4, RequestTyped DEF SetMode
  <2> QED
    BY <2>1, <2>2, <2>3, <2>5 DEF SetMode, AdapterTyped, BindingTyped, CallsTyped,
       SeenTyped, OutcomeTyped, OneOpens, Bound
<1>3. CASE AskStop \/ AskInterrupt
  <2>1. CountTyped'  BY <1>3, HappensTyped DEF AskStop, AskInterrupt, Kinds
  <2>2. /\ [task |-> "stop", turn |-> None] \in RequestType
        /\ [task |-> "interrupt", turn |-> None] \in RequestType
    BY DEF RequestType, SomeTurn
  <2>3. QueuesTyped'  BY <1>3, <2>2, RequestTyped DEF AskStop, AskInterrupt
  <2> QED
    BY <1>3, <2>1, <2>3 DEF AskStop, AskInterrupt, ThreadTyped, AdapterTyped, BindingTyped,
       CallsTyped, SeenTyped, OutcomeTyped, OneOpens, Bound
<1> QED  BY <1>1, <1>2, <1>3

(****************************** The provider *******************************)
LEMMA ProviderInv ==
  ASSUME Inv, StartTurn \/ EndTurn \/ ExitProcess \/ ReportError PROVE Inv'
<1> USE DEF Inv
<1>1. UNCHANGED <<th, binding, lock, call, requests, seen, outcome>>
  BY DEF StartTurn, EndTurn, ExitProcess, ReportError
<1>2. CASE StartTurn
  <2>1. Head(adapter.queue) \in SomeTurn /\ Tail(adapter.queue) \in Seq(SomeTurn)
    BY <1>2, HeadTailProperties DEF StartTurn, AdapterTyped, Adapter
  <2>2. AdapterTyped' /\ adapter'.running \in SomeTurn
    BY <1>2, <2>1 DEF StartTurn, AdapterTyped, Adapter
  <2>3. [type |-> "turn.started", turn |-> adapter'.running] \in EventType
    BY <2>2 DEF EventType, SomeTurn
  <2>4. QueuesTyped'  BY <1>2, <2>3, EventTyped DEF StartTurn
  <2> QED  BY <1>1, <1>2, <2>2, <2>4 DEF StartTurn, ThreadTyped, BindingTyped, CallsTyped,
              SeenTyped, OutcomeTyped, OneOpens, Bound, CountTyped
<1>3. CASE EndTurn
  <2>1. AdapterTyped' /\ adapter.running \in SomeTurn
    BY <1>3 DEF EndTurn, AdapterTyped, Adapter, SomeTurn
  <2>2. [type |-> "turn.completed", turn |-> adapter.running] \in EventType
    BY <2>1 DEF EventType, SomeTurn
  <2>3. QueuesTyped'  BY <1>3, <2>2, EventTyped DEF EndTurn
  <2> QED  BY <1>1, <1>3, <2>1, <2>3 DEF EndTurn, ThreadTyped, BindingTyped, CallsTyped,
              SeenTyped, OutcomeTyped, OneOpens, Bound, CountTyped
<1>4. CASE ExitProcess
  <2>1. PICK kept \in BOOLEAN:
          adapter' = [NoAdapter EXCEPT !.entry = kept, !.mode = adapter.mode,
                                       !.unrecorded = adapter.unrecorded]
    BY <1>4 DEF ExitProcess
  <2>2. AdapterTyped'  BY <2>1, NoAdapterTyped DEF AdapterTyped, Adapter
  <2>3. [type |-> "session.exited", turn |-> None] \in EventType  BY DEF EventType, SomeTurn
  <2>4. QueuesTyped'  BY <1>4, <2>3, EventTyped DEF ExitProcess
  <2>5. CountTyped'  BY <1>4, HappensTyped DEF ExitProcess, Kinds
  <2> QED  BY <1>1, <2>2, <2>4, <2>5 DEF ThreadTyped, BindingTyped, CallsTyped,
              SeenTyped, OutcomeTyped, OneOpens, Bound
<1>5. CASE ReportError
  <2>1. PICK t \in {adapter.running, None}:
          /\ Happens(IF t = adapter.running THEN "errors" ELSE "strays", MaxErrors)
          /\ events' = Append(events, [type |-> "runtime.error", turn |-> t])
    BY <1>5 DEF ReportError
  <2>2. [type |-> "runtime.error", turn |-> t] \in EventType
    BY <2>1 DEF EventType, SomeTurn, AdapterTyped, Adapter
  <2>3. QueuesTyped'  BY <1>1, <2>1, <2>2, EventTyped
  <2>4. CountTyped'
    <3> DEFINE kind == IF t = adapter.running THEN "errors" ELSE "strays"
    <3>1. kind \in Kinds  BY DEF Kinds
    <3> QED  BY <2>1, <3>1, HappensTyped
  <2> QED  BY <1>1, <1>5, <2>3, <2>4 DEF ReportError, ThreadTyped, AdapterTyped, BindingTyped,
              CallsTyped, SeenTyped, OutcomeTyped, OneOpens, Bound
<1> QED  BY <1>2, <1>3, <1>4, <1>5
(************************** The callers of the service *********************)
LEMMA TakeRequestInv == ASSUME Inv, TakeRequest PROVE Inv'
<1> DEFINE r == Head(requests)
<1> USE DEF Inv
<1>1. /\ r \in RequestType /\ requests' \in Seq(RequestType)
      /\ call["commands"].step = "idle" /\ "commands" \in Caller
      /\ UNCHANGED <<th, binding, adapter, lock, events, seen, outcome, count>>
  BY HeadTailProperties DEF TakeRequest, QueuesTyped
<1>2. r.task \in Tasks /\ r.turn \in SomeTurn  BY <1>1 DEF RequestType, Tasks
<1>3. None \in SomeMode /\ th.mode \in SomeMode /\ th.session.mode \in SomeMode
  BY DEF SomeMode, ThreadTyped, Session
<1>4. \/ Finish("commands")
      \/ \E s \in {"resolve", "close", "halt", "halted"}, m \in SomeMode, b \in BOOLEAN:
           Begin("commands", s, r, m, b)
  BY <1>1, <1>3 DEF TakeRequest, EnsureSession, RequestType
<1>5. /\ CallsTyped'
      /\ call'["commands"].step \in {"idle", "resolve", "close", "halt", "halted"}
      /\ \A d \in Caller \ {"commands"}: call'[d] = call[d]
  <2>1. CASE Finish("commands")  BY <2>1, <1>1, FinishTyped
  <2>2. ASSUME NEW s \in {"resolve", "close", "halt", "halted"}, NEW m \in SomeMode,
               NEW b \in BOOLEAN, Begin("commands", s, r, m, b)
        PROVE  /\ CallsTyped' /\ call'["commands"].step = s
               /\ \A d \in Caller \ {"commands"}: call'[d] = call[d]
    <3>1. s \in Steps  BY DEF Steps
    <3> QED  BY <2>2, <3>1, <1>1, <1>2, BeginTyped
  <2> QED  BY <1>4, <2>1, <2>2
<1>6. OneOpens'  BY <1>1, <1>5, OthersOpen
<1>7. Bound'  BY <1>1, <1>5, StaysBound
<1> QED
  BY <1>1, <1>5, <1>6, <1>7 DEF ThreadTyped, AdapterTyped, BindingTyped, QueuesTyped, SeenTyped,
     OutcomeTyped, CountTyped

LEMMA AbandonCounts ==
  ASSUME CountTyped, NEW c \in Caller, NEW n \in Nat, Abandon(c, n)
  PROVE  CountTyped' /\ \A k \in Kinds: count'[k] = 0 => count[k] = 0
<1>1. PICK lost \in {0, 1}: HappensTimes(n + lost, "failures", MaxFailures)
  BY DEF Abandon
<1> QED  BY <1>1 DEF HappensTimes, CountTyped, Kinds

LEMMA AbandonTyped ==
  ASSUME CallsTyped, OutcomeTyped, CountTyped, NEW c \in Caller, NEW n \in Nat, Abandon(c, n)
  PROVE  /\ CallsTyped' /\ OutcomeTyped' /\ CountTyped' /\ call'[c].step = "idle"
         /\ \A d \in Caller \ {c}: call'[d] = call[d]
<1>1. Finish(c)  BY DEF Abandon
<1>2. OutcomeTyped'
  <2>1. \/ outcome' = outcome
        \/ \E o \in {"failed", "untold"}: outcome' = [outcome EXCEPT ![call[c].turn] = o]
    BY DEF Abandon
  <2> QED  BY <2>1 DEF OutcomeTyped, Outcome
<1> QED  BY <1>1, <1>2, FinishTyped, AbandonCounts

LEMMA ResolveInv == ASSUME Inv, NEW c \in Caller, Resolve(c) PROVE Inv'
<1> USE DEF Inv
<1>1. /\ UNCHANGED <<th, binding, adapter, lock, requests, events, seen>>
      /\ call[c].step = "resolve"
  BY DEF Resolve
<1>2. /\ CallsTyped' /\ OutcomeTyped' /\ CountTyped'
      /\ \/ call'[c].step \in {"idle", "close"}
         \/ call'[c].step = "deliver" /\ binding \in Binding
      /\ \A d \in Caller \ {c}: call'[d] = call[d]
  <2>1. CASE Abandon(c, 0)  BY <2>1, AbandonTyped
  <2>2. CASE ~Abandon(c, 0)
    <3>1. /\ binding \in Binding /\ UNCHANGED <<outcome, count>>
          /\ \/ Goto(c, "deliver")
             \/ call' = [call EXCEPT ![c].step = "close", ![c].mode = binding.mode]
      BY <2>2 DEF Resolve, Goto, BindingTyped
    <3>2. CASE Goto(c, "deliver")
      BY <3>1, <3>2, GotoTyped DEF Steps, OutcomeTyped, CountTyped
    <3>3. CASE call' = [call EXCEPT ![c].step = "close", ![c].mode = binding.mode]
      BY <3>1, <3>3 DEF CallsTyped, Call, Steps, Binding, OutcomeTyped, CountTyped
    <3> QED  BY <3>1, <3>2, <3>3
  <2> QED  BY <2>1, <2>2
<1>3. OneOpens'  BY <1>1, <1>2, OthersOpen
<1>4. Bound'  BY <1>1, <1>2, StaysBound
<1> QED
  BY <1>1, <1>2, <1>3, <1>4 DEF ThreadTyped, AdapterTyped, BindingTyped, QueuesTyped, SeenTyped

(* The lock is taken by the one caller that opens a session, ... *)
LEMMA CloseStaleInv == ASSUME Inv, NEW c \in Caller, CloseStale(c) PROVE Inv'
<1> USE DEF Inv
<1>1. /\ lock = None /\ lock' = c /\ Goto(c, "open")
      /\ UNCHANGED <<th, binding, requests, seen, outcome>>
  BY DEF CloseStale
<1>2. /\ CallsTyped' /\ call'[c].step = "open"
      /\ \A d \in Caller \ {c}: call'[d] = call[d]
  BY <1>1, GotoTyped DEF Steps
<1>3. AdapterTyped' /\ QueuesTyped' /\ CountTyped'
  BY CloseTyped DEF CloseStale
<1>4. OneOpens'
  <2>1. \A d \in Caller: call[d].step # "open"  BY <1>1, NoneAssumption DEF OneOpens
  <2> QED  BY <1>1, <1>2, <2>1 DEF OneOpens
<1>5. Bound'  BY <1>1, <1>2, StaysBound
<1> QED
  BY <1>1, <1>2, <1>3, <1>4, <1>5 DEF ThreadTyped, BindingTyped, SeenTyped, OutcomeTyped

(* ... and given back by it. *)
LEMMA OpenSessionInv == ASSUME Inv, NEW c \in Caller, OpenSession(c) PROVE Inv'
<1> USE DEF Inv
<1>1. /\ call[c].step = "open" /\ lock' = None /\ Goto(c, "record")
      /\ adapter' = [NoAdapter EXCEPT !.entry = TRUE, !.alive = TRUE, !.mode = call[c].mode]
      /\ UNCHANGED <<th, binding, requests, seen, outcome, count>>
  BY DEF OpenSession
<1>2. /\ CallsTyped' /\ call'[c].step = "record"
      /\ \A d \in Caller \ {c}: call'[d] = call[d]
  BY <1>1, GotoTyped DEF Steps
<1>3. AdapterTyped'
  <2>1. call[c].mode \in SomeMode  BY DEF CallsTyped, Call
  <2> QED  BY <1>1, <2>1, NoAdapterTyped DEF AdapterTyped, Adapter
<1>4. QueuesTyped'
  <2>1. PICK a \in Announce: events' = Append(events, [type |-> a, turn |-> None])
    BY DEF OpenSession
  <2>2. [type |-> a, turn |-> None] \in EventType
    BY AnnounceAssumption DEF EventType, SomeTurn
  <2> QED  BY <1>1, <2>1, <2>2, EventTyped
<1>5. OneOpens'
  <2>1. lock = c  BY <1>1 DEF OneOpens
  <2> QED  BY <1>1, <1>2, <2>1, NoneAssumption DEF OneOpens
<1>6. Bound'  BY <1>1, <1>2, StaysBound
<1> QED
  BY <1>1, <1>2, <1>3, <1>4, <1>5, <1>6 DEF ThreadTyped, BindingTyped, SeenTyped,
     OutcomeTyped, CountTyped

(* A failed start only adds that a session was opening and was closed.       *)
LEMMA FailedStartEvents ==
  ASSUME QueuesTyped, NEW c \in Caller, CallFails(c)
  PROVE  /\ events' \in Seq(EventType)
         /\ call[c].step # "open" => UNCHANGED events
         /\ \A i \in DOMAIN events: i \in DOMAIN events' /\ events'[i] = events[i]
         /\ \A i \in DOMAIN events': i \in DOMAIN events
              \/ events'[i].type \in {"session.state.changed", "session.exited"}
<1> DEFINE e == [type |-> "session.state.changed", turn |-> None]
           x == [type |-> "session.exited", turn |-> None]
<1>1. /\ call[c].step # "open" => UNCHANGED events
      /\ events' \in {events, Append(events, e), Append(Append(events, e), x)}
  BY DEF CallFails
<1>2. e \in EventType /\ x \in EventType  BY DEF EventType, SomeTurn
<1>3. e.type = "session.state.changed" /\ x.type = "session.exited"  OBVIOUS
<1> HIDE DEF e, x
<1> DEFINE one == Append(events, e)  two == Append(one, x)
<1>4. /\ one \in Seq(EventType) /\ Len(one) = Len(events) + 1 /\ Len(events) \in Nat
      /\ DOMAIN events = 1 .. Len(events) /\ DOMAIN one = 1 .. Len(events) + 1
      /\ one[Len(events) + 1] = e /\ \A i \in DOMAIN events: one[i] = events[i]
  BY <1>2, AppendProperties, LenProperties DEF QueuesTyped
<1> HIDE DEF one
<1>5. /\ two \in Seq(EventType) /\ DOMAIN two = 1 .. Len(events) + 2
      /\ two[Len(events) + 2] = x /\ \A i \in 1 .. Len(events) + 1: two[i] = one[i]
  BY <1>2, <1>4, AppendProperties, LenProperties
<1>6. events' \in {events, one, two}  BY <1>1 DEF one
<1> HIDE DEF two
<1>7. CASE events' = events  BY <1>1, <1>7 DEF QueuesTyped
<1>8. CASE events' = one  BY <1>1, <1>3, <1>4, <1>8
<1>9. CASE events' = two  BY <1>1, <1>3, <1>4, <1>5, <1>9
<1> QED  BY <1>6, <1>7, <1>8, <1>9

LEMMA CallFailsInv == ASSUME Inv, NEW c \in Caller, CallFails(c) PROVE Inv'
<1> USE DEF Inv
<1>1. /\ Abandon(c, 1)
      /\ lock' = IF lock = c THEN None ELSE lock
      /\ UNCHANGED <<th, binding, requests, seen>>
  BY DEF CallFails
<1>2. AdapterTyped'
  <2>1. adapter' \in {adapter, [adapter EXCEPT !.unrecorded = TRUE]}  BY DEF CallFails
  <2> QED  BY <2>1 DEF AdapterTyped, Adapter
<1>3. /\ CallsTyped' /\ OutcomeTyped' /\ CountTyped' /\ call'[c].step = "idle"
      /\ \A d \in Caller \ {c}: call'[d] = call[d]
  BY <1>1, AbandonTyped
<1>4. OneOpens'  BY <1>1, <1>3, NoneAssumption DEF OneOpens
<1>5. Bound'  BY <1>1, <1>3, StaysBound
<1>6. QueuesTyped'  BY <1>1, FailedStartEvents DEF QueuesTyped
<1> QED
  BY <1>1, <1>2, <1>3, <1>4, <1>5, <1>6 DEF ThreadTyped, BindingTyped, SeenTyped

LEMMA RecordSessionInv == ASSUME Inv, NEW c \in Caller, RecordSession(c) PROVE Inv'
<1> USE DEF Inv
<1>1. /\ call[c].step = "record"
      /\ Goto(c, IF call[c].bind THEN "bind" ELSE "deliver")
      /\ UNCHANGED <<th, adapter, lock, requests, events, seen, outcome, count>>
  BY DEF RecordSession
<1>2. BindingTyped' /\ binding' \in Binding
  <2>1. call[c].mode \in SomeMode  BY DEF CallsTyped, Call
  <2>2. \/ binding = None
        \/ binding # None /\ binding.cursor \in BOOLEAN
    BY DEF BindingTyped, Binding
  <2> QED  BY <2>1, <2>2 DEF RecordSession, BindingTyped, Binding, SomeMode
<1>3. /\ CallsTyped' /\ call'[c].step # "open"
      /\ \A d \in Caller \ {c}: call'[d] = call[d]
  <2> DEFINE next == IF call[c].bind THEN "bind" ELSE "deliver"
  <2>1. next \in Steps /\ next # "open"  BY DEF Steps
  <2> HIDE DEF next
  <2>2. Goto(c, next)  BY <1>1 DEF next
  <2> QED  BY <2>1, <2>2, GotoTyped
<1>4. OneOpens'  BY <1>1, <1>3, OthersOpen
<1>5. Bound'  BY <1>1, <1>2, <1>3, StaysBound
<1> QED
  BY <1>1, <1>2, <1>3, <1>4, <1>5 DEF ThreadTyped, AdapterTyped, QueuesTyped, SeenTyped,
     OutcomeTyped, CountTyped

LEMMA BindSessionInv == ASSUME Inv, NEW c \in Caller, BindSession(c) PROVE Inv'
<1> USE DEF Inv
<1>1. /\ call[c].step = "bind" /\ (Goto(c, "resolve") \/ Finish(c))
      /\ UNCHANGED <<binding, adapter, lock, requests, events, seen, outcome, count>>
  BY DEF BindSession
<1>2. ThreadTyped'
  <2>1. call[c].mode \in SomeMode  BY DEF CallsTyped, Call
  <2> QED  BY <2>1 DEF BindSession, ThreadTyped, Session, Status, SomeTurn, SomeMode
<1>3. /\ CallsTyped' /\ call'[c].step \in {"idle", "resolve"}
      /\ \A d \in Caller \ {c}: call'[d] = call[d]
  BY <1>1, GotoTyped, FinishTyped DEF Steps
<1>4. OneOpens'  BY <1>1, <1>3, OthersOpen
<1>5. Bound'  BY <1>1, <1>3, StaysBound
<1> QED
  BY <1>1, <1>2, <1>3, <1>4, <1>5 DEF AdapterTyped, BindingTyped, QueuesTyped, SeenTyped,
     OutcomeTyped, CountTyped

LEMMA DeliverTurnInv == ASSUME Inv, NEW c \in Caller, DeliverTurn(c) PROVE Inv'
<1> USE DEF Inv
<1>1. /\ call[c].step = "deliver"
      /\ UNCHANGED <<th, binding, lock, requests, events, seen>>
  BY DEF DeliverTurn
<1>2. CASE adapter.alive
  <2>1. /\ adapter' = [adapter EXCEPT !.queue = Append(@, call[c].turn)]
        /\ outcome' = [outcome EXCEPT ![call[c].turn] = "sent"] /\ Goto(c, "note")
        /\ UNCHANGED count
    BY <1>2 DEF DeliverTurn
  <2>2. call[c].turn \in SomeTurn  BY DEF CallsTyped, Call
  <2>3. AdapterTyped'
    <3>1. adapter.queue \in Seq(SomeTurn)  BY DEF AdapterTyped, Adapter
    <3>2. Append(adapter.queue, call[c].turn) \in Seq(SomeTurn)
      BY <2>2, <3>1, AppendProperties
    <3> QED  BY <2>1, <3>2 DEF AdapterTyped, Adapter
  <2>4. OutcomeTyped'  BY <2>1 DEF OutcomeTyped, Outcome
  <2>5. /\ CallsTyped' /\ call'[c].step = "note"
        /\ \A d \in Caller \ {c}: call'[d] = call[d]
    BY <2>1, GotoTyped DEF Steps
  <2>6. OneOpens'  BY <1>1, <2>5, OthersOpen
  <2>7. Bound'  BY <1>1, <2>5, StaysBound DEF Bound
  <2> QED
    BY <1>1, <2>1, <2>3, <2>4, <2>5, <2>6, <2>7 DEF ThreadTyped, BindingTyped, QueuesTyped,
       SeenTyped, CountTyped
<1>3. CASE ~adapter.alive
  <2>1. Abandon(c, 0) /\ UNCHANGED adapter  BY <1>3 DEF DeliverTurn
  <2>2. /\ CallsTyped' /\ OutcomeTyped' /\ CountTyped' /\ call'[c].step = "idle"
        /\ \A d \in Caller \ {c}: call'[d] = call[d]
    BY <2>1, AbandonTyped
  <2>3. OneOpens'  BY <1>1, <2>2, OthersOpen
  <2>4. Bound'  BY <1>1, <2>2, StaysBound
  <2> QED
    BY <1>1, <2>1, <2>2, <2>3, <2>4 DEF ThreadTyped, AdapterTyped, BindingTyped, QueuesTyped,
       SeenTyped
<1> QED  BY <1>2, <1>3

LEMMA DeliverOtherInv == ASSUME Inv, NEW c \in Caller, DeliverOther(c) PROVE Inv'
<1> USE DEF Inv
<1>1. /\ call[c].step = "deliver" /\ Finish(c)
      /\ UNCHANGED <<th, binding, lock, requests, seen, outcome, count>>
  BY DEF DeliverOther
<1>2. AdapterTyped' /\ QueuesTyped'
  <2>1. CASE UNCHANGED <<adapter, events>>
    BY <1>1, <2>1 DEF AdapterTyped, QueuesTyped
  <2>2. CASE ~UNCHANGED <<adapter, events>>
    <3>1. /\ adapter' = [adapter EXCEPT !.running = None]
          /\ events' = Append(events, [type |-> "turn.completed", turn |-> adapter.running])
      BY <2>2 DEF DeliverOther
    <3>2. AdapterTyped' /\ adapter.running \in SomeTurn
      BY <3>1 DEF AdapterTyped, Adapter, SomeTurn
    <3>3. [type |-> "turn.completed", turn |-> adapter.running] \in EventType
      BY <3>2 DEF EventType, SomeTurn
    <3> QED  BY <1>1, <3>1, <3>2, <3>3, EventTyped
  <2> QED  BY <2>1, <2>2
<1>3. /\ CallsTyped' /\ call'[c].step = "idle"
      /\ \A d \in Caller \ {c}: call'[d] = call[d]
  BY <1>1, FinishTyped
<1>4. OneOpens'  BY <1>1, <1>3, OthersOpen
<1>5. Bound'  BY <1>1, <1>3, StaysBound
<1> QED
  BY <1>1, <1>2, <1>3, <1>4, <1>5 DEF ThreadTyped, BindingTyped, SeenTyped, OutcomeTyped, CountTyped

LEMMA NoteTurnInv == ASSUME Inv, NEW c \in Caller, NoteTurn(c) PROVE Inv'
<1> USE DEF Inv
<1>1. /\ call[c].step = "note" /\ Finish(c)
      /\ UNCHANGED <<th, adapter, lock, requests, events, seen, outcome, count>>
  BY DEF NoteTurn
<1>2. binding' = [binding EXCEPT !.status = "running", !.cursor = TRUE, !.idle = FALSE]
  BY DEF NoteTurn
<1>3. /\ CallsTyped' /\ call'[c].step = "idle"
      /\ \A d \in Caller \ {c}: call'[d] = call[d]
  BY <1>1, FinishTyped
<1>4. OneOpens'  BY <1>1, <1>3, OthersOpen
<1>5. BindingTyped' /\ binding' \in Binding
  <2>1. binding \in Binding  BY <1>1 DEF Bound
  <2> QED  BY <1>2, <2>1 DEF BindingTyped, Binding
<1>6. Bound'  BY <1>3, <1>5, StaysBound
<1> QED
  BY <1>1, <1>3, <1>4, <1>5, <1>6 DEF ThreadTyped, AdapterTyped, QueuesTyped, SeenTyped,
     OutcomeTyped, CountTyped
LEMMA CheckSessionInv == ASSUME Inv, NEW c \in Caller, CheckSession(c) PROVE Inv'
<1> USE DEF Inv
<1>1. /\ call[c].step = "halt"
      /\ UNCHANGED <<th, binding, adapter, lock, requests, events, seen, outcome, count>>
  BY DEF CheckSession
<1>2. /\ CallsTyped'
      /\ \/ call'[c].step = "idle"
         \/ call'[c].step \in {"halting", "unbind"} /\ binding \in Binding
      /\ \A d \in Caller \ {c}: call'[d] = call[d]
  <2>1. CASE binding = None  BY <2>1, FinishTyped DEF CheckSession
  <2>2. CASE binding # None
    <3>1. Goto(c, "halting") \/ Goto(c, "unbind")  BY <2>2 DEF CheckSession
    <3>2. binding \in Binding  BY <2>2 DEF BindingTyped
    <3> QED  BY <3>1, <3>2, GotoTyped DEF Steps
  <2> QED  BY <2>1, <2>2
<1>3. OneOpens'  BY <1>1, <1>2, OthersOpen
<1>4. Bound'  BY <1>1, <1>2, StaysBound
<1> QED
  BY <1>1, <1>2, <1>3, <1>4 DEF ThreadTyped, AdapterTyped, BindingTyped, QueuesTyped,
     SeenTyped, OutcomeTyped, CountTyped

LEMMA StopEntryInv == ASSUME Inv, NEW c \in Caller, StopEntry(c) PROVE Inv'
<1> USE DEF Inv
<1>1. /\ call[c].step = "halting" /\ Goto(c, "unbind")
      /\ UNCHANGED <<th, binding, lock, requests, seen, outcome>>
  BY DEF StopEntry
<1>2. AdapterTyped' /\ QueuesTyped' /\ CountTyped'
  BY CloseTyped DEF StopEntry
<1>3. /\ CallsTyped' /\ call'[c].step = "unbind"
      /\ \A d \in Caller \ {c}: call'[d] = call[d]
  BY <1>1, GotoTyped DEF Steps
<1>4. OneOpens'  BY <1>1, <1>3, OthersOpen
<1>5. Bound'  BY <1>1, <1>3, StaysBound DEF Bound
<1> QED
  BY <1>1, <1>2, <1>3, <1>4, <1>5 DEF ThreadTyped, BindingTyped, SeenTyped, OutcomeTyped

LEMMA UnbindInv == ASSUME Inv, NEW c \in Caller, Unbind(c) PROVE Inv'
<1> USE DEF Inv
<1>1. /\ call[c].step = "unbind" /\ (Goto(c, "halted") \/ Finish(c))
      /\ binding' = [binding EXCEPT !.status = "stopped", !.idle = FALSE]
      /\ UNCHANGED <<th, adapter, lock, requests, events, seen, outcome, count>>
  BY DEF Unbind
<1>2. /\ CallsTyped' /\ call'[c].step \in {"idle", "halted"}
      /\ \A d \in Caller \ {c}: call'[d] = call[d]
  BY <1>1, GotoTyped, FinishTyped DEF Steps
<1>3. BindingTyped' /\ binding' \in Binding
  <2>1. binding \in Binding  BY <1>1 DEF Bound
  <2> QED  BY <1>1, <2>1 DEF BindingTyped, Binding
<1>4. OneOpens'  BY <1>1, <1>2, OthersOpen
<1>5. Bound'  BY <1>2, <1>3, StaysBound
<1> QED
  BY <1>1, <1>2, <1>3, <1>4, <1>5 DEF ThreadTyped, AdapterTyped, QueuesTyped, SeenTyped,
     OutcomeTyped, CountTyped

LEMMA ShowStoppedInv == ASSUME Inv, ShowStopped PROVE Inv'
<1> USE DEF Inv
<1>1. /\ "commands" \in Caller /\ call["commands"].step = "halted" /\ Finish("commands")
      /\ UNCHANGED <<binding, adapter, lock, requests, events, seen, outcome, count>>
  BY DEF ShowStopped
<1>2. ThreadTyped'
  <2>1. call["commands"].mode \in SomeMode  BY <1>1 DEF CallsTyped, Call
  <2> QED  BY <2>1 DEF ShowStopped, ThreadTyped, Session, Status, SomeTurn, SomeMode
<1>3. /\ CallsTyped' /\ call'["commands"].step = "idle"
      /\ \A d \in Caller \ {"commands"}: call'[d] = call[d]
  BY <1>1, FinishTyped
<1>4. OneOpens'  BY <1>1, <1>3, OthersOpen
<1>5. Bound'  BY <1>1, <1>3, StaysBound
<1> QED
  BY <1>1, <1>2, <1>3, <1>4, <1>5 DEF AdapterTyped, BindingTyped, QueuesTyped, SeenTyped,
     OutcomeTyped, CountTyped

LEMMA OtherCallersInv == ASSUME Inv, RollBack \/ Sweep PROVE Inv'
<1> USE DEF Inv
<1>1. /\ CountTyped'
      /\ UNCHANGED <<th, binding, adapter, lock, requests, events, seen, outcome>>
  BY HappensTyped DEF RollBack, Sweep, Kinds
<1>2. ASSUME NEW c \in Caller, call[c].step = "idle", NEW s \in {"resolve", "halt"},
             NEW task \in {"rollback", "reap"},
             Begin(c, s, [task |-> task, turn |-> None], None, FALSE)
      PROVE  CallsTyped' /\ OneOpens' /\ Bound'
  <2> DEFINE r == [task |-> task, turn |-> None]
  <2>1. s \in Steps /\ None \in SomeMode /\ r.task \in Tasks /\ r.turn \in SomeTurn
    BY DEF Steps, SomeMode, SomeTurn, Tasks
  <2>2. Begin(c, s, r, None, FALSE)  BY <1>2
  <2> HIDE DEF r
  <2>3. /\ CallsTyped' /\ call'[c].step = s /\ \A d \in Caller \ {c}: call'[d] = call[d]
    BY <2>1, <2>2, BeginTyped
  <2>4. OneOpens'  BY <1>1, <1>2, <2>3, OthersOpen
  <2>5. Bound'  BY <1>1, <2>3, StaysBound
  <2> QED  BY <2>3, <2>4, <2>5
<1>3. CallsTyped' /\ OneOpens' /\ Bound'
  BY <1>2 DEF RollBack, Sweep
<1> QED
  BY <1>1, <1>3 DEF ThreadTyped, AdapterTyped, BindingTyped, QueuesTyped, SeenTyped,
     OutcomeTyped

LEMMA BecomeIdleInv == ASSUME Inv, BecomeIdle PROVE Inv'
<1> USE DEF Inv
<1>1. /\ binding \in Binding /\ binding' = [binding EXCEPT !.idle = TRUE]
      /\ UNCHANGED <<th, adapter, lock, call, requests, events, seen, outcome, count>>
  BY DEF BecomeIdle, BindingTyped
<1>2. binding' \in Binding  BY <1>1 DEF Binding
<1> QED
  BY <1>1, <1>2 DEF ThreadTyped, AdapterTyped, BindingTyped, CallsTyped, QueuesTyped,
     SeenTyped, OutcomeTyped, CountTyped, OneOpens, Bound

(****************************** The ingestion ******************************)
LEMMA IngestInv == ASSUME Inv, Ingest PROVE Inv'
<1> USE DEF Inv
<1>1. Head(events) \in EventType /\ events' \in Seq(EventType)
  BY HeadTailProperties DEF Ingest, QueuesTyped
<1>2. SeenTyped'  BY <1>1 DEF Ingest, SeenTyped, ThreadTyped
<1> QED
  BY <1>1, <1>2 DEF Ingest, ThreadTyped, AdapterTyped, BindingTyped, CallsTyped, QueuesTyped,
     OutcomeTyped, CountTyped, OneOpens, Bound

LEMMA IngestDispatchInv == ASSUME Inv, IngestDispatch PROVE Inv'
<1> USE DEF Inv
<1>1. /\ seen \in [event: EventType, session: Session] /\ seen' = None
      /\ UNCHANGED <<binding, adapter, lock, call, requests, events, outcome, count>>
  BY DEF IngestDispatch, SeenTyped
<1>2. NextTurn \in SomeTurn
  BY <1>1 DEF NextTurn, EventType, Session, SomeTurn
<1>3. NextStatus \in Status
  BY <1>1 DEF NextStatus, Status
<1>4. ThreadTyped'
  <2> DEFINE mode == IF seen.session.mode = None THEN DefaultMode ELSE seen.session.mode
  <2>1. mode \in SomeMode  BY <1>1, ModeAssumption DEF Session, SomeMode
  <2>2. \/ th' = th
        \/ th' = [th EXCEPT !.session = [status |-> NextStatus, turn |-> NextTurn,
                                         mode |-> mode]]
    BY DEF IngestDispatch
  <2> HIDE DEF mode
  <2> QED  BY <1>2, <1>3, <2>1, <2>2 DEF ThreadTyped, Session, Status, SomeMode, SomeTurn
<1> QED
  BY <1>1, <1>4 DEF AdapterTyped, BindingTyped, CallsTyped, QueuesTyped, SeenTyped,
     OutcomeTyped, CountTyped, OneOpens, Bound

LEMMA RestartInv == ASSUME Inv, Restart PROVE Inv'
<1> USE DEF Inv
<1>1. /\ adapter' = NoAdapter /\ lock' = None /\ call' = [c \in Caller |-> NoCall]
      /\ requests' = <<>> /\ events' = <<>> /\ seen' = None /\ UNCHANGED th
  BY DEF Restart
<1>2. CountTyped'  BY HappensTyped DEF Restart, Kinds
<1>3. BindingTyped'
  <2>1. \/ binding' = binding
        \/ /\ binding \in Binding
           /\ binding' = [binding EXCEPT !.status = "stopped", !.idle = FALSE]
    BY DEF Restart, BindingTyped
  <2> QED  BY <2>1 DEF BindingTyped, Binding
<1>4. OutcomeTyped'  BY DEF Restart, OutcomeTyped, Outcome
<1>5. CallsTyped' /\ OneOpens' /\ Bound'
  BY <1>1, NoneAssumption DEF CallsTyped, OneOpens, Bound, NoCall, Call, Steps, SomeMode,
     SomeTurn
<1>6. AdapterTyped' /\ QueuesTyped' /\ SeenTyped' /\ ThreadTyped'
  BY <1>1, NoAdapterTyped, EmptySeq DEF AdapterTyped, QueuesTyped, SeenTyped, ThreadTyped
<1> QED  BY <1>2, <1>3, <1>4, <1>5, <1>6

(******************************* The theorems ******************************)
LEMMA StepInv == ASSUME Inv, [Next]_vars PROVE Inv'
<1>1. CASE AskTurn \/ (\E m \in Mode: SetMode(m)) \/ AskStop \/ AskInterrupt
  BY <1>1, UserInv
<1>2. CASE StartTurn \/ EndTurn \/ ExitProcess \/ ReportError
  BY <1>2, ProviderInv
<1>3. CASE TakeRequest  BY <1>3, TakeRequestInv
<1>4. ASSUME NEW c \in Caller, ServiceStep(c) PROVE Inv'
  BY <1>4, ResolveInv, CloseStaleInv, OpenSessionInv, CallFailsInv, RecordSessionInv,
     BindSessionInv, DeliverTurnInv, DeliverOtherInv, NoteTurnInv, CheckSessionInv,
     StopEntryInv, UnbindInv DEF ServiceStep
<1>5. CASE ShowStopped  BY <1>5, ShowStoppedInv
<1>6. CASE RollBack \/ Sweep  BY <1>6, OtherCallersInv
<1>7. CASE BecomeIdle  BY <1>7, BecomeIdleInv
<1>8. CASE Ingest  BY <1>8, IngestInv
<1>9. CASE IngestDispatch  BY <1>9, IngestDispatchInv
<1>10. CASE Restart  BY <1>10, RestartInv
<1>11. CASE UNCHANGED vars
  BY <1>11 DEF vars, Inv, ThreadTyped, AdapterTyped, BindingTyped, CallsTyped, QueuesTyped,
     SeenTyped, OutcomeTyped, CountTyped, OneOpens, Bound
<1> QED
  BY <1>1, <1>2, <1>3, <1>4, <1>5, <1>6, <1>7, <1>8, <1>9, <1>10, <1>11 DEF Next

LEMMA Invariance == Spec => []Inv
<1> QED  BY InitInv, StepInv, PTL DEF Spec

(* The session of a thread is well typed and whoever opens one in the        *)
(* adapter holds its lock, so that of the command reactor, the checkpoint    *)
(* reactor and the reaper at most one opens a session at a time, whatever    *)
(* fails or restarts in between (CodexAdapter.ts:1418-1530).                 *)
THEOREM SessionsTypeCorrect == Spec => []TypeOK
<1>1. Inv => TypeOK
  BY DEF Inv, TypeOK, ThreadTyped, Session, Status, SomeMode, SomeTurn, AdapterTyped, Adapter,
     OutcomeTyped, Outcome, OneOpens
<1> QED  BY <1>1, Invariance, PTL

(* A call that goes on to deliver a turn or to unbind a session never finds  *)
(* the directory without the thread (ProviderService.ts:465-476, 630-643).   *)
THEOREM CallsAreBound == Spec => []Bound
<1>1. Inv => Bound  BY DEF Inv
<1> QED  BY <1>1, Invariance, PTL

(************************* What the callers may do *************************)
(* Only the command reactor binds a session or delivers a turn.              *)
Roles == \A c \in Caller: /\ call[c].bind => c = "commands"
                          /\ call[c].step = "bind" => call[c].bind
                          /\ call[c].step # "idle" /\ call[c].task = "turn" => c = "commands"
                          /\ call[c].step = "idle" => call[c] = NoCall

LEMMA GotoRoles ==
  ASSUME CallsTyped, Roles, NEW c \in Caller, NEW s, Goto(c, s), s # "idle",
         call[c].step # "idle",
         s = "bind" => call[c].bind
  PROVE  Roles'
BY DEF CallsTyped, Call, Roles, Goto, NoCall

LEMMA FinishRoles == ASSUME CallsTyped, Roles, NEW c \in Caller, Finish(c) PROVE Roles'
BY DEF CallsTyped, Call, Roles, Finish, NoCall

LEMMA BeginRoles ==
  ASSUME CallsTyped, Roles, NEW c \in Caller, NEW s, NEW r, NEW m, NEW b \in BOOLEAN,
         Begin(c, s, r, m, b),
         s \notin {"idle", "bind"}, b \/ r.task = "turn" => c = "commands"
  PROVE  Roles'
BY DEF CallsTyped, Call, Roles, Begin, NoCall

LEMMA RolesStep == ASSUME Inv, Roles, [Next]_vars PROVE Roles'
<1> USE DEF Inv
<1>1. CASE UNCHANGED call  BY <1>1 DEF Roles
<1>2. CASE TakeRequest \/ ShowStopped
  <2> DEFINE r == Head(requests)
  <2>1. "commands" \in Caller  OBVIOUS
  <2>2. CASE ShowStopped  BY <2>1, <2>2, FinishRoles DEF ShowStopped
  <2>3. CASE TakeRequest
    <3>1. r \in RequestType /\ th.mode \in SomeMode /\ th.session.mode \in SomeMode
          /\ None \in SomeMode
      BY <2>3, HeadTailProperties DEF TakeRequest, QueuesTyped, SomeMode, ThreadTyped, Session
    <3>2. \/ Finish("commands")
          \/ \E s \in {"resolve", "close", "halt", "halted"}, m \in SomeMode, b \in BOOLEAN:
               Begin("commands", s, r, m, b)
      BY <2>3, <3>1 DEF TakeRequest, EnsureSession, RequestType
    <3>3. CASE Finish("commands")  BY <2>1, <3>3, FinishRoles
    <3>4. ASSUME NEW s \in {"resolve", "close", "halt", "halted"}, NEW m \in SomeMode,
                 NEW b \in BOOLEAN, Begin("commands", s, r, m, b)
          PROVE  Roles'
      BY <2>1, <3>4, BeginRoles
    <3> QED  BY <3>2, <3>3, <3>4
  <2> QED  BY <1>2, <2>2, <2>3
<1>3. ASSUME NEW c \in Caller, ServiceStep(c) PROVE Roles'
  <2>1. CASE Finish(c)  BY <2>1, FinishRoles
  <2>0. call[c].step # "idle"
    BY <1>3 DEF ServiceStep, Resolve, CloseStale, OpenSession, CallFails, RecordSession,
       BindSession, DeliverTurn, DeliverOther, NoteTurn, CheckSession, StopEntry, Unbind
  <2>2. CASE \E s \in Steps \ {"idle", "bind"}: Goto(c, s)  BY <2>0, <2>2, GotoRoles
  <2>3. CASE RecordSession(c)
    BY <2>0, <2>3, GotoRoles DEF RecordSession
  <2>4. CASE call' = [call EXCEPT ![c].step = "close", ![c].mode = binding.mode]
    BY <2>0, <2>4 DEF CallsTyped, Call, Roles, NoCall
  <2>5. CASE Resolve(c)
    BY <2>1, <2>2, <2>4, <2>5 DEF Resolve, Abandon, Goto, Steps
  <2>6. CASE CloseStale(c) \/ OpenSession(c)  BY <2>2, <2>6 DEF CloseStale, OpenSession, Steps
  <2>7. CASE CallFails(c)  BY <2>1, <2>7 DEF CallFails, Abandon
  <2>8. CASE BindSession(c)  BY <2>1, <2>2, <2>8 DEF BindSession, Steps
  <2>9. CASE DeliverTurn(c)  BY <2>1, <2>2, <2>9 DEF DeliverTurn, Abandon, Steps
  <2>10. CASE DeliverOther(c) \/ NoteTurn(c)  BY <2>1, <2>10 DEF DeliverOther, NoteTurn
  <2>11. CASE CheckSession(c) \/ StopEntry(c) \/ Unbind(c)
    BY <2>1, <2>2, <2>11 DEF CheckSession, StopEntry, Unbind, Steps
  <2> QED
    BY <1>3, <2>3, <2>5, <2>6, <2>7, <2>8, <2>9, <2>10, <2>11 DEF ServiceStep
<1>4. CASE RollBack \/ Sweep
  <2>1. \/ Begin("checkpoints", "resolve", [task |-> "rollback", turn |-> None], None, FALSE)
        \/ Begin("reaper", "halt", [task |-> "reap", turn |-> None], None, FALSE)
    BY <1>4 DEF RollBack, Sweep
  <2> DEFINE rollback == [task |-> "rollback", turn |-> None]
             reap == [task |-> "reap", turn |-> None]
  <2>2. rollback.task # "turn" /\ reap.task # "turn"  OBVIOUS
  <2>3. Begin("checkpoints", "resolve", rollback, None, FALSE)
        \/ Begin("reaper", "halt", reap, None, FALSE)
    BY <2>1
  <2> HIDE DEF rollback, reap
  <2>4. ASSUME NEW c \in Caller, NEW s \in {"resolve", "halt"}, NEW r, r.task # "turn",
               Begin(c, s, r, None, FALSE)
        PROVE  Roles'
    BY <2>4, BeginRoles
  <2> QED  BY <2>2, <2>3, <2>4
<1>5. CASE Restart  BY <1>5 DEF Restart, Roles, NoCall
<1> QED
  BY <1>1, <1>2, <1>3, <1>4, <1>5 DEF Next, vars, AskTurn, SetMode, AskStop, AskInterrupt,
     StartTurn, EndTurn, ExitProcess, ReportError, BecomeIdle, Ingest, IngestDispatch

(* A session that was just opened has no turn yet when the thread is bound   *)
(* to it, and nothing runs without a process.                                *)
Processes == /\ ~adapter.alive => adapter.running = None /\ adapter.queue = <<>>
             /\ lock # None => ~adapter.entry
FreshSession == call["commands"].step \in {"record", "bind"} =>
                  adapter.queue = <<>> /\ adapter.running = None

(* Without a request to stop the command reactor never shows the thread as   *)
(* stopped.                                                                  *)
NobodyStops == count.stops = 0 =>
  /\ \A i \in DOMAIN requests: requests[i].task # "stop"
  /\ call["commands"].step \notin {"halt", "halting", "unbind", "halted"}

LEMMA AppendElements ==
  ASSUME NEW S, NEW s \in Seq(S), NEW x \in S, NEW s1, s1 = Append(s, x)
  PROVE  /\ DOMAIN s = 1 .. Len(s) /\ DOMAIN s1 = 1 .. Len(s) + 1 /\ Len(s) \in Nat
         /\ s1[Len(s) + 1] = x /\ \A i \in DOMAIN s: s1[i] = s[i]
BY AppendProperties, LenProperties

LEMMA TailElements ==
  ASSUME NEW S, NEW s \in Seq(S), s # <<>>
  PROVE  /\ DOMAIN s = 1 .. Len(s) /\ DOMAIN Tail(s) = 1 .. Len(s) - 1 /\ Len(s) \in Nat \ {0}
         /\ Head(s) = s[1] /\ Head(s) \in S /\ Tail(s) \in Seq(S)
         /\ \A i \in 1 .. Len(s) - 1: Tail(s)[i] = s[i + 1]
BY HeadTailProperties, LenProperties, EmptySeq

(* Which steps lead to which place of a call.                                *)
LEMMA CallStep ==
  ASSUME Inv, NEW c \in Caller, ServiceStep(c)
  PROVE  /\ \A d \in Caller \ {c}: call'[d] = call[d]
         /\ call'[c].step # "halt"
         /\ call'[c].step = "record"  => OpenSession(c)
         /\ call'[c].step = "bind"    => RecordSession(c)
         /\ call'[c].step = "halting" => CheckSession(c)
         /\ call'[c].step = "unbind"  => CheckSession(c) \/ StopEntry(c)
         /\ call'[c].step = "halted"  => Unbind(c)
<1> USE DEF Inv
<1>1. CASE Finish(c)  BY <1>1, FinishTyped
<1>2. ASSUME NEW s \in Steps, Goto(c, s)
      PROVE  call'[c].step = s /\ \A d \in Caller \ {c}: call'[d] = call[d]
  BY <1>2, GotoTyped
<1>3. CASE Resolve(c)
  BY <1>1, <1>3 DEF Resolve, Abandon, CallsTyped, Call
<1>4. CASE CloseStale(c) \/ OpenSession(c)
  BY <1>2, <1>4 DEF CloseStale, OpenSession, Steps
<1>5. CASE RecordSession(c)
  <2> DEFINE s == IF call[c].bind THEN "bind" ELSE "deliver"
  <2>1. s \in Steps /\ s \in {"bind", "deliver"}  BY DEF Steps
  <2>2. Goto(c, s)  BY <1>5 DEF RecordSession
  <2> HIDE DEF s
  <2> QED  BY <1>2, <1>5, <2>1, <2>2
<1>6. CASE CallFails(c) \/ DeliverOther(c) \/ NoteTurn(c)
  BY <1>1, <1>6 DEF CallFails, DeliverOther, NoteTurn, Abandon
<1>7. CASE BindSession(c)
  BY <1>1, <1>2, <1>7 DEF BindSession, Steps
<1>8. CASE DeliverTurn(c)
  BY <1>1, <1>2, <1>8 DEF DeliverTurn, Abandon, Steps
<1>9. CASE StopEntry(c)
  BY <1>2, <1>9 DEF StopEntry, Steps
<1>10. CASE CheckSession(c)
  BY <1>1, <1>2, <1>10 DEF CheckSession, Steps
<1>11. CASE Unbind(c)
  BY <1>1, <1>2, <1>11 DEF Unbind, Steps
<1> QED
  BY <1>3, <1>4, <1>5, <1>6, <1>7, <1>8, <1>9, <1>10, <1>11 DEF ServiceStep

LEMMA TakeRequestStep ==
  ASSUME Inv, TakeRequest
  PROVE  /\ call'["commands"].step \in {"idle", "resolve", "close", "halt", "halted"}
         /\ call'["commands"].step \in {"halt", "halted"} => Head(requests).task = "stop"
         /\ \A d \in Caller \ {"commands"}: call'[d] = call[d]
<1> DEFINE r == Head(requests)
<1> USE DEF Inv
<1>1. r.task \in {"turn", "mode", "interrupt", "stop"}
  <2>1. r \in RequestType  BY HeadTailProperties DEF TakeRequest, QueuesTyped
  <2> QED  BY <2>1 DEF RequestType
<1>2. ASSUME NEW s, NEW m, NEW b \in BOOLEAN, Begin("commands", s, r, m, b)
      PROVE  call'["commands"].step = s /\ \A d \in Caller \ {"commands"}: call'[d] = call[d]
  BY <1>2 DEF Begin, CallsTyped
<1>3. CASE Finish("commands")  BY <1>3, FinishTyped
<1>4. CASE r.task \in {"turn", "mode"}
  <2>1. \/ Finish("commands") \/ Begin("commands", "resolve", r, None, FALSE)
        \/ Begin("commands", "close", r, th.mode, TRUE)
    BY <1>4 DEF TakeRequest, EnsureSession
  <2> QED  BY <2>1 DEF Begin, Finish, CallsTyped, NoCall
<1>5. CASE r.task = "interrupt"
  <2>1. Finish("commands") \/ Begin("commands", "resolve", r, None, FALSE)
    BY <1>5 DEF TakeRequest
  <2> QED  BY <2>1 DEF Begin, Finish, CallsTyped, NoCall
<1>6. CASE r.task = "stop"
  <2> DEFINE s == IF HasSession THEN "halt" ELSE "halted"
  <2>1. Begin("commands", s, r, th.session.mode, FALSE)
    BY <1>6 DEF TakeRequest
  <2>2. s \in {"halt", "halted"}  OBVIOUS
  <2> HIDE DEF s
  <2> QED  BY <1>2, <1>6, <2>1, <2>2
<1> QED  BY <1>1, <1>4, <1>5, <1>6

LEMMA CloseStep ==
  ASSUME AdapterTyped, Processes,
         IF adapter.entry THEN CloseEntry ELSE UNCHANGED <<adapter, events, count>>
  PROVE  adapter'.queue = <<>> /\ adapter'.running = None /\ ~adapter'.entry /\ ~adapter'.alive
BY DEF AdapterTyped, Adapter, Processes, CloseEntry, NoAdapter

LEMMA ProcessesStep == ASSUME Inv, Processes, [Next]_vars PROVE Processes'
<1> USE DEF Inv
<1>1. CASE UNCHANGED <<adapter, lock>>  BY <1>1 DEF Processes
<1>2. CASE StartTurn \/ EndTurn \/ ExitProcess
  BY <1>2 DEF StartTurn, EndTurn, ExitProcess, Processes, AdapterTyped, Adapter, NoAdapter
<1>3. ASSUME NEW c \in Caller, ServiceStep(c) PROVE Processes'
  <2>1. CASE CloseStale(c)
    <3>1. IF adapter.entry THEN CloseEntry ELSE UNCHANGED <<adapter, events, count>>
      BY <2>1 DEF CloseStale
    <3> QED  BY <3>1, CloseStep DEF Processes
  <2>2. CASE OpenSession(c)  BY <2>2 DEF OpenSession, Processes, NoAdapter
  <2>3. CASE CallFails(c)  BY <2>3 DEF CallFails, Processes
  <2>4. CASE StopEntry(c)
    <3>1. IF adapter.entry THEN CloseEntry ELSE UNCHANGED <<adapter, events, count>>
      BY <2>4 DEF StopEntry
    <3> QED  BY <3>1, CloseStep DEF Processes
  <2>5. CASE DeliverTurn(c) \/ DeliverOther(c)
    BY <2>5 DEF DeliverTurn, DeliverOther, Processes, AdapterTyped, Adapter
  <2> QED
    BY <1>1, <1>3, <2>1, <2>2, <2>3, <2>4, <2>5 DEF ServiceStep, Resolve, RecordSession,
       BindSession, NoteTurn, CheckSession, Unbind
<1>4. CASE Restart  BY <1>4 DEF Restart, Processes, NoAdapter
<1> QED
  BY <1>1, <1>2, <1>3, <1>4 DEF Next, vars, AskTurn, SetMode, AskStop, AskInterrupt,
     ReportError, BecomeIdle, Ingest, IngestDispatch, TakeRequest, ShowStopped, RollBack, Sweep

LEMMA FreshSessionStep ==
  ASSUME Inv, Roles, Processes, FreshSession, [Next]_vars PROVE FreshSession'
<1> USE DEF Inv
<1>1. CASE UNCHANGED <<adapter, call>>  BY <1>1 DEF FreshSession
<1>2. CASE StartTurn \/ EndTurn \/ ExitProcess
  BY <1>2 DEF StartTurn, EndTurn, ExitProcess, FreshSession, AdapterTyped, Adapter, NoAdapter
<1>3. CASE TakeRequest \/ ShowStopped
  <2>1. adapter' = adapter  BY <1>3 DEF TakeRequest, ShowStopped
  <2>2. call'["commands"].step \notin {"record", "bind"}
    <3>1. CASE ShowStopped
      BY <3>1, FinishTyped DEF ShowStopped
    <3>2. CASE TakeRequest  BY <3>2, TakeRequestStep
    <3> QED  BY <1>3, <3>1, <3>2
  <2> QED  BY <2>1, <2>2 DEF FreshSession
<1>4. ASSUME NEW c \in Caller, ServiceStep(c) PROVE FreshSession'
  <2>1. CASE UNCHANGED adapter
    <3>1. CASE RecordSession(c)
      BY <2>1, <3>1 DEF RecordSession, FreshSession, Goto, CallsTyped, Call
    <3>2. CASE OpenSession(c)  BY <2>1, <3>2 DEF OpenSession, NoAdapter, FreshSession
    <3>3. CASE call'["commands"].step \notin {"record", "bind"}  BY <2>1, <3>3 DEF FreshSession
    <3>4. CASE c # "commands"  BY <1>4, <2>1, <3>4, CallStep DEF FreshSession
    <3> QED  BY <1>4, <3>1, <3>2, <3>3, <3>4, CallStep
  <2>2. CASE CloseStale(c)
    <3>1. IF adapter.entry THEN CloseEntry ELSE UNCHANGED <<adapter, events, count>>
      BY <2>2 DEF CloseStale
    <3> QED  BY <3>1, CloseStep DEF FreshSession
  <2>3. CASE OpenSession(c)  BY <2>3 DEF OpenSession, FreshSession, NoAdapter
  <2>4. CASE StopEntry(c)
    <3>1. IF adapter.entry THEN CloseEntry ELSE UNCHANGED <<adapter, events, count>>
      BY <2>4 DEF StopEntry
    <3> QED  BY <3>1, CloseStep DEF FreshSession
  <2>5. CASE DeliverTurn(c)
    <3>1. c = "commands" /\ (UNCHANGED adapter \/ Goto(c, "note"))
      BY <2>5 DEF DeliverTurn, Roles
    <3> QED  BY <2>1, <3>1 DEF FreshSession, Goto, CallsTyped, Call
  <2>6. CASE DeliverOther(c)
    BY <2>6 DEF DeliverOther, FreshSession, Finish, NoCall, CallsTyped, Call, AdapterTyped, Adapter
  <2>7. CASE CallFails(c)
    <3>1. adapter'.queue = adapter.queue /\ adapter'.running = adapter.running
      BY <2>7 DEF CallFails, AdapterTyped, Adapter
    <3>2. call'["commands"].step \in {"idle", call["commands"].step}
      BY <2>7, AbandonTyped DEF CallFails
    <3> QED  BY <3>1, <3>2 DEF FreshSession
  <2> QED
    BY <1>4, <2>1, <2>2, <2>3, <2>4, <2>5, <2>6, <2>7 DEF ServiceStep, Resolve, RecordSession,
       BindSession, NoteTurn, CheckSession, Unbind
<1>5. CASE RollBack \/ Sweep
  BY <1>5 DEF RollBack, Sweep, Begin, CallsTyped, FreshSession
<1>6. CASE Restart  BY <1>6 DEF Restart, FreshSession, NoAdapter
<1> QED
  BY <1>1, <1>2, <1>3, <1>4, <1>5, <1>6 DEF Next, vars, AskTurn, SetMode, AskStop, AskInterrupt,
     ReportError, BecomeIdle, Ingest, IngestDispatch

LEMMA CountStays ==
  ASSUME Inv, [Next]_vars PROVE \A k \in Kinds: count'[k] = 0 => count[k] = 0
<1> USE DEF Inv
<1>1. CASE UNCHANGED count  BY <1>1
<1>2. ASSUME NEW what \in Kinds, NEW max, Happens(what, max)
      PROVE  \A k \in Kinds: count'[k] = 0 => count[k] = 0
  BY <1>2 DEF Happens, HappensTimes, CountTyped
<1>3. CASE count' = [count EXCEPT !.lost = 1]  BY <1>3 DEF CountTyped, Kinds
<1>4. CASE AskTurn \/ (\E m \in Mode: SetMode(m)) \/ AskStop \/ AskInterrupt
  BY <1>2, <1>4 DEF AskTurn, SetMode, AskStop, AskInterrupt, Kinds
<1>5. CASE ExitProcess \/ RollBack \/ Sweep \/ Restart
  BY <1>2, <1>5 DEF ExitProcess, RollBack, Sweep, Restart, Kinds
<1>6. CASE ReportError
  <2>1. PICK t \in {adapter.running, None}:
          Happens(IF t = adapter.running THEN "errors" ELSE "strays", MaxErrors)
    BY <1>6 DEF ReportError
  <2>2. Happens("errors", MaxErrors) \/ Happens("strays", MaxErrors)  BY <2>1
  <2> QED  BY <1>2, <2>2 DEF Kinds
<1>7. ASSUME NEW c \in Caller, ServiceStep(c)
      PROVE  \A k \in Kinds: count'[k] = 0 => count[k] = 0
  <2>1. CASE Abandon(c, 0) \/ Abandon(c, 1)  BY <2>1, AbandonCounts
  <2>2. CASE CloseStale(c) \/ StopEntry(c)
    BY <1>1, <1>3, <2>2 DEF CloseStale, StopEntry, CloseEntry
  <2> QED
    BY <1>1, <1>7, <2>1, <2>2 DEF ServiceStep, Resolve, OpenSession, CallFails, RecordSession,
       BindSession, DeliverTurn, DeliverOther, NoteTurn, CheckSession, Unbind
<1> QED
  BY <1>1, <1>4, <1>5, <1>6, <1>7 DEF Next, vars, StartTurn, EndTurn, TakeRequest, ShowStopped,
     BecomeIdle, Ingest, IngestDispatch

LEMMA NobodyStopsStep ==
  ASSUME Inv, NobodyStops, [Next]_vars PROVE NobodyStops'
<1> USE DEF Inv
<1> SUFFICES ASSUME count'.stops = 0
             PROVE  /\ \A i \in DOMAIN requests': requests'[i].task # "stop"
                    /\ call'["commands"].step \notin {"halt", "halting", "unbind", "halted"}
  BY DEF NobodyStops
<1>1. count.stops = 0  BY CountStays DEF Kinds
<1>2. CASE UNCHANGED <<requests, call>>  BY <1>1, <1>2 DEF NobodyStops
<1>3. ASSUME NEW r \in RequestType, Request(r), r.task # "stop", UNCHANGED call
      PROVE  /\ \A i \in DOMAIN requests': requests'[i].task # "stop"
             /\ call'["commands"].step \notin {"halt", "halting", "unbind", "halted"}
  BY <1>1, <1>3, AppendElements DEF NobodyStops, Request, QueuesTyped
<1>4. CASE AskTurn \/ (\E m \in Mode: SetMode(m)) \/ AskStop \/ AskInterrupt
  <2>1. CASE AskTurn
    <3> DEFINE r == [task |-> "turn", turn |-> count'.turns]
    <3>1. count'.turns \in Turns
      BY <2>1, BoundsAssumption DEF AskTurn, Happens, HappensTimes, CountTyped, Kinds, Turns
    <3>2. r \in RequestType /\ r.task # "stop"  BY <3>1 DEF RequestType, SomeTurn
    <3>3. Request(r) /\ UNCHANGED call  BY <2>1 DEF AskTurn
    <3> HIDE DEF r
    <3> QED  BY <1>3, <3>2, <3>3
  <2>2. CASE \E m \in Mode: SetMode(m)
    <3> DEFINE r == [task |-> "mode", turn |-> None]
    <3>1. r \in RequestType /\ r.task # "stop"  BY DEF RequestType, SomeTurn
    <3>2. Request(r) /\ UNCHANGED call  BY <2>2 DEF SetMode
    <3> HIDE DEF r
    <3> QED  BY <1>3, <3>1, <3>2
  <2>3. CASE AskInterrupt
    <3> DEFINE r == [task |-> "interrupt", turn |-> None]
    <3>1. r \in RequestType /\ r.task # "stop"  BY DEF RequestType, SomeTurn
    <3>2. Request(r) /\ UNCHANGED call  BY <2>3 DEF AskInterrupt
    <3> HIDE DEF r
    <3> QED  BY <1>3, <3>1, <3>2
  <2>4. CASE AskStop
    BY <1>1, <2>4 DEF AskStop, Happens, HappensTimes, CountTyped, Kinds
  <2> QED  BY <1>4, <2>1, <2>2, <2>3, <2>4
<1>5. CASE TakeRequest
  <2>1. requests # <<>> /\ requests' = Tail(requests)  BY <1>5 DEF TakeRequest
  <2>2. Head(requests).task # "stop" /\ \A i \in DOMAIN requests': requests'[i].task # "stop"
    BY <1>1, <2>1, TailElements DEF NobodyStops, QueuesTyped
  <2> QED  BY <1>5, <2>2, TakeRequestStep
<1>6. ASSUME NEW c \in Caller, ServiceStep(c)
      PROVE  /\ \A i \in DOMAIN requests': requests'[i].task # "stop"
             /\ call'["commands"].step \notin {"halt", "halting", "unbind", "halted"}
  <2>1. UNCHANGED requests
    BY <1>6 DEF ServiceStep, Resolve, CloseStale, OpenSession, CallFails, RecordSession,
       BindSession, DeliverTurn, DeliverOther, NoteTurn, CheckSession, StopEntry, Unbind
  <2>2. call'["commands"].step \notin {"halt", "halting", "unbind", "halted"}
    BY <1>1, <1>6, CallStep DEF NobodyStops, CheckSession, StopEntry, Unbind
  <2> QED  BY <1>1, <2>1, <2>2 DEF NobodyStops
<1>7. CASE ShowStopped  BY <1>1, <1>7 DEF ShowStopped, NobodyStops
<1>8. CASE RollBack \/ Sweep
  BY <1>1, <1>8 DEF RollBack, Sweep, Begin, NobodyStops, CallsTyped
<1>9. CASE Restart  BY <1>9, EmptySeq DEF Restart, NoCall
<1> QED
  BY <1>2, <1>4, <1>5, <1>6, <1>7, <1>8, <1>9 DEF Next, vars, StartTurn, EndTurn, ExitProcess,
     ReportError, BecomeIdle, Ingest, IngestDispatch

(* A live session of a thread that only the command reactor uses is bound.   *)
Alone == count.rollbacks = 0 /\ count.sweeps = 0
OwnSession == Alone =>
  /\ \A c \in Caller: c # "commands" => call[c].step = "idle"
  /\ call["commands"].step = "unbind" => ~adapter.entry
  /\ adapter.entry => \/ call["commands"].step = "record" \/ adapter.unrecorded
                      \/ binding # None /\ binding.status # "stopped"

LEMMA OwnSessionStep ==
  ASSUME Inv, Roles, Processes, OwnSession, [Next]_vars PROVE OwnSession'
<1> USE DEF Inv
<1> SUFFICES ASSUME Alone' PROVE OwnSession'
  BY DEF OwnSession
<1>1. Alone  BY CountStays DEF Alone, Kinds
<1>2. CASE UNCHANGED <<call, adapter, binding>>  BY <1>1, <1>2 DEF OwnSession
<1>3. CASE StartTurn \/ EndTurn \/ ExitProcess
  BY <1>1, <1>3 DEF StartTurn, EndTurn, ExitProcess, OwnSession, AdapterTyped, Adapter, NoAdapter
<1>4. CASE TakeRequest
  <2>1. UNCHANGED <<adapter, binding>> /\ call["commands"].step = "idle"  BY <1>4 DEF TakeRequest
  <2> QED  BY <1>1, <1>4, <2>1, TakeRequestStep DEF OwnSession
<1>5. CASE ShowStopped
  BY <1>1, <1>5 DEF ShowStopped, Finish, NoCall, CallsTyped, OwnSession
<1>6. ASSUME NEW c \in Caller, ServiceStep(c) PROVE OwnSession'
  <2>1. c = "commands" /\ call["commands"].step # "idle"
    BY <1>1, <1>6 DEF OwnSession, ServiceStep, Resolve, CloseStale, OpenSession, CallFails,
       RecordSession, BindSession, DeliverTurn, DeliverOther, NoteTurn, CheckSession, StopEntry,
       Unbind
  <2>2. \A d \in Caller: d # "commands" => call'[d].step = "idle"
    BY <1>1, <1>6, <2>1, CallStep DEF OwnSession
  <2>3. CASE CloseStale(c) \/ StopEntry(c)
    <3>1. IF adapter.entry THEN CloseEntry ELSE UNCHANGED <<adapter, events, count>>
      BY <2>3 DEF CloseStale, StopEntry
    <3>2. ~adapter'.entry  BY <3>1, CloseStep
    <3> QED  BY <2>2, <3>2 DEF OwnSession
  <2>4. CASE OpenSession(c)
    <3>1. call'["commands"].step = "record"  BY <2>1, <2>4, GotoTyped DEF OpenSession, Steps
    <3> QED  BY <2>2, <3>1 DEF OwnSession
  <2>5. CASE RecordSession(c)
    <3>1. binding' # None /\ binding'.status # "stopped"
      <4>1. PICK known \in BOOLEAN:
              binding' = [status |-> "running", mode |-> call[c].mode, idle |-> FALSE,
                          cursor |-> known \/ (binding # None /\ binding.cursor)]
        BY <2>5 DEF RecordSession
      <4>2. call[c].mode \in Mode \union {None}  BY DEF CallsTyped, Call, SomeMode
      <4>3. known \/ (binding # None /\ binding.cursor) \in BOOLEAN  OBVIOUS
      <4>4. binding' \in Binding /\ binding'.status = "running"  BY <4>1, <4>2, <4>3 DEF Binding
      <4> QED  BY <4>4, NoneAssumption
    <3>2. call'["commands"].step # "unbind"
      BY <1>6, <2>1, <2>5, CallStep DEF RecordSession, CheckSession, StopEntry
    <3> QED  BY <2>2, <3>1, <3>2 DEF OwnSession
  <2>6. CASE Unbind(c)
    <3>1. ~adapter'.entry  BY <1>1, <2>1, <2>6 DEF Unbind, OwnSession
    <3> QED  BY <2>2, <3>1 DEF OwnSession
  <2>7. CASE CheckSession(c)
    <3>1. UNCHANGED <<adapter, binding>> /\ call["commands"].step = "halt"
      BY <2>1, <2>7 DEF CheckSession
    <3>2. call'["commands"].step = "unbind" => ~adapter.entry
      BY <2>1, <2>7 DEF CheckSession, Goto, Finish, NoCall, CallsTyped, Call
    <3> QED  BY <1>1, <2>2, <3>1, <3>2 DEF OwnSession
  <2>8. CASE NoteTurn(c)
    <3>1. call'["commands"].step # "unbind" /\ UNCHANGED adapter
      BY <1>6, <2>1, <2>8, CallStep DEF NoteTurn, CheckSession, StopEntry
    <3>2. call["commands"].step = "note" /\ binding \in Binding
      BY <2>1, <2>8 DEF NoteTurn, Bound
    <3>3. binding' # None /\ binding'.status = "running"
      BY <2>8, <3>2, NoneAssumption DEF NoteTurn, Binding
    <3> QED  BY <2>2, <3>1, <3>3 DEF OwnSession
  <2>9. CASE Resolve(c) \/ BindSession(c) \/ DeliverTurn(c) \/ DeliverOther(c)
    <3>1. /\ binding' = binding /\ adapter'.entry = adapter.entry
          /\ adapter'.unrecorded = adapter.unrecorded
      BY <2>9 DEF Resolve, BindSession, DeliverTurn, DeliverOther, AdapterTyped, Adapter
    <3>2. call["commands"].step # "record"
      BY <2>1, <2>9 DEF Resolve, BindSession, DeliverTurn, DeliverOther
    <3>3. call'["commands"].step # "unbind"
      BY <1>6, <2>1, <2>9, CallStep DEF Resolve, BindSession, DeliverTurn, DeliverOther,
         CheckSession, StopEntry
    <3> QED  BY <1>1, <2>2, <3>1, <3>2, <3>3 DEF OwnSession
  <2>10. CASE CallFails(c)
    <3>1. call'["commands"].step = "idle" /\ binding' = binding
      BY <2>1, <2>10, AbandonTyped DEF CallFails
    <3>2. adapter'.entry = adapter.entry /\ (adapter.unrecorded => adapter'.unrecorded)
      BY <2>10 DEF CallFails, AdapterTyped, Adapter
    <3>3. call["commands"].step = "record" => adapter'.unrecorded
      BY <2>1, <2>10 DEF CallFails, AdapterTyped, Adapter
    <3> QED  BY <1>1, <2>2, <3>1, <3>2, <3>3 DEF OwnSession
  <2> QED  BY <1>6, <2>3, <2>4, <2>5, <2>6, <2>7, <2>8, <2>9, <2>10 DEF ServiceStep
<1>7. CASE RollBack \/ Sweep
  <2>1. CASE RollBack  BY <2>1 DEF RollBack, Alone, Happens, HappensTimes, CountTyped, Kinds
  <2>2. CASE Sweep  BY <2>2 DEF Sweep, Alone, Happens, HappensTimes, CountTyped, Kinds
  <2> QED  BY <1>7, <2>1, <2>2
<1>8. CASE BecomeIdle
  <2>1. binding \in Binding  BY <1>8 DEF BecomeIdle, BindingTyped
  <2>2. binding' # None /\ binding'.status = binding.status
    BY <1>8, <2>1, NoneAssumption DEF BecomeIdle, Binding
  <2> QED  BY <1>1, <1>8, <2>2 DEF BecomeIdle, OwnSession
<1>9. CASE Restart  BY <1>9 DEF Restart, OwnSession, NoCall, NoAdapter
<1> QED
  BY <1>2, <1>3, <1>4, <1>5, <1>6, <1>7, <1>8, <1>9 DEF Next, vars, AskTurn, SetMode, AskStop,
     AskInterrupt, ReportError, Ingest, IngestDispatch

(************************ What the ingestion will see ***********************)
Opens(e, t)   == e.type \in {"turn.started", "runtime.error"} /\ e.turn = t
Closes(e, t)  == e.type = "session.exited" \/ (e.type = "turn.completed" /\ e.turn = t)
StartOf(e, t) == e.type = "turn.started" /\ e.turn = t
ErrorOf(e, t) == e.type = "runtime.error" /\ e.turn = t

(* Every exit was reported, and nothing but the end of a turn or of its      *)
(* session takes it from the thread.                                         *)
Told == count.crashes = 0 /\ count.lost = 0
Undisturbed == Told /\ count.stops = 0 /\ count.strays = 0

(* What a step other than those of the ingestion does to a turn: nothing, or *)
(* it starts or ends it and says so, or there is none and none is reported.  *)
Quietly == UNCHANGED events /\ adapter'.running = adapter.running
Reporting(e) ==
  /\ events' = Append(events, e)
  /\ \/ /\ adapter'.running = adapter.running
        /\ \A t \in Turns: Opens(e, t) => t = adapter.running \/ t = None
        /\ Undisturbed' => adapter.running = None \/ ErrorOf(e, adapter.running)
     \/ adapter'.running = None /\ Closes(e, adapter.running) /\ ~\E t: Opens(e, t)
     \/ adapter.running = None /\ StartOf(e, adapter'.running)
Idly ==
  /\ adapter.running = None /\ adapter'.running = None
  /\ \A i \in DOMAIN events: i \in DOMAIN events' /\ events'[i] = events[i]
  /\ \A i \in DOMAIN events': i \in DOMAIN events \/ \A t: ~Opens(events'[i], t)
Elsewhere ==
  /\ UNCHANGED seen
  /\ \/ th'.session.turn = th.session.turn
     \/ th'.session.turn = None /\ (Undisturbed' => adapter.running = None)
  /\ Quietly \/ Idly \/ \E e \in EventType: Reporting(e)

LEMMA CloseElsewhere ==
  ASSUME Inv, Processes, Told', UNCHANGED <<th, seen>>,
         IF adapter.entry THEN CloseEntry ELSE UNCHANGED <<adapter, events, count>>
  PROVE  Elsewhere
<1> DEFINE e == [type |-> "session.exited", turn |-> None]
<1> USE DEF Inv
<1>1. CASE ~adapter.entry
  BY <1>1 DEF Elsewhere, Quietly
<1>2. CASE adapter.entry /\ ~adapter.alive
  BY <1>2 DEF CloseEntry, Elsewhere, Quietly, Processes, NoAdapter
<1>3. CASE adapter.entry /\ adapter.alive
  <2>1. count'.lost = 0  BY DEF Told
  <2>2. adapter' = NoAdapter /\ events' = Append(events, e)
    BY <1>3, <2>1 DEF CloseEntry, CountTyped, Kinds
  <2>3. e \in EventType /\ e.type = "session.exited"  BY DEF EventType, SomeTurn
  <2>4. adapter'.running = None  BY <2>2 DEF NoAdapter
  <2> HIDE DEF e
  <2>5. Reporting(e)  BY <2>2, <2>3, <2>4 DEF Reporting, Closes, Opens
  <2> QED  BY <2>3, <2>5 DEF Elsewhere
<1> QED  BY <1>1, <1>2, <1>3

LEMMA ProviderElsewhere ==
  ASSUME Inv, Processes, StartTurn \/ EndTurn \/ ExitProcess \/ ReportError PROVE Elsewhere
<1> USE DEF Inv
<1>1. UNCHANGED <<th, seen>>  BY DEF StartTurn, EndTurn, ExitProcess, ReportError
<1>2. CASE StartTurn
  <2> DEFINE e == [type |-> "turn.started", turn |-> adapter'.running]
  <2>1. Head(adapter.queue) \in SomeTurn
    BY <1>2, HeadTailProperties DEF StartTurn, AdapterTyped, Adapter
  <2>2. adapter'.running \in SomeTurn
    BY <1>2, <2>1 DEF StartTurn, AdapterTyped, Adapter
  <2>3. e \in EventType /\ StartOf(e, adapter'.running)  BY <2>2 DEF EventType, StartOf, SomeTurn
  <2>4. events' = Append(events, e) /\ adapter.running = None  BY <1>2 DEF StartTurn
  <2> HIDE DEF e
  <2> QED  BY <1>1, <2>3, <2>4 DEF Elsewhere, Reporting
<1>3. CASE EndTurn
  <2> DEFINE e == [type |-> "turn.completed", turn |-> adapter.running]
  <2>1. e \in EventType /\ Closes(e, adapter.running) /\ e.type = "turn.completed"
    BY DEF EventType, Closes, AdapterTyped, Adapter, SomeTurn
  <2>2. events' = Append(events, e) /\ adapter'.running = None
    BY <1>3 DEF EndTurn, AdapterTyped, Adapter
  <2> HIDE DEF e
  <2> QED  BY <1>1, <2>1, <2>2 DEF Elsewhere, Reporting, Opens
<1>4. CASE ExitProcess
  <2> DEFINE e == [type |-> "session.exited", turn |-> None]
  <2>1. e \in EventType /\ e.type = "session.exited"  BY DEF EventType, SomeTurn
  <2>2. events' = Append(events, e) /\ adapter'.running = None
    BY <1>4 DEF ExitProcess, NoAdapter
  <2> HIDE DEF e
  <2> QED  BY <1>1, <2>1, <2>2 DEF Elsewhere, Reporting, Opens, Closes
<1>5. CASE ReportError
  <2>1. PICK t \in {adapter.running, None}:
          /\ Happens(IF t = adapter.running THEN "errors" ELSE "strays", MaxErrors)
          /\ events' = Append(events, [type |-> "runtime.error", turn |-> t])
    BY <1>5 DEF ReportError
  <2> DEFINE e == [type |-> "runtime.error", turn |-> t]
  <2>2. e \in EventType /\ ErrorOf(e, t)
    BY <2>1 DEF EventType, SomeTurn, AdapterTyped, Adapter, ErrorOf
  <2>3. adapter' = adapter /\ events' = Append(events, e)  BY <1>5, <2>1 DEF ReportError
  <2>4. Undisturbed' => t = adapter.running
    <3>1. CASE t # adapter.running
      <4>1. Happens("strays", MaxErrors)  BY <2>1, <3>1
      <4> QED  BY <4>1 DEF Happens, HappensTimes, CountTyped, Kinds, Undisturbed
    <3> QED  BY <3>1
  <2> HIDE DEF e
  <2>5. Reporting(e)  BY <2>1, <2>2, <2>3, <2>4 DEF Reporting, Opens, ErrorOf
  <2> QED  BY <1>1, <2>2, <2>5 DEF Elsewhere
<1> QED  BY <1>2, <1>3, <1>4, <1>5

LEMMA ServiceElsewhere ==
  ASSUME Inv, Roles, Processes, FreshSession, Told', NEW c \in Caller, ServiceStep(c)
  PROVE  Elsewhere
<1> USE DEF Inv
<1>1. CASE CloseStale(c) \/ StopEntry(c)
  BY <1>1, CloseElsewhere DEF CloseStale, StopEntry
<1>2. CASE OpenSession(c)
  <2>1. PICK a \in Announce: events' = Append(events, [type |-> a, turn |-> None])
    BY <1>2 DEF OpenSession
  <2> DEFINE e == [type |-> a, turn |-> None]
  <2>2. e \in EventType /\ e.type \in {"session.started", "session.state.changed"}
    BY AnnounceAssumption DEF EventType, SomeTurn
  <2>3. lock # None
    <3>1. call[c].step = "open"  BY <1>2 DEF OpenSession
    <3>2. lock = c  BY <3>1 DEF OneOpens
    <3> QED  BY <3>2, NoneAssumption
  <2>4. adapter.running = None
    BY <2>3 DEF Processes, AdapterTyped
  <2>5. adapter'.running = None /\ UNCHANGED <<th, seen>>
    BY <1>2 DEF OpenSession, NoAdapter
  <2>6. events' = Append(events, e)  BY <2>1
  <2> HIDE DEF e
  <2> QED  BY <2>2, <2>4, <2>5, <2>6 DEF Elsewhere, Reporting, Opens
<1>3. CASE BindSession(c)
  <2>1. UNCHANGED <<seen, adapter, events>> /\ c = "commands" /\ call["commands"].step = "bind"
    BY <1>3 DEF BindSession, Roles
  <2>2. adapter.running = None  BY <2>1 DEF FreshSession
  <2>3. th'.session.turn = None
    BY <1>3 DEF BindSession, ThreadTyped
  <2> QED  BY <2>1, <2>2, <2>3 DEF Elsewhere, Quietly
<1>4. CASE DeliverTurn(c)
  BY <1>4 DEF DeliverTurn, Elsewhere, Quietly, AdapterTyped, Adapter
<1>5. CASE DeliverOther(c)
  <2>1. CASE UNCHANGED <<adapter, events>>
    BY <1>5, <2>1 DEF DeliverOther, Elsewhere, Quietly
  <2>2. CASE ~UNCHANGED <<adapter, events>>
    <3> DEFINE e == [type |-> "turn.completed", turn |-> adapter.running]
    <3>1. e \in EventType /\ Closes(e, adapter.running) /\ e.type = "turn.completed"
      BY DEF EventType, Closes, AdapterTyped, Adapter, SomeTurn
    <3>2. events' = Append(events, e) /\ adapter'.running = None /\ UNCHANGED <<th, seen>>
      BY <1>5, <2>2 DEF DeliverOther, AdapterTyped, Adapter
    <3> HIDE DEF e
    <3> QED  BY <3>1, <3>2 DEF Elsewhere, Reporting, Opens
  <2> QED  BY <2>1, <2>2
<1>6. CASE CallFails(c)
  <2>1. UNCHANGED <<th, seen>> /\ adapter'.running = adapter.running
    BY <1>6 DEF CallFails, AdapterTyped, Adapter
  <2>2. CASE call[c].step # "open"
    BY <1>6, <2>1, <2>2, FailedStartEvents DEF Elsewhere, Quietly
  <2>3. CASE call[c].step = "open"
    <3>1. lock # None  BY <2>3, NoneAssumption DEF OneOpens
    <3>2. adapter.running = None  BY <3>1 DEF Processes, AdapterTyped
    <3>3. Idly  BY <1>6, <2>1, <3>2, FailedStartEvents DEF Idly, Opens
    <3> QED  BY <2>1, <3>3 DEF Elsewhere
  <2> QED  BY <2>2, <2>3
<1> QED
  BY <1>1, <1>2, <1>3, <1>4, <1>5, <1>6 DEF ServiceStep, Resolve, RecordSession, NoteTurn,
     CheckSession, Unbind, Elsewhere, Quietly

LEMMA StepElsewhere ==
  ASSUME Inv, Roles, Processes, FreshSession, NobodyStops, Told', [Next]_vars,
         ~Ingest, ~IngestDispatch
  PROVE  Elsewhere
<1> USE DEF Inv
<1>1. CASE UNCHANGED <<th, seen, adapter, events>>  BY <1>1 DEF Elsewhere, Quietly
<1>2. CASE \E m \in Mode: SetMode(m)
  BY <1>2 DEF SetMode, Elsewhere, Quietly, ThreadTyped
<1>3. CASE StartTurn \/ EndTurn \/ ExitProcess \/ ReportError  BY <1>3, ProviderElsewhere
<1>4. CASE \E c \in Caller: ServiceStep(c)  BY <1>4, ServiceElsewhere
<1>5. CASE ShowStopped
  <2>1. ~Undisturbed'
    BY <1>5 DEF ShowStopped, Undisturbed, NobodyStops
  <2>2. th'.session.turn = None  BY <1>5 DEF ShowStopped, ThreadTyped
  <2> QED  BY <1>5, <2>1, <2>2 DEF ShowStopped, Elsewhere, Quietly
<1>6. CASE Restart
  BY <1>6 DEF Restart, Happens, HappensTimes, Told, CountTyped, Kinds
<1> QED
  BY <1>1, <1>2, <1>3, <1>4, <1>5, <1>6 DEF Next, vars, AskTurn, AskStop, AskInterrupt,
     TakeRequest, RollBack, BecomeIdle, Sweep

(* An event the ingestion will take after the first i ones closes t.         *)
ClosedAfter(i, t) == \E j \in DOMAIN events: j > i /\ Closes(events[j], t)
ErrorsAfter(i, t) == \A k \in DOMAIN events: k > i => ErrorOf(events[k], t)
NotRunning(t)     == t \notin {None, adapter.running}

(* The session the ingestion read is the one that is shown, or nothing is.   *)
ReadIsCurrent == seen # None => th.session.turn \in {None, seen.session.turn}

(* Whatever shows, or will show, a turn that is not running any more is      *)
(* followed by what closes it.                                               *)
ActiveIsClosed == \A t \in Turns: NotRunning(t) =>
  /\ th.session.turn = t => ClosedAfter(0, t) \/ (seen # None /\ Closes(seen.event, t))
  /\ seen # None /\ seen.session.turn = t => ClosedAfter(0, t) \/ Closes(seen.event, t)
  /\ seen # None /\ Opens(seen.event, t) => ClosedAfter(0, t)
  /\ \A i \in DOMAIN events: Opens(events[i], t) => ClosedAfter(i, t)
Settles == Told => ReadIsCurrent /\ ActiveIsClosed

(* The start of the running turn is shown, in hand, or on its way, and only  *)
(* errors of that turn come after it.                                        *)
Announced(t) ==
  \/ th.session.turn = t /\ (seen # None => ErrorOf(seen.event, t)) /\ ErrorsAfter(0, t)
  \/ seen # None /\ StartOf(seen.event, t) /\ ErrorsAfter(0, t)
  \/ \E i \in DOMAIN events: StartOf(events[i], t) /\ ErrorsAfter(i, t)
RunningAnnounced == Undisturbed /\ adapter.running # None => Announced(adapter.running)

LEMMA ToldStays ==
  ASSUME Inv, [Next]_vars PROVE (Told' => Told) /\ (Undisturbed' => Undisturbed)
BY CountStays DEF Told, Undisturbed, Kinds

LEMMA AppendedEvent ==
  ASSUME Inv, NEW e \in EventType, events' = Append(events, e)
  PROVE  /\ \A i \in DOMAIN events: \A t: ClosedAfter(i, t) => ClosedAfter(i, t)'
         /\ \A t: ClosedAfter(0, t) => ClosedAfter(0, t)'
         /\ \A i \in DOMAIN events: \A t: Closes(e, t) => ClosedAfter(i, t)'
         /\ \A t: Closes(e, t) => ClosedAfter(0, t)'
         /\ \A t: ErrorsAfter(0, t) /\ ErrorOf(e, t) => ErrorsAfter(0, t)'
         /\ \A i \in DOMAIN events: \A t: ErrorsAfter(i, t) /\ ErrorOf(e, t) => ErrorsAfter(i, t)'
         /\ \A i \in DOMAIN events': i \in DOMAIN events \/ events'[i] = e
         /\ \A i \in DOMAIN events: i \in DOMAIN events' /\ events'[i] = events[i]
         /\ \E i \in DOMAIN events': events'[i] = e /\ \A t: ErrorsAfter(i, t)'
<1>0. PICK n: n = Len(events)  OBVIOUS
<1>1. /\ DOMAIN events = 1 .. n /\ DOMAIN events' = 1 .. n + 1 /\ n \in Nat
      /\ events'[n + 1] = e /\ \A i \in DOMAIN events: events'[i] = events[i]
  BY <1>0, AppendElements DEF Inv, QueuesTyped
<1>2. \A i \in DOMAIN events \union {0}: \A t: ClosedAfter(i, t) => ClosedAfter(i, t)'
  BY <1>1 DEF ClosedAfter
<1>3. \A i \in DOMAIN events \union {0}: \A t: Closes(e, t) => ClosedAfter(i, t)'
  BY <1>1 DEF ClosedAfter
<1>4. \A i \in DOMAIN events \union {0}: \A t:
        ErrorsAfter(i, t) /\ ErrorOf(e, t) => ErrorsAfter(i, t)'
  BY <1>1 DEF ErrorsAfter
<1>5. n + 1 \in DOMAIN events' /\ events'[n + 1] = e /\ \A t: ErrorsAfter(n + 1, t)'
  BY <1>1 DEF ErrorsAfter
<1>6. /\ \A i \in DOMAIN events': i \in DOMAIN events \/ events'[i] = e
      /\ \A i \in DOMAIN events: i \in DOMAIN events' /\ events'[i] = events[i]
  BY <1>1
<1> QED  BY <1>2, <1>3, <1>4, <1>5, <1>6

LEMMA TakenEvent ==
  ASSUME Inv, events # <<>>, events' = Tail(events)
  PROVE  /\ 1 \in DOMAIN events /\ Head(events) = events[1] /\ Head(events) \in EventType
         /\ \A i \in DOMAIN events': /\ i + 1 \in DOMAIN events /\ events'[i] = events[i + 1]
                                     /\ \A t: ClosedAfter(i + 1, t) => ClosedAfter(i, t)'
         /\ \A t: ClosedAfter(1, t) => ClosedAfter(0, t)'
         /\ \A t: ClosedAfter(0, t) => ClosedAfter(0, t)' \/ Closes(Head(events), t)
         /\ \A t: ErrorsAfter(1, t) => ErrorsAfter(0, t)'
         /\ \A i \in DOMAIN events: \A t: i # 1 /\ ErrorsAfter(i, t) =>
              i - 1 \in DOMAIN events' /\ events'[i - 1] = events[i] /\ ErrorsAfter(i - 1, t)'
<1> DEFINE n == Len(events)
<1>1. /\ DOMAIN events = 1 .. n /\ DOMAIN events' = 1 .. n - 1 /\ n \in Nat \ {0}
      /\ Head(events) = events[1] /\ Head(events) \in EventType
      /\ \A i \in 1 .. n - 1: events'[i] = events[i + 1]
  BY TailElements DEF Inv, QueuesTyped
<1> HIDE DEF n
<1>2. \A i \in 0 .. n - 1: \A t: ClosedAfter(i + 1, t) => ClosedAfter(i, t)'
  <2> SUFFICES ASSUME NEW i \in 0 .. n - 1, NEW t, ClosedAfter(i + 1, t)
               PROVE  ClosedAfter(i, t)'
    OBVIOUS
  <2>1. PICK j \in DOMAIN events: j > i + 1 /\ Closes(events[j], t)  BY DEF ClosedAfter
  <2>2. j - 1 \in DOMAIN events' /\ j - 1 > i /\ events'[j - 1] = events[j]  BY <1>1, <2>1
  <2> QED  BY <2>1, <2>2 DEF ClosedAfter
<1>3. \A t: ClosedAfter(0, t) => ClosedAfter(1, t) \/ Closes(Head(events), t)
  BY <1>1 DEF ClosedAfter
<1>4. \A i \in 0 .. n - 1: \A t: ErrorsAfter(i + 1, t) => ErrorsAfter(i, t)'
  BY <1>1 DEF ErrorsAfter
<1>5. \A i \in DOMAIN events: \A t: i # 1 /\ ErrorsAfter(i, t) =>
        i - 1 \in DOMAIN events' /\ events'[i - 1] = events[i] /\ ErrorsAfter(i - 1, t)'
  <2> SUFFICES ASSUME NEW i \in DOMAIN events, NEW t, i # 1, ErrorsAfter(i, t)
               PROVE  i - 1 \in DOMAIN events' /\ events'[i - 1] = events[i]
                      /\ ErrorsAfter(i - 1, t)'
    OBVIOUS
  <2>1. i - 1 \in 1 .. n - 1 /\ (i - 1) + 1 = i  BY <1>1
  <2>2. events'[i - 1] = events[i]  BY <1>1, <2>1
  <2> QED  BY <1>1, <1>4, <2>1, <2>2
<1>6. 1 \in DOMAIN events /\ Head(events) = events[1] /\ Head(events) \in EventType  BY <1>1
<1>7. \A i \in DOMAIN events': /\ i + 1 \in DOMAIN events /\ events'[i] = events[i + 1]
                               /\ \A t: ClosedAfter(i + 1, t) => ClosedAfter(i, t)'
  BY <1>1, <1>2
<1>8. \A t: /\ ClosedAfter(1, t) => ClosedAfter(0, t)'
            /\ ErrorsAfter(1, t) => ErrorsAfter(0, t)'
  <2>1. 0 \in 0 .. n - 1 /\ 0 + 1 = 1  BY <1>1
  <2> QED  BY <1>2, <1>4, <2>1
<1> QED  BY <1>3, <1>5, <1>6, <1>7, <1>8

(************************** What shows a turn settles ***********************)
LEMMA SettlesElsewhere ==
  ASSUME Inv, Told, Settles, Elsewhere PROVE ReadIsCurrent' /\ ActiveIsClosed'
<1>1. ReadIsCurrent'  BY DEF Settles, ReadIsCurrent, Elsewhere
<1>2. ASSUME NEW t \in Turns, NotRunning(t)', Quietly
      PROVE  /\ th'.session.turn = t =>
                  ClosedAfter(0, t)' \/ (seen' # None /\ Closes(seen'.event, t))
             /\ seen' # None /\ seen'.session.turn = t =>
                  ClosedAfter(0, t)' \/ Closes(seen'.event, t)
             /\ seen' # None /\ Opens(seen'.event, t) => ClosedAfter(0, t)'
             /\ \A i \in DOMAIN events': Opens(events'[i], t) => ClosedAfter(i, t)'
  <2>1. NotRunning(t) /\ t # None /\ UNCHANGED <<seen, events>>
    BY <1>2 DEF NotRunning, Quietly, Elsewhere
  <2>2. th'.session.turn = t => th.session.turn = t  BY <2>1 DEF Elsewhere
  <2>3. \A i: ClosedAfter(i, t)' <=> ClosedAfter(i, t)  BY <2>1 DEF ClosedAfter
  <2> QED  BY <2>1, <2>2, <2>3 DEF Settles, ActiveIsClosed
<1>3. ASSUME NEW t \in Turns, NotRunning(t)', NEW e \in EventType, Reporting(e)
      PROVE  /\ th'.session.turn = t =>
                  ClosedAfter(0, t)' \/ (seen' # None /\ Closes(seen'.event, t))
             /\ seen' # None /\ seen'.session.turn = t =>
                  ClosedAfter(0, t)' \/ Closes(seen'.event, t)
             /\ seen' # None /\ Opens(seen'.event, t) => ClosedAfter(0, t)'
             /\ \A i \in DOMAIN events': Opens(events'[i], t) => ClosedAfter(i, t)'
  <2>1. events' = Append(events, e) /\ UNCHANGED seen /\ t # None
    BY <1>3 DEF Reporting, Elsewhere, NotRunning
  <2>2. th'.session.turn = t => th.session.turn = t  BY <2>1 DEF Elsewhere
  <2>3. ~Opens(e, t)  BY <1>3 DEF Reporting, NotRunning, Opens, StartOf
  <2>4. CASE NotRunning(t)
    BY <2>1, <2>2, <2>3, <2>4, AppendedEvent DEF Settles, ActiveIsClosed
  <2>5. CASE ~NotRunning(t)
    <3>1. Closes(e, t)  BY <1>3, <2>5 DEF NotRunning, Reporting
    <3> QED  BY <2>1, <2>3, <3>1, AppendedEvent
  <2> QED  BY <2>4, <2>5
<1>5. ASSUME NEW t \in Turns, NotRunning(t)', Idly
      PROVE  /\ th'.session.turn = t =>
                  ClosedAfter(0, t)' \/ (seen' # None /\ Closes(seen'.event, t))
             /\ seen' # None /\ seen'.session.turn = t =>
                  ClosedAfter(0, t)' \/ Closes(seen'.event, t)
             /\ seen' # None /\ Opens(seen'.event, t) => ClosedAfter(0, t)'
             /\ \A i \in DOMAIN events': Opens(events'[i], t) => ClosedAfter(i, t)'
  <2>1. NotRunning(t) /\ t # None /\ UNCHANGED seen
    BY <1>5 DEF NotRunning, Idly, Elsewhere
  <2>2. th'.session.turn = t => th.session.turn = t  BY <2>1 DEF Elsewhere
  <2>3. \A i: ClosedAfter(i, t) => ClosedAfter(i, t)'  BY <1>5 DEF ClosedAfter, Idly
  <2>4. \A i \in DOMAIN events': Opens(events'[i], t) =>
          i \in DOMAIN events /\ events'[i] = events[i]
    BY <1>5 DEF Idly
  <2> QED  BY <2>1, <2>2, <2>3, <2>4 DEF Settles, ActiveIsClosed
<1>4. ActiveIsClosed'  BY <1>2, <1>3, <1>5 DEF Elsewhere, ActiveIsClosed
<1> QED  BY <1>1, <1>4

LEMMA ReadingIsSome == ASSUME Inv, Ingest PROVE seen' # None
<1>1. Head(events) \in EventType  BY HeadTailProperties DEF Ingest, Inv, QueuesTyped
<1>2. seen' \in [event: EventType, session: Session]
  BY <1>1 DEF Ingest, Inv, ThreadTyped
<1> QED  BY <1>2, NoneAssumption

LEMMA SettlesIngest ==
  ASSUME Inv, Told, Settles, Ingest PROVE ReadIsCurrent' /\ ActiveIsClosed'
<1>1. /\ seen = None /\ events # <<>> /\ events' = Tail(events) /\ UNCHANGED <<th, adapter>>
      /\ seen' = [event |-> Head(events), session |-> th.session]
  BY DEF Ingest
<1>2. ReadIsCurrent'  BY <1>1 DEF ReadIsCurrent
<1>3. ASSUME NEW t \in Turns, NotRunning(t)'
      PROVE  /\ th'.session.turn = t =>
                  ClosedAfter(0, t)' \/ (seen' # None /\ Closes(seen'.event, t))
             /\ seen' # None /\ seen'.session.turn = t =>
                  ClosedAfter(0, t)' \/ Closes(seen'.event, t)
             /\ seen' # None /\ Opens(seen'.event, t) => ClosedAfter(0, t)'
             /\ \A i \in DOMAIN events': Opens(events'[i], t) => ClosedAfter(i, t)'
  <2>1. NotRunning(t)  BY <1>1, <1>3 DEF NotRunning
  <2>2. th.session.turn = t => ClosedAfter(0, t)'  \/ Closes(Head(events), t)
    BY <1>1, <2>1, TakenEvent DEF Settles, ActiveIsClosed
  <2>3. Opens(Head(events), t) => ClosedAfter(0, t)'
    BY <1>1, <2>1, TakenEvent DEF Settles, ActiveIsClosed
  <2>4. \A i \in DOMAIN events': Opens(events'[i], t) => ClosedAfter(i, t)'
    BY <1>1, <2>1, TakenEvent DEF Settles, ActiveIsClosed
  <2>5. seen' # None  BY ReadingIsSome
  <2> QED  BY <1>1, <2>2, <2>3, <2>4, <2>5
<1> QED  BY <1>2, <1>3 DEF ActiveIsClosed

LEMMA SettlesDispatch ==
  ASSUME Inv, Told, Settles, IngestDispatch PROVE ReadIsCurrent' /\ ActiveIsClosed'
<1>1. /\ seen # None /\ seen' = None /\ UNCHANGED <<adapter, events>>
      /\ seen \in [event: EventType, session: Session]
  BY DEF IngestDispatch, Inv, SeenTyped
<1>2. ReadIsCurrent'  BY <1>1 DEF ReadIsCurrent
<1>3. \A i, t: ClosedAfter(i, t)' <=> ClosedAfter(i, t)  BY <1>1 DEF ClosedAfter
<1>4. ASSUME NEW t \in Turns, NotRunning(t), th'.session.turn = t PROVE ClosedAfter(0, t)
  <2>1. t # None /\ th.session.turn \in {None, seen.session.turn}
    BY <1>1, <1>4 DEF NotRunning, Settles, ReadIsCurrent
  <2>2. CASE Ignored
    <3>1. th.session.turn = t /\ seen.session.turn = t
      BY <1>4, <2>1, <2>2 DEF IngestDispatch
    <3>2. ~Closes(seen.event, t)  BY <2>2, <3>1 DEF Ignored, Conflicts, Closes
    <3> QED  BY <1>1, <1>4, <3>1, <3>2 DEF Settles, ActiveIsClosed
  <2>3. CASE ~Ignored
    <3>1. NextTurn = t
      BY <1>4, <2>3 DEF IngestDispatch, Inv, ThreadTyped
    <3>2. CASE seen.event.type \in {"turn.started", "runtime.error"}
      <4>1. Opens(seen.event, t)  BY <3>1, <3>2 DEF NextTurn, Opens
      <4> QED  BY <1>1, <1>4, <4>1 DEF Settles, ActiveIsClosed
    <3>3. CASE seen.event.type \in {"turn.completed", "session.exited"}
      BY <2>1, <3>1, <3>3 DEF NextTurn
    <3>4. CASE seen.event.type \in {"session.started", "session.state.changed"}
      <4>1. seen.session.turn = t /\ ~Closes(seen.event, t)
        BY <3>1, <3>4 DEF NextTurn, Closes
      <4> QED  BY <1>1, <1>4, <4>1 DEF Settles, ActiveIsClosed
    <3> QED  BY <1>1, <3>2, <3>3, <3>4 DEF EventType
  <2> QED  BY <2>2, <2>3
<1>5. \A t: NotRunning(t)' <=> NotRunning(t)  BY <1>1 DEF NotRunning
<1> QED  BY <1>1, <1>2, <1>3, <1>4, <1>5 DEF ActiveIsClosed, Settles

(************************** The running turn is shown ***********************)
LEMMA AnnouncedElsewhere ==
  ASSUME Inv, Undisturbed, Undisturbed', RunningAnnounced, Elsewhere,
         NEW t, t = adapter'.running, t # None
  PROVE  Announced(t)'
<1>1. CASE Quietly
  <2>1. UNCHANGED <<seen, events>> /\ adapter.running = t /\ th'.session.turn = th.session.turn
    BY <1>1 DEF Elsewhere, Quietly
  <2> QED  BY <2>1 DEF RunningAnnounced, Announced, ErrorsAfter
<1>2. ASSUME NEW e \in EventType, Reporting(e) PROVE Announced(t)'
  <2>1. events' = Append(events, e) /\ UNCHANGED seen  BY <1>2 DEF Reporting, Elsewhere
  <2>2. CASE adapter.running = None
    <3>1. StartOf(e, t)  BY <1>2, <2>2 DEF Reporting
    <3>2. \E i \in DOMAIN events': events'[i] = e /\ ErrorsAfter(i, t)'
      BY <2>1, AppendedEvent
    <3> QED  BY <3>1, <3>2 DEF Announced
  <2>3. CASE adapter.running # None
    <3>1. adapter.running = t /\ ErrorOf(e, t) /\ th'.session.turn = th.session.turn
      BY <1>2, <2>3 DEF Reporting, Elsewhere
    <3>2. Announced(t)  BY <3>1 DEF RunningAnnounced
    <3>3. /\ ErrorsAfter(0, t) => ErrorsAfter(0, t)'
          /\ \A i \in DOMAIN events: ErrorsAfter(i, t) =>
               i \in DOMAIN events' /\ events'[i] = events[i] /\ ErrorsAfter(i, t)'
      BY <2>1, <3>1, AppendedEvent
    <3> QED  BY <2>1, <3>1, <3>2, <3>3 DEF Announced
  <2> QED  BY <2>2, <2>3
<1>3. CASE Idly  BY <1>3 DEF Idly
<1> QED  BY <1>1, <1>2, <1>3 DEF Elsewhere

LEMMA AnnouncedIngest ==
  ASSUME Inv, NEW t, Announced(t), Ingest PROVE Announced(t)'
<1>1. /\ seen = None /\ events # <<>> /\ events' = Tail(events) /\ UNCHANGED th
      /\ seen'.event = Head(events) /\ seen' # None
  BY ReadingIsSome DEF Ingest
<1>2. CASE th.session.turn = t /\ ErrorsAfter(0, t)
  <2>1. ErrorOf(Head(events), t) /\ ErrorsAfter(1, t)
    BY <1>1, <1>2, TakenEvent DEF ErrorsAfter
  <2> QED  BY <1>1, <1>2, <2>1, TakenEvent DEF Announced
<1>3. ASSUME NEW i \in DOMAIN events, StartOf(events[i], t), ErrorsAfter(i, t)
      PROVE  Announced(t)'
  <2>1. CASE i = 1
    BY <1>1, <1>3, <2>1, TakenEvent DEF Announced
  <2>2. CASE i # 1
    <3>1. i - 1 \in DOMAIN events' /\ events'[i - 1] = events[i] /\ ErrorsAfter(i - 1, t)'
      BY <1>1, <1>3, <2>2, TakenEvent
    <3> QED  BY <1>3, <3>1 DEF Announced
  <2> QED  BY <2>1, <2>2
<1> QED  BY <1>1, <1>2, <1>3 DEF Announced

LEMMA AnnouncedDispatch ==
  ASSUME Inv, Told, Settles, NEW t, t = adapter.running, t # None, Announced(t), IngestDispatch
  PROVE  Announced(t)'
<1>1. /\ seen # None /\ seen' = None /\ UNCHANGED <<adapter, events>>
      /\ seen \in [event: EventType, session: Session]
  BY DEF IngestDispatch, Inv, SeenTyped
<1>2. t \in Turns  BY DEF Inv, AdapterTyped, Adapter, SomeTurn
<1>3. ErrorsAfter(0, t)' <=> ErrorsAfter(0, t)  BY <1>1 DEF ErrorsAfter
<1>4. ASSUME ErrorsAfter(0, t), seen.event.type \in {"turn.started", "runtime.error"},
             seen.event.turn = t, seen.session.turn \in {None, t}
      PROVE  Announced(t)'
  <2>1. ~Ignored /\ NextTurn = t  BY <1>4 DEF Ignored, Conflicts, NextTurn
  <2>2. th'.session.turn = t  BY <2>1 DEF IngestDispatch, Inv, ThreadTyped
  <2> QED  BY <1>1, <1>3, <1>4, <2>2 DEF Announced
<1>5. CASE th.session.turn = t /\ ErrorOf(seen.event, t) /\ ErrorsAfter(0, t)
  <2>1. seen.session.turn = t  BY <1>1, <1>5 DEF Settles, ReadIsCurrent
  <2> QED  BY <1>4, <1>5, <2>1 DEF ErrorOf
<1>6. CASE StartOf(seen.event, t) /\ ErrorsAfter(0, t)
  <2> DEFINE u == seen.session.turn
  <2>1. u \in Turns \union {None}  BY <1>1 DEF Session, SomeTurn
  <2>2. \A k: ~ClosedAfter(0, k)
    <3>1. \A k: \A j \in DOMAIN events: j > 0 => ~Closes(events[j], k)
      BY <1>6 DEF ErrorsAfter, ErrorOf, Closes
    <3> QED  BY <3>1 DEF ClosedAfter
  <2>3. \A k: ~Closes(seen.event, k)  BY <1>6 DEF StartOf, Closes
  <2>4. u \in {None, t}
    <3>1. CASE u \in Turns /\ NotRunning(u)
      BY <1>1, <2>2, <2>3, <3>1 DEF Settles, ActiveIsClosed
    <3> QED  BY <2>1, <3>1 DEF NotRunning
  <2> QED  BY <1>4, <1>6, <2>4 DEF StartOf
<1>7. CASE \E i \in DOMAIN events: StartOf(events[i], t) /\ ErrorsAfter(i, t)
  BY <1>1, <1>7 DEF Announced, ErrorsAfter
<1> QED  BY <1>1, <1>5, <1>6, <1>7 DEF Announced

(******************************** All of it ********************************)
SInv == Inv /\ Roles /\ Processes /\ FreshSession /\ NobodyStops /\ OwnSession /\ Settles
        /\ RunningAnnounced

LEMMA InitSInv == Init => SInv
<1> SUFFICES ASSUME Init PROVE SInv
  OBVIOUS
<1>1. Inv  BY InitInv
<1>2. \A c \in Caller: call[c] = NoCall  BY DEF Init
<1>3. Roles /\ FreshSession /\ NobodyStops /\ OwnSession
  BY <1>2 DEF Init, Roles, FreshSession, NobodyStops, OwnSession, NoCall, NoAdapter
<1>4. Processes /\ RunningAnnounced
  BY DEF Init, Processes, RunningAnnounced, NoAdapter
<1>5. Settles
  BY DEF Init, Settles, ReadIsCurrent, ActiveIsClosed, NotRunning, NoSession
<1> QED  BY <1>1, <1>3, <1>4, <1>5 DEF SInv

LEMMA StepSInv == ASSUME SInv, [Next]_vars PROVE SInv'
<1> USE DEF SInv
<1>1. Inv'  BY StepInv
<1>2. Roles' /\ Processes' /\ FreshSession' /\ NobodyStops' /\ OwnSession'
  BY RolesStep, ProcessesStep, FreshSessionStep, NobodyStopsStep, OwnSessionStep
<1>3. Settles'
  <2> SUFFICES ASSUME Told' PROVE ReadIsCurrent' /\ ActiveIsClosed'
    BY DEF Settles
  <2>1. Told  BY ToldStays
  <2>2. CASE Ingest  BY <2>1, <2>2, SettlesIngest
  <2>3. CASE IngestDispatch  BY <2>1, <2>3, SettlesDispatch
  <2>4. CASE ~Ingest /\ ~IngestDispatch
    <3>1. Elsewhere  BY <2>4, StepElsewhere
    <3> QED  BY <2>1, <3>1, SettlesElsewhere
  <2> QED  BY <2>2, <2>3, <2>4
<1>4. RunningAnnounced'
  <2> SUFFICES ASSUME Undisturbed', NEW t, t = adapter'.running, t # None PROVE Announced(t)'
    BY DEF RunningAnnounced
  <2>1. Undisturbed /\ Told /\ Told'  BY ToldStays DEF Undisturbed
  <2>2. CASE Ingest \/ IngestDispatch
    <3>1. adapter.running = t  BY <2>2 DEF Ingest, IngestDispatch
    <3>2. Announced(t)  BY <2>1, <3>1 DEF RunningAnnounced
    <3> QED  BY <2>1, <2>2, <3>1, <3>2, AnnouncedIngest, AnnouncedDispatch
  <2>3. CASE ~Ingest /\ ~IngestDispatch
    <3>1. Elsewhere  BY <2>1, <2>3, StepElsewhere
    <3> QED  BY <2>1, <3>1, AnnouncedElsewhere
  <2> QED  BY <2>2, <2>3
<1> QED  BY <1>1, <1>2, <1>3, <1>4

LEMMA SInvariance == Spec => []SInv
<1> QED  BY InitSInv, StepSInv, PTL DEF Spec

(* Once all is processed the active turn of a thread is the one its provider *)
(* runs, for any number of turns, callers' calls, failures, exits and errors *)
(* (ProviderRuntimeIngestion.ts:1140-1180): whatever shows a turn that has   *)
(* ended is followed by the report of its end, in hand or in the queue.      *)
THEOREM ActiveTurnsRun == Spec => []ActiveTurnIsRunning
<1>1. SInv => ActiveTurnIsRunning
  <2> SUFFICES ASSUME SInv, Quiet, Told, th.session.turn \notin {None, adapter.running}
               PROVE  FALSE
    BY DEF ActiveTurnIsRunning, Told
  <2>1. th.session.turn \in Turns
    BY DEF SInv, Inv, ThreadTyped, Session, SomeTurn
  <2>2. ClosedAfter(0, th.session.turn)
    BY <2>1 DEF SInv, Settles, ActiveIsClosed, NotRunning, Quiet
  <2> QED  BY <2>2 DEF ClosedAfter, Quiet
<1> QED  BY <1>1, SInvariance, PTL

(* Conversely the thread shows the turn its provider runs, unless the user   *)
(* stopped the session, the server restarted, or an error of no turn came in *)
(* between: neither the reaper nor a rollback, a new mode, a failed start or *)
(* an error of the turn takes it away (ProviderCommandReactor.ts:390-470).   *)
THEOREM RunningTurnsAreShown == Spec => []RunningTurnIsShownWhileUp
<1>1. SInv => RunningTurnIsShownWhileUp
  <2> SUFFICES ASSUME SInv, count.crashes + count.lost + count.stops + count.strays = 0,
                      Quiet, adapter.running # None
               PROVE  th.session.turn = adapter.running
    BY DEF RunningTurnIsShownWhileUp, RunningTurnIsShown
  <2>1. /\ count.crashes \in Nat /\ count.lost \in Nat /\ count.stops \in Nat
        /\ count.strays \in Nat
    BY DEF SInv, Inv, CountTyped, Kinds
  <2>2. \A a, b, c, d \in Nat: a + b + c + d = 0 => a = 0 /\ b = 0 /\ c = 0 /\ d = 0
    OBVIOUS
  <2>3. Undisturbed  BY <2>1, <2>2 DEF Undisturbed, Told
  <2>4. Announced(adapter.running)  BY <2>3 DEF SInv, RunningAnnounced
  <2> QED  BY <2>4 DEF Announced, Quiet
<1> QED  BY <1>1, SInvariance, PTL

(* As long as only the command reactor calls the service, a live session has *)
(* a binding that is not stopped, which is what makes the reaper see it      *)
(* (ProviderService.ts:465-476, ProviderSessionReaper.ts:60-75), or the      *)
(* directory failed to record it when it was opened (:257, :402): whatever   *)
(* else fails - starts, later writes of the directory, reports - and         *)
(* whenever processes exit or the server restarts.                           *)
THEOREM LiveSessionsAreBound == Spec => []LiveSessionIsBound
<1>1. SInv => LiveSessionIsBound
  <2> SUFFICES ASSUME SInv, Quiet, adapter.entry, ~adapter.unrecorded, Alone
               PROVE  binding # None /\ binding.status # "stopped"
    BY DEF LiveSessionIsBound, Alone
  <2>1. call["commands"].step = "idle"  BY DEF Quiet, NoCall
  <2> QED  BY <2>1 DEF SInv, OwnSession
<1> QED  BY <1>1, SInvariance, PTL
=============================================================================
