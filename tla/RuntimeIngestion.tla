--------------------------- MODULE RuntimeIngestion ---------------------------
(***************************************************************************)
(* How the ingestion turns the pieces a provider reports into the texts of *)
(* the thread: assistant messages, which are buffered or streamed as the   *)
(* settings say, reasoning, which is merged into one activity, and         *)
(* proposed plans.  The events wait in the queue of a DrainableWorker;     *)
(* while the worker is "processing" the handler makes its dispatches one   *)
(* after the other, and any of them may fail, which ends the handling of   *)
(* that event only.                                                        *)
(*                                                                         *)
(* A text is the sequence of its pieces, and piece k of a text is k.  The  *)
(* provider runs one turn at a time; which turn the session shows is the   *)
(* subject of ProviderSessions, placeholders that of Checkpointing.  The   *)
(* caches never evict here: their capacity is 10,000 turns, their entries  *)
(* live for two hours.  Every delta belongs to a turn: the buffer of one   *)
(* that does not is remembered under no turn, and the end of a session     *)
(* does not release it (ProviderRuntimeIngestion.ts:1151-1154).            *)
(***************************************************************************)
EXTENDS DrainableWorker, SequencesExt

CONSTANTS
  None,
  Message,      \* ids of assistant messages
  Reasoning,    \* ids of reasoning items
  BufferLimit,  \* pieces a buffer holds at most (24,000 characters)
  MaxTurns, MaxPieces,  \* bounds
  MaxTroubles,  \* bound: changed settings, ended sessions and failures together
  MaxWaiting    \* bound: events that wait while one is handled

ASSUME IngestionAssumption ==
  /\ Message \intersect Reasoning = {} /\ None \notin Message \union Reasoning
  /\ \A n \in {BufferLimit, MaxTurns, MaxPieces, MaxTroubles, MaxWaiting}: n \in Nat

Item == Message \union Reasoning
Turns == 1..MaxTurns
Pieces(n) == [k \in 1..n |-> k]

VARIABLES
  events,     \* what the items in the queue of the worker stand for
  provider,   \* the running turn (0: none), how many there were, how they ended
  said,       \* what the provider has said of every item and, by turn, of its plan
  streaming,  \* the setting enableAssistantStreaming
  steps,      \* what is left to do for the event in hand
  caches,     \* the three caches of the ingestion
  thread,     \* the texts of the thread, and which messages are shown as streaming
  count       \* how often the setting was changed, sessions ended, dispatches failed

ingestionVars == <<vars, events, provider, said, streaming, steps, caches, thread, count>>

IngestionInit ==
  /\ Init
  /\ events = <<>> /\ steps = <<>>
  /\ provider = [turn |-> 0, turns |-> 0, of |-> [i \in Item |-> 0],
                 closed |-> {}, planned |-> {}, cut |-> {}]
  /\ said = [text |-> [i \in Item |-> 0], plan |-> [t \in Turns |-> 0]]
  /\ streaming \in BOOLEAN
  /\ caches = [buffer |-> [i \in Message |-> <<>>], ids |-> [t \in Turns |-> {}],
               plan |-> [t \in Turns |-> <<>>]]
  /\ thread = [text |-> [i \in Item |-> <<>>], plan |-> [t \in Turns |-> <<>>],
               shown |-> [i \in Message |-> "absent"],
               completions |-> [i \in Message |-> 0]]
  /\ count = [toStreaming |-> 0, toBuffered |-> 0, exits |-> 0, failures |-> 0]

Trouble(what) ==
  /\ count.toStreaming + count.toBuffered + count.exits + count.failures < MaxTroubles
  /\ count' = [count EXCEPT ![what] = @ + 1]

(******************************* The provider ******************************)
Emit(type, turn, item, n) ==
  /\ Len(queue) < MaxWaiting /\ Enqueue
  /\ events' = Append(events, [type |-> type, turn |-> turn, item |-> item, n |-> n])
  /\ UNCHANGED <<streaming, steps, caches, thread>>

StartTurn ==
  /\ provider.turn = 0 /\ provider.turns < MaxTurns
  /\ provider' = [provider EXCEPT !.turn = provider.turns + 1, !.turns = @ + 1]
  /\ Emit("turn.started", provider'.turn, None, 0)
  /\ UNCHANGED <<said, count>>

Writable(i) ==
  provider.turn # 0 /\ provider.of[i] \in {0, provider.turn} /\ i \notin provider.closed

Say(i) ==
  /\ Writable(i) /\ said.text[i] < MaxPieces
  /\ provider' = [provider EXCEPT !.of[i] = provider.turn]
  /\ said' = [said EXCEPT !.text[i] = @ + 1]
  /\ Emit("content.delta", provider.turn, i, said'.text[i])
  /\ UNCHANGED count

(* The completed item may repeat its whole text, even one never sent before. *)
FinishItem(i) ==
  /\ Writable(i) /\ i \in Message
  /\ provider' = [provider EXCEPT !.of[i] = provider.turn, !.closed = @ \union {i}]
  /\ \/ UNCHANGED said /\ Emit("item.completed", provider.turn, i, 0)
     \/ /\ said' = [said EXCEPT !.text[i] = IF @ = 0 THEN 1 ELSE @]
        /\ Emit("item.completed", provider.turn, i, said'.text[i])
  /\ UNCHANGED count

Propose ==
  LET t == provider.turn IN
  /\ t \notin provider.planned \union {0} /\ said.plan[t] < MaxPieces
  /\ said' = [said EXCEPT !.plan[t] = @ + 1]
  /\ Emit("turn.proposed.delta", provider.turn, None, said'.plan[t])
  /\ UNCHANGED <<provider, count>>

(* A completed plan comes with its whole text, whether sent before or not.   *)
FinishPlan ==
  LET t == provider.turn IN
  /\ t \notin provider.planned \union {0}
  /\ provider' = [provider EXCEPT !.planned = @ \union {t}]
  /\ said' = [said EXCEPT !.plan[t] = IF @ = 0 THEN 1 ELSE @]
  /\ Emit("turn.proposed.completed", provider.turn, None, said'.plan[t])
  /\ UNCHANGED count

EndTurn ==
  /\ provider.turn # 0
  /\ provider' = [provider EXCEPT !.turn = 0]
  /\ Emit("turn.completed", provider.turn, None, 0)
  /\ UNCHANGED <<said, count>>

(* A turn may be cut off without a turn.completed. *)
ExitSession ==
  /\ provider.turn # 0 /\ Trouble("exits")
  /\ provider' = [provider EXCEPT !.turn = 0, !.cut = @ \union {provider.turn}]
  /\ Emit("session.exited", provider.turn, None, 0)
  /\ UNCHANGED said

ToggleStreaming ==
  /\ Trouble(IF streaming THEN "toBuffered" ELSE "toStreaming")
  /\ streaming' = ~streaming
  /\ UNCHANGED <<vars, events, provider, said, steps, caches, thread>>

(******************************* The handler *******************************)
Op(op, item, turn, text) == [op |-> op, item |-> item, turn |-> turn, text |-> text]

(* Mutant: the text of a completed item is used whenever nothing is buffered. *)
FallbackAlways(e) == Pieces(e.n)

(* The text of a completed item is used when the thread has none yet.        *)
Fallback(e) == IF thread.text[e.item] = <<>> THEN Pieces(e.n) ELSE <<>>

Finalize(i, t, fallback) == <<Op("flush", i, t, fallback), Op("complete", i, t, <<>>)>>

FinalizeAll(ids, t) ==
  [k \in 1 .. 2 * Cardinality(ids) |->
     Finalize(SetToSeq(ids)[(k + 1) \div 2], t, <<>>)[2 - (k % 2)]]

StepsOf(e) ==
  CASE e.type = "turn.started"  -> <<Op("session", None, e.turn, <<>>)>>
    [] e.type = "content.delta" ->
         IF e.item \in Message
         THEN <<Op("delta", e.item, e.turn, <<e.n>>)>>
         ELSE <<Op("activity", e.item, e.turn, Append(thread.text[e.item], e.n))>>
    [] e.type = "item.completed" ->
         <<Op("remember", e.item, e.turn, <<>>)>> \o Finalize(e.item, e.turn, Fallback(e))
           \o <<Op("forget", e.item, e.turn, <<>>)>>
    [] e.type = "turn.proposed.delta"     -> <<Op("propose", None, e.turn, <<e.n>>)>>
    [] e.type = "turn.proposed.completed" -> <<Op("plan", None, e.turn, Pieces(e.n))>>
    [] e.type = "turn.completed" ->
         <<Op("session", None, e.turn, <<>>)>> \o FinalizeAll(caches.ids[e.turn], e.turn)
           \o <<Op("clear", None, e.turn, <<>>), Op("plan", None, e.turn, <<>>)>>
    [] e.type = "session.exited" ->
         <<Op("session", None, e.turn, <<>>), Op("exit", None, e.turn, <<>>)>>

TakeEvent ==
  /\ Take
  /\ steps' = StepsOf(Head(events)) /\ events' = Tail(events)
  /\ UNCHANGED <<provider, said, streaming, caches, thread, count>>

Doing(op) == phase = "processing" /\ steps # <<>> /\ Head(steps).op = op
Go == steps' = Tail(steps) /\ UNCHANGED count

(* A dispatch changes the thread, or fails and ends the handling.            *)
Dispatch(change) ==
  \/ Go /\ thread' = change
  \/ Trouble("failures") /\ steps' = <<>> /\ UNCHANGED thread

Appended(i, text) ==
  [thread EXCEPT !.text[i] = @ \o text, !.shown[i] = "streaming"]

Unchanged == UNCHANGED <<vars, events, provider, said, streaming>>

ShowSession == Doing("session") /\ Dispatch(thread) /\ UNCHANGED caches /\ Unchanged

Remember(i, t) == [caches EXCEPT !.ids[t] = @ \union {i}]

(* Mutant: only the piece that did not fit is sent. *)
TakeDeltaSpillsNew ==
  LET s == Head(steps)
      remembered == Remember(s.item, s.turn)
      text == caches.buffer[s.item] \o s.text
  IN  /\ Doing("delta")
      /\ IF streaming
         THEN Dispatch(Appended(s.item, s.text)) /\ caches' = remembered
         ELSE IF Len(text) <= BufferLimit
         THEN Go /\ caches' = [remembered EXCEPT !.buffer[s.item] = text] /\ UNCHANGED thread
         ELSE /\ Dispatch(Appended(s.item, s.text))
              /\ caches' = [remembered EXCEPT !.buffer[s.item] = <<>>]
      /\ Unchanged

TakeDelta ==
  LET s == Head(steps)
      remembered == Remember(s.item, s.turn)
      text == caches.buffer[s.item] \o s.text
  IN  /\ Doing("delta")
      /\ IF streaming
         THEN Dispatch(Appended(s.item, s.text)) /\ caches' = remembered
         ELSE IF Len(text) <= BufferLimit
         THEN Go /\ caches' = [remembered EXCEPT !.buffer[s.item] = text] /\ UNCHANGED thread
         ELSE /\ Dispatch(Appended(s.item, text))
              /\ caches' = [remembered EXCEPT !.buffer[s.item] = <<>>]
      /\ Unchanged

RememberItem ==
  /\ Doing("remember") /\ Go
  /\ caches' = Remember(Head(steps).item, Head(steps).turn)
  /\ UNCHANGED thread /\ Unchanged

(* The buffer is emptied before the dispatch. *)
Flush ==
  LET s == Head(steps)
      text == IF caches.buffer[s.item] # <<>> THEN caches.buffer[s.item] ELSE s.text
  IN  /\ Doing("flush")
      /\ caches' = [caches EXCEPT !.buffer[s.item] = <<>>]
      /\ IF text = <<>> THEN Go /\ UNCHANGED thread ELSE Dispatch(Appended(s.item, text))
      /\ Unchanged

Complete ==
  LET i == Head(steps).item
  IN  /\ Doing("complete")
      /\ Dispatch([thread EXCEPT !.shown[i] = "complete", !.completions[i] = @ + 1])
      /\ UNCHANGED caches /\ Unchanged

(* Mutant: the completed message stays remembered. *)
ForgetNothing == Doing("forget") /\ Go /\ UNCHANGED <<caches, thread>> /\ Unchanged

Forget ==
  LET s == Head(steps)
  IN  /\ Doing("forget") /\ Go
      /\ caches' = [caches EXCEPT !.ids[s.turn] = @ \ {s.item}]
      /\ UNCHANGED thread /\ Unchanged

ClearTurn ==
  /\ Doing("clear") /\ Go
  /\ caches' = [caches EXCEPT !.ids[Head(steps).turn] = {}]
  /\ UNCHANGED thread /\ Unchanged

AppendReasoning ==
  /\ Doing("activity")
  /\ Dispatch([thread EXCEPT !.text[Head(steps).item] = Head(steps).text])
  /\ UNCHANGED caches /\ Unchanged

BufferPlan ==
  LET s == Head(steps)
  IN  /\ Doing("propose") /\ Go
      /\ caches' = [caches EXCEPT !.plan[s.turn] = @ \o s.text]
      /\ UNCHANGED thread /\ Unchanged

UpsertPlan ==
  LET s == Head(steps)
      text == IF caches.plan[s.turn] # <<>> THEN caches.plan[s.turn] ELSE s.text
  IN  /\ Doing("plan")
      /\ caches' = [caches EXCEPT !.plan[s.turn] = <<>>]
      /\ IF text = <<>> THEN Go /\ UNCHANGED thread
         ELSE Dispatch([thread EXCEPT !.plan[s.turn] = text])
      /\ Unchanged

(* Mutant: the texts of the messages are left. *)
ClearSessionKeepsTexts ==
  /\ Doing("exit") /\ Go
  /\ caches' = [caches EXCEPT !.ids = [t \in Turns |-> {}], !.plan = [t \in Turns |-> <<>>]]
  /\ UNCHANGED thread /\ Unchanged

(* The end of a session drops what its turns have in the buffers.            *)
ClearSession ==
  LET remembered == UNION {caches.ids[t]: t \in Turns}
  IN  /\ Doing("exit") /\ Go
      /\ caches' = [buffer |-> [i \in Message |-> IF i \in remembered THEN <<>>
                                                  ELSE caches.buffer[i]],
                    ids |-> [t \in Turns |-> {}], plan |-> [t \in Turns |-> <<>>]]
      /\ UNCHANGED thread /\ Unchanged

HandlerStep ==
  \/ ShowSession \/ TakeDelta \/ RememberItem \/ Flush \/ Complete \/ Forget \/ ClearTurn
  \/ AppendReasoning \/ BufferPlan \/ UpsertPlan \/ ClearSession

Rest == UNCHANGED <<events, provider, said, streaming, caches, thread, count>>

EndHandling == phase = "processing" /\ steps = <<>> /\ Process /\ UNCHANGED steps /\ Rest

(* The handler lets an interruption through, which ends the worker.          *)
Interrupted == ProcessFails /\ steps' = <<>> /\ Rest

CountDown == Ensure /\ UNCHANGED steps /\ Rest

IngestionWorker == TakeEvent \/ HandlerStep \/ EndHandling \/ Interrupted \/ CountDown

IngestionNext ==
  \/ StartTurn \/ (\E i \in Item: Say(i) \/ FinishItem(i)) \/ Propose \/ FinishPlan
  \/ EndTurn \/ ExitSession \/ ToggleStreaming
  \/ IngestionWorker
  \/ \E d \in Drainer: (CallDrain(d) \/ Drained(d)) /\ UNCHANGED steps /\ Rest

IngestionSpec ==
  /\ IngestionInit /\ [][IngestionNext]_ingestionVars
  /\ WF_ingestionVars(IngestionWorker)
  /\ \A d \in Drainer: WF_ingestionVars(Drained(d) /\ UNCHANGED steps /\ Rest)

(******************************* Properties ********************************)
Done == outstanding = 0 /\ phase # "dead"
Ended(t) == t \in 1..provider.turns /\ t # provider.turn /\ t \notin provider.cut
Over(i) == i \in provider.closed \/ Ended(provider.of[i])

(* Once the events are processed the thread has every text that is over,     *)
(* whole and in order, and every such message complete - buffered, spilled,  *)
(* streamed, sent only with the end of its item, or cut short by the end of  *)
(* the turn ("spills oversized buffered deltas and still finalizes full      *)
(* assistant text"); if no dispatch failed, and streaming was not switched   *)
(* on in the middle of a message, which overtakes what is buffered.          *)
TextIsWhatWasSaid ==
  Done /\ count.failures = 0 /\ count.toStreaming = 0 =>
    /\ \A i \in Item: Over(i) => thread.text[i] = Pieces(said.text[i])
    /\ \A t \in Turns: Ended(t) => thread.plan[t] = Pieces(said.plan[t])
    /\ \A i \in Message: Over(i) => thread.shown[i] = "complete"

(* Whatever fails, a text never has a piece twice or out of order, unless    *)
(* streaming was switched on in the middle of it.                            *)
InTheOrderSaid(text) == \A j, k \in DOMAIN text: j < k => text[j] < text[k]
OnlyWhatWasSaid ==
  count.toStreaming = 0 => \A i \in Item: InTheOrderSaid(thread.text[i])

(* A message is completed once: by the end of its item or, if that never     *)
(* came or its handling failed, by the end of its turn ("does not duplicate  *)
(* assistant completion when item.completed is followed by turn.completed"). *)
CompletedOnce == \A i \in Message: thread.completions[i] <= 1

(* The caches hold nothing of a turn that is over, or they would grow for as *)
(* long as the server runs: of a turn cut off by its session included.       *)
BuffersAreReleased ==
  Done /\ count.failures = 0 /\ provider.turn = 0 =>
    /\ \A i \in Message: caches.buffer[i] = <<>>
    /\ \A t \in Turns: caches.ids[t] = {} /\ caches.plan[t] = <<>>
=============================================================================
