-------------------------- MODULE ThreadProjection --------------------------
(***************************************************************************)
(* The second fold of the same events: the projection of one thread into   *)
(* the SQL tables, which the server reads back into its read model when it *)
(* starts.  ProjectRows is what the projectors do to the rows of a thread  *)
(* for one event, inside the transaction that appends the event;           *)
(* HydrateThread is what the snapshot query makes of the rows.             *)
(*                                                                         *)
(* A row of projection_turns is a turn the provider named; the row without *)
(* a turn id, of which there is at most one per thread, is `pending'.      *)
(***************************************************************************)
EXTENDS Projector

NoPending == [message |-> None, at |-> 0]

EmptyRows ==
  [messages |-> {}, plans |-> {}, activities |-> {}, session |-> NoSession,
   turns |-> {}, pending |-> NoPending]

(********************************* Upserts *********************************)
UpsertRow(table, r) == {x \in table: x.id # r.id} \union {r}
UpsertTurn(turns, r) == {x \in turns: x.turn # r.turn} \union {r}

(* getByTurnId, or the row the caller inserts when there is none. *)
TurnRow(rows, t, at) ==
  IF \E r \in rows.turns: r.turn = t
  THEN CHOOSE r \in rows.turns: r.turn = t
  ELSE [turn |-> t, message |-> None, assistant |-> None, state |-> "running",
        requested |-> at, count |-> None, ref |-> None, status |-> None]

(********************************* Messages ********************************)
MessageRow(rows, e) ==
  LET old == {m \in rows.messages: m.id = e.id}
  IN  [id |-> e.id, role |-> e.role, turn |-> e.turn, streaming |-> e.streaming,
       text |-> IF \E m \in old: e.streaming \/ e.text = <<>>
                THEN (CHOOSE m \in old: TRUE).text \o e.text
                ELSE e.text,
       at   |-> IF old = {} THEN e.at ELSE (CHOOSE m \in old: TRUE).at]

(* The turn of an assistant message: a final message closes it, unless it    *)
(* was interrupted or failed.                                                *)
MessageTurn(rows, e) ==
  [TurnRow(rows, e.turn, e.at) EXCEPT
     !.assistant = e.id,
     !.state = IF e.streaming \/ @ \in {"interrupted", "error"} THEN @
               ELSE "completed"]

ProjectMessage(rows, e) ==
  [rows EXCEPT
     !.messages = UpsertRow(@, MessageRow(rows, e)),
     !.turns = IF e.role = "assistant" /\ e.turn # None
               THEN UpsertTurn(@, MessageTurn(rows, e)) ELSE @]

(************************** Sessions and turns *****************************)
(* A running session adopts the pending turn start for its active turn.      *)
RunningTurn(rows, e) ==
  LET at == IF rows.pending = NoPending THEN e.at ELSE rows.pending.at
  IN  [TurnRow(rows, e.turn, at) EXCEPT
         !.message = IF @ = None THEN rows.pending.message ELSE @,
         !.state = IF @ \in {"completed", "error"} THEN @ ELSE "running"]

ProjectSession(rows, e) ==
  LET adopts == e.status = "running" /\ e.turn # None
  IN  [rows EXCEPT
         !.session = [status |-> e.status, turn |-> e.turn],
         !.turns   = IF adopts THEN UpsertTurn(@, RunningTurn(rows, e)) ELSE @,
         !.pending = IF adopts THEN NoPending ELSE @]

ProjectInterrupt(rows, e) ==
  IF e.turn = None THEN rows
  ELSE [rows EXCEPT !.turns =
          UpsertTurn(@, [TurnRow(rows, e.turn, e.at) EXCEPT
                           !.state = "interrupted"])]

(******************************* Checkpoints *******************************)
(* No two rows of a thread keep the same checkpoint count.                   *)
ClearConflict(turns, t, n) ==
  {IF r.count = n /\ r.turn # t
   THEN [r EXCEPT !.count = None, !.ref = None, !.status = None] ELSE r: r \in turns}

DiffTurn(rows, e) ==
  [TurnRow(rows, e.turn, e.at) EXCEPT
     !.assistant = e.assistant,
     !.state = IF e.status = "error" THEN "error" ELSE "completed",
     !.count = e.count, !.ref = e.ref, !.status = e.status]

ProjectDiff(rows, e) ==
  [rows EXCEPT !.turns =
     UpsertTurn(ClearConflict(@, e.turn, e.count), DiffTurn(rows, e))]

(* Mutant: the turn reverted to goes as well. *)
KeptTurnsBefore(rows, n) == {r \in rows.turns: r.count # None /\ r.count < n}

(* The messages, plans and activities are pruned by the turns the revert     *)
(* keeps; the turns themselves (and with them the pending one) come last.    *)
KeptTurns(rows, n) == {r \in rows.turns: r.count # None /\ r.count <= n}

RowsInOrder(table) == InOrder(table, LAMBDA x, y: Later(y, x))

RetainRows(rows, n) ==
  LET kept  == KeptTurns(rows, n)
      turns == {r.turn: r \in kept}
      owned == {r.message: r \in kept} \union {r.assistant: r \in kept}
      first == {m \in rows.messages: \/ m.id \in owned
                                     \/ m.role = "system"
                                     \/ m.turn # None /\ m.turn \in turns}
  IN  ToSet(WithFallbacks(RowsInOrder(rows.messages), first, turns, n))

ProjectRevert(rows, e) ==
  LET kept  == KeptTurns(rows, e.count)
      turns == {r.turn: r \in kept}
      OfKept(table) == {x \in table: x.turn = None \/ x.turn \in turns}
  IN  [rows EXCEPT !.messages   = RetainRows(rows, e.count),
                   !.plans      = OfKept(@),
                   !.activities = OfKept(@),
                   !.turns      = kept,
                   !.pending    = NoPending]

(******************************** The fold *********************************)
ProjectRows(rows, e) ==
  CASE e.type = "thread.message-sent"           -> ProjectMessage(rows, e)
    [] e.type = "thread.turn-start-requested"   ->
         [rows EXCEPT !.pending = [message |-> e.id, at |-> e.at]]
    [] e.type = "thread.session-set"            -> ProjectSession(rows, e)
    [] e.type = "thread.turn-interrupt-requested" -> ProjectInterrupt(rows, e)
    [] e.type = "thread.turn-diff-completed"    -> ProjectDiff(rows, e)
    [] e.type = "thread.reverted"               -> ProjectRevert(rows, e)
    [] e.type = "thread.proposed-plan-upserted" ->
         [rows EXCEPT !.plans =
            UpsertRow(@, [id |-> e.id, turn |-> e.turn, at |-> e.at])]
    [] e.type = "thread.activity-appended"      ->
         [rows EXCEPT !.activities =
            UpsertRow(@, [id |-> e.id, turn |-> e.turn, at |-> e.at,
                          sequence |-> e.sequence])]
    [] OTHER                                    -> rows

(******************************** Hydration ********************************)
(* The latest turn is the one requested last, whatever the events said.      *)
RequestedLast(turns) ==
  LET Before(x, y) == \/ x.requested < y.requested
                      \/ x.requested = y.requested /\ x.turn < y.turn
      last == CHOOSE r \in turns: \A o \in turns \ {r}: Before(o, r)
  IN  IF turns = {} THEN NoTurn ELSE [turn |-> last.turn, state |-> last.state]

ByCount(checkpoints) == InOrder(checkpoints, LAMBDA x, y: HigherCount(y, x))

(* The checkpoints the rows hold. *)
CheckpointRows(turns) ==
  {[turn |-> r.turn, count |-> r.count, ref |-> r.ref, status |-> r.status]:
     r \in {x \in turns: x.count # None}}

HydrateThread(p, rows) ==
  [EmptyThread(p) EXCEPT
     !.messages    = RowsInOrder(rows.messages),
     !.plans       = RowsInOrder(rows.plans),
     !.activities  = InOrder(rows.activities, LAMBDA x, y: LaterActivity(y, x)),
     !.checkpoints = ByCount(CheckpointRows(rows.turns)),
     !.session     = rows.session,
     !.latestTurn  = RequestedLast(rows.turns)]
=============================================================================
