----------------------------- MODULE Projector -----------------------------
(***************************************************************************)
(* The in-memory projector: the fold that turns the event stream into the  *)
(* read model the decider and the reactors consult.  ProjectEvent is the   *)
(* function projectEvent of the code, one operator per kind of event.      *)
(*                                                                         *)
(* Times are numbers, a text is the sequence of its chunks, titles, modes, *)
(* branches and attachments are left out: no event handler branches on     *)
(* them.  The caps on list lengths are parameters.                         *)
(***************************************************************************)
EXTENDS Integers, SequencesExt

CONSTANTS
  Project, Thread,  \* aggregate ids
  None,             \* null, for a turn id or an entity that does not exist
  MaxMessages, MaxCheckpoints, MaxPlans, MaxActivities  \* caps on lists

NoSession == [status |-> "none", turn |-> None]
NoTurn == [turn |-> None, state |-> "none"]

EmptyThread(p) ==
  [project |-> p, archived |-> FALSE, deleted |-> FALSE, messages |-> <<>>,
   activities |-> <<>>, plans |-> <<>>, checkpoints |-> <<>>,
   session |-> NoSession, latestTurn |-> NoTurn]

(* createEmptyReadModel *)
EmptyReadModel ==
  [projects |-> [p \in Project |-> None], threads |-> [t \in Thread |-> None]]

(******************************** Lists ************************************)
(* list.slice(-n) *)
KeepLast(s, n) == IF Len(s) <= n THEN s ELSE SubSeq(s, Len(s) - n + 1, Len(s))

(* The entries of s that are in S, where and as often as they are in s.      *)
Select(s, S) ==
  LET selected[n \in 0..Len(s)] ==
        IF n = 0 THEN <<>>
        ELSE LET before == selected[n - 1]
             IN  IF s[n] \in S THEN Append(before, s[n]) ELSE before
  IN  selected[Len(s)]

(* The members of a finite set in the order Before, strict and total on it.  *)
InOrder(S, Before(_, _)) ==
  MapThenFoldSet(LAMBDA x, s: <<x>> \o s, <<>>, LAMBDA x: x,
                 LAMBDA T: CHOOSE x \in T: \A y \in T \ {x}: Before(x, y), S)

(* Appending x and sorting stably, in a list that After already orders.      *)
Insert(s, x, After(_, _)) ==
  LET behind == {y \in ToSet(s): After(y, x)}
  IN  Select(s, ToSet(s) \ behind) \o <<x>> \o Select(s, behind)

(* Replacing the entry that shares key K with x, or adding x.                *)
Upsert(s, x, K(_), After(_, _)) ==
  Insert(Select(s, {y \in ToSet(s): K(y) # K(x)}), x, After)

Later(x, y) == x.at > y.at \/ (x.at = y.at /\ x.id > y.id)
HigherCount(x, y) == x.count > y.count

(* compareThreadActivities: unsequenced ones first (sequence 0 stands for an *)
(* absent sequence), then by sequence, then by time.                         *)
LaterActivity(x, y) ==
  x.sequence > y.sequence \/ (x.sequence = y.sequence /\ Later(x, y))

(***************************** Turn states *********************************)
TurnStateOf(status) ==
  CASE status = "error"   -> "error"
    [] status = "missing" -> "interrupted"
    [] OTHER              -> "completed"

(******************************* Messages **********************************)
MessageSent(th, e) ==
  LET known == \E i \in DOMAIN th.messages: th.messages[i].id = e.id
      Merge(m) ==
        [m EXCEPT !.text = IF e.streaming THEN @ \o e.text
                           ELSE IF e.text # <<>> THEN e.text ELSE @,
                  !.streaming = e.streaming,
                  !.turn = e.turn]
      new == [id |-> e.id, role |-> e.role, text |-> e.text, turn |-> e.turn,
              streaming |-> e.streaming, at |-> e.at]
      all == IF known
             THEN [i \in DOMAIN th.messages |->
                     IF th.messages[i].id = e.id THEN Merge(th.messages[i])
                     ELSE th.messages[i]]
             ELSE Append(th.messages, new)
  IN  [th EXCEPT !.messages = KeepLast(all, MaxMessages)]

(* The oldest messages of a role, as many as are missing to have one for     *)
(* each of n turns, among those that belong to no turn or to a retained one. *)
Fallback(messages, kept, role, turns, n) ==
  LET of(S) == {m \in S: m.role = role}
      candidates == {m \in of(ToSet(messages) \ kept):
                       m.turn = None \/ m.turn \in turns}
      missing == n - Cardinality(of(kept))
  IN  {m \in candidates:
         Cardinality({o \in candidates: Later(m, o)}) < missing}

(* The part the in-memory and the SQL projection share: kept is what each    *)
(* retains before the fallbacks.                                             *)
WithFallbacks(messages, kept, turns, n) ==
  LET users == kept \union Fallback(messages, kept, "user", turns, n)
      all   == users \union Fallback(messages, users, "assistant", turns, n)
  IN  Select(messages, all)

RetainMessages(messages, turns, n) ==
  WithFallbacks(messages,
                {m \in ToSet(messages): m.role = "system" \/ m.turn \in turns},
                turns, n)

(* Plans and activities of no turn, or of a retained one.                    *)
RetainByTurn(s, turns) ==
  Select(s, {x \in ToSet(s): x.turn = None \/ x.turn \in turns})

(*********************** Sessions, turns, checkpoints **********************)
SessionSet(th, e) ==
  [th EXCEPT !.session = [status |-> e.status, turn |-> e.turn],
             !.latestTurn = IF e.status = "running" /\ e.turn # None
                            THEN [turn |-> e.turn, state |-> "running"]
                            ELSE @]

UpsertCheckpoint(checkpoints, c) ==
  Upsert(checkpoints, c, LAMBDA x: x.turn, HigherCount)

(* Mutant: a placeholder replaces a captured checkpoint. *)
TurnDiffCompletedUnguarded(th, e) ==
  [th EXCEPT !.checkpoints =
     KeepLast(UpsertCheckpoint(@, [turn |-> e.turn, count |-> e.count,
                                   ref |-> e.ref, status |-> e.status]),
              MaxCheckpoints)]

(* A placeholder never replaces a checkpoint captured for the same turn.     *)
TurnDiffCompleted(th, e) ==
  IF e.status = "missing" /\ \E i \in DOMAIN th.checkpoints:
       th.checkpoints[i].turn = e.turn /\ th.checkpoints[i].status # "missing"
  THEN th
  ELSE LET c == [turn |-> e.turn, count |-> e.count, ref |-> e.ref,
                 status |-> e.status]
       IN  [th EXCEPT
              !.checkpoints = KeepLast(UpsertCheckpoint(@, c), MaxCheckpoints),
              !.latestTurn = [turn  |-> e.turn,
                              state |-> TurnStateOf(e.status)]]

Reverted(th, e) ==
  LET checkpoints == Select(th.checkpoints,
                            {c \in ToSet(th.checkpoints): c.count <= e.count})
      turns == {checkpoints[i].turn: i \in DOMAIN checkpoints}
  IN  [th EXCEPT
         !.checkpoints = KeepLast(checkpoints, MaxCheckpoints),
         !.messages    = KeepLast(RetainMessages(@, turns, e.count), MaxMessages),
         !.plans       = KeepLast(RetainByTurn(@, turns), MaxPlans),
         !.activities  = RetainByTurn(@, turns),
         !.latestTurn  = IF checkpoints = <<>> THEN NoTurn
                         ELSE [turn  |-> Last(checkpoints).turn,
                               state |-> TurnStateOf(Last(checkpoints).status)]]

PlanUpserted(th, e) ==
  [th EXCEPT !.plans =
     KeepLast(Upsert(@, [id |-> e.id, turn |-> e.turn, at |-> e.at],
                     LAMBDA x: x.id, Later), MaxPlans)]

ActivityAppended(th, e) ==
  [th EXCEPT !.activities =
     KeepLast(Upsert(@, [id |-> e.id, turn |-> e.turn, at |-> e.at,
                         sequence |-> e.sequence],
                     LAMBDA x: x.id, LaterActivity), MaxActivities)]

(******************************** The fold *********************************)
(* Events of other types (intents such as thread.turn-start-requested) and   *)
(* events of unknown threads change nothing but the snapshot sequence.       *)
ProjectThread(th, e) ==
  CASE e.type = "thread.deleted"                -> [th EXCEPT !.deleted = TRUE]
    [] e.type = "thread.archived"               -> [th EXCEPT !.archived = TRUE]
    [] e.type = "thread.unarchived"             -> [th EXCEPT !.archived = FALSE]
    [] e.type = "thread.message-sent"           -> MessageSent(th, e)
    [] e.type = "thread.session-set"            -> SessionSet(th, e)
    [] e.type = "thread.proposed-plan-upserted" -> PlanUpserted(th, e)
    [] e.type = "thread.turn-diff-completed"    -> TurnDiffCompleted(th, e)
    [] e.type = "thread.reverted"               -> Reverted(th, e)
    [] e.type = "thread.activity-appended"      -> ActivityAppended(th, e)
    [] OTHER                                    -> th

(* A deleted project stays in the read model: the decider asks only whether  *)
(* the entry exists.                                                         *)
ProjectEvent(m, e) ==
  CASE e.type = "project.created" -> [m EXCEPT !.projects[e.project] = "live"]
    [] e.type = "project.deleted" ->
         [m EXCEPT !.projects[e.project] = IF @ = None THEN None ELSE "deleted"]
    [] e.type = "project.meta-updated" -> m
    [] e.type = "thread.created" ->
         [m EXCEPT !.threads[e.thread] = EmptyThread(e.project)]
    [] OTHER ->
         [m EXCEPT !.threads[e.thread] =
            IF @ = None THEN None ELSE ProjectThread(@, e)]

Fold(es) == FoldLeft(ProjectEvent, EmptyReadModel, es)
=============================================================================
