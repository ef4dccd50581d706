------------------------------ MODULE Decider ------------------------------
(***************************************************************************)
(* The decider: which commands the current read model allows, and which    *)
(* events an allowed command produces.  decideOrchestrationCommand checks  *)
(* the invariants of a command and returns one event (two for a turn       *)
(* start), so it is given here by Requires, the condition, and EventsOf,   *)
(* the events; it fails with an invariant error when Requires is false.    *)
(*                                                                         *)
(* A command is a record whose type is that of the code.  The fields that  *)
(* no invariant and no projection looks at are left out.                   *)
(***************************************************************************)
EXTENDS Projector

(*************************** Command invariants *****************************)
(* An entity that was deleted still exists: its entry stays in the model.    *)
ProjectExists(m, p) == m.projects[p] # None
ThreadExists(m, t) == m.threads[t] # None

requireProject(m, c) == ProjectExists(m, c.project)
requireProjectAbsent(m, c) == ~ProjectExists(m, c.project)
requireThread(m, c) == ThreadExists(m, c.thread)
requireThreadAbsent(m, c) == ~ThreadExists(m, c.thread)
requireThreadArchived(m, c) == requireThread(m, c) /\ m.threads[c.thread].archived
requireThreadNotArchived(m, c) == requireThread(m, c) /\ ~m.threads[c.thread].archived

(* A turn may start from a plan proposed on a thread of the same project.    *)
SourcePlanUsable(m, c) ==
  c.plan # None =>
    /\ ThreadExists(m, c.plan.thread)
    /\ \E p \in ToSet(m.threads[c.plan.thread].plans): p.id = c.plan.id
    /\ m.threads[c.plan.thread].project = m.threads[c.thread].project

Requires(c, m) ==
  CASE c.type = "project.create"      -> requireProjectAbsent(m, c)
    [] c.type \in {"project.meta.update", "project.delete"}
                                      -> requireProject(m, c)
    [] c.type = "thread.create"       -> requireProject(m, c)
                                           /\ requireThreadAbsent(m, c)
    [] c.type = "thread.archive"      -> requireThreadNotArchived(m, c)
    [] c.type = "thread.unarchive"    -> requireThreadArchived(m, c)
    [] c.type = "thread.turn.start"   -> requireThread(m, c)
                                           /\ SourcePlanUsable(m, c)
    [] OTHER                          -> requireThread(m, c)

(********************************* Events ***********************************)
UserMessage(c) ==
  [type |-> "thread.message-sent", thread |-> c.thread, id |-> c.message,
   role |-> "user", text |-> c.text, turn |-> None, streaming |-> FALSE,
   at |-> c.at]

AssistantMessage(c, text, streaming) ==
  [type |-> "thread.message-sent", thread |-> c.thread, id |-> c.message,
   role |-> "assistant", text |-> text, turn |-> c.turn,
   streaming |-> streaming, at |-> c.at]

(* The event of a command that is recorded as it came. *)
EventType ==
  [x \in {"project.create"}             |-> "project.created"] @@
  [x \in {"project.meta.update"}        |-> "project.meta-updated"] @@
  [x \in {"project.delete"}             |-> "project.deleted"] @@
  [x \in {"thread.create"}              |-> "thread.created"] @@
  [x \in {"thread.delete"}              |-> "thread.deleted"] @@
  [x \in {"thread.archive"}             |-> "thread.archived"] @@
  [x \in {"thread.unarchive"}           |-> "thread.unarchived"] @@
  [x \in {"thread.meta.update"}         |-> "thread.meta-updated"] @@
  [x \in {"thread.runtime-mode.set"}    |-> "thread.runtime-mode-set"] @@
  [x \in {"thread.interaction-mode.set"}|-> "thread.interaction-mode-set"] @@
  [x \in {"thread.turn.interrupt"}      |-> "thread.turn-interrupt-requested"] @@
  [x \in {"thread.approval.respond"}    |-> "thread.approval-response-requested"] @@
  [x \in {"thread.user-input.respond"}  |-> "thread.user-input-response-requested"] @@
  [x \in {"thread.checkpoint.revert"}   |-> "thread.checkpoint-revert-requested"] @@
  [x \in {"thread.session.stop"}        |-> "thread.session-stop-requested"] @@
  [x \in {"thread.session.set"}         |-> "thread.session-set"] @@
  [x \in {"thread.proposed-plan.upsert"}|-> "thread.proposed-plan-upserted"] @@
  [x \in {"thread.turn.diff.complete"}  |-> "thread.turn-diff-completed"] @@
  [x \in {"thread.revert.complete"}     |-> "thread.reverted"] @@
  [x \in {"thread.activity.append"}     |-> "thread.activity-appended"]

EventsOf(c) ==
  CASE c.type = "thread.turn.start" ->
         << UserMessage(c),
            [type |-> "thread.turn-start-requested", thread |-> c.thread,
             id |-> c.message, plan |-> c.plan, at |-> c.at] >>
    [] c.type = "thread.message.assistant.delta" ->
         << AssistantMessage(c, c.text, TRUE) >>
    [] c.type = "thread.message.assistant.complete" ->
         << AssistantMessage(c, <<>>, FALSE) >>
    [] OTHER -> << [c EXCEPT !.type = EventType[c.type]] >>
=============================================================================
