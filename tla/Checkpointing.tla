---------------------------- MODULE Checkpointing ----------------------------
(***************************************************************************)
(* How the turns of one thread become checkpoints, and how a revert takes  *)
(* them back.  Four actors share the thread: the user, the provider (an    *)
(* external process that edits the workspace), the ingestion worker, which *)
(* turns runtime events into commands, and the checkpoint reactor, which   *)
(* captures the workspace in git refs, one ref per turn count.             *)
(*                                                                         *)
(* A dispatched command is one step: the engine processes one at a time    *)
(* and projects its events into the read model and into the SQL rows       *)
(* together.  The workers read the read model at one step and dispatch at  *)
(* a later one, and everybody else may act in between.                     *)
(*                                                                         *)
(* The reactor hears domain events and runtime events through two          *)
(* subscriptions that feed one queue; taking from either subscription is   *)
(* the same as merging them.  The thread is in a git repository and bound  *)
(* to a provider session with a working directory, except where            *)
(* RefuseRevert says otherwise.  Test receipts, cache refreshes and the    *)
(* activities that only tell the user what happened are left out.          *)
(***************************************************************************)
EXTENDS ThreadProjection

CONSTANTS
  ProviderDiff,  \* a checkpoint ref that names no git ref: a placeholder's
  TurnEnd,       \* the runtime states a turn may end in
  Calm,          \* the user waits until everything is processed
  MaxTurns, MaxDiffs, MaxReverts, MaxFailures, \* bounds
  MaxDisturbances \* ... and one on reported diffs and revert requests together

ASSUME BoundsAssumption ==
  /\ MaxTurns \in Nat /\ MaxDiffs \in Nat /\ MaxReverts \in Nat
  /\ MaxFailures \in Nat /\ MaxDisturbances \in Nat /\ MaxCheckpoints \in Nat
ASSUME ValuesAssumption ==
  /\ TurnEnd \subseteq {"completed", "failed", "cancelled", "interrupted"}
  /\ Calm \in BOOLEAN
  /\ None \notin Nat /\ ProviderDiff \notin Nat /\ None # ProviderDiff

Turns == 1..MaxTurns

VARIABLES
  th,           \* the thread in the engine's read model
  rows,         \* the thread in the SQL tables
  sent,         \* the turns the user asked for
  provider,     \* the turn the provider started last, and whether it runs
  conversation, \* the turns in the provider's own history
  workspace,    \* the version of the files
  edits,        \* versions made so far
  clock,        \* time, as far as anything compares it
  ingest,       \* runtime events the ingestion worker has yet to take
  seen,         \* the event it took, with what it read
  domainIn,     \* the reactor's subscriptions: domain events
  runtimeIn,    \*   and runtime events
  job,          \* what the reactor is doing
  refs,         \* git: the version captured, for the turn counts that have a ref
  torn,         \* refs deleted by a revert that could not be recorded
  asked,        \* revert requests made
  answered,     \* revert requests that ended, well or with an error activity
  untold,       \* revert requests that ended without: that activity failed, too
  diffs,        \* turn.diff.updated events so far
  failures      \* failures so far

engine == <<th, rows>>
world  == <<sent, provider, conversation, workspace, edits, clock, diffs>>
reactor == <<job, refs, torn, answered, untold>>
vars   == <<engine, world, ingest, seen, domainIn, runtimeIn, reactor, asked, failures>>

NoJob == [step |-> "idle", turn |-> None, count |-> 0, status |-> "none",
          ref |-> None, current |-> 0, stale |-> {}]

UserMessageOf(k) == 2 * k
AssistantMessageOf(t) == 2 * t + 1

Init ==
  /\ th = EmptyThread("p") /\ rows = EmptyRows
  /\ sent = 0 /\ provider = [turn |-> 0, running |-> FALSE] /\ conversation = <<>>
  /\ workspace = 0 /\ edits = 0 /\ clock = 0
  /\ ingest = <<>> /\ seen = None /\ domainIn = <<>> /\ runtimeIn = <<>>
  /\ job = NoJob /\ refs = [n \in {} |-> 0] /\ torn = {}
  /\ asked = 0 /\ answered = 0 /\ untold = 0 /\ diffs = 0 /\ failures = 0

(******************************** The engine *******************************)
(* What the reactor's subscription lets through.  A user message is followed *)
(* by the turn start of the same command, whose handling is the same.        *)
Watched(e) == e.type \in {"thread.turn-start-requested",
                          "thread.checkpoint-revert-requested",
                          "thread.turn-diff-completed"}

(* No command here has more than two events. *)
Projected(x, es, Step(_, _)) ==
  CASE Len(es) = 0 -> x
    [] Len(es) = 1 -> Step(x, es[1])
    [] Len(es) = 2 -> Step(Step(x, es[1]), es[2])

Dispatch(es) ==
  /\ th' = Projected(th, es, ProjectThread)
  /\ rows' = Projected(rows, es, ProjectRows)
  /\ domainIn' = domainIn \o Select(es, {e \in ToSet(es): Watched(e)})

MaxCount(checkpoints) ==
  Max({c.count: c \in ToSet(checkpoints)} \union {0})

(* A checkpoint that is more than a placeholder. *)
Captured(checkpoints, t) ==
  \E c \in ToSet(checkpoints): c.turn = t /\ c.status # "missing"

DiffEvent(t, n, ref, status) ==
  [type |-> "thread.turn-diff-completed", turn |-> t, count |-> n, ref |-> ref,
   status |-> status, assistant |-> AssistantMessageOf(t), at |-> clock]

SessionEvent(status, t) ==
  [type |-> "thread.session-set", status |-> status, turn |-> t, at |-> clock]

(********************************* The user ********************************)
Settled ==
  /\ domainIn = <<>> /\ runtimeIn = <<>> /\ ingest = <<>> /\ seen = None
  /\ job = NoJob /\ ~provider.running /\ provider.turn = sent

SendMessage ==
  /\ sent < MaxTurns /\ (Calm => Settled)
  /\ sent' = sent + 1 /\ clock' = clock + 1
  /\ Dispatch(<< [type |-> "thread.message-sent", id |-> UserMessageOf(sent'),
                  role |-> "user", text |-> <<>>, turn |-> None,
                  streaming |-> FALSE, at |-> clock'],
                 [type |-> "thread.turn-start-requested",
                  id |-> UserMessageOf(sent'), at |-> clock'] >>)
  /\ UNCHANGED <<provider, conversation, workspace, edits, diffs, ingest, seen,
                 runtimeIn, reactor, asked, failures>>

(* The client offers the turn counts it knows, and none while a turn runs.   *)
AskRevert ==
  /\ asked < MaxReverts /\ asked + diffs < MaxDisturbances
  /\ (Calm => Settled)
  /\ th.session.status # "running"
  /\ \E n \in 0..MaxCount(th.checkpoints):
       Dispatch(<<[type |-> "thread.checkpoint-revert-requested", count |-> n]>>)
  /\ asked' = asked + 1
  /\ UNCHANGED <<world, ingest, seen, runtimeIn, reactor, failures>>

(******************************* The provider ******************************)
(* The ingestion hears every runtime event, the reactor the ends of turns.   *)
Emit(e) ==
  /\ ingest' = Append(ingest, e)
  /\ runtimeIn' = IF e.type = "turn.diff.updated" THEN runtimeIn
                  ELSE Append(runtimeIn, e)

StartTurn ==
  /\ ~provider.running /\ provider.turn < sent
  /\ provider' = [turn |-> provider.turn + 1, running |-> TRUE]
  /\ conversation' = Append(conversation, provider.turn + 1)
  /\ Emit([type |-> "turn.started", turn |-> provider.turn + 1])
  /\ UNCHANGED <<engine, sent, workspace, edits, clock, diffs, seen, domainIn,
                 reactor, asked, failures>>

EditFiles ==
  /\ provider.running /\ diffs < MaxDiffs /\ asked + diffs < MaxDisturbances
  /\ diffs' = diffs + 1 /\ edits' = edits + 1 /\ workspace' = edits'
  /\ Emit([type |-> "turn.diff.updated", turn |-> provider.turn])
  /\ UNCHANGED <<engine, sent, provider, conversation, clock, seen, domainIn,
                 reactor, asked, failures>>

EndTurn ==
  /\ provider.running
  /\ provider' = [provider EXCEPT !.running = FALSE]
  /\ edits' = edits + 1 /\ workspace' = edits' /\ clock' = clock + 1
  /\ \E state \in TurnEnd:
       Emit([type |-> "turn.completed", turn |-> provider.turn,
             state |-> state, at |-> clock'])
  /\ UNCHANGED <<engine, sent, conversation, diffs, seen, domainIn, reactor,
                 asked, failures>>

(******************************* The ingestion *****************************)
Ingest ==
  /\ seen = None /\ ingest # <<>>
  /\ seen' = [event |-> Head(ingest), active |-> th.session.turn,
              checkpoints |-> th.checkpoints]
  /\ ingest' = Tail(ingest)
  /\ UNCHANGED <<engine, world, domainIn, runtimeIn, reactor, asked, failures>>

(* Only the active turn may open or close the lifecycle of the session.      *)
AppliesLifecycle == seen.active = None \/ seen.active = seen.event.turn

(* At the end of a turn the session is set and the assistant's message       *)
(* completed; the message itself is buffered until then.  No other step      *)
(* reads what the first of the two dispatches writes and then writes what    *)
(* the second one reads, so they are one step here.                          *)
IngestCommands ==
  LET t == seen.event.turn
      session(status, turn) == IF AppliesLifecycle
                               THEN <<SessionEvent(status, turn)>> ELSE <<>>
  IN  CASE seen.event.type = "turn.started" -> session("running", t)
        [] seen.event.type = "turn.completed" ->
             session(IF seen.event.state = "failed" THEN "error" ELSE "ready", None)
               \o << [type |-> "thread.message-sent", id |-> AssistantMessageOf(t),
                      role |-> "assistant", text |-> <<>>, turn |-> t,
                      streaming |-> FALSE, at |-> seen.event.at] >>
        [] seen.event.type = "turn.diff.updated" ->
             IF \E c \in ToSet(seen.checkpoints): c.turn = t THEN <<>>
             ELSE << DiffEvent(t, MaxCount(seen.checkpoints) + 1, ProviderDiff,
                               "missing") >>

IngestDispatch ==
  /\ seen # None /\ seen' = None
  /\ \/ Dispatch(IngestCommands) /\ UNCHANGED failures
     \/ failures < MaxFailures /\ failures' = failures + 1
          /\ UNCHANGED <<engine, domainIn>>
  /\ UNCHANGED <<world, ingest, runtimeIn, reactor, asked>>

(**************************** The reactor: input ***************************)
Idle == job.step = "idle"
HasRef(n) == n \in DOMAIN refs
Unjobbed == UNCHANGED <<refs, torn>>

(* Mutant: the baseline is captured at the count of the turn to come. *)
EnsureBaselineOfNext ==
  LET n == MaxCount(th.checkpoints) + 1
  IN  job' = IF HasRef(n) THEN NoJob
             ELSE [NoJob EXCEPT !.step = "baseline", !.count = n]

(* The baseline of the turn to come is captured unless its ref exists.       *)
EnsureBaseline ==
  LET n == MaxCount(th.checkpoints)
  IN  job' = IF HasRef(n) THEN NoJob
             ELSE [NoJob EXCEPT !.step = "baseline", !.count = n]

CaptureJob(t, n, status) ==
  [NoJob EXCEPT !.step = "capture", !.turn = t, !.count = n, !.status = status]

CapturePlaceholder(e) ==
  job' = IF e.status # "missing" \/ Captured(th.checkpoints, e.turn) THEN NoJob
         ELSE CaptureJob(e.turn, e.count, "ready")

(* Mutant: the status is the state the provider reported. *)
StatusAsReported(state) == state

StatusFromRuntime(state) ==
  CASE state = "failed"                        -> "error"
    [] state \in {"cancelled", "interrupted"} -> "missing"
    [] OTHER                                   -> "ready"

(* Mutant: the next count is the current one. *)
CaptureCompletionSameCount(e) ==
  job' = IF Captured(th.checkpoints, e.turn) THEN NoJob
         ELSE CaptureJob(e.turn, MaxCount(th.checkpoints),
                         StatusFromRuntime(e.state))

(* Only the active turn, if there is one, is captured at its end, at the     *)
(* count of its placeholder or at the next one.                              *)
CaptureCompletion(e) ==
  LET active == th.session.turn
      own == {c \in ToSet(th.checkpoints): c.turn = e.turn}
      n == IF own = {} THEN MaxCount(th.checkpoints) + 1
           ELSE (CHOOSE c \in own: TRUE).count
  IN  job' = IF (active # None /\ active # e.turn) \/ Captured(th.checkpoints, e.turn)
             THEN NoJob
             ELSE CaptureJob(e.turn, n, StatusFromRuntime(e.state))

(* Mutant: the newest checkpoint is restored. *)
RevertTargetNewest(n) ==
  IF th.checkpoints = <<>> THEN 0 ELSE Last(th.checkpoints).ref

(* The git ref a revert to turn count n restores: the baseline's for 0, else *)
(* the one the first checkpoint of that count names.                         *)
RevertTarget(n) ==
  LET of == Select(th.checkpoints, {c \in ToSet(th.checkpoints): c.count = n})
  IN  IF n = 0 THEN 0 ELSE IF of = <<>> THEN None ELSE Head(of).ref

(* A request is not carried out, for want of something or because a step     *)
(* failed.  The activity that says so is dispatched, and dispatched again    *)
(* when a second handler is left; the failure of the last one is swallowed.  *)
NotReverted(failed, dispatches) ==
  \E lost \in 0..dispatches:
    /\ failures' = failures + failed + lost /\ failures' <= MaxFailures
    /\ IF lost < dispatches THEN answered' = answered + 1 /\ UNCHANGED untold
                            ELSE untold' = untold + 1 /\ UNCHANGED answered

GoesOn == UNCHANGED <<answered, untold, failures>>

(* Mutant: the ref reverted to is stale too. *)
BeginRevertInclusive(n) ==
  /\ GoesOn
  /\ job' = [NoJob EXCEPT
               !.step = "restore", !.count = n, !.ref = RevertTarget(n),
               !.current = MaxCount(th.checkpoints),
               !.stale = {c.ref: c \in {x \in ToSet(th.checkpoints): x.count >= n}}]

BeginRevert(n) ==
  LET current == MaxCount(th.checkpoints)
      refused == n > current \/ RevertTarget(n) = None
  IN  /\ IF refused THEN NotReverted(0, 1) ELSE GoesOn
      /\ job' = IF refused THEN NoJob
                ELSE [NoJob EXCEPT
                        !.step = "restore", !.count = n, !.current = current,
                        !.ref = RevertTarget(n),
                        !.stale = {c.ref: c \in {x \in ToSet(th.checkpoints):
                                                x.count > n}}]

TakeDomain ==
  /\ Idle /\ domainIn # <<>>
  /\ LET e == Head(domainIn)
     IN  CASE e.type = "thread.turn-start-requested" ->
                EnsureBaseline /\ GoesOn
           [] e.type = "thread.turn-diff-completed" ->
                CapturePlaceholder(e) /\ GoesOn
           [] e.type = "thread.checkpoint-revert-requested" -> BeginRevert(e.count)
  /\ domainIn' = Tail(domainIn)
  /\ Unjobbed
  /\ UNCHANGED <<engine, world, ingest, seen, runtimeIn, asked>>

TakeRuntime ==
  /\ Idle /\ runtimeIn # <<>>
  /\ LET e == Head(runtimeIn)
     IN  IF e.type = "turn.started" THEN EnsureBaseline ELSE CaptureCompletion(e)
  /\ runtimeIn' = Tail(runtimeIn)
  /\ Unjobbed
  /\ UNCHANGED <<engine, world, ingest, seen, domainIn, asked>> /\ GoesOn

(************************** The reactor: captures **************************)
Outside == UNCHANGED <<world, ingest, seen, runtimeIn, asked>>

Capture ==
  refs' = [n \in DOMAIN refs \union {job.count} |->
             IF n = job.count THEN workspace ELSE refs[n]]

CaptureBaseline ==
  /\ job.step = "baseline" /\ Capture
  /\ job' = NoJob
  /\ UNCHANGED <<engine, domainIn, torn>> /\ GoesOn /\ Outside

(* Capture, then diff against the previous count (without a ref for it the   *)
(* checkpoint has no files, and an activity says so), then dispatch.         *)
CaptureRef ==
  /\ job.step = "capture" /\ Capture
  /\ job' = [job EXCEPT !.step = "record"]
  /\ UNCHANGED <<engine, domainIn, torn>> /\ GoesOn /\ Outside

RecordCheckpoint ==
  /\ job.step = "record"
  /\ Dispatch(<<DiffEvent(job.turn, job.count, job.count, job.status)>>)
  /\ job' = NoJob
  /\ UNCHANGED <<refs, torn>> /\ GoesOn /\ Outside

(* git or the dispatch fails: an error activity or a log line is all.        *)
CaptureFails ==
  /\ job.step \in {"baseline", "capture", "record"} /\ failures < MaxFailures
  /\ failures' = failures + 1
  /\ job' = NoJob
  /\ UNCHANGED <<engine, domainIn, refs, torn, answered, untold>> /\ Outside

(*************************** The reactor: reverts **************************)
IsGitRef(r) == r # ProviderDiff
HeadVersion == 0  \* the commit the thread started from

RestoreFiles ==
  /\ job.step = "restore"
  /\ IF IsGitRef(job.ref) /\ (HasRef(job.ref) \/ job.count = 0)
     THEN /\ workspace' = IF HasRef(job.ref) THEN refs[job.ref] ELSE HeadVersion
          /\ job' = [job EXCEPT !.step = "rollback"]
          /\ GoesOn
     ELSE /\ NotReverted(0, 1)
          /\ job' = NoJob
          /\ UNCHANGED workspace
  /\ UNCHANGED <<engine, sent, provider, conversation, edits, clock, diffs, ingest,
                 seen, domainIn, runtimeIn, refs, torn, asked>>

(* Mutant: one turn too few is rolled back. *)
RollbackConversationShort ==
  /\ job.step = "rollback"
  /\ LET turns == IF job.current > job.count THEN job.current - job.count - 1 ELSE 0
         left == Len(conversation) - turns
     IN  conversation' = SubSeq(conversation, 1, IF left < 0 THEN 0 ELSE left)
  /\ job' = [job EXCEPT !.step = "delete"]
  /\ UNCHANGED <<engine, sent, provider, workspace, edits, clock, diffs, ingest, seen,
                 domainIn, runtimeIn, refs, torn, asked>> /\ GoesOn

RollbackConversation ==
  /\ job.step = "rollback"
  /\ LET left == Len(conversation) - (job.current - job.count)
     IN  conversation' = SubSeq(conversation, 1, IF left < 0 THEN 0 ELSE left)
  /\ job' = [job EXCEPT !.step = "delete"]
  /\ UNCHANGED <<engine, sent, provider, workspace, edits, clock, diffs, ingest, seen,
                 domainIn, runtimeIn, refs, torn, asked>> /\ GoesOn

DeleteStaleRefs ==
  /\ job.step = "delete"
  /\ refs' = [n \in DOMAIN refs \ job.stale |-> refs[n]]
  /\ job' = [job EXCEPT !.step = "complete"]
  /\ UNCHANGED <<engine, domainIn, torn>> /\ GoesOn /\ Outside

RecordRevert ==
  /\ job.step = "complete"
  /\ Dispatch(<<[type |-> "thread.reverted", count |-> job.count]>>)
  /\ answered' = answered + 1
  /\ job' = NoJob
  /\ UNCHANGED <<refs, torn, untold, failures>> /\ Outside

(* Mutant: nobody is told. *)
RevertFailsSilently ==
  /\ job.step \in {"restore", "rollback", "delete", "complete"}
  /\ failures < MaxFailures /\ failures' = failures + 1
  /\ torn' = IF job.step = "complete" THEN torn \union job.stale ELSE torn
  /\ job' = NoJob
  /\ UNCHANGED <<engine, domainIn, refs, answered, untold>> /\ Outside

(* What was done until then stays done.  The last step has a handler of its  *)
(* own, whose failure goes on to the handler of the whole.                   *)
RevertFails ==
  /\ job.step \in {"restore", "rollback", "delete", "complete"}
  /\ NotReverted(1, IF job.step = "complete" THEN 2 ELSE 1)
  /\ torn' = IF job.step = "complete" THEN torn \union job.stale ELSE torn
  /\ job' = NoJob
  /\ UNCHANGED <<engine, domainIn, refs>> /\ Outside

(* There is no thread, no session with a directory, or no git repository, or *)
(* asking for them failed.                                                   *)
RefuseRevert ==
  /\ Idle /\ domainIn # <<>>
  /\ Head(domainIn).type = "thread.checkpoint-revert-requested"
  /\ NotReverted(1, 1)
  /\ domainIn' = Tail(domainIn)
  /\ UNCHANGED <<engine, job, refs, torn>> /\ Outside

(***************************** Specification *******************************)
ReactorStep ==
  \/ TakeDomain \/ TakeRuntime \/ RefuseRevert
  \/ CaptureBaseline \/ CaptureRef \/ RecordCheckpoint \/ CaptureFails
  \/ RestoreFiles \/ RollbackConversation \/ DeleteStaleRefs \/ RecordRevert
  \/ RevertFails

Next ==
  \/ SendMessage \/ AskRevert
  \/ StartTurn \/ EditFiles \/ EndTurn
  \/ Ingest \/ IngestDispatch
  \/ ReactorStep

Spec == Init /\ [][Next]_vars

(* The reactor never stops; nobody else has to do anything.                  *)
FairSpec == Spec /\ WF_vars(ReactorStep)

(******************************* Properties ********************************)
(* What the server would load into its read model if it started now.         *)
Loaded == HydrateThread("p", rows)

(* Type correctness; in particular sessions, turns and checkpoints take the  *)
(* states of the code, a checkpoint names the ref of its own turn count, and *)
(* no request ends twice.                                                    *)
TypeOK ==
  /\ \A c \in ToSet(th.checkpoints):
       /\ c.turn \in Turns /\ c.count \in Nat \ {0}
       /\ c.status \in {"ready", "missing", "error"}
       /\ c.ref \in {c.count, ProviderDiff}
  /\ th.session.status \in {"none", "running", "ready", "error"}
  /\ th.session.turn \in Turns \union {None}
  /\ {r.state: r \in rows.turns} \subseteq {"running", "completed", "error"}
  /\ DOMAIN refs \subseteq Nat /\ \A n \in DOMAIN refs: refs[n] \in 0..edits
  /\ workspace \in 0..edits
  /\ job.count \in Nat /\ job.turn \in Turns \union {None}
  /\ answered \in Nat /\ untold \in Nat /\ answered + untold <= asked
  /\ failures \in 0..MaxFailures

(* A checkpoint that names a git ref can be restored, in the read model and  *)
(* after a restart: no revert deletes the ref of a checkpoint it leaves in   *)
(* the thread, unless recording that very revert failed, or is yet to come.  *)
CheckpointsAreRestorable ==
  \A c \in ToSet(th.checkpoints) \union ToSet(Loaded.checkpoints):
    IsGitRef(c.ref) =>
      \/ HasRef(c.ref)
      \/ c.ref \in torn
      \/ job.step = "complete" /\ c.ref \in job.stale

(* Whatever the workers read and however late they dispatch, a captured      *)
(* checkpoint of the read model is never replaced by a placeholder, and it   *)
(* goes only when a revert to an earlier turn count is recorded.             *)
CapturesLast ==
  [][\A c \in ToSet(th.checkpoints):
       c.status # "missing" =>
         \/ Captured(th'.checkpoints, c.turn)
         \/ job.step = "complete" /\ job.count < c.count]_vars

(* The same of the rows: projector.ts:533 and ProviderRuntimeIngestion.ts:1322 *)
(* say a placeholder does not clobber a real capture.                        *)
StoredCapturesLast ==
  [][\A c \in ToSet(Loaded.checkpoints):
       c.status # "missing" =>
         \/ Captured(Loaded.checkpoints, c.turn)'
         \/ job.step = "complete" /\ job.count < c.count]_vars

(* When a checkpoint is captured the ref it is compared with exists, so that *)
(* the turn has a diff: the baseline is captured before the first turn ends, *)
(* whichever subscription is served first, as long as nothing failed, no     *)
(* revert was asked for and the provider reported no diff of its own.        *)
DiffHasBaseline ==
  job.step = "record" /\ failures = 0 /\ asked = 0 /\ diffs = 0
    => HasRef(job.count - 1)

(* The capture of a turn that did not end by itself is recorded as "missing" *)
(* and taken for a placeholder, which is then captured again.               *)
Uninterrupted == TurnEnd \subseteq {"completed", "failed"}

(* Whoever races with whom and whatever fails, the captured turns of a       *)
(* thread are counted from one without a gap, so that no two share a ref, if *)
(* the provider reports no diffs: only the reactor then assigns counts.      *)
CapturesAreNumbered ==
  diffs = 0 /\ Uninterrupted =>
    \A i \in DOMAIN th.checkpoints: th.checkpoints[i].count = i

(* A restart changes neither the session nor, under the same condition, the  *)
(* checkpoints: the rows and the read model, two folds of the same events,   *)
(* agree on them.                                                            *)
RestartKeepsCheckpoints ==
  /\ Loaded.session = th.session
  /\ diffs = 0 /\ Uninterrupted => Loaded.checkpoints = th.checkpoints

(* Nor, for a user who waits and while nothing fails, the messages: the rows *)
(* and the read model prune them by different rules, which retain the same.  *)
RestartKeepsMessages ==
  failures = 0 => ToSet(Loaded.messages) = ToSet(th.messages)

(* For a user who waits for everything to be processed, and while nothing    *)
(* fails: the turns of the checkpoints are the turns the provider remembers, *)
(* counted from one, so that a revert rolls back the turns it names.         *)
CheckpointsAreTheConversation ==
  Settled /\ failures = 0 =>
    [i \in DOMAIN th.checkpoints |-> th.checkpoints[i].turn] = conversation
      /\ \A i \in DOMAIN th.checkpoints: th.checkpoints[i].count = i

(* ... and the files are those of the last checkpoint, so that they, the     *)
(* conversation and the thread go back together: "Checkpoint: a saved        *)
(* snapshot of a thread workspace at a particular turn".  It holds for a     *)
(* provider that reports no diffs; after a turn.diff.updated the placeholder *)
(* leads to a capture in mid-turn, and the end of the turn is not captured.  *)
FilesAreTheLastCheckpoint ==
  Settled /\ failures = 0 =>
    LET n == MaxCount(th.checkpoints)
    IN  workspace = IF HasRef(n) THEN refs[n] ELSE HeadVersion

(* Every revert request ends, whatever fails on the way: the thread is       *)
(* reverted, or an activity tells the user that it was not, or, the one      *)
(* exception, dispatching that activity failed as well (at the last step,    *)
(* both times): CheckpointReactor.ts:597 and the other refusals swallow that *)
(* failure, and the reactor only logs the one of line 721.                   *)
RevertIsAnswered == asked > answered + untold ~> asked = answered + untold
=============================================================================
