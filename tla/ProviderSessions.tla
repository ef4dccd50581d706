--------------------------- MODULE ProviderSessions ---------------------------
(***************************************************************************)
(* The provider session of one thread.  Four workers share it: the command *)
(* reactor, which serves what the user asks for, the checkpoint reactor,   *)
(* which rolls the conversation back, the reaper, which stops idle         *)
(* sessions, and the ingestion, which turns what the adapter reports into  *)
(* the session the thread shows.  The first three go through the provider  *)
(* service: a live session is looked up in the adapter and a lost one is   *)
(* recovered from the binding the session directory persists.              *)
(*                                                                         *)
(* Every call of the service is a sequence of steps, because it awaits the *)
(* adapter (a process) or the directory, and the others run in between.    *)
(* The adapter serialises starts and stops of a thread, nothing else does. *)
(* There is one provider: switching it is refused by the reactor, and its  *)
(* models are switched within a session.  Titles, branch names, approvals  *)
(* and answers of the user, which route like an interrupt, are left out.   *)
(* Every await of a caller may fail, the report of a failure included; the *)
(* dispatches of the ingestion do not.                                     *)
(***************************************************************************)
EXTENDS Integers, Sequences, FiniteSets

CONSTANTS
  None,
  Mode,          \* runtime modes of a thread
  DefaultMode,   \* the one assumed of a session nobody has bound yet
  Announce,      \* what an adapter emits when a session is open
  MaxTurns, MaxModes, MaxStops, MaxInterrupts, MaxRollbacks, MaxSweeps,
  MaxExits, MaxErrors, MaxCrashes, MaxFailures,  \* bounds, one by one
  MaxHappenings                                  \* ... and together

ASSUME ModeAssumption == DefaultMode \in Mode /\ None \notin Mode
ASSUME AnnounceAssumption ==
  Announce # {} /\ Announce \subseteq {"session.started", "session.state.changed"}
ASSUME BoundsAssumption ==
  \A n \in {MaxTurns, MaxModes, MaxStops, MaxInterrupts, MaxRollbacks, MaxSweeps,
            MaxExits, MaxErrors, MaxCrashes, MaxFailures, MaxHappenings}: n \in Nat

Turns == 1..MaxTurns
Caller == {"commands", "checkpoints", "reaper"}

(* A row of the session directory.                                           *)
Binding == [status: {"running", "stopped"}, mode: Mode \union {None}, idle: BOOLEAN,
            cursor: BOOLEAN]

(* The session a thread shows, and what an adapter reports.                  *)
Session == [status: {"none", "running", "ready", "error", "stopped"},
            mode: Mode \union {None}, turn: Turns \union {None}]
EventType == [type: {"session.started", "session.state.changed", "session.exited",
                     "turn.started", "turn.completed", "runtime.error"},
              turn: Turns \union {None}]

ASSUME NoneAssumption ==
  /\ None \notin Caller /\ None \notin Binding
  /\ None \notin [event: EventType, session: Session]

VARIABLES
  th,        \* the thread in the read model: its mode and the session it shows
  binding,   \* the row of the session directory, or None
  adapter,   \* the adapter's session and the provider process behind it
  lock,      \* who holds the adapter's lock for the thread
  call,      \* what every caller of the provider service is doing
  requests,  \* events the command reactor has yet to take
  events,    \* runtime events the ingestion has yet to take
  seen,      \* the one it took, with the session it read
  outcome,   \* what became of every turn the user asked for
  count      \* how often everything that is bounded happened

vars == <<th, binding, adapter, lock, call, requests, events, seen, outcome, count>>

NoSession == [status |-> "none", mode |-> None, turn |-> None]
(* The adapter's session; unrecorded: the directory failed to record it.     *)
NoAdapter == [entry |-> FALSE, alive |-> FALSE, mode |-> None,
              queue |-> <<>>, running |-> None, unrecorded |-> FALSE]
NoCall == [step |-> "idle", task |-> None, turn |-> None, mode |-> None, bind |-> FALSE]
NoCount == [turns |-> 0, modes |-> 0, stops |-> 0, interrupts |-> 0, rollbacks |-> 0,
            sweeps |-> 0, exits |-> 0, errors |-> 0, strays |-> 0, crashes |-> 0,
            failures |-> 0, lost |-> 0]

Init ==
  /\ \E m \in Mode: th = [mode |-> m, session |-> NoSession]
  /\ binding = None /\ adapter = NoAdapter /\ lock = None
  /\ call = [c \in Caller |-> NoCall]
  /\ requests = <<>> /\ events = <<>> /\ seen = None
  /\ outcome = [t \in Turns |-> "none"]
  /\ count = NoCount

(********************************** Bounds *********************************)
Happenings == count.turns + count.modes + count.stops + count.interrupts
              + count.rollbacks + count.sweeps + count.exits + count.errors
              + count.strays + count.crashes + count.failures
HappensTimes(n, what, max) ==
  /\ count[what] + n <= max /\ Happenings + n <= MaxHappenings
  /\ count' = [count EXCEPT ![what] = @ + n]
Happens(what, max) == HappensTimes(1, what, max)

(********************************* The user ********************************)
Request(r) == requests' = Append(requests, r)

AskTurn ==
  /\ Happens("turns", MaxTurns)
  /\ Request([task |-> "turn", turn |-> count'.turns])
  /\ UNCHANGED <<th, binding, adapter, lock, call, events, seen, outcome>>

SetMode(m) ==
  /\ Happens("modes", MaxModes) /\ m # th.mode
  /\ th' = [th EXCEPT !.mode = m]
  /\ Request([task |-> "mode", turn |-> None])
  /\ UNCHANGED <<binding, adapter, lock, call, events, seen, outcome>>

AskStop ==
  /\ Happens("stops", MaxStops)
  /\ Request([task |-> "stop", turn |-> None])
  /\ UNCHANGED <<th, binding, adapter, lock, call, events, seen, outcome>>

AskInterrupt ==
  /\ Happens("interrupts", MaxInterrupts)
  /\ Request([task |-> "interrupt", turn |-> None])
  /\ UNCHANGED <<th, binding, adapter, lock, call, events, seen, outcome>>

(******************************* The provider ******************************)
StartTurn ==
  /\ adapter.alive /\ adapter.running = None /\ adapter.queue # <<>>
  /\ adapter' = [adapter EXCEPT !.running = Head(adapter.queue), !.queue = Tail(@)]
  /\ events' = Append(events, [type |-> "turn.started", turn |-> adapter'.running])
  /\ UNCHANGED <<th, binding, lock, call, requests, seen, outcome, count>>

EndTurn ==
  /\ adapter.running # None
  /\ adapter' = [adapter EXCEPT !.running = None]
  /\ events' = Append(events, [type |-> "turn.completed", turn |-> adapter.running])
  /\ UNCHANGED <<th, binding, lock, call, requests, seen, outcome, count>>

(* The process ends by itself.  Some adapters then forget the session, others *)
(* keep it until it is stopped.                                              *)
ExitProcess ==
  /\ adapter.alive /\ Happens("exits", MaxExits)
  /\ \E kept \in BOOLEAN:
       adapter' = [NoAdapter EXCEPT !.entry = kept, !.mode = adapter.mode,
                                    !.unrecorded = adapter.unrecorded]
  /\ events' = Append(events, [type |-> "session.exited", turn |-> None])
  /\ UNCHANGED <<th, binding, lock, call, requests, seen, outcome>>

(* An error of the running turn, or one the adapter assigns to no turn (a     *)
(* line on stderr).                                                          *)
ReportError ==
  /\ adapter.alive
  /\ \E t \in {adapter.running, None}:
       /\ Happens(IF t = adapter.running THEN "errors" ELSE "strays", MaxErrors)
       /\ events' = Append(events, [type |-> "runtime.error", turn |-> t])
  /\ UNCHANGED <<th, binding, adapter, lock, call, requests, seen, outcome>>

(* Closing a session emits session.exited, unless the queue is shut down     *)
(* before anybody took it from there.                                        *)
CloseEntry ==
  /\ adapter' = NoAdapter
  /\ IF ~adapter.alive THEN UNCHANGED <<events, count>>
     ELSE \/ events' = Append(events, [type |-> "session.exited", turn |-> None])
             /\ UNCHANGED count
          \/ UNCHANGED events /\ count' = [count EXCEPT !.lost = 1]

(************************* The command reactor: input **********************)
HasSession == th.session.status \notin {"none", "stopped"}

Goto(c, s) == call' = [call EXCEPT ![c].step = s]
Begin(c, s, r, m, b) ==
  call' = [call EXCEPT ![c] = [step |-> s, task |-> r.task, turn |-> r.turn,
                               mode |-> m, bind |-> b]]
Finish(c) == call' = [call EXCEPT ![c] = NoCall]

(* The session is kept unless the thread has none, or one of another mode.   *)
EnsureSession(c, r) ==
  IF HasSession /\ th.session.mode = th.mode
  THEN IF r.task = "turn" THEN Begin(c, "resolve", r, None, FALSE) ELSE Finish(c)
  ELSE Begin(c, "close", r, th.mode, TRUE)

TakeRequest ==
  LET c == "commands" IN
  /\ call[c].step = "idle" /\ requests # <<>>
  /\ requests' = Tail(requests)
  /\ LET r == Head(requests)
     IN  CASE r.task = "turn" -> EnsureSession(c, r)
           [] r.task = "mode" -> IF HasSession THEN EnsureSession(c, r) ELSE Finish(c)
           [] r.task = "interrupt" ->
                IF HasSession THEN Begin(c, "resolve", r, None, FALSE) ELSE Finish(c)
           [] r.task = "stop" ->
                Begin(c, IF HasSession THEN "halt" ELSE "halted", r, th.session.mode, FALSE)
  /\ UNCHANGED <<th, binding, adapter, lock, events, seen, outcome, count>>

(**************************** The provider service *************************)
(* Mutant: the failure is only logged. *)
AbandonSilently(c, failures) ==
  /\ HappensTimes(failures, "failures", MaxFailures)
  /\ UNCHANGED outcome
  /\ Finish(c)

(* A failed call ends the request.  The failed start of a turn is told, by a  *)
(* dispatch that may fail as well, and that is only logged.                  *)
Abandon(c, failures) ==
  \E lost \in IF call[c].task = "turn" THEN {0, 1} ELSE {0}:
    /\ HappensTimes(failures + lost, "failures", MaxFailures)
    /\ outcome' = IF call[c].task # "turn" \/ outcome[call[c].turn] = "sent" THEN outcome
                  ELSE [outcome EXCEPT ![call[c].turn] = IF lost = 0 THEN "failed" ELSE "untold"]
    /\ Finish(c)

(* The session of the adapter is used, or one is opened from the binding.    *)
Resolve(c) ==
  /\ call[c].step = "resolve"
  /\ IF binding = None \/ (~adapter.entry /\ ~binding.cursor) THEN Abandon(c, 0)
     ELSE /\ call' = IF adapter.entry THEN [call EXCEPT ![c].step = "deliver"]
                     ELSE [call EXCEPT ![c].step = "close", ![c].mode = binding.mode]
          /\ UNCHANGED <<outcome, count>>
  /\ UNCHANGED <<th, binding, adapter, lock, requests, events, seen>>

(* Mutant: starts are not serialised. *)
CloseStaleUnlocked(c) ==
  /\ call[c].step = "close"
  /\ lock' = c
  /\ Goto(c, "open")
  /\ IF adapter.entry THEN CloseEntry ELSE UNCHANGED <<adapter, events, count>>
  /\ UNCHANGED <<th, binding, requests, seen, outcome>>

(* The adapter opens a session under its lock and closes the one there first. *)
CloseStale(c) ==
  /\ call[c].step = "close" /\ lock = None
  /\ lock' = c
  /\ Goto(c, "open")
  /\ IF adapter.entry THEN CloseEntry ELSE UNCHANGED <<adapter, events, count>>
  /\ UNCHANGED <<th, binding, requests, seen, outcome>>

OpenSession(c) ==
  /\ call[c].step = "open"
  /\ lock' = None
  /\ adapter' = [NoAdapter EXCEPT !.entry = TRUE, !.alive = TRUE, !.mode = call[c].mode]
  /\ \E a \in Announce: events' = Append(events, [type |-> a, turn |-> None])
  /\ Goto(c, "record")
  /\ UNCHANGED <<th, binding, requests, seen, outcome, count>>

(* What is awaited fails: the directory ("resolve", "close", "record", "note",  *)
(* "halt", "unbind"), the adapter ("open", "deliver"), a dispatch ("bind",   *)
(* "halted").  A failed start may have announced the session, and its end;   *)
(* what the directory fails to record stays open.                            *)
CallFails(c) ==
  LET opening == [type |-> "session.state.changed", turn |-> None]
      closed  == [type |-> "session.exited", turn |-> None]
  IN
  /\ call[c].step \notin {"idle", "halting"}
  /\ Abandon(c, 1)
  /\ lock' = IF lock = c THEN None ELSE lock
  /\ IF call[c].step = "open"
     THEN events' \in {events, Append(events, opening), Append(Append(events, opening), closed)}
     ELSE UNCHANGED events
  /\ adapter' = IF call[c].step = "record" THEN [adapter EXCEPT !.unrecorded = TRUE]
                ELSE adapter
  /\ UNCHANGED <<th, binding, requests, seen>>

(* Mutant: the binding of a recovered session keeps its status. *)
RecordSessionKeepsStatus(c) ==
  /\ call[c].step = "record"
  /\ \E known \in BOOLEAN:
       binding' = [status |-> IF binding = None THEN "running" ELSE binding.status,
                   mode |-> call[c].mode, idle |-> FALSE,
                   cursor |-> known \/ (binding # None /\ binding.cursor)]
  /\ Goto(c, IF call[c].bind THEN "bind" ELSE "deliver")
  /\ UNCHANGED <<th, adapter, lock, requests, events, seen, outcome, count>>

(* Some adapters know their resume cursor only after a turn.                 *)
RecordSession(c) ==
  /\ call[c].step = "record"
  /\ \E known \in BOOLEAN:
       binding' = [status |-> "running", mode |-> call[c].mode, idle |-> FALSE,
                   cursor |-> known \/ (binding # None /\ binding.cursor)]
  /\ Goto(c, IF call[c].bind THEN "bind" ELSE "deliver")
  /\ UNCHANGED <<th, adapter, lock, requests, events, seen, outcome, count>>

BindSession(c) ==
  /\ call[c].step = "bind"
  /\ th' = [th EXCEPT !.session = [status |-> "ready", mode |-> call[c].mode, turn |-> None]]
  /\ IF call[c].task = "turn" THEN Goto(c, "resolve") ELSE Finish(c)
  /\ UNCHANGED <<binding, adapter, lock, requests, events, seen, outcome, count>>

DeliverTurn(c) ==
  /\ call[c].step = "deliver" /\ call[c].task = "turn"
  /\ IF adapter.alive
     THEN /\ adapter' = [adapter EXCEPT !.queue = Append(@, call[c].turn)]
          /\ outcome' = [outcome EXCEPT ![call[c].turn] = "sent"]
          /\ Goto(c, "note") /\ UNCHANGED count
     ELSE Abandon(c, 0) /\ UNCHANGED adapter
  /\ UNCHANGED <<th, binding, lock, requests, events, seen>>

(* The running turn is interrupted; a rollback only needs the session.       *)
DeliverOther(c) ==
  /\ call[c].step = "deliver" /\ call[c].task # "turn"
  /\ Finish(c)
  /\ IF call[c].task = "interrupt" /\ adapter.running # None
     THEN /\ adapter' = [adapter EXCEPT !.running = None]
          /\ events' = Append(events, [type |-> "turn.completed", turn |-> adapter.running])
     ELSE UNCHANGED <<adapter, events>>
  /\ UNCHANGED <<th, binding, lock, requests, seen, outcome, count>>

NoteTurn(c) ==
  /\ call[c].step = "note"
  /\ binding' = [binding EXCEPT !.status = "running", !.cursor = TRUE, !.idle = FALSE]
  /\ Finish(c)
  /\ UNCHANGED <<th, adapter, lock, requests, events, seen, outcome, count>>

(* stopSession: without a binding it fails, without a session there is       *)
(* nothing to stop; a stop waits for a start that holds the lock.            *)
CheckSession(c) ==
  /\ call[c].step = "halt"
  /\ IF binding = None THEN Finish(c)
     ELSE Goto(c, IF adapter.entry THEN "halting" ELSE "unbind")
  /\ UNCHANGED <<th, binding, adapter, lock, requests, events, seen, outcome, count>>

StopEntry(c) ==
  /\ call[c].step = "halting" /\ lock = None
  /\ IF adapter.entry THEN CloseEntry ELSE UNCHANGED <<adapter, events, count>>
  /\ Goto(c, "unbind")
  /\ UNCHANGED <<th, binding, lock, requests, seen, outcome>>

Unbind(c) ==
  /\ call[c].step = "unbind"
  /\ binding' = [binding EXCEPT !.status = "stopped", !.idle = FALSE]
  /\ IF c = "commands" THEN Goto(c, "halted") ELSE Finish(c)
  /\ UNCHANGED <<th, adapter, lock, requests, events, seen, outcome, count>>

ShowStopped ==
  LET c == "commands" IN
  /\ call[c].step = "halted"
  /\ th' = [th EXCEPT !.session = [status |-> "stopped", mode |-> call[c].mode, turn |-> None]]
  /\ Finish(c)
  /\ UNCHANGED <<binding, adapter, lock, requests, events, seen, outcome, count>>

ServiceStep(c) ==
  \/ Resolve(c) \/ CloseStale(c) \/ OpenSession(c) \/ CallFails(c) \/ RecordSession(c)
  \/ BindSession(c) \/ DeliverTurn(c) \/ DeliverOther(c) \/ NoteTurn(c)
  \/ CheckSession(c) \/ StopEntry(c) \/ Unbind(c)

(**************** The other callers: checkpoint reactor, reaper ************)
RollBack ==
  LET c == "checkpoints" IN
  /\ call[c].step = "idle" /\ Happens("rollbacks", MaxRollbacks)
  /\ th.session.status # "running"
  /\ Begin(c, "resolve", [task |-> "rollback", turn |-> None], None, FALSE)
  /\ UNCHANGED <<th, binding, adapter, lock, requests, events, seen, outcome>>

Quiet == requests = <<>> /\ events = <<>> /\ seen = None
         /\ \A c \in Caller: call[c] = NoCall

(* The inactivity threshold is half an hour, and nothing is in progress then, *)
(* except, perhaps, a turn.                                                  *)
BecomeIdle ==
  /\ Quiet /\ binding # None /\ ~binding.idle
  /\ count.sweeps < MaxSweeps
  /\ binding' = [binding EXCEPT !.idle = TRUE]
  /\ UNCHANGED <<th, adapter, lock, call, requests, events, seen, outcome, count>>

(* Thread and binding are read when the sweep begins; the session is stopped *)
(* when those of the threads before it are.                                  *)
Sweep ==
  LET c == "reaper" IN
  /\ call[c].step = "idle" /\ Happens("sweeps", MaxSweeps)
  /\ binding # None /\ binding.status # "stopped" /\ binding.idle
  /\ th.session.turn = None
  /\ Begin(c, "halt", [task |-> "reap", turn |-> None], None, FALSE)
  /\ UNCHANGED <<th, binding, adapter, lock, requests, events, seen, outcome>>

(******************************* The ingestion *****************************)
Ingest ==
  /\ seen = None /\ events # <<>>
  /\ seen' = [event |-> Head(events), session |-> th.session]
  /\ events' = Tail(events)
  /\ UNCHANGED <<th, binding, adapter, lock, call, requests, outcome, count>>

(* Only the active turn may open or close the lifecycle of the session.      *)
Conflicts == seen.session.turn # None /\ seen.event.turn # seen.session.turn

(* Mutant: the exit of a session is ignored while a turn is active. *)
IgnoredWithExits ==
  Conflicts /\ seen.event.type \in {"turn.started", "turn.completed", "session.exited"}

Ignored ==
  /\ Conflicts
  /\ \/ seen.event.type \in {"turn.started", "turn.completed"}
     \/ seen.event.type = "runtime.error" /\ seen.event.turn # None

(* Mutant: only the end of the turn clears it. *)
NextTurnKeepsOnExit ==
  CASE seen.event.type \in {"turn.started", "runtime.error"} -> seen.event.turn
    [] seen.event.type = "turn.completed" -> None
    [] OTHER -> seen.session.turn

NextTurn ==
  CASE seen.event.type \in {"turn.started", "runtime.error"} -> seen.event.turn
    [] seen.event.type \in {"turn.completed", "session.exited"} -> None
    [] OTHER -> seen.session.turn

NextStatus ==
  CASE seen.event.type = "turn.started" -> "running"
    [] seen.event.type = "runtime.error" -> "error"
    [] seen.event.type = "session.exited" -> "stopped"
    [] seen.event.type = "session.started" ->
         IF seen.session.turn # None THEN "running" ELSE "ready"
    [] OTHER -> "ready"

IngestDispatch ==
  /\ seen # None /\ seen' = None
  /\ th' = IF Ignored THEN th
           ELSE [th EXCEPT !.session =
                   [status |-> NextStatus, turn |-> NextTurn,
                    mode |-> IF seen.session.mode = None THEN DefaultMode
                             ELSE seen.session.mode]]
  /\ UNCHANGED <<binding, adapter, lock, call, requests, events, outcome, count>>

(******************************** The server *******************************)
(* Queues and sessions are gone; the read model and the directory are not.   *)
(* An orderly shutdown marks the binding as stopped.                         *)
Restart ==
  /\ Happens("crashes", MaxCrashes)
  /\ \/ UNCHANGED binding
     \/ binding # None /\ binding' = [binding EXCEPT !.status = "stopped", !.idle = FALSE]
  /\ adapter' = NoAdapter /\ lock' = None
  /\ call' = [c \in Caller |-> NoCall]
  /\ requests' = <<>> /\ events' = <<>> /\ seen' = None
  /\ outcome' = [t \in Turns |-> IF t <= count.turns /\ outcome[t] = "none" THEN "lost"
                                 ELSE outcome[t]]
  /\ UNCHANGED th

(***************************** Specification *******************************)
Next ==
  \/ AskTurn \/ (\E m \in Mode: SetMode(m)) \/ AskStop \/ AskInterrupt
  \/ StartTurn \/ EndTurn \/ ExitProcess \/ ReportError
  \/ TakeRequest \/ (\E c \in Caller: ServiceStep(c)) \/ ShowStopped
  \/ RollBack \/ BecomeIdle \/ Sweep
  \/ Ingest \/ IngestDispatch
  \/ Restart

Spec == Init /\ [][Next]_vars

(* The workers never stop and adapters answer; users and turns may take their *)
(* time.                                                                     *)
FairSpec ==
  /\ Spec
  /\ WF_vars(TakeRequest \/ ShowStopped \/ ServiceStep("commands"))
  /\ WF_vars(ServiceStep("checkpoints")) /\ WF_vars(ServiceStep("reaper"))
  /\ WF_vars(Ingest \/ IngestDispatch)

(******************************* Properties ********************************)
(* Type correctness; in particular the adapter opens one session at a time:  *)
(* whoever opens one holds the lock, so no second process is started for the *)
(* thread and forgotten.                                                     *)
TypeOK ==
  /\ th.mode \in Mode
  /\ th.session \in Session
  /\ adapter.entry \in BOOLEAN /\ adapter.alive \in BOOLEAN
  /\ adapter.alive => adapter.entry
  /\ adapter.running \in Turns \union {None}
  /\ outcome \in [Turns -> {"none", "sent", "failed", "untold", "lost"}]
  /\ \A c \in Caller: call[c].step = "open" <=> lock = c

(* The active turn of a thread is the one the provider is running, once all  *)
(* is processed: nothing else clears it, and while it is set the session     *)
(* counts as busy, is never reaped, and no other turn becomes active ("Only  *)
(* the active turn may close the lifecycle state").  It holds while the      *)
(* server runs and as long as adapters report the end of what they close.    *)
ActiveTurnIsRunning ==
  Quiet /\ count.crashes = 0 /\ count.lost = 0
    => th.session.turn \in {None, adapter.running}

(* Conversely the thread shows the turn its provider is running ("maps turn  *)
(* started/completed events into thread session updates").                   *)
RunningTurnIsShown == Quiet => adapter.running \in {None, th.session.turn}

(* ... whatever else uses the session - rollbacks, the reaper, new modes, an *)
(* exit of the process, an error of the turn, a failed start - unless the    *)
(* user's stop, a restart of the server or an error of no turn came in       *)
(* between, which the ingestion takes for the end of the turn.               *)
RunningTurnIsShownWhileUp ==
  count.crashes + count.lost + count.stops + count.strays = 0 => RunningTurnIsShown

(* A live session has a binding that is not stopped, or the reaper would     *)
(* pass it over for ever: exits, restarts, failures and stops included.      *)
(* Excepted is the session whose opening the directory failed to record:     *)
(* nothing closes it then, and its binding stays absent or stopped.  And the *)
(* command reactor has to be the only one to call the service.               *)
LiveSessionIsBound ==
  Quiet /\ adapter.entry /\ ~adapter.unrecorded /\ count.rollbacks = 0 /\ count.sweeps = 0
    => binding # None /\ binding.status # "stopped"

(* No turn the user asked for hangs: it is handed to the provider or its     *)
(* failure is reported, unless the server stopped before.  The report is one *)
(* attempt: when that fails too ("untold"), the turn has ended in silence.   *)
TurnsAreAnswered == \A t \in Turns: count.turns >= t ~> outcome[t] # "none"
=============================================================================
