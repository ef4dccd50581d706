------------------------------- MODULE Terminals -------------------------------
(***************************************************************************)
(* The terminal manager.  A terminal has a session, which stays listed     *)
(* when its shell has exited, until it is closed or, when too many         *)
(* sessions are inactive, evicted; its history is written to a file by a   *)
(* keyed coalescing worker (see KeyedCoalescingWorker: one value waits     *)
(* per key, one key is written at a time).                                 *)
(*                                                                         *)
(* Requests for a thread hold its lock; here every terminal is a thread of *)
(* its own.  A request gives way to others only where it awaits the file   *)
(* system, the worker or the start of a shell; output and exit of a shell  *)
(* are handled at once when they come in and are under no lock.            *)
(*                                                                         *)
(* A history is the sequence of its chunks.  A shell may print for ever.   *)
(* Sizes, environments, the polling for subprocesses and the migration of  *)
(* old file names are left out, and so is the shutdown of the manager.     *)
(***************************************************************************)
EXTENDS Integers, SequencesExt

CONSTANTS
  Terminal,
  None,
  Chunk,         \* what a shell may print at a time
  MaxRetained,   \* inactive sessions kept (128)
  HistoryLimit,  \* chunks of a history kept (5000 lines)
  MaxRequests,   \* bound
  MaxHappenings  \* bound: exits and failures together

ASSUME TerminalsAssumption ==
  /\ None \notin Terminal /\ None \notin Seq(Chunk)
  /\ \A n \in {MaxRetained, HistoryLimit, MaxRequests, MaxHappenings}: n \in Nat

VARIABLES
  session,   \* session[o]: every session object there ever was
  listed,    \* listed[t]: the one the manager has for t (0: none)
  recent,    \* the objects, ordered by their last update
  process,   \* process[p]: the shells started, by pid
  call,      \* call[t]: the request that holds the lock of t
  waiting,   \* waiting[t]: the history the worker has yet to take (None: none)
  active,    \* active[t]: the one it is writing
  file,      \* file[t]: the history file (None: absent)
  evictedInUse,  \* objects evicted while a request was working on them
  count

vars == <<session, listed, recent, process, call, waiting, active, file, evictedInUse, count>>
worker == <<active, file>>

Free == [op |-> "none", step |-> "free", object |-> 0, flag |-> FALSE]

Init ==
  /\ session = <<>> /\ recent = <<>> /\ process = <<>>
  /\ listed = [t \in Terminal |-> 0]
  /\ call = [t \in Terminal |-> Free]
  /\ waiting = [t \in Terminal |-> None] /\ active = [t \in Terminal |-> None]
  /\ file = [t \in Terminal |-> None]
  /\ evictedInUse = {}
  /\ count = [requests |-> 0, exits |-> 0, failures |-> 0]

Happens(what) ==
  /\ count.exits + count.failures < MaxHappenings
  /\ count' = [count EXCEPT ![what] = @ + 1]

Cap(history) ==
  SubSeq(history, IF Len(history) > HistoryLimit THEN Len(history) - HistoryLimit + 1 ELSE 1,
         Len(history))

(******************************** Sessions *********************************)
Touched(o) == Append(SelectSeq(recent, LAMBDA x: x # o), o)

(* A session that is starting counts as inactive.                            *)
Inactive(objects, entries) ==
  {o \in DOMAIN objects: entries[objects[o].terminal] = o /\ objects[o].status # "running"}

Before(order, o, u) == \E i, j \in DOMAIN order: i < j /\ order[i] = o /\ order[j] = u

(* The listing without the inactive sessions that are too many: those with   *)
(* MaxRetained inactive ones updated after them.                             *)
EvictFrom(objects, entries, order) ==
  LET inactive == Inactive(objects, entries)
      out == {o \in inactive:
                Cardinality({u \in inactive: Before(order, o, u)}) >= MaxRetained}
  IN  IF Cardinality(inactive) <= MaxRetained THEN entries
      ELSE [t \in Terminal |-> IF entries[t] \in out THEN 0 ELSE entries[t]]

InUse(o) == \E t \in Terminal: call'[t].object = o /\ o # 0

(* The sessions become what they are given as; the manager evicts.           *)
SetSessions(objects, entries, order) ==
  LET kept == EvictFrom(objects, entries, order)
  IN  /\ session' = objects /\ recent' = order /\ listed' = kept
      /\ evictedInUse' = evictedInUse \union
           {o \in DOMAIN objects: entries[objects[o].terminal] = o
                                  /\ kept[objects[o].terminal] # o /\ InUse(o)}

(* stopProcess: the session lets go of its shell, which is told to end.      *)
Stopped(s) == IF s.pid = 0 THEN s ELSE [s EXCEPT !.pid = 0, !.status = "exited"]
StopShell(o) ==
  process' = IF session[o].pid = 0 THEN process
             ELSE [process EXCEPT ![session[o].pid].state = "stopping"]
OrderAfterStop(o) == IF session[o].pid = 0 THEN recent ELSE Touched(o)

New(t, history) ==
  [terminal |-> t, status |-> "starting", pid |-> 0, history |-> history, deleted |-> "no"]

(***************************** The history files ***************************)
Queue(t, history) == waiting' = [waiting EXCEPT ![t] = history]

Quiet(t) == waiting[t] = None /\ active[t] = None

TakeHistory(t) ==
  /\ waiting[t] # None /\ \A u \in Terminal: active[u] = None
  /\ active' = [active EXCEPT ![t] = waiting[t]]
  /\ waiting' = [waiting EXCEPT ![t] = None]
  /\ UNCHANGED <<session, listed, recent, process, call, file, evictedInUse, count>>

(* Mutant: what was queued meanwhile is written again and again. *)
WriteHistoryAgain(t) ==
  /\ active[t] # None
  /\ \/ file' = [file EXCEPT ![t] = active[t]] /\ UNCHANGED count
     \/ Happens("failures") /\ UNCHANGED file
  /\ active' = [active EXCEPT ![t] = waiting[t]]
  /\ UNCHANGED <<session, listed, recent, process, call, waiting, evictedInUse>>

(* A failed write is logged.  What was queued meanwhile is written next.     *)
WriteHistory(t) ==
  /\ active[t] # None
  /\ \/ file' = [file EXCEPT ![t] = active[t]] /\ UNCHANGED count
     \/ Happens("failures") /\ UNCHANGED file
  /\ active' = [active EXCEPT ![t] = waiting[t]]
  /\ waiting' = [waiting EXCEPT ![t] = None]
  /\ UNCHANGED <<session, listed, recent, process, call, evictedInUse>>

(******************************** The shells *******************************)
(* Output and exit reach the session as long as it has the shell.            *)
Output(p) ==
  LET o == process[p].owner
  IN  /\ process[p].state = "alive" /\ session[o].pid = p
      /\ \E chunk \in Chunk:
           LET history == Cap(Append(session[o].history, chunk))
           IN  /\ session' = [session EXCEPT ![o].history = history]
               /\ Queue(session[o].terminal, history)
      /\ recent' = Touched(o)
      /\ UNCHANGED <<listed, process, call, worker, evictedInUse, count>>

Exit(p) ==
  LET o == process[p].owner
  IN  /\ process[p].state = "alive"
      /\ Happens("exits")
      /\ process' = [process EXCEPT ![p].state = "dead"]
      /\ UNCHANGED call
      /\ SetSessions([session EXCEPT ![o].pid = 0, ![o].status = "exited"], listed, Touched(o))
      /\ UNCHANGED <<waiting, worker>>

(* SIGTERM, and SIGKILL after a while. *)
Die(p) ==
  /\ process[p].state = "stopping"
  /\ process' = [process EXCEPT ![p].state = "dead"]
  /\ UNCHANGED <<session, listed, recent, call, waiting, worker, evictedInUse, count>>

(******************************* The requests ******************************)
Goto(t, s) == call' = [call EXCEPT ![t].step = s]
Work(t, s, o) == call' = [call EXCEPT ![t].step = s, ![t].object = o]
Return(t) == call' = [call EXCEPT ![t] = Free]
Request(t, op, step, o, flag) ==
  /\ call[t].step = "free"
  /\ count.requests < MaxRequests
  /\ count' = [count EXCEPT !.requests = @ + 1]
  /\ call' = [call EXCEPT ![t] = [op |-> op, step |-> step, object |-> o, flag |-> flag]]

(* The flag: the terminal is wanted in another directory. *)
AskOpen(t, moved) ==
  /\ Request(t, "open", "checking", 0, moved)
  /\ UNCHANGED <<session, listed, recent, process, waiting, worker, evictedInUse>>

AskRestart(t) ==
  /\ Request(t, "restart", "checking", 0, FALSE)
  /\ UNCHANGED <<session, listed, recent, process, waiting, worker, evictedInUse>>

(* The directory does not exist.                                             *)
Refuse(t) ==
  /\ call[t].step = "checking" /\ Happens("failures")
  /\ Return(t)
  /\ UNCHANGED <<session, listed, recent, process, waiting, worker, evictedInUse>>

(* Mutant: the file is read while the worker may still have to write it. *)
FindNothingWithoutFlush(t) ==
  /\ call[t].step = "checking" /\ call[t].op = "open" /\ listed[t] = 0
  /\ Goto(t, "reading")
  /\ UNCHANGED <<session, listed, recent, process, waiting, worker, evictedInUse, count>>

FindNothing(t) ==
  /\ call[t].step = "checking" /\ call[t].op = "open" /\ listed[t] = 0
  /\ Goto(t, "flushing")
  /\ UNCHANGED <<session, listed, recent, process, waiting, worker, evictedInUse, count>>

Flushed(t) ==
  /\ call[t].step = "flushing" /\ Quiet(t)
  /\ Goto(t, "reading")
  /\ UNCHANGED <<session, listed, recent, process, waiting, worker, evictedInUse, count>>

ReadHistory(t) ==
  LET o == Len(session) + 1
      history == IF file[t] = None THEN <<>> ELSE Cap(file[t])
  IN  /\ call[t].step = "reading"
      /\ file' = IF file[t] = None THEN file ELSE [file EXCEPT ![t] = history]
      /\ Work(t, "starting", o)
      /\ SetSessions(Append(session, New(t, history)), [listed EXCEPT ![t] = o],
                     Append(recent, o))
      /\ UNCHANGED <<process, waiting, active, count>>

(* No session is created when the file cannot be read.                       *)
ReadFails(t) ==
  /\ call[t].step = "reading" /\ Happens("failures")
  /\ Return(t)
  /\ UNCHANGED <<session, listed, recent, process, waiting, worker, evictedInUse>>

(* A session in the right directory whose shell runs is used as it is.       *)
FindRunning(t) ==
  LET o == listed[t]
  IN  /\ call[t].step = "checking" /\ call[t].op = "open" /\ o # 0
      /\ ~call[t].flag /\ session[o].status \notin {"exited", "error"}
      /\ Return(t)
      /\ UNCHANGED <<session, listed, recent, process, waiting, worker, evictedInUse, count>>

(* Another one begins with an empty history.                                 *)
FindOther(t) ==
  LET o == listed[t]
      stop == call[t].flag
      s == IF stop THEN Stopped(session[o]) ELSE session[o]
  IN  /\ call[t].step = "checking" /\ call[t].op = "open" /\ o # 0
      /\ stop \/ session[o].status \in {"exited", "error"}
      /\ IF stop THEN StopShell(o) ELSE UNCHANGED process
      /\ Work(t, "persisting", o)
      /\ LET objects == [session EXCEPT ![o] = [s EXCEPT !.history = <<>>]]
         IN  IF stop /\ session[o].pid # 0 THEN SetSessions(objects, listed, Touched(o))
             ELSE session' = objects /\ UNCHANGED <<listed, recent, evictedInUse>>
      /\ Queue(t, <<>>)
      /\ UNCHANGED <<worker, count>>

RestartNew(t) ==
  LET o == Len(session) + 1
  IN  /\ call[t].step = "checking" /\ call[t].op = "restart" /\ listed[t] = 0
      /\ Work(t, "persisting", o)
      /\ SetSessions(Append(session, New(t, <<>>)), [listed EXCEPT ![t] = o],
                     Append(recent, o))
      /\ Queue(t, <<>>)
      /\ UNCHANGED <<process, worker, count>>

(* Mutant: the shell is replaced without being stopped. *)
RestartListedRunning(t) ==
  LET o == listed[t]
  IN  /\ call[t].step = "checking" /\ call[t].op = "restart" /\ o # 0
      /\ UNCHANGED process
      /\ Work(t, "persisting", o)
      /\ SetSessions([session EXCEPT ![o] = [Stopped(session[o]) EXCEPT !.history = <<>>]],
                     listed, OrderAfterStop(o))
      /\ Queue(t, <<>>)
      /\ UNCHANGED <<worker, count>>

RestartListed(t) ==
  LET o == listed[t]
  IN  /\ call[t].step = "checking" /\ call[t].op = "restart" /\ o # 0
      /\ StopShell(o)
      /\ Work(t, "persisting", o)
      /\ IF session[o].pid # 0
         THEN SetSessions([session EXCEPT ![o] = [Stopped(session[o]) EXCEPT !.history = <<>>]],
                          listed, OrderAfterStop(o))
         ELSE /\ session' = [session EXCEPT ![o].history = <<>>]
              /\ UNCHANGED <<listed, recent, evictedInUse>>
      /\ Queue(t, <<>>)
      /\ UNCHANGED <<worker, count>>

(* persistHistory has returned; the session of open and restart is started.  *)
Persisted(t) ==
  LET o == call[t].object
  IN  /\ call[t].step = "persisting" /\ Quiet(t)
      /\ IF call[t].op = "clear" THEN Return(t) /\ UNCHANGED <<session, recent>>
         ELSE /\ Goto(t, "starting")
              /\ session' = [session EXCEPT ![o].status = "starting"]
              /\ recent' = Touched(o)
      /\ UNCHANGED <<listed, process, waiting, worker, evictedInUse, count>>

Start(t) ==
  LET o == call[t].object  p == Len(process) + 1
  IN  /\ call[t].step = "starting"
      /\ process' = Append(process, [owner |-> o, state |-> "alive"])
      /\ session' = [session EXCEPT ![o].pid = p, ![o].status = "running"]
      /\ recent' = Touched(o)
      /\ Return(t)
      /\ UNCHANGED <<listed, waiting, worker, evictedInUse, count>>

StartFails(t) ==
  LET o == call[t].object
  IN  /\ call[t].step = "starting" /\ Happens("failures")
      /\ Return(t)
      /\ SetSessions([session EXCEPT ![o].status = "error"], listed, Touched(o))
      /\ UNCHANGED <<process, waiting, worker>>

Clear(t) ==
  LET o == listed[t]
  IN  /\ o # 0 /\ Request(t, "clear", "persisting", o, FALSE)
      /\ session' = [session EXCEPT ![o].history = <<>>]
      /\ recent' = Touched(o)
      /\ Queue(t, <<>>)
      /\ UNCHANGED <<listed, process, worker, evictedInUse>>

(* close of one terminal.  The flag: its history is to be deleted.           *)
Close(t, delete) ==
  LET o == listed[t]
  IN  /\ Request(t, "close", "closing", o, delete)
      /\ IF o = 0 THEN UNCHANGED <<session, recent, listed, evictedInUse, process, waiting>>
         ELSE /\ StopShell(o)
              /\ IF session[o].pid # 0
                 THEN SetSessions([session EXCEPT ![o] = Stopped(session[o])], listed, Touched(o))
                 ELSE UNCHANGED <<session, recent, listed, evictedInUse>>
              /\ Queue(t, session[o].history)
      /\ UNCHANGED worker

(* close of a whole thread only closes the sessions it has.                  *)
CloseThread(t, delete) ==
  IF listed[t] # 0 THEN Close(t, delete)
  ELSE /\ delete /\ Request(t, "close", "deleting", 0, TRUE)
       /\ UNCHANGED <<session, listed, recent, process, waiting, worker, evictedInUse>>

Unlist(t) ==
  /\ call[t].step = "closing" /\ Quiet(t)
  /\ listed' = [listed EXCEPT ![t] = 0]
  /\ IF call[t].flag THEN Goto(t, "deleting") ELSE Return(t)
  /\ UNCHANGED <<session, recent, process, waiting, worker, evictedInUse, count>>

DeleteHistory(t) ==
  /\ call[t].step = "deleting"
  /\ file' = [file EXCEPT ![t] = None]
  /\ session' = [o \in DOMAIN session |->
                   IF session[o].terminal # t THEN session[o]
                   ELSE [session[o] EXCEPT !.deleted = IF Quiet(t) THEN "yes" ELSE "early"]]
  /\ Return(t)
  /\ UNCHANGED <<listed, recent, process, waiting, active, evictedInUse, count>>

RequestStep(t) ==
  \/ Refuse(t) \/ FindNothing(t) \/ Flushed(t) \/ ReadHistory(t) \/ ReadFails(t)
  \/ FindRunning(t) \/ FindOther(t) \/ RestartNew(t) \/ RestartListed(t) \/ Persisted(t)
  \/ Start(t) \/ StartFails(t) \/ Unlist(t) \/ DeleteHistory(t)

Next ==
  \/ \E t \in Terminal:
       \/ AskRestart(t) \/ Clear(t) \/ RequestStep(t) \/ TakeHistory(t) \/ WriteHistory(t)
       \/ \E flag \in BOOLEAN: AskOpen(t, flag) \/ Close(t, flag) \/ CloseThread(t, flag)
  \/ \E p \in DOMAIN process: Output(p) \/ Exit(p) \/ Die(p)

Spec == Init /\ [][Next]_vars

(* The worker runs, files and shells answer, a stopped shell ends or is killed. *)
FairSpec ==
  /\ Spec
  /\ WF_vars(\E t \in Terminal: TakeHistory(t) \/ WriteHistory(t))
  /\ \A t \in Terminal: WF_vars(RequestStep(t))

(******************************* Properties ********************************)
(* A session has a shell exactly when it is running, and no shell is lost:   *)
(* one that runs belongs to a session the manager lists, which can write to  *)
(* it and close it, or was told to end - whatever exits, is restarted or     *)
(* evicted in between, unless the session was evicted in the middle of a     *)
(* request, which the manager does to one that is still starting.            *)
ShellIsListedOrEvicted ==
  /\ \A o \in DOMAIN session: session[o].pid # 0 <=> session[o].status = "running"
  /\ \A p \in DOMAIN process: process[p].state = "alive" =>
       LET o == process[p].owner
       IN  session[o].pid = p /\ (listed[session[o].terminal] = o \/ o \in evictedInUse)

Of(t) == {o \in DOMAIN session: session[o].terminal = t}

(* When nothing is in progress the file of a terminal has the history of its *)
(* session, or of its last one, which the next open goes on with, and it is  *)
(* gone when it was deleted: whatever came out, was cleared, restarted or    *)
(* evicted while the worker was writing.  Excepted are failed writes and the *)
(* two ways a session escapes its thread's lock: eviction in the middle of a *)
(* request, and a thread closed after its session was evicted.               *)
FileIsHistory ==
  \A t \in Terminal:
    call[t].step = "free" /\ Quiet(t) /\ Of(t) # {} /\ Of(t) \intersect evictedInUse = {}
    /\ count.failures = 0 =>
      LET last == session[CHOOSE o \in Of(t): \A u \in Of(t): u <= o]
      IN  CASE last.deleted = "yes" -> file[t] = None
            [] last.deleted = "early" -> TRUE
            [] OTHER -> file[t] = last.history \/ (file[t] = None /\ last.history = <<>>)

(* Every request returns, provided that all shells fall silent some time.    *)
(* The worker goes on with a key as long as a newer value waits for it, so a *)
(* shell that never pauses for as long as a write takes keeps a clear, close *)
(* or open of its terminal waiting in drainKey, with the thread's lock held, *)
(* and every other terminal waiting for the worker.                          *)
ShellsFallSilent == <>[][\A p \in DOMAIN process: ~Output(p)]_vars
RequestsReturn ==
  ShellsFallSilent => \A t \in Terminal: call[t].step # "free" ~> call[t].step = "free"
=============================================================================
