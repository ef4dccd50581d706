---------------------------- MODULE TerminalsProofs ----------------------------
(***************************************************************************)
(* Proofs about Terminals: no shell is lost but by the eviction of a       *)
(* session in use, and the history files are the histories, for any        *)
(* terminals, requests, outputs and exits.                                 *)
(*                                                                         *)
(* Safe is a predicate of the sessions, the listing, the processes and the *)
(* calls, so that it can be shown first for what a request makes of them   *)
(* and then, once for all, to survive the eviction that follows            *)
(* (EvictionSafe).  It adds what a request knows of its object while it    *)
(* waits: the object is of its terminal, has no shell when one is about to *)
(* be started, and is listed unless it was evicted.                        *)
(*                                                                         *)
(* Kept relates the newest session of a terminal to what its file will     *)
(* hold when the worker is done: what waits, else what is being written,   *)
(* else what is there.  A step passes by a terminal, writes the history of *)
(* its listed session or gives it a new one; only the deletion is neither. *)
(***************************************************************************)
EXTENDS Terminals, SequenceTheorems, WellFoundedInduction, TLAPS

SessionType == [terminal: Terminal, status: {"starting", "running", "exited", "error"},
                pid: Nat, history: Seq(Chunk), deleted: {"no", "yes", "early"}]
ProcessType == [owner: Nat, state: {"alive", "stopping", "dead"}]
Steps == {"free", "checking", "flushing", "reading", "persisting", "starting", "closing",
          "deleting"}
CallType == [op: {"none", "open", "restart", "clear", "close"}, step: Steps, object: Nat,
             flag: BOOLEAN]
Kinds == {"requests", "exits", "failures"}

Running(S) == \A o \in DOMAIN S: S[o].pid # 0 <=> S[o].status = "running"

(* A session and the process of its shell know each other. *)
HasShell(S, P) ==
  \A o \in DOMAIN S: S[o].pid # 0 =>
    /\ S[o].pid \in DOMAIN P
    /\ P[S[o].pid].owner = o /\ P[S[o].pid].state = "alive"
Owned(S, P) ==
  \A p \in DOMAIN P: /\ P[p].owner \in DOMAIN S
                     /\ P[p].state = "alive" => S[P[p].owner].pid = p

Listing(S, L) ==
  \A t \in Terminal: L[t] # 0 => L[t] \in DOMAIN S /\ S[L[t]].terminal = t
Shown(S, L, E) ==
  \A o \in DOMAIN S: S[o].pid # 0 => L[S[o].terminal] = o \/ o \in E

(* The call c of terminal t and its object. *)
Works(t, c, S, L, E) ==
  /\ c.step \in {"persisting", "starting"} =>
       /\ c.object \in DOMAIN S /\ S[c.object].terminal = t
       /\ L[t] = c.object \/ c.object \in E
       /\ c.step = "starting" \/ c.op # "clear" => S[c.object].pid = 0
  /\ c.step \in {"flushing", "reading"} => L[t] = 0
  /\ c.step = "closing" => L[t] = 0 \/ S[L[t]].pid = 0
Calls(S, L, C, E) == \A t \in Terminal: Works(t, C[t], S, L, E)

Typed(S, L, P, C) ==
  /\ S \in Seq(SessionType) /\ L \in [Terminal -> Nat]
  /\ P \in Seq(ProcessType) /\ C \in [Terminal -> CallType]
Safe(S, L, P, C, E) ==
  /\ Typed(S, L, P, C)
  /\ Running(S) /\ HasShell(S, P) /\ Owned(S, P)
  /\ Listing(S, L) /\ Shown(S, L, E) /\ Calls(S, L, C, E)

Histories == /\ waiting \in [Terminal -> Seq(Chunk) \union {None}]
             /\ active \in [Terminal -> Seq(Chunk) \union {None}]
             /\ file \in [Terminal -> Seq(Chunk) \union {None}]
Counted == count \in [Kinds -> Nat]

Inv == Safe(session, listed, process, call, evictedInUse) /\ Histories /\ Counted

LEMMA InitInv == Init => Inv
<1> SUFFICES ASSUME Init PROVE Inv
  OBVIOUS
<1> USE DEF Init
<1>1. DOMAIN session = {} /\ DOMAIN process = {}
      /\ session \in Seq(SessionType) /\ process \in Seq(ProcessType)
  BY EmptySeq
<1>2. Typed(session, listed, process, call)
  BY <1>1 DEF Typed, Free, CallType, Steps
<1>3. /\ Running(session) /\ HasShell(session, process) /\ Owned(session, process)
      /\ Listing(session, listed) /\ Shown(session, listed, evictedInUse)
  BY <1>1 DEF Running, HasShell, Owned, Listing, Shown
<1>4. Calls(session, listed, call, evictedInUse)
  BY DEF Calls, Works, Free
<1>5. Histories /\ Counted  BY DEF Histories, Counted, Kinds
<1> QED  BY <1>2, <1>3, <1>4, <1>5 DEF Inv, Safe

(******************************** Sequences ********************************)
LEMMA ElementOf ==
  ASSUME NEW S, NEW seq \in Seq(S), NEW i \in DOMAIN seq PROVE seq[i] \in S
BY LenProperties, ElementOfSeq

LEMMA Replace ==
  ASSUME NEW S \in Seq(SessionType), NEW o \in DOMAIN S, NEW s \in SessionType
  PROVE  LET R == [S EXCEPT ![o] = s]
         IN  /\ R \in Seq(SessionType) /\ DOMAIN R = DOMAIN S /\ R[o] = s
             /\ \A u \in DOMAIN S \ {o}: R[u] = S[u]
<1>1. o \in 1..Len(S) /\ DOMAIN S = 1..Len(S)  BY LenProperties
<1> QED  BY <1>1, ExceptSeq

LEMMA Add ==
  ASSUME NEW S \in Seq(SessionType), NEW s \in SessionType
  PROVE  LET R == Append(S, s)  n == Len(S) + 1
         IN  /\ R \in Seq(SessionType) /\ DOMAIN R = DOMAIN S \union {n}
             /\ n \in Nat \ {0} /\ n \notin DOMAIN S /\ R[n] = s
             /\ \A u \in DOMAIN S: R[u] = S[u]
<1>1. Len(S) \in Nat /\ DOMAIN S = 1..Len(S)  BY LenProperties
<1> QED  BY <1>1, AppendProperties

LEMMA CapTyped == ASSUME NEW h \in Seq(Chunk) PROVE Cap(h) \in Seq(Chunk)
<1>1. Len(h) \in Nat /\ HistoryLimit \in Nat  BY LenProperties, TerminalsAssumption
<1> DEFINE m == IF Len(h) > HistoryLimit THEN Len(h) - HistoryLimit + 1 ELSE 1
<1>2. m \in Nat \ {0} /\ DOMAIN h = 1..Len(h)  BY <1>1, LenProperties
<1>3. \A i \in m..Len(h): h[i] \in Chunk  BY <1>1, <1>2, ElementOfSeq
<1>4. SubSeq(h, m, Len(h)) \in Seq(Chunk)
  <2> HIDE DEF m
  <2> QED  BY <1>1, <1>2, <1>3, SubSeqProperties
<1> QED  BY <1>4 DEF Cap

(********************************* Eviction ********************************)
LEMMA EvictionSafe ==
  ASSUME NEW S, NEW L, NEW order, SetSessions(S, L, order),
         Safe(S, L, process', call', evictedInUse)
  PROVE  Safe(session, listed, process, call, evictedInUse)'
<1> USE DEF Safe
<1>1. session' = S /\ evictedInUse \subseteq evictedInUse'
  BY DEF SetSessions
<1>2. /\ listed' \in [Terminal -> Nat]
      /\ \A t \in Terminal:
           listed'[t] = L[t] \/ (listed'[t] = 0 /\ L[t] \in Inactive(S, L))
  <2>1. listed' = EvictFrom(S, L, order)  BY DEF SetSessions
  <2> DEFINE inactive == Inactive(S, L)
             out == {o \in inactive:
                       Cardinality({u \in inactive: Before(order, o, u)}) >= MaxRetained}
             few == Cardinality(inactive) <= MaxRetained
  <2>2. listed' = IF few THEN L ELSE [t \in Terminal |-> IF L[t] \in out THEN 0 ELSE L[t]]
    BY <2>1, Zenon DEF EvictFrom
  <2>3. out \subseteq inactive  OBVIOUS
  <2>4. L \in [Terminal -> Nat]  BY DEF Typed
  <2> HIDE DEF out, few, inactive
  <2>5. /\ listed' \in [Terminal -> Nat]
        /\ \A t \in Terminal: listed'[t] = L[t] \/ (listed'[t] = 0 /\ L[t] \in inactive)
    BY <2>2, <2>3, <2>4
  <2> QED  BY <2>5 DEF inactive
<1>3. ASSUME NEW t \in Terminal, listed'[t] # L[t]
      PROVE  /\ listed'[t] = 0 /\ L[t] \in DOMAIN S /\ S[L[t]].terminal = t
             /\ S[L[t]].pid = 0
             /\ L[t] # 0
  BY <1>2, <1>3 DEF Inactive, Running, Listing
<1>4. ASSUME NEW t \in Terminal, listed'[t] # L[t], call'[t].object = L[t]
      PROVE  L[t] \in evictedInUse'
  <2>1. InUse(L[t])  BY <1>3, <1>4 DEF InUse
  <2> QED  BY <1>3, <1>4, <2>1 DEF SetSessions
<1>5. Typed(session, listed, process, call)'
  BY <1>1, <1>2 DEF Typed
<1>6. Running(session)' /\ HasShell(session, process)' /\ Owned(session, process)'
  BY <1>1 DEF Running, HasShell, Owned
<1>7. Listing(session, listed)'  BY <1>1, <1>3 DEF Listing
<1>8. Shown(session, listed, evictedInUse)'
  <2> SUFFICES ASSUME NEW o \in DOMAIN S, S[o].pid # 0
               PROVE  listed'[S[o].terminal] = o \/ o \in evictedInUse'
    BY <1>1 DEF Shown
  <2>0. S[o] \in SessionType  BY ElementOf DEF Typed
  <2>1. S[o].terminal \in Terminal  BY <2>0 DEF SessionType
  <2> QED  BY <1>1, <1>3, <2>1 DEF Shown
<1>9. Calls(session, listed, call, evictedInUse)'
  <2> SUFFICES ASSUME NEW t \in Terminal
               PROVE  Works(t, call'[t], S, listed', evictedInUse')
    BY <1>1 DEF Calls
  <2> QED  BY <1>1, <1>3, <1>4 DEF Calls, Works
<1> QED  BY <1>5, <1>6, <1>7, <1>8, <1>9

(*************************** What requests change **************************)
(* The request of one terminal takes a step. *)
LEMMA CallSafe ==
  ASSUME NEW S, NEW L, NEW P, NEW C, NEW E, NEW t \in Terminal, NEW c \in CallType,
         Safe(S, L, P, C, E), Works(t, c, S, L, E)
  PROVE  Safe(S, L, P, [C EXCEPT ![t] = c], E)
<1> DEFINE D == [C EXCEPT ![t] = c]
<1>1. C \in [Terminal -> CallType]  BY DEF Safe, Typed
<1>2. D \in [Terminal -> CallType] /\ \A u \in Terminal: D[u] = IF u = t THEN c ELSE C[u]
  BY <1>1
<1> HIDE DEF D
<1>3. Typed(S, L, P, D)  BY <1>2 DEF Safe, Typed
<1>4. Calls(S, L, D, E)
  <2> SUFFICES ASSUME NEW u \in Terminal PROVE Works(u, D[u], S, L, E)
    BY DEF Calls
  <2>1. Works(u, C[u], S, L, E)  BY DEF Safe, Calls
  <2> QED  BY <1>2, <2>1
<1>5. Safe(S, L, P, D, E)  BY <1>3, <1>4 DEF Safe
<1> QED  BY <1>5 DEF D

(* A session changes but for its shell. *)
LEMMA SameShellSafe ==
  ASSUME NEW S, NEW L, NEW P, NEW C, NEW E, NEW o \in DOMAIN S, NEW s \in SessionType,
         Safe(S, L, P, C, E), s.terminal = S[o].terminal, s.pid = S[o].pid,
         s.pid # 0 <=> s.status = "running"
  PROVE  Safe([S EXCEPT ![o] = s], L, P, C, E)
<1> DEFINE R == [S EXCEPT ![o] = s]
<1>1. /\ R \in Seq(SessionType) /\ DOMAIN R = DOMAIN S /\ R[o] = s
      /\ \A u \in DOMAIN S \ {o}: R[u] = S[u]
  BY Replace DEF Safe, Typed
<1> HIDE DEF R
<1>2. \A u \in DOMAIN S: R[u].terminal = S[u].terminal /\ R[u].pid = S[u].pid
  BY <1>1
<1>3. Typed(R, L, P, C)  BY <1>1 DEF Safe, Typed
<1>4. Running(R)  BY <1>1 DEF Safe, Running
<1>5. HasShell(R, P) /\ Owned(R, P)  BY <1>1, <1>2 DEF Safe, HasShell, Owned
<1>6. Listing(R, L) /\ Shown(R, L, E)  BY <1>1, <1>2 DEF Safe, Listing, Shown
<1>7. Calls(R, L, C, E)  BY <1>1, <1>2 DEF Safe, Calls, Works, Listing
<1>8. Safe(R, L, P, C, E)  BY <1>3, <1>4, <1>5, <1>6, <1>7 DEF Safe
<1> QED  BY <1>8 DEF R

(* A session lets go of its shell, which is told to end or has ended. *)
LEMMA LetGoSafe ==
  ASSUME NEW S, NEW L, NEW P, NEW C, NEW E, NEW o \in DOMAIN S, NEW s \in SessionType,
         NEW z \in {"stopping", "dead"},
         Safe(S, L, P, C, E), S[o].pid # 0, s.terminal = S[o].terminal, s.pid = 0,
         s.status # "running"
  PROVE  Safe([S EXCEPT ![o] = s], L, [P EXCEPT ![S[o].pid].state = z], C, E)
<1> DEFINE R == [S EXCEPT ![o] = s]
           p == S[o].pid
           Q == [P EXCEPT ![p].state = z]
<1>1. /\ R \in Seq(SessionType) /\ DOMAIN R = DOMAIN S /\ R[o] = s
      /\ \A u \in DOMAIN S \ {o}: R[u] = S[u]
  BY Replace DEF Safe, Typed
<1>2. p \in DOMAIN P /\ P[p].owner = o /\ P \in Seq(ProcessType)
  BY DEF Safe, HasShell, Typed
<1>3. P[p] \in ProcessType /\ [P[p] EXCEPT !.state = z] \in ProcessType
  <2>1. P[p] \in ProcessType  BY <1>2, ElementOf
  <2> QED  BY <2>1 DEF ProcessType
<1>4. /\ Q \in Seq(ProcessType) /\ DOMAIN Q = DOMAIN P
      /\ Q[p].owner = o /\ Q[p].state = z
      /\ \A q \in DOMAIN P \ {p}: Q[q] = P[q]
  <2>1. Q = [P EXCEPT ![p] = [P[p] EXCEPT !.state = z]]  OBVIOUS
  <2>2. DOMAIN P = 1..Len(P)  BY <1>2, LenProperties
  <2>3. Q[p] = [P[p] EXCEPT !.state = z]  BY <1>2, <2>1
  <2>4. Q[p].owner = o /\ Q[p].state = z  BY <2>3, <1>2, <1>3 DEF ProcessType
  <2>5. Q \in Seq(ProcessType)  BY <1>2, <1>3, <2>1, <2>2, ExceptSeq
  <2> QED  BY <1>2, <2>1, <2>4, <2>5
<1> HIDE DEF R, Q
<1>5. Typed(R, L, Q, C)  BY <1>1, <1>4 DEF Safe, Typed
<1>6. Running(R)  BY <1>1 DEF Safe, Running
<1>7. HasShell(R, Q)
  <2> SUFFICES ASSUME NEW u \in DOMAIN S \ {o}, S[u].pid # 0
               PROVE  /\ S[u].pid \in DOMAIN Q
                      /\ Q[S[u].pid].owner = u /\ Q[S[u].pid].state = "alive"
    BY <1>1 DEF HasShell
  <2>1. S[u].pid \in DOMAIN P /\ P[S[u].pid].owner = u /\ P[S[u].pid].state = "alive"
    BY DEF Safe, HasShell
  <2> QED  BY <1>2, <1>4, <2>1
<1>8. Owned(R, Q)
  <2> SUFFICES ASSUME NEW q \in DOMAIN P
               PROVE  Q[q].owner \in DOMAIN R
                      /\ (Q[q].state = "alive" => R[Q[q].owner].pid = q)
    BY <1>4 DEF Owned
  <2>1. CASE q = p  BY <1>1, <1>4, <2>1
  <2>2. CASE q # p
    <3>1. Q[q] = P[q] /\ P[q].owner \in DOMAIN S
          /\ (P[q].state = "alive" => S[P[q].owner].pid = q)
      BY <1>4, <2>2 DEF Safe, Owned
    <3> QED  BY <1>1, <2>2, <3>1
  <2> QED  BY <2>1, <2>2
<1>9. Listing(R, L) /\ Shown(R, L, E)  BY <1>1 DEF Safe, Listing, Shown
<1>10. Calls(R, L, C, E)  BY <1>1 DEF Safe, Calls, Works, Listing
<1>11. Safe(R, L, Q, C, E)  BY <1>5, <1>6, <1>7, <1>8, <1>9, <1>10 DEF Safe
<1> QED  BY <1>11 DEF R, Q

(* A terminal that has no session gets one, which its request works on. *)
LEMMA AddSafe ==
  ASSUME NEW S, NEW L, NEW P, NEW C, NEW E, NEW t \in Terminal, NEW s \in SessionType,
         NEW c \in CallType,
         Safe(S, L, P, C, E), L[t] = 0, s.terminal = t, s.pid = 0, s.status = "starting",
         c.object = Len(S) + 1, c.step \in {"persisting", "starting"}
  PROVE  Safe(Append(S, s), [L EXCEPT ![t] = Len(S) + 1], P, [C EXCEPT ![t] = c], E)
<1> DEFINE R == Append(S, s)
           n == Len(S) + 1
           M == [L EXCEPT ![t] = n]
           D == [C EXCEPT ![t] = c]
<1>1. /\ R \in Seq(SessionType) /\ DOMAIN R = DOMAIN S \union {n}
      /\ n \in Nat \ {0} /\ n \notin DOMAIN S /\ R[n] = s
      /\ \A u \in DOMAIN S: R[u] = S[u] /\ u # 0
  BY Add, LenProperties DEF Safe, Typed
<1>2. /\ M \in [Terminal -> Nat] /\ D \in [Terminal -> CallType]
      /\ \A u \in Terminal: /\ M[u] = IF u = t THEN n ELSE L[u]
                            /\ D[u] = IF u = t THEN c ELSE C[u]
  BY <1>1 DEF Safe, Typed
<1> HIDE DEF R, n, M, D
<1>3. c.object = n  BY DEF n
<1>4. \A u \in DOMAIN S: S[u].terminal \in Terminal
  <2> SUFFICES ASSUME NEW u \in DOMAIN S PROVE S[u].terminal \in Terminal
    OBVIOUS
  <2>1. S[u] \in SessionType  BY ElementOf DEF Safe, Typed
  <2> QED  BY <2>1 DEF SessionType
<1>5. Typed(R, M, P, D)  BY <1>1, <1>2 DEF Safe, Typed
<1>6. Running(R)  BY <1>1 DEF Safe, Running
<1>7. HasShell(R, P)  BY <1>1 DEF Safe, HasShell
<1>8. Owned(R, P)  BY <1>1 DEF Safe, Owned
<1>9. Listing(R, M)  BY <1>1, <1>2 DEF Safe, Listing
<1>10. Shown(R, M, E)  BY <1>1, <1>2, <1>4 DEF Safe, Shown
<1>11. Calls(R, M, D, E)
  <2> SUFFICES ASSUME NEW u \in Terminal PROVE Works(u, D[u], R, M, E)
    BY DEF Calls
  <2>1. CASE u = t  BY <1>1, <1>2, <1>3, <2>1 DEF Works
  <2>2. CASE u # t
    <3>1. Works(u, C[u], S, L, E)  BY DEF Safe, Calls
    <3>2. L[u] # 0 => L[u] \in DOMAIN S  BY DEF Safe, Listing
    <3> QED  BY <1>1, <1>2, <2>2, <3>1, <3>2 DEF Works
  <2> QED  BY <2>1, <2>2
<1>12. Safe(R, M, P, D, E)
  BY <1>5, <1>6, <1>7, <1>8, <1>9, <1>10, <1>11 DEF Safe
<1> QED  BY <1>12 DEF R, M, D, n

(********************************* Counting ********************************)
LEMMA HappensCounted ==
  ASSUME Counted, NEW what \in {"exits", "failures"}, Happens(what)
  PROVE  Counted'
BY DEF Counted, Happens, Kinds

LEMMA RequestCounted ==
  ASSUME Counted, NEW t, NEW op, NEW step, NEW o, NEW flag, Request(t, op, step, o, flag)
  PROVE  Counted'
BY DEF Counted, Request, Kinds

LEMMA QueueTyped ==
  ASSUME Histories, NEW t \in Terminal, NEW h \in Seq(Chunk), Queue(t, h), UNCHANGED worker
  PROVE  Histories'
BY DEF Histories, Queue, worker

(******************************** The shells *******************************)
LEMMA ObjectTyped ==
  ASSUME Inv, NEW o \in DOMAIN session
  PROVE  /\ session[o] \in SessionType /\ session[o].terminal \in Terminal
         /\ session[o].history \in Seq(Chunk) /\ session[o].pid \in Nat
         /\ session[o].pid # 0 <=> session[o].status = "running"
<1>1. session[o] \in SessionType  BY ElementOf DEF Inv, Safe, Typed
<1> QED  BY <1>1 DEF SessionType, Inv, Safe, Running

LEMMA OwnerHas ==
  ASSUME Inv, NEW p \in DOMAIN process, process[p].state = "alive"
  PROVE  /\ process[p].owner \in DOMAIN session /\ session[process[p].owner].pid = p
         /\ p # 0
<1>1. process \in Seq(ProcessType)  BY DEF Inv, Safe, Typed
<1>2. p # 0  BY <1>1, LenProperties
<1> QED  BY <1>2 DEF Inv, Safe, Owned

(* The session of o gets the history h. *)
LEMMA HistorySafe ==
  ASSUME NEW S, NEW L, NEW P, NEW C, NEW E, NEW o \in DOMAIN S, NEW h \in Seq(Chunk),
         Safe(S, L, P, C, E)
  PROVE  Safe([S EXCEPT ![o].history = h], L, P, C, E)
<1> DEFINE s == [S[o] EXCEPT !.history = h]
<1>1. S[o] \in SessionType  BY ElementOf DEF Safe, Typed
<1>2. s \in SessionType /\ s.terminal = S[o].terminal /\ s.pid = S[o].pid
      /\ s.status = S[o].status
  BY <1>1 DEF SessionType
<1>3. s.pid # 0 <=> s.status = "running"  BY <1>2 DEF Safe, Running
<1>4. [S EXCEPT ![o].history = h] = [S EXCEPT ![o] = s]  OBVIOUS
<1> HIDE DEF s
<1>5. Safe([S EXCEPT ![o] = s], L, P, C, E)  BY <1>2, <1>3, SameShellSafe
<1> QED  BY <1>4, <1>5

(* A session without a shell gets another status. *)
LEMMA StatusSafe ==
  ASSUME NEW S, NEW L, NEW P, NEW C, NEW E, NEW o \in DOMAIN S,
         NEW z \in {"starting", "exited", "error"}, S[o].pid = 0,
         Safe(S, L, P, C, E)
  PROVE  Safe([S EXCEPT ![o].status = z], L, P, C, E)
<1> DEFINE s == [S[o] EXCEPT !.status = z]
<1>1. S[o] \in SessionType  BY ElementOf DEF Safe, Typed
<1>2. s \in SessionType /\ s.terminal = S[o].terminal /\ s.pid = S[o].pid
      /\ s.pid = 0 /\ s.status # "running"
  BY <1>1 DEF SessionType
<1>3. [S EXCEPT ![o].status = z] = [S EXCEPT ![o] = s]  OBVIOUS
<1> HIDE DEF s
<1>4. Safe([S EXCEPT ![o] = s], L, P, C, E)  BY <1>2, SameShellSafe
<1> QED  BY <1>3, <1>4

LEMMA OutputInv == ASSUME Inv, NEW p \in DOMAIN process, Output(p) PROVE Inv'
<1> DEFINE o == process[p].owner
<1>1. o \in DOMAIN session /\ session[o].terminal \in Terminal
      /\ session[o].history \in Seq(Chunk)
  BY OwnerHas, ObjectTyped DEF Output
<1>2. PICK chunk \in Chunk:
        /\ session' = [session EXCEPT ![o].history = Cap(Append(session[o].history, chunk))]
        /\ Queue(session[o].terminal, Cap(Append(session[o].history, chunk)))
  BY DEF Output
<1> DEFINE h == Cap(Append(session[o].history, chunk))
<1>3. h \in Seq(Chunk)
  <2>1. Append(session[o].history, chunk) \in Seq(Chunk)
    BY <1>1, <1>2, AppendProperties
  <2> QED  BY <2>1, CapTyped
<1>4. session' = [session EXCEPT ![o].history = h] /\ Queue(session[o].terminal, h)
      /\ UNCHANGED <<listed, process, call, worker, evictedInUse>>
  BY <1>2 DEF Output
<1>7. Counted'  BY DEF Output, Inv, Counted
<1> HIDE DEF o, h
<1>5. Safe([session EXCEPT ![o].history = h], listed, process, call, evictedInUse)
  BY <1>1, <1>3, HistorySafe DEF Inv
<1>6. Histories'  BY <1>1, <1>3, <1>4, QueueTyped DEF Inv
<1> QED  BY <1>4, <1>5, <1>6, <1>7 DEF Inv

LEMMA ExitInv == ASSUME Inv, NEW p \in DOMAIN process, Exit(p) PROVE Inv'
<1> DEFINE o == process[p].owner
           s == [session[o] EXCEPT !.pid = 0, !.status = "exited"]
<1>1. o \in DOMAIN session /\ session[o].pid = p /\ p # 0
  BY OwnerHas DEF Exit
<1>2. session[o] \in SessionType  BY <1>1, ObjectTyped
<1>3. s \in SessionType /\ s.terminal = session[o].terminal /\ s.pid = 0
      /\ s.status # "running"
  BY <1>2 DEF SessionType
<1>4. [session EXCEPT ![o].pid = 0, ![o].status = "exited"] = [session EXCEPT ![o] = s]
  BY <1>1
<1>5. /\ process' = [process EXCEPT ![p].state = "dead"] /\ call' = call
      /\ SetSessions([session EXCEPT ![o] = s], listed, Touched(o))
      /\ UNCHANGED <<waiting, worker>>
  BY <1>4 DEF Exit
<1> HIDE DEF o, s
<1>6. Safe([session EXCEPT ![o] = s], listed, process', call', evictedInUse)
  BY <1>1, <1>3, <1>5, LetGoSafe DEF Inv
<1>7. Safe(session, listed, process, call, evictedInUse)'
  BY <1>5, <1>6, EvictionSafe
<1>8. Histories'  BY <1>5 DEF Histories, worker, Inv
<1>9. Counted'  BY HappensCounted DEF Exit, Inv
<1> QED  BY <1>7, <1>8, <1>9 DEF Inv

LEMMA DieInv == ASSUME Inv, NEW p \in DOMAIN process, Die(p) PROVE Inv'
<1>1. process \in Seq(ProcessType) /\ process[p] \in ProcessType
      /\ DOMAIN process = 1..Len(process)
  BY ElementOf, LenProperties DEF Inv, Safe, Typed
<1> DEFINE z == [process[p] EXCEPT !.state = "dead"]
<1>2. z \in ProcessType /\ z.owner = process[p].owner /\ z.state = "dead"
  BY <1>1 DEF ProcessType
<1>3. process' = [process EXCEPT ![p] = z]
      /\ UNCHANGED <<session, listed, call, evictedInUse, waiting, worker, count>>
  BY DEF Die
<1> HIDE DEF z
<1>4. /\ process' \in Seq(ProcessType) /\ DOMAIN process' = DOMAIN process
      /\ process'[p] = z /\ \A q \in DOMAIN process \ {p}: process'[q] = process[q]
  BY <1>1, <1>2, <1>3, ExceptSeq
<1>5. process[p].state = "stopping"  BY DEF Die
<1>6. HasShell(session, process')
  <2> SUFFICES ASSUME NEW u \in DOMAIN session, session[u].pid # 0
               PROVE  /\ session[u].pid \in DOMAIN process'
                      /\ process'[session[u].pid] = process[session[u].pid]
    BY DEF HasShell, Inv, Safe
  <2>1. session[u].pid \in DOMAIN process /\ process[session[u].pid].state = "alive"
    BY DEF Inv, Safe, HasShell
  <2> QED  BY <1>4, <1>5, <2>1
<1>7. Owned(session, process')  BY <1>2, <1>4 DEF Inv, Safe, Owned
<1>8. Safe(session, listed, process, call, evictedInUse)'
  BY <1>3, <1>4, <1>6, <1>7 DEF Inv, Safe, Typed
<1> QED  BY <1>3, <1>8 DEF Inv, Histories, Counted, worker

(******************************* The requests ******************************)
LEMMA ReturnSafe ==
  ASSUME NEW S, NEW L, NEW P, NEW E, NEW t \in Terminal, Safe(S, L, P, call, E), Return(t)
  PROVE  Safe(S, L, P, call', E)
<1>1. Free \in CallType /\ Works(t, Free, S, L, E)  BY DEF Free, CallType, Steps, Works
<1> QED  BY <1>1, CallSafe DEF Return

LEMMA GotoSafe ==
  ASSUME NEW S, NEW L, NEW P, NEW E, NEW t \in Terminal, Safe(S, L, P, call, E),
         NEW s \in Steps, Goto(t, s),
         s \in {"flushing", "reading"} => L[t] = 0,
         s = "starting" => /\ call[t].object \in DOMAIN S
                           /\ S[call[t].object].terminal = t
                           /\ L[t] = call[t].object \/ call[t].object \in E
                           /\ S[call[t].object].pid = 0,
         s \notin {"persisting", "closing"}
  PROVE  Safe(S, L, P, call', E)
<1> DEFINE c == [call[t] EXCEPT !.step = s]
<1>1. call[t] \in CallType  BY DEF Safe, Typed
<1>2. c \in CallType /\ c.step = s /\ c.object = call[t].object
  BY <1>1 DEF CallType
<1>3. call' = [call EXCEPT ![t] = c]  BY DEF Goto
<1> HIDE DEF c
<1>4. Works(t, c, S, L, E)  BY <1>2 DEF Works
<1> QED  BY <1>2, <1>3, <1>4, CallSafe

LEMMA WorkSafe ==
  ASSUME NEW S, NEW L, NEW P, NEW E, NEW t \in Terminal, Safe(S, L, P, call, E),
         NEW o \in DOMAIN S, Work(t, "persisting", o), S[o].terminal = t, L[t] = o,
         S[o].pid = 0
  PROVE  Safe(S, L, P, call', E)
<1> DEFINE c == [call[t] EXCEPT !.step = "persisting", !.object = o]
<1>1. call[t] \in CallType /\ o \in Nat  BY LenProperties DEF Safe, Typed
<1>2. c \in CallType /\ c.step = "persisting" /\ c.object = o
  BY <1>1 DEF CallType, Steps
<1>3. call' = [call EXCEPT ![t] = c]  BY <1>1 DEF Work, Safe, Typed
<1> HIDE DEF c
<1>4. Works(t, c, S, L, E)  BY <1>2 DEF Works
<1> QED  BY <1>2, <1>3, <1>4, CallSafe

LEMMA RequestSafe ==
  ASSUME NEW S, NEW L, NEW P, NEW E, NEW t \in Terminal, Safe(S, L, P, call, E),
         NEW op \in {"open", "restart", "clear", "close"}, NEW step \in Steps, NEW o \in Nat,
         NEW flag \in BOOLEAN, Request(t, op, step, o, flag),
         Works(t, [op |-> op, step |-> step, object |-> o, flag |-> flag], S, L, E)
  PROVE  Safe(S, L, P, call', E)
<1>1. [op |-> op, step |-> step, object |-> o, flag |-> flag] \in CallType
  BY DEF CallType
<1> QED  BY <1>1, CallSafe DEF Request

LEMMA StoppedTyped ==
  ASSUME NEW s \in SessionType, s.pid # 0
  PROVE  /\ Stopped(s) \in SessionType /\ Stopped(s).terminal = s.terminal
         /\ Stopped(s).pid = 0 /\ Stopped(s).status # "running"
<1> DEFINE z == [s EXCEPT !.pid = 0, !.status = "exited"]
<1>1. z \in SessionType /\ z.terminal = s.terminal /\ z.pid = 0 /\ z.status # "running"
  BY DEF SessionType
<1>2. Stopped(s) = z  BY DEF Stopped
<1> HIDE DEF z
<1> QED  BY <1>1, <1>2

(* The session of o, which has a shell, is stopped and gets the history h. *)
LEMMA StopSafe ==
  ASSUME Inv, NEW o \in DOMAIN session, session[o].pid # 0, StopShell(o),
         NEW h \in Seq(Chunk)
  PROVE  /\ Safe([session EXCEPT ![o] = [Stopped(session[o]) EXCEPT !.history = h]],
                 listed, process', call, evictedInUse)
         /\ Safe([session EXCEPT ![o] = Stopped(session[o])],
                 listed, process', call, evictedInUse)
<1>1. session[o] \in SessionType  BY ObjectTyped
<1> DEFINE s == Stopped(session[o])  r == [s EXCEPT !.history = h]
<1>2. s \in SessionType /\ s.terminal = session[o].terminal /\ s.pid = 0
      /\ s.status # "running"
  BY <1>1, StoppedTyped
<1>3. r \in SessionType /\ r.terminal = session[o].terminal /\ r.pid = 0
      /\ r.status # "running"
  <2> HIDE DEF s
  <2> QED  BY <1>2 DEF SessionType
<1>4. process' = [process EXCEPT ![session[o].pid].state = "stopping"]
  BY DEF StopShell
<1> HIDE DEF s, r
<1>5. Safe([session EXCEPT ![o] = s], listed, process', call, evictedInUse)
  BY <1>2, <1>4, LetGoSafe DEF Inv
<1>6. Safe([session EXCEPT ![o] = r], listed, process', call, evictedInUse)
  BY <1>3, <1>4, LetGoSafe DEF Inv
<1> QED  BY <1>5, <1>6 DEF s, r

LEMMA EmptyHistory == <<>> \in Seq(Chunk)
BY EmptySeq

(* The new session of t. *)
LEMMA NewTyped ==
  ASSUME NEW t \in Terminal, NEW h \in Seq(Chunk)
  PROVE  /\ New(t, h) \in SessionType /\ New(t, h).terminal = t /\ New(t, h).pid = 0
         /\ New(t, h).status = "starting"
BY DEF New, SessionType

(* Requests that only go on or return. *)
LEMMA CallOnlyInv ==
  ASSUME Inv, Safe(session, listed, process, call', evictedInUse), Counted',
         UNCHANGED <<session, listed, process, waiting, worker, evictedInUse>>
  PROVE  Inv'
BY DEF Inv, Histories, worker

LEMMA AskInv ==
  ASSUME Inv, NEW t \in Terminal, NEW flag \in BOOLEAN, AskOpen(t, flag) \/ AskRestart(t)
  PROVE  Inv'
<1> PICK op \in {"open", "restart"}, f \in BOOLEAN:
      /\ Request(t, op, "checking", 0, f)
      /\ UNCHANGED <<session, listed, process, waiting, worker, evictedInUse>>
  BY DEF AskOpen, AskRestart
<1>1. Safe(session, listed, process, call', evictedInUse)
  <2>1. Works(t, [op |-> op, step |-> "checking", object |-> 0, flag |-> f],
              session, listed, evictedInUse)
    BY DEF Works
  <2>2. "checking" \in Steps  BY DEF Steps
  <2> QED  BY <2>1, <2>2, RequestSafe DEF Inv
<1>2. Counted'  BY RequestCounted DEF Inv
<1> QED  BY <1>1, <1>2, CallOnlyInv

LEMMA RefuseInv == ASSUME Inv, NEW t \in Terminal, Refuse(t) \/ ReadFails(t) PROVE Inv'
<1>1. Counted'  BY HappensCounted DEF Refuse, ReadFails, Inv
<1>2. Safe(session, listed, process, call', evictedInUse)
  BY ReturnSafe DEF Refuse, ReadFails, Inv
<1> QED  BY <1>1, <1>2, CallOnlyInv DEF Refuse, ReadFails

LEMMA FindRunningInv == ASSUME Inv, NEW t \in Terminal, FindRunning(t) PROVE Inv'
<1>1. Return(t) /\ Counted'  BY DEF FindRunning, Inv, Counted
<1>2. Safe(session, listed, process, call', evictedInUse)  BY <1>1, ReturnSafe DEF Inv
<1> QED  BY <1>1, <1>2, CallOnlyInv DEF FindRunning

LEMMA ReachFileInv ==
  ASSUME Inv, NEW t \in Terminal, FindNothing(t) \/ Flushed(t) PROVE Inv'
<1> PICK s \in {"flushing", "reading"}: Goto(t, s)  BY DEF FindNothing, Flushed
<1>1. listed[t] = 0
  <2>1. CASE FindNothing(t)  BY <2>1 DEF FindNothing
  <2>2. CASE Flushed(t)
    <3>1. Works(t, call[t], session, listed, evictedInUse)  BY DEF Inv, Safe, Calls
    <3> QED  BY <2>2, <3>1 DEF Flushed, Works
  <2> QED  BY <2>1, <2>2
<1>2. Safe(session, listed, process, call', evictedInUse)
  BY <1>1, GotoSafe DEF Inv, Steps
<1>3. UNCHANGED <<session, listed, process, waiting, worker, evictedInUse, count>>
  BY DEF FindNothing, Flushed
<1> QED  BY <1>2, <1>3, CallOnlyInv DEF Inv, Counted

(************************ Requests that have a session *********************)
LEMMA ListedTyped ==
  ASSUME Inv, NEW t \in Terminal, listed[t] # 0
  PROVE  listed[t] \in DOMAIN session /\ session[listed[t]].terminal = t
         /\ listed[t] \in Nat
BY DEF Inv, Safe, Listing, Typed

LEMMA WorksHere ==
  ASSUME Inv, NEW t \in Terminal
  PROVE  Works(t, call[t], session, listed, evictedInUse) /\ call[t] \in CallType
BY DEF Inv, Safe, Calls, Typed

LEMMA PersistedInv == ASSUME Inv, NEW t \in Terminal, Persisted(t) PROVE Inv'
<1> DEFINE o == call[t].object
           R == [session EXCEPT ![o].status = "starting"]
<1>1. UNCHANGED <<listed, process, waiting, worker, evictedInUse, count>>
  BY DEF Persisted
<1>2. Safe(session, listed, process, call, evictedInUse)'
  <2>1. CASE call[t].op = "clear"
    <3>1. Return(t) /\ session' = session  BY <2>1 DEF Persisted
    <3> QED  BY <1>1, <3>1, ReturnSafe DEF Inv
  <2>2. CASE call[t].op # "clear"
    <3>1. Goto(t, "starting") /\ session' = R  BY <2>2 DEF Persisted
    <3>2. /\ o \in DOMAIN session /\ session[o].terminal = t /\ session[o].pid = 0
          /\ listed[t] = o \/ o \in evictedInUse
      BY <2>2, WorksHere DEF Persisted, Works
    <3>3. Safe(R, listed, process, call, evictedInUse)  BY <3>2, StatusSafe DEF Inv
    <3>4. session[o] \in SessionType  BY <3>2, ObjectTyped
    <3>5. /\ DOMAIN R = DOMAIN session /\ R[o] = [session[o] EXCEPT !.status = "starting"]
      BY <3>2
    <3>6. R[o].terminal = t /\ R[o].pid = 0  BY <3>2, <3>4, <3>5 DEF SessionType
    <3> HIDE DEF R
    <3>7. Safe(R, listed, process, call', evictedInUse)
      BY <3>1, <3>2, <3>3, <3>5, <3>6, GotoSafe DEF Steps
    <3> QED  BY <1>1, <3>1, <3>7
  <2> QED  BY <2>1, <2>2
<1> QED  BY <1>1, <1>2 DEF Inv, Histories, Counted, worker

LEMMA StartInv == ASSUME Inv, NEW t \in Terminal, Start(t) PROVE Inv'
<1> DEFINE o == call[t].object
           p == Len(process) + 1
           s == [session[o] EXCEPT !.pid = p, !.status = "running"]
           x == [owner |-> o, state |-> "alive"]
<1>1. /\ o \in DOMAIN session /\ session[o].terminal = t /\ session[o].pid = 0
      /\ listed[t] = o \/ o \in evictedInUse
  BY WorksHere DEF Start, Works
<1>2. session[o] \in SessionType /\ session \in Seq(SessionType)
      /\ process \in Seq(ProcessType)
  BY <1>1, ObjectTyped DEF Inv, Safe, Typed
<1>3. p \in Nat \ {0} /\ DOMAIN process = 1..Len(process) /\ o \in Nat
  BY <1>1, <1>2, LenProperties
<1>4. s \in SessionType /\ s.terminal = t /\ s.pid = p /\ s.status = "running"
  BY <1>1, <1>2, <1>3 DEF SessionType
<1>5. x \in ProcessType /\ x.owner = o /\ x.state = "alive"  BY <1>3 DEF ProcessType
<1>6. [session EXCEPT ![o].pid = p, ![o].status = "running"] = [session EXCEPT ![o] = s]
  BY <1>1
<1>7. /\ session' = [session EXCEPT ![o] = s] /\ process' = Append(process, x) /\ Return(t)
      /\ UNCHANGED <<listed, waiting, worker, evictedInUse, count>>
  BY <1>6 DEF Start
<1> HIDE DEF o, s, x
<1>8. /\ session' \in Seq(SessionType) /\ DOMAIN session' = DOMAIN session /\ session'[o] = s
      /\ \A u \in DOMAIN session \ {o}: session'[u] = session[u]
  BY <1>1, <1>2, <1>4, <1>7, Replace
<1>9. /\ process' \in Seq(ProcessType) /\ DOMAIN process' = DOMAIN process \union {p}
      /\ process'[p] = x /\ p \notin DOMAIN process
      /\ \A q \in DOMAIN process: process'[q] = process[q]
  BY <1>2, <1>3, <1>5, <1>7, AppendProperties
<1> HIDE DEF p
<1>10. Typed(session', listed, process', call)  BY <1>8, <1>9 DEF Inv, Safe, Typed
<1>11. Running(session')  BY <1>3, <1>4, <1>8 DEF Inv, Safe, Running
<1>12. HasShell(session', process')
  <2> SUFFICES ASSUME NEW u \in DOMAIN session, session'[u].pid # 0
               PROVE  /\ session'[u].pid \in DOMAIN process'
                      /\ process'[session'[u].pid].owner = u
                      /\ process'[session'[u].pid].state = "alive"
    BY <1>8 DEF HasShell
  <2>1. CASE u = o  BY <1>4, <1>5, <1>8, <1>9, <2>1
  <2>2. CASE u # o
    <3>1. session'[u] = session[u]  BY <1>8, <2>2
    <3>2. session[u].pid \in DOMAIN process /\ process[session[u].pid].owner = u
          /\ process[session[u].pid].state = "alive"
      BY <3>1 DEF Inv, Safe, HasShell
    <3> QED  BY <1>9, <3>1, <3>2
  <2> QED  BY <2>1, <2>2
<1>13. Owned(session', process')
  <2> SUFFICES ASSUME NEW q \in DOMAIN process'
               PROVE  process'[q].owner \in DOMAIN session'
                      /\ (process'[q].state = "alive" => session'[process'[q].owner].pid = q)
    BY DEF Owned
  <2>1. CASE q = p  BY <1>1, <1>4, <1>5, <1>8, <1>9, <2>1
  <2>2. CASE q \in DOMAIN process
    <3>1. process'[q] = process[q] /\ process[q].owner \in DOMAIN session
          /\ (process[q].state = "alive" => session[process[q].owner].pid = q)
      BY <1>9, <2>2 DEF Inv, Safe, Owned
    <3>2. q # 0  BY <1>2, <2>2, LenProperties
    <3> QED  BY <1>1, <1>8, <3>1, <3>2
  <2> QED  BY <1>9, <2>1, <2>2
<1>14. Listing(session', listed)  BY <1>1, <1>4, <1>8 DEF Inv, Safe, Listing
<1>15. Shown(session', listed, evictedInUse)  BY <1>1, <1>4, <1>8 DEF Inv, Safe, Shown
<1>16. Calls(session', listed, call', evictedInUse)
  <2> SUFFICES ASSUME NEW u \in Terminal
               PROVE  Works(u, call'[u], session', listed, evictedInUse)
    BY DEF Calls
  <2>0. call' = [call EXCEPT ![t] = Free] /\ call \in [Terminal -> CallType]
    BY <1>7 DEF Return, Inv, Safe, Typed
  <2>1. CASE u = t  BY <2>0, <2>1 DEF Works, Free
  <2>2. CASE u # t
    <3>1. Works(u, call[u], session, listed, evictedInUse)  BY WorksHere
    <3>2. call'[u] = call[u]  BY <2>0, <2>2
    <3>3. listed[u] # 0 => listed[u] \in DOMAIN session /\ session[listed[u]].terminal = u
      BY ListedTyped
    <3> QED  BY <1>1, <1>8, <2>2, <3>1, <3>2, <3>3 DEF Works
  <2> QED  BY <2>1, <2>2
<1>17. Safe(session, listed, process, call, evictedInUse)'
  <2>1. call' \in [Terminal -> CallType]
    BY <1>7 DEF Return, Inv, Safe, Typed, Free, CallType, Steps
  <2> QED
    BY <1>7, <1>10, <1>11, <1>12, <1>13, <1>14, <1>15, <1>16, <2>1 DEF Safe, Typed
<1> QED  BY <1>7, <1>17 DEF Inv, Histories, Counted, worker

LEMMA StartFailsInv == ASSUME Inv, NEW t \in Terminal, StartFails(t) PROVE Inv'
<1> DEFINE o == call[t].object
           R == [session EXCEPT ![o].status = "error"]
<1>1. o \in DOMAIN session /\ session[o].pid = 0
  BY WorksHere DEF StartFails, Works
<1>2. Safe(R, listed, process, call, evictedInUse)  BY <1>1, StatusSafe DEF Inv
<1>3. /\ Return(t) /\ SetSessions(R, listed, Touched(o))
      /\ UNCHANGED <<process, waiting, worker>>
  BY DEF StartFails
<1> HIDE DEF R
<1>4. Safe(R, listed, process', call', evictedInUse)  BY <1>2, <1>3, ReturnSafe
<1>5. Safe(session, listed, process, call, evictedInUse)'  BY <1>3, <1>4, EvictionSafe
<1>6. Counted'  BY HappensCounted DEF StartFails, Inv
<1> QED  BY <1>3, <1>5, <1>6 DEF Inv, Histories, worker

LEMMA ClearInv == ASSUME Inv, NEW t \in Terminal, Clear(t) PROVE Inv'
<1> DEFINE o == listed[t]
           R == [session EXCEPT ![o].history = <<>>]
<1>1. o \in DOMAIN session /\ session[o].terminal = t /\ o \in Nat
  BY ListedTyped DEF Clear
<1>2. Safe(R, listed, process, call, evictedInUse)
  BY <1>1, EmptyHistory, HistorySafe DEF Inv
<1>3. DOMAIN R = DOMAIN session /\ R[o] = [session[o] EXCEPT !.history = <<>>]
  BY <1>1
<1>4. R[o].terminal = t  BY <1>1, <1>3, ObjectTyped DEF SessionType
<1>5. /\ Request(t, "clear", "persisting", o, FALSE) /\ session' = R
      /\ Queue(t, <<>>)
      /\ UNCHANGED <<listed, process, worker, evictedInUse>>
  BY DEF Clear
<1> HIDE DEF R
<1>6. Works(t, [op |-> "clear", step |-> "persisting", object |-> o, flag |-> FALSE],
            R, listed, evictedInUse)
  BY <1>1, <1>3, <1>4 DEF Works
<1>7. Safe(R, listed, process, call', evictedInUse)
  BY <1>1, <1>2, <1>5, <1>6, RequestSafe DEF Steps
<1>8. Counted'  BY <1>5, RequestCounted DEF Inv
<1>9. Histories'  BY <1>5, EmptyHistory, QueueTyped DEF Inv
<1> QED  BY <1>5, <1>7, <1>8, <1>9 DEF Inv

LEMMA UnlistInv == ASSUME Inv, NEW t \in Terminal, Unlist(t) PROVE Inv'
<1> DEFINE M == [listed EXCEPT ![t] = 0]
<1>1. /\ listed' = M
      /\ UNCHANGED <<session, process, waiting, worker, evictedInUse, count>>
      /\ Return(t) \/ Goto(t, "deleting")
  BY DEF Unlist
<1>2. M \in [Terminal -> Nat] /\ \A u \in Terminal: M[u] = IF u = t THEN 0 ELSE listed[u]
  BY DEF Inv, Safe, Typed
<1> HIDE DEF M
<1>3. call[t].step = "closing" /\ (listed[t] = 0 \/ session[listed[t]].pid = 0)
  BY WorksHere DEF Unlist, Works
<1>4. Typed(session, M, process, call)  BY <1>2 DEF Inv, Safe, Typed
<1>5. Listing(session, M)  BY <1>2 DEF Inv, Safe, Listing
<1>6. Shown(session, M, evictedInUse)
  <2> SUFFICES ASSUME NEW o \in DOMAIN session, session[o].pid # 0
               PROVE  M[session[o].terminal] = o \/ o \in evictedInUse
    BY DEF Shown
  <2>1. session[o].terminal \in Terminal  BY ObjectTyped
  <2>2. listed[session[o].terminal] = o \/ o \in evictedInUse  BY DEF Inv, Safe, Shown
  <2>3. o # 0  BY LenProperties DEF Inv, Safe, Typed
  <2> QED  BY <1>2, <1>3, <2>1, <2>2, <2>3
<1>7. call' \in [Terminal -> CallType] /\ call'[t].step \in {"free", "deleting"}
      /\ \A u \in Terminal \ {t}: call'[u] = call[u]
  <2>1. call \in [Terminal -> CallType] /\ call[t] \in CallType
    BY WorksHere DEF Inv, Safe, Typed
  <2>2. CASE Return(t)  BY <2>1, <2>2 DEF Return, Free, CallType, Steps
  <2>3. CASE Goto(t, "deleting")
    <3>1. [call[t] EXCEPT !.step = "deleting"] \in CallType
          /\ [call[t] EXCEPT !.step = "deleting"].step = "deleting"
      BY <2>1 DEF CallType, Steps
    <3>2. call' = [call EXCEPT ![t] = [call[t] EXCEPT !.step = "deleting"]]
      BY <2>3 DEF Goto
    <3> QED  BY <2>1, <3>1, <3>2
  <2> QED  BY <1>1, <2>2, <2>3
<1>8. Calls(session, M, call', evictedInUse)
  <2> SUFFICES ASSUME NEW u \in Terminal
               PROVE  Works(u, call'[u], session, M, evictedInUse)
    BY DEF Calls
  <2>1. CASE u = t  BY <1>7, <2>1 DEF Works
  <2>2. CASE u # t
    <3>1. Works(u, call[u], session, listed, evictedInUse)  BY WorksHere
    <3> QED  BY <1>2, <1>7, <2>2, <3>1 DEF Works
  <2> QED  BY <2>1, <2>2
<1>9. Safe(session, listed, process, call, evictedInUse)'
  BY <1>1, <1>4, <1>5, <1>6, <1>7, <1>8 DEF Inv, Safe, Typed
<1> QED  BY <1>1, <1>9 DEF Inv, Histories, Counted, worker

LEMMA DeleteHistoryInv == ASSUME Inv, NEW t \in Terminal, DeleteHistory(t) PROVE Inv'
<1> DEFINE d(o) == [session[o] EXCEPT !.deleted = IF Quiet(t) THEN "yes" ELSE "early"]
           R == [o \in DOMAIN session |-> IF session[o].terminal # t THEN session[o] ELSE d(o)]
<1>1. /\ session' = R /\ Return(t) /\ file' = [file EXCEPT ![t] = None]
      /\ UNCHANGED <<listed, process, waiting, active, evictedInUse, count>>
  BY DEF DeleteHistory
<1>2. \A o \in DOMAIN session:
        /\ R[o] \in SessionType /\ R[o].terminal = session[o].terminal
        /\ R[o].pid = session[o].pid /\ R[o].status = session[o].status
  <2> SUFFICES ASSUME NEW o \in DOMAIN session
               PROVE  /\ R[o] \in SessionType /\ R[o].terminal = session[o].terminal
                      /\ R[o].pid = session[o].pid /\ R[o].status = session[o].status
    OBVIOUS
  <2>1. session[o] \in SessionType  BY ObjectTyped
  <2>2. d(o) \in SessionType /\ d(o).terminal = session[o].terminal
        /\ d(o).pid = session[o].pid /\ d(o).status = session[o].status
    BY <2>1 DEF SessionType
  <2>3. R[o] = IF session[o].terminal # t THEN session[o] ELSE d(o)  OBVIOUS
  <2> HIDE DEF R, d
  <2> QED  BY <2>1, <2>2, <2>3
<1>3. DOMAIN R = DOMAIN session  OBVIOUS
<1>4. R \in Seq(SessionType)
  <2>1. DOMAIN session = 1..Len(session) /\ Len(session) \in Nat
    BY LenProperties DEF Inv, Safe, Typed
  <2>2. R \in [1..Len(session) -> SessionType]  BY <1>2, <2>1
  <2> HIDE DEF R
  <2> QED  BY <2>1, <2>2, SeqDef
<1> HIDE DEF R, d
<1>5. Typed(R, listed, process, call)  BY <1>4 DEF Inv, Safe, Typed
<1>6. Running(R) /\ HasShell(R, process) /\ Owned(R, process)
  BY <1>2, <1>3 DEF Inv, Safe, Running, HasShell, Owned
<1>7. Listing(R, listed) /\ Shown(R, listed, evictedInUse)
  BY <1>2, <1>3 DEF Inv, Safe, Listing, Shown
<1>8. Calls(R, listed, call, evictedInUse)
  BY <1>2, <1>3 DEF Inv, Safe, Calls, Works, Listing
<1>9. Safe(R, listed, process, call, evictedInUse)
  BY <1>5, <1>6, <1>7, <1>8 DEF Safe
<1>10. Safe(R, listed, process, call', evictedInUse)  BY <1>1, <1>9, ReturnSafe
<1>11. Histories'  BY <1>1 DEF Inv, Histories
<1> QED  BY <1>1, <1>10, <1>11 DEF Inv, Counted

LEMMA ReadHistoryInv == ASSUME Inv, NEW t \in Terminal, ReadHistory(t) PROVE Inv'
<1> DEFINE o == Len(session) + 1
           h == IF file[t] = None THEN <<>> ELSE Cap(file[t])
           c == [call[t] EXCEPT !.step = "starting", !.object = o]
<1>1. /\ file' = IF file[t] = None THEN file ELSE [file EXCEPT ![t] = h]
      /\ Work(t, "starting", o)
      /\ SetSessions(Append(session, New(t, h)), [listed EXCEPT ![t] = o], Append(recent, o))
      /\ UNCHANGED <<process, waiting, active, count>>
  BY DEF ReadHistory
<1>2. h \in Seq(Chunk)
  <2>1. CASE file[t] = None  BY <2>1, EmptyHistory
  <2>2. CASE file[t] # None
    <3>1. file[t] \in Seq(Chunk)  BY <2>2 DEF Inv, Histories
    <3> QED  BY <2>2, <3>1, CapTyped
  <2> QED  BY <2>1, <2>2
<1>3. listed[t] = 0 /\ call[t] \in CallType  BY WorksHere DEF ReadHistory, Works
<1>4. o \in Nat  BY LenProperties DEF Inv, Safe, Typed
<1>5. c \in CallType /\ c.step = "starting" /\ c.object = o
  BY <1>3, <1>4 DEF CallType, Steps
<1>6. call' = [call EXCEPT ![t] = c]  BY <1>1 DEF Work, Inv, Safe, Typed
<1> HIDE DEF h, c
<1>7. Safe(Append(session, New(t, h)), [listed EXCEPT ![t] = o], process, call', evictedInUse)
  BY <1>2, <1>3, <1>5, <1>6, NewTyped, AddSafe DEF Inv
<1>8. Safe(session, listed, process, call, evictedInUse)'
  BY <1>1, <1>7, EvictionSafe
<1>9. Histories'  BY <1>1, <1>2 DEF Inv, Histories
<1> QED  BY <1>1, <1>8, <1>9 DEF Inv, Counted

LEMMA RestartNewInv == ASSUME Inv, NEW t \in Terminal, RestartNew(t) PROVE Inv'
<1> DEFINE o == Len(session) + 1
           c == [call[t] EXCEPT !.step = "persisting", !.object = o]
<1>1. /\ Work(t, "persisting", o)
      /\ SetSessions(Append(session, New(t, <<>>)), [listed EXCEPT ![t] = o],
                     Append(recent, o))
      /\ Queue(t, <<>>)
      /\ UNCHANGED <<process, worker, count>>
  BY DEF RestartNew
<1>2. listed[t] = 0 /\ call[t] \in CallType  BY WorksHere DEF RestartNew
<1>3. o \in Nat  BY LenProperties DEF Inv, Safe, Typed
<1>4. c \in CallType /\ c.step = "persisting" /\ c.object = o
  BY <1>2, <1>3 DEF CallType, Steps
<1>5. call' = [call EXCEPT ![t] = c]  BY <1>1 DEF Work, Inv, Safe, Typed
<1> HIDE DEF c
<1>6. Safe(Append(session, New(t, <<>>)), [listed EXCEPT ![t] = o], process, call',
           evictedInUse)
  BY <1>2, <1>4, <1>5, EmptyHistory, NewTyped, AddSafe DEF Inv
<1>7. Safe(session, listed, process, call, evictedInUse)'
  BY <1>1, <1>6, EvictionSafe
<1>8. Histories'  BY <1>1, EmptyHistory, QueueTyped DEF Inv
<1> QED  BY <1>1, <1>7, <1>8 DEF Inv, Counted

(* What open and restart do with a session they find, with and without a shell. *)
StopAndEmpty(t, o) ==
  /\ session[o].pid # 0 /\ StopShell(o)
  /\ SetSessions([session EXCEPT ![o] = [Stopped(session[o]) EXCEPT !.history = <<>>]],
                 listed, Touched(o))
EmptyOnly(t, o) ==
  /\ session[o].pid = 0
  /\ session' = [session EXCEPT ![o].history = <<>>]
  /\ UNCHANGED <<listed, process, evictedInUse>>

LEMMA ReuseInv ==
  ASSUME Inv, NEW t \in Terminal, listed[t] # 0, Work(t, "persisting", listed[t]),
         StopAndEmpty(t, listed[t]) \/ EmptyOnly(t, listed[t]),
         Queue(t, <<>>), UNCHANGED <<worker, count>>
  PROVE  Inv'
<1> DEFINE o == listed[t]
<1>1. o \in DOMAIN session /\ session[o].terminal = t  BY ListedTyped
<1>2. session[o] \in SessionType  BY <1>1, ObjectTyped
<1>3. Safe(session, listed, process, call, evictedInUse)'
  <2>1. CASE StopAndEmpty(t, o)
    <3> DEFINE s == [Stopped(session[o]) EXCEPT !.history = <<>>]
               R == [session EXCEPT ![o] = s]
    <3>1. session[o].pid # 0 /\ StopShell(o) /\ SetSessions(R, listed, Touched(o))
      BY <2>1 DEF StopAndEmpty
    <3>2. Safe(R, listed, process', call, evictedInUse)
      BY <1>1, <3>1, EmptyHistory, StopSafe
    <3>3. s.terminal = t /\ s.pid = 0
      <4>1. Stopped(session[o]) \in SessionType /\ Stopped(session[o]).terminal = t
            /\ Stopped(session[o]).pid = 0
        BY <1>1, <1>2, <3>1, StoppedTyped
      <4> QED  BY <4>1 DEF SessionType
    <3>4. DOMAIN R = DOMAIN session /\ R[o] = s  BY <1>1
    <3> HIDE DEF s, R
    <3>5. Safe(R, listed, process', call', evictedInUse)
      BY <1>1, <3>2, <3>3, <3>4, WorkSafe
    <3> QED  BY <3>1, <3>5, EvictionSafe
  <2>2. CASE EmptyOnly(t, o)
    <3> DEFINE R == [session EXCEPT ![o].history = <<>>]
    <3>1. session' = R /\ session[o].pid = 0 /\ UNCHANGED <<listed, process, evictedInUse>>
      BY <2>2 DEF EmptyOnly
    <3>2. Safe(R, listed, process, call, evictedInUse)
      BY <1>1, EmptyHistory, HistorySafe DEF Inv
    <3>3. DOMAIN R = DOMAIN session /\ R[o] = [session[o] EXCEPT !.history = <<>>]
      BY <1>1
    <3>4. R[o].terminal = t /\ R[o].pid = 0  BY <1>1, <1>2, <3>1, <3>3 DEF SessionType
    <3> HIDE DEF R
    <3>5. Safe(R, listed, process, call', evictedInUse)
      BY <1>1, <3>2, <3>3, <3>4, WorkSafe
    <3> QED  BY <3>1, <3>5
  <2> QED  BY <2>1, <2>2
<1>4. Histories'  BY EmptyHistory, QueueTyped DEF Inv
<1> QED  BY <1>3, <1>4 DEF Inv, Counted

LEMMA RestartListedInv == ASSUME Inv, NEW t \in Terminal, RestartListed(t) PROVE Inv'
<1>1. /\ listed[t] # 0 /\ Work(t, "persisting", listed[t])
      /\ Queue(t, <<>>) /\ UNCHANGED <<worker, count>>
  BY DEF RestartListed
<1>2. StopAndEmpty(t, listed[t]) \/ EmptyOnly(t, listed[t])
  <2>1. CASE session[listed[t]].pid # 0
    BY <2>1, Zenon DEF RestartListed, StopAndEmpty, OrderAfterStop
  <2>2. CASE session[listed[t]].pid = 0
    BY <2>2 DEF RestartListed, EmptyOnly, StopShell
  <2> QED  BY <2>1, <2>2
<1> QED  BY <1>1, <1>2, ReuseInv

LEMMA FindOtherInv == ASSUME Inv, NEW t \in Terminal, FindOther(t) PROVE Inv'
<1> DEFINE o == listed[t]
<1>1. /\ o # 0 /\ Work(t, "persisting", o)
      /\ Queue(t, <<>>) /\ UNCHANGED <<worker, count>>
  BY DEF FindOther
<1>2. /\ call[t].flag \/ session[o].status \in {"exited", "error"}
      /\ o \in DOMAIN session
  BY <1>1, ListedTyped DEF FindOther
<1>3. StopAndEmpty(t, o) \/ EmptyOnly(t, o)
  <2>1. CASE call[t].flag /\ session[o].pid # 0
    BY <2>1, Zenon DEF FindOther, StopAndEmpty
  <2>2. CASE call[t].flag /\ session[o].pid = 0
    <3>1. Stopped(session[o]) = session[o]  BY <2>2 DEF Stopped
    <3>2. /\ session' = [session EXCEPT ![o] = [Stopped(session[o]) EXCEPT !.history = <<>>]]
          /\ StopShell(o) /\ UNCHANGED <<listed, evictedInUse>>
      BY <2>2 DEF FindOther
    <3> QED  BY <2>2, <3>1, <3>2 DEF EmptyOnly, StopShell
  <2>3. CASE ~call[t].flag
    <3>1. session[o].pid = 0  BY <1>2, <2>3, ObjectTyped
    <3>2. /\ session' = [session EXCEPT ![o] = [session[o] EXCEPT !.history = <<>>]]
          /\ UNCHANGED <<process, listed, evictedInUse>>
      BY <2>3 DEF FindOther
    <3> QED  BY <3>1, <3>2 DEF EmptyOnly
  <2> QED  BY <2>1, <2>2, <2>3
<1> HIDE DEF o
<1> QED  BY <1>1, <1>3, ReuseInv DEF o

LEMMA CloseInv ==
  ASSUME Inv, NEW t \in Terminal, NEW delete \in BOOLEAN, Close(t, delete) PROVE Inv'
<1> DEFINE o == listed[t]
           c == [op |-> "close", step |-> "closing", object |-> o, flag |-> delete]
<1>1. Request(t, "close", "closing", o, delete) /\ UNCHANGED worker  BY DEF Close
<1>2. o \in Nat /\ "closing" \in Steps  BY DEF Inv, Safe, Typed, Steps
<1>3. Counted'  BY <1>1, RequestCounted DEF Inv
<1>4. CASE o = 0
  <2>1. UNCHANGED <<session, listed, evictedInUse, process, waiting>>  BY <1>4 DEF Close
  <2>2. Works(t, c, session, listed, evictedInUse)  BY <1>4 DEF Works
  <2>3. Safe(session, listed, process, call', evictedInUse)
    BY <1>1, <1>2, <2>2, RequestSafe DEF Inv
  <2> QED  BY <1>1, <1>3, <2>1, <2>3, CallOnlyInv
<1>5. CASE o # 0
  <2>1. o \in DOMAIN session /\ session[o].terminal = t  BY <1>5, ListedTyped
  <2>2. session[o] \in SessionType /\ session[o].history \in Seq(Chunk)
    BY <2>1, ObjectTyped
  <2>3. Histories'
    <3>1. Queue(t, session[o].history)  BY <1>5 DEF Close
    <3> QED  BY <1>1, <2>2, <3>1, QueueTyped DEF Inv
  <2>4. CASE session[o].pid = 0
    <3>1. UNCHANGED <<session, listed, evictedInUse, process>>
      BY <1>5, <2>4 DEF Close, StopShell
    <3>2. Works(t, c, session, listed, evictedInUse)  BY <2>4 DEF Works
    <3>3. Safe(session, listed, process, call', evictedInUse)
      BY <1>1, <1>2, <3>2, RequestSafe DEF Inv
    <3> QED  BY <1>3, <2>3, <3>1, <3>3 DEF Inv
  <2>5. CASE session[o].pid # 0
    <3> DEFINE s == Stopped(session[o])  R == [session EXCEPT ![o] = s]
    <3>1. StopShell(o) /\ SetSessions(R, listed, Touched(o))  BY <1>5, <2>5 DEF Close
    <3>2. Safe(R, listed, process', call, evictedInUse)
      BY <2>1, <2>5, <3>1, EmptyHistory, StopSafe
    <3>3. s.pid = 0  BY <2>2, <2>5, StoppedTyped
    <3>4. R[o] = s  BY <2>1
    <3> HIDE DEF s, R
    <3>5. Works(t, c, R, listed, evictedInUse)  BY <3>3, <3>4 DEF Works
    <3>6. Safe(R, listed, process', call', evictedInUse)
      BY <1>1, <1>2, <3>2, <3>5, RequestSafe
    <3>7. Safe(session, listed, process, call, evictedInUse)'
      BY <3>1, <3>6, EvictionSafe
    <3> QED  BY <1>3, <2>3, <3>7 DEF Inv
  <2> QED  BY <2>4, <2>5
<1> QED  BY <1>4, <1>5

LEMMA CloseThreadInv ==
  ASSUME Inv, NEW t \in Terminal, NEW delete \in BOOLEAN, CloseThread(t, delete) PROVE Inv'
<1>1. CASE listed[t] # 0  BY <1>1, CloseInv DEF CloseThread
<1>2. CASE listed[t] = 0
  <2>1. /\ Request(t, "close", "deleting", 0, TRUE)
        /\ UNCHANGED <<session, listed, process, waiting, worker, evictedInUse>>
    BY <1>2 DEF CloseThread
  <2>2. Works(t, [op |-> "close", step |-> "deleting", object |-> 0, flag |-> TRUE],
              session, listed, evictedInUse) /\ "deleting" \in Steps
    BY DEF Works, Steps
  <2>3. Safe(session, listed, process, call', evictedInUse)
    BY <2>1, <2>2, RequestSafe DEF Inv
  <2>4. Counted'  BY <2>1, RequestCounted DEF Inv
  <2> QED  BY <2>1, <2>3, <2>4, CallOnlyInv
<1> QED  BY <1>1, <1>2

LEMMA WorkerInv ==
  ASSUME Inv, NEW t \in Terminal, TakeHistory(t) \/ WriteHistory(t) PROVE Inv'
<1>1. UNCHANGED <<session, listed, process, call, evictedInUse>>
  BY DEF TakeHistory, WriteHistory
<1>2. Histories'
  <2>1. CASE TakeHistory(t)  BY <2>1 DEF TakeHistory, Inv, Histories
  <2>2. CASE WriteHistory(t)  BY <2>2 DEF WriteHistory, Inv, Histories
  <2> QED  BY <2>1, <2>2
<1>3. Counted'
  <2>1. CASE Happens("failures")  BY <2>1, HappensCounted DEF Inv
  <2>2. CASE UNCHANGED count  BY <2>2 DEF Inv, Counted
  <2> QED  BY <2>1, <2>2 DEF TakeHistory, WriteHistory
<1> QED  BY <1>1, <1>2, <1>3 DEF Inv

(******************************** Theorems *********************************)
LEMMA RequestStepInv == ASSUME Inv, NEW t \in Terminal, RequestStep(t) PROVE Inv'
BY RefuseInv, ReachFileInv, ReadHistoryInv, FindRunningInv, FindOtherInv, RestartNewInv,
   RestartListedInv, PersistedInv, StartInv, StartFailsInv, UnlistInv, DeleteHistoryInv
   DEF RequestStep

LEMMA StepInv == Inv /\ [Next]_vars => Inv'
<1> SUFFICES ASSUME Inv, [Next]_vars PROVE Inv'
  OBVIOUS
<1>1. ASSUME NEW t \in Terminal,
             \/ AskRestart(t) \/ Clear(t) \/ RequestStep(t) \/ TakeHistory(t) \/ WriteHistory(t)
             \/ \E flag \in BOOLEAN: AskOpen(t, flag) \/ Close(t, flag) \/ CloseThread(t, flag)
      PROVE  Inv'
  <2>1. CASE AskRestart(t)  BY <2>1, AskInv
  <2>2. CASE Clear(t)  BY <2>2, ClearInv
  <2>3. CASE RequestStep(t)  BY <2>3, RequestStepInv
  <2>4. CASE TakeHistory(t) \/ WriteHistory(t)  BY <2>4, WorkerInv
  <2>5. ASSUME NEW flag \in BOOLEAN, AskOpen(t, flag) \/ Close(t, flag) \/ CloseThread(t, flag)
        PROVE  Inv'
    BY <2>5, AskInv, CloseInv, CloseThreadInv
  <2> QED  BY <1>1, <2>1, <2>2, <2>3, <2>4, <2>5
<1>2. ASSUME NEW p \in DOMAIN process, Output(p) \/ Exit(p) \/ Die(p)
      PROVE  Inv'
  BY <1>2, OutputInv, ExitInv, DieInv
<1>3. CASE UNCHANGED vars
  BY <1>3 DEF vars, Inv, Histories, Counted
<1> QED  BY <1>1, <1>2, <1>3 DEF Next

LEMMA InvIsInvariant == Spec => []Inv
BY InitInv, StepInv, PTL DEF Spec

(* The sessions, the shells, the calls and the histories keep their types:   *)
(* what the manager lists, a shell belongs to and a request works on are     *)
(* sessions there are.                                                       *)
THEOREM TerminalsTypeCorrect ==
  Spec => [](Typed(session, listed, process, call) /\ Histories /\ Counted)
<1>1. Inv => Typed(session, listed, process, call) /\ Histories /\ Counted
  BY DEF Inv, Safe
<1> QED  BY <1>1, InvIsInvariant, PTL

(* For any terminals, requests and bounds: a shell that runs is the one of   *)
(* the session the manager lists for its terminal, or of one it evicted      *)
(* while a request was starting it.                                          *)
THEOREM ShellsAreListed == Spec => []ShellIsListedOrEvicted
<1>1. Inv => ShellIsListedOrEvicted
  <2> SUFFICES ASSUME Inv PROVE ShellIsListedOrEvicted
    OBVIOUS
  <2>1. \A o \in DOMAIN session: session[o].pid # 0 <=> session[o].status = "running"
    BY DEF Inv, Safe, Running
  <2>2. ASSUME NEW p \in DOMAIN process, process[p].state = "alive"
        PROVE  LET o == process[p].owner
               IN  session[o].pid = p /\ (listed[session[o].terminal] = o \/ o \in evictedInUse)
    <3>1. /\ process[p].owner \in DOMAIN session /\ session[process[p].owner].pid = p
          /\ p # 0
      BY <2>2, OwnerHas
    <3> QED  BY <3>1 DEF Inv, Safe, Shown
  <2> QED  BY <2>1, <2>2 DEF ShellIsListedOrEvicted
<1> QED  BY <1>1, InvIsInvariant, PTL

(**************************** The history files ****************************)
(* What the file of a terminal will hold when the worker is done with it.    *)
Coming(t) == IF waiting[t] # None THEN waiting[t]
             ELSE IF active[t] # None THEN active[t] ELSE file[t]
Holds(c, h) == c = h \/ (c = None /\ h = <<>>)
Newest(t, o) == o \in Of(t) /\ \A u \in Of(t): u <= o

(* The sessions of t stayed under its lock and no write failed.              *)
Followed(t) == count.failures = 0 /\ Of(t) \intersect evictedInUse = {}
Kept(t) ==
  /\ listed[t] # 0 => Newest(t, listed[t]) /\ session[listed[t]].deleted = "no"
  /\ call[t].step = "reading" => Quiet(t)
  /\ call[t].step = "deleting" => listed[t] = 0
  /\ \A o \in Of(t): Newest(t, o) =>
       /\ session[o].deleted = "yes" => listed[t] = 0 /\ Quiet(t) /\ file[t] = None
       /\ session[o].deleted = "no" => Holds(Coming(t), session[o].history)
FilesKept == \A t \in Terminal: Followed(t) => Kept(t)

(* What a step does to the sessions, the calls and the file of t: nothing    *)
(* that counts, ...                                                          *)
CallGoesOn(t) ==
  /\ call'[t].step = "reading" => call[t].step = "reading" \/ Quiet(t)
  /\ call'[t].step = "deleting" => call[t].step = "deleting" \/ listed'[t] = 0
Unwritten(t) == Coming(t)' = Coming(t) /\ (Quiet(t) => Quiet(t)')
SameSessions(t) ==
  /\ Of(t)' = Of(t)
  /\ \A o \in Of(t): /\ session'[o].history = session[o].history
                     /\ session'[o].deleted = session[o].deleted
Unlisted(t) == listed'[t] \in {listed[t], 0}
Passes(t) == SameSessions(t) /\ Unlisted(t) /\ Unwritten(t) /\ CallGoesOn(t)

(* ... or its listed session gets a history, which is queued, ...            *)
Writes(t) ==
  /\ listed[t] # 0 /\ Unlisted(t) /\ Of(t)' = Of(t)
  /\ session'[listed[t]].deleted = session[listed[t]].deleted
  /\ waiting'[t] = session'[listed[t]].history /\ waiting'[t] # None
  /\ call'[t].step \in {"reading", "deleting"} => call'[t].step = call[t].step

(* ... or it gets a session, with the history of the file or one queued.     *)
Gets(t) ==
  /\ \E n \in Nat: /\ Of(t)' = Of(t) \union {n} /\ (\A o \in Of(t): o < n)
                   /\ listed'[t] \in {n, 0}
                   /\ session'[n].deleted = "no" /\ Holds(Coming(t)', session'[n].history)
  /\ call'[t].step \notin {"reading", "deleting"}

LEMMA OfNumbers == ASSUME Inv, NEW t PROVE Of(t) \subseteq Nat \ {0} /\ Of(t) \subseteq DOMAIN session
<1>1. session \in Seq(SessionType)  BY DEF Inv, Safe, Typed
<1>2. DOMAIN session \subseteq Nat \ {0}  BY <1>1, LenProperties
<1> QED  BY <1>2 DEF Of

LEMMA PassesKeeps ==
  ASSUME Inv, NEW t \in Terminal, Kept(t), Passes(t) PROVE Kept(t)'
<1>1. \A o: Newest(t, o)' <=> Newest(t, o)  BY DEF Newest, Passes, SameSessions
<1>2. \A o: Newest(t, o) => o \in Of(t)  BY DEF Newest
<1>3. Quiet(t) => Quiet(t)' /\ file'[t] = file[t]
  <2> SUFFICES ASSUME Quiet(t) PROVE Quiet(t)' /\ file'[t] = file[t]  OBVIOUS
  <2>1. Quiet(t)' /\ Coming(t)' = Coming(t)  BY DEF Passes, Unwritten
  <2>2. Coming(t) = file[t]  BY DEF Quiet, Coming
  <2>3. Coming(t)' = file'[t]  BY <2>1 DEF Quiet, Coming
  <2> QED  BY <2>1, <2>2, <2>3
<1>4. ASSUME NEW o, o = listed'[t], o # 0 PROVE Newest(t, o)' /\ session'[o].deleted = "no"
  <2>1. o = listed[t]  BY <1>4 DEF Passes, Unlisted
  <2>2. Newest(t, o) /\ session[o].deleted = "no"  BY <1>4, <2>1 DEF Kept
  <2>3. session'[o].deleted = session[o].deleted
    BY <1>2, <2>2 DEF Passes, SameSessions
  <2> QED  BY <1>1, <2>2, <2>3
<1>5. call'[t].step = "reading" => Quiet(t)'  BY <1>3 DEF Kept, Passes, CallGoesOn
<1>6. call'[t].step = "deleting" => listed'[t] = 0
  BY DEF Kept, Passes, CallGoesOn, Unlisted
<1>7. ASSUME NEW o \in Of(t)', Newest(t, o)'
      PROVE  /\ session'[o].deleted = "yes" => listed'[t] = 0 /\ Quiet(t)' /\ file'[t] = None
             /\ session'[o].deleted = "no" => Holds(Coming(t)', session'[o].history)
  <2>1. Newest(t, o) /\ o \in Of(t)  BY <1>1, <1>2, <1>7
  <2>2. session'[o].deleted = session[o].deleted /\ session'[o].history = session[o].history
    BY <2>1 DEF Passes, SameSessions
  <2>3. Coming(t)' = Coming(t)  BY DEF Passes, Unwritten
  <2> QED  BY <1>3, <2>1, <2>2, <2>3 DEF Kept, Passes, Unlisted
<1> QED  BY <1>4, <1>5, <1>6, <1>7 DEF Kept

LEMMA WritesKeeps ==
  ASSUME Inv, NEW t \in Terminal, Kept(t), Writes(t) PROVE Kept(t)'
<1> PICK o: o = listed[t]  OBVIOUS
<1>1. Newest(t, o) /\ session[o].deleted = "no"  BY DEF Kept, Writes
<1>2. \A u: Newest(t, u)' => u = o
  <2> SUFFICES ASSUME NEW u, Newest(t, u)' PROVE u = o  OBVIOUS
  <2>1. u \in Of(t) /\ o \in Of(t) /\ u <= o /\ o <= u  BY <1>1 DEF Newest, Writes
  <2> QED  BY <2>1, OfNumbers
<1>3. Newest(t, o)'  BY <1>1 DEF Newest, Writes
<1>4. session'[o].deleted = "no"  BY <1>1 DEF Writes
<1>5. call'[t].step \notin {"reading", "deleting"}
  <2>1. Works(t, call[t], session, listed, evictedInUse)  BY WorksHere
  <2> QED  BY <2>1 DEF Works, Writes, Kept
<1>6. Coming(t)' = session'[o].history  BY DEF Coming, Writes
<1>7. listed'[t] \in {o, 0}  BY DEF Writes, Unlisted
<1> QED  BY <1>2, <1>3, <1>4, <1>5, <1>6, <1>7 DEF Kept, Holds

LEMMA GetsKeeps ==
  ASSUME Inv, NEW t \in Terminal, Gets(t) PROVE Kept(t)'
<1>1. PICK n \in Nat: /\ Of(t)' = Of(t) \union {n} /\ (\A o \in Of(t): o < n)
                      /\ listed'[t] \in {n, 0} /\ session'[n].deleted = "no"
                      /\ Holds(Coming(t)', session'[n].history)
  BY DEF Gets
<1>2. Newest(t, n)' /\ \A u: Newest(t, u)' => u = n
  BY <1>1, OfNumbers DEF Newest
<1> QED  BY <1>1, <1>2 DEF Kept, Gets
(* A step of one terminal does not concern the others. *)
StaysAt(u) == waiting'[u] = waiting[u] /\ active'[u] = active[u] /\ file'[u] = file[u]
Leaves(u) == SameSessions(u) /\ Unlisted(u) /\ StaysAt(u) /\ call'[u] = call[u]

LEMMA StaysUnwritten == ASSUME NEW u, StaysAt(u) PROVE Unwritten(u)
BY DEF StaysAt, Unwritten, Coming, Quiet

LEMMA LeavesPasses == ASSUME NEW u, Leaves(u) PROVE Passes(u)
BY StaysUnwritten DEF Leaves, Passes, CallGoesOn

LEMMA Evicts ==
  ASSUME NEW S, NEW L \in [Terminal -> Nat], NEW order, SetSessions(S, L, order)
  PROVE  /\ session' = S /\ evictedInUse \subseteq evictedInUse'
         /\ \A u \in Terminal: listed'[u] \in {L[u], 0}
<1>1. listed' = EvictFrom(S, L, order)  BY DEF SetSessions
<1> DEFINE inactive == Inactive(S, L)
           out == {o \in inactive:
                     Cardinality({u \in inactive: Before(order, o, u)}) >= MaxRetained}
           few == Cardinality(inactive) <= MaxRetained
<1>2. listed' = IF few THEN L ELSE [t \in Terminal |-> IF L[t] \in out THEN 0 ELSE L[t]]
  BY <1>1, Zenon DEF EvictFrom
<1> HIDE DEF out, few
<1>3. \A u \in Terminal: listed'[u] \in {L[u], 0}  BY <1>2
<1> QED  BY <1>3 DEF SetSessions

LEMMA Edits ==
  ASSUME Inv, NEW o \in DOMAIN session, NEW s, s.terminal = session[o].terminal,
         session' = [session EXCEPT ![o] = s]
  PROVE  /\ \A u: Of(u)' = Of(u)
         /\ session'[o] = s /\ \A x \in DOMAIN session: x # o => session'[x] = session[x]
         /\ \A u: u # session[o].terminal => SameSessions(u)
         /\ s.history = session[o].history /\ s.deleted = session[o].deleted
              => \A u: SameSessions(u)
<1>1. DOMAIN session' = DOMAIN session /\ session'[o] = s
      /\ \A x \in DOMAIN session: x # o => session'[x] = session[x]
  BY DEF Inv, Safe, Typed
<1>2. \A x \in DOMAIN session: session'[x].terminal = session[x].terminal  BY <1>1
<1>3. \A u: Of(u)' = Of(u)  BY <1>1, <1>2 DEF Of
<1>4. \A u: \A x \in Of(u): x \in DOMAIN session /\ session[x].terminal = u  BY DEF Of
<1> QED  BY <1>1, <1>3, <1>4 DEF SameSessions

LEMMA AddsOne ==
  ASSUME Inv, NEW t \in Terminal, NEW s, s.terminal = t, session' = Append(session, s)
  PROVE  LET n == Len(session) + 1
         IN  /\ n \in Nat /\ Of(t)' = Of(t) \union {n} /\ (\A o \in Of(t): o < n)
             /\ session'[n] = s
             /\ \A u: u # t => SameSessions(u)
<1> PICK n: n = Len(session) + 1  OBVIOUS
<1>1. session \in Seq(SessionType)  BY DEF Inv, Safe, Typed
<1>2. n \in Nat /\ DOMAIN session = 1 .. n - 1  BY <1>1
<1>3. /\ DOMAIN session' = DOMAIN session \union {n} /\ session'[n] = s
      /\ \A x \in DOMAIN session: session'[x] = session[x]
  BY <1>1
<1>4. Of(t)' = Of(t) \union {n}  BY <1>3 DEF Of
<1>5. \A o \in Of(t): o < n  BY <1>2 DEF Of
<1>6. ASSUME NEW u, u # t PROVE SameSessions(u)
  <2>1. Of(u)' = Of(u)  BY <1>2, <1>3, <1>6 DEF Of
  <2>2. \A x \in Of(u): session'[x] = session[x]  BY <1>3 DEF Of
  <2> QED  BY <2>1, <2>2 DEF SameSessions
<1> QED  BY <1>2, <1>3, <1>4, <1>5, <1>6

LEMMA UnchangedSame == ASSUME session' = session, NEW u PROVE SameSessions(u)
BY DEF SameSessions, Of

(* The request of t goes on, and no other. *)
LEMMA OnlyCall ==
  ASSUME Inv, NEW t \in Terminal
  PROVE  /\ \A s: Goto(t, s) => /\ \A u \in Terminal \ {t}: call'[u] = call[u]
                                /\ call'[t].step = s
         /\ \A s: \A o: Work(t, s, o) => /\ \A u \in Terminal \ {t}: call'[u] = call[u]
                                         /\ call'[t].step = s
         /\ Return(t) => /\ \A u \in Terminal \ {t}: call'[u] = call[u]
                         /\ call'[t].step = "free"
         /\ \A op, s, o, f: Request(t, op, s, o, f) =>
              /\ \A u \in Terminal \ {t}: call'[u] = call[u]
              /\ call'[t].step = s
<1>1. call \in [Terminal -> CallType] /\ call[t] \in CallType  BY WorksHere DEF Inv, Safe, Typed
<1>2. \A s: Goto(t, s) => /\ \A u \in Terminal \ {t}: call'[u] = call[u]
                          /\ call'[t].step = s
  BY <1>1 DEF Goto, CallType
<1>3. \A s: \A o: Work(t, s, o) => /\ \A u \in Terminal \ {t}: call'[u] = call[u]
                                   /\ call'[t].step = s
  <2> SUFFICES ASSUME NEW s, NEW o, Work(t, s, o)
               PROVE  (\A u \in Terminal \ {t}: call'[u] = call[u]) /\ call'[t].step = s
    OBVIOUS
  <2>1. call' = [call EXCEPT ![t] = [call[t] EXCEPT !.step = s, !.object = o]]
    BY <1>1 DEF Work
  <2>2. [call[t] EXCEPT !.step = s, !.object = o].step = s  BY <1>1 DEF CallType
  <2> QED  BY <1>1, <2>1, <2>2
<1>4. Return(t) => /\ \A u \in Terminal \ {t}: call'[u] = call[u]
                   /\ call'[t].step = "free"
  BY <1>1 DEF Return, Free
<1>5. \A op, s, o, f: Request(t, op, s, o, f) =>
              /\ \A u \in Terminal \ {t}: call'[u] = call[u]
              /\ call'[t].step = s
  BY <1>1 DEF Request
<1> QED  BY <1>2, <1>3, <1>4, <1>5

(********************* What the actions do to the files ********************)
LEMMA ListingTyped ==
  ASSUME Inv
  PROVE  listed \in [Terminal -> Nat] /\ Histories /\ None \notin Seq(Chunk)
BY TerminalsAssumption DEF Inv, Safe, Typed

LEMMA TakeKeeps ==
  ASSUME Inv, NEW t \in Terminal, TakeHistory(t), NEW u \in Terminal, Kept(u)
  PROVE  Kept(u)'
<1>1. /\ waiting[t] # None /\ active[u] = None
      /\ active' = [active EXCEPT ![t] = waiting[t]] /\ waiting' = [waiting EXCEPT ![t] = None]
      /\ UNCHANGED <<session, listed, call, file>>
  BY DEF TakeHistory
<1>2. /\ active'[u] = IF u = t THEN waiting[t] ELSE active[u]
      /\ waiting'[u] = IF u = t THEN None ELSE waiting[u]
  BY <1>1, ListingTyped DEF Histories
<1>3. Unwritten(u)  BY <1>1, <1>2 DEF Unwritten, Coming, Quiet
<1>4. SameSessions(u)  BY <1>1, UnchangedSame
<1>5. Passes(u)  BY <1>1, <1>3, <1>4 DEF Passes, Unlisted, CallGoesOn
<1> QED  BY <1>5, PassesKeeps

LEMMA WriteKeeps ==
  ASSUME Inv, NEW t \in Terminal, WriteHistory(t), NEW u \in Terminal, Kept(u),
         count.failures = 0, count'.failures = 0
  PROVE  Kept(u)'
<1>1. ~ Happens("failures")  BY DEF Happens, Inv, Counted, Kinds
<1>2. /\ active[t] # None /\ file' = [file EXCEPT ![t] = active[t]]
      /\ active' = [active EXCEPT ![t] = waiting[t]] /\ waiting' = [waiting EXCEPT ![t] = None]
      /\ UNCHANGED <<session, listed, call>>
  BY <1>1 DEF WriteHistory
<1>3. /\ active'[u] = IF u = t THEN waiting[t] ELSE active[u]
      /\ waiting'[u] = IF u = t THEN None ELSE waiting[u]
      /\ file'[u] = IF u = t THEN active[t] ELSE file[u]
  BY <1>2, ListingTyped DEF Histories
<1>4. Unwritten(u)  BY <1>2, <1>3 DEF Unwritten, Coming, Quiet
<1>5. SameSessions(u)  BY <1>2, UnchangedSame
<1>6. Passes(u)  BY <1>2, <1>4, <1>5 DEF Passes, Unlisted, CallGoesOn
<1> QED  BY <1>6, PassesKeeps

(* What was queued for t. *)
LEMMA Queued ==
  ASSUME Inv, NEW t \in Terminal, NEW h, Queue(t, h), UNCHANGED worker
  PROVE  /\ waiting'[t] = h
         /\ \A u \in Terminal \ {t}: StaysAt(u)
BY DEF Queue, Inv, Histories, StaysAt, worker

LEMMA OutputKeeps ==
  ASSUME Inv, NEW p \in DOMAIN process, Output(p), NEW u \in Terminal, Kept(u), Followed(u)
  PROVE  Kept(u)'
<1> PICK o: o = process[p].owner  OBVIOUS
<1>1. /\ o \in DOMAIN session /\ session[o].terminal \in Terminal /\ session[o].pid # 0
      /\ session[o].history \in Seq(Chunk) /\ session[o] \in SessionType
  BY OwnerHas, ObjectTyped DEF Output
<1>2. PICK chunk \in Chunk:
        /\ session' = [session EXCEPT ![o].history = Cap(Append(session[o].history, chunk))]
        /\ Queue(session[o].terminal, Cap(Append(session[o].history, chunk)))
  BY DEF Output
<1> PICK h: h = Cap(Append(session[o].history, chunk))  OBVIOUS
<1>3. h \in Seq(Chunk)
  <2>1. Append(session[o].history, chunk) \in Seq(Chunk)
    BY <1>1, <1>2, AppendProperties
  <2> QED  BY <2>1, CapTyped
<1>4. /\ session' = [session EXCEPT ![o].history = h] /\ Queue(session[o].terminal, h)
      /\ UNCHANGED <<listed, call, worker>>
  BY <1>2 DEF Output
<1> PICK s: s = [session[o] EXCEPT !.history = h]  OBVIOUS
<1>5. s.terminal = session[o].terminal /\ s.history = h /\ s.deleted = session[o].deleted
  BY <1>1 DEF SessionType
<1>6. session' = [session EXCEPT ![o] = s]  BY <1>4
<1>7. /\ Of(u)' = Of(u) /\ session'[o] = s /\ (u # session[o].terminal => SameSessions(u))
  BY <1>1, <1>5, <1>6, Edits
<1>8. CASE u # session[o].terminal
  <2>1. StaysAt(u)  BY <1>1, <1>4, <1>8, Queued
  <2>2. Leaves(u)  BY <1>4, <1>7, <1>8, <2>1 DEF Leaves, Unlisted
  <2> QED  BY <2>2, LeavesPasses, PassesKeeps
<1>9. CASE u = session[o].terminal
  <2>1. o \in Of(u)  BY <1>1, <1>9 DEF Of
  <2>2. listed[u] = o  BY <1>1, <1>9, <2>1 DEF Inv, Safe, Shown, Followed
  <2>3. o # 0  BY <2>1, OfNumbers
  <2>4. waiting'[u] = h  BY <1>1, <1>4, <1>9, Queued
  <2>5. Writes(u)  BY <1>3, <1>4, <1>5, <1>7, <2>2, <2>3, <2>4, ListingTyped DEF Writes, Unlisted
  <2> QED  BY <2>5, WritesKeeps
<1> QED  BY <1>8, <1>9

(* The sessions keep their histories, no call and no file is touched. *)
LEMMA ExitKeeps ==
  ASSUME Inv, NEW p \in DOMAIN process, Exit(p), NEW u \in Terminal, Kept(u)
  PROVE  Kept(u)'
<1> PICK o: o = process[p].owner  OBVIOUS
<1>1. o \in DOMAIN session /\ session[o] \in SessionType
  BY OwnerHas, ObjectTyped DEF Exit
<1> PICK s: s = [session[o] EXCEPT !.pid = 0, !.status = "exited"]  OBVIOUS
<1>2. /\ s.terminal = session[o].terminal /\ s.history = session[o].history
      /\ s.deleted = session[o].deleted
  BY <1>1 DEF SessionType
<1>3. [session EXCEPT ![o].pid = 0, ![o].status = "exited"] = [session EXCEPT ![o] = s]
  BY <1>1
<1>4. /\ SetSessions([session EXCEPT ![o] = s], listed, Touched(o))
      /\ call' = call /\ waiting' = waiting /\ UNCHANGED worker
  BY <1>3 DEF Exit
<1>5. session' = [session EXCEPT ![o] = s] /\ listed'[u] \in {listed[u], 0}
  BY <1>4, ListingTyped, Evicts
<1>6. SameSessions(u)  BY <1>1, <1>2, <1>5, Edits
<1>7. Leaves(u)  BY <1>4, <1>5, <1>6 DEF Leaves, Unlisted, StaysAt, worker
<1> QED  BY <1>7, LeavesPasses, PassesKeeps

LEMMA DieKeeps ==
  ASSUME Inv, NEW p \in DOMAIN process, Die(p), NEW u \in Terminal, Kept(u)
  PROVE  Kept(u)'
<1>1. UNCHANGED <<session, listed, call, waiting, worker>>  BY DEF Die
<1>2. SameSessions(u)  BY <1>1, UnchangedSame
<1>3. Leaves(u)  BY <1>1, <1>2 DEF Leaves, Unlisted, StaysAt, worker
<1> QED  BY <1>3, LeavesPasses, PassesKeeps

(* The requests that only go on or return. *)
LEMMA GoesOnKeeps ==
  ASSUME Inv, NEW t \in Terminal, NEW u \in Terminal, Kept(u),
         UNCHANGED <<session, listed, waiting, worker>>,
         \A x \in Terminal \ {t}: call'[x] = call[x],
         call'[t].step = "reading" => Quiet(t),
         call'[t].step = "deleting" => listed[t] = 0
  PROVE  Kept(u)'
<1>1. SameSessions(u) /\ StaysAt(u)  BY UnchangedSame DEF StaysAt, worker
<1>2. Unwritten(u)  BY <1>1, StaysUnwritten
<1>3. CallGoesOn(u)
  <2>1. CASE u = t  BY <2>1 DEF CallGoesOn
  <2>2. CASE u # t  BY <2>2 DEF CallGoesOn
  <2> QED  BY <2>1, <2>2
<1>4. Passes(u)  BY <1>1, <1>2, <1>3 DEF Passes, Unlisted
<1> QED  BY <1>4, PassesKeeps

LEMMA CallsKeep ==
  ASSUME Inv, NEW t \in Terminal, NEW u \in Terminal, Kept(u),
         \/ AskRestart(t) \/ Refuse(t) \/ FindNothing(t) \/ Flushed(t) \/ ReadFails(t)
         \/ FindRunning(t) \/ \E flag \in BOOLEAN: AskOpen(t, flag)
  PROVE  Kept(u)'
<1>1. UNCHANGED <<session, listed, waiting, worker>>
  BY DEF AskRestart, Refuse, FindNothing, Flushed, ReadFails, FindRunning, AskOpen
<1>2. /\ \A x \in Terminal \ {t}: call'[x] = call[x]
      /\ call'[t].step \in {"checking", "free", "flushing"} \/ Flushed(t)
  BY OnlyCall DEF AskRestart, Refuse, FindNothing, ReadFails, FindRunning, AskOpen, Flushed
<1>3. Flushed(t) => call'[t].step = "reading" /\ Quiet(t)  BY OnlyCall DEF Flushed
<1>4. call'[t].step = "reading" => Quiet(t)  BY <1>2, <1>3
<1>5. call'[t].step # "deleting"  BY <1>2, <1>3
<1> QED  BY <1>1, <1>2, <1>4, <1>5, GoesOnKeeps

LEMMA ReadKeeps ==
  ASSUME Inv, NEW t \in Terminal, ReadHistory(t), NEW u \in Terminal, Kept(u)
  PROVE  Kept(u)'
<1> PICK n: n = Len(session) + 1  OBVIOUS
<1> PICK h: h = IF file[t] = None THEN <<>> ELSE Cap(file[t])  OBVIOUS
<1> PICK M: M = [listed EXCEPT ![t] = n]  OBVIOUS
<1>1. /\ file' = IF file[t] = None THEN file ELSE [file EXCEPT ![t] = h]
      /\ Work(t, "starting", n) /\ SetSessions(Append(session, New(t, h)), M, Append(recent, n))
      /\ UNCHANGED <<waiting, active>> /\ call[t].step = "reading"
  BY DEF ReadHistory
<1>2. New(t, h).terminal = t /\ New(t, h).history = h /\ New(t, h).deleted = "no"
  BY DEF New
<1>3. n \in Nat  BY LenProperties DEF Inv, Safe, Typed
<1>4. M \in [Terminal -> Nat] /\ M[u] = IF u = t THEN n ELSE listed[u]
  BY <1>3, ListingTyped
<1>5. session' = Append(session, New(t, h)) /\ listed'[u] \in {M[u], 0}
  BY <1>1, <1>4, Evicts
<1>6. /\ Of(t)' = Of(t) \union {n} /\ (\A o \in Of(t): o < n) /\ session'[n] = New(t, h)
      /\ \A x: x # t => SameSessions(x)
  BY <1>2, <1>5, AddsOne
<1>7. call'[t].step = "starting" /\ (u # t => call'[u] = call[u])  BY <1>1, OnlyCall
<1>8. CASE u # t
  <2>1. file'[u] = file[u]  BY <1>1, <1>8, ListingTyped DEF Histories
  <2>2. Leaves(u)  BY <1>1, <1>4, <1>5, <1>6, <1>7, <1>8, <2>1 DEF Leaves, Unlisted, StaysAt
  <2> QED  BY <2>2, LeavesPasses, PassesKeeps
<1>9. CASE u = t
  <2>1. Quiet(t)  BY <1>1, <1>9 DEF Kept
  <2>2. Coming(t)' = file'[t]  BY <1>1, <2>1 DEF Coming, Quiet
  <2>3. Holds(file'[t], h)  BY <1>1, ListingTyped DEF Holds, Histories
  <2>4. Gets(t)  BY <1>2, <1>3, <1>4, <1>5, <1>6, <1>7, <1>9, <2>2, <2>3 DEF Gets
  <2> QED  BY <1>9, <2>4, GetsKeeps
<1> QED  BY <1>8, <1>9

LEMMA RestartNewKeeps ==
  ASSUME Inv, NEW t \in Terminal, RestartNew(t), NEW u \in Terminal, Kept(u)
  PROVE  Kept(u)'
<1> PICK n: n = Len(session) + 1  OBVIOUS
<1> PICK M: M = [listed EXCEPT ![t] = n]  OBVIOUS
<1>1. /\ Work(t, "persisting", n)
      /\ SetSessions(Append(session, New(t, <<>>)), M, Append(recent, n))
      /\ Queue(t, <<>>) /\ UNCHANGED worker
  BY DEF RestartNew
<1>2. New(t, <<>>).terminal = t /\ New(t, <<>>).history = <<>> /\ New(t, <<>>).deleted = "no"
  BY DEF New
<1>3. n \in Nat  BY LenProperties DEF Inv, Safe, Typed
<1>4. M \in [Terminal -> Nat] /\ M[u] = IF u = t THEN n ELSE listed[u]
  BY <1>3, ListingTyped
<1>5. session' = Append(session, New(t, <<>>)) /\ listed'[u] \in {M[u], 0}
  BY <1>1, <1>4, Evicts
<1>6. /\ Of(t)' = Of(t) \union {n} /\ (\A o \in Of(t): o < n) /\ session'[n] = New(t, <<>>)
      /\ \A x: x # t => SameSessions(x)
  BY <1>2, <1>5, AddsOne
<1>7. call'[t].step = "persisting" /\ (u # t => call'[u] = call[u])  BY <1>1, OnlyCall
<1>8. waiting'[t] = <<>> /\ (u # t => StaysAt(u))  BY <1>1, Queued
<1>9. CASE u # t
  <2>1. Leaves(u)  BY <1>4, <1>5, <1>6, <1>7, <1>8, <1>9 DEF Leaves, Unlisted
  <2> QED  BY <2>1, LeavesPasses, PassesKeeps
<1>10. CASE u = t
  <2>1. <<>> # None  BY ListingTyped, EmptyHistory
  <2>2. Holds(Coming(t)', <<>>)  BY <1>8, <2>1 DEF Holds, Coming
  <2>3. Gets(t)  BY <1>2, <1>3, <1>4, <1>5, <1>6, <1>7, <1>10, <2>2 DEF Gets
  <2> QED  BY <1>10, <2>3, GetsKeeps
<1> QED  BY <1>9, <1>10

(* The session a request works on gets another status or a shell. *)
LEMMA WorkedOn ==
  ASSUME Inv, NEW t \in Terminal, NEW o \in DOMAIN session, NEW s,
         s.terminal = session[o].terminal, s.history = session[o].history,
         s.deleted = session[o].deleted, session' = [session EXCEPT ![o] = s],
         UNCHANGED <<listed, waiting, worker>>,
         \A x \in Terminal \ {t}: call'[x] = call[x],
         call'[t].step \notin {"reading", "deleting"}, NEW u \in Terminal, Kept(u)
  PROVE  Kept(u)'
<1>1. SameSessions(u)  BY Edits
<1>2. StaysAt(u) /\ Unwritten(u)  BY StaysUnwritten DEF StaysAt, worker
<1>3. CallGoesOn(u)
  <2>1. CASE u = t  BY <2>1 DEF CallGoesOn
  <2>2. CASE u # t  BY <2>2 DEF CallGoesOn
  <2> QED  BY <2>1, <2>2
<1>4. Passes(u)  BY <1>1, <1>2, <1>3 DEF Passes, Unlisted
<1> QED  BY <1>4, PassesKeeps

LEMMA StartKeeps ==
  ASSUME Inv, NEW t \in Terminal, Persisted(t) \/ Start(t), NEW u \in Terminal, Kept(u)
  PROVE  Kept(u)'
<1> PICK o: o = call[t].object  OBVIOUS
<1>1. UNCHANGED <<listed, waiting, worker>>  BY DEF Persisted, Start
<1>2. (Goto(t, "starting") \/ Return(t))  BY DEF Persisted, Start
<1>3. /\ \A x \in Terminal \ {t}: call'[x] = call[x]
      /\ call'[t].step \notin {"reading", "deleting"}
  BY <1>2, OnlyCall
<1>4. CASE Persisted(t) /\ call[t].op = "clear"
  <2>1. UNCHANGED session  BY <1>4 DEF Persisted
  <2> QED  BY <1>1, <1>3, <2>1, GoesOnKeeps
<1>5. o \in DOMAIN session /\ session[o] \in SessionType
  BY WorksHere, ObjectTyped DEF Works, Persisted, Start
<1>6. CASE Persisted(t) /\ call[t].op # "clear"
  <2> PICK s: s = [session[o] EXCEPT !.status = "starting"]  OBVIOUS
  <2>1. /\ s.terminal = session[o].terminal /\ s.history = session[o].history
        /\ s.deleted = session[o].deleted
    BY <1>5 DEF SessionType
  <2>2. session' = [session EXCEPT ![o] = s]  BY <1>6 DEF Persisted
  <2> QED  BY <1>1, <1>3, <1>5, <2>1, <2>2, WorkedOn
<1>7. CASE Start(t)
  <2> PICK s: s = [session[o] EXCEPT !.pid = Len(process) + 1, !.status = "running"]  OBVIOUS
  <2>1. /\ s.terminal = session[o].terminal /\ s.history = session[o].history
        /\ s.deleted = session[o].deleted
    BY <1>5 DEF SessionType
  <2>2. session' = [session EXCEPT ![o] = s]  BY <1>5, <1>7 DEF Start
  <2> QED  BY <1>1, <1>3, <1>5, <2>1, <2>2, WorkedOn
<1> QED  BY <1>4, <1>6, <1>7

(* The listed session of t gets the history h, which is queued. *)
LEMMA WritesAt ==
  ASSUME Inv, NEW t \in Terminal, NEW o, o = listed[t], o # 0, NEW s, NEW h \in Seq(Chunk),
         s.terminal = t, s.history = h, s.deleted = session[o].deleted,
         session' = [session EXCEPT ![o] = s], \A x \in Terminal: listed'[x] \in {listed[x], 0},
         Queue(t, h), UNCHANGED worker,
         \A x \in Terminal \ {t}: call'[x] = call[x],
         call'[t].step \notin {"reading", "deleting"}, NEW u \in Terminal, Kept(u)
  PROVE  Kept(u)'
<1>1. o \in DOMAIN session /\ session[o].terminal = t  BY ListedTyped
<1>2. Of(u)' = Of(u) /\ session'[o] = s /\ (u # t => SameSessions(u))  BY <1>1, Edits
<1>3. waiting'[t] = h /\ (u # t => StaysAt(u))  BY Queued
<1>4. CASE u # t
  <2>1. Leaves(u)  BY <1>2, <1>3, <1>4 DEF Leaves, Unlisted
  <2> QED  BY <2>1, LeavesPasses, PassesKeeps
<1>5. CASE u = t
  <2>1. Writes(u)  BY <1>2, <1>3, <1>5, ListingTyped DEF Writes, Unlisted
  <2> QED  BY <2>1, WritesKeeps
<1> QED  BY <1>4, <1>5

LEMMA ReuseKeeps ==
  ASSUME Inv, NEW t \in Terminal, FindOther(t) \/ RestartListed(t), NEW u \in Terminal, Kept(u)
  PROVE  Kept(u)'
<1> PICK o: o = listed[t]  OBVIOUS
<1>1. /\ o # 0 /\ Work(t, "persisting", o) /\ Queue(t, <<>>) /\ UNCHANGED worker
  BY DEF FindOther, RestartListed
<1>2. o \in DOMAIN session /\ session[o] \in SessionType /\ session[o].terminal = t
  BY <1>1, ListedTyped, ObjectTyped
<1> PICK s1: s1 = [Stopped(session[o]) EXCEPT !.history = <<>>]  OBVIOUS
<1> PICK s2: s2 = [session[o] EXCEPT !.history = <<>>]  OBVIOUS
<1>3. \A s \in {s1, s2}:
        s.terminal = t /\ s.history = <<>> /\ s.deleted = session[o].deleted
  <2>1. Stopped(session[o]).terminal = t /\ Stopped(session[o]).deleted = session[o].deleted
        /\ DOMAIN Stopped(session[o]) = DOMAIN session[o]
    BY <1>2 DEF Stopped, SessionType
  <2> QED  BY <1>2, <2>1 DEF SessionType
<1>4. \/ \E order: SetSessions([session EXCEPT ![o] = s1], listed, order)
      \/ /\ session' = [session EXCEPT ![o] = s1] \/ session' = [session EXCEPT ![o] = s2]
         /\ listed' = listed
  <2>1. CASE RestartListed(t)  BY <2>1, Zenon DEF RestartListed
  <2>2. CASE FindOther(t) /\ call[t].flag  BY <2>2, Zenon DEF FindOther
  <2>3. CASE FindOther(t) /\ ~ call[t].flag  BY <2>3 DEF FindOther
  <2> QED  BY <2>1, <2>2, <2>3
<1>5. PICK s \in {s1, s2}:
        /\ session' = [session EXCEPT ![o] = s]
        /\ \A x \in Terminal: listed'[x] \in {listed[x], 0}
  <2>1. CASE \E order: SetSessions([session EXCEPT ![o] = s1], listed, order)
    BY <2>1, ListingTyped, Evicts
  <2>2. CASE ~ \E order: SetSessions([session EXCEPT ![o] = s1], listed, order)
    BY <1>4, <2>2
  <2> QED  BY <2>1, <2>2
<1>6. (\A x \in Terminal \ {t}: call'[x] = call[x]) /\ call'[t].step = "persisting"
  BY <1>1, OnlyCall
<1> QED  BY <1>1, <1>3, <1>5, <1>6, EmptyHistory, WritesAt

LEMMA ClearKeeps ==
  ASSUME Inv, NEW t \in Terminal, Clear(t), NEW u \in Terminal, Kept(u) PROVE Kept(u)'
<1> PICK o: o = listed[t]  OBVIOUS
<1> PICK s: s = [session[o] EXCEPT !.history = <<>>]  OBVIOUS
<1>1. /\ o # 0 /\ Request(t, "clear", "persisting", o, FALSE) /\ Queue(t, <<>>)
      /\ session' = [session EXCEPT ![o] = s] /\ UNCHANGED <<listed, worker>>
  BY DEF Clear
<1>2. session[o] \in SessionType /\ session[o].terminal = t  BY <1>1, ListedTyped, ObjectTyped
<1>3. s.terminal = t /\ s.history = <<>> /\ s.deleted = session[o].deleted
  BY <1>2 DEF SessionType
<1>4. (\A x \in Terminal \ {t}: call'[x] = call[x]) /\ call'[t].step = "persisting"
  BY <1>1, OnlyCall
<1> QED  BY <1>1, <1>3, <1>4, EmptyHistory, WritesAt

LEMMA CloseKeeps ==
  ASSUME Inv, NEW t \in Terminal, NEW delete \in BOOLEAN,
         Close(t, delete) \/ CloseThread(t, delete), NEW u \in Terminal, Kept(u)
  PROVE  Kept(u)'
<1>1. CASE Close(t, delete) /\ listed[t] = 0
  <2>1. UNCHANGED <<session, listed, waiting, worker>>  BY <1>1 DEF Close
  <2>2. (\A x \in Terminal \ {t}: call'[x] = call[x]) /\ call'[t].step = "closing"
    BY <1>1, OnlyCall DEF Close
  <2> QED  BY <2>1, <2>2, GoesOnKeeps
<1>2. CASE Close(t, delete) /\ listed[t] # 0
  <2> PICK o: o = listed[t]  OBVIOUS
  <2> PICK h: h = session[o].history  OBVIOUS
  <2> PICK s: s = Stopped(session[o])  OBVIOUS
  <2>1. /\ Request(t, "close", "closing", o, delete) /\ Queue(t, h) /\ UNCHANGED worker
    BY <1>2 DEF Close
  <2>2. o \in DOMAIN session /\ session[o] \in SessionType /\ session[o].terminal = t
        /\ h \in Seq(Chunk)
    BY <1>2, ListedTyped, ObjectTyped
  <2>3. s.terminal = t /\ s.history = h /\ s.deleted = session[o].deleted
    BY <2>2 DEF Stopped, SessionType
  <2>4. /\ session' = [session EXCEPT ![o] = s]
        /\ \A x \in Terminal: listed'[x] \in {listed[x], 0}
    <3>1. CASE session[o].pid # 0
      <4>1. SetSessions([session EXCEPT ![o] = s], listed, Touched(o))
        BY <1>2, <3>1 DEF Close
      <4> QED  BY <4>1, ListingTyped, Evicts
    <3>2. CASE session[o].pid = 0
      <4>1. s = session[o]  BY <3>2 DEF Stopped
      <4>2. UNCHANGED <<session, listed>>  BY <1>2, <3>2 DEF Close
      <4>3. session = [session EXCEPT ![o] = session[o]]  BY <2>2 DEF Inv, Safe, Typed
      <4> QED  BY <4>1, <4>2, <4>3
    <3> QED  BY <3>1, <3>2
  <2>5. (\A x \in Terminal \ {t}: call'[x] = call[x]) /\ call'[t].step = "closing"
    BY <2>1, OnlyCall
  <2> QED  BY <1>2, <2>1, <2>2, <2>3, <2>4, <2>5, WritesAt
<1>3. CASE CloseThread(t, delete) /\ listed[t] = 0
  <2>1. UNCHANGED <<session, listed, waiting, worker>>  BY <1>3 DEF CloseThread
  <2>2. (\A x \in Terminal \ {t}: call'[x] = call[x]) /\ call'[t].step = "deleting"
    BY <1>3, OnlyCall DEF CloseThread
  <2> QED  BY <1>3, <2>1, <2>2, GoesOnKeeps
<1> QED  BY <1>1, <1>2, <1>3 DEF CloseThread

LEMMA UnlistKeeps ==
  ASSUME Inv, NEW t \in Terminal, Unlist(t), NEW u \in Terminal, Kept(u) PROVE Kept(u)'
<1>1. /\ listed' = [listed EXCEPT ![t] = 0] /\ UNCHANGED <<session, waiting, worker>>
      /\ Goto(t, "deleting") \/ Return(t)
  BY DEF Unlist
<1>2. listed'[u] \in {listed[u], 0} /\ listed'[t] = 0  BY <1>1, ListingTyped
<1>3. (\A x \in Terminal \ {t}: call'[x] = call[x]) /\ call'[t].step \in {"deleting", "free"}
  BY <1>1, OnlyCall
<1>4. SameSessions(u) /\ StaysAt(u) /\ Unwritten(u)
  BY <1>1, UnchangedSame, StaysUnwritten DEF StaysAt, worker
<1>5. CallGoesOn(u)
  <2>1. CASE u = t  BY <1>2, <1>3, <2>1 DEF CallGoesOn
  <2>2. CASE u # t  BY <1>3, <2>2 DEF CallGoesOn
  <2> QED  BY <2>1, <2>2
<1>6. Passes(u)  BY <1>2, <1>4, <1>5 DEF Passes, Unlisted
<1> QED  BY <1>6, PassesKeeps

LEMMA DeleteKeeps ==
  ASSUME Inv, NEW t \in Terminal, DeleteHistory(t), NEW u \in Terminal, Kept(u)
  PROVE  Kept(u)'
<1> PICK z: z = IF Quiet(t) THEN "yes" ELSE "early"  OBVIOUS
<1>1. /\ call[t].step = "deleting" /\ Return(t) /\ file' = [file EXCEPT ![t] = None]
      /\ session' = [o \in DOMAIN session |->
                       IF session[o].terminal # t THEN session[o]
                       ELSE [session[o] EXCEPT !.deleted = z]]
      /\ UNCHANGED <<listed, waiting, active>>
  BY DEF DeleteHistory
<1>2. /\ DOMAIN session' = DOMAIN session
      /\ \A o \in DOMAIN session:
           /\ session[o].terminal # t => session'[o] = session[o]
           /\ session[o].terminal = t => session'[o].deleted = z
           /\ session'[o].terminal = session[o].terminal
  <2> SUFFICES ASSUME NEW o \in DOMAIN session
               PROVE  /\ session[o].terminal # t => session'[o] = session[o]
                      /\ session[o].terminal = t => session'[o].deleted = z
                      /\ session'[o].terminal = session[o].terminal
    BY <1>1
  <2>1. session[o] \in SessionType  BY ObjectTyped
  <2>2. session'[o] = IF session[o].terminal # t THEN session[o]
                      ELSE [session[o] EXCEPT !.deleted = z]
    BY <1>1
  <2>3. [session[o] EXCEPT !.deleted = z].deleted = z
        /\ [session[o] EXCEPT !.deleted = z].terminal = session[o].terminal
    BY <2>1 DEF SessionType
  <2> QED  BY <2>2, <2>3
<1>3. (\A x \in Terminal \ {t}: call'[x] = call[x]) /\ call'[t].step = "free"
  BY <1>1, OnlyCall
<1>4. Of(u)' = Of(u)  BY <1>2 DEF Of
<1>5. CASE u # t
  <2>1. file'[u] = file[u]  BY <1>1, <1>5, ListingTyped DEF Histories
  <2>2. \A o \in Of(u): session'[o] = session[o]  BY <1>2, <1>5 DEF Of
  <2>3. SameSessions(u)  BY <1>4, <2>2 DEF SameSessions
  <2>4. Leaves(u)  BY <1>1, <1>3, <1>5, <2>1, <2>3 DEF Leaves, Unlisted, StaysAt
  <2> QED  BY <2>4, LeavesPasses, PassesKeeps
<1>6. CASE u = t
  <2>1. listed'[u] = 0  BY <1>1, <1>6 DEF Kept
  <2>2. \A o \in Of(u): session'[o].deleted = z  BY <1>2, <1>6 DEF Of
  <2>3. file'[u] = None  BY <1>1, <1>6, ListingTyped DEF Histories
  <2>4. z = "yes" => Quiet(u)'  BY <1>1, <1>6 DEF Quiet
  <2>5. z # "no"  OBVIOUS
  <2> QED  BY <1>3, <1>4, <1>6, <2>1, <2>2, <2>3, <2>4, <2>5 DEF Kept
<1> QED  BY <1>5, <1>6

(* No session changes its terminal, and what was evicted stays so. *)
Lasting(S) == \A o \in DOMAIN session: o \in DOMAIN S /\ S[o].terminal = session[o].terminal

LEMMA EditLasts ==
  ASSUME Inv, NEW o
  PROVE  /\ Lasting(session)
         /\ \A h: Lasting([session EXCEPT ![o].history = h])
         /\ \A z: Lasting([session EXCEPT ![o].status = z])
         /\ \A p, z: Lasting([session EXCEPT ![o].pid = p, ![o].status = z])
         /\ Lasting([session EXCEPT ![o] = Stopped(session[o])])
         /\ \A h: Lasting([session EXCEPT ![o] = [Stopped(session[o]) EXCEPT !.history = h]])
         /\ \A h: Lasting([session EXCEPT ![o] = [session[o] EXCEPT !.history = h]])
         /\ \A s: Lasting(Append(session, s))
<1>1. \A x \in DOMAIN session: session[x] \in SessionType  BY ObjectTyped
<1>2. session \in Seq(SessionType)  BY DEF Inv, Safe, Typed
<1>3. \A s: s.terminal = session[o].terminal => Lasting([session EXCEPT ![o] = s])
  BY <1>1 DEF Lasting
<1>4. CASE o \in DOMAIN session
  <2>1. session[o] \in SessionType  BY <1>1, <1>4
  <2>2. \A h: [session[o] EXCEPT !.history = h].terminal = session[o].terminal
    BY <2>1 DEF SessionType
  <2>3. \A z: [session[o] EXCEPT !.status = z].terminal = session[o].terminal
    BY <2>1 DEF SessionType
  <2>4. \A p, z: [session[o] EXCEPT !.pid = p, !.status = z].terminal = session[o].terminal
    BY <2>1 DEF SessionType
  <2>5. Stopped(session[o]).terminal = session[o].terminal  BY <2>1 DEF SessionType, Stopped
  <2>6. \A h: [Stopped(session[o]) EXCEPT !.history = h].terminal = session[o].terminal
    BY <2>1 DEF SessionType, Stopped
  <2>7. \A p, z: [session EXCEPT ![o].pid = p, ![o].status = z]
                 = [session EXCEPT ![o] = [session[o] EXCEPT !.pid = p, !.status = z]]
    BY <1>4
  <2>8. \A p, z: Lasting([session EXCEPT ![o].pid = p, ![o].status = z])
    <3> SUFFICES ASSUME NEW p, NEW z
                 PROVE  Lasting([session EXCEPT ![o].pid = p, ![o].status = z])
      OBVIOUS
    <3>1. [session[o] EXCEPT !.pid = p, !.status = z].terminal = session[o].terminal
      BY <2>4
    <3> QED  BY <1>3, <2>7, <3>1
  <2>9. \A h: Lasting([session EXCEPT ![o].history = h])
    <3> SUFFICES ASSUME NEW h PROVE Lasting([session EXCEPT ![o] = [session[o] EXCEPT !.history = h]])
      OBVIOUS
    <3> QED  BY <1>3, <2>2
  <2>10. \A z: Lasting([session EXCEPT ![o].status = z])
    <3> SUFFICES ASSUME NEW z PROVE Lasting([session EXCEPT ![o] = [session[o] EXCEPT !.status = z]])
      OBVIOUS
    <3> QED  BY <1>3, <2>3
  <2>11. \A s: Lasting(Append(session, s)) BY <1>2 DEF Lasting
  <2>12. Lasting([session EXCEPT ![o] = Stopped(session[o])])  BY <1>3, <2>5
  <2>13. \A h: Lasting([session EXCEPT ![o] = [Stopped(session[o]) EXCEPT !.history = h]])
    BY <1>3, <2>6
  <2>14. \A h: Lasting([session EXCEPT ![o] = [session[o] EXCEPT !.history = h]])
    BY <1>3, <2>2
  <2>15. Lasting(session)  BY DEF Lasting
  <2> QED  BY <2>8, <2>9, <2>10, <2>11, <2>12, <2>13, <2>14, <2>15
<1>5. CASE o \notin DOMAIN session  BY <1>2, <1>5 DEF Lasting
<1> QED  BY <1>4, <1>5

LEMMA SetLasts ==
  ASSUME NEW S, NEW L, NEW order, SetSessions(S, L, order)
  PROVE  session' = S /\ evictedInUse \subseteq evictedInUse'
BY DEF SetSessions

Lasts == Lasting(session') /\ evictedInUse \subseteq evictedInUse'

LEMMA StepLasts == ASSUME Inv, [Next]_vars PROVE Lasts
<1>1. ASSUME session' = session, evictedInUse' = evictedInUse PROVE Lasts
  BY <1>1, EditLasts DEF Lasts
<1>2. ASSUME NEW S, NEW L, NEW order, SetSessions(S, L, order), Lasting(S) PROVE Lasts
  BY <1>2, SetLasts DEF Lasts
<1>3. ASSUME NEW S, session' = S, evictedInUse' = evictedInUse, Lasting(S) PROVE Lasts
  BY <1>3 DEF Lasts
<1>4. ASSUME NEW t \in Terminal,
             \/ Refuse(t) \/ FindNothing(t) \/ Flushed(t) \/ FindRunning(t) \/ Unlist(t)
             \/ ReadFails(t) \/ TakeHistory(t) \/ WriteHistory(t) \/ AskRestart(t)
      PROVE  Lasts
  BY <1>1, <1>4 DEF Refuse, FindNothing, Flushed, FindRunning, Unlist, ReadFails,
     TakeHistory, WriteHistory, AskRestart
<1>5. ASSUME NEW t \in Terminal, ReadHistory(t) \/ RestartNew(t) PROVE Lasts
  <2>1. PICK s, L, order: SetSessions(Append(session, s), L, order)
    BY <1>5, Zenon DEF ReadHistory, RestartNew
  <2> QED  BY <1>2, <2>1, EditLasts
<1>6. ASSUME NEW t \in Terminal, FindOther(t) \/ RestartListed(t) PROVE Lasts
  <2> PICK o: o = listed[t]  OBVIOUS
  <2> PICK S1: S1 = [session EXCEPT ![o] = [Stopped(session[o]) EXCEPT !.history = <<>>]]
    OBVIOUS
  <2> PICK S2: S2 = [session EXCEPT ![o] = [session[o] EXCEPT !.history = <<>>]]
    OBVIOUS
  <2>1. Lasting(S1) /\ Lasting(S2)  BY EditLasts
  <2>2. \/ \E order: SetSessions(S1, listed, order)
        \/ (session' = S1 \/ session' = S2) /\ evictedInUse' = evictedInUse
    <3>1. CASE RestartListed(t)  BY <3>1, Zenon DEF RestartListed
    <3>2. CASE FindOther(t) /\ call[t].flag  BY <3>2, Zenon DEF FindOther
    <3>3. CASE FindOther(t) /\ ~ call[t].flag  BY <3>3 DEF FindOther
    <3> QED  BY <1>6, <3>1, <3>2, <3>3
  <2> QED  BY <1>2, <1>3, <2>1, <2>2
<1>7. ASSUME NEW t \in Terminal, Persisted(t) \/ Start(t) \/ Clear(t) PROVE Lasts
  <2>1. evictedInUse' = evictedInUse  BY <1>7 DEF Persisted, Start, Clear
  <2>2. CASE Persisted(t)
    <3> PICK S: S = [session EXCEPT ![call[t].object].status = "starting"]  OBVIOUS
    <3>1. session' = session \/ session' = S  BY <2>2 DEF Persisted
    <3>2. Lasting(session) /\ Lasting(S)  BY EditLasts
    <3> QED  BY <2>1, <3>1, <3>2 DEF Lasts
  <2>3. CASE Start(t)
    <3> PICK o: o = call[t].object  OBVIOUS
    <3> PICK p: p = Len(process) + 1  OBVIOUS
    <3> PICK S: S = [session EXCEPT ![o].pid = p, ![o].status = "running"]  OBVIOUS
    <3>1. session' = S  BY <2>3 DEF Start
    <3>2. \A q, z: Lasting([session EXCEPT ![o].pid = q, ![o].status = z])  BY EditLasts
    <3>3. Lasting(S)  BY <3>2
    <3> QED  BY <1>3, <2>1, <3>1, <3>3
  <2>4. CASE Clear(t)
    <3>1. session' = [session EXCEPT ![listed[t]].history = <<>>]  BY <2>4 DEF Clear
    <3>2. Lasting(session')  BY <3>1, EditLasts
    <3> QED  BY <2>1, <3>2 DEF Lasts
  <2> QED  BY <1>7, <2>2, <2>3, <2>4
<1>8. ASSUME NEW t \in Terminal, StartFails(t) PROVE Lasts
  <2>1. PICK o, order: SetSessions([session EXCEPT ![o].status = "error"], listed, order)
    BY <1>8, Zenon DEF StartFails
  <2> QED  BY <1>2, <2>1, EditLasts
<1>9. ASSUME NEW t \in Terminal, NEW f \in BOOLEAN,
             AskOpen(t, f) \/ Close(t, f) \/ CloseThread(t, f)
      PROVE  Lasts
  <2>1. CASE session' = session /\ evictedInUse' = evictedInUse  BY <1>1, <2>1
  <2>2. CASE \E order: SetSessions([session EXCEPT ![listed[t]] = Stopped(session[listed[t]])],
                                   listed, order)
    BY <1>2, <2>2, EditLasts
  <2> QED  BY <1>9, <2>1, <2>2, Zenon DEF AskOpen, Close, CloseThread
<1>10. ASSUME NEW t \in Terminal, DeleteHistory(t) PROVE Lasts
  <2>1. evictedInUse' = evictedInUse /\ DOMAIN session' = DOMAIN session
    BY <1>10 DEF DeleteHistory
  <2>2. ASSUME NEW o \in DOMAIN session PROVE session'[o].terminal = session[o].terminal
    <3>1. session[o] \in SessionType  BY ObjectTyped
    <3>2. PICK z: session'[o] = session[o] \/ session'[o] = [session[o] EXCEPT !.deleted = z]
      BY <1>10 DEF DeleteHistory
    <3>3. [session[o] EXCEPT !.deleted = z].terminal = session[o].terminal
      BY <3>1 DEF SessionType
    <3> QED  BY <3>2, <3>3
  <2> QED  BY <2>1, <2>2 DEF Lasts, Lasting
<1>11. ASSUME NEW p \in DOMAIN process, Output(p) \/ Exit(p) \/ Die(p) PROVE Lasts
  <2> PICK o: o = process[p].owner  OBVIOUS
  <2>1. CASE Output(p)
    <3>1. PICK h: session' = [session EXCEPT ![o].history = h]  BY <2>1 DEF Output
    <3>2. Lasting(session')  BY <3>1, EditLasts
    <3> QED  BY <2>1, <3>2 DEF Lasts, Output
  <2>2. CASE Exit(p)
    <3>1. SetSessions([session EXCEPT ![o].pid = 0, ![o].status = "exited"], listed, Touched(o))
      BY <2>2 DEF Exit
    <3> QED  BY <1>2, <3>1, EditLasts
  <2>3. CASE Die(p)  BY <1>1, <2>3 DEF Die
  <2> QED  BY <1>11, <2>1, <2>2, <2>3
<1>12. CASE UNCHANGED vars  BY <1>1, <1>12 DEF vars
<1>13. ASSUME NEW t \in Terminal, RequestStep(t) PROVE Lasts
  BY <1>4, <1>5, <1>6, <1>7, <1>8, <1>10, <1>13 DEF RequestStep
<1> QED  BY <1>4, <1>7, <1>9, <1>11, <1>12, <1>13 DEF Next

(* An exception once made stays one. *)
LEMMA FollowedStays ==
  ASSUME Inv, [Next]_vars, NEW u \in Terminal, Followed(u)'
  PROVE  Followed(u) /\ count'.failures = 0
<1>1. count'.failures = 0  BY DEF Followed
<1>2. count.failures = 0
  <2>1. \A k: Happens(k) => count'.failures >= count.failures
    BY DEF Happens, Inv, Counted, Kinds
  <2>2. \A t, op, s, o, f: Request(t, op, s, o, f) => count'.failures = count.failures
    BY DEF Request, Inv, Counted, Kinds
  <2>3. count.failures \in Nat  BY DEF Inv, Counted, Kinds
  <2>4. count' = count \/ (\E k: Happens(k)) \/ (\E t, op, s, o, f: Request(t, op, s, o, f))
    <3>1. ASSUME NEW t \in Terminal, RequestStep(t) PROVE count' = count \/ \E k: Happens(k)
      BY <3>1 DEF RequestStep, Refuse, FindNothing, Flushed, ReadHistory, ReadFails,
         FindRunning, FindOther, RestartNew, RestartListed, Persisted, Start, StartFails, Unlist,
         DeleteHistory
    <3>2. ASSUME NEW t \in Terminal, TakeHistory(t) \/ WriteHistory(t)
          PROVE  count' = count \/ \E k: Happens(k)
      BY <3>2 DEF TakeHistory, WriteHistory
    <3>3. ASSUME NEW t \in Terminal, NEW f \in BOOLEAN,
                 \/ AskRestart(t) \/ Clear(t) \/ AskOpen(t, f) \/ Close(t, f)
                 \/ CloseThread(t, f)
          PROVE  \E op, s, o, g: Request(t, op, s, o, g)
      BY <3>3 DEF AskRestart, Clear, AskOpen, Close, CloseThread
    <3>4. ASSUME NEW p \in DOMAIN process, Output(p) \/ Exit(p) \/ Die(p)
          PROVE  count' = count \/ \E k: Happens(k)
      BY <3>4 DEF Output, Exit, Die
    <3>5. CASE UNCHANGED vars  BY <3>5 DEF vars
    <3>6. \A t \in Terminal: AskRestart(t) \/ Clear(t) => \E op, s, o, f: Request(t, op, s, o, f)
      BY <3>3
    <3> QED  BY <3>1, <3>2, <3>3, <3>4, <3>5, <3>6 DEF Next
  <2> QED  BY <1>1, <2>1, <2>2, <2>3, <2>4
<1>3. Lasts  BY StepLasts
<1>4. evictedInUse \subseteq evictedInUse' /\ Of(u) \subseteq Of(u)'
  BY <1>3 DEF Lasts, Lasting, Of
<1> QED  BY <1>1, <1>2, <1>4 DEF Followed

LEMMA KeptStep == Inv /\ FilesKept /\ [Next]_vars => FilesKept'
<1> SUFFICES ASSUME Inv, FilesKept, [Next]_vars, NEW u \in Terminal, Followed(u)'
             PROVE  Kept(u)'
  BY DEF FilesKept
<1>1. Followed(u) /\ Kept(u) /\ count'.failures = 0 /\ count.failures = 0
  BY FollowedStays DEF FilesKept, Followed
<1>2. ASSUME NEW t \in Terminal, AskRestart(t) \/ Clear(t) \/ TakeHistory(t) \/ WriteHistory(t)
      PROVE  Kept(u)'
  BY <1>1, <1>2, CallsKeep, ClearKeeps, TakeKeeps, WriteKeeps
<1>3. ASSUME NEW t \in Terminal, RequestStep(t) PROVE Kept(u)'
  <2>1. ~ StartFails(t)
    BY <1>1 DEF StartFails, Happens, Inv, Counted, Kinds
  <2> QED
    BY <1>1, <1>3, <2>1, CallsKeep, ReadKeeps, ReuseKeeps, RestartNewKeeps, StartKeeps,
       UnlistKeeps, DeleteKeeps DEF RequestStep
<1>4. ASSUME NEW t \in Terminal, NEW f \in BOOLEAN,
             AskOpen(t, f) \/ Close(t, f) \/ CloseThread(t, f)
      PROVE  Kept(u)'
  BY <1>1, <1>4, CallsKeep, CloseKeeps
<1>5. ASSUME NEW p \in DOMAIN process, Output(p) \/ Exit(p) \/ Die(p) PROVE Kept(u)'
  BY <1>1, <1>5, OutputKeeps, ExitKeeps, DieKeeps
<1>6. CASE UNCHANGED vars
  <2>1. SameSessions(u) /\ Leaves(u)
    BY <1>6, UnchangedSame DEF vars, Leaves, Unlisted, StaysAt, worker
  <2> QED  BY <1>1, <2>1, LeavesPasses, PassesKeeps
<1> QED  BY <1>2, <1>3, <1>4, <1>5, <1>6 DEF Next

LEMMA KeptInit == Init => FilesKept
<1> SUFFICES ASSUME Init, NEW t \in Terminal PROVE Kept(t)
  BY DEF FilesKept
<1>1. DOMAIN session = {}  BY EmptySeq DEF Init
<1> QED  BY <1>1 DEF Init, Kept, Of, Free

LEMMA LastExists == ASSUME Inv, NEW t, Of(t) # {} PROVE \E o \in Of(t): Newest(t, o)
<1> PICK n: n = Len(session) + 1  OBVIOUS
<1>1. n \in Nat /\ \A o \in Of(t): o \in Nat /\ o < n
  <2>1. session \in Seq(SessionType)  BY DEF Inv, Safe, Typed
  <2>2. n \in Nat /\ DOMAIN session = 1 .. n - 1  BY <2>1
  <2> QED  BY <2>2 DEF Of
<1> PICK T: T = {n - o: o \in Of(t)}  OBVIOUS
<1>2. T \subseteq Nat /\ T # {}  BY <1>1
<1> DEFINE Order == OpToRel(<, Nat)
<1>3. Order = {p \in Nat \X Nat: p[1] < p[2]}  BY DEF OpToRel
<1>4. IsWellFoundedOn(Order, Nat)  BY NatLessThanWellFounded
<1> HIDE DEF Order
<1>5. PICK x \in T: \A y \in T: ~ (<<y, x>> \in Order)  BY <1>2, <1>4, WFMin
<1>6. ASSUME NEW y \in T PROVE x <= y
  <2>1. x \in Nat /\ y \in Nat  BY <1>2
  <2>2. ~ (y < x)  BY <1>3, <1>5, <2>1
  <2> QED  BY <2>1, <2>2
<1>7. PICK o \in Of(t): x = n - o  BY <1>5
<1>8. \A u \in Of(t): u <= o  BY <1>1, <1>6, <1>7
<1> QED  BY <1>8 DEF Newest

(* For any terminals, requests and bounds, and however the worker, the       *)
(* requests and the shells are interleaved: when nothing is in progress, the *)
(* file of a terminal is the history of its last session, or gone if it was  *)
(* deleted, unless a write failed or a session was evicted in use.           *)
THEOREM FilesAreHistories == Spec => []FileIsHistory
<1>1. Inv /\ FilesKept => FileIsHistory
  <2> SUFFICES ASSUME Inv, FilesKept, NEW t \in Terminal, Followed(t), Quiet(t), Of(t) # {}
               PROVE  LET last == session[CHOOSE o \in Of(t): \A u \in Of(t): u <= o]
                      IN  CASE last.deleted = "yes" -> file[t] = None
                            [] last.deleted = "early" -> TRUE
                            [] OTHER -> \/ file[t] = last.history
                                        \/ file[t] = None /\ last.history = <<>>
    BY DEF FileIsHistory, Followed
  <2> PICK o: o = CHOOSE x \in Of(t): \A u \in Of(t): u <= x  OBVIOUS
  <2>1. Newest(t, o) /\ o \in Of(t)  BY LastExists DEF Newest
  <2>2. session[o] \in SessionType  BY <2>1, ObjectTyped DEF Of
  <2>3. session[o].deleted \in {"no", "yes", "early"}  BY <2>2 DEF SessionType
  <2>4. Coming(t) = file[t]  BY DEF Coming, Quiet
  <2>5. Kept(t)  BY DEF FilesKept
  <2> QED  BY <2>1, <2>3, <2>4, <2>5 DEF Kept, Holds
<1> QED  BY <1>1, InitInv, StepInv, KeptInit, KeptStep, PTL DEF Spec
=============================================================================
