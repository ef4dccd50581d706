----------------------- MODULE MCOrchestrationEngine -----------------------
(***************************************************************************)
(* The engine with the decider and the projector of the code, on a client  *)
(* that creates a project and a thread, starts a turn (two events), and    *)
(* archives the thread.  The commands may arrive in any order and be       *)
(* dispatched again, so each of them is refused in some states, allowed in *)
(* others and decided on a read model another command just changed.        *)
(***************************************************************************)
EXTENDS OrchestrationEngine

CONSTANTS None, p1, t1

D == INSTANCE Decider WITH
       Project <- {p1}, Thread <- {t1}, MaxMessages <- 10,
       MaxCheckpoints <- 5, MaxPlans <- 5, MaxActivities <- 5

Content ==
  [create  |-> [type |-> "project.create", project |-> p1],
   open    |-> [type |-> "thread.create", project |-> p1, thread |-> t1],
   start   |-> [type |-> "thread.turn.start", thread |-> t1, message |-> 1,
                text |-> <<"hello">>, plan |-> None, at |-> 1],
   archive |-> [type |-> "thread.archive", thread |-> t1]]

MCEvents == [c \in Command |-> D!EventsOf(Content[c])]
MCBody == UNION {{MCEvents[c][i]: i \in DOMAIN MCEvents[c]}: c \in Command}

Bodies(m) == [i \in DOMAIN m |-> m[i].body]
MCAllowed(c, m) == D!Requires(Content[c], D!Fold(Bodies(m)))
=============================================================================
