----------------------------- MODULE CommandLog -----------------------------
(***************************************************************************)
(* What the orchestration engine promises to the code that dispatches      *)
(* commands, with no queue, no worker, no transaction and no read model:   *)
(* an append-only ledger of events, at most one outcome per command id,    *)
(* and answers that agree with the outcomes.                               *)
(*                                                                         *)
(* A command is decided at most once.  Accepting it appends its whole      *)
(* block of events and records where the block ends, in one step;          *)
(* rejecting it appends nothing.  A caller that dispatches an accepted     *)
(* command again is told the same position, however often the server       *)
(* failed or restarted in between.                                         *)
(***************************************************************************)
EXTENDS Naturals, Sequences

CONSTANTS
  Command,   \* the command ids clients may dispatch, and dispatch again
  Events     \* Events[c]: the bodies of the events c produces when accepted

VARIABLES
  ledger,    \* the events appended so far, each [cmd, body]
  outcome,   \* outcome[c]: what was recorded about command c
  calls,     \* calls[n]: the command of the n-th dispatch
  answers    \* answers[n]: what the caller of the n-th dispatch was told

vars == <<ledger, outcome, calls, answers>>

Undecided == [status |-> "none", seq |-> 0]
Accepted(n) == [status |-> "accepted", seq |-> n]
Rejected(n) == [status |-> "rejected", seq |-> n]

Pending == [status |-> "pending", seq |-> 0]
Lost == [status |-> "lost", seq |-> 0]
Answers == [status: {"ok", "previouslyRejected", "error"}, seq: 0 .. Len(ledger)]

Block(c) == [i \in DOMAIN Events[c] |-> [cmd |-> c, body |-> Events[c][i]]]

Init ==
  /\ ledger = <<>>
  /\ outcome = [c \in Command |-> Undecided]
  /\ calls = <<>>
  /\ answers = <<>>

Submit(c) ==
  /\ calls' = Append(calls, c)
  /\ answers' = Append(answers, Pending)
  /\ UNCHANGED <<ledger, outcome>>

Accept(c) ==
  /\ outcome[c].status = "none"
  /\ ledger' = ledger \o Block(c)
  /\ outcome' = [outcome EXCEPT ![c] = Accepted(Len(ledger'))]
  /\ UNCHANGED <<calls, answers>>

Reject(c) ==
  /\ outcome[c].status = "none"
  /\ outcome' = [outcome EXCEPT ![c] = Rejected(Len(ledger))]
  /\ UNCHANGED <<ledger, calls, answers>>

(* A success or a "previously rejected" answer repeats the outcome.  Any     *)
(* other error commits the service to nothing: the command may have been     *)
(* accepted earlier, or be accepted when it is dispatched again.             *)
Truthful(c, a) ==
  /\ a.status = "ok" => outcome[c] = Accepted(a.seq)
  /\ a.status = "previouslyRejected" => outcome[c].status = "rejected"

Answer(n, a) ==
  /\ answers[n] = Pending
  /\ Truthful(calls[n], a)
  /\ answers' = [answers EXCEPT ![n] = a]
  /\ UNCHANGED <<ledger, outcome, calls>>

(* The process stops: callers still waiting never hear back. *)
Abandon ==
  /\ answers' = [n \in DOMAIN answers |->
                   IF answers[n] = Pending THEN Lost ELSE answers[n]]
  /\ UNCHANGED <<ledger, outcome, calls>>

Next ==
  \/ \E c \in Command: Submit(c) \/ Accept(c) \/ Reject(c)
  \/ \E n \in DOMAIN answers: \E a \in Answers: Answer(n, a)
  \/ Abandon

Spec == Init /\ [][Next]_vars
=============================================================================
