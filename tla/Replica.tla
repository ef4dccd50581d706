-------------------------------- MODULE Replica --------------------------------
(***************************************************************************)
(* What the web client promises its views: its copy of the orchestration   *)
(* state is the state after some prefix of the server's events, and that   *)
(* prefix only grows, whatever happens to connections, replays and         *)
(* snapshots.                                                              *)
(***************************************************************************)
EXTENDS Naturals

VARIABLES
  history,  \* how many events the server has committed
  copy      \* how many of them the client's copy reflects, from the first

vars == <<history, copy>>

Init == history = 0 /\ copy = 0

Grow == history' > history /\ UNCHANGED copy

CatchUp == copy' \in (copy + 1) .. history /\ UNCHANGED history

Spec == Init /\ [][Grow \/ CatchUp]_vars
=============================================================================
