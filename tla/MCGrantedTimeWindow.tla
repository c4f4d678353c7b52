------------------------ MODULE MCGrantedTimeWindow ------------------------
(* A topology for checking GrantedTimeWindow. *)
EXTENDS GrantedTimeWindow

CONSTANTS r1, r2, r3

\* Two ranks joined by a fast and by a slow channel; a third rank, if there is
\* one, has no channel.
Pair == {[ends |-> {r1, r2}, delay |-> 1], [ends |-> {r1, r2}, delay |-> 2]}
=============================================================================
