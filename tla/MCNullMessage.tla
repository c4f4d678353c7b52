--------------------------- MODULE MCNullMessage ---------------------------
(* A topology and parameters for checking NullMessage. *)
EXTENDS NullMessage

\* Two ranks joined by a slow and by a fast channel; a third rank
\* has no channel.
Pair == {[ends |-> {0, 1}, delay |-> 2], [ends |-> {0, 1}, delay |-> 3]}

\* SchedulerTune 1, for bundle delays up to three.
TuneOne == [d \in 1..3 |-> d]
=============================================================================
