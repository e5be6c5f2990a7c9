---------------------------- MODULE MCResponse ----------------------------
(* Model checking of Response: what a handler's keys are in lower case.     *)
EXTENDS Response

\* A handler that keeps to lower case, as the library itself does.
SameCase == [k \in OwnKeys |-> k]

=============================================================================
