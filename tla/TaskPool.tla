------------------------------ MODULE TaskPool ------------------------------
(***************************************************************************)
(* What routine::ThreadPool promises to the callers of push(): each lambda *)
(* handed over is executed exactly once, from beginning to end, unless the *)
(* pool's last worker is stopped first, and then it is destroyed without   *)
(* having been started.  Workers, queues, locks and the order in which     *)
(* tasks are started are not part of the promise.                          *)
(***************************************************************************)
CONSTANT Tasks      \* the lambdas handed to push()

VARIABLE phase      \* what has become of each task

Phases == {"new", "submitted", "executing", "done", "lost"}

TypeOK == phase \in [Tasks -> Phases]

Init == phase = [t \in Tasks |-> "new"]

Move(t, from, to) ==
  /\ phase[t] = from
  /\ phase' = [phase EXCEPT ![t] = to]

Submit(t) == Move(t, "new", "submitted")
Start(t)  == Move(t, "submitted", "executing")
Finish(t) == Move(t, "executing", "done")

\* stop() of the last worker destroys everything that still waits in the
\* queues of the stopped workers, at once.
Discard ==
  \E D \in SUBSET {t \in Tasks : phase[t] = "submitted"} :
    /\ D # {}
    /\ phase' = [t \in Tasks |-> IF t \in D THEN "lost" ELSE phase[t]]

Next == Discard \/ \E t \in Tasks : Submit(t) \/ Start(t) \/ Finish(t)

Spec == Init /\ [][Next]_phase

\* A task handed over does not wait for ever and, once started, ends.
Settled(t) == phase[t] \in {"done", "lost"}

FairSpec ==
  /\ Spec
  /\ \A t \in Tasks : WF_phase(Start(t)) /\ WF_phase(Finish(t))

(* A task that push() accepted is executed to its end or, when the last     *)
(* worker is stopped, destroyed: no task is forgotten (thread_pool.cpp:15). *)
Settles == \A t \in Tasks : (phase[t] = "submitted") ~> Settled(t)

=============================================================================
