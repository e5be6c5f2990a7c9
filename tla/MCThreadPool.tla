---------------------------- MODULE MCThreadPool ----------------------------
(* Model checking of ThreadPool: the threads are interchangeable, and so    *)
(* are the tasks.                                                           *)
EXTENDS ThreadPool, TLC

Symmetry == Permutations(Workers) \cup Permutations(Pushers)
              \cup Permutations(Tasks)


\* One of the tasks may be endless, and then tasks are not interchangeable.
RacySymmetry == Permutations(Workers) \cup Permutations(Pushers)

=============================================================================
