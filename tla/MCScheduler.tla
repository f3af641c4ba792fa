---- MODULE MCScheduler ----
(* Instances of CmaScheduler for TLC. *)
EXTENDS CmaScheduler, TLC

\* Workers are interchangeable, and so are tasks: order comes from admission.
Symmetry == Permutations(Workers) \cup Permutations(Tasks)

====
