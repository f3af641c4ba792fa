---- MODULE MCProjection ----
(* Instances of SlackProjection for TLC. *)
EXTENDS SlackProjection, TLC

\* Projector invocations are interchangeable.
Symmetry == Permutations(Workers)

====
