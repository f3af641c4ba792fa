---- MODULE MCThread ----
(* Instances of ThreadContext for TLC. *)
EXTENDS ThreadContext, TLC

CONSTANTS t1, m1, m2

\* Two turns of one thread.
OneThread == (m1 :> t1) @@ (m2 :> t1)

====
