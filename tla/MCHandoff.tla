---- MODULE MCHandoff ----
(* Instance of InputHandoff for TLC. *)
EXTENDS InputHandoff

====
