---- MODULE MCView ----
(* Instances of TaskView for TLC. *)
EXTENDS TaskView
====
