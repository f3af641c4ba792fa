---- MODULE MCStream ----
(* Instances of WebStream for TLC. *)
EXTENDS WebStream
====
