---- MODULE MCPush ----
(* Instance of PushDelivery for TLC. *)
EXTENDS PushDelivery

====
