------------------------- MODULE MC_Orchestration -------------------------
(* Two or three worker hosts, four replicas and two clients.               *)
EXTENDS Orchestration
=============================================================================
