---------------------------- MODULE MC_Carousel ----------------------------
(* Four replicas (f = 1, quorum 3), three-chain HotStuff, views 1..6, and  *)
(* two replicas calling GetLeader.                                         *)
EXTENDS Carousel

MCObservers == {1, 2}
=============================================================================
