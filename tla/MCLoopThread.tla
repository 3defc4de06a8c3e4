---------------------------- MODULE MCLoopThread ----------------------------
(* One loop thread by itself.                                               *)
EXTENDS LoopThread

Spec == InitThread /\ [][NextThread]_threadVars /\ FairThread
=============================================================================
