---------------------------- MODULE MCWaitRunner ------------------------------
(* One wait of two targets, one of them a managed run, under one            *)
(* cancellation and one change of session.                                  *)
EXTENDS WaitRunner
=============================================================================
