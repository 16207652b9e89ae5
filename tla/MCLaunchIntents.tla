-------------------------- MODULE MCLaunchIntents --------------------------
(* LaunchIntents on a small instance: requests and tasks are interchangeable. *)
EXTENDS LaunchIntents, TLC

Symmetric == Permutations(Requests) \cup Permutations(Tasks)
=============================================================================
