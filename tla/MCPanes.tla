-------------------------------- MODULE MCPanes --------------------------------
(* One lane's pane with two prompts, the hosts that flush them, one crash or *)
(* lost lock holder, the retirement sweep and a turn-control call.           *)
EXTENDS Panes
================================================================================
