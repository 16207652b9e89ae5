---------------------------- MODULE MCDaemonLink ----------------------------
(* DaemonLink on a small instance.  Each allowance is one scenario: daemons  *)
(* by themselves, one daemon with a call, and two daemons that take over     *)
(* from each other under a call.                                             *)
EXTENDS DaemonLink

Nothing == [starts |-> 0, crashes |-> 0, losses |-> 0, faults |-> 0, signals |-> 0, calls |-> 0, turnovers |-> 0]

MCAllowances ==
    {[Nothing EXCEPT !.starts = 3, !.crashes = 2, !.faults = 1, !.signals = 1],
     [Nothing EXCEPT !.starts = 2, !.crashes = 1, !.faults = 1, !.signals = 1, !.losses = 1],
     [Nothing EXCEPT !.starts = 1, !.crashes = 1, !.calls = 1, !.turnovers = 2],
     [Nothing EXCEPT !.starts = 1, !.signals = 1, !.calls = 1, !.turnovers = 1],
     [Nothing EXCEPT !.starts = 2, !.crashes = 1, !.signals = 1, !.calls = 1],
     [Nothing EXCEPT !.starts = 2, !.losses = 1, !.calls = 1]}
=============================================================================
