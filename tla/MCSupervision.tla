---------------------------- MODULE MCSupervision ----------------------------
(* Supervision on small instances: each cast is one kind of disturbance, or a *)
(* few that meet.                                                             *)
EXTENDS Supervision

MCCasts ==
    {{"revised", "reads", "glitches"},
     {"revised", "drops", "glitches"},
     {"uncounted", "prompt", "reads", "thin"},
     {"revised", "prompt", "moves", "reads", "glitches"},
     {"revised", "prompt", "moves", "drops"},
     {"prompt", "leaves", "reads"},
     {"signal", "revised"},
     {"managed", "writes", "faults", "prompt", "revised"},
     {"managed", "writes", "crashes", "prompt", "revised"},
     {"managed", "crashes", "faults", "prompt", "revised"},
     {"managed", "writes", "stops", "prompt", "revised"},
     {"managed", "writes", "signal", "prompt", "revised"},
     {"managed", "signal", "leaves", "prompt", "revised"},
     {"binding", "moves", "prompt", "revised"},
     {"binding", "managed", "faults", "leaves", "prompt", "revised"},
     {"review", "moves", "revised"},
     {"review", "managed", "owner", "reads", "prompt", "revised"},
     {"review", "trace", "prompt", "revised"},
     {"review", "store", "prompt", "revised"},
     {"review", "troubles", "prompt", "revised"},
     {"quiet"}}

MCRestarts == {{"managed", "writes", "crashes", "prompt", "revised"}}
=============================================================================
