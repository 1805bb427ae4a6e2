--------------------------- MODULE MCDisconnectGraph ---------------------------
(* The four trials of the graph in their order and the first one again,     *)
(* with benchmarks that last, and two trials with benchmarks that may not.  *)
EXTENDS DisconnectGraph

MCThreads == 0 .. 5

MCPlans == {[actions |-> <<"none", "none", "disconnect", "reconnect", "none">>,
             punctual |-> TRUE],
            [actions |-> <<"reconnect", "none">>, punctual |-> FALSE],
            [actions |-> <<"reconnect", "disconnect">>, punctual |-> FALSE]}
=============================================================================
