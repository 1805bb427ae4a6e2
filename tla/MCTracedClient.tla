---------------------------- MODULE MCTracedClient ----------------------------
(* Up to two groups and a rest, with sleeps that one pause pays for, just   *)
(* does not pay for, and are far too long for; and a buffer that a group    *)
(* may overflow.                                                            *)
EXTENDS TracedClient

MCArgs == [client : Clients, repeat : {0, 1, 3, 4, 5, 6, 7, 13},
           sleep : {-1, 0, 1, 2, 4}, sleep_interval : {6, 12},
           trace : BOOLEAN, no_flush : BOOLEAN]
MCPorts == {8360, 8361}
=============================================================================
