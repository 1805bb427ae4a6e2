---------------------------- MODULE MCGraphScripts ----------------------------
(* Three runs of scripts with two rates each, with the notebook's number of *)
(* trials, with another one and with none.                                  *)
EXTENDS GraphScripts

MCNumRates == [s \in Scripts |-> 2]
MCTrials == {1, 2}
MCSeconds == {0, 2}
=============================================================================
