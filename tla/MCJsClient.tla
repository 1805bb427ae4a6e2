------------------------------ MODULE MCJsClient ------------------------------
(* None, one and several traces, so that their reactions mix; the depth is   *)
(* the client's.                                                             *)
EXTENDS JsClient

MCRepeats == 0 .. 4
=============================================================================
