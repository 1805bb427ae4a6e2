---------------------------- MODULE MCRequestReader ----------------------------
(* Bodies of up to three bytes that look like framing, in every split; the   *)
(* widest readable length, a wider one, and an extension behind the digits.  *)
EXTENDS RequestReader

MCBytes == {CR, LF, "0", "1", "2", "3", Semicolon}
MCBodies == UNION {[1 .. n -> {CR, LF, "1"}] : n \in 0 .. 3}
MCSplits == {<<>>, <<1>>, <<2>>, <<3>>, <<1, 1>>, <<1, 2>>, <<2, 1>>, <<1, 1, 1>>}
MCWidths == {1, 2, 3}
MCExtensions == {<<>>, <<Semicolon>>}
=============================================================================
