---------------------------- MODULE MCLoggedClient ----------------------------
(* A client whose lines are ASCII, more than a pipe holds; one that writes a *)
(* line which is not, with room for the rest; and one that will block.       *)
(* Up to two samples per thread: none, one, and a pair torn over two.        *)
EXTENDS LoggedClient

MCMaxSamples == 2
MCStreams == {"stdout", "stderr"}
MCOutputs == {[stdout |-> <<"ascii", "ascii">>, stderr |-> <<"ascii">>],
              [stdout |-> <<"other", "ascii">>, stderr |-> <<>>],
              [stdout |-> <<"ascii">>, stderr |-> <<"other", "ascii", "ascii">>]}
=============================================================================
