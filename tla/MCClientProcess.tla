--------------------------- MODULE MCClientProcess ---------------------------
(* Up to three samples per thread: none, one, and enough for a pair torn    *)
(* over two samples with others before it.                                  *)
EXTENDS ClientProcess

MCMaxSamples == 3
=============================================================================
