--------------------------- MODULE MCMockSatellite ---------------------------
(* A mock satellite with reports of different sizes, so that any lost or    *)
(* repeated update shows in the sum.                                        *)
EXTENDS MockSatellite, TLC

CONSTANTS p1, p2, g1, g2

MCPosts == {p1, p2}
MCGets == {g1, g2}
MCSize == (p1 :> 1) @@ (p2 :> 2)
=============================================================================
