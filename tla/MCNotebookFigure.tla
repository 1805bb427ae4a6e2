--------------------------- MODULE MCNotebookFigure ---------------------------
(* Of two sizes one is twice the other, as it is in pixels where the ratio  *)
(* is two.  The first canvas has the greater one: a figure of the smaller   *)
(* is resized to at once, and one that is dragged to twice the canvas's     *)
(* size is not.  Three versions make two changes, the second of which may   *)
(* be announced while the image of the first is under way.                  *)
EXTENDS NotebookFigure

MCSizes == {300, 600}
MCRatios == {1, 2}
MCKeys == {"a"}
=============================================================================
