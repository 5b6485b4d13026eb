---------------------------- MODULE MCLinksLoop ----------------------------
(* Two meetings, the first with a transcript of six short lines, or of     *)
(* three long ones; parts of six, four, three or two units.                *)
EXTENDS LinksLoop

CONSTANTS a, b, p, q
Scripts == {<<1, 1, 1, 1, 1, 1>>, <<2, 2, 3>>}
CharSteps == <<6, 4, 3, 2>>
=============================================================================
