--------------------------- MODULE MCHoverPreview ---------------------------
(***************************************************************************)
(* HoverPreview on two media of a frame each, one of which cannot be read, *)
(* and two jobs.                                                           *)
(***************************************************************************)
EXTENDS HoverPreview, TLC

CONSTANTS m1, m2, k1, k2, j1, j2

MCMediaOf == (k1 :> m1) @@ (k2 :> m2)
=============================================================================
