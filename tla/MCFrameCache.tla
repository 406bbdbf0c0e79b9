---------------------------- MODULE MCFrameCache ----------------------------
(***************************************************************************)
(* FrameCache on a small instance: a video of two frames and an image      *)
(* sequence of one, two workers, and the wanted sets a playhead produces   *)
(* as it sits on each of them, seeks away, and dissolves.                  *)
(***************************************************************************)
EXTENDS FrameCache, TLC

CONSTANTS vid, seq, v1, v2, s1, w1, w2

MCMediaOf == (v1 :> vid) @@ (v2 :> vid) @@ (s1 :> seq)

\* On the sequence with the video ahead, then on the video with both ahead.
MCSeek == { (s1 :> 0) @@ (v1 :> 1),
            (v1 :> 0) @@ (v2 :> 1) @@ (s1 :> 1) }
\* The same, and a dissolve of the two.
MCDissolve == MCSeek \cup { (v2 :> 0) @@ (s1 :> 0) }
=============================================================================
