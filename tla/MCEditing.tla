----------------------------- MODULE MCEditing -----------------------------
(***************************************************************************)
(* Editing over small projects: two pictures of a row that abut, with a    *)
(* dissolve on the cut and a sound slipped against the first; a gap        *)
(* between two pictures, and the sound of the second; a sound linked to a  *)
(* picture that came in after it; and a sound that follows a sound, as one *)
(* does once the id of the clip it followed is given to another.           *)
(***************************************************************************)
EXTENDS Editing, TLC

Picture(row, start, dur, src) ==
    [row |-> row, audio |-> FALSE, start |-> start, dur |-> dur, src |-> src,
     parent |-> 0, off |-> 0]
Sound(row, start, dur, src, parent, off) ==
    [row |-> row, audio |-> TRUE, start |-> start, dur |-> dur, src |-> src,
     parent |-> parent, off |-> off]

MCLoaded == {
    [clips |-> (1 :> Picture(0, 0, 2, 0)) @@ (2 :> Picture(0, 2, 2, 1))
               @@ (3 :> Sound(1, 1, 2, 0, 1, 1)),
     trans |-> {[a |-> 1, b |-> 2, in |-> 1, out |-> 1]}],
    [clips |-> (1 :> Picture(0, 0, 1, 1)) @@ (2 :> Picture(0, 2, 2, 0))
               @@ (3 :> Sound(1, 2, 2, 1, 2, 0)),
     trans |-> {}],
    [clips |-> (1 :> Sound(1, 0, 2, 0, 3, 0)) @@ (2 :> Picture(0, 2, 2, 1))
               @@ (3 :> Picture(0, 0, 2, 0)),
     trans |-> {[a |-> 3, b |-> 2, in |-> 0, out |-> 1]}],
    [clips |-> (1 :> Sound(2, 0, 1, 0, 3, 0)) @@ (2 :> Picture(0, 0, 2, 0))
               @@ (3 :> Sound(1, 0, 2, 0, 2, 0)),
     trans |-> {}] }

MCShifts == {-1, 1, 2}
=============================================================================
