---------------------------- MODULE MCWorkQueue -----------------------------
(***************************************************************************)
(* WorkQueue on two workers and three jobs, one without a completion: a    *)
(* pool that may sleep with one job more than workers.                     *)
(***************************************************************************)
EXTENDS WorkQueue

CONSTANTS w1, w2, j1, j2, j3
=============================================================================
