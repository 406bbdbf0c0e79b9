---------------------------- MODULE MCSyncReview ----------------------------
(***************************************************************************)
(* SyncReview with a few spectators, two values of everything a host's     *)
(* user can change, and a bound on connections and on the user's changes.  *)
(***************************************************************************)
EXTENDS SyncReview

CONSTANTS s1, p1
=============================================================================
