-------------------------------- MODULE Sums --------------------------------
(***************************************************************************)
(* The sum of a function's values over a finite set, defined as the size   *)
(* of a disjoint union, so that what is proved about Cardinality carries   *)
(* over to sums (FrameCacheProofs) without an induction.                   *)
(***************************************************************************)
EXTENDS Naturals, FiniteSets

\* f[k] distinct tokens for each k in S.
Tokens(f, S) == UNION {{k} \X (1 .. f[k]) : k \in S}

SumOver(f, S) == Cardinality(Tokens(f, S))
=============================================================================
