--------------------------- MODULE EditingProofs ---------------------------
(***************************************************************************)
(* What holds of Editing for every loaded document, every bound and every  *)
(* length of the sources: types, and that pairs survive; and, as long as   *)
(* no clip is dropped from the desktop, that an undo is exact, dissolves   *)
(* stay legal and clips stay within their sources. ApartProofs goes on.    *)
(*                                                                         *)
(* The first parts go through the operators of Timeline and the edits of   *)
(* Editing one by one. EditIs sorts the edits into four kinds of steps;    *)
(* the inductive invariants are TypeInv and HistoryInv.                    *)
(***************************************************************************)
EXTENDS Editing, Induction, FiniteSetTheorems, SequenceTheorems

----------------------------------------------------------------------------
(* Finite sets of numbers.                                                 *)

\* A finite set of integers that is not empty has a greatest element.
LEMMA MaxIs ==
    ASSUME NEW S, IsFiniteSet(S), S \subseteq Int, S # {}
    PROVE  Max(S) \in S /\ \A y \in S : Max(S) >= y
<1> DEFINE Has(U) == \E x \in U : \A y \in U : x >= y
           Bad == {n \in Nat : \E U \in SUBSET S : U # {} /\ Cardinality(U) = n /\ ~Has(U)}
<1>1. SUFFICES ASSUME ~Has(S) PROVE FALSE
  BY DEF Max
<1>2. Cardinality(S) \in Bad
  BY <1>1, FS_CardinalityType
<1>3. PICK n \in Bad : \A m \in Bad : n <= m
  BY <1>2, LeastNat
<1>4. PICK U \in SUBSET S : U # {} /\ Cardinality(U) = n /\ ~Has(U)
  BY <1>3
<1>5. PICK x \in U : TRUE
  BY <1>4
<1> DEFINE W == U \ {x}
<1>6. IsFiniteSet(U)
  BY FS_Subset
<1>7. Cardinality(W) = n - 1 /\ Cardinality(W) \in Nat /\ n \in Nat
  BY <1>3, <1>4, <1>6, FS_RemoveElement, FS_CardinalityType
<1>8. CASE W = {}
  <2>1. U = {x} /\ x \in Int
    BY <1>5, <1>8
  <2> QED BY <1>4, <2>1
<1>9. CASE W # {} /\ Has(W)
  <2>1. PICK z \in W : \A y \in W : z >= y
    BY <1>9
  <2>2. x \in Int /\ z \in Int /\ \A y \in W : y \in Int
    BY <2>1
  <2>3. CASE x >= z
    <3>1. \A y \in U : x >= y
      BY <2>1, <2>2, <2>3
    <3> QED BY <3>1, <1>4
  <2>4. CASE ~(x >= z)
    <3>1. \A y \in U : z >= y
      BY <2>1, <2>2, <2>4
    <3> QED BY <2>1, <3>1, <1>4
  <2> QED BY <2>3, <2>4
<1>10. CASE W # {} /\ ~Has(W)
  <2>1. n - 1 \in Bad
    BY <1>7, <1>10
  <2>2. n <= n - 1
    BY <1>3, <2>1
  <2> HIDE DEF Bad
  <2> QED BY <1>7, <2>2
<1> QED BY <1>8, <1>9, <1>10

\* So does one of naturals that is not empty have a least one.
LEMMA MinIs ==
    ASSUME NEW S, S \subseteq Nat, S # {}
    PROVE  Min(S) \in S /\ \A y \in S : Min(S) <= y
BY LeastNat DEF Min

\* The values of a function on a finite set are finitely many.
LEMMA ValuesFinite ==
    ASSUME NEW S, IsFiniteSet(S), NEW h
    PROVE  IsFiniteSet({h[i] : i \in S})
<1> DEFINE T == {h[i] : i \in S}
           g == [i \in S |-> h[i]]
<1>1. g \in Surjection(S, T)
  BY DEF Surjection
<1> QED BY <1>1, FS_Surjection

\* Bounds.
LEMMA Bounds ==
    ASSUME NEW x \in Int, NEW y \in Int
    PROVE  /\ AtLeast(x, y) \in Int /\ AtLeast(x, y) >= x /\ AtLeast(x, y) >= y
           /\ AtLeast(x, y) \in {x, y} /\ AtMost(x, y) \in {x, y}
           /\ AtMost(x, y) \in Int /\ AtMost(x, y) <= x /\ AtMost(x, y) <= y
BY DEF AtLeast, AtMost

\* The source of a clip has at least one frame.
LEMMA SourceNat == ASSUME NEW c \in Clip PROVE SourceFrames(c) \in Nat \ {0}
BY TimelineAssumption DEF SourceFrames

----------------------------------------------------------------------------
(* Layouts: the clips of a document.                                       *)

Layouts == {cs \in UNION {[D -> Clip] : D \in SUBSET (Nat \ {0})} : IsFiniteSet(DOMAIN cs)}

LEMMA LayoutIs ==
    ASSUME NEW cs \in Layouts
    PROVE  /\ cs \in [DOMAIN cs -> Clip] /\ IsFiniteSet(DOMAIN cs)
           /\ \A i \in DOMAIN cs : i \in Nat /\ i # 0
BY DEF Layouts

LEMMA IsLayout ==
    ASSUME NEW D \in SUBSET (Nat \ {0}), IsFiniteSet(D), NEW cs \in [D -> Clip]
    PROVE  cs \in Layouts /\ DOMAIN cs = D
BY DEF Layouts

\* Fields of a clip.
LEMMA ClipIs ==
    ASSUME NEW c \in Clip
    PROVE  /\ c.row \in Nat /\ c.audio \in BOOLEAN /\ c.start \in Nat /\ c.dur \in Nat /\ c.dur > 0
           /\ c.src \in Nat /\ c.parent \in Nat /\ c.off \in Int
           /\ End(c) = c.start + c.dur /\ End(c) \in Nat /\ End(c) > c.start
BY DEF Clip, End


----------------------------------------------------------------------------
(* Clips that come one after the other.                                    *)

\* Things that come one before the other are ranked by how many come before them.
LEMMA EarlierRanks ==
    ASSUME NEW S, IsFiniteSet(S), NEW before \in [S -> SUBSET S],
           \A i \in S : i \notin before[i],
           \A i \in S : \A j \in before[i] : before[j] \subseteq before[i]
    PROVE  Ranked(S, before)
<1>1. ASSUME NEW A, NEW B, IsFiniteSet(B), A \subseteq B, A # B
      PROVE  Cardinality(A) \in Nat /\ Cardinality(A) < Cardinality(B)
  <2>1. IsFiniteSet(A) /\ Cardinality(A) <= Cardinality(B) /\ Cardinality(A) # Cardinality(B)
    BY <1>1, FS_Subset
  <2>2. Cardinality(A) \in Nat /\ Cardinality(B) \in Nat
    BY <1>1, <2>1, FS_CardinalityType
  <2> QED BY <2>1, <2>2
<1>2. ASSUME NEW i \in S
      PROVE  Cardinality(before[i]) \in Nat /\ Cardinality(before[i]) < Cardinality(S)
  <2>1. before[i] \subseteq S /\ before[i] # S
    OBVIOUS
  <2> QED BY <1>1, <2>1
<1>3. ASSUME NEW i \in S, NEW j \in before[i]
      PROVE  Cardinality(before[j]) < Cardinality(before[i])
  <2>1. before[j] \subseteq before[i] /\ before[j] # before[i] /\ IsFiniteSet(before[i])
    BY FS_Subset
  <2> QED BY <1>1, <2>1
<1> DEFINE rank == [i \in S |-> Cardinality(before[i])]
<1>4. rank \in [S -> Nat] /\ Cardinality(S) \in Nat
  BY <1>2, FS_CardinalityType
<1>5. \A i \in S : rank[i] < Cardinality(S) /\ \A j \in before[i] : rank[j] < rank[i]
  BY <1>2, <1>3
<1> HIDE DEF rank
<1> QED BY <1>4, <1>5 DEF Ranked

\* The greatest of two numbers and of finitely many others.
LEMMA GreatestOf ==
    ASSUME NEW B, IsFiniteSet(B), NEW h, \A j \in B : h[j] \in Nat, NEW a \in Nat, NEW b \in Nat,
           NEW V, V = {a, b} \cup {h[j] : j \in B}
    PROVE  Max(V) \in Nat /\ Max(V) >= a /\ Max(V) >= b /\ \A j \in B : Max(V) >= h[j]
<1> DEFINE W == {h[j] : j \in B}
<1>1. IsFiniteSet(W) /\ W \subseteq Nat /\ \A j \in B : h[j] \in W
  BY ValuesFinite
<1> HIDE DEF W
<1>2. IsFiniteSet(W \cup {a})
  BY <1>1, FS_AddElement
<1>3. IsFiniteSet((W \cup {a}) \cup {b}) /\ V = (W \cup {a}) \cup {b}
  BY <1>2, FS_AddElement DEF W
<1>4. IsFiniteSet(V) /\ V \subseteq Int /\ V # {} /\ V \subseteq Nat
  BY <1>1, <1>3
<1>5. Max(V) \in V /\ \A y \in V : Max(V) >= y
  BY <1>4, MaxIs
<1>6. a \in V /\ b \in V /\ \A j \in B : h[j] \in V
  BY <1>1, <1>3
<1> QED BY <1>4, <1>5, <1>6

\* Where the pushed clips start is well defined: the furthest of where they were, the frontier
\* and the ends of those ahead.
LEMMA PushedIs ==
    ASSUME NEW cs \in Layouts, NEW H \in SUBSET DOMAIN cs, NEW from \in Nat
    PROVE  LET At == Pushed(cs, H, from)
           IN /\ At \in [H -> Nat]
              /\ \A i \in H : At[i] = Max({cs[i].start, from}
                                         \cup {At[j] + cs[j].dur : j \in Ahead(cs, H, i)})
<1> DEFINE before == [i \in H |-> Ahead(cs, H, i)]
           Furthest(p, i) == Max({cs[i].start, from} \cup {p[j] + cs[j].dur : j \in Ahead(cs, H, i)})
           g == [i \in H |-> [p \in [H -> Nat] |-> Furthest(p, i)]]
           At == Pushed(cs, H, from)
<1>1. \A i \in H : cs[i].start \in Nat /\ cs[i].dur \in Nat /\ i \in Nat
  BY LayoutIs, ClipIs
<1>2. IsFiniteSet(H) /\ Cardinality(H) \in Nat
  BY LayoutIs, FS_Subset, FS_CardinalityType
<1>3. before \in [H -> SUBSET H] /\ \A i \in H : i \notin before[i]
  BY <1>1 DEF Ahead
<1>4. \A i \in H : \A j \in before[i] : before[j] \subseteq before[i]
  BY <1>1 DEF Ahead
<1>5. Ranked(H, before)
  <2> HIDE DEF before
  <2> QED BY <1>2, <1>3, <1>4, EarlierRanks
<1>6. ASSUME NEW i \in H, NEW p, \A j \in before[i] : p[j] \in Nat PROVE Furthest(p, i) \in Nat
  <2> DEFINE h == [j \in before[i] |-> p[j] + cs[j].dur]
             W == {cs[i].start, from} \cup {p[j] + cs[j].dur : j \in Ahead(cs, H, i)}
  <2>1. /\ IsFiniteSet(before[i]) /\ before[i] = Ahead(cs, H, i)
        /\ \A j \in before[i] : j \in H
    BY <1>2, <1>3, FS_Subset
  <2>2. \A j \in before[i] : h[j] \in Nat
    BY <1>1, <1>6, <2>1
  <2>3. W = {cs[i].start, from} \cup {h[j] : j \in before[i]}
    BY <2>1
  <2>4. cs[i].start \in Nat
    BY <1>1
  <2> HIDE DEF h, before, W
  <2>5. Max(W) \in Nat
    BY <2>1, <2>2, <2>3, <2>4, GreatestOf
  <2> QED BY <2>5 DEF W
<1>7. g \in [H -> [[H -> Nat] -> Nat]]
  <2>1. \A i \in H : \A p \in [H -> Nat] : Furthest(p, i) \in Nat
    BY <1>3, <1>6
  <2> HIDE DEF Furthest
  <2> QED BY <2>1
<1>8. ASSUME NEW i \in H, NEW p \in [H -> Nat], NEW q \in [H -> Nat],
             \A j \in before[i] : p[j] = q[j]
      PROVE  g[i][p] = g[i][q]
  <2>1. {p[j] + cs[j].dur : j \in Ahead(cs, H, i)} = {q[j] + cs[j].dur : j \in Ahead(cs, H, i)}
    BY <1>8
  <2> QED BY <2>1
<1>9. \E f \in [H -> Nat] : \A i \in H : f[i] = g[i][f]
  <2> DEFINE V == Nat
             v == 0
  <2>1. v \in V /\ LooksBack(H, V, before, g)
    <3>1. \A i \in H : \A p, q \in [H -> V] :
             (\A j \in before[i] : p[j] = q[j]) => g[i][p] = g[i][q]
      BY <1>8
    <3> HIDE DEF g, before
    <3> QED BY <1>7, <3>1 DEF LooksBack
  <2> HIDE DEF g, before, V, v
  <2>2. \E f \in [H -> V] : \A i \in H : f[i] = g[i][f]
    BY <1>5, <2>1, OrderedRecursion
  <2> QED BY <2>2 DEF V
<1>10. \E f : f = [i \in H |-> Furthest(f, i)]
  <2>1. PICK f \in [H -> Nat] : \A i \in H : f[i] = g[i][f]
    BY <1>9
  <2>2. \A i \in H : f[i] = Furthest(f, i)
    BY <2>1
  <2>3. f = [i \in H |-> Furthest(f, i)]
    <3> HIDE DEF Furthest
    <3> QED BY <2>2
  <2> QED BY <2>3
<1>11. At = [i \in H |-> Furthest(At, i)]
  BY <1>10 DEF Pushed
<1>12. {i \in H : At[i] \in Nat} = H
  <2> DEFINE T == {i \in H : At[i] \in Nat}
  <2>1. \A i \in H : before[i] \subseteq T => i \in T
    <3> SUFFICES ASSUME NEW i \in H, before[i] \subseteq T PROVE At[i] \in Nat
      OBVIOUS
    <3>1. Furthest(At, i) \in Nat
      <4> HIDE DEF At, Furthest, before
      <4> QED BY <1>6
    <3> HIDE DEF Furthest, At
    <3> QED BY <1>11, <3>1
  <2> HIDE DEF T, before
  <2>3. T \in SUBSET H
    BY DEF T
  <2>4. T = H
    BY <1>5, <2>1, <2>3, OrderedInduction
  <2> QED BY <2>4 DEF T
<1> HIDE DEF At
<1>13. At \in [H -> Nat]
  <2> HIDE DEF Furthest
  <2> QED BY <1>11, <1>12
<1>14. \A i \in H : At[i] = Furthest(At, i)
  <2> HIDE DEF Furthest
  <2> QED BY <1>11
<1> QED BY <1>13, <1>14 DEF At

----------------------------------------------------------------------------
(* Operators that move clips in time, or set their links.                  *)

\* ds is cs with other starts.
Retimed(cs, ds) ==
    /\ ds \in Layouts /\ DOMAIN ds = DOMAIN cs
    /\ \A i \in DOMAIN cs : \E x \in Nat : ds[i] = [cs[i] EXCEPT !.start = x]

\* It is enough that each clip has another start.
LEMMA IsRetimed ==
    ASSUME NEW cs \in Layouts, NEW V, NEW ds \in [DOMAIN cs -> V],
           \A i \in DOMAIN cs : \E x \in Nat : ds[i] = [cs[i] EXCEPT !.start = x]
    PROVE  Retimed(cs, ds)
<1>1. \A i \in DOMAIN cs : cs[i] \in Clip /\ i \in Nat \ {0}
  BY LayoutIs
<1>2. ASSUME NEW i \in DOMAIN cs PROVE ds[i] \in Clip
  <2>1. PICK x \in Nat : ds[i] = [cs[i] EXCEPT !.start = x]
    OBVIOUS
  <2> QED BY <1>1, <2>1 DEF Clip
<1>3. ds \in [DOMAIN cs -> Clip]
  BY <1>2
<1>4. IsFiniteSet(DOMAIN cs) /\ DOMAIN cs \in SUBSET (Nat \ {0})
  BY <1>1, LayoutIs
<1>5. ds \in Layouts /\ DOMAIN ds = DOMAIN cs
  BY <1>3, <1>4, IsLayout
<1> QED BY <1>5 DEF Retimed

\* The start it has is one.
LEMMA SameStart == ASSUME NEW c \in Clip PROVE c = [c EXCEPT !.start = c.start] /\ c.start \in Nat
BY DEF Clip

\* All else is as it was.
LEMMA RetimedSame ==
    ASSUME NEW cs \in Layouts, NEW ds, Retimed(cs, ds)
    PROVE  /\ \A i \in DOMAIN cs :
                 /\ ds[i].row = cs[i].row /\ ds[i].audio = cs[i].audio /\ ds[i].dur = cs[i].dur
                 /\ ds[i].src = cs[i].src /\ ds[i].parent = cs[i].parent /\ ds[i].off = cs[i].off
           /\ InRange(cs) => InRange(ds)
<1>1. \A i \in DOMAIN cs : cs[i] \in Clip
  BY LayoutIs
<1>2. ASSUME NEW i \in DOMAIN cs
      PROVE  /\ ds[i].row = cs[i].row /\ ds[i].audio = cs[i].audio /\ ds[i].dur = cs[i].dur
             /\ ds[i].src = cs[i].src /\ ds[i].parent = cs[i].parent /\ ds[i].off = cs[i].off
  <2>1. PICK x \in Nat : ds[i] = [cs[i] EXCEPT !.start = x]
    BY DEF Retimed
  <2>2. cs[i] \in Clip
    BY <1>1
  <2> QED BY <2>1, <2>2 DEF Clip
<1>3. InRange(cs) => InRange(ds)
  BY <1>2 DEF InRange, Retimed, SourceFrames
<1> QED BY <1>2, <1>3

\* Twice is once.
LEMMA RetimedTwice ==
    ASSUME NEW cs \in Layouts, NEW ds, NEW es, Retimed(cs, ds), Retimed(ds, es)
    PROVE  Retimed(cs, es)
<1>1. ds \in Layouts /\ es \in Layouts /\ DOMAIN ds = DOMAIN cs /\ DOMAIN es = DOMAIN cs
  BY DEF Retimed
<1>2. ASSUME NEW i \in DOMAIN cs PROVE \E x \in Nat : es[i] = [cs[i] EXCEPT !.start = x]
  <2>1. PICK x \in Nat : ds[i] = [cs[i] EXCEPT !.start = x]
    BY DEF Retimed
  <2>2. PICK y \in Nat : es[i] = [ds[i] EXCEPT !.start = y]
    BY <1>1 DEF Retimed
  <2>3. cs[i] \in Clip
    BY LayoutIs
  <2>4. es[i] = [cs[i] EXCEPT !.start = y]
    BY <2>1, <2>2, <2>3 DEF Clip
  <2> QED BY <2>4
<1> QED BY <1>1, <1>2 DEF Retimed

\* rippleClips() moves clips, and changes nothing else of them.
LEMMA RippleRetimes ==
    ASSUME NEW cs \in Layouts, NEW S \in SUBSET DOMAIN cs, NEW start \in Nat, NEW dur \in Nat
    PROVE  Retimed(cs, Ripple(cs, S, start, dur))
<1> DEFINE hit == {i \in S : End(cs[i]) > start}
           At == Pushed(cs, hit, start + dur)
           ds == Ripple(cs, S, start, dur)
<1>1. hit \in SUBSET DOMAIN cs /\ start + dur \in Nat
  OBVIOUS
<1>2. At \in [hit -> Nat]
  <2> HIDE DEF hit
  <2> QED BY <1>1, PushedIs
<1>3. ds = [i \in DOMAIN cs |-> IF i \in hit THEN [cs[i] EXCEPT !.start = At[i]] ELSE cs[i]]
  BY DEF Ripple
<1> HIDE DEF hit, At, ds
<1>4. \A i \in DOMAIN cs : \E x \in Nat : ds[i] = [cs[i] EXCEPT !.start = x]
  <2> SUFFICES ASSUME NEW i \in DOMAIN cs PROVE \E x \in Nat : ds[i] = [cs[i] EXCEPT !.start = x]
    OBVIOUS
  <2>1. CASE i \in hit
    <3>1. At[i] \in Nat /\ ds[i] = [cs[i] EXCEPT !.start = At[i]]
      BY <1>2, <1>3, <2>1
    <3> QED BY <3>1
  <2>2. CASE i \notin hit
    <3>1. cs[i] \in Clip /\ ds[i] = cs[i]
      BY <1>3, <2>2, LayoutIs
    <3> QED BY <3>1, SameStart
  <2> QED BY <2>1, <2>2
<1>5. ds \in [DOMAIN cs -> {ds[i] : i \in DOMAIN cs}]
  BY <1>3
<1>6. Retimed(cs, ds)
  BY <1>4, <1>5, IsRetimed
<1> QED BY <1>6 DEF ds

\* Where the clips come to start is well defined, though a parent may come before its follower.
LEMMA ResyncedIs ==
    ASSUME NEW cs \in Layouts
    PROVE  LET At == Resynced(cs)
           IN /\ At \in [DOMAIN cs -> Nat]
              /\ \A i \in DOMAIN cs :
                    LET p == cs[i].parent
                    IN At[i] = IF ~Linked(cs, i) THEN cs[i].start
                               ELSE PlaceBy(cs[i], IF p < i THEN At[p] ELSE cs[p].start)
<1> DEFINE D == DOMAIN cs
           before == [i \in D |-> {j \in D : j < i}]
           By(f, i) == IF ~Linked(cs, i) THEN cs[i].start
                       ELSE PlaceBy(cs[i], IF cs[i].parent < i THEN f[cs[i].parent]
                                           ELSE cs[cs[i].parent].start)
           g == [i \in D |-> [f \in [D -> Nat] |-> By(f, i)]]
           At == Resynced(cs)
<1>1. \A i \in D : i \in Nat /\ cs[i].start \in Nat /\ cs[i].off \in Int
  BY LayoutIs, ClipIs DEF Clip
<1>2. IsFiniteSet(D)
  BY LayoutIs
<1>3. \A i \in D : Linked(cs, i) => cs[i].parent \in D
  BY DEF Linked
<1>4. Ranked(D, before)
  <2>1. before \in [D -> SUBSET D] /\ \A i \in D : i \notin before[i]
    BY <1>1
  <2>2. \A i \in D : \A j \in before[i] : before[j] \subseteq before[i]
    BY <1>1
  <2> HIDE DEF before, D
  <2> QED BY <1>2, <2>1, <2>2, EarlierRanks
<1>5. ASSUME NEW i \in D, NEW f, \A j \in before[i] : f[j] \in Nat PROVE By(f, i) \in Nat
  <2>1. CASE ~Linked(cs, i)
    BY <1>1, <2>1
  <2>2. CASE Linked(cs, i)
    <3> DEFINE x == IF cs[i].parent < i THEN f[cs[i].parent] ELSE cs[cs[i].parent].start
    <3>1. x \in Nat
      BY <1>1, <1>3, <1>5, <2>2
    <3>2. PlaceBy(cs[i], x) \in Nat
      <4> HIDE DEF x
      <4> QED BY <1>1, <3>1 DEF PlaceBy, AtLeast
    <3> QED BY <2>2, <3>2
  <2> QED BY <2>1, <2>2
<1>6. g \in [D -> [[D -> Nat] -> Nat]]
  <2>1. \A i \in D : \A f \in [D -> Nat] : By(f, i) \in Nat
    BY <1>5
  <2> HIDE DEF By
  <2> QED BY <2>1
<1>7. \A i \in D : \A f1, f2 \in [D -> Nat] :
         (\A j \in before[i] : f1[j] = f2[j]) => g[i][f1] = g[i][f2]
  <2> SUFFICES ASSUME NEW i \in D, NEW f1 \in [D -> Nat], NEW f2 \in [D -> Nat],
                      \A j \in before[i] : f1[j] = f2[j]
               PROVE  By(f1, i) = By(f2, i)
    <3> HIDE DEF By, before
    <3> QED OBVIOUS
  <2> QED BY <1>3
<1>8. \E f \in [D -> Nat] : \A i \in D : f[i] = g[i][f]
  <2> DEFINE V == Nat
             v == 0
  <2>1. v \in V /\ LooksBack(D, V, before, g)
    <3> HIDE DEF g, before, D
    <3> QED BY <1>6, <1>7 DEF LooksBack
  <2> HIDE DEF g, before, V, v, D
  <2>2. \E f \in [D -> V] : \A i \in D : f[i] = g[i][f]
    BY <1>4, <2>1, OrderedRecursion
  <2> QED BY <2>2 DEF V
<1>9. \E f : f = [i \in D |-> By(f, i)]
  <2>1. PICK f \in [D -> Nat] : \A i \in D : f[i] = g[i][f]
    BY <1>8
  <2>2. \A i \in D : f[i] = By(f, i)
    BY <2>1
  <2>3. f = [i \in D |-> By(f, i)]
    <3> HIDE DEF By, D
    <3> QED BY <2>2
  <2> QED BY <2>3
<1>10. At = [i \in D |-> By(At, i)]
  BY <1>9 DEF Resynced
<1>11. {i \in D : At[i] \in Nat} = D
  <2> DEFINE T == {i \in D : At[i] \in Nat}
  <2>1. \A i \in D : before[i] \subseteq T => i \in T
    <3> SUFFICES ASSUME NEW i \in D, before[i] \subseteq T PROVE At[i] \in Nat
      OBVIOUS
    <3>1. By(At, i) \in Nat
      <4> HIDE DEF At, By, before
      <4> QED BY <1>5
    <3> HIDE DEF By, At
    <3> QED BY <1>10, <3>1
  <2> HIDE DEF T, before, D
  <2>3. T \in SUBSET D
    BY DEF T
  <2>4. T = D
    BY <1>4, <2>1, <2>3, OrderedInduction
  <2> QED BY <2>4 DEF T
<1> HIDE DEF At
<1>12. At \in [D -> Nat] /\ \A i \in D : At[i] = By(At, i)
  <2> HIDE DEF By, D
  <2> QED BY <1>10, <1>11
<1> QED BY <1>12 DEF At

\* So does resyncLinkedClips().
LEMMA ResyncRetimes == ASSUME NEW cs \in Layouts PROVE Retimed(cs, Resync(cs))
<1> DEFINE ds == Resync(cs)
           At == Resynced(cs)
<1>1. ds = [i \in DOMAIN cs |-> [cs[i] EXCEPT !.start = At[i]]]
  BY DEF Resync
<1>2. \A i \in DOMAIN cs : At[i] \in Nat
  BY ResyncedIs
<1> HIDE DEF ds, At
<1>3. \A i \in DOMAIN cs : \E x \in Nat : ds[i] = [cs[i] EXCEPT !.start = x]
  BY <1>1, <1>2
<1>4. ds \in [DOMAIN cs -> {ds[i] : i \in DOMAIN cs}]
  BY <1>1
<1>5. Retimed(cs, ds)
  BY <1>3, <1>4, IsRetimed
<1> QED BY <1>5 DEF ds

\* And it puts the pairs in their places, whichever of the two comes first.
LEMMA ResyncPlaces ==
    ASSUME NEW cs \in Layouts, NEW i \in DOMAIN cs, Paired(Resync(cs), i)
    PROVE  InPlace(Resync(cs), i)
<1> DEFINE ds == Resync(cs)
           At == Resynced(cs)
           p == cs[i].parent
<1>1. ds = [k \in DOMAIN cs |-> [cs[k] EXCEPT !.start = At[k]]]
  BY DEF Resync
<1>2. \A k \in DOMAIN cs : cs[k] \in Clip
  BY LayoutIs
<1>3. \A k \in DOMAIN cs : ds[k].parent = cs[k].parent /\ ds[k].off = cs[k].off /\ ds[k].start = At[k]
  BY <1>1, <1>2 DEF Clip
<1>4. Linked(cs, i) /\ ~Linked(cs, p) /\ p \in DOMAIN cs
  BY <1>1, <1>3 DEF Paired, Linked
<1>5. At[p] = cs[p].start
  BY <1>4, ResyncedIs
<1>6. At[i] = PlaceBy(cs[i], cs[p].start)
  BY <1>4, <1>5, ResyncedIs
<1>7. ds[i].start = PlaceBy(ds[i], ds[p].start) /\ ds[i].parent = p
  BY <1>3, <1>4, <1>5, <1>6 DEF PlaceBy
<1> QED BY <1>7 DEF InPlace

\* Recording the offsets of moved followers anew.
LEMMA SlippedIs ==
    ASSUME NEW cs \in Layouts, NEW moved
    PROVE  /\ Slipped(cs, moved) \in Layouts /\ DOMAIN Slipped(cs, moved) = DOMAIN cs
           /\ \A i \in DOMAIN cs : i \notin moved => Slipped(cs, moved)[i] = cs[i]
           /\ \A i \in DOMAIN cs : \E x \in Int : Slipped(cs, moved)[i] = [cs[i] EXCEPT !.off = x]
           /\ InRange(cs) => InRange(Slipped(cs, moved))
<1> DEFINE ds == Slipped(cs, moved)
<1>1. ds = [i \in DOMAIN cs |->
              IF i \in moved /\ Linked(cs, i) /\ cs[i].parent \notin moved
              THEN [cs[i] EXCEPT !.off = cs[i].start - cs[cs[i].parent].start] ELSE cs[i]]
  BY DEF Slipped
<1> HIDE DEF ds
<1>2. ASSUME NEW i \in DOMAIN cs PROVE \E x \in Int : ds[i] = [cs[i] EXCEPT !.off = x]
  <2>1. cs[i] \in Clip /\ (Linked(cs, i) => cs[cs[i].parent] \in Clip)
    BY LayoutIs DEF Linked
  <2>2. cs[i] = [cs[i] EXCEPT !.off = cs[i].off] /\ cs[i].off \in Int
    BY <2>1 DEF Clip
  <2>3. Linked(cs, i) => cs[i].start - cs[cs[i].parent].start \in Int
    BY <2>1 DEF Clip
  <2> QED BY <1>1, <2>2, <2>3
<1>3. \A i \in DOMAIN cs : cs[i] \in Clip /\ i \in Nat \ {0}
  BY LayoutIs
<1>4. ASSUME NEW i \in DOMAIN cs PROVE ds[i] \in Clip
  <2>1. PICK x \in Int : ds[i] = [cs[i] EXCEPT !.off = x]
    BY <1>2
  <2> QED BY <1>3, <2>1 DEF Clip
<1>5. ds \in [DOMAIN cs -> Clip]
  BY <1>1, <1>4
<1>6. ds \in Layouts /\ DOMAIN ds = DOMAIN cs
  BY <1>3, <1>5, LayoutIs, IsLayout
<1>7. \A i \in DOMAIN cs : i \notin moved => ds[i] = cs[i]
  BY <1>1
<1>8. InRange(cs) => InRange(ds)
  <2>1. \A i \in DOMAIN cs : ds[i].src = cs[i].src /\ ds[i].dur = cs[i].dur /\ ds[i].audio = cs[i].audio
    BY <1>2, <1>3 DEF Clip
  <2> QED BY <1>6, <2>1 DEF InRange, SourceFrames
<1> QED BY <1>2, <1>6, <1>7, <1>8 DEF ds

----------------------------------------------------------------------------
(* Trims and cuts of one clip.                                             *)

InSource(c) == c.src + c.dur <= SourceFrames(c)

\* The part of a clip from a frame inside it on, and up to it, are clips of its source.
LEMMA PartsOf ==
    ASSUME NEW c \in Clip, NEW f \in Nat, f < End(c)
    PROVE  /\ c.start <= f => From(c, f) \in Clip /\ (InSource(c) => InSource(From(c, f)))
           /\ c.start < f => UpTo(c, f) \in Clip /\ (InSource(c) => InSource(UpTo(c, f)))
<1>1. /\ c.start \in Nat /\ c.dur \in Nat /\ c.src \in Nat /\ End(c) = c.start + c.dur
      /\ SourceFrames(c) \in Nat
  BY ClipIs, SourceNat
<1>2. ASSUME c.start <= f
      PROVE  From(c, f) \in Clip /\ (InSource(c) => InSource(From(c, f)))
  <2>1. /\ c.src + (f - c.start) \in Nat /\ End(c) - f \in Nat \ {0}
        /\ (c.src + (f - c.start)) + (End(c) - f) = c.src + c.dur
    BY <1>1, <1>2
  <2> DEFINE d == From(c, f)
  <2>2. d = [c EXCEPT !.src = c.src + (f - c.start), !.dur = End(c) - f, !.start = f]
    BY DEF From, Clip
  <2> HIDE DEF d
  <2>3. /\ d \in Clip /\ d.src = c.src + (f - c.start) /\ d.dur = End(c) - f
        /\ d.audio = c.audio
    BY <2>1, <2>2 DEF Clip
  <2> QED BY <2>1, <2>3 DEF InSource, SourceFrames, d
<1>3. ASSUME c.start < f
      PROVE  UpTo(c, f) \in Clip /\ (InSource(c) => InSource(UpTo(c, f)))
  <2>1. f - c.start \in Nat \ {0} /\ c.src + (f - c.start) <= c.src + c.dur
    BY <1>1, <1>3
  <2> DEFINE d == UpTo(c, f)
  <2>2. d \in Clip /\ d.src = c.src /\ d.dur = f - c.start /\ d.audio = c.audio
    BY <2>1 DEF UpTo, Clip
  <2>3. SourceFrames(d) = SourceFrames(c)
    BY <2>2 DEF SourceFrames
  <2> HIDE DEF d
  <2>4. InSource(c) => InSource(d)
    BY <1>1, <2>1, <2>2, <2>3 DEF InSource
  <2> QED BY <2>2, <2>4 DEF d
<1> QED BY <1>2, <1>3

\* A trimmed follower is a clip within its source, whatever the trim.
LEMMA FollowerTrims ==
    ASSUME NEW c \in Clip, NEW at \in Int, NEW dSrc \in Int, NEW dDur \in Int
    PROVE  LET src == Clamp(c.src + dSrc, 0, SourceFrames(c) - 1)
               d == [c EXCEPT !.start = AtLeast(at, 0), !.src = src,
                              !.dur = Clamp(@ + dDur, 1, AtLeast(SourceFrames(c) - src, 1))]
           IN d \in Clip /\ InSource(d)
<1> DEFINE F == SourceFrames(c)
           src == Clamp(c.src + dSrc, 0, F - 1)
           dur == Clamp(c.dur + dDur, 1, AtLeast(F - src, 1))
           start == AtLeast(at, 0)
           d == [c EXCEPT !.start = start, !.src = src, !.dur = dur]
<1>1. F \in Nat /\ F >= 1 /\ c.src + dSrc \in Int /\ c.dur + dDur \in Int
  BY SourceNat, ClipIs
<1>2. start \in Nat
  BY DEF AtLeast
<1> HIDE DEF F, start
<1>3. src \in Nat /\ src <= F - 1
  BY <1>1 DEF Clamp, AtLeast, AtMost
<1> HIDE DEF src
<1>4. dur \in Nat /\ dur >= 1 /\ src + dur <= F
  BY <1>1, <1>3 DEF Clamp, AtLeast, AtMost
<1> HIDE DEF dur
<1>5. d \in Clip /\ d.src = src /\ d.dur = dur /\ d.audio = c.audio
  <2>1. start \in Nat /\ src \in Nat /\ dur \in Nat \ {0}
    BY <1>2, <1>3, <1>4
  <2> QED BY <2>1 DEF Clip
<1>6. SourceFrames(d) = F
  BY <1>5 DEF SourceFrames, F
<1> HIDE DEF d
<1>7. InSource(d)
  BY <1>4, <1>5, <1>6 DEF InSource
<1> QED BY <1>5, <1>7 DEF d, dur, src, start, F

\* trimLinkedFollowers() trims the followers of p, and nothing else.
LEMMA TrimFollowersIs ==
    ASSUME NEW cs \in Layouts, NEW p \in DOMAIN cs, NEW dSrc \in Int, NEW dDur \in Int
    PROVE  LET ds == TrimFollowers(cs, p, dSrc, dDur)
           IN /\ ds \in Layouts /\ DOMAIN ds = DOMAIN cs
              /\ \A i \in DOMAIN cs : /\ cs[i].parent # p => ds[i] = cs[i]
                                      /\ ds[i].audio = cs[i].audio /\ ds[i].parent = cs[i].parent
              /\ InRange(cs) => InRange(ds)
<1> DEFINE ds == TrimFollowers(cs, p, dSrc, dDur)
<1>1. \A i \in DOMAIN cs : cs[i] \in Clip /\ i \in Nat \ {0}
  BY LayoutIs
<1>2. ds = [i \in DOMAIN cs |-> ds[i]] /\ \A i \in DOMAIN cs : cs[i].parent # p => ds[i] = cs[i]
  BY DEF TrimFollowers
<1>3. ASSUME NEW i \in DOMAIN cs, cs[i].parent = p
      PROVE  /\ ds[i] \in Clip /\ InSource(ds[i])
             /\ ds[i].audio = cs[i].audio /\ ds[i].parent = cs[i].parent
  <2> DEFINE at == cs[p].start + cs[i].off
             src == Clamp(cs[i].src + dSrc, 0, SourceFrames(cs[i]) - 1)
             d == [cs[i] EXCEPT !.start = AtLeast(at, 0), !.src = src,
                      !.dur = Clamp(@ + dDur, 1, AtLeast(SourceFrames(cs[i]) - src, 1))]
  <2>1. ds[i] = d
    BY <1>3 DEF TrimFollowers
  <2>2. at \in Int
    BY <1>1 DEF Clip
  <2> HIDE DEF at
  <2>3. d \in Clip /\ InSource(d)
    BY <1>1, <2>2, FollowerTrims
  <2>4. d.audio = cs[i].audio /\ d.parent = cs[i].parent
    BY <1>1 DEF Clip
  <2> QED BY <2>1, <2>3, <2>4
<1> HIDE DEF ds
<1>4. \A i \in DOMAIN cs : ds[i] \in Clip
  BY <1>1, <1>2, <1>3
<1>5. ds \in [DOMAIN cs -> Clip]
  BY <1>2, <1>4
<1>6. ds \in Layouts /\ DOMAIN ds = DOMAIN cs
  BY <1>1, <1>5, LayoutIs, IsLayout
<1>7. InRange(cs) => InRange(ds)
  BY <1>2, <1>3, <1>6 DEF InRange, InSource
<1>8. \A i \in DOMAIN cs : ds[i].audio = cs[i].audio /\ ds[i].parent = cs[i].parent
  BY <1>2, <1>3
<1> QED BY <1>2, <1>6, <1>7, <1>8 DEF ds

\* The ids that tails and copies get are new.
LEMMA TailsNew ==
    ASSUME NEW S, IsFiniteSet(S), S \subseteq Nat, NEW n \in Nat
    PROVE  /\ \A j \in S : /\ TailOf(j, n, S) \in Nat /\ TailOf(j, n, S) >= n
                           /\ TailOf(j, n, S) < n + Cardinality(S)
           /\ IsFiniteSet(TailIds(n, S)) /\ Cardinality(S) \in Nat
           /\ \A k \in TailIds(n, S) : /\ MadeOf(k, n, S) \in S /\ k \in Nat
                                       /\ k >= n /\ k < n + Cardinality(S)
<1>1. Cardinality(S) \in Nat
  BY FS_CardinalityType
<1>2. ASSUME NEW j \in S
      PROVE  TailOf(j, n, S) \in Nat /\ TailOf(j, n, S) >= n /\ TailOf(j, n, S) < n + Cardinality(S)
  <2> DEFINE B == {k \in S : k < j}
  <2>1. B \subseteq S /\ B # S
    <3>1. j \in S /\ j \in Nat /\ ~(j < j)
      BY <1>2
    <3> QED BY <3>1
  <2> HIDE DEF B
  <2>2. IsFiniteSet(B) /\ Cardinality(B) <= Cardinality(S) /\ Cardinality(B) # Cardinality(S)
    BY <2>1, FS_Subset
  <2>3. Cardinality(B) \in Nat
    BY <2>2, FS_CardinalityType
  <2>4. TailOf(j, n, S) = n + Cardinality(B)
    BY DEF TailOf, Rank, B
  <2> QED BY <1>1, <2>2, <2>3, <2>4
<1>3. IsFiniteSet(TailIds(n, S))
  <2> DEFINE h == [j \in S |-> TailOf(j, n, S)]
  <2>1. IsFiniteSet({h[j] : j \in S})
    BY ValuesFinite
  <2>2. TailIds(n, S) = {h[j] : j \in S}
    BY DEF TailIds
  <2> QED BY <2>1, <2>2
<1>4. ASSUME NEW k \in TailIds(n, S)
      PROVE  MadeOf(k, n, S) \in S /\ k \in Nat /\ k >= n /\ k < n + Cardinality(S)
  <2>1. PICK j \in S : k = TailOf(j, n, S)
    BY DEF TailIds
  <2>2. MadeOf(k, n, S) \in S
    BY <2>1 DEF MadeOf
  <2> QED BY <1>2, <2>1, <2>2
<1> QED BY <1>1, <1>2, <1>3, <1>4

----------------------------------------------------------------------------
(* Drops.                                                                  *)

\* A layout whose ids are below n.
Below(cs, n) == \A i \in DOMAIN cs : i < n

\* What drops make of a layout: the dropped clips stay, and what is new has a new id.
Stages(dropped, n, ranged) ==
    {d \in [clips : Layouts, next : Nat] :
        /\ dropped \subseteq DOMAIN d.clips /\ Below(d.clips, d.next) /\ d.next >= n
        /\ ranged => InRange(d.clips)}

\* applyOverwriteDrop() trims, splits and removes what is covered.
LEMMA OverwriteStays ==
    ASSUME NEW D, NEW n \in Nat, NEW ranged \in BOOLEAN, NEW d \in Stages(D, n, ranged), NEW i \in D
    PROVE  OverwriteDrop(d.clips, d.next, i, D) \in Stages(D, n, ranged)
<1> DEFINE cs == d.clips
           S == End(cs[i])
           B == cs[i].start
           hit == {j \in DOMAIN cs \ D : cs[j].row = cs[i].row /\ End(cs[j]) > B /\ cs[j].start < S}
           split == {j \in hit : cs[j].start < B /\ End(cs[j]) > S}
           gone == {j \in hit : cs[j].start >= B /\ End(cs[j]) <= S}
           Kept(j) == IF j \notin hit THEN cs[j]
                      ELSE IF cs[j].start < B THEN UpTo(cs[j], B) ELSE From(cs[j], S)
           I == (DOMAIN cs \ gone) \cup TailIds(d.next, split)
           ds == [k \in I |-> IF k \in DOMAIN cs THEN Kept(k)
                              ELSE From(cs[MadeOf(k, d.next, split)], S)]
           m == d.next + Cardinality(split)
<1>1. /\ cs \in Layouts /\ d.next \in Nat /\ D \subseteq DOMAIN cs /\ Below(cs, d.next)
      /\ d.next >= n /\ (ranged => InRange(cs))
  BY DEF Stages
<1>2. OverwriteDrop(d.clips, d.next, i, D) = [clips |-> ds, next |-> m]
  BY DEF OverwriteDrop
<1>3. \A j \in DOMAIN cs : cs[j] \in Clip /\ j \in Nat \ {0}
  BY <1>1, LayoutIs
<1>4. /\ i \in DOMAIN cs /\ B \in Nat /\ S \in Nat /\ B < S
  BY <1>1, <1>3, ClipIs
<1>5. ASSUME NEW j \in DOMAIN cs, j \notin gone
      PROVE  Kept(j) \in Clip /\ (InRange(cs) => InSource(Kept(j)))
  <2>1. InRange(cs) => InSource(cs[j])
    BY DEF InRange, InSource
  <2>2. cs[j] \in Clip /\ cs[j].start \in Nat /\ End(cs[j]) \in Nat
    BY <1>3, ClipIs
  <2> HIDE DEF S, B
  <2>3. CASE j \notin hit
    BY <2>1, <2>2, <2>3
  <2>4. CASE j \in hit /\ cs[j].start < B
    <3>1. B < End(cs[j])
      BY <2>2, <2>4, <1>4
    <3>2. Kept(j) = UpTo(cs[j], B)
      BY <2>4
    <3> HIDE DEF hit, Kept
    <3> QED BY <1>4, <2>1, <2>2, <2>4, <3>1, <3>2, PartsOf
  <2>5. CASE j \in hit /\ ~(cs[j].start < B)
    <3>1. cs[j].start <= S /\ S < End(cs[j])
      BY <2>2, <2>5, <1>4, <1>5
    <3>2. Kept(j) = From(cs[j], S)
      BY <2>5
    <3> HIDE DEF hit, gone, Kept
    <3> QED BY <1>4, <2>1, <2>2, <3>1, <3>2, PartsOf
  <2> QED BY <2>3, <2>4, <2>5
<1>6. ASSUME NEW j \in split
      PROVE  From(cs[j], S) \in Clip /\ (InRange(cs) => InSource(From(cs[j], S)))
  <2>1. InRange(cs) => InSource(cs[j])
    BY DEF InRange, InSource
  <2>2. cs[j] \in Clip /\ cs[j].start \in Nat /\ End(cs[j]) \in Nat
    BY <1>3, ClipIs
  <2> HIDE DEF S, B
  <2>3. cs[j].start <= S /\ S < End(cs[j])
    BY <1>4, <2>2
  <2> HIDE DEF split, hit
  <2> QED BY <1>4, <2>1, <2>2, <2>3, PartsOf
<1>7. split \subseteq Nat /\ IsFiniteSet(split) /\ split \subseteq DOMAIN cs
  <2>1. split \subseteq DOMAIN cs
    OBVIOUS
  <2>2. IsFiniteSet(DOMAIN cs)
    BY <1>1, LayoutIs
  <2> HIDE DEF split
  <2> QED BY <1>3, <2>1, <2>2, FS_Subset
<1> HIDE DEF split
<1>8. /\ IsFiniteSet(TailIds(d.next, split)) /\ Cardinality(split) \in Nat
      /\ \A k \in TailIds(d.next, split) : /\ MadeOf(k, d.next, split) \in split /\ k \in Nat
                                           /\ k >= d.next /\ k < d.next + Cardinality(split)
  BY <1>1, <1>7, TailsNew
<1>9. ASSUME NEW k \in I PROVE ds[k] \in Clip /\ (InRange(cs) => InSource(ds[k]))
  <2>1. CASE k \in DOMAIN cs
    <3>1. ds[k] = Kept(k) /\ k \notin gone
      <4>1. k \notin TailIds(d.next, split)
        BY <1>1, <1>3, <1>8, <2>1 DEF Below
      <4> HIDE DEF Kept, gone
      <4> QED BY <2>1, <4>1
    <3> HIDE DEF ds, Kept, gone, cs
    <3> QED BY <1>5, <2>1, <3>1
  <2>2. CASE k \notin DOMAIN cs
    <3>1. k \in TailIds(d.next, split)
      BY <2>2
    <3>2. ds[k] = From(cs[MadeOf(k, d.next, split)], S)
      <4> HIDE DEF Kept, I
      <4> QED BY <2>2
    <3> HIDE DEF ds, cs, S
    <3> QED BY <1>6, <1>8, <3>1, <3>2
  <2> QED BY <2>1, <2>2
<1>10. I \in SUBSET (Nat \ {0}) /\ IsFiniteSet(I)
  <2>1. \A k \in TailIds(d.next, split) : k \in Nat \ {0}
    <3>1. d.next >= 1
      BY <1>1, <1>3, <1>4 DEF Below
    <3> QED BY <1>8, <3>1, <1>1
  <2>2. IsFiniteSet(DOMAIN cs)
    BY <1>1, LayoutIs
  <2>3. IsFiniteSet(DOMAIN cs \ gone)
    <3>1. DOMAIN cs \ gone \in SUBSET DOMAIN cs
      OBVIOUS
    <3> HIDE DEF gone
    <3> QED BY <2>2, <3>1, FS_Subset
  <2>4. DOMAIN cs \ gone \subseteq Nat \ {0}
    BY <1>3
  <2> HIDE DEF gone
  <2>5. IsFiniteSet(I)
    BY <1>8, <2>3, FS_Union
  <2> QED BY <2>1, <2>4, <2>5
<1>11. ds \in [I -> Clip]
  <2>1. \A k \in I : ds[k] \in Clip
    BY <1>9
  <2>2. ds = [k \in I |-> ds[k]]
    <3> HIDE DEF I, Kept
    <3> QED OBVIOUS
  <2> HIDE DEF ds, I
  <2> QED BY <2>1, <2>2
<1>12. ds \in Layouts /\ DOMAIN ds = I
  <2> HIDE DEF ds, I
  <2> QED BY <1>10, <1>11, IsLayout
<1>13. InRange(cs) => InRange(ds)
  <2>1. InRange(cs) => \A k \in I : InSource(ds[k])
    BY <1>9
  <2> HIDE DEF ds, I
  <2> QED BY <1>12, <2>1 DEF InRange, InSource
<1>14. D \subseteq I
  BY <1>1
<1>15. m \in Nat /\ m >= n /\ \A k \in I : k < m
  <2>1. \A k \in DOMAIN cs : k \in Nat /\ k < d.next
    BY <1>1, <1>3 DEF Below
  <2> HIDE DEF cs
  <2> QED BY <1>1, <1>8, <2>1
<1> HIDE DEF ds, I, m, cs
<1>16. [clips |-> ds, next |-> m] \in Stages(D, n, ranged)
  BY <1>1, <1>12, <1>13, <1>14, <1>15 DEF Stages, Below
<1> QED BY <1>2, <1>16

\* applyRippleDrop() moves what is behind the dropped clip.
LEMMA RippleDropRetimes ==
    ASSUME NEW cs \in Layouts, NEW i \in DOMAIN cs, NEW D
    PROVE  Retimed(cs, RippleDrop(cs, i, D))
<1> DEFINE S == {j \in DOMAIN cs \ D : cs[j].row = cs[i].row /\ cs[j].start >= cs[i].start}
<1>1. S \in SUBSET DOMAIN cs /\ cs[i] \in Clip
  BY LayoutIs
<1>2. cs[i].start \in Nat /\ cs[i].dur \in Nat
  BY <1>1, ClipIs
<1>3. RippleDrop(cs, i, D) = Ripple(cs, S, cs[i].start, cs[i].dur)
  BY DEF RippleDrop
<1> HIDE DEF S
<1> QED BY <1>1, <1>2, <1>3, RippleRetimes

\* rippleMakeRoomInSeq() moves what is behind the trimmed clip.
LEMMA MakeRoomRetimes ==
    ASSUME NEW cs \in Layouts, NEW i \in DOMAIN cs
    PROVE  Retimed(cs, MakeRoom(cs, i))
<1> DEFINE S == {j \in DOMAIN cs \ {i} : cs[j].row = cs[i].row}
<1>1. S \in SUBSET DOMAIN cs /\ cs[i] \in Clip
  BY LayoutIs
<1>2. cs[i].start \in Nat /\ cs[i].dur \in Nat
  BY <1>1, ClipIs
<1>3. MakeRoom(cs, i) = Ripple(cs, S, cs[i].start, cs[i].dur)
  BY DEF MakeRoom
<1> HIDE DEF S
<1> QED BY <1>1, <1>2, <1>3, RippleRetimes

\* applyDrop().
LEMMA DropStays ==
    ASSUME NEW D, NEW n \in Nat, NEW ranged \in BOOLEAN, NEW d \in Stages(D, n, ranged),
           NEW i \in D, NEW ripple \in BOOLEAN
    PROVE  Drop(d, i, D, ripple) \in Stages(D, n, ranged)
<1>1. CASE ~ripple
  BY <1>1, OverwriteStays DEF Drop
<1>2. CASE ripple
  <2> DEFINE ds == RippleDrop(d.clips, i, D)
             e == [d EXCEPT !.clips = ds]
  <2>1. Drop(d, i, D, ripple) = e
    BY <1>2 DEF Drop
  <2>2. d.clips \in Layouts /\ i \in DOMAIN d.clips
    BY DEF Stages
  <2>3. Retimed(d.clips, ds)
    BY <2>2, RippleDropRetimes
  <2> HIDE DEF ds
  <2>4. ds \in Layouts /\ DOMAIN ds = DOMAIN d.clips /\ (InRange(d.clips) => InRange(ds))
    BY <2>2, <2>3, RetimedSame DEF Retimed
  <2>5. e.clips = ds /\ e.next = d.next /\ e \in [clips : Layouts, next : Nat]
    BY <2>4 DEF Stages
  <2> HIDE DEF e
  <2>6. e \in Stages(D, n, ranged)
    BY <2>4, <2>5 DEF Stages, Below
  <2> QED BY <2>1, <2>6
<1> QED BY <1>1, <1>2

\* All dropped clips in turn: each stage is one of Stages.
LEMMA DropAllStays ==
    ASSUME NEW D, IsFiniteSet(D), D # {}, D \subseteq Nat,
           NEW n \in Nat, NEW ranged \in BOOLEAN, NEW cs, NEW next0, NEW ripple \in BOOLEAN,
           [clips |-> cs, next |-> next0] \in Stages(D, n, ranged)
    PROVE  DropAll(cs, next0, D, ripple) \in Stages(D, n, ranged)
<1> DEFINE m == Max(D)
           I == 0 .. m
           V == Stages(D, n, ranged)
           v == [clips |-> cs, next |-> next0]
           before == [i \in I |-> {j \in I : j = i - 1}]
           Stage(p, i) == IF i = 0 THEN v
                          ELSE IF i \in D THEN Drop(p[i - 1], i, D, ripple) ELSE p[i - 1]
           g == [i \in I |-> [p \in [I -> V] |-> Stage(p, i)]]
           At == Drops(cs, next0, D, ripple)
<1>1. m \in Nat /\ m \in D
  <2>1. D \subseteq Int
    OBVIOUS
  <2> QED BY <2>1, MaxIs
<1> HIDE DEF m
<1>2. Ranked(I, before)
  <2> DEFINE rank == [i \in I |-> i]
  <2>1. before \in [I -> SUBSET I]
    OBVIOUS
  <2>2. rank \in [I -> Nat] /\ m + 1 \in Nat
    BY <1>1
  <2>3. \A i \in I : rank[i] < m + 1 /\ \A j \in before[i] : rank[j] < rank[i]
    BY <1>1
  <2> HIDE DEF rank, before, I
  <2> QED BY <2>1, <2>2, <2>3 DEF Ranked
<1>3. ASSUME NEW i \in I, NEW p, \A j \in before[i] : p[j] \in V PROVE Stage(p, i) \in V
  <2>1. CASE i = 0
    BY <2>1
  <2>2. CASE i # 0
    <3>1. i - 1 \in I
      BY <1>1, <2>2
    <3>2. p[i - 1] \in V
      BY <1>3, <3>1
    <3>3. i \in D => Drop(p[i - 1], i, D, ripple) \in V
      BY <3>2, DropStays
    <3> QED BY <2>2, <3>2, <3>3
  <2> QED BY <2>1, <2>2
<1>4. \A i \in I : before[i] \subseteq I
  OBVIOUS
<1>5. \A i \in I : i # 0 => i - 1 \in before[i]
  BY <1>1
<1>6. LooksBack(I, V, before, g)
  <2>1. \A i \in I : \A p \in [I -> V] : Stage(p, i) \in V
    <3> SUFFICES ASSUME NEW i \in I, NEW p \in [I -> V] PROVE Stage(p, i) \in V
      OBVIOUS
    <3>1. \A j \in before[i] : p[j] \in V
      BY <1>4
    <3> HIDE DEF Stage, before, V, I
    <3> QED BY <1>3, <3>1
  <2>2. g \in [I -> [[I -> V] -> V]]
    <3> HIDE DEF Stage, V, I
    <3> QED BY <2>1
  <2>3. ASSUME NEW i \in I, NEW p \in [I -> V], NEW q \in [I -> V],
               \A j \in before[i] : p[j] = q[j]
        PROVE  g[i][p] = g[i][q]
    <3>1. i # 0 => p[i - 1] = q[i - 1]
      BY <1>5, <2>3
    <3>2. Stage(p, i) = Stage(q, i)
      BY <3>1
    <3>3. g[i][p] = Stage(p, i) /\ g[i][q] = Stage(q, i)
      <4> HIDE DEF Stage, V, I
      <4> QED OBVIOUS
    <3> QED BY <3>2, <3>3
  <2> HIDE DEF g, before, V, I
  <2> QED BY <2>2, <2>3 DEF LooksBack
<1>7. \E f \in [I -> V] : \A i \in I : f[i] = g[i][f]
  <2>1. v \in V
    OBVIOUS
  <2> HIDE DEF g, before, V, I, v
  <2> QED BY <1>2, <1>6, <2>1, OrderedRecursion
<1>8. \E f : f = [i \in I |-> Stage(f, i)]
  <2>1. PICK f \in [I -> V] : \A i \in I : f[i] = g[i][f]
    BY <1>7
  <2>2. \A i \in I : f[i] = Stage(f, i)
    <3> HIDE DEF Stage, V, I
    <3> QED BY <2>1
  <2> HIDE DEF Stage, V, I
  <2>3. f = [i \in I |-> Stage(f, i)]
    BY <2>2
  <2> QED BY <2>3
<1>9. At = [i \in I |-> Stage(At, i)]
  BY <1>8 DEF Drops, m
<1>10. {i \in I : At[i] \in V} = I
  <2> DEFINE T == {i \in I : At[i] \in V}
  <2>1. \A i \in I : before[i] \subseteq T => i \in T
    <3> SUFFICES ASSUME NEW i \in I, before[i] \subseteq T PROVE At[i] \in V
      OBVIOUS
    <3>1. Stage(At, i) \in V
      <4> HIDE DEF At, Stage, before, V, I
      <4> QED BY <1>3
    <3> HIDE DEF Stage, At, V, I
    <3> QED BY <1>9, <3>1
  <2>2. T \in SUBSET I
    OBVIOUS
  <2> HIDE DEF T, before, I
  <2>3. T = I
    BY <1>2, <2>1, <2>2, OrderedInduction
  <2> QED BY <2>3 DEF T
<1>11. m \in I
  BY <1>1
<1> HIDE DEF At, V, I
<1>12. At[m] \in V
  BY <1>10, <1>11
<1> QED BY <1>12 DEF DropAll, At, V, m

----------------------------------------------------------------------------
(* Dissolves.                                                              *)

\* One dissolve per cut.
OnePerCut(tr) == \A t, u \in tr : <<t.a, t.b>> = <<u.a, u.b>> => t = u

LEMMA LegalIs ==
    ASSUME NEW cs, NEW tr
    PROVE  CutsLegal([clips |-> cs, trans |-> tr])
              <=> /\ \A t \in tr : Live(cs, t) /\ Shortened(cs, t) = t
                  /\ OnePerCut(tr)
BY DEF CutsLegal, OnePerCut

\* What a cut can spend.
LEMMA LimitsNat ==
    ASSUME NEW a \in Clip, NEW b \in Clip
    PROVE  MaxIn(a, b) \in Nat /\ MaxOut(a, b) \in Nat
<1>1. /\ a.dur \in Nat /\ b.dur \in Nat /\ a.src \in Nat /\ b.src \in Nat
      /\ SourceFrames(a) \in Nat
  BY ClipIs, SourceNat
<1>2. a.dur \div 2 \in Int /\ b.dur \div 2 \in Int
  BY <1>1
<1>3. SourceFrames(a) - (a.src + a.dur) \in Int
  BY <1>1
<1> DEFINE p == a.dur \div 2
           q == b.dur \div 2
           h == SourceFrames(a) - (a.src + a.dur)
<1> HIDE DEF p, q, h
<1>4. AtMost(b.src, p) \in Int /\ AtMost(h, q) \in Int
  BY <1>1, <1>2, <1>3 DEF AtMost, p, q, h
<1> QED BY <1>4 DEF MaxIn, MaxOut, AtLeast, p, q, h

\* A dissolve on a live cut is shortened once and for all.
LEMMA ShortenedIs ==
    ASSUME NEW cs \in Layouts, NEW t \in Dissolve, {t.a, t.b} \subseteq DOMAIN cs
    PROVE  LET s == Shortened(cs, t)
           IN /\ s \in Dissolve /\ s.a = t.a /\ s.b = t.b
              /\ s.in \in Nat /\ s.out \in Nat
              /\ Shortened(cs, s) = s
<1> DEFINE x == MaxIn(cs[t.a], cs[t.b])
           y == MaxOut(cs[t.a], cs[t.b])
           s == Shortened(cs, t)
           r == [t EXCEPT !.in = AtMost(t.in, x), !.out = AtMost(t.out, y)]
<1>1. x \in Nat /\ y \in Nat
  BY LayoutIs, LimitsNat
<1>2. s = r
  BY DEF Shortened, Dissolve
<1> HIDE DEF x, y
<1>3. AtMost(t.in, x) \in Nat /\ AtMost(t.in, x) <= x /\ AtMost(t.out, y) \in Nat /\ AtMost(t.out, y) <= y
  BY <1>1 DEF AtMost, Dissolve
<1>4. r \in Dissolve /\ r.a = t.a /\ r.b = t.b /\ r.in = AtMost(t.in, x) /\ r.out = AtMost(t.out, y)
  BY <1>3 DEF Dissolve
<1> HIDE DEF r
<1>5. AtMost(r.in, x) = r.in /\ AtMost(r.out, y) = r.out
  BY <1>1, <1>3, <1>4 DEF AtMost
<1>6. Shortened(cs, r) = [r EXCEPT !.in = AtMost(r.in, x), !.out = AtMost(r.out, y)]
  BY <1>4 DEF Shortened, x, y, Dissolve
<1>7. Shortened(cs, r) = r
  BY <1>4, <1>5, <1>6 DEF Dissolve
<1>8. r.in \in Nat /\ r.out \in Nat
  BY <1>3, <1>4
<1> QED BY <1>2, <1>4, <1>7, <1>8

\* The ends of a cut are all that matters of a dissolve.
LEMMA LiveEnds ==
    ASSUME NEW cs, NEW t, NEW s, s.a = t.a, s.b = t.b, Live(cs, t), s.in + s.out > 0
    PROVE  Live(cs, s)
BY DEF Live

\* pruneTransitions() leaves legal dissolves.
LEMMA PruneLegal ==
    ASSUME NEW cs \in Layouts, NEW tr \in SUBSET Dissolve, OnePerCut(tr)
    PROVE  /\ Prune(cs, tr) \in SUBSET Dissolve
           /\ CutsLegal([clips |-> cs, trans |-> Prune(cs, tr)])
<1>1. ASSUME NEW s \in Prune(cs, tr)
      PROVE  /\ s \in Dissolve /\ Live(cs, s) /\ Shortened(cs, s) = s
             /\ \E t \in tr : s = Shortened(cs, t) /\ s.a = t.a /\ s.b = t.b
  <2>1. PICK t \in tr : Live(cs, t) /\ s = Shortened(cs, t) /\ s.in + s.out > 0
    BY DEF Prune
  <2>2. t \in Dissolve /\ {t.a, t.b} \subseteq DOMAIN cs
    BY <2>1 DEF Live
  <2>3. s \in Dissolve /\ s.a = t.a /\ s.b = t.b /\ Shortened(cs, s) = s
    BY <2>1, <2>2, ShortenedIs
  <2>4. Live(cs, s)
    BY <2>1, <2>3, LiveEnds
  <2> QED BY <2>1, <2>3, <2>4
<1>2. OnePerCut(Prune(cs, tr))
  <2> SUFFICES ASSUME NEW s \in Prune(cs, tr), NEW r \in Prune(cs, tr), <<s.a, s.b>> = <<r.a, r.b>>
               PROVE  s = r
    BY DEF OnePerCut
  <2>1. PICK t \in tr : s = Shortened(cs, t) /\ s.a = t.a /\ s.b = t.b
    BY <1>1
  <2>2. PICK u \in tr : r = Shortened(cs, u) /\ r.a = u.a /\ r.b = u.b
    BY <1>1
  <2>3. t = u
    BY <2>1, <2>2 DEF OnePerCut
  <2> QED BY <2>1, <2>2, <2>3
<1> QED BY <1>1, <1>2, LegalIs

\* Legal dissolves are left as they are.
LEMMA PruneKeeps ==
    ASSUME NEW cs, NEW tr, CutsLegal([clips |-> cs, trans |-> tr])
    PROVE  Prune(cs, tr) = tr
<1>1. \A t \in tr : Live(cs, t) /\ Shortened(cs, t) = t
  BY LegalIs
<1>2. \A t \in tr : t.in + t.out > 0
  BY <1>1 DEF Live
<1>3. ASSUME NEW t \in tr PROVE t \in Prune(cs, tr)
  BY <1>1, <1>2 DEF Prune
<1>4. ASSUME NEW t \in Prune(cs, tr) PROVE t \in tr
  <2>1. PICK u \in tr : t = Shortened(cs, u)
    BY DEF Prune
  <2> QED BY <1>1, <2>1
<1> QED BY <1>3, <1>4

\* They stay legal where no clip of a cut is moved or trimmed, and rows keep together.
LEMMA LegalKept ==
    ASSUME NEW cs, NEW ds, NEW tr, CutsLegal([clips |-> cs, trans |-> tr]),
           DOMAIN cs \subseteq DOMAIN ds,
           \A i \in DOMAIN cs : /\ ds[i].start = cs[i].start /\ ds[i].dur = cs[i].dur
                                /\ ds[i].src = cs[i].src /\ ds[i].audio = cs[i].audio,
           \A i, j \in DOMAIN cs : cs[i].row = cs[j].row => ds[i].row = ds[j].row
    PROVE  CutsLegal([clips |-> ds, trans |-> tr])
<1>1. (\A t \in tr : Live(cs, t) /\ Shortened(cs, t) = t) /\ OnePerCut(tr)
  BY LegalIs
<1>2. ASSUME NEW t \in tr PROVE Live(ds, t) /\ Shortened(ds, t) = t
  <2>1. Live(cs, t) /\ Shortened(cs, t) = t
    BY <1>1
  <2>2. t.a \in DOMAIN cs /\ t.b \in DOMAIN cs
    BY <2>1 DEF Live
  <2>3. Live(ds, t)
    BY <2>1, <2>2 DEF Live, End
  <2>4. /\ MaxIn(ds[t.a], ds[t.b]) = MaxIn(cs[t.a], cs[t.b])
        /\ MaxOut(ds[t.a], ds[t.b]) = MaxOut(cs[t.a], cs[t.b])
    BY <2>2 DEF MaxIn, MaxOut, SourceFrames
  <2>5. Shortened(ds, t) = Shortened(cs, t)
    BY <2>4 DEF Shortened
  <2> QED BY <2>1, <2>3, <2>5
<1> QED BY <1>1, <1>2, LegalIs

----------------------------------------------------------------------------
(* Documents.                                                              *)

\* The documents with ids below n, and what a document keeps besides its types.
Docs(n) == {d \in [clips : Layouts, trans : SUBSET Dissolve] : Below(d.clips, n)}
Sane(d) == CutsLegal(d) /\ InRange(d.clips)

LEMMA DocIs ==
    ASSUME NEW n, NEW d \in Docs(n)
    PROVE  /\ d.clips \in Layouts /\ d.trans \in SUBSET Dissolve /\ Below(d.clips, n)
           /\ d = [clips |-> d.clips, trans |-> d.trans]
BY DEF Docs

LEMMA IsDocument ==
    ASSUME NEW n, NEW cs \in Layouts, Below(cs, n), NEW tr \in SUBSET Dissolve
    PROVE  [clips |-> cs, trans |-> tr] \in Docs(n)
BY DEF Docs

LEMMA DocsGrow ==
    ASSUME NEW n \in Nat, NEW m \in Nat, n <= m
    PROVE  Docs(n) \subseteq Docs(m)
<1> SUFFICES ASSUME NEW d \in Docs(n) PROVE d \in Docs(m)
  OBVIOUS
<1>1. \A i \in DOMAIN d.clips : i \in Nat /\ i < n
  BY DocIs, LayoutIs DEF Below
<1>2. \A i \in DOMAIN d.clips : i < m
  BY <1>1
<1> QED BY <1>2 DEF Docs, Below

\* The pairs of the document are in place in cs too, if they were.
PairsKept(cs) ==
    \A i \in DOMAIN doc.clips \cap DOMAIN cs :
        (/\ Linked(doc.clips, i) /\ InPlace(doc.clips, i)
         /\ Paired(cs, i) /\ cs[i].parent = doc.clips[i].parent) => InPlace(cs, i)

\* An edit that pushes document d, with the ids below n: it has its types, keeps what the
\* document kept, and its pairs.
Edited(d, n) == d \in Docs(n) /\ (Sane(doc) => Sane(d)) /\ PairsKept(d.clips)

\* What resyncLinkedClips() was called on has its pairs in place.
LEMMA ResyncKeeps == ASSUME NEW cs \in Layouts PROVE PairsKept(Resync(cs))
<1> DEFINE ds == Resync(cs)
<1>1. DOMAIN ds = DOMAIN cs
  BY DEF Resync
<1>2. \A i \in DOMAIN cs : Paired(ds, i) => InPlace(ds, i)
  BY ResyncPlaces
<1> HIDE DEF ds
<1>3. PairsKept(ds)
  BY <1>1, <1>2 DEF PairsKept
<1> QED BY <1>3 DEF ds

\* The clips of the document stay where they are, and an offset is kept or recorded anew.
Still(cs) ==
    \A i \in DOMAIN doc.clips \cap DOMAIN cs :
        /\ cs[i].start = doc.clips[i].start
        /\ (Linked(doc.clips, i) /\ cs[i].parent = doc.clips[i].parent) =>
              cs[i].off \in {doc.clips[i].off, doc.clips[i].start - doc.clips[cs[i].parent].start}

LEMMA StillKeeps == ASSUME NEW n, doc \in Docs(n), NEW cs, Still(cs) PROVE PairsKept(cs)
<1> SUFFICES ASSUME NEW i \in DOMAIN doc.clips, i \in DOMAIN cs,
                    Linked(doc.clips, i), InPlace(doc.clips, i),
                    Paired(cs, i), cs[i].parent = doc.clips[i].parent
             PROVE  InPlace(cs, i)
  BY DEF PairsKept
<1> DEFINE p == doc.clips[i].parent
<1>1. p \in DOMAIN doc.clips /\ p \in DOMAIN cs /\ cs[i].parent = p
  BY DEF Linked, Paired
<1>2. doc.clips[i].start \in Nat /\ doc.clips[p].start \in Nat
  BY <1>1, DocIs, LayoutIs, ClipIs
<1>3. cs[i].start = doc.clips[i].start /\ cs[p].start = doc.clips[p].start
  BY <1>1 DEF Still
<1>4. cs[i].off \in {doc.clips[i].off, doc.clips[i].start - doc.clips[p].start}
  BY <1>1 DEF Still
<1>5. doc.clips[i].start = AtLeast(doc.clips[p].start + doc.clips[i].off, 0)
  BY DEF InPlace, PlaceBy
<1>6. cs[i].start = AtLeast(cs[p].start + cs[i].off, 0)
  <2>1. CASE cs[i].off = doc.clips[i].off
    BY <1>3, <1>5, <2>1
  <2>2. CASE cs[i].off = doc.clips[i].start - doc.clips[p].start
    <3>1. cs[p].start + cs[i].off = cs[i].start
      BY <1>2, <1>3, <2>2
    <3> QED BY <1>2, <1>3, <3>1 DEF AtLeast
  <2> QED BY <1>4, <2>1, <2>2
<1> QED BY <1>1, <1>6 DEF InPlace, PlaceBy

\* Pruning takes dissolves from those there are.
LEMMA PruneTyped ==
    ASSUME NEW cs \in Layouts, NEW tr \in SUBSET Dissolve
    PROVE  Prune(cs, tr) \in SUBSET Dissolve
<1> SUFFICES ASSUME NEW s \in Prune(cs, tr) PROVE s \in Dissolve
  OBVIOUS
<1>1. PICK t \in tr : Live(cs, t) /\ s = Shortened(cs, t)
  BY DEF Prune
<1>2. t \in Dissolve /\ {t.a, t.b} \subseteq DOMAIN cs
  BY <1>1 DEF Live
<1> QED BY <1>1, <1>2, ShortenedIs

\* An edit that prunes is legal whatever it did to the clips.
LEMMA PrunedEdit ==
    ASSUME NEW n, NEW m, doc \in Docs(m), NEW cs \in Layouts, Below(cs, n), Sane(doc) => InRange(cs),
           PairsKept(cs)
    PROVE  Edited([clips |-> cs, trans |-> Prune(cs, doc.trans)], n)
<1>1. doc.trans \in SUBSET Dissolve /\ doc = [clips |-> doc.clips, trans |-> doc.trans]
  BY DocIs
<1>2. Prune(cs, doc.trans) \in SUBSET Dissolve
  BY <1>1, PruneTyped
<1>3. ASSUME Sane(doc) PROVE CutsLegal([clips |-> cs, trans |-> Prune(cs, doc.trans)])
  <2>1. OnePerCut(doc.trans)
    BY <1>3 DEF Sane, CutsLegal, OnePerCut
  <2> QED BY <1>1, <2>1, PruneLegal
<1>4. ASSUME Sane(doc) PROVE Sane([clips |-> cs, trans |-> Prune(cs, doc.trans)])
  BY <1>3, <1>4 DEF Sane
<1> QED BY <1>2, <1>4, IsDocument DEF Edited

\* So is one that leaves the dissolves, and what they hang on.
LEMMA KeptEdit ==
    ASSUME NEW n, NEW m, doc \in Docs(m), NEW cs \in Layouts, Below(cs, n), Sane(doc) => InRange(cs),
           Still(cs), DOMAIN doc.clips \subseteq DOMAIN cs,
           \A i \in DOMAIN doc.clips :
              /\ cs[i].start = doc.clips[i].start /\ cs[i].dur = doc.clips[i].dur
              /\ cs[i].src = doc.clips[i].src /\ cs[i].audio = doc.clips[i].audio,
           \A i, j \in DOMAIN doc.clips :
              doc.clips[i].row = doc.clips[j].row => cs[i].row = cs[j].row
    PROVE  Edited([clips |-> cs, trans |-> doc.trans], n)
<1>1. doc.trans \in SUBSET Dissolve /\ doc = [clips |-> doc.clips, trans |-> doc.trans]
  BY DocIs
<1>2. [clips |-> cs, trans |-> doc.trans] \in Docs(n)
  BY <1>1, IsDocument
<1>3. ASSUME Sane(doc) PROVE Sane([clips |-> cs, trans |-> doc.trans])
  <2>1. CutsLegal([clips |-> doc.clips, trans |-> doc.trans])
    BY <1>1, <1>3 DEF Sane
  <2>2. CutsLegal([clips |-> cs, trans |-> doc.trans])
    BY <2>1, LegalKept
  <2> QED BY <1>3, <2>2 DEF Sane
<1>4. PairsKept(cs)
  BY StillKeeps
<1> QED BY <1>2, <1>3, <1>4 DEF Edited

\* The number of rows.
LEMMA RowsNat ==
    ASSUME NEW cs \in Layouts
    PROVE  /\ Rows(cs) \in Nat /\ Rows(cs) >= 1
           /\ \A i \in DOMAIN cs : cs[i].row + 2 <= Rows(cs)
<1> DEFINE h == [i \in DOMAIN cs |-> cs[i].row]
           S == {h[i] : i \in DOMAIN cs}
           T == S \cup {-1}
<1>1. \A i \in DOMAIN cs : cs[i].row \in Nat
  BY LayoutIs, ClipIs
<1>2. IsFiniteSet(S)
  <2>1. IsFiniteSet(DOMAIN cs)
    BY LayoutIs
  <2> HIDE DEF h
  <2> QED BY <2>1, ValuesFinite
<1>3. IsFiniteSet(T) /\ T \subseteq Int /\ T # {}
  <2>1. S \subseteq Int
    BY <1>1
  <2> HIDE DEF S
  <2> QED BY <1>2, <2>1, FS_AddElement
<1>4. Max(T) \in T /\ \A y \in T : Max(T) >= y
  <2> HIDE DEF T
  <2> QED BY <1>3, MaxIs
<1>5. T = {-1} \cup {cs[i].row : i \in DOMAIN cs}
  OBVIOUS
<1>6. Rows(cs) = 2 + Max(T)
  <2> HIDE DEF T
  <2> QED BY <1>5 DEF Rows
<1>7. -1 \in T /\ \A i \in DOMAIN cs : cs[i].row \in T
  OBVIOUS
<1>8. Max(T) \in Int /\ Max(T) >= -1 /\ \A i \in DOMAIN cs : Max(T) >= cs[i].row
  <2> HIDE DEF T
  <2> QED BY <1>3, <1>4, <1>7
<1> HIDE DEF T
<1> QED BY <1>1, <1>6, <1>8

\* Where the timeline begins.
LEMMA LeadIs ==
    ASSUME NEW m, doc \in Docs(m)
    PROVE  Lead \in Nat /\ \A i \in Ids : Lead <= doc.clips[i].start
<1>1. \A i \in Ids : doc.clips[i].start \in Nat
  <2>1. doc.clips \in Layouts
    BY DocIs
  <2>2. \A i \in Ids : doc.clips[i] \in Clip
    BY <2>1, LayoutIs DEF Ids
  <2> QED BY <2>2, ClipIs
<1> DEFINE S == {doc.clips[i].start : i \in Ids}
<1>2. CASE Ids = {}
  BY <1>2 DEF Lead
<1>3. CASE Ids # {}
  <2>1. S \subseteq Nat /\ S # {} /\ \A i \in Ids : doc.clips[i].start \in S
    BY <1>1, <1>3
  <2>2. Lead = Min(S)
    BY <1>3 DEF Lead
  <2> HIDE DEF S
  <2>3. Min(S) \in S /\ \A y \in S : Min(S) <= y
    BY <2>1, MinIs
  <2> QED BY <2>1, <2>2, <2>3
<1> QED BY <1>2, <1>3

----------------------------------------------------------------------------
(* Edits.                                                                  *)

\* The document an edit finds.
LEMMA HereIs ==
    ASSUME NEW n, doc \in Docs(n)
    PROVE  /\ doc.clips \in Layouts /\ Ids = DOMAIN doc.clips /\ IsFiniteSet(Ids)
           /\ \A i \in Ids : /\ i \in Nat /\ i # 0 /\ i < n /\ doc.clips[i] \in Clip
                             /\ Sane(doc) => InSource(doc.clips[i])
           /\ doc.trans \in SUBSET Dissolve /\ doc = [clips |-> doc.clips, trans |-> doc.trans]
<1>1. /\ doc.clips \in Layouts /\ Ids = DOMAIN doc.clips /\ Below(doc.clips, n)
      /\ doc.trans \in SUBSET Dissolve /\ doc = [clips |-> doc.clips, trans |-> doc.trans]
  BY DocIs DEF Ids
<1>2. IsFiniteSet(Ids) /\ \A i \in Ids : i \in Nat /\ i # 0 /\ doc.clips[i] \in Clip
  BY <1>1, LayoutIs
<1>3. \A i \in Ids : i < n /\ (Sane(doc) => InSource(doc.clips[i]))
  BY <1>1 DEF Below, Sane, InRange, InSource
<1> QED BY <1>1, <1>2, <1>3

\* Documents b and a that differ in rows and starts, and of the clips of geom in ranges and
\* offsets too: what a command of positions puts back.
Matches(b, a, geom) ==
    /\ DOMAIN a.clips = DOMAIN b.clips
    /\ \A i \in DOMAIN b.clips :
          /\ a.clips[i].audio = b.clips[i].audio /\ a.clips[i].parent = b.clips[i].parent
          /\ i \notin geom => /\ a.clips[i].dur = b.clips[i].dur /\ a.clips[i].src = b.clips[i].src
                              /\ a.clips[i].off = b.clips[i].off

\* A trim cuts one clip anew, and those that follow it.
LEMMA RecutEdits ==
    ASSUME NEW n, doc \in Docs(n), NEW i \in Ids, NEW c \in Clip, NEW slips \in SUBSET {i},
           c.audio = doc.clips[i].audio, c.parent = doc.clips[i].parent,
           Sane(doc) => InSource(c)
    PROVE  /\ Edited(Recut(i, c, slips), n)
           /\ Matches(doc, Recut(i, c, slips), Geom(i))
<1> DEFINE old == doc.clips
           one == [old EXCEPT ![i] = c]
           own == TrimFollowers(one, i, c.src - old[i].src, c.dur - old[i].dur)
           slid == Slipped(own, slips)
           room == MakeRoom(slid, i)
           cs == Resync(room)
<1>1. /\ old \in Layouts /\ Ids = DOMAIN old /\ Below(old, n)
      /\ \A k \in Ids : old[k] \in Clip
  BY HereIs, DocIs
<1>2. /\ one \in Layouts /\ DOMAIN one = Ids /\ one[i] = c
      /\ \A k \in Ids : k # i => one[k] = old[k]
  <2>1. one \in [Ids -> Clip] /\ Ids \in SUBSET (Nat \ {0}) /\ IsFiniteSet(Ids)
    BY <1>1, HereIs
  <2> QED BY <1>1, <2>1, IsLayout
<1>3. c.src - old[i].src \in Int /\ c.dur - old[i].dur \in Int
  BY <1>1, ClipIs
<1>4. Sane(doc) => InRange(one)
  BY <1>1, <1>2 DEF Sane, InRange, InSource
<1> HIDE DEF one
<1>5. /\ own \in Layouts /\ DOMAIN own = Ids
      /\ \A k \in Ids : /\ one[k].parent # i => own[k] = one[k]
                        /\ own[k].audio = one[k].audio /\ own[k].parent = one[k].parent
      /\ InRange(one) => InRange(own)
  BY <1>2, <1>3, TrimFollowersIs
<1> HIDE DEF own
<1>6. /\ slid \in Layouts /\ DOMAIN slid = Ids
      /\ \A k \in Ids : k \notin slips => slid[k] = own[k]
      /\ \A k \in Ids : \E x \in Int : slid[k] = [own[k] EXCEPT !.off = x]
      /\ InRange(own) => InRange(slid)
  BY <1>5, SlippedIs
<1> HIDE DEF slid
<1>7. Retimed(slid, room) /\ room \in Layouts /\ DOMAIN room = Ids
  BY <1>6, MakeRoomRetimes DEF Retimed
<1>8. Retimed(room, cs)
  BY <1>7, ResyncRetimes
<1>9. Retimed(slid, cs)
  BY <1>6, <1>7, <1>8, RetimedTwice
<1>p. PairsKept(cs)
  BY <1>7, ResyncKeeps
<1> HIDE DEF room, cs
<1>10. /\ cs \in Layouts /\ DOMAIN cs = Ids /\ (InRange(slid) => InRange(cs))
       /\ \A k \in Ids : /\ cs[k].audio = slid[k].audio /\ cs[k].dur = slid[k].dur
                         /\ cs[k].src = slid[k].src /\ cs[k].parent = slid[k].parent
                         /\ cs[k].off = slid[k].off
  <2>1. cs \in Layouts /\ DOMAIN cs = Ids
    BY <1>6, <1>9 DEF Retimed
  <2>2. /\ \A k \in DOMAIN slid :
              /\ cs[k].audio = slid[k].audio /\ cs[k].dur = slid[k].dur /\ cs[k].src = slid[k].src
              /\ cs[k].parent = slid[k].parent /\ cs[k].off = slid[k].off
        /\ InRange(slid) => InRange(cs)
    <3>1. slid \in Layouts
      BY <1>6
    <3> QED BY <1>9, <3>1, RetimedSame
  <2> QED BY <1>6, <2>1, <2>2
<1>11. Below(cs, n) /\ (Sane(doc) => InRange(cs))
  BY <1>1, <1>4, <1>5, <1>6, <1>10 DEF Below
<1>12. Recut(i, c, slips) = [clips |-> cs, trans |-> Prune(cs, doc.trans)]
  BY DEF Recut, cs, room, slid, own, one
<1>13. ASSUME NEW k \in Ids PROVE cs[k].audio = old[k].audio /\ cs[k].parent = old[k].parent
  <2>1. own[k] \in Clip
    BY <1>5, LayoutIs
  <2>2. slid[k].audio = own[k].audio /\ slid[k].parent = own[k].parent
    BY <1>6, <2>1 DEF Clip
  <2>3. one[k].audio = old[k].audio /\ one[k].parent = old[k].parent
    BY <1>2
  <2> QED BY <1>5, <1>10, <2>2, <2>3
<1>14. ASSUME NEW k \in Ids, k \notin Geom(i)
       PROVE  cs[k].dur = old[k].dur /\ cs[k].src = old[k].src /\ cs[k].off = old[k].off
  <2>1. k # i /\ old[k].parent # i
    BY <1>1, <1>14 DEF Geom, WithFollowers, Followers
  <2>2. slid[k] = old[k]
    BY <1>2, <1>5, <1>6, <2>1
  <2> QED BY <1>10, <2>2
<1>15. Matches(doc, Recut(i, c, slips), Geom(i))
  BY <1>1, <1>10, <1>12, <1>13, <1>14 DEF Matches
<1>16. Edited(Recut(i, c, slips), n)
  BY <1>10, <1>11, <1>12, <1>p, PrunedEdit
<1> QED BY <1>15, <1>16

\* updateClipTrim() keeps a clip within its source.
LEMMA RightIs ==
    ASSUME NEW c \in Clip, NEW f \in Nat
    PROVE  LET d == RightAt(c, f)
           IN /\ d \in Clip /\ d.audio = c.audio /\ d.parent = c.parent
              /\ InSource(c) => InSource(d)
<1> DEFINE F == SourceFrames(c)
           dur == Clamp(f - c.start, 1, AtLeast(F - c.src, 1))
           d == [c EXCEPT !.dur = dur]
<1>1. F \in Nat /\ c.src \in Nat /\ c.start \in Nat /\ c.dur \in Nat /\ c.dur > 0
  BY SourceNat, ClipIs
<1>2. RightAt(c, f) = d
  BY DEF RightAt
<1> HIDE DEF F
<1>3. dur \in Nat /\ dur >= 1 /\ (c.src + c.dur <= F => c.src + dur <= F)
  BY <1>1 DEF Clamp, AtLeast, AtMost
<1> HIDE DEF dur
<1>4. d \in Clip /\ d.src = c.src /\ d.dur = dur /\ d.audio = c.audio /\ d.parent = c.parent
  <2>1. dur \in Nat \ {0}
    BY <1>3
  <2> QED BY <2>1 DEF Clip
<1>5. SourceFrames(d) = F
  BY <1>4 DEF SourceFrames, F
<1> HIDE DEF d
<1>6. InSource(c) => InSource(d)
  BY <1>3, <1>4, <1>5 DEF InSource, F
<1> QED BY <1>2, <1>4, <1>6

LEMMA LeftIs ==
    ASSUME NEW c \in Clip, NEW f \in Nat
    PROVE  LET d == LeftAt(c, f)
           IN /\ d \in Clip /\ d.audio = c.audio /\ d.parent = c.parent
              /\ InSource(c) => InSource(d)
<1> DEFINE start == Clamp(f, AtLeast(c.start - c.src, 0), End(c) - 1)
           d == [c EXCEPT !.start = start, !.src = c.src + (start - c.start), !.dur = End(c) - start]
<1>1. /\ c.src \in Nat /\ c.start \in Nat /\ c.dur \in Nat /\ c.dur > 0
      /\ End(c) = c.start + c.dur
  BY ClipIs
<1>2. LeftAt(c, f) = d
  BY DEF LeftAt, Clip
<1>3. start \in Nat /\ start < End(c) /\ start >= c.start - c.src
  BY <1>1 DEF Clamp, AtLeast, AtMost
<1> HIDE DEF start
<1>4. /\ c.src + (start - c.start) \in Nat /\ End(c) - start \in Nat \ {0}
      /\ (c.src + (start - c.start)) + (End(c) - start) = c.src + c.dur
  BY <1>1, <1>3
<1>5. /\ d \in Clip /\ d.src = c.src + (start - c.start) /\ d.dur = End(c) - start
      /\ d.audio = c.audio /\ d.parent = c.parent
  BY <1>3, <1>4 DEF Clip
<1>6. SourceFrames(d) = SourceFrames(c)
  BY <1>5 DEF SourceFrames
<1> HIDE DEF d
<1>7. InSource(c) => InSource(d)
  BY <1>4, <1>5, <1>6 DEF InSource
<1> QED BY <1>2, <1>5, <1>7

LEMMA RangeIs ==
    ASSUME NEW c \in Clip, NEW f \in Nat
    PROVE  LET last == c.src + c.dur - 1
               at == AtMost(f, SourceFrames(c) - 1)
               d == [c EXCEPT !.src = at, !.dur = AtLeast(last, at) - at + 1]
               e == [c EXCEPT !.dur = AtLeast(at, c.src) - c.src + 1]
           IN /\ d \in Clip /\ d.audio = c.audio /\ d.parent = c.parent /\ (InSource(c) => InSource(d))
              /\ e \in Clip /\ e.audio = c.audio /\ e.parent = c.parent /\ (InSource(c) => InSource(e))
<1> DEFINE F == SourceFrames(c)
           last == c.src + c.dur - 1
           at == AtMost(f, F - 1)
           x == AtLeast(last, at) - at + 1
           y == AtLeast(at, c.src) - c.src + 1
           d == [c EXCEPT !.src = at, !.dur = x]
           e == [c EXCEPT !.dur = y]
<1>1. F \in Nat /\ F >= 1 /\ c.src \in Nat /\ c.dur \in Nat /\ c.dur > 0
  BY SourceNat, ClipIs
<1> HIDE DEF F
<1>2. at \in Nat /\ at <= F - 1
  BY <1>1 DEF AtMost
<1> HIDE DEF at
<1>3. /\ x \in Nat /\ x >= 1 /\ y \in Nat /\ y >= 1
      /\ c.src + c.dur <= F => at + x <= F /\ c.src + y <= F
  BY <1>1, <1>2 DEF AtLeast
<1> HIDE DEF x, y
<1>4. x \in Nat \ {0} /\ y \in Nat \ {0}
  BY <1>3
<1>5. d \in Clip /\ d.src = at /\ d.dur = x /\ d.audio = c.audio /\ d.parent = c.parent
  BY <1>2, <1>4 DEF Clip
<1>6. e \in Clip /\ e.src = c.src /\ e.dur = y /\ e.audio = c.audio /\ e.parent = c.parent
  BY <1>4 DEF Clip
<1>7. SourceFrames(d) = F /\ SourceFrames(e) = F
  BY <1>5, <1>6 DEF SourceFrames, F
<1> HIDE DEF d, e
<1>8. InSource(c) => InSource(d) /\ InSource(e)
  BY <1>3, <1>5, <1>6, <1>7 DEF InSource, F
<1> QED BY <1>5, <1>6, <1>8 DEF d, e, x, y, at, F

\* Moved by so much, clip i would start inside clip j.
Inside(i, j, dRow, by) ==
    /\ doc.clips[j].row = doc.clips[i].row + dRow
    /\ doc.clips[j].start < doc.clips[i].start + by
    /\ doc.clips[i].start + by < End(doc.clips[j])

\* How far clip j then ends past the start of clip i.
Past(i, j, by) == End(doc.clips[j]) - (doc.clips[i].start + by)

\* A ripple drop never jumps back, and not further than the end of a clip it is inside of.
LEMMA JumpIs ==
    ASSUME NEW n, doc \in Docs(n), NEW sel \in SUBSET Ids, NEW dRow \in Int, NEW by \in Int
    PROVE  LET J == Jump(sel, dRow, by)
           IN /\ J \in Nat
              /\ \A i \in sel, j \in Ids \ sel : Inside(i, j, dRow, by) => Past(i, j, by) <= J
              /\ J = 0 \/ \E i \in sel, j \in Ids \ sel :
                            Inside(i, j, dRow, by) /\ J = Past(i, j, by)
<1> DEFINE at(i) == doc.clips[i].start + by
           into == {p \in sel \X (Ids \ sel) :
                      /\ doc.clips[p[2]].row = doc.clips[p[1]].row + dRow
                      /\ doc.clips[p[2]].start < at(p[1]) /\ at(p[1]) < End(doc.clips[p[2]])}
           S == {End(doc.clips[p[2]]) - at(p[1]) : p \in into}
           h == [p \in into |-> End(doc.clips[p[2]]) - at(p[1])]
           T == S \cup {0}
<1>1. IsFiniteSet(sel) /\ IsFiniteSet(Ids \ sel)
  <2>1. IsFiniteSet(Ids) /\ Ids \ sel \in SUBSET Ids
    BY HereIs
  <2> QED BY <2>1, FS_Subset
<1>2. IsFiniteSet(into)
  <2>1. IsFiniteSet(sel \X (Ids \ sel))
    BY <1>1, FS_Product
  <2>2. into \in SUBSET (sel \X (Ids \ sel))
    OBVIOUS
  <2> HIDE DEF into
  <2> QED BY <2>1, <2>2, FS_Subset
<1>3. \A p \in into : h[p] \in Int
  <2> SUFFICES ASSUME NEW p \in into PROVE End(doc.clips[p[2]]) - at(p[1]) \in Int
    OBVIOUS
  <2>1. p[1] \in Ids /\ p[2] \in Ids
    OBVIOUS
  <2>2. doc.clips[p[1]].start \in Nat /\ End(doc.clips[p[2]]) \in Nat
    BY <2>1, HereIs, ClipIs
  <2> HIDE DEF into
  <2> QED BY <2>2
<1>4. S = {h[p] : p \in into}
  <2> HIDE DEF into
  <2> QED OBVIOUS
<1>5. IsFiniteSet(S) /\ S \subseteq Int
  <2> HIDE DEF h, into, S
  <2> QED BY <1>2, <1>3, <1>4, ValuesFinite
<1>6. Jump(sel, dRow, by) = Max(T)
  <2>1. T = {0} \cup S
    OBVIOUS
  <2> HIDE DEF T
  <2> QED BY <2>1 DEF Jump
<1> DEFINE past(i, j) == Past(i, j, by)
<1>p. \A i \in sel, j \in Ids \ sel : Inside(i, j, dRow, by) => past(i, j) \in S
  <2> SUFFICES ASSUME NEW i \in sel, NEW j \in Ids \ sel, Inside(i, j, dRow, by)
               PROVE  past(i, j) \in S
    OBVIOUS
  <2>1. <<i, j>> \in into
    BY DEF Inside
  <2>2. past(i, j) = End(doc.clips[j]) - at(i)
    BY DEF Past
  <2> HIDE DEF into, past, at
  <2> QED BY <2>1, <2>2
<1>q. \A y \in S : \E i \in sel, j \in Ids \ sel : Inside(i, j, dRow, by) /\ y = past(i, j)
  <2> SUFFICES ASSUME NEW q \in into
               PROVE  \E i \in sel, j \in Ids \ sel :
                         Inside(i, j, dRow, by) /\ End(doc.clips[q[2]]) - at(q[1]) = past(i, j)
    <3> HIDE DEF into, at, past
    <3> QED OBVIOUS
  <2>1. q[1] \in sel /\ q[2] \in Ids \ sel /\ Inside(q[1], q[2], dRow, by)
    BY DEF Inside
  <2>2. End(doc.clips[q[2]]) - at(q[1]) = past(q[1], q[2])
    BY DEF Past
  <2> HIDE DEF into, at, past
  <2> QED BY <2>1, <2>2
<1> HIDE DEF S
<1>7. IsFiniteSet(T) /\ T \subseteq Int /\ T # {} /\ 0 \in T /\ T = S \cup {0}
  BY <1>5, FS_AddElement
<1> HIDE DEF T, past
<1>8. Max(T) \in T /\ Max(T) \in Nat /\ \A y \in T : Max(T) >= y /\ y \in Int
  <2>1. Max(T) \in T /\ \A y \in T : Max(T) >= y
    BY <1>7, MaxIs
  <2>2. Max(T) \in Int /\ Max(T) >= 0
    BY <1>7, <2>1
  <2> QED BY <1>7, <2>1, <2>2
<1> DEFINE J == Jump(sel, dRow, by)
<1>9. J \in Nat /\ J \in T /\ \A y \in T : J >= y /\ y \in Int
  BY <1>6, <1>8
<1> HIDE DEF J
<1>10. \A i \in sel, j \in Ids \ sel : Inside(i, j, dRow, by) => past(i, j) <= J
  <2> SUFFICES ASSUME NEW i \in sel, NEW j \in Ids \ sel, Inside(i, j, dRow, by)
               PROVE  past(i, j) <= J
    OBVIOUS
  <2>1. past(i, j) \in T
    BY <1>7, <1>p
  <2> QED BY <1>9, <2>1
<1>11. J = 0 \/ \E i \in sel, j \in Ids \ sel : Inside(i, j, dRow, by) /\ J = past(i, j)
  BY <1>7, <1>9, <1>q
<1> QED BY <1>9, <1>10, <1>11 DEF J, past

\* A clip that is moved is a clip still, and so is a copy.
LEMMA ShiftedIs ==
    ASSUME NEW c \in Clip, NEW dRow \in Int, NEW by \in Int,
           c.row + dRow \in Nat, c.start + by \in Nat
    PROVE  Shifted(c, dRow, by) \in Clip /\ (InSource(c) => InSource(Shifted(c, dRow, by)))
<1> DEFINE d == Shifted(c, dRow, by)
<1>1. d \in Clip /\ d.src = c.src /\ d.dur = c.dur /\ d.audio = c.audio
  BY DEF Shifted, Clip
<1>2. SourceFrames(d) = SourceFrames(c)
  BY <1>1 DEF SourceFrames
<1> HIDE DEF d
<1>3. InSource(c) => InSource(d)
  BY <1>1, <1>2 DEF InSource
<1> QED BY <1>1, <1>3 DEF d

LEMMA CopiedIs ==
    ASSUME NEW c \in Clip, NEW dRow \in Int, NEW by \in Int, NEW sel \in SUBSET Nat,
           IsFiniteSet(sel), 0 \notin sel, next \in Nat,
           c.row + dRow \in Nat, c.start + by \in Nat
    PROVE  Copied(c, dRow, by, sel) \in Clip /\ (InSource(c) => InSource(Copied(c, dRow, by, sel)))
<1> DEFINE b == Shifted(c, dRow, by)
           p == IF c.parent \in sel THEN TailOf(c.parent, next, sel) ELSE 0
           o == IF c.parent \in sel THEN c.off ELSE 0
           d == [b EXCEPT !.parent = p, !.off = o]
<1>1. b \in Clip /\ (InSource(c) => InSource(b))
  BY ShiftedIs
<1>2. b.parent = c.parent /\ b.off = c.off
  BY DEF Shifted, Clip
<1>a. b.audio = c.audio
  BY DEF Shifted, Clip
<1>3. p \in Nat /\ o \in Int /\ (c.audio \/ p = 0)
  <2>1. c.off \in Int
    BY ClipIs
  <2>2. c.parent \in sel => TailOf(c.parent, next, sel) \in Nat
    BY TailsNew
  <2>3. c.audio \/ c.parent = 0
    BY DEF Clip
  <2> QED BY <2>1, <2>2, <2>3
<1>4. Copied(c, dRow, by, sel) = d
  <2>1. Copied(c, dRow, by, sel)
           = [b EXCEPT !.parent = IF b.parent \in sel THEN TailOf(b.parent, next, sel) ELSE 0,
                       !.off = IF c.parent \in sel THEN b.off ELSE 0]
    BY <1>1 DEF Copied, Clip
  <2> QED BY <1>2, <2>1
<1> HIDE DEF b, p, o
<1>5. d \in Clip /\ d.src = b.src /\ d.dur = b.dur /\ d.audio = b.audio
  BY <1>1, <1>3, <1>a DEF Clip
<1>6. SourceFrames(d) = SourceFrames(b)
  BY <1>5 DEF SourceFrames
<1> HIDE DEF d
<1>7. InSource(b) => InSource(d)
  BY <1>5, <1>6 DEF InSource
<1> QED BY <1>1, <1>4, <1>5, <1>7

\* What is dragged lands in a layout.
LEMMA DraggedIs ==
    ASSUME next \in Nat, doc \in Docs(next), NEW sel \in SUBSET Ids, sel # {},
           NEW dRow \in Int, NEW by \in Int, NEW copy \in BOOLEAN,
           \A i \in sel : doc.clips[i].row + dRow \in Nat /\ doc.clips[i].start + by \in Nat,
           NEW ranged \in BOOLEAN, ranged => Sane(doc)
    PROVE  LET d == Dragged(sel, dRow, by, copy)
           IN /\ IsFiniteSet(d.landed) /\ d.landed # {} /\ d.landed \subseteq Nat
              /\ [clips |-> d.clips, next |-> d.next] \in Stages(d.landed, next, ranged)
<1>1. /\ doc.clips \in Layouts /\ IsFiniteSet(Ids) /\ Ids = DOMAIN doc.clips
      /\ \A i \in Ids : /\ i \in Nat /\ i # 0 /\ i < next /\ doc.clips[i] \in Clip
                        /\ ranged => InSource(doc.clips[i])
  BY HereIs
<1>2. IsFiniteSet(sel) /\ sel \subseteq Nat
  BY <1>1, FS_Subset
<1>3. CASE ~copy
  <2> DEFINE ds == [i \in Ids |-> IF i \in sel THEN Shifted(doc.clips[i], dRow, by)
                                  ELSE doc.clips[i]]
  <2>1. Dragged(sel, dRow, by, copy) = [clips |-> ds, next |-> next, landed |-> sel]
    BY <1>3 DEF Dragged
  <2>2. \A i \in Ids : ds[i] \in Clip /\ (ranged => InSource(ds[i]))
    BY <1>1, ShiftedIs
  <2>3. ds \in [Ids -> Clip]
    <3>1. ds = [i \in Ids |-> ds[i]]
      OBVIOUS
    <3> HIDE DEF ds
    <3> QED BY <2>2, <3>1
  <2> HIDE DEF ds
  <2>4. Ids \in SUBSET (Nat \ {0})
    BY <1>1
  <2>5. ds \in Layouts /\ DOMAIN ds = Ids
    BY <1>1, <2>3, <2>4, IsLayout
  <2>6. (ranged => InRange(ds)) /\ Below(ds, next)
    BY <1>1, <2>2, <2>5 DEF InRange, InSource, Below
  <2>7. [clips |-> ds, next |-> next] \in Stages(sel, next, ranged)
    BY <2>5, <2>6 DEF Stages
  <2> QED BY <1>2, <2>1, <2>7
<1>4. CASE copy
  <2> DEFINE N == TailIds(next, sel)
             I == Ids \cup N
             ds == [k \in I |-> IF k \in Ids THEN doc.clips[k]
                                ELSE Copied(doc.clips[MadeOf(k, next, sel)], dRow, by, sel)]
             m == next + Cardinality(sel)
  <2>1. Dragged(sel, dRow, by, copy) = [clips |-> ds, next |-> m, landed |-> N]
    BY <1>4 DEF Dragged
  <2>2. /\ IsFiniteSet(N) /\ Cardinality(sel) \in Nat
        /\ \A k \in N : MadeOf(k, next, sel) \in sel /\ k \in Nat /\ k >= next /\ k < m
    BY <1>2, TailsNew
  <2>3. N # {}
    BY DEF TailIds
  <2>4. \A k \in I : ds[k] \in Clip /\ (ranged => InSource(ds[k]))
    <3> SUFFICES ASSUME NEW k \in I PROVE ds[k] \in Clip /\ (ranged => InSource(ds[k]))
      OBVIOUS
    <3>1. CASE k \in Ids
      BY <1>1, <3>1
    <3>2. CASE k \notin Ids
      <4> DEFINE i == MadeOf(k, next, sel)
      <4>1. i \in sel /\ i \in Ids
        BY <2>2, <3>2
      <4>2. ds[k] = Copied(doc.clips[i], dRow, by, sel)
        BY <3>2
      <4> HIDE DEF i, ds
      <4> QED BY <1>1, <1>2, <4>1, <4>2, CopiedIs
    <3> QED BY <3>1, <3>2
  <2>5. ds \in [I -> Clip]
    <3>1. ds = [k \in I |-> ds[k]]
      OBVIOUS
    <3> HIDE DEF ds, I
    <3> QED BY <2>4, <3>1
  <2> HIDE DEF ds, N
  <2>6. I \in SUBSET (Nat \ {0}) /\ IsFiniteSet(I)
    <3>1. \A k \in N : k # 0
      <4>1. PICK i \in sel : i \in Nat /\ i # 0 /\ i < next
        BY <1>1
      <4> QED BY <2>2, <4>1
    <3>2. IsFiniteSet(I)
      BY <1>1, <2>2, FS_Union
    <3> QED BY <1>1, <2>2, <3>1, <3>2
  <2>7. ds \in Layouts /\ DOMAIN ds = I
    <3> HIDE DEF I
    <3> QED BY <2>5, <2>6, IsLayout
  <2>8. ranged => InRange(ds)
    BY <2>4, <2>7 DEF InRange, InSource
  <2>9. m \in Nat /\ m >= next /\ \A k \in I : k < m
    BY <1>1, <2>2
  <2>10. Below(ds, m)
    BY <2>7, <2>9 DEF Below
  <2> HIDE DEF m
  <2>11. [clips |-> ds, next |-> m] \in Stages(N, next, ranged)
    BY <2>7, <2>8, <2>9, <2>10 DEF Stages
  <2>12. N \subseteq Nat
    BY <2>2
  <2> QED BY <2>1, <2>2, <2>3, <2>11, <2>12
<1> QED BY <1>3, <1>4

\* commitClipDrag().
LEMMA DragEdits ==
    ASSUME next \in Nat, doc \in Docs(next), NEW sel \in SUBSET Ids, sel # {},
           NEW dRow \in Int, NEW by \in Int, NEW ripple \in BOOLEAN, NEW copy \in BOOLEAN,
           \A i \in sel : doc.clips[i].row + dRow \in Nat /\ doc.clips[i].start + by \in Nat
    PROVE  LET d == Dragged(sel, dRow, by, copy)
               room  == DropAll(d.clips, d.next, d.landed, ripple)
               clips == Resync(Slipped(room.clips, d.landed))
           IN /\ Edited([clips |-> clips, trans |-> Prune(clips, doc.trans)], room.next)
              /\ room.next \in Nat /\ room.next >= next
<1> DEFINE d == Dragged(sel, dRow, by, copy)
           room == DropAll(d.clips, d.next, d.landed, ripple)
           slid == Slipped(room.clips, d.landed)
           cs == Resync(slid)
           ranged == Sane(doc)
<1>1. ranged \in BOOLEAN
  BY DEF Sane
<1>2. /\ IsFiniteSet(d.landed) /\ d.landed # {} /\ d.landed \subseteq Nat
      /\ [clips |-> d.clips, next |-> d.next] \in Stages(d.landed, next, ranged)
  <2>1. ranged => Sane(doc)
    OBVIOUS
  <2> HIDE DEF ranged
  <2> QED BY <1>1, <2>1, DraggedIs
<1> HIDE DEF ranged, d
<1>3. room \in Stages(d.landed, next, ranged)
  BY <1>1, <1>2, DropAllStays
<1> HIDE DEF room
<1>4. /\ room.clips \in Layouts /\ room.next \in Nat /\ room.next >= next
      /\ Below(room.clips, room.next) /\ (ranged => InRange(room.clips))
  BY <1>3 DEF Stages
<1>5. /\ slid \in Layouts /\ DOMAIN slid = DOMAIN room.clips
      /\ InRange(room.clips) => InRange(slid)
  BY <1>4, SlippedIs
<1> HIDE DEF slid
<1>6. Retimed(slid, cs)
  BY <1>5, ResyncRetimes
<1>p. PairsKept(cs)
  BY <1>5, ResyncKeeps
<1> HIDE DEF cs
<1>7. cs \in Layouts /\ DOMAIN cs = DOMAIN slid /\ (InRange(slid) => InRange(cs))
  BY <1>5, <1>6, RetimedSame DEF Retimed
<1>8. Below(cs, room.next) /\ (Sane(doc) => InRange(cs))
  BY <1>4, <1>5, <1>7 DEF Below, ranged
<1>9. Edited([clips |-> cs, trans |-> Prune(cs, doc.trans)], room.next)
  BY <1>7, <1>8, <1>p, PrunedEdit
<1> QED BY <1>4, <1>9 DEF cs, slid, room, d

\* addMediaFileAt().
LEMMA AddEdits ==
    ASSUME next \in Nat \ {0}, doc \in Docs(next), NEW new \in Clip, InSource(new), NEW row \in Nat
    PROVE  LET pushed == Ripple(doc.clips, {i \in Ids : doc.clips[i].row = row}, new.start, new.dur)
               clips  == Resync([i \in Ids \cup {next} |-> IF i = next THEN new ELSE pushed[i]])
           IN Edited([clips |-> clips, trans |-> Prune(clips, doc.trans)], next + 1)
<1> DEFINE S == {i \in Ids : doc.clips[i].row = row}
           pushed == Ripple(doc.clips, S, new.start, new.dur)
           I == Ids \cup {next}
           all == [i \in I |-> IF i = next THEN new ELSE pushed[i]]
           cs == Resync(all)
<1>1. /\ doc.clips \in Layouts /\ IsFiniteSet(Ids) /\ Ids = DOMAIN doc.clips
      /\ \A i \in Ids : i \in Nat /\ i # 0 /\ i < next
  BY HereIs
<1>2. Retimed(doc.clips, pushed)
  <2>1. new.start \in Nat /\ new.dur \in Nat
    BY ClipIs
  <2>2. S \in SUBSET DOMAIN doc.clips
    BY <1>1
  <2> HIDE DEF S
  <2> QED BY <1>1, <2>1, <2>2, RippleRetimes
<1> HIDE DEF pushed
<1>3. pushed \in Layouts /\ DOMAIN pushed = Ids /\ (InRange(doc.clips) => InRange(pushed))
  BY <1>1, <1>2, RetimedSame DEF Retimed
<1>4. \A i \in I : all[i] \in Clip /\ (InRange(doc.clips) => InSource(all[i]))
  <2>1. \A i \in Ids : pushed[i] \in Clip /\ (InRange(doc.clips) => InSource(pushed[i]))
    BY <1>3, LayoutIs DEF InRange, InSource
  <2> QED BY <2>1
<1>5. I \in SUBSET (Nat \ {0}) /\ IsFiniteSet(I)
  BY <1>1, FS_AddElement
<1>6. all \in [I -> Clip]
  <2>1. all = [i \in I |-> all[i]]
    OBVIOUS
  <2> HIDE DEF all, I
  <2> QED BY <1>4, <2>1
<1> HIDE DEF all
<1>7. all \in Layouts /\ DOMAIN all = I
  <2> HIDE DEF I
  <2> QED BY <1>5, <1>6, IsLayout
<1>8. InRange(doc.clips) => InRange(all)
  BY <1>4, <1>7 DEF InRange, InSource
<1>9. Retimed(all, cs)
  BY <1>7, ResyncRetimes
<1>p. PairsKept(cs)
  BY <1>7, ResyncKeeps
<1> HIDE DEF cs
<1>10. cs \in Layouts /\ DOMAIN cs = I /\ (InRange(all) => InRange(cs))
  <2>1. cs \in Layouts /\ DOMAIN cs = I
    BY <1>7, <1>9 DEF Retimed
  <2>2. InRange(all) => InRange(cs)
    BY <1>7, <1>9, RetimedSame
  <2> QED BY <2>1, <2>2
<1>11. Below(cs, next + 1) /\ (Sane(doc) => InRange(cs))
  <2>1. \A i \in I : i < next + 1
    BY <1>1
  <2> QED BY <1>8, <1>10, <2>1 DEF Below, Sane
<1>12. Edited([clips |-> cs, trans |-> Prune(cs, doc.trans)], next + 1)
  BY <1>10, <1>11, <1>p, PrunedEdit
<1> QED BY <1>12 DEF cs, all, pushed

\* A clip of the length of its source.
LEMMA NewIs ==
    ASSUME NEW audio \in BOOLEAN, NEW row \in Nat, NEW start \in Nat
    PROVE  LET new == [row |-> row, audio |-> audio, start |-> start,
                       dur |-> IF audio THEN AudioFrames ELSE VideoFrames,
                       src |-> 0, parent |-> 0, off |-> 0]
           IN new \in Clip /\ InSource(new)
<1> DEFINE dur == IF audio THEN AudioFrames ELSE VideoFrames
           new == [row |-> row, audio |-> audio, start |-> start, dur |-> dur,
                   src |-> 0, parent |-> 0, off |-> 0]
<1>1. dur \in Nat /\ dur # 0
  BY TimelineAssumption
<1>2. SourceFrames(new) = dur
  BY DEF SourceFrames
<1> HIDE DEF dur
<1>3. new \in Clip /\ new.src = 0 /\ new.dur = dur
  BY <1>1 DEF Clip
<1> HIDE DEF new
<1>4. InSource(new)
  BY <1>1, <1>2, <1>3 DEF InSource
<1> QED BY <1>3, <1>4 DEF new, dur

----------------------------------------------------------------------------
(* Pasting.                                                                *)

\* firstFreeTrackFor() finds a row that has room, as the spare one does.
LEMMA FreeRowIs ==
    ASSUME NEW cs \in Layouts, NEW c \in Clip
    PROVE  LET r == FreeRow(cs, c)
           IN /\ r \in Nat /\ RowTakes(cs, r, {}, c.audio)
              /\ \A i \in DOMAIN cs : cs[i].row = r
                     => End(c) <= cs[i].start \/ End(cs[i]) <= c.start
<1> DEFINE S == {r \in 0 .. Rows(cs) - 1 :
                    /\ RowTakes(cs, r, {}, c.audio)
                    /\ \A i \in DOMAIN cs : cs[i].row = r
                            => End(c) <= cs[i].start \/ End(cs[i]) <= c.start}
           r == Rows(cs) - 1
<1>1. /\ Rows(cs) \in Nat /\ Rows(cs) >= 1 /\ \A i \in DOMAIN cs : cs[i].row + 2 <= Rows(cs)
      /\ \A i \in DOMAIN cs : cs[i].row \in Nat
  BY RowsNat, LayoutIs, ClipIs
<1>2. r \in 0 .. Rows(cs) - 1 /\ \A i \in DOMAIN cs : cs[i].row # r
  BY <1>1
<1>3. RowTakes(cs, r, {}, c.audio)
  <2> HIDE DEF r
  <2> QED BY <1>2 DEF RowTakes
<1>4. S \subseteq Nat /\ S # {}
  <2>1. r \in S
    BY <1>2, <1>3
  <2>2. S \subseteq Nat
    BY <1>1
  <2> QED BY <2>1, <2>2
<1>5. FreeRow(cs, c) = Min(S)
  BY DEF FreeRow
<1>6. \A q \in S : /\ RowTakes(cs, q, {}, c.audio)
                   /\ \A i \in DOMAIN cs : cs[i].row = q
                          => End(c) <= cs[i].start \/ End(cs[i]) <= c.start
  OBVIOUS
<1> HIDE DEF S
<1>7. FreeRow(cs, c) \in S /\ FreeRow(cs, c) \in Nat
  BY <1>4, <1>5, MinIs
<1> QED BY <1>6, <1>7

\* The clips of the clipboard, in order.
LEMMA BoardIs ==
    ASSUME board \in Layouts, next \in Nat \ {0}
    PROVE  /\ board \in [DOMAIN board -> Clip] /\ IsFiniteSet(DOMAIN board)
           /\ Cardinality(DOMAIN board) \in Nat
           /\ Ranked(DOMAIN board, [i \in DOMAIN board |-> Before(i)])
           /\ \A i \in DOMAIN board :
                 /\ i \in Nat /\ Before(i) \subseteq DOMAIN board
                 /\ PasteId(i) \in Nat /\ PasteId(i) >= next
                 /\ PasteId(i) < next + Cardinality(DOMAIN board)
<1> DEFINE B == DOMAIN board
           before == [i \in B |-> Before(i)]
<1>1. /\ board \in [B -> Clip] /\ IsFiniteSet(B) /\ Cardinality(B) \in Nat
      /\ \A i \in B : i \in Nat /\ board[i] \in Clip
  BY LayoutIs, FS_CardinalityType
<1>2. \A i \in B : board[i].row \in Nat /\ board[i].start \in Nat
  BY <1>1, ClipIs
<1>3. before \in [B -> SUBSET B] /\ \A i \in B : i \notin before[i]
  BY <1>1, <1>2 DEF Before
<1>4. \A i \in B : \A j \in before[i] : before[j] \subseteq before[i]
  <2> SUFFICES ASSUME NEW i \in B, NEW j \in before[i], NEW k \in before[j] PROVE k \in before[i]
    OBVIOUS
  <2>1. j \in B /\ k \in B
    BY <1>3
  <2>2. /\ board[i].row \in Nat /\ board[i].start \in Nat /\ i \in Nat
        /\ board[j].row \in Nat /\ board[j].start \in Nat /\ j \in Nat
        /\ board[k].row \in Nat /\ board[k].start \in Nat /\ k \in Nat
    BY <1>1, <1>2, <2>1
  <2>3. j \in Before(i) /\ k \in Before(j)
    BY <2>1
  <2>4. k \in Before(i)
    BY <2>1, <2>2, <2>3 DEF Before
  <2> QED BY <2>4
<1>5. Ranked(B, before)
  <2> HIDE DEF before, B
  <2> QED BY <1>1, <1>3, <1>4, EarlierRanks
<1>6. ASSUME NEW i \in B
      PROVE  PasteId(i) \in Nat /\ PasteId(i) >= next /\ PasteId(i) < next + Cardinality(B)
  <2>1. Before(i) \in SUBSET B /\ Before(i) # B
    BY <1>3, <1>6
  <2>2. IsFiniteSet(Before(i)) /\ Cardinality(Before(i)) <= Cardinality(B)
        /\ Cardinality(Before(i)) # Cardinality(B)
    BY <1>1, <2>1, FS_Subset
  <2>3. Cardinality(Before(i)) \in Nat
    BY <2>2, FS_CardinalityType
  <2> QED BY <1>1, <2>2, <2>3 DEF PasteId
<1>7. \A i \in B : Before(i) \subseteq B
  BY DEF Before
<1> QED BY <1>1, <1>5, <1>6, <1>7

\* A copy is a clip, within its source when what was copied is.
LEMMA PasteCopyIs ==
    ASSUME next \in Nat \ {0}, doc \in Docs(next), board \in Layouts,
           NEW i \in DOMAIN board, NEW f \in Nat, NEW r \in Nat
    PROVE  LET c == PasteCopy(i, f)
               d == [c EXCEPT !.row = r]
           IN c \in Clip /\ d \in Clip /\ (InRange(board) => InSource(d))
<1> DEFINE b == board[i]
           follows == b.parent \in DOMAIN board
           at == b.start + AtLeast(f, Lead)
           p == IF follows THEN PasteId(b.parent) ELSE 0
           o == IF follows THEN b.off ELSE 0
           c == PasteCopy(i, f)
           d == [c EXCEPT !.row = r]
<1>1. b \in Clip /\ (InRange(board) => InSource(b))
  BY LayoutIs DEF InRange, InSource
<1>2. at \in Nat
  <2>1. Lead \in Nat /\ b.start \in Nat
    BY <1>1, LeadIs, ClipIs
  <2> QED BY <2>1 DEF AtLeast
<1>3. p \in Nat /\ o \in Int /\ (b.audio \/ p = 0)
  <2>1. b.off \in Int
    BY <1>1, ClipIs
  <2>2. follows => PasteId(b.parent) \in Nat
    BY BoardIs
  <2>3. (b.audio \/ b.parent = 0) /\ 0 \notin DOMAIN board
    BY <1>1, LayoutIs DEF Clip
  <2> QED BY <2>1, <2>2, <2>3
<1>4. c = [b EXCEPT !.start = at, !.parent = p, !.off = o]
  BY <1>1 DEF PasteCopy, Clip
<1> HIDE DEF at, p, o, c, b
<1>5. c \in Clip /\ c.src = b.src /\ c.dur = b.dur /\ c.audio = b.audio
  BY <1>1, <1>2, <1>3, <1>4 DEF Clip
<1>6. d \in Clip /\ d.src = c.src /\ d.dur = c.dur /\ d.audio = c.audio
  BY <1>5 DEF Clip
<1>7. SourceFrames(d) = SourceFrames(b)
  BY <1>5, <1>6 DEF SourceFrames
<1> HIDE DEF d
<1>8. InSource(b) => InSource(d)
  BY <1>5, <1>6, <1>7 DEF InSource
<1> QED BY <1>1, <1>5, <1>6, <1>8 DEF c, d

\* The clips with the copies that have got a row.
LEMMA WithCopiesIs ==
    ASSUME next \in Nat \ {0}, doc \in Docs(next), board \in Layouts,
           NEW S \in SUBSET DOMAIN board, NEW row, \A i \in S : row[i] \in Nat, NEW f \in Nat
    PROVE  LET cs == WithCopies(S, row, f)
           IN /\ cs \in Layouts /\ Below(cs, next + Cardinality(DOMAIN board))
              /\ Ids \subseteq DOMAIN cs /\ \A k \in Ids : cs[k] = doc.clips[k]
              /\ (Sane(doc) /\ InRange(board)) => InRange(cs)
<1> DEFINE N == {PasteId(i) : i \in S}
           h == [i \in S |-> PasteId(i)]
           I == Ids \cup N
           Of(k) == CHOOSE i \in S : PasteId(i) = k
           cs == WithCopies(S, row, f)
           m == next + Cardinality(DOMAIN board)
<1>1. /\ doc.clips \in Layouts /\ IsFiniteSet(Ids) /\ Ids = DOMAIN doc.clips
      /\ \A i \in Ids : /\ i \in Nat /\ i # 0 /\ i < next /\ doc.clips[i] \in Clip
                        /\ Sane(doc) => InSource(doc.clips[i])
  BY HereIs
<1>2. cs = [k \in I |-> IF k \in Ids THEN doc.clips[k]
                        ELSE [PasteCopy(Of(k), f) EXCEPT !.row = row[Of(k)]]]
  BY DEF WithCopies
<1>3. /\ Cardinality(DOMAIN board) \in Nat
      /\ \A k \in N : k \in Nat /\ k >= next /\ k < m /\ Of(k) \in S
  <2>1. /\ Cardinality(DOMAIN board) \in Nat
        /\ \A i \in S : PasteId(i) \in Nat /\ PasteId(i) >= next /\ PasteId(i) < m
    BY BoardIs
  <2>2. ASSUME NEW k \in N PROVE Of(k) \in S
    <3>1. \E i \in S : PasteId(i) = k
      BY <2>2
    <3> QED BY <3>1
  <2> HIDE DEF Of, m
  <2> QED BY <2>1, <2>2
<1>4. IsFiniteSet(N)
  <2>1. IsFiniteSet(S)
    BY LayoutIs, FS_Subset
  <2>2. N = {h[i] : i \in S}
    OBVIOUS
  <2> HIDE DEF h, N
  <2> QED BY <2>1, <2>2, ValuesFinite
<1> HIDE DEF cs, N, Of
<1>5. DOMAIN cs = I /\ \A k \in Ids : cs[k] = doc.clips[k]
  BY <1>2
<1>6. ASSUME NEW k \in I
      PROVE  cs[k] \in Clip /\ ((Sane(doc) /\ InRange(board)) => InSource(cs[k]))
  <2>1. CASE k \in Ids
    BY <1>1, <1>5, <2>1
  <2>2. CASE k \notin Ids
    <3> DEFINE i == Of(k)
    <3>1. i \in S /\ i \in DOMAIN board /\ row[i] \in Nat
      BY <1>3, <2>2
    <3>2. cs[k] = [PasteCopy(i, f) EXCEPT !.row = row[i]]
      BY <1>2, <2>2
    <3> HIDE DEF i
    <3> QED BY <3>1, <3>2, PasteCopyIs
  <2> QED BY <2>1, <2>2
<1>7. cs \in [I -> Clip]
  <2>1. cs = [k \in I |-> cs[k]]
    BY <1>2
  <2> HIDE DEF I
  <2> QED BY <1>6, <2>1
<1>8. I \in SUBSET (Nat \ {0}) /\ IsFiniteSet(I)
  <2>1. \A k \in I : k \in Nat /\ k # 0
    BY <1>1, <1>3
  <2>2. IsFiniteSet(I)
    BY <1>1, <1>4, FS_Union
  <2> QED BY <2>1, <2>2
<1>9. cs \in Layouts
  <2> HIDE DEF I
  <2> QED BY <1>7, <1>8, IsLayout
<1>10. Below(cs, m)
  BY <1>1, <1>3, <1>5 DEF Below
<1>11. (Sane(doc) /\ InRange(board)) => InRange(cs)
  BY <1>5, <1>6 DEF InRange, InSource
<1>12. Ids \subseteq DOMAIN cs
  BY <1>5
<1> QED BY <1>5, <1>9, <1>10, <1>11, <1>12 DEF cs

\* Only the rows of those that are there count.
LEMMA CopiesSame ==
    ASSUME NEW S, NEW p, NEW q, \A i \in S : p[i] = q[i], NEW f
    PROVE  WithCopies(S, p, f) = WithCopies(S, q, f)
<1> DEFINE N == {PasteId(i) : i \in S}
           I == Ids \cup N
           Of(k) == CHOOSE i \in S : PasteId(i) = k
           Clips(r) == [k \in I |-> IF k \in Ids THEN doc.clips[k]
                                    ELSE [PasteCopy(Of(k), f) EXCEPT !.row = r[Of(k)]]]
<1>1. WithCopies(S, p, f) = Clips(p) /\ WithCopies(S, q, f) = Clips(q)
  BY DEF WithCopies
<1>2. ASSUME NEW k \in I, k \notin Ids PROVE p[Of(k)] = q[Of(k)]
  <2>1. \E i \in S : PasteId(i) = k
    BY <1>2
  <2>2. Of(k) \in S
    BY <2>1
  <2> HIDE DEF Of
  <2> QED BY <2>2
<1>3. \A k \in I : Clips(p)[k] = Clips(q)[k]
  <2> HIDE DEF I, Of
  <2> QED BY <1>2
<1>4. Clips(p) = Clips(q)
  <2>1. Clips(p) = [k \in I |-> Clips(p)[k]] /\ Clips(q) = [k \in I |-> Clips(q)[k]]
    <3> HIDE DEF I, Of
    <3> QED OBVIOUS
  <2> HIDE DEF Clips, I
  <2> QED BY <1>3, <2>1
<1> QED BY <1>1, <1>4

\* Each copy gets a row, the first one free beside those pasted before it.
LEMMA PasteRowsAre ==
    ASSUME next \in Nat \ {0}, doc \in Docs(next), board \in Layouts, NEW f \in Nat
    PROVE  LET Row == PasteRows(f)
           IN \A i \in DOMAIN board :
                 /\ Row[i] \in Nat
                 /\ Row[i] = FreeRow(WithCopies(Before(i), Row, f), PasteCopy(i, f))
<1> DEFINE B == DOMAIN board
           before == [i \in B |-> Before(i)]
           Free(p, i) == FreeRow(WithCopies(Before(i), p, f), PasteCopy(i, f))
           g == [i \in B |-> [p \in [B -> Nat] |-> Free(p, i)]]
           Row == PasteRows(f)
<1>1. Ranked(B, before) /\ \A i \in B : Before(i) \subseteq B
  BY BoardIs
<1>2. ASSUME NEW i \in B, NEW p, \A j \in before[i] : p[j] \in Nat PROVE Free(p, i) \in Nat
  <2>1. Before(i) \in SUBSET B /\ \A j \in Before(i) : p[j] \in Nat
    BY <1>1, <1>2
  <2>2. WithCopies(Before(i), p, f) \in Layouts
    BY <2>1, WithCopiesIs
  <2>3. PasteCopy(i, f) \in Clip
    <3>1. 0 \in Nat
      OBVIOUS
    <3> QED BY <3>1, PasteCopyIs
  <2> QED BY <2>2, <2>3, FreeRowIs
<1>3. \E p \in [B -> Nat] : \A i \in B : p[i] = g[i][p]
  <2> DEFINE V == Nat
             v == 0
  <2>1. v \in V
    OBVIOUS
  <2>2. g \in [B -> [[B -> V] -> V]]
    <3>1. \A i \in B : \A p \in [B -> Nat] : Free(p, i) \in Nat
      <4> SUFFICES ASSUME NEW i \in B, NEW p \in [B -> Nat] PROVE Free(p, i) \in Nat
        OBVIOUS
      <4>1. \A j \in before[i] : p[j] \in Nat
        BY <1>1
      <4> HIDE DEF Free, before, B
      <4> QED BY <1>2, <4>1
    <3> HIDE DEF Free, B
    <3> QED BY <3>1
  <2>3. ASSUME NEW i \in B, NEW p \in [B -> V], NEW q \in [B -> V],
               \A j \in before[i] : p[j] = q[j]
        PROVE  g[i][p] = g[i][q]
    <3>1. \A j \in Before(i) : p[j] = q[j]
      BY <2>3
    <3>2. Free(p, i) = Free(q, i)
      BY <3>1, CopiesSame
    <3>3. g[i][p] = Free(p, i) /\ g[i][q] = Free(q, i)
      <4> HIDE DEF Free, B
      <4> QED OBVIOUS
    <3> HIDE DEF g, Free
    <3> QED BY <3>2, <3>3
  <2> HIDE DEF g, before, B, V, v
  <2>4. LooksBack(B, V, before, g)
    BY <2>2, <2>3 DEF LooksBack
  <2>5. \E p \in [B -> V] : \A i \in B : p[i] = g[i][p]
    BY <1>1, <2>1, <2>4, OrderedRecursion
  <2> QED BY <2>5 DEF V
<1>4. \E p : p = [i \in B |-> Free(p, i)]
  <2>1. PICK p \in [B -> Nat] : \A i \in B : p[i] = g[i][p]
    BY <1>3
  <2>2. \A i \in B : p[i] = Free(p, i)
    <3> HIDE DEF Free, B
    <3> QED BY <2>1
  <2> HIDE DEF Free, B
  <2>3. p = [i \in B |-> Free(p, i)]
    BY <2>2
  <2> QED BY <2>3
<1>5. Row = [i \in B |-> Free(Row, i)]
  BY <1>4 DEF PasteRows
<1>6. {i \in B : Row[i] \in Nat} = B
  <2> DEFINE T == {i \in B : Row[i] \in Nat}
  <2>1. \A i \in B : before[i] \subseteq T => i \in T
    <3> SUFFICES ASSUME NEW i \in B, before[i] \subseteq T PROVE Row[i] \in Nat
      OBVIOUS
    <3>1. Free(Row, i) \in Nat
      <4>1. \A j \in before[i] : Row[j] \in Nat
        OBVIOUS
      <4> HIDE DEF Row, Free, before, B
      <4> QED BY <1>2, <4>1
    <3> HIDE DEF Free, Row, B
    <3> QED BY <1>5, <3>1
  <2>2. T \in SUBSET B
    OBVIOUS
  <2> HIDE DEF T, before, B
  <2>3. T = B
    BY <1>1, <2>1, <2>2, OrderedInduction
  <2> QED BY <2>3 DEF T
<1> HIDE DEF Row
<1>7. \A i \in B : Row[i] = Free(Row, i)
  <2> HIDE DEF Free, B
  <2> QED BY <1>5
<1> QED BY <1>6, <1>7 DEF Row

\* pasteClips().
LEMMA PasteEdits ==
    ASSUME next \in Nat \ {0}, doc \in Docs(next), board \in Layouts, NEW f \in Nat
    PROVE  LET d == [doc EXCEPT !.clips = WithCopies(DOMAIN board, PasteRows(f), f)]
               n == next + Cardinality(DOMAIN board)
           IN /\ d \in Docs(n) /\ PairsKept(d.clips) /\ (InRange(board) => Edited(d, n))
              /\ Cardinality(DOMAIN board) \in Nat
<1> DEFINE cs == WithCopies(DOMAIN board, PasteRows(f), f)
           n == next + Cardinality(DOMAIN board)
           d == [doc EXCEPT !.clips = cs]
<1>1. Cardinality(DOMAIN board) \in Nat /\ DOMAIN board \in SUBSET DOMAIN board
  BY BoardIs
<1>2. \A i \in DOMAIN board : PasteRows(f)[i] \in Nat
  BY PasteRowsAre
<1>3. /\ cs \in Layouts /\ Below(cs, n)
      /\ Ids \subseteq DOMAIN cs /\ \A k \in Ids : cs[k] = doc.clips[k]
      /\ (Sane(doc) /\ InRange(board)) => InRange(cs)
  BY <1>1, <1>2, WithCopiesIs
<1> HIDE DEF cs, n
<1>4. Ids = DOMAIN doc.clips /\ doc.trans \in SUBSET Dissolve
  BY DocIs DEF Ids
<1>5. d = [clips |-> cs, trans |-> doc.trans]
  BY HereIs
<1>6. [clips |-> cs, trans |-> doc.trans] \in Docs(n)
  BY <1>3, <1>4, IsDocument
<1>s. Still(cs) /\ PairsKept(cs)
  <2>1. Still(cs)
    BY <1>3, <1>4 DEF Still
  <2> QED BY <2>1, StillKeeps
<1>7. ASSUME InRange(board) PROVE Edited([clips |-> cs, trans |-> doc.trans], n)
  <2>1. Sane(doc) => InRange(cs)
    BY <1>3, <1>7
  <2>2. DOMAIN doc.clips \subseteq DOMAIN cs
    BY <1>3, <1>4
  <2>3. \A i \in DOMAIN doc.clips :
              /\ cs[i].start = doc.clips[i].start /\ cs[i].dur = doc.clips[i].dur
              /\ cs[i].src = doc.clips[i].src /\ cs[i].audio = doc.clips[i].audio
    BY <1>3, <1>4
  <2>4. \A i, j \in DOMAIN doc.clips :
              doc.clips[i].row = doc.clips[j].row => cs[i].row = cs[j].row
    BY <1>3, <1>4
  <2> QED BY <1>3, <1>s, <2>1, <2>2, <2>3, <2>4, KeptEdit
<1> HIDE DEF d
<1>8. d \in Docs(n) /\ PairsKept(d.clips) /\ (InRange(board) => Edited(d, n))
  BY <1>5, <1>6, <1>7, <1>s
<1> QED BY <1>1, <1>8 DEF d, cs, n

----------------------------------------------------------------------------
(* Cutting.                                                                *)

\* splitClipAt().
LEMMA RazorEdits ==
    ASSUME next \in Nat \ {0}, doc \in Docs(next), NEW f \in Nat, NEW cut \in SUBSET Ids,
           \A k \in cut : doc.clips[k].start < f /\ f < End(doc.clips[k])
    PROVE  /\ Edited([clips |-> CutAt(cut, f), trans |-> Prune(CutAt(cut, f), doc.trans)],
                     next + Cardinality(cut))
           /\ Cardinality(cut) \in Nat
<1> DEFINE N == TailIds(next, cut)
           I == Ids \cup N
           Parent(k) == IF From(doc.clips[k], f).parent \in cut
                        THEN TailOf(From(doc.clips[k], f).parent, next, cut)
                        ELSE From(doc.clips[k], f).parent
           TailAt(k) == [From(doc.clips[k], f) EXCEPT !.parent = Parent(k)]
           cs == CutAt(cut, f)
           m == next + Cardinality(cut)
<1>1. /\ doc.clips \in Layouts /\ IsFiniteSet(Ids) /\ Ids = DOMAIN doc.clips
      /\ \A i \in Ids : /\ i \in Nat /\ i # 0 /\ i < next /\ doc.clips[i] \in Clip
                        /\ Sane(doc) => InSource(doc.clips[i])
  BY HereIs
<1>2. IsFiniteSet(cut) /\ cut \subseteq Nat
  BY <1>1, FS_Subset
<1>3. /\ \A j \in cut : TailOf(j, next, cut) \in Nat
      /\ IsFiniteSet(N) /\ Cardinality(cut) \in Nat
      /\ \A k \in N : MadeOf(k, next, cut) \in cut /\ k \in Nat /\ k >= next /\ k < m
  BY <1>2, TailsNew
<1>4. ASSUME NEW k \in cut
      PROVE  /\ UpTo(doc.clips[k], f) \in Clip /\ (Sane(doc) => InSource(UpTo(doc.clips[k], f)))
             /\ TailAt(k) \in Clip /\ (Sane(doc) => InSource(TailAt(k)))
  <2> DEFINE c == doc.clips[k]
             t == From(c, f)
             p == IF t.parent \in cut THEN TailOf(t.parent, next, cut) ELSE t.parent
             d == [t EXCEPT !.parent = p]
  <2>1. c \in Clip /\ (Sane(doc) => InSource(c)) /\ c.start < f /\ f < End(c) /\ c.start \in Nat
    BY <1>1, <1>4, ClipIs
  <2>2. c.start <= f
    BY <2>1
  <2> HIDE DEF c
  <2>3. /\ t \in Clip /\ (InSource(c) => InSource(t))
        /\ UpTo(c, f) \in Clip /\ (InSource(c) => InSource(UpTo(c, f)))
    BY <2>1, <2>2, PartsOf
  <2> HIDE DEF t
  <2>4. p \in Nat /\ (t.audio \/ p = 0)
    <3>1. (t.audio \/ t.parent = 0) /\ 0 \notin cut
      BY <1>1, <2>3 DEF Clip
    <3> QED BY <1>3, <2>3, <3>1, ClipIs
  <2> HIDE DEF p
  <2>5. d \in Clip /\ d.src = t.src /\ d.dur = t.dur /\ d.audio = t.audio
    BY <2>3, <2>4 DEF Clip
  <2>6. SourceFrames(d) = SourceFrames(t)
    BY <2>5 DEF SourceFrames
  <2> HIDE DEF d
  <2>7. InSource(t) => InSource(d)
    BY <2>5, <2>6 DEF InSource
  <2> QED BY <2>1, <2>3, <2>5, <2>7 DEF c, t, p, d
<1>5. cs = [k \in I |-> IF k \in cut THEN UpTo(doc.clips[k], f)
                        ELSE IF k \in Ids THEN doc.clips[k]
                        ELSE TailAt(MadeOf(k, next, cut))]
  BY DEF CutAt
<1> HIDE DEF cs, TailAt, N
<1>6. DOMAIN cs = I
  BY <1>5
<1>7. ASSUME NEW k \in I PROVE cs[k] \in Clip /\ (Sane(doc) => InSource(cs[k]))
  <2>1. CASE k \in cut
    BY <1>4, <1>5, <2>1
  <2>2. CASE k \notin cut /\ k \in Ids
    BY <1>1, <1>5, <2>2
  <2>3. CASE k \notin cut /\ k \notin Ids
    BY <1>3, <1>4, <1>5, <2>3
  <2> QED BY <2>1, <2>2, <2>3
<1>8. cs \in [I -> Clip]
  <2>1. cs = [k \in I |-> cs[k]]
    BY <1>5
  <2> HIDE DEF I
  <2> QED BY <1>7, <2>1
<1>9. I \in SUBSET (Nat \ {0}) /\ IsFiniteSet(I)
  <2>1. \A k \in I : k \in Nat /\ k # 0
    BY <1>1, <1>3
  <2>2. IsFiniteSet(I)
    BY <1>1, <1>3, FS_Union
  <2> QED BY <2>1, <2>2
<1>10. cs \in Layouts
  <2> HIDE DEF I
  <2> QED BY <1>8, <1>9, IsLayout
<1>11. Below(cs, m)
  BY <1>1, <1>3, <1>6 DEF Below
<1>12. Sane(doc) => InRange(cs)
  BY <1>6, <1>7 DEF InRange, InSource
<1>s. Still(cs)
  <2>1. ASSUME NEW k \in Ids
        PROVE  cs[k].start = doc.clips[k].start /\ cs[k].off = doc.clips[k].off
    <3>1. CASE k \in cut
      <4>1. doc.clips[k] \in Clip /\ cs[k] = UpTo(doc.clips[k], f)
        BY <1>1, <1>5, <3>1
      <4> QED BY <4>1 DEF UpTo, Clip
    <3>2. CASE k \notin cut
      BY <1>5, <3>2
    <3> QED BY <3>1, <3>2
  <2> QED BY <1>1, <2>1 DEF Still
<1>p. PairsKept(cs)
  BY <1>s, StillKeeps
<1>13. Edited([clips |-> cs, trans |-> Prune(cs, doc.trans)], m)
  BY <1>10, <1>11, <1>12, <1>p, PrunedEdit
<1> QED BY <1>3, <1>13 DEF cs

\* Fewer clips make a layout.
LEMMA WithoutIs ==
    ASSUME NEW cs \in Layouts, NEW S
    PROVE  /\ Without(cs, S) \in Layouts /\ DOMAIN Without(cs, S) = DOMAIN cs \ S
           /\ \A i \in DOMAIN cs \ S : Without(cs, S)[i] = cs[i]
           /\ InRange(cs) => InRange(Without(cs, S))
           /\ \A n : Below(cs, n) => Below(Without(cs, S), n)
<1> DEFINE D == DOMAIN cs \ S
           ds == Without(cs, S)
<1>1. ds = [i \in D |-> cs[i]]
  BY DEF Without
<1> HIDE DEF ds
<1>2. D \in SUBSET (Nat \ {0}) /\ IsFiniteSet(D) /\ \A i \in D : cs[i] \in Clip
  BY LayoutIs, FS_Subset
<1>3. ds \in [D -> Clip]
  BY <1>1, <1>2
<1>4. ds \in Layouts /\ DOMAIN ds = D
  BY <1>2, <1>3, IsLayout
<1>5. InRange(cs) => InRange(ds)
  BY <1>1, <1>4 DEF InRange
<1>6. \A n : Below(cs, n) => Below(ds, n)
  BY <1>4 DEF Below
<1> QED BY <1>1, <1>4, <1>5, <1>6 DEF ds

\* deleteSelectedClip().
LEMMA DeleteEdits ==
    ASSUME NEW n, doc \in Docs(n), NEW S
    PROVE  Edited([clips |-> Without(doc.clips, S), trans |-> Prune(Without(doc.clips, S), doc.trans)], n)
<1>1. doc.clips \in Layouts /\ Below(doc.clips, n)
  BY DocIs
<1>2. /\ Without(doc.clips, S) \in Layouts /\ Below(Without(doc.clips, S), n)
      /\ Sane(doc) => InRange(Without(doc.clips, S))
  BY <1>1, WithoutIs DEF Sane
<1> DEFINE cs == Without(doc.clips, S)
<1>3. Still(cs)
  <2>1. DOMAIN cs = DOMAIN doc.clips \ S /\ \A i \in DOMAIN doc.clips \ S : cs[i] = doc.clips[i]
    BY <1>1, WithoutIs
  <2> HIDE DEF cs
  <2> QED BY <2>1 DEF Still
<1>4. PairsKept(Without(doc.clips, S))
  BY <1>3, StillKeeps
<1> QED BY <1>2, <1>4, PrunedEdit

\* Clips that are given other rows and starts.
MovedTo(cs, row, start) ==
    [i \in DOMAIN cs |-> [cs[i] EXCEPT !.row = row[i], !.start = start[i]]]

LEMMA MovedIs ==
    ASSUME NEW cs \in Layouts, NEW row, NEW start, NEW ds, ds = MovedTo(cs, row, start),
           \A i \in DOMAIN cs : row[i] \in Nat /\ start[i] \in Nat
    PROVE  /\ ds \in Layouts /\ DOMAIN ds = DOMAIN cs /\ (InRange(cs) => InRange(ds))
           /\ \A i \in DOMAIN cs :
                 /\ ds[i].row = row[i] /\ ds[i].start = start[i] /\ ds[i].audio = cs[i].audio
                 /\ ds[i].dur = cs[i].dur /\ ds[i].src = cs[i].src
                 /\ ds[i].parent = cs[i].parent /\ ds[i].off = cs[i].off
<1>1. \A i \in DOMAIN cs : cs[i] \in Clip /\ i \in Nat \ {0}
  BY LayoutIs
<1>2. ASSUME NEW i \in DOMAIN cs
      PROVE  /\ ds[i] \in Clip
             /\ ds[i].row = row[i] /\ ds[i].start = start[i] /\ ds[i].audio = cs[i].audio
             /\ ds[i].dur = cs[i].dur /\ ds[i].src = cs[i].src
             /\ ds[i].parent = cs[i].parent /\ ds[i].off = cs[i].off
  <2>1. ds[i] = [cs[i] EXCEPT !.row = row[i], !.start = start[i]] /\ cs[i] \in Clip
    BY <1>1 DEF MovedTo
  <2> QED BY <2>1 DEF Clip
<1>3. ds \in [DOMAIN cs -> Clip]
  <2>1. ds = [i \in DOMAIN cs |-> ds[i]]
    BY DEF MovedTo
  <2> QED BY <1>2, <2>1
<1>4. ds \in Layouts /\ DOMAIN ds = DOMAIN cs
  BY <1>1, <1>3, LayoutIs, IsLayout
<1>5. InRange(cs) => InRange(ds)
  <2>1. ASSUME InRange(cs), NEW i \in DOMAIN ds PROVE ds[i].src + ds[i].dur <= SourceFrames(ds[i])
    <3>1. ds[i].audio = cs[i].audio /\ ds[i].src = cs[i].src /\ ds[i].dur = cs[i].dur
      BY <1>2, <1>4
    <3>2. SourceFrames(ds[i]) = SourceFrames(cs[i])
      BY <3>1 DEF SourceFrames
    <3>3. cs[i].src + cs[i].dur <= SourceFrames(cs[i])
      BY <1>4, <2>1 DEF InRange
    <3> QED BY <3>1, <3>2, <3>3
  <2> QED BY <2>1 DEF InRange
<1> QED BY <1>2, <1>4, <1>5

\* deleteSelectedGap().
LEMMA CloseEdits ==
    ASSUME NEW n, doc \in Docs(n), NEW from \in Nat, NEW to \in Nat
    PROVE  LET moved == [i \in Ids |-> IF doc.clips[i].start >= to
                                       THEN [doc.clips[i] EXCEPT !.start = @ - (to - from)]
                                       ELSE doc.clips[i]]
               clips == Resync(moved)
               d == [clips |-> clips, trans |-> Prune(clips, doc.trans)]
           IN Edited(d, n) /\ Matches(doc, d, {})
<1> DEFINE old == doc.clips
           moved == [i \in Ids |-> IF old[i].start >= to
                                   THEN [old[i] EXCEPT !.start = @ - (to - from)] ELSE old[i]]
           cs == Resync(moved)
           d == [clips |-> cs, trans |-> Prune(cs, doc.trans)]
<1>1. old \in Layouts /\ Ids = DOMAIN old /\ Below(old, n) /\ \A i \in Ids : old[i] \in Clip
  BY HereIs, DocIs
<1>2. ASSUME NEW i \in Ids PROVE \E x \in Nat : moved[i] = [old[i] EXCEPT !.start = x]
  <2>1. old[i] \in Clip /\ old[i].start \in Nat
    BY <1>1, ClipIs
  <2>2. CASE old[i].start >= to
    <3> DEFINE x == old[i].start - (to - from)
    <3>1. x \in Nat
      BY <2>1, <2>2
    <3>2. moved[i] = [old[i] EXCEPT !.start = x]
      BY <2>1, <2>2 DEF Clip
    <3> HIDE DEF x, moved
    <3> QED BY <3>1, <3>2
  <2>3. CASE ~(old[i].start >= to)
    <3>1. moved[i] = old[i]
      BY <2>3
    <3> HIDE DEF moved
    <3> QED BY <2>1, <3>1, SameStart
  <2> QED BY <2>2, <2>3
<1>3. moved \in [DOMAIN old -> {moved[i] : i \in Ids}]
  BY <1>1
<1> HIDE DEF moved
<1>4. Retimed(old, moved)
  BY <1>1, <1>2, <1>3, IsRetimed, ZenonT(30)
<1>5. Retimed(moved, cs)
  <2>1. moved \in Layouts
    BY <1>4 DEF Retimed
  <2> QED BY <2>1, ResyncRetimes
<1>p. PairsKept(cs)
  <2>1. moved \in Layouts
    BY <1>4 DEF Retimed
  <2> QED BY <2>1, ResyncKeeps
<1> HIDE DEF cs
<1>6. Retimed(old, cs)
  BY <1>1, <1>4, <1>5, RetimedTwice
<1>7. cs \in Layouts /\ DOMAIN cs = Ids
  BY <1>1, <1>6 DEF Retimed
<1>8. /\ \A i \in DOMAIN old : /\ cs[i].audio = old[i].audio /\ cs[i].dur = old[i].dur
                               /\ cs[i].src = old[i].src /\ cs[i].parent = old[i].parent
                               /\ cs[i].off = old[i].off
      /\ InRange(old) => InRange(cs)
  BY <1>1, <1>6, RetimedSame
<1>9. Edited(d, n)
  <2>1. Below(cs, n) /\ (Sane(doc) => InRange(cs))
    BY <1>1, <1>7, <1>8 DEF Below, Sane
  <2> QED BY <1>7, <1>p, <2>1, PrunedEdit
<1>10. Matches(doc, d, {})
  BY <1>1, <1>7, <1>8 DEF Matches
<1> QED BY <1>9, <1>10 DEF cs, moved

\* The dissolves alone.
LEMMA TransEdits ==
    ASSUME NEW n, doc \in Docs(n), NEW tr \in SUBSET Dissolve,
           Sane(doc) => CutsLegal([clips |-> doc.clips, trans |-> tr])
    PROVE  Edited([doc EXCEPT !.trans = tr], n)
<1>1. /\ doc.clips \in Layouts /\ Below(doc.clips, n)
      /\ doc = [clips |-> doc.clips, trans |-> doc.trans]
  BY DocIs
<1>2. [doc EXCEPT !.trans = tr] = [clips |-> doc.clips, trans |-> tr]
  BY <1>1
<1>3. [clips |-> doc.clips, trans |-> tr] \in Docs(n)
  BY <1>1, IsDocument
<1>4. ASSUME Sane(doc) PROVE Sane([clips |-> doc.clips, trans |-> tr])
  BY <1>4 DEF Sane
<1>5. PairsKept(doc.clips)
  BY DEF PairsKept
<1> QED BY <1>2, <1>3, <1>4, <1>5 DEF Edited

\* addDissolveAtClipOut().
LEMMA DissolveEdits ==
    ASSUME NEW n, doc \in Docs(n), NEW i \in Ids, NEW j \in Ids,
           doc.clips[i].row = doc.clips[j].row, ~doc.clips[i].audio, ~doc.clips[j].audio,
           doc.clips[j].start = End(doc.clips[i]),
           \A u \in doc.trans : <<u.a, u.b>> # <<i, j>>
    PROVE  LET a == doc.clips[i]
               b == doc.clips[j]
               t == [a |-> i, b |-> j, in |-> AtMost(DissolveWant \div 2, MaxIn(a, b)),
                     out |-> AtMost(DissolveWant - DissolveWant \div 2, MaxOut(a, b))]
           IN t.in + t.out > 0 => Edited([doc EXCEPT !.trans = @ \cup {t}], n)
<1> DEFINE a == doc.clips[i]
           b == doc.clips[j]
           x == DissolveWant \div 2
           y == DissolveWant - DissolveWant \div 2
           t == [a |-> i, b |-> j, in |-> AtMost(x, MaxIn(a, b)), out |-> AtMost(y, MaxOut(a, b))]
           tr == doc.trans \cup {t}
<1>1. /\ doc.clips \in Layouts /\ Ids = DOMAIN doc.clips /\ a \in Clip /\ b \in Clip
      /\ doc.trans \in SUBSET Dissolve /\ i \in Nat /\ j \in Nat
      /\ doc = [clips |-> doc.clips, trans |-> doc.trans]
  BY HereIs
<1>2. MaxIn(a, b) \in Nat /\ MaxOut(a, b) \in Nat
  BY <1>1, LimitsNat
<1>3. x \in Nat /\ y \in Nat
  BY TimelineAssumption
<1> HIDE DEF x, y
<1>4. /\ AtMost(x, MaxIn(a, b)) \in Nat /\ AtMost(x, MaxIn(a, b)) <= MaxIn(a, b)
      /\ AtMost(y, MaxOut(a, b)) \in Nat /\ AtMost(y, MaxOut(a, b)) <= MaxOut(a, b)
  BY <1>2, <1>3 DEF AtMost
<1>5. /\ t \in Dissolve /\ t.a = i /\ t.b = j
      /\ t.in \in Nat /\ t.in <= MaxIn(a, b) /\ t.out \in Nat /\ t.out <= MaxOut(a, b)
  BY <1>1, <1>4 DEF Dissolve
<1> HIDE DEF t
<1>6. ASSUME t.in + t.out > 0 PROVE Edited([doc EXCEPT !.trans = tr], n)
  <2>1. Live(doc.clips, t)
    BY <1>1, <1>5, <1>6 DEF Live
  <2>2. Shortened(doc.clips, t) = t
    <3>1. AtMost(t.in, MaxIn(a, b)) = t.in /\ AtMost(t.out, MaxOut(a, b)) = t.out
      BY <1>2, <1>5 DEF AtMost
    <3> HIDE DEF a, b
    <3>2. Shortened(doc.clips, t) = [t EXCEPT !.in = AtMost(t.in, MaxIn(a, b)),
                                              !.out = AtMost(t.out, MaxOut(a, b))]
      BY <1>5 DEF Shortened, Dissolve, a, b
    <3> QED BY <1>5, <3>1, <3>2 DEF Dissolve
  <2>3. tr \in SUBSET Dissolve
    BY <1>1, <1>5
  <2>4. ASSUME Sane(doc) PROVE CutsLegal([clips |-> doc.clips, trans |-> tr])
    <3>1. CutsLegal([clips |-> doc.clips, trans |-> doc.trans])
      BY <1>1, <2>4 DEF Sane
    <3>2. /\ \A u \in doc.trans : Live(doc.clips, u) /\ Shortened(doc.clips, u) = u
          /\ OnePerCut(doc.trans)
      BY <3>1, LegalIs
    <3>3. \A u \in doc.trans : <<u.a, u.b>> # <<t.a, t.b>>
      BY <1>5
    <3>4. OnePerCut(tr)
      BY <3>2, <3>3 DEF OnePerCut
    <3>5. \A u \in tr : Live(doc.clips, u) /\ Shortened(doc.clips, u) = u
      BY <2>1, <2>2, <3>2
    <3> HIDE DEF tr
    <3> QED BY <3>4, <3>5, LegalIs
  <2> HIDE DEF tr
  <2> QED BY <2>3, <2>4, TransEdits
<1> QED BY <1>6 DEF t, x, y

\* Deleting one.
LEMMA UndissolveEdits ==
    ASSUME NEW n, doc \in Docs(n), NEW t
    PROVE  Edited([doc EXCEPT !.trans = @ \ {t}], n)
<1> DEFINE tr == doc.trans \ {t}
<1>1. /\ doc = [clips |-> doc.clips, trans |-> doc.trans] /\ tr \in SUBSET Dissolve
  BY DocIs
<1>2. ASSUME Sane(doc) PROVE CutsLegal([clips |-> doc.clips, trans |-> tr])
  <2>1. CutsLegal([clips |-> doc.clips, trans |-> doc.trans])
    BY <1>1, <1>2 DEF Sane
  <2>2. /\ \A u \in doc.trans : Live(doc.clips, u) /\ Shortened(doc.clips, u) = u
        /\ OnePerCut(doc.trans)
    BY <2>1, LegalIs
  <2>3. OnePerCut(tr) /\ \A u \in tr : Live(doc.clips, u) /\ Shortened(doc.clips, u) = u
    BY <2>2 DEF OnePerCut
  <2> HIDE DEF tr
  <2> QED BY <2>3, LegalIs
<1>3. [doc EXCEPT !.trans = @ \ {t}] = [doc EXCEPT !.trans = tr]
  BY <1>1
<1> HIDE DEF tr
<1> QED BY <1>1, <1>2, <1>3, TransEdits

\* commitTransitionResize().
LEMMA ResizeEdits ==
    ASSUME NEW n, doc \in Docs(n), NEW t \in doc.trans, NEW f \in Nat, Live(doc.clips, t),
           NEW u \in {[t EXCEPT !.in  = Clamp(End(doc.clips[t.a]) - f, 0,
                                              MaxIn(doc.clips[t.a], doc.clips[t.b]))],
                      [t EXCEPT !.out = Clamp(f - End(doc.clips[t.a]), 0,
                                              MaxOut(doc.clips[t.a], doc.clips[t.b]))]}
    PROVE  Edited([doc EXCEPT !.trans = Prune(doc.clips, (@ \ {t}) \cup {u})], n)
<1> DEFINE a == doc.clips[t.a]
           b == doc.clips[t.b]
           tr == (doc.trans \ {t}) \cup {u}
           new == Prune(doc.clips, tr)
<1>1. /\ doc.clips \in Layouts /\ doc.trans \in SUBSET Dissolve /\ t \in Dissolve
      /\ doc = [clips |-> doc.clips, trans |-> doc.trans]
      /\ a \in Clip /\ b \in Clip
  BY DocIs, LayoutIs DEF Live
<1>2. MaxIn(a, b) \in Nat /\ MaxOut(a, b) \in Nat /\ End(a) \in Nat
  BY <1>1, LimitsNat, ClipIs
<1>3. Clamp(End(a) - f, 0, MaxIn(a, b)) \in Nat /\ Clamp(f - End(a), 0, MaxOut(a, b)) \in Nat
  BY <1>2 DEF Clamp, AtLeast, AtMost
<1>4. u \in Dissolve /\ u.a = t.a /\ u.b = t.b
  <2> HIDE DEF a, b
  <2>1. u \in {[t EXCEPT !.in = Clamp(End(a) - f, 0, MaxIn(a, b))],
               [t EXCEPT !.out = Clamp(f - End(a), 0, MaxOut(a, b))]}
    BY DEF a, b
  <2> DEFINE x == Clamp(End(a) - f, 0, MaxIn(a, b))
             y == Clamp(f - End(a), 0, MaxOut(a, b))
  <2> HIDE DEF x, y
  <2>2. u = [t EXCEPT !.in = x] \/ u = [t EXCEPT !.out = y]
    BY <2>1 DEF x, y
  <2>3. x \in Nat /\ y \in Nat
    BY <1>3 DEF x, y
  <2> QED BY <1>1, <2>2, <2>3 DEF Dissolve
<1>5. tr \in SUBSET Dissolve
  BY <1>1, <1>4
<1>6. new \in SUBSET Dissolve
  <2> HIDE DEF tr
  <2> QED BY <1>1, <1>5, PruneTyped
<1>7. ASSUME Sane(doc) PROVE CutsLegal([clips |-> doc.clips, trans |-> new])
  <2>1. OnePerCut(doc.trans)
    BY <1>7 DEF Sane, CutsLegal, OnePerCut
  <2>2. OnePerCut(tr)
    BY <1>4, <2>1 DEF OnePerCut
  <2> HIDE DEF tr
  <2> QED BY <1>1, <1>5, <2>2, PruneLegal
<1>8. [doc EXCEPT !.trans = Prune(doc.clips, (@ \ {t}) \cup {u})] = [doc EXCEPT !.trans = new]
  BY <1>1
<1> HIDE DEF new
<1> QED BY <1>6, <1>7, <1>8, TransEdits

\* Offsets for the sounds of S to follow clip p, from where they are.
Offsets(off, S, p) ==
    \A i \in Ids \cap S :
        /\ off[i] \in Int /\ (p = 0 \/ doc.clips[i].audio)
        /\ p \in Ids => off[i] = doc.clips[i].start - doc.clips[p].start

\* An edit that leaves the dissolves and sets links.
LEMMA LinkedEdits ==
    ASSUME NEW n, doc \in Docs(n), NEW S, NEW p \in Nat, NEW off, Offsets(off, S, p)
    PROVE  LET cs == [i \in Ids |-> IF i \in S THEN [doc.clips[i] EXCEPT !.parent = p, !.off = off[i]]
                                    ELSE doc.clips[i]]
           IN Edited([clips |-> cs, trans |-> doc.trans], n)
<1> DEFINE old == doc.clips
           cs == [i \in Ids |-> IF i \in S THEN [old[i] EXCEPT !.parent = p, !.off = off[i]]
                                ELSE old[i]]
<1>1. /\ old \in Layouts /\ Ids = DOMAIN old /\ Below(old, n) /\ IsFiniteSet(Ids)
      /\ \A i \in Ids : old[i] \in Clip /\ i \in Nat /\ i # 0
  BY HereIs, DocIs
<1>2. ASSUME NEW i \in Ids
      PROVE  /\ cs[i] \in Clip /\ cs[i].start = old[i].start /\ cs[i].dur = old[i].dur
             /\ cs[i].src = old[i].src /\ cs[i].audio = old[i].audio /\ cs[i].row = old[i].row
             /\ \/ cs[i].off = old[i].off
                \/ cs[i].parent = p /\ (p \in Ids => cs[i].off = old[i].start - old[p].start)
  <2>1. old[i] \in Clip
    BY <1>1
  <2>2. CASE i \in S
    <3>1. /\ off[i] \in Int /\ cs[i] = [old[i] EXCEPT !.parent = p, !.off = off[i]]
          /\ p \in Ids => off[i] = old[i].start - old[p].start
          /\ p = 0 \/ old[i].audio
      BY <2>2 DEF Offsets
    <3> HIDE DEF cs, old
    <3> QED BY <2>1, <3>1, ZenonT(30) DEF Clip
  <2>3. CASE i \notin S
    BY <2>1, <2>3
  <2> QED BY <2>2, <2>3
<1>3. cs \in [Ids -> Clip]
  <2>1. cs = [i \in Ids |-> cs[i]]
    OBVIOUS
  <2> HIDE DEF cs
  <2> QED BY <1>2, <2>1
<1> HIDE DEF cs
<1>4. cs \in Layouts /\ DOMAIN cs = Ids
  <2>1. Ids \in SUBSET (Nat \ {0})
    BY <1>1
  <2> QED BY <1>1, <1>3, <2>1, IsLayout
<1>5. Below(cs, n)
  BY <1>1, <1>4 DEF Below
<1>6. ASSUME Sane(doc) PROVE InRange(cs)
  <2>1. InRange(old)
    BY <1>6 DEF Sane
  <2>2. \A i \in Ids : SourceFrames(cs[i]) = SourceFrames(old[i])
    BY <1>2 DEF SourceFrames
  <2> QED BY <1>1, <1>2, <1>4, <2>1, <2>2 DEF InRange
<1>7. \A i, j \in DOMAIN doc.clips : doc.clips[i].row = doc.clips[j].row => cs[i].row = cs[j].row
  BY <1>1, <1>2
<1>8. \A i \in DOMAIN doc.clips :
              /\ cs[i].start = doc.clips[i].start /\ cs[i].dur = doc.clips[i].dur
              /\ cs[i].src = doc.clips[i].src /\ cs[i].audio = doc.clips[i].audio
  BY <1>1, <1>2
<1>s. Still(cs)
  <2> SUFFICES ASSUME NEW i \in Ids, Linked(old, i), cs[i].parent = old[i].parent
               PROVE  cs[i].off \in {old[i].off, old[i].start - old[cs[i].parent].start}
    BY <1>1, <1>2 DEF Still
  <2>1. cs[i].parent \in Ids
    BY <1>1 DEF Linked
  <2> QED BY <1>2, <2>1
<1>9. Edited([clips |-> cs, trans |-> doc.trans], n)
  <2>1. DOMAIN doc.clips \subseteq DOMAIN cs
    BY <1>1, <1>4
  <2> HIDE DEF old
  <2> QED BY <1>4, <1>5, <1>6, <1>7, <1>8, <1>s, <2>1, KeptEdit
<1> QED BY <1>9 DEF cs

\* reorderTrack(): clips of one row stay on one row.
LEMMA RowsEdits ==
    ASSUME NEW n, doc \in Docs(n), NEW row, \A i \in Ids : row[i] \in Nat,
           \A i, j \in Ids : doc.clips[i].row = doc.clips[j].row => row[i] = row[j]
    PROVE  LET cs == [i \in Ids |-> [doc.clips[i] EXCEPT !.row = row[i]]]
           IN Edited([clips |-> cs, trans |-> doc.trans], n)
<1> DEFINE cs == [i \in Ids |-> [doc.clips[i] EXCEPT !.row = row[i]]]
           start == [i \in Ids |-> doc.clips[i].start]
<1>1. /\ doc.clips \in Layouts /\ Ids = DOMAIN doc.clips /\ Below(doc.clips, n)
      /\ \A i \in Ids : doc.clips[i] \in Clip
  BY HereIs, DocIs
<1>2. \A i \in Ids : start[i] \in Nat
  BY <1>1, ClipIs
<1>3. cs = MovedTo(doc.clips, row, start)
  <2>1. \A i \in Ids : [doc.clips[i] EXCEPT !.row = row[i]]
                          = [doc.clips[i] EXCEPT !.row = row[i], !.start = start[i]]
    BY <1>1 DEF Clip
  <2> HIDE DEF start
  <2> QED BY <1>1, <2>1 DEF MovedTo
<1> HIDE DEF cs, start
<1>4. /\ cs \in Layouts /\ DOMAIN cs = DOMAIN doc.clips /\ (InRange(doc.clips) => InRange(cs))
      /\ \A i \in DOMAIN doc.clips :
                 /\ cs[i].row = row[i] /\ cs[i].start = start[i] /\ cs[i].audio = doc.clips[i].audio
                 /\ cs[i].dur = doc.clips[i].dur /\ cs[i].src = doc.clips[i].src
                 /\ cs[i].off = doc.clips[i].off
  BY <1>1, <1>2, <1>3, MovedIs
<1>5. \A i \in DOMAIN doc.clips : cs[i].start = doc.clips[i].start
  BY <1>1, <1>4 DEF start
<1>6. Below(cs, n) /\ (Sane(doc) => InRange(cs))
  BY <1>1, <1>4 DEF Below, Sane
<1>7. \A i, j \in DOMAIN doc.clips : doc.clips[i].row = doc.clips[j].row => cs[i].row = cs[j].row
  BY <1>1, <1>4
<1>s. Still(cs)
  BY <1>4, <1>5 DEF Still
<1>8. Edited([clips |-> cs, trans |-> doc.trans], n)
  BY <1>4, <1>5, <1>6, <1>7, <1>s, KeptEdit
<1> QED BY <1>8 DEF cs

\* removeTrack().
LEMMA RemoveEdits ==
    ASSUME NEW n, doc \in Docs(n), NEW row \in Nat
    PROVE  LET left  == Without(doc.clips, {i \in Ids : doc.clips[i].row = row})
               clips == [i \in DOMAIN left |->
                            [left[i] EXCEPT !.row = IF @ > row THEN @ - 1 ELSE @]]
           IN Edited([clips |-> clips, trans |-> Prune(clips, doc.trans)], n)
<1> DEFINE left == Without(doc.clips, {i \in Ids : doc.clips[i].row = row})
           to == [i \in DOMAIN left |-> IF left[i].row > row THEN left[i].row - 1 ELSE left[i].row]
           start == [i \in DOMAIN left |-> left[i].start]
           cs == [i \in DOMAIN left |-> [left[i] EXCEPT !.row = IF @ > row THEN @ - 1 ELSE @]]
<1>1. doc.clips \in Layouts /\ Below(doc.clips, n)
  BY DocIs
<1>2. /\ left \in Layouts /\ Below(left, n) /\ (InRange(doc.clips) => InRange(left))
      /\ DOMAIN left \subseteq DOMAIN doc.clips /\ \A i \in DOMAIN left : left[i] = doc.clips[i]
  <2> DEFINE S == {i \in Ids : doc.clips[i].row = row}
  <2>1. left = Without(doc.clips, S)
    OBVIOUS
  <2> HIDE DEF S, left
  <2>2. DOMAIN left = DOMAIN doc.clips \ S
    BY <1>1, <2>1, WithoutIs
  <2>3. \A i \in DOMAIN doc.clips \ S : left[i] = doc.clips[i]
    BY <1>1, <2>1, WithoutIs
  <2> QED BY <1>1, <2>1, <2>2, <2>3, WithoutIs
<1> HIDE DEF left
<1>3. \A i \in DOMAIN left : left[i] \in Clip /\ left[i].row \in Nat /\ left[i].start \in Nat
  BY <1>2, LayoutIs, ClipIs
<1>4. \A i \in DOMAIN left : to[i] \in Nat /\ start[i] \in Nat
  BY <1>3
<1>5. cs = MovedTo(left, to, start)
  <2>1. \A i \in DOMAIN left : [left[i] EXCEPT !.row = IF @ > row THEN @ - 1 ELSE @]
                                  = [left[i] EXCEPT !.row = to[i], !.start = start[i]]
    BY <1>3 DEF Clip
  <2> HIDE DEF to, start
  <2> QED BY <2>1 DEF MovedTo
<1> HIDE DEF cs, to, start
<1>6. /\ cs \in Layouts /\ DOMAIN cs = DOMAIN left /\ (InRange(left) => InRange(cs))
      /\ \A i \in DOMAIN left : cs[i].start = start[i] /\ cs[i].off = left[i].off
  BY <1>2, <1>4, <1>5, MovedIs
<1>s. Still(cs)
  <2>1. \A i \in DOMAIN left : start[i] = left[i].start
    BY DEF start
  <2> QED BY <1>2, <1>6, <2>1 DEF Still
<1>p. PairsKept(cs)
  BY <1>s, StillKeeps
<1>7. Below(cs, n) /\ (Sane(doc) => InRange(cs))
  BY <1>2, <1>6 DEF Below, Sane
<1>8. Edited([clips |-> cs, trans |-> Prune(cs, doc.trans)], n)
  BY <1>6, <1>7, <1>p, PrunedEdit
<1> QED BY <1>8 DEF cs, left

\* The first free id of a document is free.
LEMMA FirstFreeIs ==
    ASSUME NEW D, IsFiniteSet(D), D \subseteq Nat, NEW d, DOMAIN d.clips = D
    PROVE  FirstFree(d) \in Nat \ {0} /\ \A i \in D : i < FirstFree(d)
<1> DEFINE T == D \cup {0}
<1>1. IsFiniteSet(T) /\ T \subseteq Int /\ T # {} /\ 0 \in T /\ T \subseteq Nat
  BY FS_AddElement
<1>2. FirstFree(d) = Max(T) + 1
  <2>1. {0} \cup DOMAIN d.clips = T
    OBVIOUS
  <2> HIDE DEF T
  <2> QED BY <2>1 DEF FirstFree
<1>3. \A i \in D : i \in T
  OBVIOUS
<1> HIDE DEF T
<1>4. Max(T) \in T /\ \A y \in T : Max(T) >= y
  BY <1>1, MaxIs
<1>5. Max(T) \in Nat /\ \A i \in D : i \in Nat /\ Max(T) >= i
  BY <1>1, <1>3, <1>4
<1> QED BY <1>2, <1>5

\* loadProject() of what was saved.
LEMMA ReopenEdits ==
    ASSUME NEW n, doc \in Docs(n)
    PROVE  LET clips == [i \in Ids |-> [doc.clips[i] EXCEPT !.start = @ - Lead]]
           IN Edited([clips |-> clips, trans |-> Prune(clips, doc.trans)], FirstFree(doc))
<1> DEFINE cs == [i \in Ids |-> [doc.clips[i] EXCEPT !.start = @ - Lead]]
           row == [i \in Ids |-> doc.clips[i].row]
           start == [i \in Ids |-> doc.clips[i].start - Lead]
<1>1. /\ doc.clips \in Layouts /\ Ids = DOMAIN doc.clips /\ IsFiniteSet(Ids)
      /\ \A i \in Ids : doc.clips[i] \in Clip /\ i \in Nat
  BY HereIs
<1>2. Lead \in Nat /\ \A i \in Ids : Lead <= doc.clips[i].start
  BY LeadIs
<1>3. \A i \in Ids : row[i] \in Nat /\ start[i] \in Nat
  <2>1. \A i \in Ids : doc.clips[i].row \in Nat /\ doc.clips[i].start \in Nat
    BY <1>1, ClipIs
  <2> QED BY <1>2, <2>1
<1>4. cs = MovedTo(doc.clips, row, start)
  <2>1. \A i \in Ids : [doc.clips[i] EXCEPT !.start = @ - Lead]
                          = [doc.clips[i] EXCEPT !.row = row[i], !.start = start[i]]
    BY <1>1 DEF Clip
  <2> HIDE DEF row, start
  <2> QED BY <1>1, <2>1 DEF MovedTo
<1> HIDE DEF cs, row, start
<1>5. /\ cs \in Layouts /\ DOMAIN cs = DOMAIN doc.clips /\ (InRange(doc.clips) => InRange(cs))
      /\ \A i \in DOMAIN doc.clips : /\ cs[i].start = start[i] /\ cs[i].off = doc.clips[i].off
                                     /\ cs[i].parent = doc.clips[i].parent
  BY <1>1, <1>3, <1>4, MovedIs
<1>p. PairsKept(cs)
  <2> SUFFICES ASSUME NEW i \in Ids, Linked(doc.clips, i), InPlace(doc.clips, i)
               PROVE  InPlace(cs, i)
    BY <1>1 DEF PairsKept
  <2> DEFINE p == doc.clips[i].parent
             x == doc.clips[i].start
             y == doc.clips[p].start
             off == doc.clips[i].off
  <2>1. p \in Ids
    BY <1>1 DEF Linked
  <2>2. x \in Nat /\ y \in Nat /\ off \in Int /\ Lead <= x /\ Lead <= y /\ Lead \in Nat
    <3>1. doc.clips[i] \in Clip /\ doc.clips[p] \in Clip
      BY <1>1, <2>1
    <3> QED BY <1>2, <2>1, <3>1 DEF Clip
  <2>3. x = AtLeast(y + off, 0)
    BY DEF InPlace, PlaceBy
  <2>4. cs[i].start = x - Lead /\ cs[p].start = y - Lead /\ cs[i].off = off /\ cs[i].parent = p
    BY <1>1, <1>5, <2>1 DEF start
  <2> HIDE DEF p, x, y, off
  <2>5. x - Lead = AtLeast((y - Lead) + off, 0)
    BY <2>2, <2>3 DEF AtLeast
  <2> QED BY <2>4, <2>5 DEF InPlace, PlaceBy
<1>6. FirstFree(doc) \in Nat \ {0} /\ \A i \in Ids : i < FirstFree(doc)
  <2>1. Ids \subseteq Nat
    BY <1>1
  <2> QED BY <1>1, <2>1, FirstFreeIs
<1>7. Below(cs, FirstFree(doc)) /\ (Sane(doc) => InRange(cs))
  BY <1>1, <1>5, <1>6 DEF Below, Sane
<1>8. Edited([clips |-> cs, trans |-> Prune(cs, doc.trans)], FirstFree(doc))
  BY <1>5, <1>7, <1>p, PrunedEdit
<1> QED BY <1>8 DEF cs

\* copySelectedClips().
LEMMA CopyIs ==
    ASSUME NEW n, doc \in Docs(n), NEW sel \in SUBSET Ids, sel # {}
    PROVE  LET base == Min({doc.clips[i].start : i \in sel})
               copies == [i \in sel |-> [doc.clips[i] EXCEPT !.start = @ - base]]
           IN copies \in Layouts /\ (Sane(doc) => InRange(copies))
<1> DEFINE S == {doc.clips[i].start : i \in sel}
           base == Min(S)
           cs == [i \in sel |-> [doc.clips[i] EXCEPT !.start = @ - base]]
<1>1. /\ doc.clips \in Layouts /\ Ids = DOMAIN doc.clips /\ IsFiniteSet(Ids)
      /\ \A i \in Ids : /\ doc.clips[i] \in Clip /\ i \in Nat /\ i # 0
                        /\ Sane(doc) => InSource(doc.clips[i])
  BY HereIs
<1>2. \A i \in sel : doc.clips[i].start \in Nat
  BY <1>1, ClipIs
<1>3. S \subseteq Nat /\ S # {} /\ \A i \in sel : doc.clips[i].start \in S
  BY <1>2
<1> HIDE DEF S
<1>4. base \in Nat /\ \A i \in sel : base <= doc.clips[i].start
  BY <1>3, MinIs
<1> HIDE DEF base
<1>5. ASSUME NEW i \in sel PROVE cs[i] \in Clip /\ (Sane(doc) => InSource(cs[i]))
  <2> DEFINE c == doc.clips[i]
             d == [c EXCEPT !.start = c.start - base]
  <2>1. c \in Clip /\ (Sane(doc) => InSource(c)) /\ c.start - base \in Nat
    BY <1>1, <1>2, <1>4
  <2>2. cs[i] = d
    BY <2>1 DEF Clip
  <2> HIDE DEF c
  <2>3. d \in Clip /\ d.src = c.src /\ d.dur = c.dur /\ d.audio = c.audio
    BY <2>1 DEF Clip
  <2>4. SourceFrames(d) = SourceFrames(c)
    BY <2>3 DEF SourceFrames
  <2> HIDE DEF d, cs
  <2>5. InSource(c) => InSource(d)
    BY <2>3, <2>4 DEF InSource
  <2> QED BY <2>1, <2>2, <2>3, <2>5
<1>6. cs \in [sel -> Clip] /\ DOMAIN cs = sel
  <2>1. cs = [i \in sel |-> cs[i]]
    OBVIOUS
  <2> HIDE DEF cs
  <2> QED BY <1>5, <2>1
<1> HIDE DEF cs
<1>7. sel \in SUBSET (Nat \ {0}) /\ IsFiniteSet(sel)
  BY <1>1, FS_Subset
<1>8. cs \in Layouts
  BY <1>6, <1>7, IsLayout
<1>9. Sane(doc) => InRange(cs)
  BY <1>5, <1>6 DEF InRange, InSource
<1> QED BY <1>8, <1>9 DEF cs, base, S

\* gapAtTrack().
LEMMA GapIs ==
    ASSUME NEW n, doc \in Docs(n), NEW on \in SUBSET Ids, NEW f \in Nat
    PROVE  LET before == {End(doc.clips[i]) : i \in {j \in on : End(doc.clips[j]) <= f}}
               after  == {doc.clips[i].start : i \in {j \in on : doc.clips[j].start > f}}
           IN before # {} /\ after # {} => <<Max(before), Min(after)>> \in Nat \X Nat
<1> DEFINE B == {j \in on : End(doc.clips[j]) <= f}
           h == [i \in B |-> End(doc.clips[i])]
           before == {End(doc.clips[i]) : i \in B}
           after == {doc.clips[i].start : i \in {j \in on : doc.clips[j].start > f}}
<1>1. IsFiniteSet(Ids) /\ \A i \in Ids : End(doc.clips[i]) \in Nat /\ doc.clips[i].start \in Nat
  BY HereIs, ClipIs
<1>2. IsFiniteSet(B)
  <2>1. B \in SUBSET Ids
    OBVIOUS
  <2> HIDE DEF B
  <2> QED BY <1>1, <2>1, FS_Subset
<1>3. before = {h[i] : i \in B} /\ before \subseteq Nat
  BY <1>1
<1>4. IsFiniteSet(before)
  <2> HIDE DEF h, B, before
  <2> QED BY <1>2, <1>3, ValuesFinite
<1>5. after \subseteq Nat
  BY <1>1
<1> HIDE DEF before, after
<1>6. ASSUME before # {}, after # {} PROVE <<Max(before), Min(after)>> \in Nat \X Nat
  <2>1. Max(before) \in before
    <3>1. before \subseteq Int
      BY <1>3
    <3> QED BY <1>4, <1>6, <3>1, MaxIs
  <2>2. Min(after) \in after
    BY <1>5, <1>6, MinIs
  <2> QED BY <1>3, <1>5, <2>1, <2>2
<1> QED BY <1>6 DEF before, after

----------------------------------------------------------------------------
(* Steps.                                                                  *)

Kinds == {"clips", "content", "positions"}
Labels == {"TRIM CLIP", "SET CLIP RANGE", "DUPLICATE", "MOVE CLIP", "MOVE CLIPS", "ADD CLIP",
           "PASTE CLIPS", "CUT CLIP", "DELETE", "CLOSE GAP", "ADD DISSOLVE", "DELETE DISSOLVE",
           "RESIZE DISSOLVE", "LINK AUDIO", "UNLINK AUDIO", "MOVE TRACK"}
Commands(n) ==
    [label : Labels, kind : Kinds, geom : SUBSET Nat, before : Docs(n), after : Docs(n)]
Gaps == {<<>>} \cup (Nat \X Nat)

\* Types, with the ids that are used below the next one.
TypeInv ==
    /\ next \in Nat \ {0} /\ doc \in Docs(next)
    /\ undo \in Seq(Commands(next)) /\ redo \in Seq(Commands(next))
    /\ gap \in Gaps /\ board \in Layouts /\ edits \in 0 .. MaxEdits

\* The document d, with ids below n, is what an edit may leave.
Leaves(d, n) ==
    d \in Docs(n) /\ ((Sane(doc) /\ InRange(board)) => Sane(d)) /\ PairsKept(d.clips)

\* An edit with a command; a drop without; an edit that clears the history; and a step that
\* leaves the document alone.
Commanded ==
    /\ \E label \in Labels, kind \in Kinds, geom \in SUBSET Nat :
          /\ Push(label, kind, geom, doc')
          /\ kind = "positions" => Matches(doc, doc', geom)
    /\ Leaves(doc', next')
    /\ next' \in Nat /\ next' >= next /\ gap' \in Gaps
DroppedIn ==
    /\ "desktop" \in DropsFrom /\ Leaves(doc', next')
    /\ next' \in Nat /\ next' >= next /\ UNCHANGED <<undo, redo, gap, board>>
    /\ edits' = edits + 1
Forgotten ==
    /\ Leaves(doc', next') /\ next' \in Nat \ {0}
    /\ undo' = <<>> /\ redo' = <<>> /\ UNCHANGED <<gap, board>>
    /\ edits' = edits + 1
Aside ==
    /\ UNCHANGED <<doc, undo, redo, next>>
    /\ gap' \in Gaps /\ board' \in Layouts
    /\ (Sane(doc) /\ InRange(board)) => InRange(board')
    /\ edits' \in {edits, edits + 1}

LEMMA IsCommanded ==
    ASSUME TypeInv, NEW label \in Labels, NEW kind \in Kinds, NEW geom \in SUBSET Nat, NEW d,
           Push(label, kind, geom, d), Leaves(d, next'),
           kind = "positions" => Matches(doc, d, geom),
           next' \in Nat, next' >= next, gap' \in Gaps
    PROVE  Commanded
<1>1. doc' = d /\ Push(label, kind, geom, doc')
  BY DEF Push
<1>2. Leaves(doc', next') /\ (kind = "positions" => Matches(doc, doc', geom))
  BY <1>1
<1> QED BY <1>1, <1>2 DEF Commanded

\* What an edit finds.
LEMMA Found ==
    ASSUME TypeInv
    PROVE  /\ next \in Nat /\ next \in Nat \ {0} /\ next >= next /\ doc \in Docs(next)
           /\ board \in Layouts /\ gap \in Gaps /\ <<>> \in Gaps /\ {} \in SUBSET Nat
           /\ \A i \in Ids : doc.clips[i] \in Clip /\ i \in Nat
           /\ Ids = DOMAIN doc.clips /\ doc.clips \in Layouts /\ IsFiniteSet(Ids)
           /\ \A f \in Frame : f \in Nat
           /\ \A row \in TableRows : row \in Nat
           /\ \A d, n : Edited(d, n) => Leaves(d, n)
<1>1. /\ next \in Nat /\ next \in Nat \ {0} /\ next >= next /\ doc \in Docs(next)
      /\ board \in Layouts /\ gap \in Gaps /\ <<>> \in Gaps /\ {} \in SUBSET Nat
  BY DEF TypeInv, Gaps
<1>2. /\ \A i \in Ids : doc.clips[i] \in Clip /\ i \in Nat
      /\ Ids = DOMAIN doc.clips /\ doc.clips \in Layouts /\ IsFiniteSet(Ids)
  BY <1>1, HereIs
<1>3. \A f \in Frame : f \in Nat
  BY EditingAssumption DEF Frame
<1>4. \A row \in TableRows : row \in Nat
  <2>1. Rows(doc.clips) \in Nat
    BY <1>2, RowsNat
  <2> QED BY <2>1 DEF TableRows
<1>5. \A d, n : Edited(d, n) => Leaves(d, n)
  BY DEF Edited, Leaves
<1> QED BY <1>1, <1>2, <1>3, <1>4, <1>5

LEMMA TrimIs ==
    ASSUME TypeInv, NEW i \in Ids, NEW f \in Frame, Trim(i, f) \/ SetRange(i, f)
    PROVE  Commanded
<1>1. /\ next \in Nat /\ next >= next /\ doc \in Docs(next) /\ gap \in Gaps /\ <<>> \in Gaps
      /\ doc.clips[i] \in Clip /\ f \in Nat
      /\ \A k \in Ids : k \in Nat
      /\ \A d, n : Edited(d, n) => Leaves(d, n)
      /\ Sane(doc) => InSource(doc.clips[i])
  BY Found, HereIs
<1>2. Geom(i) \in SUBSET Nat
  BY <1>1 DEF Geom, WithFollowers, Followers, Ids
<1>3. ASSUME NEW c \in Clip, c.audio = doc.clips[i].audio, c.parent = doc.clips[i].parent,
             InSource(doc.clips[i]) => InSource(c), NEW slips \in SUBSET {i},
             NEW label \in Labels, Push(label, "positions", Geom(i), Recut(i, c, slips)),
             next' = next, gap' \in Gaps
      PROVE  Commanded
  <2>1. Sane(doc) => InSource(c)
    BY <1>1, <1>3
  <2>2. Edited(Recut(i, c, slips), next) /\ Matches(doc, Recut(i, c, slips), Geom(i))
    BY <1>1, <1>3, <2>1, RecutEdits
  <2>3. Leaves(Recut(i, c, slips), next') /\ next' \in Nat /\ next' >= next
    BY <1>1, <1>3, <2>2
  <2>4. "positions" \in Kinds
    BY DEF Kinds
  <2> QED BY <1>2, <1>3, <2>2, <2>3, <2>4, IsCommanded
<1>4. CASE Trim(i, f)
  <2>1. PICK c \in {RightAt(doc.clips[i], f), LeftAt(doc.clips[i], f)} :
           Push("TRIM CLIP", "positions", Geom(i), Recut(i, c, {i})) /\ Deselect /\ UNCHANGED next
    BY <1>4 DEF Trim
  <2>2. /\ c \in Clip /\ c.audio = doc.clips[i].audio /\ c.parent = doc.clips[i].parent
        /\ InSource(doc.clips[i]) => InSource(c)
    <3>1. CASE c = RightAt(doc.clips[i], f)
      BY <1>1, <3>1, RightIs
    <3>2. CASE c = LeftAt(doc.clips[i], f)
      BY <1>1, <3>2, LeftIs
    <3> QED BY <2>1, <3>1, <3>2
  <2>3. next' = next /\ gap' \in Gaps
    BY <1>1, <2>1 DEF Deselect
  <2>4. "TRIM CLIP" \in Labels /\ {i} \in SUBSET {i}
    BY DEF Labels
  <2> QED BY <1>3, <2>1, <2>2, <2>3, <2>4
<1>5. CASE SetRange(i, f)
  <2> DEFINE old == doc.clips[i]
             last == old.src + old.dur - 1
             at == AtMost(f, SourceFrames(old) - 1)
             d == [old EXCEPT !.src = at, !.dur = AtLeast(last, at) - at + 1]
             e == [old EXCEPT !.dur = AtLeast(at, old.src) - old.src + 1]
  <2>1. PICK c \in {d, e} :
           Push("SET CLIP RANGE", "positions", Geom(i), Recut(i, c, {})) /\ UNCHANGED <<gap, next>>
    BY <1>5 DEF SetRange
  <2>2. /\ d \in Clip /\ d.audio = old.audio /\ d.parent = old.parent
        /\ InSource(old) => InSource(d)
        /\ e \in Clip /\ e.audio = old.audio /\ e.parent = old.parent
        /\ InSource(old) => InSource(e)
    BY <1>1, RangeIs
  <2> HIDE DEF d, e
  <2>3. /\ c \in Clip /\ c.audio = doc.clips[i].audio /\ c.parent = doc.clips[i].parent
        /\ InSource(doc.clips[i]) => InSource(c)
    BY <2>1, <2>2
  <2>4. next' = next /\ gap' \in Gaps
    BY <1>1, <2>1
  <2>5. "SET CLIP RANGE" \in Labels /\ {} \in SUBSET {i}
    BY DEF Labels
  <2> QED BY <1>3, <2>1, <2>3, <2>4, <2>5
<1> QED BY <1>4, <1>5

LEMMA RazorIs ==
    ASSUME TypeInv, NEW i \in Ids, NEW f \in Frame, Razor(i, f)
    PROVE  Commanded
<1> DEFINE p == IF Linked(doc.clips, i) THEN doc.clips[i].parent ELSE i
           cut == {k \in {p} \cup Followers(doc.clips, p) :
                      doc.clips[k].start < f /\ f < End(doc.clips[k])}
           d == [clips |-> CutAt(cut, f), trans |-> Prune(CutAt(cut, f), doc.trans)]
<1>1. Push("CUT CLIP", "content", {}, d) /\ next' = next + Cardinality(cut) /\ gap' = gap
  BY DEF Razor
<1>2. /\ next \in Nat \ {0} /\ doc \in Docs(next) /\ gap \in Gaps /\ f \in Nat
      /\ \A e, n : Edited(e, n) => Leaves(e, n)
  BY Found
<1>3. cut \in SUBSET Ids /\ \A k \in cut : doc.clips[k].start < f /\ f < End(doc.clips[k])
  BY DEF Linked, Followers, Ids
<1> HIDE DEF cut
<1>4. Edited(d, next + Cardinality(cut)) /\ Cardinality(cut) \in Nat
  BY <1>2, <1>3, RazorEdits
<1> HIDE DEF d
<1>5. next' \in Nat /\ next' >= next
  <2>1. next \in Nat /\ next' = next + Cardinality(cut)
    BY <1>1, <1>2
  <2> QED BY <1>4, <2>1
<1>6. Leaves(d, next') /\ gap' \in Gaps
  BY <1>1, <1>2, <1>4
<1>7. "CUT CLIP" \in Labels /\ "content" \in Kinds /\ {} \in SUBSET Nat /\ "content" # "positions"
  BY DEF Kinds, Labels
<1> QED BY <1>1, <1>5, <1>6, <1>7, IsCommanded

\* An edit whose command puts back the whole document or its content.
LEMMA PlainEdit ==
    ASSUME TypeInv, NEW label \in Labels, NEW kind \in {"clips", "content"}, NEW d, NEW m \in Nat,
           Push(label, kind, {}, d), Leaves(d, next + m), next' = next + m, gap' \in {gap, <<>>}
    PROVE  Commanded
<1>1. next \in Nat /\ gap' \in Gaps
  BY Found
<1>2. next' \in Nat /\ next' >= next
  BY <1>1
<1>3. kind \in Kinds /\ kind # "positions" /\ {} \in SUBSET Nat
  BY DEF Kinds
<1>4. Leaves(d, next')
  OBVIOUS
<1> QED BY <1>1, <1>2, <1>3, <1>4, IsCommanded

LEMMA SameEdit ==
    ASSUME TypeInv, NEW label \in Labels, NEW kind \in {"clips", "content"}, NEW d,
           Push(label, kind, {}, d), Edited(d, next), next' = next, gap' \in {gap, <<>>}
    PROVE  Commanded
<1>1. next \in Nat /\ Leaves(d, next)
  BY Found
<1>2. next + 0 = next /\ 0 \in Nat
  BY <1>1
<1>3. Leaves(d, next + 0) /\ next' = next + 0
  BY <1>1, <1>2
<1> QED BY <1>2, <1>3, PlainEdit

LEMMA SelectionIs ==
    ASSUME NEW sel \in Selections
    PROVE  sel \in SUBSET Ids /\ sel # {}
BY DEF Selections

LEMMA DragIs ==
    ASSUME TypeInv, NEW sel \in Selections,
           NEW dRow \in -Rows(doc.clips) .. Rows(doc.clips), NEW shift \in Shifts,
           NEW ripple \in BOOLEAN, NEW copy \in BOOLEAN, Drag(sel, dRow, shift, ripple, copy)
    PROVE  Commanded
<1> DEFINE S == {doc.clips[i].start : i \in sel}
           by0 == AtLeast(shift, -Min(S))
           by == by0 + (IF ripple THEN Jump(sel, dRow, by0) ELSE 0)
           d == Dragged(sel, dRow, by, copy)
           room == DropAll(d.clips, d.next, d.landed, ripple)
           clips == Resync(Slipped(room.clips, d.landed))
           e == [clips |-> clips, trans |-> Prune(clips, doc.trans)]
<1>1. /\ Lands(sel, dRow) /\ Push(DragLabel(sel, copy), "clips", {}, e)
      /\ next' = room.next /\ gap' = <<>>
  BY DEF Drag, Deselect
<1>2. /\ next \in Nat /\ doc \in Docs(next) /\ doc.clips \in Layouts
      /\ \A i \in Ids : doc.clips[i] \in Clip
      /\ sel \in SUBSET Ids /\ sel # {}
  BY Found, SelectionIs
<1>3. dRow \in Int /\ shift \in Int
  <2>1. Rows(doc.clips) \in Nat
    BY <1>2, RowsNat
  <2> QED BY <2>1, EditingAssumption
<1>4. \A i \in sel : doc.clips[i].start \in Nat /\ doc.clips[i].row \in Nat
  BY <1>2, ClipIs
<1>5. S \subseteq Nat /\ S # {} /\ \A i \in sel : doc.clips[i].start \in S
  BY <1>2, <1>4
<1> HIDE DEF S
<1>6. Min(S) \in Nat /\ \A i \in sel : Min(S) <= doc.clips[i].start
  BY <1>5, MinIs
<1>7. by0 \in Int /\ by0 >= -Min(S)
  BY <1>3, <1>6 DEF AtLeast
<1> HIDE DEF by0
<1>8. Jump(sel, dRow, by0) \in Nat
  BY <1>2, <1>3, <1>7, JumpIs
<1>9. by \in Int /\ by >= -Min(S)
  <2> DEFINE jump == Jump(sel, dRow, by0)
  <2>1. jump \in Nat /\ by0 \in Int /\ Min(S) \in Nat /\ by0 >= -Min(S)
    BY <1>6, <1>7, <1>8
  <2> HIDE DEF jump
  <2>2. by = by0 + jump \/ by = by0 + 0
    BY DEF jump
  <2> HIDE DEF by
  <2> QED BY <2>1, <2>2
<1> HIDE DEF by
<1>10. \A i \in sel : doc.clips[i].row + dRow \in Nat /\ doc.clips[i].start + by \in Nat
  <2> SUFFICES ASSUME NEW i \in sel
               PROVE  doc.clips[i].row + dRow \in Nat /\ doc.clips[i].start + by \in Nat
    OBVIOUS
  <2>1. doc.clips[i].row + dRow \in 0 .. Rows(doc.clips) - 1
    BY <1>1 DEF Lands
  <2>2. doc.clips[i].row + dRow \in Nat
    BY <1>3, <1>4, <2>1
  <2>3. Min(S) \in Nat /\ Min(S) <= doc.clips[i].start /\ doc.clips[i].start \in Nat
    BY <1>4, <1>6
  <2>4. doc.clips[i].start + by \in Nat
    BY <1>9, <2>3
  <2> QED BY <2>2, <2>4
<1>11. Edited(e, room.next) /\ room.next \in Nat /\ room.next >= next
  BY <1>2, <1>3, <1>9, <1>10, DragEdits
<1> HIDE DEF e, room
<1>12. DragLabel(sel, copy) \in Labels
  BY DEF DragLabel, Labels
<1>13. Leaves(e, next') /\ next' \in Nat /\ next' >= next
  BY <1>1, <1>11, Found
<1>14. "clips" \in Kinds /\ "clips" # "positions" /\ {} \in SUBSET Nat /\ gap' \in Gaps
  BY <1>1, Found DEF Kinds
<1> QED BY <1>1, <1>12, <1>13, <1>14, IsCommanded

LEMMA PasteIs == ASSUME TypeInv, NEW f \in Frame, Paste(f) PROVE Commanded
<1> DEFINE d == [doc EXCEPT !.clips = WithCopies(DOMAIN board, PasteRows(f), f)]
           m == Cardinality(DOMAIN board)
<1>1. Push("PASTE CLIPS", "clips", {}, d) /\ next' = next + m /\ gap' = <<>>
  BY DEF Paste, Deselect
<1>2. next \in Nat \ {0} /\ doc \in Docs(next) /\ board \in Layouts /\ f \in Nat
  BY Found
<1>3. /\ d \in Docs(next + m) /\ PairsKept(d.clips) /\ m \in Nat
      /\ InRange(board) => Edited(d, next + m)
  BY <1>2, PasteEdits
<1> HIDE DEF d, m
<1>4. Leaves(d, next + m)
  BY <1>3 DEF Leaves, Edited
<1>5. "PASTE CLIPS" \in Labels /\ "clips" \in {"clips", "content"} /\ gap' \in {gap, <<>>}
  BY <1>1 DEF Labels
<1> QED BY <1>1, <1>3, <1>4, <1>5, PlainEdit

LEMMA AddIs ==
    ASSUME TypeInv, NEW audio \in BOOLEAN, NEW row \in TableRows, NEW f \in Frame,
           NEW from \in DropsFrom, AddMedia(audio, row, f, from)
    PROVE  Commanded \/ DroppedIn
<1> DEFINE new == [row |-> row, audio |-> audio, start |-> AtLeast(f, Lead),
                   dur |-> IF audio THEN AudioFrames ELSE VideoFrames,
                   src |-> 0, parent |-> 0, off |-> 0]
           pushed == Ripple(doc.clips, {i \in Ids : doc.clips[i].row = row}, new.start, new.dur)
           clips == Resync([i \in Ids \cup {next} |-> IF i = next THEN new ELSE pushed[i]])
           d == [clips |-> clips, trans |-> Prune(clips, doc.trans)]
<1>1. /\ IF from = "bin" THEN Push("ADD CLIP", "content", {}, d)
         ELSE doc' = d /\ edits' = edits + 1 /\ UNCHANGED <<undo, redo, board>>
      /\ next' = next + 1 /\ gap' = gap
  BY DEF AddMedia
<1>2. next \in Nat \ {0} /\ doc \in Docs(next) /\ f \in Nat /\ row \in Nat
  BY Found
<1>3. Lead \in Nat
  BY <1>2, LeadIs
<1>4. AtLeast(f, Lead) \in Nat
  BY <1>2, <1>3 DEF AtLeast
<1>5. new \in Clip /\ InSource(new)
  BY <1>2, <1>4, NewIs
<1> HIDE DEF new
<1>6. Edited(d, next + 1)
  BY <1>2, <1>5, AddEdits
<1> HIDE DEF d
<1>7. Leaves(d, next + 1) /\ 1 \in Nat
  BY <1>6, Found
<1>8. CASE from = "bin"
  <2>1. "ADD CLIP" \in Labels /\ "content" \in {"clips", "content"} /\ gap' \in {gap, <<>>}
    BY <1>1 DEF Labels
  <2>2. Push("ADD CLIP", "content", {}, d) /\ next' = next + 1
    BY <1>1, <1>8
  <2> QED BY <1>7, <2>1, <2>2, PlainEdit
<1>9. CASE from # "bin"
  <2>1. "desktop" \in DropsFrom
    BY <1>9, EditingAssumption
  <2>2. next' \in Nat /\ next' >= next
    <3>1. next \in Nat /\ next' = next + 1
      BY <1>1, <1>2
    <3> QED BY <3>1
  <2>3. /\ Leaves(doc', next') /\ UNCHANGED <<undo, redo, gap, board>>
        /\ edits' = edits + 1
    BY <1>1, <1>7, <1>9
  <2> QED BY <2>1, <2>2, <2>3 DEF DroppedIn
<1> QED BY <1>8, <1>9

LEMMA DeleteIs == ASSUME TypeInv, NEW sel \in Selections, Delete(sel) PROVE Commanded
<1> DEFINE S == WithFollowers(doc.clips, sel)
           d == [clips |-> Without(doc.clips, S), trans |-> Prune(Without(doc.clips, S), doc.trans)]
<1>1. Push("DELETE", "clips", {}, d) /\ gap' = <<>> /\ next' = next
  BY DEF Delete, Deselect
<1>2. Edited(d, next)
  BY Found, DeleteEdits
<1> HIDE DEF d
<1>3. "DELETE" \in Labels /\ "clips" \in {"clips", "content"} /\ gap' \in {gap, <<>>}
  BY <1>1 DEF Labels
<1> QED BY <1>1, <1>2, <1>3, SameEdit

LEMMA CloseIs == ASSUME TypeInv, CloseGap PROVE Commanded
<1> DEFINE moved == [i \in Ids |-> IF doc.clips[i].start >= gap[2]
                                   THEN [doc.clips[i] EXCEPT !.start = @ - (gap[2] - gap[1])]
                                   ELSE doc.clips[i]]
           clips == Resync(moved)
           d == [clips |-> clips, trans |-> Prune(clips, doc.trans)]
<1>1. gap # <<>> /\ Push("CLOSE GAP", "positions", {}, d) /\ gap' = <<>> /\ next' = next
  BY DEF CloseGap, Deselect
<1>2. gap[1] \in Nat /\ gap[2] \in Nat
  <2>1. gap \in Nat \X Nat
    BY <1>1 DEF TypeInv, Gaps
  <2> QED BY <2>1
<1>3. doc \in Docs(next) /\ next \in Nat /\ next >= next /\ <<>> \in Gaps /\ {} \in SUBSET Nat
  BY Found
<1>4. Edited(d, next) /\ Matches(doc, d, {})
  BY <1>2, <1>3, CloseEdits
<1> HIDE DEF d
<1>5. Leaves(d, next') /\ next' \in Nat /\ next' >= next /\ gap' \in Gaps
  BY <1>1, <1>3, <1>4, Found
<1>6. "CLOSE GAP" \in Labels /\ "positions" \in Kinds
  BY DEF Labels, Kinds
<1> QED BY <1>1, <1>3, <1>4, <1>5, <1>6, IsCommanded

LEMMA DissolveIs == ASSUME TypeInv, NEW i \in Ids, NEW j \in Ids, AddDissolve(i, j) PROVE Commanded
<1> DEFINE a == doc.clips[i]
           b == doc.clips[j]
           t == [a |-> i, b |-> j, in |-> AtMost(DissolveWant \div 2, MaxIn(a, b)),
                 out |-> AtMost(DissolveWant - DissolveWant \div 2, MaxOut(a, b))]
           d == [doc EXCEPT !.trans = @ \cup {t}]
<1>1. /\ i # j /\ a.row = b.row /\ ~a.audio /\ ~b.audio /\ b.start = End(a)
      /\ \A u \in doc.trans : <<u.a, u.b>> # <<i, j>>
      /\ t.in + t.out > 0
      /\ Push("ADD DISSOLVE", "content", {}, d) /\ gap' = <<>> /\ next' = next
  BY DEF AddDissolve, Deselect
<1>2. doc \in Docs(next)
  BY Found
<1>3. Edited(d, next)
  BY <1>1, <1>2, DissolveEdits
<1> HIDE DEF d
<1>4. "ADD DISSOLVE" \in Labels /\ "content" \in {"clips", "content"} /\ gap' \in {gap, <<>>}
  BY <1>1 DEF Labels
<1> QED BY <1>1, <1>3, <1>4, SameEdit

LEMMA UndissolveIs ==
    ASSUME TypeInv, NEW t \in doc.trans,
           DeleteDissolve(t) \/ \E f \in Frame : ResizeDissolve(t, f)
    PROVE  Commanded
<1>1. doc \in Docs(next) /\ \A f \in Frame : f \in Nat
  BY Found
<1>2. CASE DeleteDissolve(t)
  <2> DEFINE d == [doc EXCEPT !.trans = @ \ {t}]
  <2>1. Push("DELETE DISSOLVE", "content", {}, d) /\ gap' = <<>> /\ next' = next
    BY <1>2 DEF DeleteDissolve, Deselect
  <2>2. Edited(d, next)
    BY <1>1, UndissolveEdits
  <2> HIDE DEF d
  <2>3. "DELETE DISSOLVE" \in Labels /\ "content" \in {"clips", "content"} /\ gap' \in {gap, <<>>}
    BY <2>1 DEF Labels
  <2> QED BY <2>1, <2>2, <2>3, SameEdit
<1>3. ASSUME NEW f \in Frame, ResizeDissolve(t, f) PROVE Commanded
  <2> DEFINE a == doc.clips[t.a]
             b == doc.clips[t.b]
  <2>1. /\ Live(doc.clips, t) /\ gap' = <<>> /\ next' = next
        /\ \E u \in {[t EXCEPT !.in  = Clamp(End(a) - f, 0, MaxIn(a, b))],
                     [t EXCEPT !.out = Clamp(f - End(a), 0, MaxOut(a, b))]} :
             Push("RESIZE DISSOLVE", "content", {},
                  [doc EXCEPT !.trans = Prune(doc.clips, (@ \ {t}) \cup {u})])
    BY <1>3 DEF ResizeDissolve, Deselect
  <2>2. PICK u \in {[t EXCEPT !.in  = Clamp(End(a) - f, 0, MaxIn(a, b))],
                    [t EXCEPT !.out = Clamp(f - End(a), 0, MaxOut(a, b))]} :
           Push("RESIZE DISSOLVE", "content", {},
                [doc EXCEPT !.trans = Prune(doc.clips, (@ \ {t}) \cup {u})])
    BY <2>1
  <2> DEFINE d == [doc EXCEPT !.trans = Prune(doc.clips, (@ \ {t}) \cup {u})]
  <2>3. Edited(d, next)
    <3>1. f \in Nat
      BY <1>1
    <3> QED BY <1>1, <2>1, <3>1, ResizeEdits
  <2>4. Push("RESIZE DISSOLVE", "content", {}, d)
    BY <2>2
  <2> HIDE DEF d
  <2>5. "RESIZE DISSOLVE" \in Labels /\ "content" \in {"clips", "content"} /\ gap' \in {gap, <<>>}
    BY <2>1 DEF Labels
  <2> QED BY <2>1, <2>3, <2>4, <2>5, SameEdit
<1> QED BY <1>2, <1>3

LEMMA LinkIs == ASSUME TypeInv, NEW sel \in Selections, Link(sel) PROVE Commanded
<1> DEFINE sounds == {i \in sel : doc.clips[i].audio}
           Off(p) == [i \in Ids |-> doc.clips[i].start - doc.clips[p].start]
           New(p) == [i \in Ids |-> IF i \in sounds
                                    THEN [doc.clips[i] EXCEPT !.parent = p, !.off = Off(p)[i]]
                                    ELSE doc.clips[i]]
           Tied(p) == [doc EXCEPT !.clips =
                         [i \in Ids |-> IF i \in sounds
                              THEN [@[i] EXCEPT !.parent = p,
                                                !.off = doc.clips[i].start - doc.clips[p].start]
                              ELSE @[i]]]
<1>1. /\ \E p \in sel : Push("LINK AUDIO", "content", {}, Tied(p))
      /\ gap' = <<>> /\ next' = next
  BY DEF Link, Deselect
<1>2. /\ doc \in Docs(next) /\ sel \in SUBSET Ids
      /\ \A i \in Ids : doc.clips[i] \in Clip /\ i \in Nat
      /\ doc = [clips |-> doc.clips, trans |-> doc.trans]
  BY Found, SelectionIs, HereIs
<1>3. PICK p \in sel : Push("LINK AUDIO", "content", {}, Tied(p))
  BY <1>1
<1>4. p \in Ids /\ p \in Nat /\ \A i \in Ids : Off(p)[i] \in Int
  <2>1. p \in Ids /\ p \in Nat /\ \A i \in Ids : doc.clips[i].start \in Nat
    BY <1>2, ClipIs
  <2> QED BY <2>1
<1>5. Tied(p) = [clips |-> New(p), trans |-> doc.trans]
  <2>1. Tied(p) = [doc EXCEPT !.clips = New(p)]
    BY <1>2, <1>4
  <2> HIDE DEF Tied, New
  <2> QED BY <1>2, <2>1
<1>6. Edited([clips |-> New(p), trans |-> doc.trans], next)
  <2>0. \A i \in sounds : doc.clips[i].audio
    OBVIOUS
  <2> HIDE DEF Off, sounds
  <2>1. Offsets(Off(p), sounds, p)
    BY <1>4, <2>0 DEF Off, Offsets
  <2> QED BY <1>2, <1>4, <2>1, LinkedEdits
<1> HIDE DEF Tied, New
<1>7. Edited(Tied(p), next)
  BY <1>5, <1>6
<1>8. "LINK AUDIO" \in Labels /\ "content" \in {"clips", "content"} /\ gap' \in {gap, <<>>}
  BY <1>1 DEF Labels
<1> QED BY <1>1, <1>3, <1>7, <1>8, SameEdit

LEMMA UnlinkIs == ASSUME TypeInv, NEW sel \in Selections, Unlink(sel) PROVE Commanded
<1> DEFINE freed == {i \in sel : Linked(doc.clips, i)}
                    \cup UNION {Followers(doc.clips, i) : i \in sel}
           off == [i \in Ids |-> 0]
           new == [i \in Ids |-> IF i \in freed
                                 THEN [doc.clips[i] EXCEPT !.parent = 0, !.off = off[i]]
                                 ELSE doc.clips[i]]
           d == [doc EXCEPT !.clips =
                   [i \in Ids |-> IF i \in freed THEN [@[i] EXCEPT !.parent = 0, !.off = 0] ELSE @[i]]]
<1>1. Push("UNLINK AUDIO", "content", {}, d) /\ gap' = <<>> /\ next' = next
  BY DEF Unlink, Deselect
<1>2. doc \in Docs(next) /\ doc = [clips |-> doc.clips, trans |-> doc.trans]
  BY Found, HereIs
<1> HIDE DEF freed
<1>3. d = [clips |-> new, trans |-> doc.trans]
  <2>1. d = [doc EXCEPT !.clips = new]
    BY <1>2
  <2> HIDE DEF d, new
  <2> QED BY <1>2, <2>1
<1>4. Edited([clips |-> new, trans |-> doc.trans], next)
  <2>1. Offsets(off, freed, 0)
    BY <1>2, HereIs DEF Offsets
  <2>2. 0 \in Nat
    OBVIOUS
  <2> HIDE DEF off
  <2> QED BY <1>2, <2>1, <2>2, LinkedEdits
<1> HIDE DEF d, new
<1>5. Edited(d, next)
  BY <1>3, <1>4
<1>6. "UNLINK AUDIO" \in Labels /\ "content" \in {"clips", "content"} /\ gap' \in {gap, <<>>}
  BY <1>1 DEF Labels
<1> QED BY <1>1, <1>5, <1>6, SameEdit

LEMMA MoveTrackIs ==
    ASSUME TypeInv, NEW from \in TableRows, NEW to \in TableRows, MoveTrack(from, to)
    PROVE  Commanded
<1> DEFINE Place(r) == CASE r = from -> to
                        [] from < r /\ r <= to -> r - 1
                        [] to <= r /\ r < from -> r + 1
                        [] OTHER -> r
           row == [i \in Ids |-> Place(doc.clips[i].row)]
           new == [i \in Ids |-> [doc.clips[i] EXCEPT !.row = row[i]]]
           d == [doc EXCEPT !.clips = [i \in Ids |-> [doc.clips[i] EXCEPT !.row = Place(@)]]]
<1>1. Push("MOVE TRACK", "content", {}, d) /\ gap' = <<>> /\ next' = next
  BY DEF MoveTrack, Deselect
<1>2. /\ doc \in Docs(next) /\ doc = [clips |-> doc.clips, trans |-> doc.trans]
      /\ \A i \in Ids : doc.clips[i] \in Clip
      /\ from \in Nat /\ to \in Nat
  BY Found, HereIs
<1>3. \A i \in Ids : doc.clips[i].row \in Nat
  BY <1>2, ClipIs
<1>4. \A r \in Nat : Place(r) \in Nat
  BY <1>2
<1> HIDE DEF Place
<1>5. \A i \in Ids : row[i] \in Nat
  BY <1>3, <1>4
<1>6. d = [clips |-> new, trans |-> doc.trans]
  <2>1. \A i \in Ids : [doc.clips[i] EXCEPT !.row = Place(@)] = [doc.clips[i] EXCEPT !.row = row[i]]
    BY <1>2 DEF Clip
  <2> DEFINE same == [i \in Ids |-> [doc.clips[i] EXCEPT !.row = Place(@)]]
  <2>2. same = new
    <3> HIDE DEF row
    <3> QED BY <2>1
  <2>3. d = [doc EXCEPT !.clips = same]
    BY <1>2
  <2> HIDE DEF d, new, same
  <2> QED BY <1>2, <2>2, <2>3
<1>7. \A i, j \in Ids : doc.clips[i].row = doc.clips[j].row => row[i] = row[j]
  OBVIOUS
<1>8. Edited([clips |-> new, trans |-> doc.trans], next)
  <2> HIDE DEF row
  <2> QED BY <1>2, <1>5, <1>7, RowsEdits
<1> HIDE DEF d, new
<1>9. Edited(d, next)
  BY <1>6, <1>8
<1>10. "MOVE TRACK" \in Labels /\ "content" \in {"clips", "content"} /\ gap' \in {gap, <<>>}
  BY <1>1 DEF Labels
<1> QED BY <1>1, <1>9, <1>10, SameEdit

LEMMA RemoveTrackIs == ASSUME TypeInv, NEW row \in TableRows, RemoveTrack(row) PROVE Forgotten
<1> DEFINE left  == Without(doc.clips, {i \in Ids : doc.clips[i].row = row})
           clips == [i \in DOMAIN left |-> [left[i] EXCEPT !.row = IF @ > row THEN @ - 1 ELSE @]]
           d == [clips |-> clips, trans |-> Prune(clips, doc.trans)]
<1>1. /\ doc' = d /\ undo' = <<>> /\ redo' = <<>> /\ edits' = edits + 1
      /\ gap' = gap /\ next' = next /\ board' = board
  BY DEF RemoveTrack
<1>2. doc \in Docs(next) /\ row \in Nat /\ next \in Nat \ {0}
  BY Found
<1>3. Edited(d, next)
  BY <1>2, RemoveEdits
<1> HIDE DEF d
<1>4. Leaves(doc', next')
  BY <1>1, <1>3, Found
<1> QED BY <1>1, <1>2, <1>4 DEF Forgotten

LEMMA ReopenIs == ASSUME TypeInv, Reopen PROVE Forgotten
<1> DEFINE clips == [i \in Ids |-> [doc.clips[i] EXCEPT !.start = @ - Lead]]
           d == [clips |-> clips, trans |-> Prune(clips, doc.trans)]
<1>1. /\ doc' = d /\ undo' = <<>> /\ redo' = <<>> /\ edits' = edits + 1
      /\ gap' = gap /\ next' = FirstFree(doc) /\ board' = board
  BY DEF Reopen
<1>2. /\ doc \in Docs(next) /\ Ids = DOMAIN doc.clips /\ IsFiniteSet(Ids) /\ Ids \subseteq Nat
  BY Found
<1>3. Edited(d, FirstFree(doc))
  BY <1>2, ReopenEdits
<1>4. FirstFree(doc) \in Nat \ {0}
  BY <1>2, FirstFreeIs
<1> HIDE DEF d
<1>5. Leaves(doc', next')
  BY <1>1, <1>3, Found
<1> QED BY <1>1, <1>4, <1>5 DEF Forgotten

LEMMA CopyAside == ASSUME TypeInv, NEW sel \in Selections, Copy(sel) PROVE Aside
<1> DEFINE copies == [i \in sel |-> [doc.clips[i] EXCEPT
                        !.start = @ - Min({doc.clips[k].start : k \in sel})]]
<1>1. /\ board' = copies /\ edits' = edits + 1
      /\ doc' = doc /\ undo' = undo /\ redo' = redo /\ gap' = gap /\ next' = next
  BY DEF Copy
<1>2. doc \in Docs(next) /\ sel \in SUBSET Ids /\ sel # {} /\ gap \in Gaps
  BY Found, SelectionIs
<1>3. copies \in Layouts /\ (Sane(doc) => InRange(copies))
  BY <1>2, CopyIs
<1> HIDE DEF copies
<1>4. board' \in Layouts /\ ((Sane(doc) /\ InRange(board)) => InRange(board'))
  BY <1>1, <1>3
<1> QED BY <1>1, <1>2, <1>4 DEF Aside

LEMMA SelectAside == ASSUME TypeInv, NEW row \in TableRows, NEW f \in Frame, SelectGap(row, f) PROVE Aside
<1> DEFINE on == {i \in Ids : doc.clips[i].row = row}
           before == {End(doc.clips[i]) : i \in {j \in on : End(doc.clips[j]) <= f}}
           after  == {doc.clips[i].start : i \in {j \in on : doc.clips[j].start > f}}
<1>1. /\ before # {} /\ after # {} /\ gap' = <<Max(before), Min(after)>>
      /\ doc' = doc /\ undo' = undo /\ redo' = redo /\ next' = next /\ board' = board
      /\ edits' = edits
  BY DEF SelectGap
<1>2. doc \in Docs(next) /\ f \in Nat /\ on \in SUBSET Ids /\ board \in Layouts
  BY Found
<1> HIDE DEF on
<1>3. <<Max(before), Min(after)>> \in Nat \X Nat
  BY <1>1, <1>2, GapIs
<1> HIDE DEF before, after
<1>4. gap' \in Gaps
  BY <1>1, <1>3 DEF Gaps
<1>5. board' \in Layouts /\ ((Sane(doc) /\ InRange(board)) => InRange(board'))
  BY <1>1, <1>2
<1> QED BY <1>1, <1>4, <1>5 DEF Aside

\* What an edit may do.
LEMMA EditIs == ASSUME TypeInv, Edit PROVE Commanded \/ DroppedIn \/ Forgotten \/ Aside
<1>1. CASE CloseGap
  BY <1>1, CloseIs
<1>2. CASE Reopen
  BY <1>2, ReopenIs
<1>3. CASE \E i \in Ids, f \in Frame : Trim(i, f) \/ SetRange(i, f) \/ Razor(i, f)
  BY <1>3, TrimIs, RazorIs
<1>4. CASE \E sel \in Selections : Copy(sel) \/ Delete(sel) \/ Link(sel) \/ Unlink(sel)
  BY <1>4, CopyAside, DeleteIs, LinkIs, UnlinkIs
<1>5. CASE \E sel \in Selections, dRow \in -Rows(doc.clips) .. Rows(doc.clips), by \in Shifts,
              ripple, copy \in BOOLEAN : Drag(sel, dRow, by, ripple, copy)
  BY <1>5, DragIs
<1>6. CASE \E i, j \in Ids : AddDissolve(i, j)
  BY <1>6, DissolveIs
<1>7. CASE \E t \in doc.trans : DeleteDissolve(t) \/ \E f \in Frame : ResizeDissolve(t, f)
  BY <1>7, UndissolveIs
<1>8. CASE \E f \in Frame : Paste(f)
  BY <1>8, PasteIs
<1>9. CASE \E row \in TableRows, audio \in BOOLEAN, f \in Frame, from \in DropsFrom :
              AddMedia(audio, row, f, from)
  BY <1>9, AddIs
<1>10. CASE \E row \in TableRows : RemoveTrack(row) \/ \E f \in Frame : SelectGap(row, f)
  BY <1>10, RemoveTrackIs, SelectAside
<1>11. CASE \E from, to \in TableRows \ {Rows(doc.clips) - 1} : MoveTrack(from, to)
  BY <1>11, MoveTrackIs
<1> QED BY <1>1, <1>2, <1>3, <1>4, <1>5, <1>6, <1>7, <1>8, <1>9, <1>10, <1>11 DEF Edit

----------------------------------------------------------------------------
(* Types.                                                                  *)

LEMMA PopIs ==
    ASSUME NEW S, NEW s \in Seq(S), s # <<>>
    PROVE  /\ Len(s) \in Nat /\ Len(s) >= 1 /\ Last(s) \in S /\ Last(s) = s[Len(s)]
           /\ Front(s) \in Seq(S) /\ Len(Front(s)) = Len(s) - 1
           /\ \A i \in 1 .. Len(s) - 1 : Front(s)[i] = s[i]
<1>1. Len(s) \in Nat /\ Len(s) # 0 /\ \A i \in 1 .. Len(s) : s[i] \in S
  BY ElementOfSeq, LenProperties, EmptySeq
<1>2. Len(s) \in 1 .. Len(s) /\ 1 \in Int /\ Len(s) - 1 \in Int /\ Len(s) >= 1
  BY <1>1
<1>3. \A i \in 1 .. Len(s) - 1 : s[i] \in S
  BY <1>1
<1> DEFINE n == Len(s) - 1
           f == SubSeq(s, 1, n)
<1>4. /\ f \in Seq(S) /\ Len(f) = (IF 1 <= n THEN n - 1 + 1 ELSE 0)
      /\ \A i \in 1 .. n - 1 + 1 : f[i] = s[1 + i - 1]
  <2> HIDE DEF n, f
  <2> QED BY <1>2, <1>3, SubSeqProperties DEF n, f
<1>5. Front(s) = f
  BY DEF Front
<1> HIDE DEF f
<1>6. Len(f) = Len(s) - 1
  <2>1. n \in Nat /\ Len(f) = (IF 1 <= n THEN n - 1 + 1 ELSE 0)
    BY <1>2, <1>4
  <2>2. Len(f) = n
    <3> HIDE DEF n
    <3> QED BY <2>1
  <2> QED BY <2>2
<1>7. \A i \in 1 .. Len(s) - 1 : f[i] = s[i]
  <2> SUFFICES ASSUME NEW i \in 1 .. Len(s) - 1 PROVE f[i] = s[i]
    OBVIOUS
  <2>1. i \in 1 .. n - 1 + 1 /\ 1 + i - 1 = i
    BY <1>2
  <2> QED BY <1>4, <2>1
<1>8. Last(s) = s[Len(s)] /\ Last(s) \in S
  BY <1>1, <1>2 DEF Last
<1> QED BY <1>1, <1>2, <1>4, <1>5, <1>6, <1>7, <1>8

LEMMA CommandIs ==
    ASSUME NEW n, NEW c \in Commands(n)
    PROVE  /\ c.kind \in Kinds /\ c.geom \in SUBSET Nat
           /\ c.before \in Docs(n) /\ c.after \in Docs(n)
BY DEF Commands

LEMMA CommandsGrow ==
    ASSUME NEW n \in Nat, NEW m \in Nat, n <= m
    PROVE  /\ Commands(n) \subseteq Commands(m)
           /\ \A s \in Seq(Commands(n)) : s \in Seq(Commands(m))
<1>1. Docs(n) \subseteq Docs(m)
  BY DocsGrow
<1>2. Commands(n) \subseteq Commands(m)
  BY <1>1 DEF Commands
<1> QED BY <1>2, SeqMonotonic

\* What a closure puts back is a document.
LEMMA RestoredTyped ==
    ASSUME NEW n, doc \in Docs(n), NEW c \in Commands(n), NEW d \in Docs(n)
    PROVE  Restored(c, d) \in Docs(n)
<1>1. /\ d.clips \in Layouts /\ d.trans \in SUBSET Dissolve /\ Below(d.clips, n)
  BY DocIs
<1>2. c.kind \in Kinds
  BY CommandIs
<1>3. CASE c.kind = "clips"
  BY <1>3 DEF Restored
<1>4. CASE c.kind = "content"
  <2>1. Restored(c, d) = [clips |-> d.clips, trans |-> Prune(d.clips, d.trans)]
    BY <1>4 DEF Restored
  <2>2. Prune(d.clips, d.trans) \in SUBSET Dissolve
    BY <1>1, PruneTyped
  <2> QED BY <1>1, <2>1, <2>2, IsDocument
<1>5. CASE c.kind = "positions"
  <2> DEFINE cs == [i \in Ids |->
                IF i \notin DOMAIN d.clips THEN doc.clips[i]
                ELSE IF i \in c.geom
                     THEN [d.clips[i] EXCEPT !.audio = doc.clips[i].audio,
                                             !.parent = doc.clips[i].parent]
                ELSE [doc.clips[i] EXCEPT !.row = d.clips[i].row, !.start = d.clips[i].start]]
  <2>1. Restored(c, d) = [clips |-> cs, trans |-> d.trans]
    BY <1>5 DEF Restored, Reposition
  <2>2. /\ \A i \in Ids : doc.clips[i] \in Clip /\ i \in Nat /\ i # 0 /\ i < n
        /\ IsFiniteSet(Ids)
    BY HereIs
  <2>3. \A i \in DOMAIN d.clips : d.clips[i] \in Clip
    BY <1>1, LayoutIs
  <2>4. ASSUME NEW i \in Ids PROVE cs[i] \in Clip
    <3> DEFINE a == doc.clips[i]
               b == d.clips[i]
    <3>1. a \in Clip
      BY <2>2
    <3>2. CASE i \notin DOMAIN d.clips
      BY <3>1, <3>2
    <3>3. CASE i \in DOMAIN d.clips /\ i \in c.geom
      <4>1. b \in Clip /\ cs[i] = [b EXCEPT !.audio = a.audio, !.parent = a.parent]
        BY <2>3, <3>3
      <4> HIDE DEF cs, a, b
      <4> QED BY <3>1, <4>1 DEF Clip
    <3>4. CASE i \in DOMAIN d.clips /\ i \notin c.geom
      <4>1. b \in Clip /\ cs[i] = [a EXCEPT !.row = b.row, !.start = b.start]
        BY <2>3, <3>4
      <4> HIDE DEF cs, a, b
      <4> QED BY <3>1, <4>1 DEF Clip
    <3> QED BY <3>2, <3>3, <3>4
  <2>5. cs \in [Ids -> Clip] /\ DOMAIN cs = Ids
    <3>1. cs = [i \in Ids |-> cs[i]]
      OBVIOUS
    <3> HIDE DEF cs
    <3> QED BY <2>4, <3>1
  <2> HIDE DEF cs
  <2>6. Ids \in SUBSET (Nat \ {0})
    BY <2>2
  <2>7. cs \in Layouts /\ Below(cs, n)
    BY <2>2, <2>5, <2>6, IsLayout DEF Below
  <2> QED BY <1>1, <2>1, <2>7, IsDocument
<1> QED BY <1>2, <1>3, <1>4, <1>5 DEF Kinds

\* An edit with a command, spelled out.
LEMMA PushIs ==
    ASSUME TypeInv, Commanded
    PROVE  \E c \in Commands(next') :
              /\ c.before = doc /\ c.after = doc' /\ undo' = Append(undo, c) /\ redo' = <<>>
              /\ board' = board /\ edits' = edits + 1
              /\ Leaves(doc', next') /\ next' \in Nat \ {0} /\ next' >= next /\ gap' \in Gaps
              /\ c.kind = "positions" => Matches(c.before, c.after, c.geom)
              /\ undo \in Seq(Commands(next'))
<1>1. PICK label \in Labels, kind \in Kinds, geom \in SUBSET Nat :
         /\ Push(label, kind, geom, doc') /\ Leaves(doc', next')
         /\ kind = "positions" => Matches(doc, doc', geom)
  BY DEF Commanded
<1>2. next \in Nat /\ next # 0 /\ doc \in Docs(next) /\ undo \in Seq(Commands(next))
  BY DEF TypeInv
<1>3. next' \in Nat /\ next' >= next /\ gap' \in Gaps
  BY DEF Commanded
<1>4. next' \in Nat \ {0} /\ next <= next'
  BY <1>2, <1>3
<1>5. doc \in Docs(next') /\ undo \in Seq(Commands(next'))
  BY <1>2, <1>4, DocsGrow, CommandsGrow
<1> DEFINE c == [label |-> label, kind |-> kind, geom |-> geom, before |-> doc, after |-> doc']
<1>6. undo' = Append(undo, c) /\ redo' = <<>> /\ board' = board /\ edits' = edits + 1
  BY <1>1 DEF Push
<1>7. doc' \in Docs(next')
  BY <1>1 DEF Leaves
<1>8. c \in Commands(next')
  BY <1>5, <1>7 DEF Commands
<1>9. c.before = doc /\ c.after = doc' /\ c.kind = kind /\ c.geom = geom
  OBVIOUS
<1> HIDE DEF c
<1> QED BY <1>1, <1>3, <1>4, <1>5, <1>6, <1>8, <1>9

LEMMA TypeStep == ASSUME TypeInv, [Next]_vars PROVE TypeInv'
<1>1. /\ next \in Nat \ {0} /\ doc \in Docs(next) /\ next \in Nat
      /\ undo \in Seq(Commands(next)) /\ redo \in Seq(Commands(next))
      /\ gap \in Gaps /\ board \in Layouts /\ edits \in 0 .. MaxEdits
      /\ MaxEdits \in Nat /\ edits \in Nat
  BY EditingAssumption DEF TypeInv
<1>2. CASE UNCHANGED vars
  BY <1>2 DEF vars, TypeInv
<1>3. CASE Undo
  <2>1. /\ undo # <<>> /\ doc' = Restored(Last(undo), Last(undo).before)
        /\ undo' = Front(undo) /\ redo' = Append(redo, Last(undo))
        /\ gap' = gap /\ next' = next /\ board' = board /\ edits' = edits
    BY <1>3 DEF Undo
  <2>2. Last(undo) \in Commands(next) /\ Front(undo) \in Seq(Commands(next))
    BY <1>1, <2>1, PopIs
  <2>3. Restored(Last(undo), Last(undo).before) \in Docs(next)
    BY <1>1, <2>2, CommandIs, RestoredTyped
  <2>4. Append(redo, Last(undo)) \in Seq(Commands(next))
    BY <1>1, <2>2, AppendProperties
  <2> QED BY <1>1, <2>1, <2>2, <2>3, <2>4 DEF TypeInv
<1>4. CASE Redo
  <2>1. /\ redo # <<>> /\ doc' = Restored(Last(redo), Last(redo).after)
        /\ redo' = Front(redo) /\ undo' = Append(undo, Last(redo))
        /\ gap' = gap /\ next' = next /\ board' = board /\ edits' = edits
    BY <1>4 DEF Redo
  <2>2. Last(redo) \in Commands(next) /\ Front(redo) \in Seq(Commands(next))
    BY <1>1, <2>1, PopIs
  <2>3. Restored(Last(redo), Last(redo).after) \in Docs(next)
    BY <1>1, <2>2, CommandIs, RestoredTyped
  <2>4. Append(undo, Last(redo)) \in Seq(Commands(next))
    BY <1>1, <2>2, AppendProperties
  <2> QED BY <1>1, <2>1, <2>2, <2>3, <2>4 DEF TypeInv
<1>5. CASE edits < MaxEdits /\ Edit
  <2>1. edits + 1 \in 0 .. MaxEdits
    BY <1>1, <1>5
  <2>2. CASE Commanded
    <3>1. PICK c \in Commands(next') :
             /\ undo' = Append(undo, c) /\ redo' = <<>> /\ board' = board /\ edits' = edits + 1
             /\ Leaves(doc', next') /\ next' \in Nat \ {0} /\ gap' \in Gaps
             /\ undo \in Seq(Commands(next'))
      BY <2>2, PushIs
    <3>2. undo' \in Seq(Commands(next')) /\ redo' \in Seq(Commands(next'))
      <4>1. Append(undo, c) \in Seq(Commands(next')) /\ <<>> \in Seq(Commands(next'))
        BY <3>1, AppendProperties, EmptySeq
      <4> QED BY <3>1, <4>1
    <3>3. doc' \in Docs(next') /\ board' \in Layouts /\ edits' \in 0 .. MaxEdits
      BY <1>1, <2>1, <3>1 DEF Leaves
    <3> QED BY <3>1, <3>2, <3>3 DEF TypeInv
  <2>3. CASE DroppedIn
    <3>1. /\ Leaves(doc', next') /\ next' \in Nat /\ next' >= next
          /\ undo' = undo /\ redo' = redo /\ gap' = gap /\ board' = board /\ edits' = edits + 1
      BY <2>3 DEF DroppedIn
    <3>2. next' \in Nat \ {0} /\ next <= next'
      BY <1>1, <3>1
    <3>3. undo' \in Seq(Commands(next')) /\ redo' \in Seq(Commands(next'))
      BY <1>1, <3>1, <3>2, CommandsGrow
    <3>4. doc' \in Docs(next') /\ gap' \in Gaps /\ board' \in Layouts /\ edits' \in 0 .. MaxEdits
      BY <1>1, <2>1, <3>1 DEF Leaves
    <3> QED BY <3>2, <3>3, <3>4 DEF TypeInv
  <2>4. CASE Forgotten
    <3>1. /\ Leaves(doc', next') /\ next' \in Nat \ {0}
          /\ undo' = <<>> /\ redo' = <<>> /\ gap' = gap /\ board' = board /\ edits' = edits + 1
      BY <2>4 DEF Forgotten
    <3>2. <<>> \in Seq(Commands(next'))
      BY EmptySeq
    <3>3. undo' \in Seq(Commands(next')) /\ redo' \in Seq(Commands(next'))
      BY <3>1, <3>2
    <3>4. doc' \in Docs(next') /\ gap' \in Gaps /\ board' \in Layouts /\ edits' \in 0 .. MaxEdits
      BY <1>1, <2>1, <3>1 DEF Leaves
    <3> QED BY <3>1, <3>3, <3>4 DEF TypeInv
  <2>5. CASE Aside
    <3>1. /\ doc' = doc /\ undo' = undo /\ redo' = redo /\ next' = next
          /\ gap' \in Gaps /\ board' \in Layouts /\ edits' \in {edits, edits + 1}
      BY <2>5 DEF Aside
    <3>2. edits' \in 0 .. MaxEdits
      BY <1>1, <2>1, <3>1
    <3> QED BY <1>1, <3>1, <3>2 DEF TypeInv
  <2> QED BY <1>5, <2>2, <2>3, <2>4, <2>5, EditIs
<1> QED BY <1>2, <1>3, <1>4, <1>5 DEF Next

LEMMA TypeStart == ASSUME Init PROVE TypeInv /\ Sane(doc) /\ board \in Layouts /\ InRange(board)
<1>1. /\ doc \in Loaded /\ undo = <<>> /\ redo = <<>> /\ gap = <<>> /\ board = <<>> /\ edits = 0
      /\ next = FirstFree(doc)
  BY DEF Init
<1>2. /\ doc = [clips |-> [i \in DOMAIN doc.clips |-> doc.clips[i]], trans |-> doc.trans]
      /\ IsFiniteSet(DOMAIN doc.clips) /\ doc.trans \in SUBSET Dissolve
      /\ \A i \in DOMAIN doc.clips : i \in Nat \ {0} /\ doc.clips[i] \in Clip
      /\ CutsLegal(doc) /\ InRange(doc.clips)
  BY <1>1, EditingAssumption DEF IsDoc
<1> DEFINE cs == [i \in DOMAIN doc.clips |-> doc.clips[i]]
           D == DOMAIN doc.clips
<1>3. doc.clips = cs
  BY <1>2
<1>4. cs \in [D -> Clip] /\ D \in SUBSET (Nat \ {0}) /\ D \subseteq Nat
  BY <1>2
<1>5. doc.clips \in Layouts
  <2> HIDE DEF cs, D
  <2> QED BY <1>2, <1>3, <1>4, IsLayout DEF D
<1>6. next \in Nat \ {0} /\ \A i \in D : i < next
  <2> HIDE DEF D
  <2> QED BY <1>1, <1>2, <1>4, FirstFreeIs DEF D
<1>7. Below(doc.clips, next)
  BY <1>6 DEF Below
<1>8. doc = [clips |-> doc.clips, trans |-> doc.trans]
  BY <1>2, <1>3
<1>9. doc \in Docs(next)
  BY <1>2, <1>5, <1>7, <1>8, IsDocument
<1>10. undo \in Seq(Commands(next)) /\ redo \in Seq(Commands(next))
  BY <1>1, EmptySeq
<1>11. board \in Layouts /\ InRange(board)
  <2>1. DOMAIN board = {} /\ board = [i \in {} |-> board[i]]
    BY <1>1
  <2>2. board \in [{} -> Clip] /\ IsFiniteSet({}) /\ {} \in SUBSET (Nat \ {0})
    BY <2>1, FS_EmptySet
  <2>3. board \in Layouts
    BY <2>2, IsLayout
  <2> QED BY <2>1, <2>3 DEF InRange
<1>12. edits \in 0 .. MaxEdits /\ gap \in Gaps
  BY <1>1, EditingAssumption DEF Gaps
<1> QED BY <1>2, <1>6, <1>9, <1>10, <1>11, <1>12 DEF TypeInv, Sane

\* A document as the type invariant has it.
LEMMA DocTyped == ASSUME NEW n, NEW d \in Docs(n) PROVE IsDoc(d)
<1>1. d.clips \in Layouts /\ d.trans \in SUBSET Dissolve /\ d = [clips |-> d.clips, trans |-> d.trans]
  BY DocIs
<1>2. /\ d.clips \in [DOMAIN d.clips -> Clip] /\ IsFiniteSet(DOMAIN d.clips)
      /\ \A i \in DOMAIN d.clips : i \in Nat /\ i # 0
  BY <1>1, LayoutIs
<1>3. d.clips = [i \in DOMAIN d.clips |-> d.clips[i]]
  BY <1>2
<1>4. d = [clips |-> [i \in DOMAIN d.clips |-> d.clips[i]], trans |-> d.trans]
  BY <1>1, <1>3
<1> QED BY <1>1, <1>2, <1>4 DEF IsDoc

LEMMA TypesHold == ASSUME TypeInv PROVE TypeOK
<1>1. /\ next \in Nat \ {0} /\ doc \in Docs(next)
      /\ undo \in Seq(Commands(next)) /\ redo \in Seq(Commands(next))
      /\ gap \in Gaps /\ board \in Layouts /\ edits \in 0 .. MaxEdits
  BY DEF TypeInv
<1>2. ASSUME NEW c \in ToSet(undo) \cup ToSet(redo) PROVE c \in Commands(next)
  <2>1. CASE c \in ToSet(undo)
    <3>1. PICK i \in DOMAIN undo : c = undo[i]
      BY <2>1 DEF ToSet
    <3> QED BY <1>1, <3>1, LenProperties, ElementOfSeq
  <2>2. CASE c \in ToSet(redo)
    <3>1. PICK i \in DOMAIN redo : c = redo[i]
      BY <2>2 DEF ToSet
    <3> QED BY <1>1, <3>1, LenProperties, ElementOfSeq
  <2> QED BY <1>2, <2>1, <2>2
<1>3. \A c \in ToSet(undo) \cup ToSet(redo) :
         IsDoc(c.before) /\ IsDoc(c.after) /\ c.kind \in {"clips", "content", "positions"}
  BY <1>2, CommandIs, DocTyped DEF Kinds
<1>4. IsDoc(doc) /\ \A i \in Ids : i < next
  BY <1>1, DocTyped, HereIs
<1>5. IsFiniteSet(DOMAIN board) /\ \A i \in DOMAIN board : board[i] \in Clip
  BY <1>1, LayoutIs
<1>6. gap \in {<<>>} \cup (Nat \X Nat)
  BY <1>1 DEF Gaps
<1> QED BY <1>1, <1>3, <1>4, <1>5, <1>6 DEF TypeOK

\* The documents, the snapshots and the clipboard have their types, with clips of one frame at
\* least, all ids below the next one, and no more edits than the bound.
THEOREM TypeCorrect == Spec => []TypeOK
<1>1. Init => TypeInv
  BY TypeStart
<1>2. TypeInv /\ [Next]_vars => TypeInv'
  BY TypeStep
<1>3. TypeInv => TypeOK
  BY TypesHold
<1> QED BY <1>1, <1>2, <1>3, PTL DEF Spec

LEMMA PairsStep ==
    ASSUME TypeInv, [Next]_vars, edits' = edits + 1
    PROVE  PairsKept(doc'.clips)
<1>1. edits \in Nat
  BY EditingAssumption DEF TypeInv
<1>2. ~UNCHANGED vars /\ ~Undo /\ ~Redo
  BY <1>1 DEF vars, Undo, Redo
<1>3. Commanded \/ DroppedIn \/ Forgotten \/ Aside
  BY <1>2, EditIs DEF Next
<1>4. CASE Aside
  BY <1>4 DEF Aside, PairsKept
<1> QED BY <1>3, <1>4 DEF Commanded, DroppedIn, Forgotten, Leaves

\* Every edit keeps the pairs in place: those that push clips aside put them back
\* (resyncLinkedClips()), and the others leave both clips, or record the offset anew. Only types
\* are needed for that, whatever an undo has made of the document.
THEOREM PairsSurviveHolds == Spec => PairsSurvive
<1>1. Init => TypeInv
  BY TypeStart
<1>2. TypeInv /\ [Next]_vars => TypeInv'
  BY TypeStep
<1> DEFINE Kept ==
      edits' = edits + 1 =>
         \A i \in Ids \cap DOMAIN doc'.clips :
             (/\ Linked(doc.clips, i) /\ InPlace(doc.clips, i)
              /\ Paired(doc'.clips, i) /\ doc'.clips[i].parent = doc.clips[i].parent)
                 => InPlace(doc'.clips, i)
<1>3. TypeInv /\ [Next]_vars => Kept
  BY PairsStep DEF PairsKept, Ids
<1>4. PairsSurvive <=> [][Kept]_vars
  BY DEF PairsSurvive
<1> HIDE DEF Kept
<1>5. TypeInv /\ [Next]_vars => [Kept]_vars
  BY <1>3
<1> QED BY <1>1, <1>2, <1>4, <1>5, PTL DEF Spec

----------------------------------------------------------------------------
(* The history.                                                            *)

\* A command whose two snapshots can each be had from the other.
Restorable(c) ==
    /\ Sane(c.before) /\ Sane(c.after)
    /\ c.kind = "positions" => Matches(c.before, c.after, c.geom)

\* The commands follow on each other, up to the document there is and from there on.
UndoChain ==
    \A n \in 1 .. Len(undo) :
        /\ Restorable(undo[n])
        /\ undo[n].after = IF n = Len(undo) THEN doc ELSE undo[n + 1].before
RedoChain ==
    \A n \in 1 .. Len(redo) :
        /\ Restorable(redo[n])
        /\ redo[n].before = IF n = Len(redo) THEN doc ELSE redo[n + 1].after

HistoryInv == TypeInv /\ Sane(doc) /\ InRange(board) /\ UndoChain /\ RedoChain

\* Positions put back from either side.
LEMMA MatchesBack ==
    ASSUME NEW b, NEW a, NEW geom, Matches(b, a, geom)
    PROVE  Matches(a, b, geom)
BY DEF Matches

LEMMA RepositionIs ==
    ASSUME NEW n, doc \in Docs(n), NEW d \in Docs(n), NEW geom, Matches(doc, d, geom)
    PROVE  Reposition(d, geom) = d
<1> DEFINE cs == [i \in Ids |->
                IF i \notin DOMAIN d.clips THEN doc.clips[i]
                ELSE IF i \in geom
                     THEN [d.clips[i] EXCEPT !.audio = doc.clips[i].audio,
                                             !.parent = doc.clips[i].parent]
                ELSE [doc.clips[i] EXCEPT !.row = d.clips[i].row, !.start = d.clips[i].start]]
<1>1. Reposition(d, geom) = [clips |-> cs, trans |-> d.trans]
  BY DEF Reposition
<1>2. /\ d.clips \in Layouts /\ d = [clips |-> d.clips, trans |-> d.trans]
  BY DocIs
<1>3. DOMAIN d.clips = Ids /\ \A i \in Ids : doc.clips[i] \in Clip /\ d.clips[i] \in Clip
  BY <1>2, HereIs, LayoutIs DEF Matches
<1>4. ASSUME NEW i \in Ids PROVE cs[i] = d.clips[i]
  <2> DEFINE a == doc.clips[i]
             b == d.clips[i]
  <2>1. /\ a \in Clip /\ b \in Clip /\ a.audio = b.audio /\ a.parent = b.parent
        /\ i \notin geom => a.dur = b.dur /\ a.src = b.src /\ a.off = b.off
    BY <1>3 DEF Matches, Ids
  <2>2. CASE i \in geom
    <3>1. cs[i] = [b EXCEPT !.audio = a.audio, !.parent = a.parent]
      BY <1>3, <2>2
    <3> HIDE DEF cs, a, b
    <3> QED BY <2>1, <3>1, ZenonT(30) DEF Clip, b
  <2>3. CASE i \notin geom
    <3>1. cs[i] = [a EXCEPT !.row = b.row, !.start = b.start]
      BY <1>3, <2>3
    <3> HIDE DEF cs, a, b
    <3>2. cs[i] = b
      BY <2>1, <2>3, <3>1, ZenonT(30) DEF Clip
    <3> QED BY <3>2 DEF b
  <2> QED BY <2>2, <2>3
<1>5. cs = d.clips
  <2>1. cs = [i \in Ids |-> cs[i]] /\ d.clips = [i \in Ids |-> d.clips[i]]
    <3>1. d.clips \in [Ids -> Clip]
      BY <1>2, <1>3, LayoutIs
    <3> QED BY <3>1
  <2> HIDE DEF cs
  <2> QED BY <1>4, <2>1
<1> HIDE DEF cs
<1> QED BY <1>1, <1>2, <1>5

\* A closure puts its snapshot back, found from the other end of its command.
LEMMA RestoredIs ==
    ASSUME NEW n, doc \in Docs(n), NEW c \in Commands(n), NEW d \in Docs(n), Sane(d),
           c.kind = "positions" => Matches(doc, d, c.geom)
    PROVE  Restored(c, d) = d
<1>1. c.kind \in Kinds /\ d = [clips |-> d.clips, trans |-> d.trans]
  BY CommandIs, DocIs
<1>2. CASE c.kind = "clips"
  BY <1>2 DEF Restored
<1>3. CASE c.kind = "content"
  <2>1. Restored(c, d) = [clips |-> d.clips, trans |-> Prune(d.clips, d.trans)]
    BY <1>3 DEF Restored
  <2>2. CutsLegal([clips |-> d.clips, trans |-> d.trans])
    BY <1>1 DEF Sane
  <2>3. Prune(d.clips, d.trans) = d.trans
    BY <2>2, PruneKeeps
  <2> QED BY <1>1, <2>1, <2>3
<1>4. CASE c.kind = "positions"
  <2>1. Restored(c, d) = Reposition(d, c.geom)
    BY <1>4 DEF Restored
  <2> QED BY <1>4, <2>1, RepositionIs
<1> QED BY <1>1, <1>2, <1>3, <1>4 DEF Kinds

LEMMA UndoIs ==
    ASSUME HistoryInv, Undo
    PROVE  /\ doc = Last(undo).after /\ doc' = Last(undo).before /\ Restorable(Last(undo))
           /\ undo' = Front(undo) /\ redo' = Append(redo, Last(undo))
           /\ Last(undo) \in Commands(next) /\ undo # <<>>
           /\ next' = next /\ board' = board /\ edits' = edits
<1>1. /\ undo # <<>> /\ doc' = Restored(Last(undo), Last(undo).before)
      /\ undo' = Front(undo) /\ redo' = Append(redo, Last(undo))
      /\ next' = next /\ board' = board /\ edits' = edits
  BY DEF Undo
<1>2. doc \in Docs(next) /\ undo \in Seq(Commands(next))
  BY DEF HistoryInv, TypeInv
<1> DEFINE c == Last(undo)
<1>3. /\ Len(undo) \in Nat /\ Len(undo) >= 1 /\ c \in Commands(next) /\ c = undo[Len(undo)]
  BY <1>1, <1>2, PopIs
<1>4. Len(undo) \in 1 .. Len(undo)
  BY <1>3
<1>5. Restorable(c) /\ c.after = doc
  BY <1>3, <1>4 DEF HistoryInv, UndoChain
<1> HIDE DEF c
<1>6. c.before \in Docs(next) /\ Sane(c.before)
  BY <1>3, <1>5, CommandIs DEF Restorable
<1>7. c.kind = "positions" => Matches(doc, c.before, c.geom)
  BY <1>5, MatchesBack DEF Restorable
<1>8. Restored(c, c.before) = c.before
  BY <1>2, <1>3, <1>6, <1>7, RestoredIs
<1> QED BY <1>1, <1>3, <1>5, <1>8 DEF c

LEMMA RedoIs ==
    ASSUME HistoryInv, Redo
    PROVE  /\ doc = Last(redo).before /\ doc' = Last(redo).after /\ Restorable(Last(redo))
           /\ redo' = Front(redo) /\ undo' = Append(undo, Last(redo))
           /\ Last(redo) \in Commands(next) /\ redo # <<>>
           /\ next' = next /\ board' = board /\ edits' = edits
<1>1. /\ redo # <<>> /\ doc' = Restored(Last(redo), Last(redo).after)
      /\ redo' = Front(redo) /\ undo' = Append(undo, Last(redo))
      /\ next' = next /\ board' = board /\ edits' = edits
  BY DEF Redo
<1>2. doc \in Docs(next) /\ redo \in Seq(Commands(next))
  BY DEF HistoryInv, TypeInv
<1> DEFINE c == Last(redo)
<1>3. /\ Len(redo) \in Nat /\ Len(redo) >= 1 /\ c \in Commands(next) /\ c = redo[Len(redo)]
  BY <1>1, <1>2, PopIs
<1>4. Len(redo) \in 1 .. Len(redo)
  BY <1>3
<1>5. Restorable(c) /\ c.before = doc
  BY <1>3, <1>4 DEF HistoryInv, RedoChain
<1> HIDE DEF c
<1>6. c.after \in Docs(next) /\ Sane(c.after)
  BY <1>3, <1>5, CommandIs DEF Restorable
<1>7. c.kind = "positions" => Matches(doc, c.after, c.geom)
  BY <1>5 DEF Restorable
<1>8. Restored(c, c.after) = c.after
  BY <1>2, <1>3, <1>6, <1>7, RestoredIs
<1> QED BY <1>1, <1>3, <1>5, <1>8 DEF c

\* A chain that grows by a command, and one that loses its last.
LEMMA ChainGrows ==
    ASSUME NEW S, NEW s \in Seq(S), NEW c \in S
    PROVE  LET t == Append(s, c)
           IN /\ Len(s) \in Nat /\ Len(t) = Len(s) + 1 /\ t[Len(t)] = c
              /\ \A n \in 1 .. Len(t) :
                    \/ n = Len(t)
                    \/ n \in 1 .. Len(s) /\ t[n] = s[n] /\ n # Len(s) /\ t[n + 1] = s[n + 1]
                    \/ n = Len(s) /\ n \in 1 .. Len(s) /\ t[n] = s[n] /\ t[n + 1] = c /\ n # Len(t)
<1> DEFINE t == Append(s, c)
<1>1. /\ Len(t) = Len(s) + 1 /\ \A i \in 1 .. Len(s) : t[i] = s[i]
      /\ t[Len(s) + 1] = c
  BY AppendProperties
<1>2. Len(s) \in Nat
  BY LenProperties
<1> HIDE DEF t
<1>3. ASSUME NEW n \in 1 .. Len(t), n # Len(t), n # Len(s)
      PROVE  n \in 1 .. Len(s) /\ t[n] = s[n] /\ t[n + 1] = s[n + 1]
  <2>1. n \in 1 .. Len(s) /\ n + 1 \in 1 .. Len(s)
    BY <1>1, <1>2, <1>3
  <2> QED BY <1>1, <2>1
<1>4. ASSUME NEW n \in 1 .. Len(t), n # Len(t), n = Len(s)
      PROVE  n \in 1 .. Len(s) /\ t[n] = s[n] /\ t[n + 1] = c
  <2>1. n \in 1 .. Len(s)
    BY <1>1, <1>2, <1>4
  <2> QED BY <1>1, <1>4, <2>1
<1> QED BY <1>1, <1>2, <1>3, <1>4 DEF t

LEMMA HistoryStart == ASSUME Init PROVE HistoryInv
<1>1. TypeInv /\ Sane(doc) /\ InRange(board) /\ undo = <<>> /\ redo = <<>>
  BY TypeStart DEF Init
<1>2. \A n \in 1 .. Len(undo) : FALSE
  BY <1>1, EmptySeq
<1>3. \A n \in 1 .. Len(redo) : FALSE
  BY <1>1, EmptySeq
<1> QED BY <1>1, <1>2, <1>3 DEF HistoryInv, UndoChain, RedoChain

\* The last command goes from the one chain, and the chain ends where that command began.
LEMMA ChainShrinks ==
    ASSUME NEW S, NEW s \in Seq(S), s # <<>>
    PROVE  LET t == Front(s)
           IN \A n \in 1 .. Len(t) :
                 /\ n \in 1 .. Len(s) /\ n # Len(s) /\ t[n] = s[n]
                 /\ n = Len(t) => s[n + 1] = Last(s)
                 /\ n # Len(t) => t[n + 1] = s[n + 1]
<1> DEFINE t == Front(s)
<1>1. /\ Len(s) \in Nat /\ Len(s) >= 1 /\ Last(s) = s[Len(s)] /\ Len(t) = Len(s) - 1
      /\ \A i \in 1 .. Len(s) - 1 : t[i] = s[i]
  BY PopIs
<1> HIDE DEF t
<1> SUFFICES ASSUME NEW n \in 1 .. Len(t)
             PROVE  /\ n \in 1 .. Len(s) /\ n # Len(s) /\ t[n] = s[n]
                    /\ n = Len(t) => s[n + 1] = Last(s)
                    /\ n # Len(t) => t[n + 1] = s[n + 1]
  BY DEF t
<1>2. n \in 1 .. Len(s) - 1 /\ n \in 1 .. Len(s) /\ n # Len(s)
  BY <1>1
<1>3. n = Len(t) => n + 1 = Len(s)
  BY <1>1
<1>4. n # Len(t) => n + 1 \in 1 .. Len(s) - 1
  BY <1>1, <1>2
<1> QED BY <1>1, <1>2, <1>3, <1>4

LEMMA UndoStep == ASSUME HistoryInv, Undo PROVE UndoChain' /\ RedoChain' /\ Sane(doc')
<1> DEFINE c == Last(undo)
<1>1. /\ doc = c.after /\ doc' = c.before /\ Restorable(c)
      /\ undo' = Front(undo) /\ redo' = Append(redo, c)
      /\ c \in Commands(next) /\ undo # <<>>
  BY UndoIs
<1>2. undo \in Seq(Commands(next)) /\ redo \in Seq(Commands(next))
  BY DEF HistoryInv, TypeInv
<1>3. \A n \in 1 .. Len(undo') :
         /\ n \in 1 .. Len(undo) /\ n # Len(undo) /\ undo'[n] = undo[n]
         /\ n = Len(undo') => undo[n + 1] = c
         /\ n # Len(undo') => undo'[n + 1] = undo[n + 1]
  BY <1>1, <1>2, ChainShrinks
<1>4. /\ redo'[Len(redo')] = c
      /\ \A n \in 1 .. Len(redo') :
            \/ n = Len(redo')
            \/ n \in 1 .. Len(redo) /\ redo'[n] = redo[n] /\ n # Len(redo) /\ redo'[n + 1] = redo[n + 1]
               /\ n # Len(redo')
            \/ n = Len(redo) /\ n \in 1 .. Len(redo) /\ redo'[n] = redo[n] /\ redo'[n + 1] = c
               /\ n # Len(redo')
  <2>1. LET t == Append(redo, c)
        IN /\ t[Len(t)] = c
           /\ \A n \in 1 .. Len(t) :
                 \/ n = Len(t)
                 \/ n \in 1 .. Len(redo) /\ t[n] = redo[n] /\ n # Len(redo) /\ t[n + 1] = redo[n + 1]
                 \/ n = Len(redo) /\ n \in 1 .. Len(redo) /\ t[n] = redo[n] /\ t[n + 1] = c /\ n # Len(t)
    BY <1>1, <1>2, ChainGrows
  <2> HIDE DEF c
  <2> QED BY <1>1, <2>1
<1> HIDE DEF c
<1>5. ASSUME NEW n \in 1 .. Len(undo')
      PROVE  /\ Restorable(undo'[n])
             /\ undo'[n].after = IF n = Len(undo') THEN doc' ELSE undo'[n + 1].before
  <2>1. /\ Restorable(undo[n])
        /\ undo[n].after = IF n = Len(undo) THEN doc ELSE undo[n + 1].before
    BY <1>3 DEF HistoryInv, UndoChain
  <2> QED BY <1>1, <1>3, <2>1
<1>6. ASSUME NEW n \in 1 .. Len(redo')
      PROVE  /\ Restorable(redo'[n])
             /\ redo'[n].before = IF n = Len(redo') THEN doc' ELSE redo'[n + 1].after
  <2>1. CASE n = Len(redo')
    BY <1>1, <1>4, <2>1
  <2>2. CASE n # Len(redo')
    <3>1. n \in 1 .. Len(redo)
      BY <1>4, <2>2
    <3>2. /\ Restorable(redo[n])
          /\ redo[n].before = IF n = Len(redo) THEN doc ELSE redo[n + 1].after
      BY <3>1 DEF HistoryInv, RedoChain
    <3> QED BY <1>1, <1>4, <2>2, <3>2
  <2> QED BY <2>1, <2>2
<1>7. UndoChain' /\ RedoChain'
  BY <1>5, <1>6 DEF UndoChain, RedoChain
<1> QED BY <1>1, <1>7 DEF Restorable

LEMMA RedoStep == ASSUME HistoryInv, Redo PROVE UndoChain' /\ RedoChain' /\ Sane(doc')
<1> DEFINE c == Last(redo)
<1>1. /\ doc = c.before /\ doc' = c.after /\ Restorable(c)
      /\ redo' = Front(redo) /\ undo' = Append(undo, c)
      /\ c \in Commands(next) /\ redo # <<>>
  BY RedoIs
<1>2. undo \in Seq(Commands(next)) /\ redo \in Seq(Commands(next))
  BY DEF HistoryInv, TypeInv
<1>3. \A n \in 1 .. Len(redo') :
         /\ n \in 1 .. Len(redo) /\ n # Len(redo) /\ redo'[n] = redo[n]
         /\ n = Len(redo') => redo[n + 1] = c
         /\ n # Len(redo') => redo'[n + 1] = redo[n + 1]
  BY <1>1, <1>2, ChainShrinks
<1>4. /\ undo'[Len(undo')] = c
      /\ \A n \in 1 .. Len(undo') :
            \/ n = Len(undo')
            \/ n \in 1 .. Len(undo) /\ undo'[n] = undo[n] /\ n # Len(undo) /\ undo'[n + 1] = undo[n + 1]
            \/ n = Len(undo) /\ n \in 1 .. Len(undo) /\ undo'[n] = undo[n] /\ undo'[n + 1] = c
  <2>1. LET t == Append(undo, c)
        IN /\ t[Len(t)] = c
           /\ \A n \in 1 .. Len(t) :
                 \/ n = Len(t)
                 \/ n \in 1 .. Len(undo) /\ t[n] = undo[n] /\ n # Len(undo) /\ t[n + 1] = undo[n + 1]
                 \/ n = Len(undo) /\ n \in 1 .. Len(undo) /\ t[n] = undo[n] /\ t[n + 1] = c /\ n # Len(t)
    BY <1>1, <1>2, ChainGrows
  <2> HIDE DEF c
  <2> QED BY <1>1, <2>1
<1> HIDE DEF c
<1>5. ASSUME NEW n \in 1 .. Len(redo')
      PROVE  /\ Restorable(redo'[n])
             /\ redo'[n].before = IF n = Len(redo') THEN doc' ELSE redo'[n + 1].after
  <2>1. /\ Restorable(redo[n])
        /\ redo[n].before = IF n = Len(redo) THEN doc ELSE redo[n + 1].after
    BY <1>3 DEF HistoryInv, RedoChain
  <2> QED BY <1>1, <1>3, <2>1
<1>6. ASSUME NEW n \in 1 .. Len(undo')
      PROVE  /\ Restorable(undo'[n])
             /\ undo'[n].after = IF n = Len(undo') THEN doc' ELSE undo'[n + 1].before
  <2>1. CASE n = Len(undo')
    BY <1>1, <1>4, <2>1
  <2>2. CASE n # Len(undo')
    <3>1. n \in 1 .. Len(undo)
      BY <1>4, <2>2
    <3>2. /\ Restorable(undo[n])
          /\ undo[n].after = IF n = Len(undo) THEN doc ELSE undo[n + 1].before
      BY <3>1 DEF HistoryInv, UndoChain
    <3> QED BY <1>1, <1>4, <2>2, <3>2
  <2> QED BY <2>1, <2>2
<1>7. UndoChain' /\ RedoChain'
  BY <1>5, <1>6 DEF UndoChain, RedoChain
<1> QED BY <1>1, <1>7 DEF Restorable

LEMMA PushStep == ASSUME HistoryInv, Commanded PROVE UndoChain' /\ RedoChain' /\ Sane(doc')
<1>1. TypeInv /\ Sane(doc) /\ InRange(board)
  BY DEF HistoryInv
<1>2. PICK c \in Commands(next') :
         /\ c.before = doc /\ c.after = doc' /\ undo' = Append(undo, c) /\ redo' = <<>>
         /\ Leaves(doc', next')
         /\ c.kind = "positions" => Matches(c.before, c.after, c.geom)
         /\ undo \in Seq(Commands(next'))
  BY <1>1, PushIs
<1>3. Sane(doc')
  BY <1>1, <1>2 DEF Leaves
<1>4. Restorable(c)
  BY <1>1, <1>2, <1>3 DEF Restorable
<1>5. /\ undo'[Len(undo')] = c
      /\ \A n \in 1 .. Len(undo') :
            \/ n = Len(undo')
            \/ n \in 1 .. Len(undo) /\ undo'[n] = undo[n] /\ n # Len(undo) /\ undo'[n + 1] = undo[n + 1]
            \/ n = Len(undo) /\ n \in 1 .. Len(undo) /\ undo'[n] = undo[n] /\ undo'[n + 1] = c
  <2>1. LET t == Append(undo, c)
        IN /\ t[Len(t)] = c
           /\ \A n \in 1 .. Len(t) :
                 \/ n = Len(t)
                 \/ n \in 1 .. Len(undo) /\ t[n] = undo[n] /\ n # Len(undo) /\ t[n + 1] = undo[n + 1]
                 \/ n = Len(undo) /\ n \in 1 .. Len(undo) /\ t[n] = undo[n] /\ t[n + 1] = c /\ n # Len(t)
    BY <1>2, ChainGrows
  <2> QED BY <1>2, <2>1
<1>6. ASSUME NEW n \in 1 .. Len(undo')
      PROVE  /\ Restorable(undo'[n])
             /\ undo'[n].after = IF n = Len(undo') THEN doc' ELSE undo'[n + 1].before
  <2>1. CASE n = Len(undo')
    BY <1>2, <1>4, <1>5, <2>1
  <2>2. CASE n # Len(undo')
    <3>1. n \in 1 .. Len(undo)
      BY <1>5, <2>2
    <3>2. /\ Restorable(undo[n])
          /\ undo[n].after = IF n = Len(undo) THEN doc ELSE undo[n + 1].before
      BY <3>1 DEF HistoryInv, UndoChain
    <3> QED BY <1>2, <1>5, <2>2, <3>2
  <2> QED BY <2>1, <2>2
<1>7. \A n \in 1 .. Len(redo') : FALSE
  BY <1>2, EmptySeq
<1>8. UndoChain' /\ RedoChain'
  BY <1>6, <1>7 DEF UndoChain, RedoChain
<1> QED BY <1>3, <1>8

LEMMA HistoryStep ==
    ASSUME "desktop" \notin DropsFrom, HistoryInv, [Next]_vars
    PROVE  HistoryInv'
<1>1. TypeInv /\ Sane(doc) /\ InRange(board) /\ UndoChain /\ RedoChain
  BY DEF HistoryInv
<1>2. TypeInv'
  BY <1>1, TypeStep
<1>3. CASE UNCHANGED vars
  <2>1. doc' = doc /\ undo' = undo /\ redo' = redo /\ board' = board
    BY <1>3 DEF vars
  <2>2. UndoChain' /\ RedoChain'
    BY <1>1, <2>1 DEF UndoChain, RedoChain
  <2>3. Sane(doc') /\ InRange(board')
    BY <1>1, <2>1
  <2> QED BY <1>2, <2>2, <2>3 DEF HistoryInv
<1>4. CASE Undo
  <2>1. board' = board
    BY <1>4, UndoIs
  <2>2. InRange(board')
    BY <1>1, <2>1
  <2>3. UndoChain' /\ RedoChain' /\ Sane(doc')
    BY <1>4, UndoStep
  <2> QED BY <1>2, <2>2, <2>3 DEF HistoryInv
<1>5. CASE Redo
  <2>1. board' = board
    BY <1>5, RedoIs
  <2>2. InRange(board')
    BY <1>1, <2>1
  <2>3. UndoChain' /\ RedoChain' /\ Sane(doc')
    BY <1>5, RedoStep
  <2> QED BY <1>2, <2>2, <2>3 DEF HistoryInv
<1>6. CASE edits < MaxEdits /\ Edit
  <2>1. CASE Commanded
    <3>1. board' = board
      BY <1>1, <2>1, PushIs
    <3>2. InRange(board')
      BY <1>1, <3>1
    <3>3. UndoChain' /\ RedoChain' /\ Sane(doc')
      BY <2>1, PushStep
    <3> QED BY <1>2, <3>2, <3>3 DEF HistoryInv
  <2>2. CASE DroppedIn
    BY <2>2 DEF DroppedIn
  <2>3. CASE Forgotten
    <3>1. Leaves(doc', next') /\ undo' = <<>> /\ redo' = <<>> /\ board' = board
      BY <2>3 DEF Forgotten
    <3>2. Sane(doc') /\ InRange(board')
      BY <1>1, <3>1 DEF Leaves
    <3>3. \A n \in 1 .. Len(undo') : FALSE
      BY <3>1, EmptySeq
    <3>4. \A n \in 1 .. Len(redo') : FALSE
      BY <3>1, EmptySeq
    <3> QED BY <1>2, <3>2, <3>3, <3>4 DEF HistoryInv, UndoChain, RedoChain
  <2>4. CASE Aside
    <3>1. doc' = doc /\ undo' = undo /\ redo' = redo /\ InRange(board')
      BY <1>1, <2>4 DEF Aside
    <3>2. UndoChain' /\ RedoChain'
      BY <1>1, <3>1 DEF UndoChain, RedoChain
    <3>3. Sane(doc')
      BY <1>1, <3>1
    <3> QED BY <1>2, <3>1, <3>2, <3>3 DEF HistoryInv
  <2> QED BY <1>1, <1>6, <2>1, <2>2, <2>3, <2>4, EditIs
<1> QED BY <1>3, <1>4, <1>5, <1>6 DEF Next

\* A step that grows the redo stack is an undo, and one that grows the undo stack without
\* counting as an edit is a redo.
LEMMA ExactStep ==
    ASSUME HistoryInv, [Next]_vars
    PROVE  /\ Len(redo') > Len(redo)
                => doc = Last(undo).after /\ doc' = Last(undo).before
           /\ (Len(undo') > Len(undo) /\ edits' = edits)
                => doc = Last(redo).before /\ doc' = Last(redo).after
<1>1. TypeInv
  BY DEF HistoryInv
<1>2. /\ undo \in Seq(Commands(next)) /\ redo \in Seq(Commands(next)) /\ edits \in Nat
  BY <1>1, EditingAssumption DEF TypeInv
<1>3. Len(undo) \in Nat /\ Len(redo) \in Nat /\ Len(<<>>) = 0
  BY <1>2, LenProperties, EmptySeq
<1>4. CASE UNCHANGED vars
  <2>1. Len(undo') = Len(undo) /\ Len(redo') = Len(redo)
    BY <1>4 DEF vars
  <2> QED BY <1>3, <2>1
<1>5. CASE Undo
  <2>1. /\ doc = Last(undo).after /\ doc' = Last(undo).before
        /\ undo' = Front(undo) /\ undo # <<>>
    BY <1>5, UndoIs
  <2>2. Len(undo') = Len(undo) - 1
    BY <1>2, <2>1, PopIs
  <2>3. ~(Len(undo') > Len(undo))
    BY <1>3, <2>2
  <2> QED BY <2>1, <2>3
<1>6. CASE Redo
  <2>1. /\ doc = Last(redo).before /\ doc' = Last(redo).after
        /\ redo' = Front(redo) /\ redo # <<>>
    BY <1>6, RedoIs
  <2>2. Len(redo') = Len(redo) - 1
    BY <1>2, <2>1, PopIs
  <2>3. ~(Len(redo') > Len(redo))
    BY <1>3, <2>2
  <2> QED BY <2>1, <2>3
<1>7. CASE edits < MaxEdits /\ Edit
  <2>1. \/ redo' = <<>> /\ edits' = edits + 1
        \/ undo' = undo /\ redo' = redo
    <3>1. CASE Commanded
      BY <1>1, <3>1, PushIs
    <3>2. CASE DroppedIn
      BY <3>2 DEF DroppedIn
    <3>3. CASE Forgotten
      BY <3>3 DEF Forgotten
    <3>4. CASE Aside
      BY <3>4 DEF Aside
    <3> QED BY <1>1, <1>7, <3>1, <3>2, <3>3, <3>4, EditIs
  <2>2. ~(Len(redo') > Len(redo))
    BY <1>3, <2>1
  <2>3. ~(Len(undo') > Len(undo) /\ edits' = edits)
    BY <1>2, <1>3, <2>1
  <2> QED BY <2>2, <2>3
<1> QED BY <1>4, <1>5, <1>6, <1>7 DEF Next

\* Without drops from the desktop, which take no snapshot, every undo and redo finds the
\* document as the edit it reverts left it, and puts it back as it was (UndoStack::undo() and
\* redo()).
THEOREM UndoExactHolds == ASSUME "desktop" \notin DropsFrom PROVE Spec => UndoExact
<1>1. Init => HistoryInv
  BY HistoryStart
<1>2. HistoryInv /\ [Next]_vars => HistoryInv'
  BY HistoryStep
<1>3. HistoryInv /\ [Next]_vars =>
        [/\ Len(redo') > Len(redo)
              => doc = Last(undo).after /\ doc' = Last(undo).before
         /\ (Len(undo') > Len(undo) /\ edits' = edits)
              => doc = Last(redo).before /\ doc' = Last(redo).after]_vars
  BY ExactStep
<1> QED BY <1>1, <1>2, <1>3, PTL DEF Spec, UndoExact

\* Every dissolve stays within the clips of its cut (pruneTransitions()), undone edits included.
THEOREM DissolvesLegalHolds ==
    ASSUME "desktop" \notin DropsFrom PROVE Spec => []DissolvesLegal
<1>1. Init => HistoryInv
  BY HistoryStart
<1>2. HistoryInv /\ [Next]_vars => HistoryInv'
  BY HistoryStep
<1>3. HistoryInv => DissolvesLegal
  BY DEF HistoryInv, Sane, DissolvesLegal
<1> QED BY <1>1, <1>2, <1>3, PTL DEF Spec

\* No edit, undo or redo leaves a clip on frames its source does not have (trimLinkedFollowers(),
\* splitClipAt(), restorePositions()).
THEOREM SourceInRangeHolds ==
    ASSUME "desktop" \notin DropsFrom PROVE Spec => []SourceInRange
<1>1. Init => HistoryInv
  BY HistoryStart
<1>2. HistoryInv /\ [Next]_vars => HistoryInv'
  BY HistoryStep
<1>3. HistoryInv => SourceInRange
  BY DEF HistoryInv, Sane, SourceInRange
<1> QED BY <1>1, <1>2, <1>3, PTL DEF Spec

=============================================================================
