---------------------------- MODULE ApartProofs ----------------------------
(***************************************************************************)
(* Pictures are kept apart: what Editing's edits do to the rows of the     *)
(* clips. The first parts say so of the operators that make room and of    *)
(* those that only move sounds, the next ones of each of the six edits the *)
(* property is about, and the last one takes it through the history.       *)
(***************************************************************************)
EXTENDS EditingProofs

----------------------------------------------------------------------------
(* Clips that fit beside each other.                                       *)

\* Two clips on one row are two sounds, or two pictures one of which ends before the other.
Fit(a, b) ==
    (a.row = b.row /\ (~a.audio \/ ~b.audio))
        => ~a.audio /\ ~b.audio /\ (End(a) <= b.start \/ End(b) <= a.start)

\* The clips of D fit each other.
AllFit(cs, D) == \A i, j \in D : i # j => Fit(cs[i], cs[j])

LEMMA ApartIs == ASSUME NEW cs PROVE PicturesApart(cs) <=> AllFit(cs, DOMAIN cs)
BY DEF PicturesApart, AllFit, Fit

LEMMA FitSym == ASSUME NEW a, NEW b, Fit(a, b) PROVE Fit(b, a)
BY DEF Fit

\* x has the row and the kind of c, and if it is a picture covers nothing that c does not.
Within(x, c) ==
    /\ x.row = c.row /\ x.audio = c.audio
    /\ ~c.audio => c.start <= x.start /\ End(x) <= End(c)

\* What lies within a clip fits where the clip does.
LEMMA FitWithin ==
    ASSUME NEW a \in Clip, NEW b \in Clip, NEW x \in Clip, NEW y \in Clip,
           Within(x, a), Within(y, b), Fit(a, b)
    PROVE  Fit(x, y)
<1>1. /\ a.start \in Nat /\ b.start \in Nat /\ x.start \in Nat /\ y.start \in Nat
      /\ End(a) \in Nat /\ End(b) \in Nat /\ End(x) \in Nat /\ End(y) \in Nat
  BY ClipIs
<1> QED BY <1>1 DEF Fit, Within

\* The clips of E lie within clips of O that fit each other, and so fit each other too, but for
\* parts of one clip, which have to.
LEMMA AllWithin ==
    ASSUME NEW cs \in Layouts, NEW ds \in Layouts, NEW O \in SUBSET DOMAIN cs,
           NEW E \in SUBSET DOMAIN ds, NEW from, AllFit(cs, O),
           \A i \in E : from[i] \in O /\ Within(ds[i], cs[from[i]]),
           \A i, j \in E : i # j => from[i] # from[j] \/ Fit(ds[i], ds[j])
    PROVE  AllFit(ds, E)
<1> SUFFICES ASSUME NEW i \in E, NEW j \in E, i # j, from[i] # from[j] PROVE Fit(ds[i], ds[j])
  BY DEF AllFit
<1>1. /\ from[i] \in O /\ from[j] \in O /\ Within(ds[i], cs[from[i]]) /\ Within(ds[j], cs[from[j]])
  OBVIOUS
<1>2. cs[from[i]] \in Clip /\ cs[from[j]] \in Clip /\ ds[i] \in Clip /\ ds[j] \in Clip
  BY <1>1, LayoutIs
<1>3. Fit(cs[from[i]], cs[from[j]])
  BY <1>1 DEF AllFit
<1> QED BY <1>1, <1>2, <1>3, FitWithin

\* ds has the clips of cs, and its pictures are where they were.
Settled(cs, ds) ==
    /\ ds \in Layouts /\ DOMAIN ds = DOMAIN cs
    /\ \A i \in DOMAIN cs :
          /\ ds[i].row = cs[i].row /\ ds[i].audio = cs[i].audio
          /\ ~cs[i].audio => ds[i].start = cs[i].start /\ ds[i].dur = cs[i].dur

LEMMA SettledApart ==
    ASSUME NEW cs \in Layouts, NEW ds, Settled(cs, ds), PicturesApart(cs)
    PROVE  PicturesApart(ds)
BY DEF Settled, PicturesApart, End

\* A picture follows nothing, so that putting followers in their places moves sounds only.
LEMMA ResyncSettles == ASSUME NEW cs \in Layouts PROVE Settled(cs, Resync(cs))
<1> DEFINE ds == Resync(cs)
           At == Resynced(cs)
<1>1. Retimed(cs, ds)
  BY ResyncRetimes
<1>2. ds \in Layouts /\ DOMAIN ds = DOMAIN cs
  BY <1>1 DEF Retimed
<1>3. \A i \in DOMAIN cs : ds[i].row = cs[i].row /\ ds[i].audio = cs[i].audio /\ ds[i].dur = cs[i].dur
  <2> HIDE DEF ds
  <2> QED BY <1>1, RetimedSame
<1>4. ASSUME NEW i \in DOMAIN cs, ~cs[i].audio PROVE ds[i].start = cs[i].start
  <2>1. cs[i] \in Clip /\ 0 \notin DOMAIN cs
    BY LayoutIs
  <2>2. cs[i].parent = 0
    BY <1>4, <2>1 DEF Clip
  <2>3. ~Linked(cs, i)
    BY <2>1, <2>2 DEF Linked
  <2>4. At[i] = cs[i].start
    BY <2>3, ResyncedIs
  <2>5. ds[i] = [cs[i] EXCEPT !.start = At[i]]
    BY DEF Resync
  <2> HIDE DEF At, ds
  <2> QED BY <2>1, <2>4, <2>5 DEF Clip
<1> HIDE DEF ds, At
<1>5. Settled(cs, ds)
  BY <1>2, <1>3, <1>4 DEF Settled
<1> QED BY <1>5 DEF ds

\* Recording offsets moves nothing.
LEMMA SlippedSettles == ASSUME NEW cs \in Layouts, NEW moved PROVE Settled(cs, Slipped(cs, moved))
<1> DEFINE ds == Slipped(cs, moved)
<1>0. ds \in Layouts /\ DOMAIN ds = DOMAIN cs
  BY SlippedIs
<1>1. \A i \in DOMAIN cs :
         ds[i] \in {cs[i], [cs[i] EXCEPT !.off = cs[i].start - cs[cs[i].parent].start]}
  BY DEF Slipped
<1>2. \A i \in DOMAIN cs : cs[i] \in Clip
  BY LayoutIs
<1> HIDE DEF ds
<1>3. ASSUME NEW i \in DOMAIN cs
      PROVE  /\ ds[i].row = cs[i].row /\ ds[i].audio = cs[i].audio
             /\ ds[i].start = cs[i].start /\ ds[i].dur = cs[i].dur
  <2>1. CASE ds[i] = cs[i]
    BY <2>1
  <2>2. CASE ds[i] = [cs[i] EXCEPT !.off = cs[i].start - cs[cs[i].parent].start]
    BY <1>2, <2>2 DEF Clip
  <2> QED BY <1>1, <2>1, <2>2
<1>4. Settled(cs, ds)
  BY <1>0, <1>3 DEF Settled
<1> QED BY <1>4 DEF ds

----------------------------------------------------------------------------
(* Making room.                                                            *)

\* rippleClips() leaves what ends in time where it is, and pushes the rest clear of the room and
\* of each other.
LEMMA RippleIs ==
    ASSUME NEW cs \in Layouts, NEW S \in SUBSET DOMAIN cs, NEW start \in Nat, NEW dur \in Nat
    PROVE  LET ds  == Ripple(cs, S, start, dur)
               hit == {i \in S : End(cs[i]) > start}
           IN /\ ds \in Layouts /\ DOMAIN ds = DOMAIN cs
              /\ \A i \in DOMAIN cs : ds[i].row = cs[i].row /\ ds[i].audio = cs[i].audio
              /\ \A i \in DOMAIN cs \ hit : ds[i] = cs[i]
              /\ \A i \in hit : ds[i].start >= start + dur
              /\ \A i, j \in hit : i # j => End(ds[i]) <= ds[j].start \/ End(ds[j]) <= ds[i].start
<1> DEFINE hit == {i \in S : End(cs[i]) > start}
           from == start + dur
           At == Pushed(cs, hit, from)
           ds == Ripple(cs, S, start, dur)
<1>1. hit \in SUBSET DOMAIN cs /\ from \in Nat
  OBVIOUS
<1>2. Retimed(cs, ds)
  BY RippleRetimes
<1>3. ds = [i \in DOMAIN cs |-> IF i \in hit THEN [cs[i] EXCEPT !.start = At[i]] ELSE cs[i]]
  BY DEF Ripple
<1> HIDE DEF hit, from, ds
<1>4. /\ At \in [hit -> Nat]
      /\ \A i \in hit : At[i] = Max({cs[i].start, from}
                                    \cup {At[j] + cs[j].dur : j \in Ahead(cs, hit, i)})
  BY <1>1, PushedIs
<1> HIDE DEF At
<1>5. /\ ds \in Layouts /\ DOMAIN ds = DOMAIN cs
      /\ \A i \in DOMAIN cs : /\ ds[i].row = cs[i].row /\ ds[i].audio = cs[i].audio
                              /\ ds[i].dur = cs[i].dur
  <2>1. ds \in Layouts /\ DOMAIN ds = DOMAIN cs
    BY <1>2 DEF Retimed
  <2>2. \A i \in DOMAIN cs : /\ ds[i].row = cs[i].row /\ ds[i].audio = cs[i].audio
                            /\ ds[i].dur = cs[i].dur
    BY <1>2, RetimedSame
  <2> QED BY <2>1, <2>2
<1>6. \A i \in DOMAIN cs : cs[i] \in Clip /\ i \in Nat
  BY LayoutIs
<1>7. \A i \in DOMAIN cs : cs[i].start \in Nat /\ cs[i].dur \in Nat
  BY <1>6, ClipIs
<1>8. ASSUME NEW i \in hit
      PROVE  /\ ds[i].start = At[i] /\ End(ds[i]) = At[i] + cs[i].dur
             /\ At[i] \in Nat /\ At[i] >= from
             /\ \A j \in Ahead(cs, hit, i) : At[i] >= At[j] + cs[j].dur
  <2>1. ds[i].start = At[i]
    BY <1>1, <1>3, <1>6 DEF Clip
  <2>2. End(ds[i]) = At[i] + cs[i].dur
    BY <1>1, <1>5, <2>1 DEF End
  <2> DEFINE B == Ahead(cs, hit, i)
             h == [j \in B |-> At[j] + cs[j].dur]
             V == {cs[i].start, from} \cup {At[j] + cs[j].dur : j \in B}
  <2>3. B \subseteq hit /\ IsFiniteSet(B)
    <3>1. B \subseteq hit
      BY DEF Ahead
    <3>2. B \subseteq DOMAIN cs /\ IsFiniteSet(DOMAIN cs)
      BY <1>1, <3>1, LayoutIs
    <3> HIDE DEF B
    <3> QED BY <3>1, <3>2, FS_Subset
  <2>4. \A j \in B : h[j] \in Nat
    <3> SUFFICES ASSUME NEW j \in B PROVE At[j] + cs[j].dur \in Nat
      OBVIOUS
    <3>1. j \in hit /\ j \in DOMAIN cs
      BY <1>1, <2>3
    <3> HIDE DEF B
    <3> QED BY <1>4, <1>7, <3>1
  <2>5. V = {cs[i].start, from} \cup {h[j] : j \in B} /\ cs[i].start \in Nat
    BY <1>1, <1>7
  <2>6. At[i] = Max(V) /\ \A j \in B : h[j] = At[j] + cs[j].dur
    BY <1>4
  <2> HIDE DEF B, h, V
  <2>7. Max(V) \in Nat /\ Max(V) >= from /\ \A j \in B : Max(V) >= h[j]
    BY <1>1, <2>3, <2>4, <2>5, GreatestOf
  <2>8. \A j \in B : At[i] >= At[j] + cs[j].dur
    BY <2>6, <2>7
  <2> QED BY <2>1, <2>2, <2>6, <2>7, <2>8 DEF B
<1>9. \A i \in DOMAIN cs \ hit : ds[i] = cs[i]
  BY <1>3
<1>10. \A i \in hit : ds[i].start >= from
  BY <1>8
<1>11. ASSUME NEW i \in hit, NEW j \in hit, i # j
       PROVE  End(ds[i]) <= ds[j].start \/ End(ds[j]) <= ds[i].start
  <2>1. i \in Nat /\ j \in Nat /\ cs[i].start \in Nat /\ cs[j].start \in Nat
    BY <1>1, <1>6, <1>7
  <2>2. i \in Ahead(cs, hit, j) \/ j \in Ahead(cs, hit, i)
    BY <1>11, <2>1 DEF Ahead
  <2>3. End(ds[i]) \in Nat /\ End(ds[j]) \in Nat
    BY <1>1, <1>7, <1>8
  <2> QED BY <1>8, <2>2, <2>3
<1> QED BY <1>5, <1>9, <1>10, <1>11 DEF ds, hit, from

\* Room for a clip x among those of O: who is in the way is in S, and S is rippled.
LEMMA RoomMade ==
    ASSUME NEW cs \in Layouts, NEW O \in SUBSET DOMAIN cs, NEW S \in SUBSET O, NEW x \in Clip,
           AllFit(cs, O),
           \A j \in S : cs[j].row = x.row,
           \A j \in O : cs[j].row = x.row
               => /\ cs[j].audio = x.audio
                  /\ j \in S \/ x.audio \/ End(cs[j]) <= x.start
    PROVE  LET ds == Ripple(cs, S, x.start, x.dur)
           IN AllFit(ds, O) /\ \A j \in O : Fit(ds[j], x)
<1> DEFINE ds == Ripple(cs, S, x.start, x.dur)
           hit == {i \in S : End(cs[i]) > x.start}
<1>1. x.start \in Nat /\ x.dur \in Nat /\ x.dur > 0 /\ End(x) = x.start + x.dur
  BY ClipIs
<1>2. /\ ds \in Layouts /\ DOMAIN ds = DOMAIN cs
      /\ \A i \in DOMAIN cs : ds[i].row = cs[i].row /\ ds[i].audio = cs[i].audio
      /\ \A i \in DOMAIN cs \ hit : ds[i] = cs[i]
      /\ \A i \in hit : ds[i].start >= End(x)
      /\ \A i, j \in hit : i # j => End(ds[i]) <= ds[j].start \/ End(ds[j]) <= ds[i].start
  <2>1. S \in SUBSET DOMAIN cs
    OBVIOUS
  <2>2. /\ ds \in Layouts /\ DOMAIN ds = DOMAIN cs
        /\ \A i \in DOMAIN cs : ds[i].row = cs[i].row /\ ds[i].audio = cs[i].audio
    BY <1>1, <2>1, RippleIs
  <2>3. /\ \A i \in DOMAIN cs \ hit : ds[i] = cs[i]
        /\ \A i \in hit : ds[i].start >= x.start + x.dur
        /\ \A i, j \in hit : i # j => End(ds[i]) <= ds[j].start \/ End(ds[j]) <= ds[i].start
    BY <1>1, <2>1, RippleIs
  <2> HIDE DEF hit, ds
  <2> QED BY <1>1, <2>2, <2>3
<1>3. hit \in SUBSET S /\ \A i \in S \ hit : ~(End(cs[i]) > x.start)
  OBVIOUS
<1> HIDE DEF ds, hit
<1>4. \A i \in DOMAIN cs : cs[i] \in Clip /\ ds[i] \in Clip
  BY <1>2, LayoutIs
<1>5. ASSUME NEW i \in O PROVE ds[i].start \in Nat /\ End(ds[i]) \in Nat /\ End(cs[i]) \in Nat
  BY <1>4, ClipIs
<1>6. ASSUME NEW i \in O \ hit, cs[i].row = x.row, ~cs[i].audio
      PROVE  ds[i] = cs[i] /\ End(ds[i]) <= x.start
  <2>1. ds[i] = cs[i]
    BY <1>2
  <2>2. ~x.audio
    BY <1>6
  <2>3. CASE i \in S
    BY <1>1, <1>3, <1>5, <2>1, <2>3
  <2>4. CASE i \notin S
    BY <1>6, <2>1, <2>2, <2>4
  <2> QED BY <2>1, <2>3, <2>4
<1>7. ASSUME NEW i \in O PROVE Fit(ds[i], x)
  <2>1. SUFFICES ASSUME ds[i].row = x.row, ~ds[i].audio \/ ~x.audio
                 PROVE  ~ds[i].audio /\ ~x.audio /\ (End(ds[i]) <= x.start \/ End(x) <= ds[i].start)
    BY DEF Fit
  <2>2. cs[i].row = x.row /\ ~cs[i].audio /\ ~x.audio /\ ~ds[i].audio
    BY <1>2, <2>1
  <2>3. CASE i \in hit
    BY <1>1, <1>2, <1>5, <2>2, <2>3
  <2>4. CASE i \notin hit
    BY <1>6, <2>2, <2>4
  <2> QED BY <2>2, <2>3, <2>4
<1>8. ASSUME NEW i \in O, NEW j \in O, i # j PROVE Fit(ds[i], ds[j])
  <2>1. Fit(cs[i], cs[j])
    BY <1>8 DEF AllFit
  <2>2. SUFFICES ASSUME cs[i].row = cs[j].row, ~cs[i].audio, ~cs[j].audio
                 PROVE  End(ds[i]) <= ds[j].start \/ End(ds[j]) <= ds[i].start
    BY <1>2, <2>1 DEF Fit
  <2>3. /\ ds[i].start \in Nat /\ ds[j].start \in Nat /\ End(ds[i]) \in Nat /\ End(ds[j]) \in Nat
        /\ End(x) \in Nat /\ x.start \in Nat /\ x.start < End(x)
    BY <1>1, <1>5
  <2>4. CASE i \in hit /\ j \in hit
    BY <1>2, <1>8, <2>4
  <2>5. CASE i \in hit /\ j \notin hit
    <3>1. cs[j].row = x.row
      BY <1>3, <2>2, <2>5
    <3>2. End(ds[j]) <= x.start
      BY <1>6, <2>2, <2>5, <3>1
    <3>3. ds[i].start >= End(x)
      BY <1>2, <2>5
    <3> QED BY <2>3, <3>2, <3>3
  <2>6. CASE i \notin hit /\ j \in hit
    <3>1. cs[i].row = x.row
      BY <1>3, <2>2, <2>6
    <3>2. End(ds[i]) <= x.start
      BY <1>6, <2>2, <2>6, <3>1
    <3>3. ds[j].start >= End(x)
      BY <1>2, <2>6
    <3> QED BY <2>3, <3>2, <3>3
  <2>7. CASE i \notin hit /\ j \notin hit
    <3>1. ds[i] = cs[i] /\ ds[j] = cs[j]
      BY <1>2, <2>7
    <3> QED BY <2>1, <2>2, <3>1 DEF Fit
  <2> QED BY <2>4, <2>5, <2>6, <2>7
<1> QED BY <1>7, <1>8 DEF AllFit, ds

\* A row whose clips fit is of one kind, that of its last clip.
LEMMA RowUniform ==
    ASSUME NEW cs \in Layouts, NEW W, AllFit(cs, DOMAIN cs \ W),
           NEW row, NEW audio \in BOOLEAN, RowTakes(cs, row, W, audio)
    PROVE  \A j \in DOMAIN cs \ W : cs[j].row = row => cs[j].audio = audio
<1> SUFFICES ASSUME NEW j \in DOMAIN cs \ W, cs[j].row = row PROVE cs[j].audio = audio
  OBVIOUS
<1> DEFINE on == {i \in DOMAIN cs \ W : cs[i].row = row}
           m == Max(on)
<1>1. cs[Max(on)].audio = audio
  BY DEF RowTakes
<1>2. on \in SUBSET DOMAIN cs /\ j \in on /\ \A i \in on : i \in DOMAIN cs \ W /\ cs[i].row = row
  OBVIOUS
<1>3. IsFiniteSet(DOMAIN cs) /\ \A i \in DOMAIN cs : i \in Int /\ cs[i] \in Clip
  BY LayoutIs
<1> HIDE DEF on
<1>4. IsFiniteSet(on) /\ on \subseteq Int /\ on # {}
  BY <1>2, <1>3, FS_Subset
<1>5. m \in on
  BY <1>4, MaxIs
<1> HIDE DEF m
<1>6. m \in DOMAIN cs \ W /\ cs[m].row = row /\ cs[m] \in Clip /\ cs[j] \in Clip
  BY <1>2, <1>3, <1>5
<1>7. CASE m = j
  BY <1>1, <1>7 DEF m
<1>8. CASE m # j
  <2>1. Fit(cs[m], cs[j])
    BY <1>6, <1>8 DEF AllFit
  <2>2. cs[m].audio \in BOOLEAN /\ cs[j].audio \in BOOLEAN
    BY <1>6, ClipIs
  <2>3. cs[m].audio = cs[j].audio
    BY <1>6, <2>1, <2>2 DEF Fit
  <2> QED BY <1>1, <2>3 DEF m
<1> QED BY <1>7, <1>8

\* So do the clips of D still, when its pictures stay where they are.
LEMMA SameFit ==
    ASSUME NEW cs, NEW ds, NEW D, AllFit(cs, D),
           \A i \in D : /\ ds[i].row = cs[i].row /\ ds[i].audio = cs[i].audio
                        /\ ~cs[i].audio => ds[i].start = cs[i].start /\ ds[i].dur = cs[i].dur
    PROVE  AllFit(ds, D)
BY DEF AllFit, Fit, End

\* One more clip.
LEMMA OneMore ==
    ASSUME NEW cs, NEW D, NEW i, AllFit(cs, D \ {i}), \A j \in D \ {i} : Fit(cs[j], cs[i])
    PROVE  AllFit(cs, D)
BY FitSym DEF AllFit

----------------------------------------------------------------------------
(* Trimming.                                                               *)

\* A trim leaves the other pictures to the ripple.
LEMMA RecutApart ==
    ASSUME NEW n, doc \in Docs(n), NEW i \in Ids, NEW c \in Clip, NEW slips \in SUBSET {i},
           c.row = doc.clips[i].row, c.audio = doc.clips[i].audio, PicturesApart(doc.clips)
    PROVE  PicturesApart(Recut(i, c, slips).clips)
<1> DEFINE old == doc.clips
           one == [old EXCEPT ![i] = c]
           own == TrimFollowers(one, i, c.src - old[i].src, c.dur - old[i].dur)
           slid == Slipped(own, slips)
           room == MakeRoom(slid, i)
           O == Ids \ {i}
           S == {j \in O : slid[j].row = slid[i].row}
<1>1. /\ old \in Layouts /\ Ids = DOMAIN old /\ IsFiniteSet(Ids)
      /\ \A k \in Ids : old[k] \in Clip /\ k \in Nat \ {0}
  BY HereIs
<1>2. one \in Layouts /\ DOMAIN one = Ids
  <2>1. one \in [Ids -> Clip] /\ Ids \in SUBSET (Nat \ {0})
    BY <1>1
  <2> QED BY <1>1, <2>1, IsLayout
<1>3. \A k \in Ids : one[k] \in Clip /\ (k # i => one[k] = old[k]) /\ one[i] = c
  BY <1>1, <1>2, LayoutIs
<1> HIDE DEF one
<1>4. own \in Layouts /\ DOMAIN own = Ids
  <2>1. c.src - old[i].src \in Int /\ c.dur - old[i].dur \in Int
    BY <1>1, ClipIs
  <2> QED BY <1>2, <2>1, TrimFollowersIs
<1>5. ASSUME NEW k \in Ids
      PROVE  /\ own[k].row = one[k].row /\ own[k].audio = one[k].audio
             /\ ~one[k].audio => own[k] = one[k]
  <2>1. one[k] \in Clip
    BY <1>3
  <2>2. CASE one[k].parent # i
    BY <1>2, <2>2 DEF TrimFollowers
  <2>3. CASE one[k].parent = i
    <3>1. PICK x, y, z : own[k] = [one[k] EXCEPT !.start = x, !.src = y, !.dur = z]
      BY <1>2, <2>3 DEF TrimFollowers
    <3>2. own[k].row = one[k].row /\ own[k].audio = one[k].audio
      BY <2>1, <3>1 DEF Clip
    <3>3. one[k].audio
      BY <1>1, <2>1, <2>3 DEF Clip
    <3> QED BY <3>2, <3>3
  <2> QED BY <2>2, <2>3
<1> HIDE DEF own
<1>6. Settled(own, slid)
  BY <1>4, SlippedSettles
<1>7. slid \in Layouts /\ DOMAIN slid = Ids
  BY <1>4, <1>6 DEF Settled
<1> HIDE DEF slid
<1>8. ASSUME NEW k \in Ids
      PROVE  /\ slid[k].row = old[k].row /\ slid[k].audio = old[k].audio
             /\ (~old[k].audio /\ k # i) => slid[k].start = old[k].start /\ slid[k].dur = old[k].dur
  BY <1>3, <1>4, <1>5, <1>6 DEF Settled
<1>9. AllFit(old, Ids)
  BY <1>1, ApartIs
<1>10. AllFit(slid, O)
  <2>1. AllFit(old, O)
    BY <1>9 DEF AllFit
  <2> QED BY <1>8, <2>1, SameFit
<1>11. \A j \in O : slid[j].row = slid[i].row => slid[j].audio = slid[i].audio
  <2> SUFFICES ASSUME NEW j \in O, slid[j].row = slid[i].row PROVE slid[j].audio = slid[i].audio
    OBVIOUS
  <2>1. Fit(old[j], old[i]) /\ old[j].row = old[i].row
    BY <1>8, <1>9 DEF AllFit
  <2>2. old[j].audio \in BOOLEAN /\ old[i].audio \in BOOLEAN
    BY <1>1, ClipIs
  <2>3. old[j].audio = old[i].audio
    BY <2>1, <2>2 DEF Fit
  <2> QED BY <1>8, <2>3
<1>12. room = Ripple(slid, S, slid[i].start, slid[i].dur)
  BY <1>7 DEF MakeRoom
<1>13. /\ slid[i] \in Clip /\ O \in SUBSET Ids /\ S \in SUBSET O /\ i \notin S
       /\ \A j \in O : slid[j].row = slid[i].row => j \in S
       /\ \A j \in S : slid[j].row = slid[i].row
  BY <1>7, LayoutIs
<1> HIDE DEF S, O, room
<1>14. AllFit(room, O) /\ \A j \in O : Fit(room[j], slid[i])
  BY <1>7, <1>10, <1>11, <1>12, <1>13, RoomMade, ZenonT(30)
<1>15. room \in Layouts /\ DOMAIN room = Ids /\ room[i] = slid[i]
  <2>1. slid[i].start \in Nat /\ slid[i].dur \in Nat
    BY <1>13, ClipIs
  <2>2. S \in SUBSET DOMAIN slid
    BY <1>7, <1>13
  <2>3. Retimed(slid, room)
    BY <1>7, <1>12, <2>1, <2>2, RippleRetimes
  <2>4. room[i] = slid[i]
    BY <1>7, <1>12, <1>13 DEF Ripple
  <2> QED BY <1>7, <2>3, <2>4 DEF Retimed
<1>16. AllFit(room, Ids)
  BY <1>14, <1>15, OneMore DEF O
<1>17. PicturesApart(room)
  BY <1>15, <1>16, ApartIs
<1>18. PicturesApart(Resync(room))
  BY <1>15, <1>17, ResyncSettles, SettledApart
<1>19. Recut(i, c, slips).clips = Resync(room)
  BY DEF Recut, room, slid, own, one
<1> QED BY <1>18, <1>19

----------------------------------------------------------------------------
(* Adding.                                                                 *)

\* addMediaFileAt() ripples the row clear of the new clip.
LEMMA AddApart ==
    ASSUME next \in Nat \ {0}, doc \in Docs(next), NEW new \in Clip,
           RowTakes(doc.clips, new.row, {}, new.audio), PicturesApart(doc.clips)
    PROVE  LET pushed == Ripple(doc.clips, {i \in Ids : doc.clips[i].row = new.row}, new.start, new.dur)
               clips  == Resync([i \in Ids \cup {next} |-> IF i = next THEN new ELSE pushed[i]])
           IN PicturesApart(clips)
<1> DEFINE S == {i \in Ids : doc.clips[i].row = new.row}
           pushed == Ripple(doc.clips, S, new.start, new.dur)
           I == Ids \cup {next}
           all == [i \in I |-> IF i = next THEN new ELSE pushed[i]]
<1>1. /\ doc.clips \in Layouts /\ IsFiniteSet(Ids) /\ Ids = DOMAIN doc.clips
      /\ \A i \in Ids : i \in Nat /\ i # 0 /\ i < next
  BY HereIs
<1>2. AllFit(doc.clips, Ids) /\ new.audio \in BOOLEAN /\ new.start \in Nat /\ new.dur \in Nat
  BY <1>1, ApartIs, ClipIs
<1>3. \A j \in Ids : doc.clips[j].row = new.row => doc.clips[j].audio = new.audio
  <2> DEFINE W == {}
             row == new.row
             audio == new.audio
  <2>1. AllFit(doc.clips, DOMAIN doc.clips \ W) /\ DOMAIN doc.clips \ W = Ids
    BY <1>1, <1>2
  <2>2. RowTakes(doc.clips, row, W, audio) /\ audio \in BOOLEAN
    BY <1>2
  <2> HIDE DEF W, row, audio
  <2>3. \A j \in DOMAIN doc.clips \ W : doc.clips[j].row = row => doc.clips[j].audio = audio
    BY <1>1, <2>1, <2>2, RowUniform
  <2> QED BY <2>1, <2>3 DEF row, audio
<1>4. /\ S \in SUBSET Ids /\ Ids \in SUBSET Ids /\ \A j \in S : doc.clips[j].row = new.row
      /\ \A j \in Ids : doc.clips[j].row = new.row => j \in S
  OBVIOUS
<1> HIDE DEF S
<1>5. AllFit(pushed, Ids) /\ \A j \in Ids : Fit(pushed[j], new)
  BY <1>1, <1>2, <1>3, <1>4, RoomMade
<1>6. pushed \in Layouts /\ DOMAIN pushed = Ids
  <2>1. S \in SUBSET DOMAIN doc.clips
    BY <1>1, <1>4
  <2>2. Retimed(doc.clips, pushed)
    BY <1>1, <1>2, <2>1, RippleRetimes
  <2> HIDE DEF pushed
  <2> QED BY <1>1, <2>2 DEF Retimed
<1> HIDE DEF pushed
<1>7. next \notin Ids
  BY <1>1
<1>8. all \in Layouts /\ DOMAIN all = I
  <2>1. \A i \in I : all[i] \in Clip
    BY <1>6, LayoutIs
  <2>2. all \in [I -> Clip]
    BY <2>1
  <2>3. I \in SUBSET (Nat \ {0}) /\ IsFiniteSet(I)
    BY <1>1, FS_AddElement
  <2> HIDE DEF all, I
  <2> QED BY <2>2, <2>3, IsLayout
<1>9. AllFit(all, I)
  <2>1. all[next] = new /\ \A i \in Ids : all[i] = pushed[i]
    BY <1>7
  <2>2. I \ {next} = Ids
    BY <1>7
  <2> HIDE DEF all, I
  <2>3. AllFit(all, I \ {next})
    BY <1>5, <2>1, <2>2 DEF AllFit
  <2>4. \A j \in I \ {next} : Fit(all[j], all[next])
    BY <1>5, <2>1, <2>2
  <2> QED BY <2>3, <2>4, OneMore
<1> HIDE DEF all, I
<1>10. PicturesApart(all)
  BY <1>8, <1>9, ApartIs
<1>11. PicturesApart(Resync(all))
  BY <1>8, <1>10, ResyncSettles, SettledApart
<1> QED BY <1>11 DEF all, I, pushed, S

----------------------------------------------------------------------------
(* Cutting.                                                                *)

\* The parts of a clip lie within it, on either side of the frame.
LEMMA PartsWithin ==
    ASSUME NEW c \in Clip, NEW f \in Nat, f < End(c)
    PROVE  /\ c.start < f => Within(UpTo(c, f), c) /\ End(UpTo(c, f)) = f
           /\ c.start <= f => Within(From(c, f), c) /\ From(c, f).start = f
<1>1. c.start \in Nat /\ c.dur \in Nat /\ End(c) = c.start + c.dur
  BY ClipIs
<1>2. ASSUME c.start < f PROVE Within(UpTo(c, f), c) /\ End(UpTo(c, f)) = f
  <2> DEFINE x == UpTo(c, f)
  <2>1. x.row = c.row /\ x.audio = c.audio /\ x.start = c.start /\ x.dur = f - c.start
    BY DEF UpTo, Clip
  <2> HIDE DEF x
  <2>2. End(x) = f
    BY <1>1, <2>1 DEF End
  <2>3. Within(x, c)
    BY <1>1, <2>1, <2>2 DEF Within
  <2> QED BY <2>2, <2>3 DEF x
<1>3. ASSUME c.start <= f PROVE Within(From(c, f), c) /\ From(c, f).start = f
  <2> DEFINE x == From(c, f)
  <2>1. x.row = c.row /\ x.audio = c.audio /\ x.start = f /\ x.dur = End(c) - f
    BY DEF From, Clip
  <2> HIDE DEF x
  <2>2. End(x) = End(c)
    BY <1>1, <2>1 DEF End
  <2>3. Within(x, c)
    BY <1>1, <1>3, <2>1, <2>2 DEF Within
  <2> QED BY <2>1, <2>3 DEF x
<1> QED BY <1>2, <1>3

\* A tail is made of one clip, and no two tails of the same.
LEMMA MadeOfIs ==
    ASSUME NEW n, NEW S, NEW k \in TailIds(n, S)
    PROVE  MadeOf(k, n, S) \in S /\ TailOf(MadeOf(k, n, S), n, S) = k
<1>1. \E j \in S : TailOf(j, n, S) = k
  BY DEF TailIds
<1> QED BY <1>1 DEF MadeOf

\* splitClipAt() leaves two clips where there was one.
LEMMA CutApart ==
    ASSUME next \in Nat \ {0}, doc \in Docs(next), NEW f \in Nat, NEW cut \in SUBSET Ids,
           \A k \in cut : doc.clips[k].start < f /\ f < End(doc.clips[k]),
           PicturesApart(doc.clips)
    PROVE  PicturesApart(CutAt(cut, f))
<1> DEFINE T == TailIds(next, cut)
           Of(k) == MadeOf(k, next, cut)
           ds == CutAt(cut, f)
           from == [k \in Ids \cup T |-> IF k \in Ids THEN k ELSE Of(k)]
<1>1. /\ doc.clips \in Layouts /\ Ids = DOMAIN doc.clips
      /\ \A k \in Ids : doc.clips[k] \in Clip
  BY HereIs
<1>2. \A k \in T : Of(k) \in cut /\ TailOf(Of(k), next, cut) = k
  BY MadeOfIs
<1>3. ds \in Layouts
  <2>1. Edited([clips |-> ds, trans |-> Prune(ds, doc.trans)], next + Cardinality(cut))
    BY RazorEdits
  <2> HIDE DEF ds
  <2>2. [clips |-> ds, trans |-> Prune(ds, doc.trans)] \in Docs(next + Cardinality(cut))
    BY <2>1 DEF Edited
  <2> QED BY <2>2, DocIs
<1>4. DOMAIN ds = Ids \cup T
  BY DEF CutAt
<1>5. \A k \in Ids \ cut : ds[k] = doc.clips[k]
  BY DEF CutAt
<1>6. \A k \in cut : ds[k] = UpTo(doc.clips[k], f)
  BY DEF CutAt
<1>7. \A k \in T \ Ids : \E p : ds[k] = [From(doc.clips[Of(k)], f) EXCEPT !.parent = p]
  BY <1>2 DEF CutAt
<1> HIDE DEF ds, T, Of
<1>8. ASSUME NEW k \in Ids
      PROVE  /\ from[k] = k /\ Within(ds[k], doc.clips[k])
             /\ k \in cut => End(ds[k]) = f
  <2>1. from[k] = k /\ doc.clips[k] \in Clip
    BY <1>1
  <2>2. CASE k \in cut
    BY <1>6, <2>1, <2>2, PartsWithin
  <2>3. CASE k \notin cut
    <3>1. doc.clips[k].start <= doc.clips[k].start /\ End(doc.clips[k]) <= End(doc.clips[k])
      BY <2>1, ClipIs
    <3> QED BY <1>5, <2>1, <2>3, <3>1 DEF Within
  <2> QED BY <2>1, <2>2, <2>3
<1>9. ASSUME NEW k \in T, k \notin Ids
      PROVE  /\ from[k] = Of(k) /\ Of(k) \in cut /\ Of(k) \in Ids
             /\ Within(ds[k], doc.clips[Of(k)]) /\ ds[k].start = f
  <2> DEFINE c == doc.clips[Of(k)]
             x == From(c, f)
  <2>1. from[k] = Of(k) /\ Of(k) \in cut /\ Of(k) \in Ids /\ c \in Clip
    BY <1>1, <1>2, <1>9
  <2>2. c.start < f /\ f < End(c) /\ c.start \in Nat
    BY <2>1, ClipIs
  <2>3. x \in Clip
    <3> HIDE DEF c
    <3> QED BY <2>1, <2>2, PartsOf
  <2>4. Within(x, c) /\ x.start = f
    <3> HIDE DEF c
    <3> QED BY <2>1, <2>2, PartsWithin
  <2>5. PICK p : ds[k] = [x EXCEPT !.parent = p]
    BY <1>7, <1>9
  <2> HIDE DEF x, c
  <2>6. ds[k].row = x.row /\ ds[k].audio = x.audio /\ ds[k].start = x.start /\ ds[k].dur = x.dur
    BY <2>3, <2>5 DEF Clip
  <2>7. Within(ds[k], c) /\ ds[k].start = f
    BY <2>4, <2>6 DEF Within, End
  <2> QED BY <2>1, <2>7 DEF c
<1>10. ASSUME NEW k \in Ids, NEW l \in T, l \notin Ids, from[k] = from[l]
       PROVE  Fit(ds[k], ds[l])
  <2>1. k \in cut /\ k = Of(l)
    BY <1>8, <1>9, <1>10
  <2>2. End(ds[k]) = f /\ ds[l].start = f
    BY <1>8, <1>9, <1>10, <2>1
  <2>3. ds[k].audio = doc.clips[k].audio /\ ds[l].audio = doc.clips[k].audio
    BY <1>8, <1>9, <1>10, <2>1 DEF Within
  <2> QED BY <2>2, <2>3 DEF Fit
<1>11. ASSUME NEW k \in T, NEW l \in T, k \notin Ids, l \notin Ids, from[k] = from[l]
       PROVE  k = l
  <2>1. Of(k) = Of(l)
    BY <1>9, <1>11
  <2> QED BY <1>2, <2>1
<1>12. \A k \in Ids \cup T : from[k] \in Ids /\ Within(ds[k], doc.clips[from[k]])
  BY <1>8, <1>9
<1>13. \A k, l \in Ids \cup T : k # l => from[k] # from[l] \/ Fit(ds[k], ds[l])
  <2> SUFFICES ASSUME NEW k \in Ids \cup T, NEW l \in Ids \cup T, k # l, from[k] = from[l]
               PROVE  Fit(ds[k], ds[l])
    OBVIOUS
  <2>1. CASE k \in Ids /\ l \in Ids
    BY <1>8, <2>1
  <2>2. CASE k \in Ids /\ l \notin Ids
    BY <1>10, <2>2
  <2>3. CASE k \notin Ids /\ l \in Ids
    BY <1>10, <2>3, FitSym
  <2>4. CASE k \notin Ids /\ l \notin Ids
    BY <1>11, <2>4
  <2> QED BY <2>1, <2>2, <2>3, <2>4
<1> HIDE DEF from
<1>14. AllFit(ds, Ids \cup T)
  <2>1. AllFit(doc.clips, Ids) /\ Ids \in SUBSET DOMAIN doc.clips /\ Ids \cup T \in SUBSET DOMAIN ds
    BY <1>1, <1>4, ApartIs
  <2> QED BY <1>1, <1>3, <1>12, <1>13, <2>1, AllWithin
<1>15. PicturesApart(ds)
  BY <1>4, <1>14, ApartIs
<1> QED BY <1>15 DEF ds

----------------------------------------------------------------------------
(* Moving one clip.                                                        *)

\* One dropped clip is dropped once.
LEMMA DropOne ==
    ASSUME NEW cs, NEW n, NEW i \in Nat \ {0}, NEW ripple
    PROVE  DropAll(cs, n, {i}, ripple) = Drop([clips |-> cs, next |-> n], i, {i}, ripple)
<1> DEFINE v == [clips |-> cs, next |-> n]
           w == Drop(v, i, {i}, ripple)
           Stage(p, k) == IF k = 0 THEN v
                          ELSE IF k \in {i} THEN Drop(p[k - 1], k, {i}, ripple) ELSE p[k - 1]
           At == Drops(cs, n, {i}, ripple)
           f == [k \in 0 .. i |-> IF k < i THEN v ELSE w]
<1>1. Max({i}) = i
  <2>1. IsFiniteSet({i}) /\ {i} \subseteq Int /\ {i} # {}
    BY FS_Singleton
  <2> QED BY <2>1, MaxIs
<1> HIDE DEF w
<1>2. f = [k \in 0 .. i |-> Stage(f, k)]
  <2>1. ASSUME NEW k \in 0 .. i PROVE f[k] = Stage(f, k)
    <3>1. k # 0 => k - 1 \in 0 .. i /\ k - 1 < i /\ f[k - 1] = v
      OBVIOUS
    <3>2. CASE k < i
      BY <3>1, <3>2
    <3>3. CASE k = i
      <4>1. f[k] = w /\ Stage(f, k) = Drop(v, i, {i}, ripple)
        BY <3>1, <3>3
      <4> QED BY <4>1 DEF w
    <3> QED BY <3>2, <3>3
  <2> HIDE DEF Stage
  <2> QED BY <2>1
<1>3. At = [k \in 0 .. i |-> Stage(At, k)]
  <2>1. \E g : g = [k \in 0 .. i |-> Stage(g, k)]
    BY <1>2
  <2> QED BY <1>1, <2>1 DEF Drops
<1> HIDE DEF At
<1>4. \A k \in 0 .. i : At[k] = Stage(At, k)
  <2> HIDE DEF Stage
  <2> QED BY <1>3
<1> DEFINE Bad == {k \in 0 .. i - 1 : At[k] # v}
<1>5. Bad = {}
  <2> SUFFICES ASSUME Bad # {} PROVE FALSE
    OBVIOUS
  <2>1. Bad \subseteq Nat
    OBVIOUS
  <2>2. PICK k \in Bad : \A l \in Bad : k <= l
    BY <2>1, LeastNat
  <2>3. k \in 0 .. i /\ k \in Nat /\ k # i /\ At[k] # v
    BY <2>2
  <2>4. k # 0 /\ At[k] = At[k - 1]
    BY <1>4, <2>3
  <2>5. k - 1 \in Bad
    BY <2>2, <2>3, <2>4
  <2> HIDE DEF Bad
  <2> QED BY <2>2, <2>3, <2>5
<1>6. At[i] = w
  <2>1. At[i - 1] = v /\ i \in 0 .. i
    BY <1>5
  <2> QED BY <1>4, <2>1 DEF w
<1> QED BY <1>1, <1>6 DEF DropAll, At, w

\* applyOverwriteDrop() takes what the dropped clip covers.
LEMMA OverwriteApart ==
    ASSUME NEW n \in Nat, NEW i, NEW d \in Stages({i}, n, FALSE), AllFit(d.clips, DOMAIN d.clips \ {i}),
           \A j \in DOMAIN d.clips \ {i} :
              d.clips[j].row = d.clips[i].row => d.clips[j].audio = d.clips[i].audio
    PROVE  PicturesApart(OverwriteDrop(d.clips, d.next, i, {i}).clips)
<1> DEFINE cs == d.clips
           S == cs[i].start
           E == End(cs[i])
           O == DOMAIN cs \ {i}
           hit == {j \in O : cs[j].row = cs[i].row /\ End(cs[j]) > S /\ cs[j].start < E}
           split == {j \in hit : cs[j].start < S /\ End(cs[j]) > E}
           gone == {j \in hit : cs[j].start >= S /\ End(cs[j]) <= E}
           T == TailIds(d.next, split)
           Of(k) == MadeOf(k, d.next, split)
           ds == OverwriteDrop(cs, d.next, i, {i}).clips
           I == (DOMAIN cs \ gone) \cup T
           from == [k \in I |-> IF k \in DOMAIN cs THEN k ELSE Of(k)]
<1>1. /\ cs \in Layouts /\ i \in DOMAIN cs /\ \A j \in DOMAIN cs : cs[j] \in Clip
      /\ O \in SUBSET DOMAIN cs
  BY LayoutIs DEF Stages
<1>2. S \in Nat /\ E \in Nat /\ S < E
  BY <1>1, ClipIs
<1>3. ds \in Layouts
  <2>1. OverwriteDrop(cs, d.next, i, {i}) \in Stages({i}, n, FALSE)
    BY OverwriteStays
  <2> HIDE DEF ds
  <2> QED BY <2>1 DEF Stages, ds
<1>4. ds = [k \in I |-> IF k \in DOMAIN cs
                         THEN IF k \notin hit THEN cs[k]
                              ELSE IF cs[k].start < S THEN UpTo(cs[k], S) ELSE From(cs[k], E)
                         ELSE From(cs[Of(k)], E)]
  BY DEF OverwriteDrop
<1>5. \A k \in T : Of(k) \in split /\ TailOf(Of(k), d.next, split) = k
  BY MadeOfIs
<1>6. /\ \A k \in split : k \in hit /\ cs[k].start < S /\ End(cs[k]) > E
      /\ \A k \in hit \ gone : End(cs[k]) > S /\ cs[k].start < E
                               /\ (cs[k].start < S \/ ~(End(cs[k]) <= E))
      /\ \A k \in hit : k \in O
  <2>1. \A k \in hit : k \in O /\ End(cs[k]) > S /\ cs[k].start < E
    <3> HIDE DEF O, S, E
    <3> QED OBVIOUS
  <2>2. \A k \in split : k \in hit /\ cs[k].start < S /\ End(cs[k]) > E
    <3> HIDE DEF hit, S, E
    <3> QED OBVIOUS
  <2>3. \A k \in hit : k \in gone \/ ~(cs[k].start >= S) \/ ~(End(cs[k]) <= E)
    <3> HIDE DEF hit, S, E
    <3> QED OBVIOUS
  <2>4. \A k \in hit : cs[k].start \in Nat /\ End(cs[k]) \in Nat
    BY <1>1, <2>1, ClipIs
  <2> HIDE DEF hit, split, gone, S, E
  <2> QED BY <1>2, <2>1, <2>2, <2>3, <2>4
<1>c. \A k \in O \ hit : cs[k].row = cs[i].row => ~(End(cs[k]) > S /\ cs[k].start < E)
  <2> HIDE DEF O, S, E
  <2> QED OBVIOUS
<1>t. \A k \in T : k \notin DOMAIN cs
  <2>1. /\ IsFiniteSet(DOMAIN cs) /\ split \subseteq DOMAIN cs /\ DOMAIN cs \subseteq Nat
        /\ d.next \in Nat /\ \A k \in DOMAIN cs : k < d.next
    BY LayoutIs DEF Stages, Below
  <2> HIDE DEF split, cs
  <2>2. split \subseteq Nat /\ IsFiniteSet(split)
    BY <2>1, FS_Subset
  <2>3. \A k \in T : k \in Nat /\ k >= d.next
    BY <2>1, <2>2, TailsNew
  <2> HIDE DEF T
  <2> QED BY <2>1, <2>3
<1>7. \A j \in DOMAIN cs : cs[j].start \in Nat /\ End(cs[j]) \in Nat /\ Within(cs[j], cs[j])
  <2> SUFFICES ASSUME NEW j \in DOMAIN cs
               PROVE  cs[j].start \in Nat /\ End(cs[j]) \in Nat /\ Within(cs[j], cs[j])
    OBVIOUS
  <2>1. cs[j].start \in Nat /\ End(cs[j]) \in Nat
    BY <1>1, ClipIs
  <2> QED BY <2>1 DEF Within
<1>8. i \in I /\ ds[i] = cs[i]
  <2>1. i \notin hit /\ i \in I
    BY <1>1
  <2> HIDE DEF hit, I, Of
  <2> QED BY <1>1, <1>4, <2>1
<1> DEFINE x == cs[i]
<1>i. DOMAIN ds = I /\ \A k \in I : k \in DOMAIN cs \ gone \/ (k \in T /\ k \notin DOMAIN cs)
  <2> HIDE DEF T, gone
  <2> QED BY <1>4, <1>t
<1>k. \A k \in I : ds[k] = IF k \in DOMAIN cs
                           THEN IF k \notin hit THEN cs[k]
                                ELSE IF cs[k].start < S THEN UpTo(cs[k], S) ELSE From(cs[k], E)
                           ELSE From(cs[Of(k)], E)
  <2> HIDE DEF I, hit, Of
  <2> QED BY <1>4
<1>f. \A k \in I : from[k] = IF k \in DOMAIN cs THEN k ELSE Of(k)
  <2> HIDE DEF I, Of
  <2> QED OBVIOUS
<1>g. DOMAIN cs \cap O = O /\ \A k \in I \ {i} : k \in DOMAIN cs => k \in O /\ k \notin gone
  BY <1>i
<1> HIDE DEF ds, I, T, Of, gone, split, hit, S, E, from
<1>x. x.start = S /\ End(x) = E /\ x.row = cs[i].row
  BY DEF S, E
<1>9. ASSUME NEW k \in I \ {i}, k \in DOMAIN cs
      PROVE  /\ from[k] = k /\ k \in O /\ Within(ds[k], cs[k])
             /\ ds[k].row = x.row => ds[k].start >= E \/ End(ds[k]) <= S
             /\ (k \in hit /\ cs[k].start < S) => End(ds[k]) = S
  <2>1. from[k] = k /\ k \in O /\ cs[k] \in Clip
    BY <1>1, <1>9, <1>f, <1>g
  <2>2. cs[k].start \in Nat /\ End(cs[k]) \in Nat
    BY <1>7, <1>9
  <2>3. CASE k \notin hit
    <3>1. ds[k] = cs[k]
      BY <1>9, <1>k, <2>3
    <3>2. Within(ds[k], cs[k])
      BY <1>7, <1>9, <3>1
    <3>3. ds[k].row = x.row => ~(End(ds[k]) > S /\ ds[k].start < E)
      BY <1>c, <1>x, <2>1, <2>3, <3>1
    <3> QED BY <1>2, <2>1, <2>2, <2>3, <3>1, <3>2, <3>3
  <2>4. CASE k \in hit /\ cs[k].start < S
    <3>1. ds[k] = UpTo(cs[k], S)
      BY <1>9, <1>k, <2>4
    <3>2. S < End(cs[k])
      BY <1>2, <1>6, <1>9, <1>g, <2>2, <2>4
    <3>3. Within(ds[k], cs[k]) /\ End(ds[k]) = S
      BY <1>2, <2>1, <2>4, <3>1, <3>2, PartsWithin
    <3> QED BY <1>2, <2>1, <3>3
  <2>5. CASE k \in hit /\ ~(cs[k].start < S)
    <3>1. ds[k] = From(cs[k], E)
      BY <1>9, <1>k, <2>5
    <3>2. E < End(cs[k]) /\ cs[k].start <= E
      BY <1>2, <1>6, <1>9, <1>g, <2>2, <2>5
    <3>3. Within(ds[k], cs[k]) /\ ds[k].start = E
      BY <1>2, <2>1, <3>1, <3>2, PartsWithin
    <3> QED BY <1>2, <2>1, <2>5, <3>3
  <2> QED BY <2>3, <2>4, <2>5
<1>10. ASSUME NEW k \in I, k \notin DOMAIN cs
       PROVE  /\ from[k] = Of(k) /\ Of(k) \in split /\ Of(k) \in O
              /\ Within(ds[k], cs[Of(k)]) /\ ds[k].start = E
  <2>1. k \in T /\ from[k] = Of(k) /\ ds[k] = From(cs[Of(k)], E)
    BY <1>10, <1>f, <1>i, <1>k
  <2>2. Of(k) \in split /\ Of(k) \in O /\ Of(k) \in DOMAIN cs
    BY <1>1, <1>5, <1>6, <2>1
  <2>3. E < End(cs[Of(k)]) /\ cs[Of(k)].start <= E /\ cs[Of(k)] \in Clip
    BY <1>1, <1>2, <1>6, <1>7, <2>2
  <2>4. Within(ds[k], cs[Of(k)]) /\ ds[k].start = E
    BY <1>2, <2>1, <2>3, PartsWithin
  <2> QED BY <2>1, <2>2, <2>4
<1>11. ASSUME NEW k \in I \ {i} PROVE Fit(ds[k], ds[i])
  <2>1. from[k] \in O /\ Within(ds[k], cs[from[k]])
    BY <1>9, <1>10
  <2>2. ds[k].row = x.row => ds[k].audio = x.audio
    BY <2>1 DEF Within
  <2>3. ds[k].row = x.row => ds[k].start >= E \/ End(ds[k]) <= S
    BY <1>2, <1>9, <1>10
  <2>4. ds[k].start \in Nat
    BY <1>3, <1>i, LayoutIs, ClipIs
  <2> QED BY <1>2, <1>8, <1>x, <2>2, <2>3, <2>4 DEF Fit
<1>12. ASSUME NEW k \in I \ {i}, NEW l \in I, k \in DOMAIN cs, l \notin DOMAIN cs, from[k] = from[l]
       PROVE  Fit(ds[k], ds[l])
  <2>1. k \in split /\ k = Of(l)
    BY <1>9, <1>10, <1>12
  <2>2. End(ds[k]) = S /\ ds[l].start = E
    BY <1>6, <1>9, <1>10, <1>12, <2>1
  <2>3. ds[k].audio = cs[k].audio /\ ds[l].audio = cs[k].audio
    BY <1>9, <1>10, <1>12, <2>1 DEF Within
  <2> QED BY <1>2, <2>2, <2>3 DEF Fit
<1>13. ASSUME NEW k \in I, NEW l \in I, k \notin DOMAIN cs, l \notin DOMAIN cs, from[k] = from[l]
       PROVE  k = l
  <2>1. Of(k) = Of(l) /\ k \in T /\ l \in T
    BY <1>10, <1>13, <1>i
  <2> QED BY <1>5, <2>1
<1>14. \A k \in I \ {i} : from[k] \in O /\ Within(ds[k], cs[from[k]])
  BY <1>9, <1>10
<1>15. \A k, l \in I \ {i} : k # l => from[k] # from[l] \/ Fit(ds[k], ds[l])
  <2> SUFFICES ASSUME NEW k \in I \ {i}, NEW l \in I \ {i}, k # l, from[k] = from[l]
               PROVE  Fit(ds[k], ds[l])
    OBVIOUS
  <2>1. CASE k \in DOMAIN cs /\ l \in DOMAIN cs
    BY <1>9, <2>1
  <2>2. CASE k \in DOMAIN cs /\ l \notin DOMAIN cs
    BY <1>12, <2>2
  <2>3. CASE k \notin DOMAIN cs /\ l \in DOMAIN cs
    BY <1>12, <2>3, FitSym
  <2>4. CASE k \notin DOMAIN cs /\ l \notin DOMAIN cs
    BY <1>13, <2>4
  <2> QED BY <2>1, <2>2, <2>3, <2>4
<1>16. AllFit(ds, I \ {i})
  <2>1. I \ {i} \in SUBSET DOMAIN ds /\ AllFit(cs, O)
    BY <1>i
  <2> HIDE DEF O, cs
  <2> QED BY <1>1, <1>3, <1>14, <1>15, <2>1, AllWithin
<1>17. AllFit(ds, I)
  BY <1>11, <1>16, OneMore
<1>18. PicturesApart(ds)
  BY <1>17, <1>i, ApartIs
<1> QED BY <1>18 DEF ds

\* A clip that a ripple drop jumps past ends where the dropped one starts, or before.
LEMMA JumpClear ==
    ASSUME NEW n, doc \in Docs(n), NEW i \in Ids, NEW j \in Ids, j # i, NEW dRow \in Int, NEW by \in Int,
           PicturesApart(doc.clips), ~doc.clips[j].audio,
           doc.clips[j].row = doc.clips[i].row + dRow,
           doc.clips[j].start < doc.clips[i].start + by + Jump({i}, dRow, by)
    PROVE  End(doc.clips[j]) <= doc.clips[i].start + by + Jump({i}, dRow, by)
<1> DEFINE J == Jump({i}, dRow, by)
           at == doc.clips[i].start + by
<1>1. /\ J \in Nat
      /\ \A q \in {i}, k \in Ids \ {i} : Inside(q, k, dRow, by) => Past(q, k, by) <= J
      /\ J = 0 \/ \E q \in {i}, k \in Ids \ {i} : Inside(q, k, dRow, by) /\ J = Past(q, k, by)
  <2> DEFINE sel == {i}
             K == Jump(sel, dRow, by)
  <2>1. sel \in SUBSET Ids
    OBVIOUS
  <2> HIDE DEF sel, at
  <2>2. /\ K \in Nat
        /\ \A q \in sel, k \in Ids \ sel : Inside(q, k, dRow, by) => Past(q, k, by) <= K
        /\ K = 0 \/ \E q \in sel, k \in Ids \ sel : Inside(q, k, dRow, by) /\ K = Past(q, k, by)
    BY <2>1, JumpIs
  <2>3. K = J
    BY DEF sel
  <2> HIDE DEF J, K
  <2> QED BY <2>2, <2>3 DEF sel
<1>2. \A k \in Ids : doc.clips[k].start \in Nat /\ End(doc.clips[k]) \in Nat
  BY HereIs, ClipIs
<1>3. at \in Int /\ Ids = DOMAIN doc.clips
  BY <1>2, HereIs
<1> HIDE DEF J
<1>4. J = 0 \/ \E k \in Ids \ {i} : Inside(i, k, dRow, by) /\ J = End(doc.clips[k]) - at
  BY <1>1 DEF Past
<1>5. CASE Inside(i, j, dRow, by)
  <2>1. End(doc.clips[j]) - at <= J
    BY <1>1, <1>5 DEF Past
  <2> HIDE DEF at
  <2> QED BY <1>1, <1>2, <1>3, <2>1 DEF J, at
<1>6. CASE ~Inside(i, j, dRow, by)
  <2>1. doc.clips[j].start >= at \/ End(doc.clips[j]) <= at
    BY <1>2, <1>3, <1>6 DEF Inside
  <2>2. CASE End(doc.clips[j]) <= at
    <3> HIDE DEF at
    <3> QED BY <1>1, <1>2, <1>3, <2>2 DEF J, at
  <2>3. CASE doc.clips[j].start >= at
    <3>1. doc.clips[j].start < at + J
      BY DEF J
    <3>2. J # 0
      <4> HIDE DEF at
      <4> QED BY <1>1, <1>2, <1>3, <2>3, <3>1
    <3>3. PICK k \in Ids \ {i} : Inside(i, k, dRow, by) /\ J = End(doc.clips[k]) - at
      BY <1>4, <3>2
    <3>4. doc.clips[k].row = doc.clips[j].row /\ doc.clips[k].start < at
      BY <3>3 DEF Inside
    <3> HIDE DEF at
    <3>5. k # j
      BY <1>2, <1>3, <2>3, <3>4
    <3>6. End(doc.clips[j]) <= doc.clips[k].start \/ End(doc.clips[k]) <= doc.clips[j].start
      BY <1>3, <3>4, <3>5 DEF PicturesApart
    <3>7. End(doc.clips[j]) > doc.clips[j].start
      BY HereIs, ClipIs
    <3> QED BY <1>1, <1>2, <1>3, <2>3, <3>1, <3>3, <3>4, <3>6, <3>7
  <2> QED BY <2>1, <2>2, <2>3
<1> QED BY <1>5, <1>6

\* One clip that is moved takes its room.
LEMMA MoveApart ==
    ASSUME next \in Nat \ {0}, doc \in Docs(next), NEW i \in Ids, NEW dRow \in Int, NEW by0 \in Int,
           NEW by \in Int, NEW ripple \in BOOLEAN,
           by = by0 + (IF ripple THEN Jump({i}, dRow, by0) ELSE 0),
           doc.clips[i].row + dRow \in Nat, doc.clips[i].start + by \in Nat,
           Lands({i}, dRow), PicturesApart(doc.clips)
    PROVE  LET d == Dragged({i}, dRow, by, FALSE)
               room == DropAll(d.clips, d.next, d.landed, ripple)
           IN PicturesApart(Resync(Slipped(room.clips, d.landed)))
<1> DEFINE d == Dragged({i}, dRow, by, FALSE)
           cs == d.clips
           v == [clips |-> cs, next |-> next]
           x == Shifted(doc.clips[i], dRow, by)
           room == DropAll(d.clips, d.next, d.landed, ripple)
           O == Ids \ {i}
           row == doc.clips[i].row + dRow
<1>1. /\ doc.clips \in Layouts /\ Ids = DOMAIN doc.clips
      /\ \A k \in Ids : doc.clips[k] \in Clip /\ k \in Nat \ {0}
  BY HereIs
<1>2. d.next = next /\ d.landed = {i} /\ DOMAIN cs = Ids /\ cs[i] = x
      /\ \A k \in O : cs[k] = doc.clips[k]
  BY DEF Dragged
<1>3. v \in Stages({i}, next, FALSE) /\ cs \in Layouts
  <2>1. {i} \in SUBSET Ids /\ {i} # {} /\ FALSE \in BOOLEAN /\ next \in Nat
    OBVIOUS
  <2>2. \A k \in {i} : doc.clips[k].row + dRow \in Nat /\ doc.clips[k].start + by \in Nat
    OBVIOUS
  <2>3. [clips |-> d.clips, next |-> d.next] \in Stages(d.landed, next, FALSE)
    <3> HIDE DEF d
    <3>1. \A ranged \in BOOLEAN : (ranged => Sane(doc))
             => [clips |-> d.clips, next |-> d.next] \in Stages(d.landed, next, ranged)
      BY <2>1, <2>2, DraggedIs DEF d
    <3> QED BY <3>1
  <2>4. v \in Stages({i}, next, FALSE)
    BY <1>2, <2>3
  <2> HIDE DEF d
  <2> QED BY <2>4 DEF Stages
<1> HIDE DEF cs, d
<1>4. x \in Clip /\ x.row = row /\ x.audio = doc.clips[i].audio /\ x.start = doc.clips[i].start + by
  <2>1. x \in Clip
    BY <1>1, ShiftedIs
  <2> QED BY <1>1, <2>1 DEF Shifted, Clip
<1> HIDE DEF x
<1>5. AllFit(doc.clips, Ids) /\ AllFit(doc.clips, O) /\ AllFit(cs, O)
  <2>1. AllFit(doc.clips, Ids)
    BY <1>1, ApartIs
  <2> QED BY <1>2, <2>1 DEF AllFit
<1>6. \A j \in O : cs[j].row = x.row => cs[j].audio = x.audio
  <2> DEFINE W == {i}
             audio == doc.clips[i].audio
  <2>1. RowTakes(doc.clips, row, W, audio)
    BY DEF Lands
  <2>2. audio \in BOOLEAN
    BY <1>1, ClipIs
  <2>3. AllFit(doc.clips, DOMAIN doc.clips \ W) /\ DOMAIN doc.clips \ W = O
    BY <1>1, <1>5
  <2> HIDE DEF W, audio, row
  <2>4. \A j \in DOMAIN doc.clips \ W : doc.clips[j].row = row => doc.clips[j].audio = audio
    BY <1>1, <2>1, <2>2, <2>3, RowUniform
  <2> QED BY <1>2, <1>4, <2>3, <2>4 DEF audio
<1>7. room = Drop(v, i, {i}, ripple)
  <2>1. i \in Nat \ {0}
    BY <1>1
  <2>2. DropAll(cs, next, {i}, ripple) = Drop(v, i, {i}, ripple)
    BY <2>1, DropOne
  <2> QED BY <1>2, <2>2 DEF cs
<1>8. v.clips = cs /\ v.next = next /\ next \in Nat /\ DOMAIN v.clips \ {i} = O
  BY <1>2
<1> HIDE DEF v, O
<1>9. ASSUME ~ripple PROVE room.clips \in Layouts /\ PicturesApart(room.clips)
  <2>1. room.clips = OverwriteDrop(v.clips, v.next, i, {i}).clips
    BY <1>7, <1>9 DEF Drop
  <2>2. room \in Stages({i}, next, FALSE)
    BY <1>3, <1>7, <1>8, <1>9, OverwriteStays DEF Drop
  <2>3. PicturesApart(room.clips)
    <3> HIDE DEF room
    <3>1. AllFit(v.clips, DOMAIN v.clips \ {i})
      BY <1>5, <1>8
    <3>2. \A j \in DOMAIN v.clips \ {i} :
             v.clips[j].row = v.clips[i].row => v.clips[j].audio = v.clips[i].audio
      BY <1>2, <1>6, <1>8
    <3> QED BY <1>3, <1>8, <2>1, <3>1, <3>2, OverwriteApart
  <2> HIDE DEF room
  <2> QED BY <2>2, <2>3 DEF Stages
<1>10. ASSUME ripple PROVE room.clips \in Layouts /\ PicturesApart(room.clips)
  <2> DEFINE S == {j \in O : cs[j].row = cs[i].row /\ cs[j].start >= cs[i].start}
             ds == Ripple(cs, S, x.start, x.dur)
  <2>1. room.clips = ds
    <3>1. room.clips = RippleDrop(cs, i, {i})
      <4>1. v.clips \in Layouts /\ v = [clips |-> v.clips, next |-> v.next]
        BY <1>3 DEF Stages
      <4> QED BY <1>7, <1>8, <1>10, <4>1 DEF Drop
    <3> QED BY <1>2, <3>1 DEF RippleDrop, O
  <2>2. \A j \in O : (cs[j].row = x.row /\ ~(cs[j].start >= x.start) /\ ~x.audio)
                        => End(cs[j]) <= x.start
    <3> SUFFICES ASSUME NEW j \in O, cs[j].row = x.row, ~(cs[j].start >= x.start), ~x.audio
                 PROVE  End(cs[j]) <= x.start
      OBVIOUS
    <3> DEFINE J == Jump({i}, dRow, by0)
    <3>1. j \in Ids /\ j # i /\ cs[j] = doc.clips[j] /\ ~doc.clips[j].audio
      BY <1>2, <1>6 DEF O
    <3>2. doc.clips[j].start \in Nat /\ doc.clips[i].start \in Nat
      BY <1>1, <3>1, ClipIs
    <3>3. J \in Nat
      <4>1. {i} \in SUBSET Ids
        OBVIOUS
      <4> QED BY <4>1, JumpIs
    <3>4. x.start = doc.clips[i].start + by0 + J
      <4>1. by = by0 + J
        BY <1>10
      <4> HIDE DEF J
      <4> QED BY <1>4, <3>2, <3>3, <4>1
    <3>5. doc.clips[j].start < doc.clips[i].start + by0 + J
      <4> HIDE DEF J
      <4> QED BY <3>1, <3>2, <3>3, <3>4
    <3>6. doc.clips[j].row = doc.clips[i].row + dRow
      BY <1>4, <3>1
    <3>7. End(doc.clips[j]) <= doc.clips[i].start + by0 + J
      BY <3>1, <3>5, <3>6, JumpClear
    <3> QED BY <3>1, <3>4, <3>7
  <2>3. /\ S \in SUBSET O /\ O \in SUBSET DOMAIN cs
        /\ \A j \in S : cs[j].row = x.row
        /\ \A j \in O : cs[j].row = x.row => j \in S \/ ~(cs[j].start >= x.start)
    BY <1>2 DEF O
  <2> HIDE DEF S
  <2>4. \A j \in O : cs[j].row = x.row
           => cs[j].audio = x.audio /\ (j \in S \/ x.audio \/ End(cs[j]) <= x.start)
    BY <1>6, <2>2, <2>3
  <2>5. AllFit(ds, O) /\ \A j \in O : Fit(ds[j], x)
    BY <1>3, <1>4, <1>5, <2>3, <2>4, RoomMade
  <2>6. ds \in Layouts /\ DOMAIN ds = Ids /\ ds[i] = x
    <3>1. x.start \in Nat /\ x.dur \in Nat /\ S \in SUBSET DOMAIN cs
      BY <1>4, <2>3, ClipIs
    <3>2. Retimed(cs, ds)
      BY <1>3, <3>1, RippleRetimes
    <3>3. i \notin S
      BY <2>3 DEF O
    <3>4. ds[i] = x
      BY <1>2, <3>3 DEF Ripple
    <3> HIDE DEF ds
    <3> QED BY <1>2, <3>2, <3>4 DEF Retimed
  <2> HIDE DEF ds
  <2>7. AllFit(ds, Ids)
    BY <2>5, <2>6, OneMore DEF O
  <2>8. PicturesApart(ds)
    BY <2>6, <2>7, ApartIs
  <2> QED BY <2>1, <2>6, <2>8
<1>11. room.clips \in Layouts /\ PicturesApart(room.clips)
  <2> HIDE DEF room
  <2> QED BY <1>9, <1>10
<1> HIDE DEF room
<1>12. Settled(room.clips, Slipped(room.clips, d.landed))
  BY <1>11, SlippedSettles
<1>13. /\ PicturesApart(Slipped(room.clips, d.landed))
       /\ Slipped(room.clips, d.landed) \in Layouts
  BY <1>11, <1>12, SettledApart DEF Settled
<1>14. PicturesApart(Resync(Slipped(room.clips, d.landed)))
  BY <1>13, ResyncSettles, SettledApart
<1> QED BY <1>14 DEF room, d

----------------------------------------------------------------------------
(* Pasting.                                                                *)

\* Of two clips of the clipboard one is pasted before the other, and their copies get two ids.
LEMMA PasteOrder ==
    ASSUME next \in Nat \ {0}, board \in Layouts,
           NEW i \in DOMAIN board, NEW j \in DOMAIN board, i # j
    PROVE  (i \in Before(j) \/ j \in Before(i)) /\ PasteId(i) # PasteId(j)
<1>1. \A k \in DOMAIN board : /\ k \in Nat /\ board[k].row \in Nat /\ board[k].start \in Nat
  BY LayoutIs, ClipIs
<1>2. i \in Before(j) \/ j \in Before(i)
  BY <1>1 DEF Before
<1>3. ASSUME NEW k \in DOMAIN board, NEW l \in DOMAIN board, k \in Before(l)
      PROVE  PasteId(k) # PasteId(l)
  <2>1. Before(k) \subseteq Before(l) /\ k \notin Before(k)
    BY <1>1, <1>3 DEF Before
  <2>2. IsFiniteSet(Before(l))
    <3>1. IsFiniteSet(DOMAIN board) /\ Before(l) \subseteq DOMAIN board
      BY LayoutIs DEF Before
    <3> QED BY <3>1, FS_Subset
  <2>3. IsFiniteSet(Before(k)) /\ Cardinality(Before(k)) # Cardinality(Before(l))
    BY <1>3, <2>1, <2>2, FS_Subset
  <2>4. Cardinality(Before(k)) \in Nat /\ Cardinality(Before(l)) \in Nat
    BY <2>2, <2>3, FS_CardinalityType
  <2> QED BY <2>3, <2>4 DEF PasteId
<1> QED BY <1>2, <1>3

\* The copy of clip i on its row, and that it fits in with what is there before it.
Pasted(i, f) == [PasteCopy(i, f) EXCEPT !.row = PasteRows(f)[i]]
FitsIn(i, f) ==
    /\ \A k \in Ids : Fit(Pasted(i, f), doc.clips[k])
    /\ \A j \in Before(i) : Fit(Pasted(i, f), Pasted(j, f))

\* Copies that fit in each fit together.
LEMMA CopiesFit ==
    ASSUME next \in Nat \ {0}, doc \in Docs(next), board \in Layouts, NEW f \in Nat,
           NEW S \in SUBSET DOMAIN board, \A i \in S : FitsIn(i, f), PicturesApart(doc.clips)
    PROVE  LET cs == WithCopies(S, PasteRows(f), f)
           IN /\ cs \in Layouts /\ AllFit(cs, DOMAIN cs)
              /\ Ids \subseteq DOMAIN cs /\ \A k \in Ids : cs[k] = doc.clips[k]
              /\ \A i \in S : PasteId(i) \in DOMAIN cs /\ cs[PasteId(i)] = Pasted(i, f)
<1> DEFINE Row == PasteRows(f)
           N == {PasteId(i) : i \in S}
           Of(k) == CHOOSE i \in S : PasteId(i) = k
           cs == WithCopies(S, Row, f)
<1>1. cs \in Layouts /\ Ids \subseteq DOMAIN cs /\ \A k \in Ids : cs[k] = doc.clips[k]
  <2>1. \A i \in S : Row[i] \in Nat
    BY PasteRowsAre
  <2> HIDE DEF Row
  <2> QED BY <2>1, WithCopiesIs
<1>2. DOMAIN cs = Ids \cup N /\ \A k \in N \ Ids : cs[k] = Pasted(Of(k), f)
  BY DEF WithCopies, Pasted
<1>3. \A k \in N : Of(k) \in S /\ PasteId(Of(k)) = k
  <2> SUFFICES ASSUME NEW k \in N PROVE Of(k) \in S /\ PasteId(Of(k)) = k
    OBVIOUS
  <2>1. \E i \in S : PasteId(i) = k
    OBVIOUS
  <2> QED BY <2>1
<1>4. \A i \in S : PasteId(i) \in N /\ PasteId(i) \notin Ids
  <2>1. \A i \in S : PasteId(i) >= next /\ PasteId(i) \in Nat
    BY BoardIs
  <2>2. \A k \in Ids : k < next /\ k \in Nat
    BY HereIs
  <2> QED BY <2>1, <2>2
<1> HIDE DEF N, Of, cs
<1>5. ASSUME NEW i \in S PROVE PasteId(i) \in DOMAIN cs /\ cs[PasteId(i)] = Pasted(i, f)
  <2> DEFINE k == PasteId(i)
  <2>1. k \in N /\ k \notin Ids /\ Of(k) \in S /\ PasteId(Of(k)) = k
    BY <1>3, <1>4
  <2>2. Of(k) = i
    <3> HIDE DEF k
    <3> QED BY <2>1, PasteOrder DEF k
  <2> QED BY <1>2, <2>1, <2>2
<1>6. \A k \in DOMAIN cs : k \in Ids \/ \E i \in S : k = PasteId(i)
  BY <1>2, <1>3
<1>7. ASSUME NEW k \in DOMAIN cs, NEW l \in DOMAIN cs, k # l PROVE Fit(cs[k], cs[l])
  <2>1. CASE k \in Ids /\ l \in Ids
    <3>1. AllFit(doc.clips, Ids)
      BY HereIs, ApartIs
    <3>2. Fit(doc.clips[k], doc.clips[l])
      BY <1>7, <2>1, <3>1 DEF AllFit
    <3> QED BY <1>1, <2>1, <3>2
  <2>2. ASSUME NEW i \in S, NEW m \in Ids PROVE Fit(Pasted(i, f), cs[m])
    BY <1>1 DEF FitsIn
  <2>3. ASSUME NEW i \in S, NEW j \in S, i # j PROVE Fit(Pasted(i, f), Pasted(j, f))
    <3>1. i \in Before(j) \/ j \in Before(i)
      BY <2>3, PasteOrder
    <3>2. Fit(Pasted(i, f), Pasted(j, f)) \/ Fit(Pasted(j, f), Pasted(i, f))
      BY <3>1 DEF FitsIn
    <3> QED BY <3>2, FitSym
  <2>4. CASE k \in Ids /\ l \notin Ids
    <3>1. PICK j \in S : l = PasteId(j)
      BY <1>6, <2>4
    <3> QED BY <1>5, <2>2, <2>4, <3>1, FitSym
  <2>5. CASE k \notin Ids /\ l \in Ids
    <3>1. PICK i \in S : k = PasteId(i)
      BY <1>6, <2>5
    <3> QED BY <1>5, <2>2, <2>5, <3>1
  <2>6. CASE k \notin Ids /\ l \notin Ids
    <3>1. PICK i \in S : k = PasteId(i)
      BY <1>6, <2>6
    <3>2. PICK j \in S : l = PasteId(j)
      BY <1>6, <2>6
    <3> QED BY <1>5, <1>7, <2>3, <3>1, <3>2
  <2> QED BY <2>1, <2>4, <2>5, <2>6
<1> QED BY <1>1, <1>5, <1>7 DEF AllFit, cs

\* A copy gets a row of its kind where nothing is in its way.
LEMMA NextFits ==
    ASSUME next \in Nat \ {0}, doc \in Docs(next), board \in Layouts, NEW f \in Nat,
           NEW i \in DOMAIN board, \A j \in Before(i) : FitsIn(j, f), PicturesApart(doc.clips)
    PROVE  FitsIn(i, f)
<1> DEFINE Row == PasteRows(f)
           S == Before(i)
           cs == WithCopies(S, Row, f)
           c == PasteCopy(i, f)
           x == Pasted(i, f)
           r == Row[i]
<1>1. S \in SUBSET DOMAIN board
  BY BoardIs
<1>2. /\ cs \in Layouts /\ AllFit(cs, DOMAIN cs)
      /\ Ids \subseteq DOMAIN cs /\ \A k \in Ids : cs[k] = doc.clips[k]
      /\ \A j \in S : PasteId(j) \in DOMAIN cs /\ cs[PasteId(j)] = Pasted(j, f)
  <2> HIDE DEF S
  <2>1. \A j \in S : FitsIn(j, f)
    BY DEF S
  <2> QED BY <1>1, <2>1, CopiesFit
<1>3. r \in Nat /\ r = FreeRow(cs, c)
  BY PasteRowsAre
<1>4. c \in Clip /\ [c EXCEPT !.row = r] \in Clip
  <2> HIDE DEF r
  <2> QED BY <1>3, PasteCopyIs
<1>5. x = [c EXCEPT !.row = r]
  BY DEF Pasted
<1> HIDE DEF cs, c, x, r, S
<1>6. x.row = r /\ x.audio = c.audio /\ x.start = c.start /\ End(x) = End(c) /\ x \in Clip
  <2>1. x.row = r /\ x.audio = c.audio /\ x.start = c.start /\ x.dur = c.dur /\ x \in Clip
    BY <1>4, <1>5 DEF Clip
  <2> QED BY <2>1 DEF End
<1>7. /\ RowTakes(cs, r, {}, c.audio)
      /\ \A k \in DOMAIN cs : cs[k].row = r => End(c) <= cs[k].start \/ End(cs[k]) <= c.start
  BY <1>2, <1>3, <1>4, FreeRowIs
<1>8. \A k \in DOMAIN cs : cs[k].row = r => cs[k].audio = c.audio
  <2> DEFINE W == {}
             audio == c.audio
  <2>1. AllFit(cs, DOMAIN cs \ W) /\ RowTakes(cs, r, W, audio) /\ DOMAIN cs \ W = DOMAIN cs
    BY <1>2, <1>7
  <2>2. audio \in BOOLEAN
    BY <1>4, ClipIs
  <2> HIDE DEF W, audio
  <2>3. \A k \in DOMAIN cs \ W : cs[k].row = r => cs[k].audio = audio
    BY <1>2, <2>1, <2>2, RowUniform
  <2> QED BY <2>1, <2>3 DEF audio
<1>9. \A k \in DOMAIN cs : Fit(x, cs[k])
  BY <1>6, <1>7, <1>8 DEF Fit
<1> QED BY <1>2, <1>9 DEF FitsIn, x, S

\* pasteClips().
LEMMA PasteApart ==
    ASSUME next \in Nat \ {0}, doc \in Docs(next), board \in Layouts, NEW f \in Nat,
           PicturesApart(doc.clips)
    PROVE  PicturesApart(WithCopies(DOMAIN board, PasteRows(f), f))
<1> DEFINE B == DOMAIN board
           before == [i \in B |-> Before(i)]
           T == {i \in B : FitsIn(i, f)}
<1>1. Ranked(B, before)
  BY BoardIs
<1>2. \A i \in B : before[i] \subseteq T => i \in T
  <2> SUFFICES ASSUME NEW i \in B, before[i] \subseteq T PROVE FitsIn(i, f)
    OBVIOUS
  <2>1. \A j \in Before(i) : FitsIn(j, f)
    OBVIOUS
  <2> QED BY <2>1, NextFits
<1>3. T \in SUBSET B /\ \A i \in T : FitsIn(i, f)
  OBVIOUS
<1> HIDE DEF T, before, B
<1>4. T = B
  BY <1>1, <1>2, <1>3, OrderedInduction
<1>5. \A i \in DOMAIN board : FitsIn(i, f)
  BY <1>3, <1>4 DEF B
<1> DEFINE cs == WithCopies(DOMAIN board, PasteRows(f), f)
<1>6. AllFit(cs, DOMAIN cs)
  <2>1. DOMAIN board \in SUBSET DOMAIN board
    OBVIOUS
  <2> QED BY <1>5, <2>1, CopiesFit
<1> HIDE DEF cs
<1>7. PicturesApart(cs)
  BY <1>6, ApartIs
<1> QED BY <1>7 DEF cs

----------------------------------------------------------------------------
(* The edits.                                                              *)

\* The edits that make the room they take.
Careful == {"TRIM CLIP", "SET CLIP RANGE", "CUT CLIP", "MOVE CLIP", "ADD CLIP", "PASTE CLIPS"}

\* If the step pushed one of these, it kept the pictures apart.
Tidy ==
    (undo' # <<>> /\ undo' # undo /\ Last(undo').label \in Careful /\ PicturesApart(doc.clips))
        => PicturesApart(doc'.clips)

LEMMA PushedLast ==
    ASSUME TypeInv, NEW label, NEW kind, NEW geom, NEW d, Push(label, kind, geom, d)
    PROVE  doc' = d /\ Last(undo').label = label
<1> DEFINE c == [label |-> label, kind |-> kind, geom |-> geom, before |-> doc, after |-> d]
           S == Commands(next) \cup {c}
<1>1. doc' = d /\ undo' = Append(undo, c) /\ c.label = label
  BY DEF Push
<1> HIDE DEF c
<1>2. undo \in Seq(Commands(next)) /\ Commands(next) \subseteq S /\ c \in S
  BY DEF TypeInv
<1>3. undo \in Seq(S)
  <2> HIDE DEF S
  <2> QED BY <1>2, SeqMonotonic
<1> HIDE DEF S
<1>4. Append(undo, c)[Len(Append(undo, c))] = c
  BY <1>2, <1>3, ChainGrows
<1>5. Last(undo') = c
  BY <1>1, <1>4 DEF Last
<1> QED BY <1>1, <1>5

LEMMA OtherTidy ==
    ASSUME TypeInv, NEW label, NEW kind, NEW geom, NEW d, Push(label, kind, geom, d),
           label \notin Careful
    PROVE  Tidy
BY PushedLast DEF Tidy

LEMMA KeptTidy ==
    ASSUME TypeInv, NEW label, NEW kind, NEW geom, NEW d, Push(label, kind, geom, d),
           PicturesApart(doc.clips) => PicturesApart(d.clips)
    PROVE  Tidy
BY PushedLast DEF Tidy

LEMMA TrimTidy ==
    ASSUME TypeInv, NEW i \in Ids, NEW f \in Frame, Trim(i, f) \/ SetRange(i, f)
    PROVE  Tidy
<1>1. doc \in Docs(next) /\ doc.clips[i] \in Clip /\ f \in Nat
  BY Found
<1>2. ASSUME NEW c \in Clip, c.audio = doc.clips[i].audio, c.row = doc.clips[i].row,
             NEW slips \in SUBSET {i}, NEW label,
             Push(label, "positions", Geom(i), Recut(i, c, slips))
      PROVE  Tidy
  <2>1. PicturesApart(doc.clips) => PicturesApart(Recut(i, c, slips).clips)
    BY <1>1, <1>2, RecutApart
  <2> QED BY <1>2, <2>1, KeptTidy
<1>3. CASE Trim(i, f)
  <2>1. PICK c \in {RightAt(doc.clips[i], f), LeftAt(doc.clips[i], f)} :
           Push("TRIM CLIP", "positions", Geom(i), Recut(i, c, {i}))
    BY <1>3 DEF Trim
  <2>2. c \in Clip /\ c.audio = doc.clips[i].audio
    BY <1>1, RightIs, LeftIs
  <2>3. c.row = doc.clips[i].row
    BY <1>1 DEF RightAt, LeftAt, Clip
  <2> QED BY <1>2, <2>1, <2>2, <2>3
<1>4. CASE SetRange(i, f)
  <2> DEFINE old == doc.clips[i]
             last == old.src + old.dur - 1
             at == AtMost(f, SourceFrames(old) - 1)
             x == AtLeast(last, at) - at + 1
             y == AtLeast(at, old.src) - old.src + 1
             d == [old EXCEPT !.src = at, !.dur = x]
             e == [old EXCEPT !.dur = y]
  <2>1. PICK c \in {d, e} : Push("SET CLIP RANGE", "positions", Geom(i), Recut(i, c, {}))
    BY <1>4 DEF SetRange
  <2>2. d \in Clip /\ d.audio = old.audio /\ e \in Clip /\ e.audio = old.audio
    BY <1>1, RangeIs
  <2>3. d.row = old.row /\ e.row = old.row
    <3>1. old \in Clip
      BY <1>1
    <3> HIDE DEF old, at, x, y
    <3> QED BY <3>1 DEF Clip
  <2> HIDE DEF d, e
  <2>4. c \in Clip /\ c.audio = doc.clips[i].audio /\ c.row = doc.clips[i].row
    BY <2>1, <2>2, <2>3
  <2>5. {} \in SUBSET {i}
    OBVIOUS
  <2> QED BY <1>2, <2>1, <2>4, <2>5
<1> QED BY <1>3, <1>4

LEMMA RazorTidy == ASSUME TypeInv, NEW i \in Ids, NEW f \in Frame, Razor(i, f) PROVE Tidy
<1> DEFINE p == IF Linked(doc.clips, i) THEN doc.clips[i].parent ELSE i
           cut == {k \in {p} \cup Followers(doc.clips, p) :
                      doc.clips[k].start < f /\ f < End(doc.clips[k])}
           d == [clips |-> CutAt(cut, f), trans |-> Prune(CutAt(cut, f), doc.trans)]
<1>1. Push("CUT CLIP", "content", {}, d)
  BY DEF Razor
<1>2. next \in Nat \ {0} /\ doc \in Docs(next) /\ f \in Nat
  BY Found
<1>3. cut \in SUBSET Ids /\ \A k \in cut : doc.clips[k].start < f /\ f < End(doc.clips[k])
  BY DEF Linked, Followers, Ids
<1> HIDE DEF cut
<1>4. PicturesApart(doc.clips) => PicturesApart(CutAt(cut, f))
  BY <1>2, <1>3, CutApart
<1>5. d.clips = CutAt(cut, f)
  OBVIOUS
<1> HIDE DEF d
<1> QED BY <1>1, <1>4, <1>5, KeptTidy

LEMMA DragTidy ==
    ASSUME TypeInv, NEW sel \in Selections,
           NEW dRow \in -Rows(doc.clips) .. Rows(doc.clips), NEW shift \in Shifts,
           NEW ripple \in BOOLEAN, NEW copy \in BOOLEAN, Drag(sel, dRow, shift, ripple, copy)
    PROVE  Tidy
<1> DEFINE S == {doc.clips[i].start : i \in sel}
           by0 == AtLeast(shift, -Min(S))
           by == by0 + (IF ripple THEN Jump(sel, dRow, by0) ELSE 0)
           d == Dragged(sel, dRow, by, copy)
           room == DropAll(d.clips, d.next, d.landed, ripple)
           clips == Resync(Slipped(room.clips, d.landed))
           e == [clips |-> clips, trans |-> Prune(clips, doc.trans)]
<1>1. Lands(sel, dRow) /\ Push(DragLabel(sel, copy), "clips", {}, e)
  BY DEF Drag
<1>2. e.clips = clips
  OBVIOUS
<1> HIDE DEF e
<1>3. CASE copy \/ Cardinality(sel) # 1
  <2>1. DragLabel(sel, copy) \notin Careful
    BY <1>3 DEF DragLabel, Careful
  <2> QED BY <1>1, <2>1, OtherTidy
<1>4. CASE ~copy /\ Cardinality(sel) = 1
  <2>1. /\ next \in Nat \ {0} /\ doc \in Docs(next) /\ doc.clips \in Layouts /\ IsFiniteSet(Ids)
        /\ \A i \in Ids : doc.clips[i] \in Clip
        /\ sel \in SUBSET Ids /\ sel # {}
    BY Found, SelectionIs
  <2>2. PICK i \in Ids : sel = {i}
    <3>1. IsFiniteSet(sel)
      BY <2>1, FS_Subset
    <3>2. \E i : sel = {i}
      BY <1>4, <3>1, FS_Singleton
    <3> QED BY <2>1, <3>2
  <2>3. dRow \in Int /\ shift \in Int
    <3>1. Rows(doc.clips) \in Nat
      BY <2>1, RowsNat
    <3> QED BY <3>1, EditingAssumption
  <2>4. doc.clips[i].start \in Nat /\ doc.clips[i].row \in Nat
    BY <2>1, ClipIs
  <2>5. S \subseteq Nat /\ S # {} /\ doc.clips[i].start \in S
    BY <2>2, <2>4
  <2> HIDE DEF S
  <2>6. Min(S) \in Nat /\ Min(S) <= doc.clips[i].start
    BY <2>5, MinIs
  <2>7. by0 \in Int /\ by0 >= -Min(S)
    BY <2>3, <2>6 DEF AtLeast
  <2> HIDE DEF by0
  <2>8. Jump(sel, dRow, by0) \in Nat
    BY <2>1, <2>3, <2>7, JumpIs
  <2>9. by \in Int /\ by >= -Min(S)
    <3> DEFINE jump == Jump(sel, dRow, by0)
    <3>1. jump \in Nat /\ by0 \in Int /\ Min(S) \in Nat /\ by0 >= -Min(S)
      BY <2>6, <2>7, <2>8
    <3> HIDE DEF jump
    <3>2. by = by0 + jump \/ by = by0 + 0
      BY DEF jump
    <3> HIDE DEF by
    <3> QED BY <3>1, <3>2
  <2>10. by = by0 + (IF ripple THEN Jump({i}, dRow, by0) ELSE 0)
    BY <2>2
  <2> HIDE DEF by
  <2>11. doc.clips[i].row + dRow \in Nat
    <3>1. doc.clips[i].row + dRow \in 0 .. Rows(doc.clips) - 1
      BY <1>1, <2>2 DEF Lands
    <3> QED BY <2>3, <2>4, <3>1
  <2>12. doc.clips[i].start + by \in Nat
    BY <2>4, <2>6, <2>9
  <2>13. PicturesApart(doc.clips) => PicturesApart(clips)
    <3>1. Lands({i}, dRow) /\ d = Dragged({i}, dRow, by, FALSE)
      BY <1>1, <1>4, <2>2
    <3> QED BY <2>1, <2>3, <2>7, <2>9, <2>10, <2>11, <2>12, <3>1, MoveApart
  <2> HIDE DEF clips
  <2> QED BY <1>1, <1>2, <2>13, KeptTidy
<1> QED BY <1>3, <1>4

LEMMA PasteTidy == ASSUME TypeInv, NEW f \in Frame, Paste(f) PROVE Tidy
<1> DEFINE cs == WithCopies(DOMAIN board, PasteRows(f), f)
           d == [doc EXCEPT !.clips = cs]
<1>1. Push("PASTE CLIPS", "clips", {}, d)
  BY DEF Paste
<1>2. next \in Nat \ {0} /\ doc \in Docs(next) /\ board \in Layouts /\ f \in Nat
  BY Found
<1>3. PicturesApart(doc.clips) => PicturesApart(cs)
  BY <1>2, PasteApart
<1> HIDE DEF cs
<1>4. d.clips = cs
  BY <1>2 DEF Docs
<1> HIDE DEF d
<1> QED BY <1>1, <1>3, <1>4, KeptTidy

LEMMA AddTidy ==
    ASSUME TypeInv, NEW audio \in BOOLEAN, NEW row \in TableRows, NEW f \in Frame,
           NEW from \in DropsFrom, AddMedia(audio, row, f, from)
    PROVE  Tidy
<1> DEFINE new == [row |-> row, audio |-> audio, start |-> AtLeast(f, Lead),
                   dur |-> IF audio THEN AudioFrames ELSE VideoFrames,
                   src |-> 0, parent |-> 0, off |-> 0]
           pushed == Ripple(doc.clips, {i \in Ids : doc.clips[i].row = row}, new.start, new.dur)
           clips == Resync([i \in Ids \cup {next} |-> IF i = next THEN new ELSE pushed[i]])
           d == [clips |-> clips, trans |-> Prune(clips, doc.trans)]
<1>1. /\ IF from = "bin" THEN Push("ADD CLIP", "content", {}, d) ELSE undo' = undo
      /\ RowTakes(doc.clips, row, {}, audio)
  BY DEF AddMedia
<1>2. next \in Nat \ {0} /\ doc \in Docs(next) /\ f \in Nat /\ row \in Nat
  BY Found
<1>3. AtLeast(f, Lead) \in Nat
  <2>1. Lead \in Nat
    BY <1>2, LeadIs
  <2> QED BY <1>2, <2>1 DEF AtLeast
<1>4. new \in Clip
  BY <1>2, <1>3, NewIs
<1>5. new.row = row /\ new.audio = audio
  OBVIOUS
<1> HIDE DEF new
<1>6. PicturesApart(doc.clips) => PicturesApart(clips)
  <2>1. RowTakes(doc.clips, new.row, {}, new.audio)
    BY <1>1, <1>5
  <2>2. pushed = Ripple(doc.clips, {i \in Ids : doc.clips[i].row = new.row}, new.start, new.dur)
    BY <1>5
  <2> HIDE DEF pushed
  <2> QED BY <1>2, <1>4, <2>1, <2>2, AddApart
<1> HIDE DEF clips
<1>7. d.clips = clips
  OBVIOUS
<1> HIDE DEF d
<1>8. CASE from = "bin"
  BY <1>1, <1>6, <1>7, <1>8, KeptTidy
<1>9. CASE from # "bin"
  BY <1>1, <1>9 DEF Tidy
<1> QED BY <1>8, <1>9

\* The remaining edits push another label, or nothing.
LEMMA EditTidy == ASSUME TypeInv, Edit PROVE Tidy
<1>1. CASE CloseGap
  <2>1. PICK d : Push("CLOSE GAP", "positions", {}, d)
    BY <1>1 DEF CloseGap
  <2>2. "CLOSE GAP" \notin Careful
    BY DEF Careful
  <2> QED BY <2>1, <2>2, OtherTidy
<1>2. CASE Reopen
  BY <1>2 DEF Reopen, Tidy
<1>3. CASE \E i \in Ids, f \in Frame : Trim(i, f) \/ SetRange(i, f) \/ Razor(i, f)
  BY <1>3, TrimTidy, RazorTidy
<1>4. CASE \E sel \in Selections : Copy(sel) \/ Delete(sel) \/ Link(sel) \/ Unlink(sel)
  <2>1. PICK sel \in Selections : Copy(sel) \/ Delete(sel) \/ Link(sel) \/ Unlink(sel)
    BY <1>4
  <2>2. CASE Copy(sel)
    BY <2>2 DEF Copy, Tidy
  <2>3. CASE ~Copy(sel)
    <3>1. \/ \E d : Push("DELETE", "clips", {}, d)
          \/ \E d : Push("LINK AUDIO", "content", {}, d)
          \/ \E d : Push("UNLINK AUDIO", "content", {}, d)
      BY <2>1, <2>3 DEF Delete, Link, Unlink
    <3>2. {"DELETE", "LINK AUDIO", "UNLINK AUDIO"} \cap Careful = {}
      BY DEF Careful
    <3> QED BY <3>1, <3>2, OtherTidy
  <2> QED BY <2>2, <2>3
<1>5. CASE \E sel \in Selections, dRow \in -Rows(doc.clips) .. Rows(doc.clips), by \in Shifts,
              ripple, copy \in BOOLEAN : Drag(sel, dRow, by, ripple, copy)
  BY <1>5, DragTidy
<1>6. CASE \/ \E i, j \in Ids : AddDissolve(i, j)
           \/ \E t \in doc.trans : DeleteDissolve(t) \/ \E f \in Frame : ResizeDissolve(t, f)
  <2>1. \/ \E d : Push("ADD DISSOLVE", "content", {}, d)
        \/ \E d : Push("DELETE DISSOLVE", "content", {}, d)
        \/ \E d : Push("RESIZE DISSOLVE", "content", {}, d)
    BY <1>6 DEF AddDissolve, DeleteDissolve, ResizeDissolve
  <2>2. {"ADD DISSOLVE", "DELETE DISSOLVE", "RESIZE DISSOLVE"} \cap Careful = {}
    BY DEF Careful
  <2> QED BY <2>1, <2>2, OtherTidy
<1>7. CASE \E f \in Frame : Paste(f)
  BY <1>7, PasteTidy
<1>8. CASE \E row \in TableRows, audio \in BOOLEAN, f \in Frame, from \in DropsFrom :
              AddMedia(audio, row, f, from)
  BY <1>8, AddTidy
<1>9. CASE \E row \in TableRows : RemoveTrack(row) \/ \E f \in Frame : SelectGap(row, f)
  BY <1>9 DEF RemoveTrack, SelectGap, Tidy
<1>10. CASE \E from, to \in TableRows \ {Rows(doc.clips) - 1} : MoveTrack(from, to)
  <2>1. PICK d : Push("MOVE TRACK", "content", {}, d)
    BY <1>10 DEF MoveTrack
  <2>2. "MOVE TRACK" \notin Careful
    BY DEF Careful
  <2> QED BY <2>1, <2>2, OtherTidy
<1> QED BY <1>1, <1>2, <1>3, <1>4, <1>5, <1>6, <1>7, <1>8, <1>9, <1>10 DEF Edit

----------------------------------------------------------------------------
(* Through the history.                                                    *)

\* A command that one of those edits pushed kept the pictures apart, and every command on
\* either stack did: a redo does again what the edit did.
Kept(c) == (c.label \in Careful /\ PicturesApart(c.before.clips)) => PicturesApart(c.after.clips)
AllKept(s) == \A n \in 1 .. Len(s) : Kept(s[n])

ApartInv == HistoryInv /\ AllKept(undo) /\ AllKept(redo)

LEMMA KeptGrows ==
    ASSUME NEW S, NEW s \in Seq(S), NEW c \in S, AllKept(s), Kept(c)
    PROVE  AllKept(Append(s, c)) /\ Last(Append(s, c)) = c /\ Len(Append(s, c)) = Len(s) + 1
<1> DEFINE t == Append(s, c)
<1>1. /\ Len(t) = Len(s) + 1 /\ t[Len(t)] = c
      /\ \A n \in 1 .. Len(t) : n = Len(t) \/ (n \in 1 .. Len(s) /\ t[n] = s[n])
  BY ChainGrows
<1> HIDE DEF t
<1>2. AllKept(t)
  BY <1>1 DEF AllKept
<1>3. Last(t) = c
  BY <1>1 DEF Last
<1> QED BY <1>1, <1>2, <1>3 DEF t

LEMMA KeptShrinks ==
    ASSUME NEW S, NEW s \in Seq(S), s # <<>>, AllKept(s)
    PROVE  AllKept(Front(s)) /\ Kept(Last(s))
<1>1. /\ Len(s) \in Nat /\ Len(s) >= 1 /\ Last(s) = s[Len(s)]
      /\ \A n \in 1 .. Len(Front(s)) : n \in 1 .. Len(s) /\ Front(s)[n] = s[n]
  BY PopIs, ChainShrinks
<1>2. Len(s) \in 1 .. Len(s)
  BY <1>1
<1> QED BY <1>1, <1>2 DEF AllKept

LEMMA KeptNone == AllKept(<<>>)
BY EmptySeq DEF AllKept

LEMMA ApartStart == ASSUME Init PROVE ApartInv
BY HistoryStart, KeptNone DEF ApartInv, Init

\* What the property says of a step.
ApartStep ==
    (/\ undo' # <<>> /\ undo' # undo /\ Front(undo') = undo
     /\ Last(undo').label \in Careful
     /\ PicturesApart(doc.clips)) => PicturesApart(doc'.clips)

LEMMA UndoApart == ASSUME ApartInv, Undo PROVE AllKept(undo') /\ AllKept(redo') /\ ApartStep
<1>1. HistoryInv /\ AllKept(undo) /\ AllKept(redo)
  BY DEF ApartInv
<1>2. undo \in Seq(Commands(next)) /\ redo \in Seq(Commands(next))
  BY <1>1 DEF HistoryInv, TypeInv
<1>3. undo # <<>> /\ undo' = Front(undo) /\ redo' = Append(redo, Last(undo))
  BY DEF Undo
<1>4. AllKept(undo') /\ Kept(Last(undo)) /\ Last(undo) \in Commands(next)
  BY <1>1, <1>2, <1>3, KeptShrinks, PopIs
<1>5. AllKept(redo')
  BY <1>1, <1>2, <1>3, <1>4, KeptGrows
<1>6. undo' # <<>> => Front(undo') # undo
  <2> SUFFICES ASSUME undo' # <<>>, Front(undo') = undo PROVE FALSE
    OBVIOUS
  <2>1. /\ Len(undo) \in Nat /\ undo' \in Seq(Commands(next)) /\ Len(undo') = Len(undo) - 1
    BY <1>2, <1>3, PopIs
  <2>2. Len(Front(undo')) = Len(undo') - 1
    BY <2>1, PopIs
  <2> QED BY <2>1, <2>2
<1> QED BY <1>4, <1>5, <1>6 DEF ApartStep

LEMMA RedoApart == ASSUME ApartInv, Redo PROVE AllKept(undo') /\ AllKept(redo') /\ ApartStep
<1>1. HistoryInv /\ AllKept(undo) /\ AllKept(redo)
  BY DEF ApartInv
<1>2. undo \in Seq(Commands(next)) /\ redo \in Seq(Commands(next))
  BY <1>1 DEF HistoryInv, TypeInv
<1> DEFINE c == Last(redo)
<1>3. /\ redo # <<>> /\ redo' = Front(redo) /\ undo' = Append(undo, c)
      /\ doc = c.before /\ doc' = c.after /\ c \in Commands(next)
  BY <1>1, RedoIs
<1> HIDE DEF c
<1>4. AllKept(redo') /\ Kept(c)
  BY <1>1, <1>2, <1>3, KeptShrinks DEF c
<1>5. AllKept(undo') /\ Last(undo') = c
  BY <1>1, <1>2, <1>3, <1>4, KeptGrows
<1> QED BY <1>3, <1>4, <1>5 DEF ApartStep, Kept

LEMMA EditApart == ASSUME ApartInv, Edit PROVE AllKept(undo') /\ AllKept(redo') /\ ApartStep
<1>1. TypeInv /\ AllKept(undo) /\ AllKept(redo)
  BY DEF ApartInv, HistoryInv
<1>2. Tidy
  BY <1>1, EditTidy
<1>3. ApartStep
  BY <1>2 DEF ApartStep, Tidy
<1>4. CASE Commanded
  <2>1. PICK c \in Commands(next') :
           /\ c.before = doc /\ c.after = doc' /\ undo' = Append(undo, c) /\ redo' = <<>>
           /\ undo \in Seq(Commands(next'))
    BY <1>1, <1>4, PushIs
  <2>2. Last(undo') = c /\ undo' # <<>> /\ undo' # undo
    <3> DEFINE t == Append(undo, c)
    <3>1. Len(undo) \in Nat /\ Len(t) = Len(undo) + 1 /\ t[Len(t)] = c
      BY <2>1, ChainGrows
    <3>2. undo' = t
      BY <2>1
    <3> HIDE DEF t
    <3>3. Len(<<>>) = 0
      BY EmptySeq
    <3>4. Last(undo') = c
      BY <3>1, <3>2 DEF Last
    <3>5. Len(undo') # Len(undo) /\ Len(undo') # 0
      BY <3>1, <3>2
    <3> QED BY <3>3, <3>4, <3>5
  <2>3. Kept(c)
    BY <1>2, <2>1, <2>2 DEF Tidy, Kept
  <2>4. AllKept(undo')
    BY <1>1, <2>1, <2>3, KeptGrows
  <2>5. AllKept(redo')
    BY <2>1, KeptNone
  <2> QED BY <1>3, <2>4, <2>5
<1>5. CASE Forgotten
  <2>1. undo' = <<>> /\ redo' = <<>>
    BY <1>5 DEF Forgotten
  <2> QED BY <1>3, <2>1, KeptNone
<1>6. CASE DroppedIn \/ Aside
  <2>1. undo' = undo /\ redo' = redo
    BY <1>6 DEF DroppedIn, Aside
  <2> QED BY <1>1, <1>3, <2>1
<1> QED BY <1>1, <1>4, <1>5, <1>6, EditIs

LEMMA ApartKept ==
    ASSUME "desktop" \notin DropsFrom, ApartInv, [Next]_vars
    PROVE  ApartInv' /\ (ApartStep \/ UNCHANGED vars)
<1>1. HistoryInv'
  BY HistoryStep DEF ApartInv
<1>2. CASE UNCHANGED vars
  <2>1. undo' = undo /\ redo' = redo
    BY <1>2 DEF vars
  <2>2. AllKept(undo') /\ AllKept(redo')
    BY <2>1 DEF ApartInv
  <2> QED BY <1>1, <1>2, <2>2 DEF ApartInv
<1>3. CASE Undo \/ Redo \/ Edit
  <2>1. AllKept(undo') /\ AllKept(redo') /\ ApartStep
    BY <1>3, UndoApart, RedoApart, EditApart
  <2> QED BY <1>1, <2>1 DEF ApartInv
<1> QED BY <1>2, <1>3 DEF Next

\* Whatever the layout, a trim, a new range, a cut, a move, an added clip and a paste leave the
\* rows of pictures to pictures, and their clips apart, done again by a redo too
\* (rippleMakeRoomInSeq(), applyRippleDrop(), applyOverwriteDrop(), firstFreeTrackFor()), as long
\* as no clip is dropped from the desktop, which the history knows nothing of.
THEOREM PicturesKeptApartHolds ==
    ASSUME "desktop" \notin DropsFrom PROVE Spec => PicturesKeptApart
<1>1. Init => ApartInv
  BY ApartStart
<1>2. ApartInv /\ [Next]_vars => ApartInv'
  BY ApartKept
<1>3. ApartInv /\ [Next]_vars => [ApartStep]_vars
  BY ApartKept
<1>4. PicturesKeptApart <=> [][ApartStep]_vars
  BY DEF PicturesKeptApart, ApartStep, Careful
<1> HIDE DEF ApartStep
<1> QED BY <1>1, <1>2, <1>3, <1>4, PTL DEF Spec

=============================================================================
