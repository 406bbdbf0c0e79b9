------------------------------ MODULE Timeline ------------------------------
(***************************************************************************)
(* The timeline of a project (Timeline.h) and what the edits of            *)
(* App_Timeline.cpp do to it, as functions of the clips and dissolves of   *)
(* one sequence: clips is a function from ids to clips, trans a set of     *)
(* dissolves.                                                              *)
(*                                                                         *)
(* Left out: the packing of several sequences, shots, fades, volume,       *)
(* annotations, names and the playhead, none of which an edit reads. Where *)
(* the code goes by the order of a vector (copies, tails, equal starts)    *)
(* the order is that of the ids.                                           *)
(***************************************************************************)
EXTENDS Integers, FiniteSets, Sequences, SequencesExt

CONSTANTS
    VideoFrames,  \* frames a picture's source can supply
    AudioFrames,  \* frames a sound's source can supply
    DissolveWant  \* the length a new dissolve asks for

ASSUME TimelineAssumption ==
    /\ {VideoFrames, AudioFrames} \subseteq Nat \ {0}
    /\ DissolveWant \in Nat \ {0, 1}

\* parent and off are linkedTo, 0 for none, and linkOffset: a picture follows nothing.
Clip == {c \in [row : Nat, audio : BOOLEAN, start : Nat, dur : Nat \ {0}, src : Nat,
                parent : Nat, off : Int] : c.audio \/ c.parent = 0}
Dissolve == [a : Nat, b : Nat, in : Nat, out : Nat]

AtLeast(x, low) == IF x < low THEN low ELSE x
AtMost(x, high) == IF x > high THEN high ELSE x
Clamp(x, low, high) == AtLeast(AtMost(x, high), low)

End(c) == c.start + c.dur
SourceFrames(c) == IF c.audio THEN AudioFrames ELSE VideoFrames

\* trackCount after ensureTrailingEmptyTrack(), which every frame calls: one spare row.
Rows(clips) ==
    2 + Max({-1} \cup {clips[i].row : i \in DOMAIN clips})

\* trackKind(): a row is of the kind of its last clip, those of without left aside; an
\* empty one takes either.
RowTakes(clips, row, without, audio) ==
    LET on == {i \in DOMAIN clips \ without : clips[i].row = row}
    IN on # {} => clips[Max(on)].audio = audio

Rank(i, S) == Cardinality({j \in S : j < i})
Without(clips, S) == [i \in DOMAIN clips \ S |-> clips[i]]

----------------------------------------------------------------------------
(* Links.                                                                  *)

\* linkParent(): a link whose parent is gone is inert.
Linked(clips, i) == clips[i].parent \in DOMAIN clips
Followers(clips, i) == {f \in DOMAIN clips : clips[f].parent = i}
\* addLinkedFollowers(): the clips of S, what follows them, what follows those, and so on.
WithFollowers(clips, S) ==
    {k \in DOMAIN clips :
        \A T \in SUBSET DOMAIN clips :
            (S \subseteq T /\ \A i \in T : Followers(clips, i) \subseteq T) => k \in T}

\* Where a follower belongs when its parent starts at frame f.
PlaceBy(c, f) == AtLeast(f + c.off, 0)

\* Where the clips come to start, one after the other: of two that are linked the parent may
\* have been put in its place already, or not yet.
Resynced(clips) ==
    LET Start[i \in DOMAIN clips] ==
          LET p == clips[i].parent
          IN IF ~Linked(clips, i) THEN clips[i].start
             ELSE PlaceBy(clips[i], IF p < i THEN Start[p] ELSE clips[p].start)
    IN Start
ResyncNone(clips) == clips  \* mutant: the pairs are left as the ripple parted them
\* resyncLinkedClips().
Resync(clips) == [i \in DOMAIN clips |-> [clips[i] EXCEPT !.start = Resynced(clips)[i]]]

\* A follower that was moved and its parent not: its offset is recorded anew.
Slipped(clips, moved) == [i \in DOMAIN clips |->
    IF i \in moved /\ Linked(clips, i) /\ clips[i].parent \notin moved
    THEN [clips[i] EXCEPT !.off = clips[i].start - clips[clips[i].parent].start]
    ELSE clips[i]]

----------------------------------------------------------------------------
(* Dissolves.                                                              *)

\* resolveTransition(): both clips are there, pictures of one row, and abut.
Live(clips, t) ==
    /\ {t.a, t.b} \subseteq DOMAIN clips
    /\ clips[t.a].row = clips[t.b].row
    /\ ~clips[t.a].audio /\ ~clips[t.b].audio
    /\ End(clips[t.a]) = clips[t.b].start
    /\ t.in + t.out > 0

\* transitionLimits(): the handle a side spends, and half the clip it lies in.
MaxIn(a, b) == AtLeast(AtMost(b.src, a.dur \div 2), 0)
MaxOut(a, b) == AtLeast(AtMost(SourceFrames(a) - (a.src + a.dur), b.dur \div 2), 0)

Shortened(clips, t) ==
    [t EXCEPT !.in  = AtMost(@, MaxIn(clips[t.a], clips[t.b])),
              !.out = AtMost(@, MaxOut(clips[t.a], clips[t.b]))]

\* Mutant: a dissolve keeps handles the clips no longer have.
PruneStale(clips, trans) == {t \in trans : Live(clips, t)}
\* pruneTransitions(): the stale ones go, the others give back what is gone.
Prune(clips, trans) ==
    {t \in {Shortened(clips, u) : u \in {v \in trans : Live(clips, v)}} : t.in + t.out > 0}

----------------------------------------------------------------------------
(* Making room.                                                            *)

\* Mutant: the clips that are in the way are pushed, and not what is behind them.
RippleOnce(clips, S, start, dur) == [i \in DOMAIN clips |->
    IF i \in S /\ start < End(clips[i]) /\ clips[i].start < start + dur
    THEN [clips[i] EXCEPT !.start = start + dur] ELSE clips[i]]

\* The clips of S in front of clip i, by start and then by id.
Ahead(clips, S, i) ==
    {j \in S : \/ clips[j].start < clips[i].start
               \/ clips[j].start = clips[i].start /\ j < i}

\* Where the clips of S come to start, in order: none before the frontier, which is at from
\* and then at the end of the one pushed before.
Pushed(clips, S, from) ==
    LET Start[i \in S] == Max({clips[i].start, from}
                              \cup {Start[j] + clips[j].dur : j \in Ahead(clips, S, i)})
    IN Start

\* rippleClips(): the clips of S are pushed clear of [start, start + dur), but those that end
\* before it.
Ripple(clips, S, start, dur) ==
    LET hit == {i \in S : End(clips[i]) > start}
    IN [i \in DOMAIN clips |->
          IF i \in hit THEN [clips[i] EXCEPT !.start = Pushed(clips, hit, start + dur)[i]]
          ELSE clips[i]]

\* rippleMakeRoomInSeq(): around clip i, which has just been trimmed.
MakeRoom(clips, i) ==
    Ripple(clips, {j \in DOMAIN clips \ {i} : clips[j].row = clips[i].row},
           clips[i].start, clips[i].dur)

\* applyRippleDrop(): clips that begin at or after the dropped one give way.
RippleDrop(clips, i, dropped) ==
    Ripple(clips, {j \in DOMAIN clips \ dropped : /\ clips[j].row = clips[i].row
                                                  /\ clips[j].start >= clips[i].start},
           clips[i].start, clips[i].dur)

\* The clips of S get the ids from next on for what is made of them.
TailOfSkip(j, next, S) == next + Rank(j, S) + 1  \* mutant: ++nextClipId_
TailOf(j, next, S) == next + Rank(j, S)
TailIds(next, S) == {TailOf(j, next, S) : j \in S}
MadeOf(k, next, S) == CHOOSE j \in S : TailOf(j, next, S) = k

\* The part of c from frame f on, and up to it.
From(c, f) == [c EXCEPT !.src = @ + (f - c.start), !.dur = End(c) - f, !.start = f]
UpTo(c, f) == [c EXCEPT !.dur = f - c.start]

\* applyOverwriteDrop(): what dropped clip i covers is trimmed, split or removed; the
\* tails that are split off get ids from next on.
OverwriteDrop(clips, next, i, dropped) ==
    LET S == clips[i].start
        E == End(clips[i])
        hit == {j \in DOMAIN clips \ dropped :
                  clips[j].row = clips[i].row /\ End(clips[j]) > S /\ clips[j].start < E}
        split == {j \in hit : clips[j].start < S /\ End(clips[j]) > E}
        gone == {j \in hit : clips[j].start >= S /\ End(clips[j]) <= E}
        Kept(j) == IF j \notin hit THEN clips[j]
                   ELSE IF clips[j].start < S THEN UpTo(clips[j], S) ELSE From(clips[j], E)
    IN [clips |-> [k \in (DOMAIN clips \ gone) \cup TailIds(next, split) |->
                      IF k \in DOMAIN clips THEN Kept(k)
                      ELSE From(clips[MadeOf(k, next, split)], E)],
        next |-> next + Cardinality(split)]

\* applyDrop().
Drop(d, i, dropped, ripple) ==
    IF ripple THEN [d EXCEPT !.clips = RippleDrop(@, i, dropped)]
    ELSE OverwriteDrop(d.clips, d.next, i, dropped)

\* applyDrop() for each of the dropped clips in turn: what the first i ids make of it.
Drops(clips, next, dropped, ripple) ==
    LET Upto[i \in 0 .. Max(dropped)] ==
          IF i = 0 THEN [clips |-> clips, next |-> next]
          ELSE IF i \in dropped THEN Drop(Upto[i - 1], i, dropped, ripple)
          ELSE Upto[i - 1]
    IN Upto
DropAll(clips, next, dropped, ripple) == Drops(clips, next, dropped, ripple)[Max(dropped)]

=============================================================================
