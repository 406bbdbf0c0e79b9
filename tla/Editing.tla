------------------------------ MODULE Editing ------------------------------
(***************************************************************************)
(* Editing a timeline, with undo (App_Timeline.cpp, Undo.h). An edit takes *)
(* a snapshot before it and one after, and pushes a command that puts one  *)
(* or the other back. There are three kinds of snapshots: whole clips,     *)
(* whole content that is pruned as it is put back, and positions, with the *)
(* geometry of a few clips beside them.                                    *)
(*                                                                         *)
(* A gesture is one step, from the press to the release that commits it.   *)
(* The gap selected for closing is state: it stays while others edit.      *)
(***************************************************************************)
EXTENDS Timeline

CONSTANTS
    Loaded,    \* the documents a loaded project may hold
    MaxFrame,  \* bound on the frames the mouse points at
    Shifts,    \* how far a drag goes, in frames
    MaxClips,  \* bound on the clips there are
    MaxEdits,  \* bound on the edits and copies, undone ones included
    DropsFrom  \* where clips are dropped from: "bin" (the app's own), "desktop"

\* A document: clips, each with an id, and dissolves.
IsDoc(d) ==
    /\ d = [clips |-> [i \in DOMAIN d.clips |-> d.clips[i]], trans |-> d.trans]
    /\ IsFiniteSet(DOMAIN d.clips) /\ d.trans \in SUBSET Dissolve
    /\ \A i \in DOMAIN d.clips : i \in Nat \ {0} /\ d.clips[i] \in Clip

\* Each dissolve is on a live cut, one per cut, within the handles and halves of its clips.
CutsLegal(d) ==
    /\ \A t \in d.trans : Live(d.clips, t) /\ Shortened(d.clips, t) = t
    /\ \A t, u \in d.trans : <<t.a, t.b>> = <<u.a, u.b>> => t = u

\* The source of each clip has its frames.
InRange(clips) ==
    \A i \in DOMAIN clips : clips[i].src + clips[i].dur <= SourceFrames(clips[i])

ASSUME EditingAssumption ==
    /\ \A d \in Loaded : IsDoc(d) /\ CutsLegal(d) /\ InRange(d.clips)
    /\ {MaxFrame, MaxClips, MaxEdits} \subseteq Nat /\ Shifts \subseteq Int
    /\ DropsFrom \subseteq {"bin", "desktop"}

VARIABLES
    doc,    \* the document: clips and trans
    undo,   \* undo_
    redo,   \* redo_
    gap,    \* the selected gap, <<>> for none
    next,   \* nextClipId_
    board,  \* clipboard_
    edits

vars == <<doc, undo, redo, gap, next, board, edits>>

Frame == 0 .. MaxFrame
Ids == DOMAIN doc.clips
Selections == {S \in SUBSET Ids : S # {} /\ Cardinality(S) <= 2}

TypeOK ==
    /\ IsDoc(doc)
    /\ \A c \in ToSet(undo) \cup ToSet(redo) :
          IsDoc(c.before) /\ IsDoc(c.after) /\ c.kind \in {"clips", "content", "positions"}
    /\ gap \in {<<>>} \cup (Nat \X Nat)
    /\ \A i \in Ids : i < next
    /\ IsFiniteSet(DOMAIN board) /\ \A i \in DOMAIN board : board[i] \in Clip
    /\ edits \in 0 .. MaxEdits

FirstFree(d) == Max({0} \cup DOMAIN d.clips) + 1

Init ==
    /\ doc \in Loaded
    /\ undo = <<>> /\ redo = <<>> /\ gap = <<>> /\ board = <<>> /\ edits = 0
    /\ next = FirstFree(doc)

----------------------------------------------------------------------------
(* The stack of commands.                                                  *)

\* UndoStack::push(), after an edit that leaves the document as d.
Push(label, kind, geom, d) ==
    /\ edits' = edits + 1
    /\ Cardinality(DOMAIN d.clips) <= MaxClips
    /\ doc' = d
    /\ undo' = Append(undo, [label |-> label, kind |-> kind, geom |-> geom,
                             before |-> doc, after |-> d])
    /\ redo' = <<>>
    /\ UNCHANGED board

\* restorePositions() and restoreClipGeom(): rows and starts of the clips there are,
\* and the whole range of those in geom.
Reposition(d, geom) ==
    [clips |-> [i \in Ids |->
        IF i \notin DOMAIN d.clips THEN doc.clips[i]
        ELSE IF i \in geom THEN [d.clips[i] EXCEPT !.audio = doc.clips[i].audio,
                                                   !.parent = doc.clips[i].parent]
        ELSE [doc.clips[i] EXCEPT !.row = d.clips[i].row, !.start = d.clips[i].start]],
     trans |-> d.trans]

\* What a command's closure makes of the document.
Restored(c, d) ==
    CASE c.kind = "clips"     -> d
      [] c.kind = "content"   -> [clips |-> d.clips, trans |-> Prune(d.clips, d.trans)]
      [] c.kind = "positions" -> Reposition(d, c.geom)

Undo ==
    /\ undo # <<>>
    /\ doc' = Restored(Last(undo), Last(undo).before)
    /\ undo' = Front(undo) /\ redo' = Append(redo, Last(undo))
    /\ UNCHANGED <<gap, next, board, edits>>

Redo ==
    /\ redo # <<>>
    /\ doc' = Restored(Last(redo), Last(redo).after)
    /\ redo' = Front(redo) /\ undo' = Append(undo, Last(redo))
    /\ UNCHANGED <<gap, next, board, edits>>

Deselect == gap' = <<>>  \* pressing on a clip or a dissolve drops the gap selection

----------------------------------------------------------------------------
(* Trimming.                                                               *)

\* Mutant: the sound takes the trim of its picture, whatever its source has.
TrimFollowersFree(clips, p, dSrc, dDur) == [i \in DOMAIN clips |->
    IF clips[i].parent # p THEN clips[i]
    ELSE [clips[i] EXCEPT !.start = AtLeast(clips[p].start + clips[i].off, 0),
                          !.src = AtLeast(@ + dSrc, 0), !.dur = AtLeast(@ + dDur, 1)]]

\* trimLinkedFollowers(): clips once the trim of p by (dSrc, dDur) is carried over.
TrimFollowers(clips, p, dSrc, dDur) == [i \in DOMAIN clips |->
    IF clips[i].parent # p THEN clips[i]
    ELSE LET src == Clamp(clips[i].src + dSrc, 0, SourceFrames(clips[i]) - 1)
         IN [clips[i] EXCEPT !.start = AtLeast(clips[p].start + clips[i].off, 0),
                             !.src = src,
                             !.dur = Clamp(@ + dDur, 1, AtLeast(SourceFrames(clips[i]) - src, 1))]]

\* updateClipTrim(): clip c with an edge at frame f, as far as its source goes.
RightAt(c, f) == [c EXCEPT !.dur = Clamp(f - c.start, 1, AtLeast(SourceFrames(c) - c.src, 1))]
LeftAt(c, f) ==
    LET start == Clamp(f, AtLeast(c.start - c.src, 0), End(c) - 1)
    IN [c EXCEPT !.start = start, !.src = @ + (start - c.start), !.dur = End(c) - start]

\* What commitClipTrim() and applyClipRange() make of the document when clip i becomes
\* c. Only a trim that moves the head of a follower records its offset anew.
Recut(i, c, slips) ==
    LET old   == doc.clips[i]
        own   == TrimFollowers([doc.clips EXCEPT ![i] = c], i, c.src - old.src, c.dur - old.dur)
        clips == Resync(MakeRoom(Slipped(own, slips), i))
    IN [clips |-> clips, trans |-> Prune(clips, doc.trans)]

GeomAlone(i) == {i}  \* mutant: the followers are left out of the snapshot
Geom(i) == WithFollowers(doc.clips, {i})

Trim(i, f) ==
    \E c \in {RightAt(doc.clips[i], f), LeftAt(doc.clips[i], f)} :
        /\ c # doc.clips[i]
        /\ Push("TRIM CLIP", "positions", Geom(i), Recut(i, c, {i}))
        /\ Deselect /\ UNCHANGED next

\* applyClipRange(): a new in or out point, the clip staying where it starts.
SetRange(i, f) ==
    LET old  == doc.clips[i]
        last == old.src + old.dur - 1
        at   == AtMost(f, SourceFrames(old) - 1)
    IN \E c \in {[old EXCEPT !.src = at, !.dur = AtLeast(last, at) - at + 1],
                  [old EXCEPT !.dur = AtLeast(at, old.src) - old.src + 1]} :
          /\ c # old
          /\ Push("SET CLIP RANGE", "positions", Geom(i), Recut(i, c, {}))
          /\ UNCHANGED <<gap, next>>

----------------------------------------------------------------------------
(* Moving and duplicating.                                                 *)

\* updateClipDrag(): a ripple drop that would land inside a clip jumps to its end.
Jump(sel, dRow, by) ==
    LET at(i) == doc.clips[i].start + by
        into  == {p \in sel \X (Ids \ sel) :
                    /\ doc.clips[p[2]].row = doc.clips[p[1]].row + dRow
                    /\ doc.clips[p[2]].start < at(p[1]) /\ at(p[1]) < End(doc.clips[p[2]])}
    IN Max({0} \cup {End(doc.clips[p[2]]) - at(p[1]) : p \in into})

\* A clip lands on an empty row, or on one of its own kind.
Lands(sel, dRow) ==
    /\ \A i \in sel : /\ doc.clips[i].row + dRow \in 0 .. Rows(doc.clips) - 1
                      /\ RowTakes(doc.clips, doc.clips[i].row + dRow, sel, doc.clips[i].audio)
    /\ \A i, j \in sel : doc.clips[i].row = doc.clips[j].row
                            => doc.clips[i].audio = doc.clips[j].audio

Shifted(c, dRow, by) == [c EXCEPT !.row = @ + dRow, !.start = @ + by]

\* A copy follows the copy of its parent, or nothing.
Copied(c, dRow, by, sel) ==
    [Shifted(c, dRow, by) EXCEPT
        !.parent = IF @ \in sel THEN TailOf(@, next, sel) ELSE 0,
        !.off    = IF c.parent \in sel THEN @ ELSE 0]

\* commitClipDrag(): the clips with those of sel moved, or with their copies.
Dragged(sel, dRow, by, copy) ==
    IF ~copy
    THEN [clips |-> [i \in Ids |-> IF i \in sel THEN Shifted(doc.clips[i], dRow, by)
                                   ELSE doc.clips[i]],
          next |-> next, landed |-> sel]
    ELSE [clips |-> [k \in Ids \cup TailIds(next, sel) |->
                        IF k \in Ids THEN doc.clips[k]
                        ELSE Copied(doc.clips[MadeOf(k, next, sel)], dRow, by, sel)],
          next |-> next + Cardinality(sel), landed |-> TailIds(next, sel)]

DragLabel(sel, copy) ==
    IF copy THEN "DUPLICATE" ELSE IF Cardinality(sel) = 1 THEN "MOVE CLIP" ELSE "MOVE CLIPS"

Drag(sel, dRow, shift, ripple, copy) ==
    LET by0 == AtLeast(shift, -Min({doc.clips[i].start : i \in sel}))
        by  == by0 + (IF ripple THEN Jump(sel, dRow, by0) ELSE 0)
        d   == Dragged(sel, dRow, by, copy)
        room  == DropAll(d.clips, d.next, d.landed, ripple)
        clips == Resync(Slipped(room.clips, d.landed))
    IN /\ Lands(sel, dRow)
       /\ copy \/ dRow # 0 \/ by # 0
       /\ Push(DragLabel(sel, copy), "clips", {},
               [clips |-> clips, trans |-> Prune(clips, doc.trans)])
       /\ next' = room.next
       /\ Deselect

----------------------------------------------------------------------------
(* New clips.                                                              *)

Lead == IF Ids = {} THEN 0 ELSE Min({doc.clips[i].start : i \in Ids})  \* leadFrame()

\* addMediaFileAt(): the whole source from frame f on, and the row gives way. A drop from
\* the app's own bins takes a snapshot; one from the desktop does not.
AddMedia(audio, row, f, from) ==
    LET new    == [row |-> row, audio |-> audio, start |-> AtLeast(f, Lead),
                   dur |-> IF audio THEN AudioFrames ELSE VideoFrames,
                   src |-> 0, parent |-> 0, off |-> 0]
        pushed == Ripple(doc.clips, {i \in Ids : doc.clips[i].row = row}, new.start, new.dur)
        clips  == Resync([i \in Ids \cup {next} |-> IF i = next THEN new ELSE pushed[i]])
        d      == [clips |-> clips, trans |-> Prune(clips, doc.trans)]
    IN /\ Ids = {} => f = 0
       /\ RowTakes(doc.clips, row, {}, audio)
       /\ Cardinality(Ids) < MaxClips
       /\ IF from = "bin" THEN Push("ADD CLIP", "content", {}, d)
          ELSE doc' = d /\ edits' = edits + 1 /\ UNCHANGED <<undo, redo, board>>
       /\ next' = next + 1
       /\ UNCHANGED gap

\* copySelectedClips(): the clips as they are now, from frame 0 on.
Copy(sel) ==
    LET base == Min({doc.clips[i].start : i \in sel})
    IN /\ board' = [i \in sel |-> [doc.clips[i] EXCEPT !.start = @ - base]]
       /\ edits' = edits + 1
       /\ UNCHANGED <<doc, undo, redo, gap, next>>

\* firstFreeTrackFor(): the last row is the spare one, which takes anything.
FreeRow(clips, c) ==
    Min({r \in 0 .. Rows(clips) - 1 :
            /\ RowTakes(clips, r, {}, c.audio)
            /\ \A i \in DOMAIN clips : clips[i].row = r
                    => End(c) <= clips[i].start \/ End(clips[i]) <= c.start})

\* The clips of the clipboard that are pasted before clip i, by row and then by start, and the
\* id that the copy of clip i gets.
Before(i) ==
    {j \in DOMAIN board :
        \/ board[j].row < board[i].row
        \/ /\ board[j].row = board[i].row
           /\ board[j].start < board[i].start \/ (board[j].start = board[i].start /\ j < i)}
PasteId(i) == next + Cardinality(Before(i))

\* The copy of clip i, pasted with the playhead at frame f: it follows the copy of its parent.
PasteCopy(i, f) ==
    LET follows == board[i].parent \in DOMAIN board
    IN [board[i] EXCEPT !.start = @ + AtLeast(f, Lead),
                        !.parent = IF follows THEN PasteId(@) ELSE 0,
                        !.off = IF follows THEN @ ELSE 0]

\* The clips once the copies of S are there, each on its row.
WithCopies(S, row, f) ==
    [k \in Ids \cup {PasteId(i) : i \in S} |->
        IF k \in Ids THEN doc.clips[k]
        ELSE LET i == CHOOSE i \in S : PasteId(i) = k
             IN [PasteCopy(i, f) EXCEPT !.row = row[i]]]

\* Each copy goes on the first row that has room, beside those pasted before it.
PasteRows(f) ==
    LET Row[i \in DOMAIN board] == FreeRow(WithCopies(Before(i), Row, f), PasteCopy(i, f))
    IN Row

\* pasteClips().
Paste(f) ==
    /\ DOMAIN board # {}
    /\ f < Max({1} \cup {End(doc.clips[i]) : i \in Ids})
    /\ Push("PASTE CLIPS", "clips", {},
            [doc EXCEPT !.clips = WithCopies(DOMAIN board, PasteRows(f), f)])
    /\ next' = next + Cardinality(DOMAIN board)
    /\ Deselect

----------------------------------------------------------------------------
(* Cutting and deleting.                                                   *)

\* The clips once those of cut are cut at frame f: the tail of a follower follows the tail of
\* its parent.
CutAt(cut, f) ==
    LET TailAt(k) == [From(doc.clips[k], f) EXCEPT
                        !.parent = IF @ \in cut THEN TailOf(@, next, cut) ELSE @]
    IN [k \in Ids \cup TailIds(next, cut) |->
          IF k \in cut THEN UpTo(doc.clips[k], f)
          ELSE IF k \in Ids THEN doc.clips[k]
          ELSE TailAt(MadeOf(k, next, cut))]

\* splitClipAt(): the linked clips the frame falls inside are cut together.
Razor(i, f) ==
    LET p   == IF Linked(doc.clips, i) THEN doc.clips[i].parent ELSE i
        cut == {k \in {p} \cup Followers(doc.clips, p) :
                  doc.clips[k].start < f /\ f < End(doc.clips[k])}
    IN /\ doc.clips[i].start < f /\ f < End(doc.clips[i])
       /\ Push("CUT CLIP", "content", {},
               [clips |-> CutAt(cut, f), trans |-> Prune(CutAt(cut, f), doc.trans)])
       /\ next' = next + Cardinality(cut)
       /\ UNCHANGED gap

\* deleteSelectedClip(): followers go with their parent.
Delete(sel) ==
    LET clips == Without(doc.clips, WithFollowers(doc.clips, sel))
    IN /\ Push("DELETE", "clips", {}, [clips |-> clips, trans |-> Prune(clips, doc.trans)])
       /\ Deselect /\ UNCHANGED next

\* gapAtTrack(): a click between two clips of a row selects what is between them.
SelectGap(row, f) ==
    LET on     == {i \in Ids : doc.clips[i].row = row}
        before == {End(doc.clips[i]) : i \in {j \in on : End(doc.clips[j]) <= f}}
        after  == {doc.clips[i].start : i \in {j \in on : doc.clips[j].start > f}}
    IN /\ \A i \in on : ~(doc.clips[i].start <= f /\ f < End(doc.clips[i]))
       /\ before # {} /\ after # {}
       /\ gap' = <<Max(before), Min(after)>>
       /\ UNCHANGED <<doc, undo, redo, next, board, edits>>

\* deleteSelectedGap(): on every row, what starts at or after the gap moves up.
CloseGap ==
    LET moved == [i \in Ids |-> IF doc.clips[i].start >= gap[2]
                                THEN [doc.clips[i] EXCEPT !.start = @ - (gap[2] - gap[1])]
                                ELSE doc.clips[i]]
        clips == Resync(moved)
    IN /\ gap # <<>>
       /\ Push("CLOSE GAP", "positions", {},
               [clips |-> clips, trans |-> Prune(clips, doc.trans)])
       /\ Deselect /\ UNCHANGED next

----------------------------------------------------------------------------
(* Dissolves and links.                                                    *)

\* addDissolveAtClipOut(): on the cut with a clip that begins where this one ends.
AddDissolve(i, j) ==
    LET a == doc.clips[i]
        b == doc.clips[j]
        t == [a |-> i, b |-> j, in |-> AtMost(DissolveWant \div 2, MaxIn(a, b)),
              out |-> AtMost(DissolveWant - DissolveWant \div 2, MaxOut(a, b))]
    IN /\ i # j /\ a.row = b.row /\ ~a.audio /\ ~b.audio /\ b.start = End(a)
       /\ \A u \in doc.trans : <<u.a, u.b>> # <<i, j>>
       /\ t.in + t.out > 0
       /\ Push("ADD DISSOLVE", "content", {}, [doc EXCEPT !.trans = @ \cup {t}])
       /\ Deselect /\ UNCHANGED next

DeleteDissolve(t) ==
    /\ Push("DELETE DISSOLVE", "content", {}, [doc EXCEPT !.trans = @ \ {t}])
    /\ Deselect /\ UNCHANGED next

\* commitTransitionResize(): one side of the cut, up to its limit.
ResizeDissolve(t, f) ==
    LET a == doc.clips[t.a]
        b == doc.clips[t.b]
    IN /\ Live(doc.clips, t)
       /\ \E u \in {[t EXCEPT !.in  = Clamp(End(a) - f, 0, MaxIn(a, b))],
                    [t EXCEPT !.out = Clamp(f - End(a), 0, MaxOut(a, b))]} :
             /\ u # t
             /\ Push("RESIZE DISSOLVE", "content", {},
                     [doc EXCEPT !.trans = Prune(doc.clips, (@ \ {t}) \cup {u})])
       /\ Deselect /\ UNCHANGED next

\* linkSelectedClips(): the selected sounds follow the one selected picture.
Link(sel) ==
    LET sounds == {i \in sel : doc.clips[i].audio}
    IN /\ sounds # {}
       /\ \E p \in sel : /\ sel \ sounds = {p}
                         /\ Push("LINK AUDIO", "content", {}, [doc EXCEPT !.clips =
                              [i \in Ids |-> IF i \in sounds
                                  THEN [@[i] EXCEPT !.parent = p,
                                                    !.off = doc.clips[i].start - doc.clips[p].start]
                                  ELSE @[i]]])
       /\ Deselect /\ UNCHANGED next

\* unlinkSelectedClips(): the selected followers, and those of selected parents.
Unlink(sel) ==
    LET freed == {i \in sel : Linked(doc.clips, i)}
                 \cup UNION {Followers(doc.clips, i) : i \in sel}
    IN /\ freed # {}
       /\ Push("UNLINK AUDIO", "content", {}, [doc EXCEPT !.clips =
             [i \in Ids |-> IF i \in freed THEN [@[i] EXCEPT !.parent = 0, !.off = 0] ELSE @[i]]])
       /\ Deselect /\ UNCHANGED next

----------------------------------------------------------------------------
(* Rows.                                                                   *)

\* reorderTrack(): the row goes to its place, and those in between slide.
MoveTrack(from, to) ==
    LET Place(r) == CASE r = from -> to
                      [] from < r /\ r <= to -> r - 1
                      [] to <= r /\ r < from -> r + 1
                      [] OTHER -> r
    IN /\ from # to
       /\ Push("MOVE TRACK", "content", {},
               [doc EXCEPT !.clips = [i \in Ids |-> [doc.clips[i] EXCEPT !.row = Place(@)]]])
       /\ Deselect /\ UNCHANGED next

\* removeTrack(): its clips go, the rows below move up, and the history is dropped.
RemoveTrack(row) ==
    LET left  == Without(doc.clips, {i \in Ids : doc.clips[i].row = row})
        clips == [i \in DOMAIN left |->
                    [left[i] EXCEPT !.row = IF @ > row THEN @ - 1 ELSE @]]
    IN /\ Rows(doc.clips) > 1
       /\ doc' = [clips |-> clips, trans |-> Prune(clips, doc.trans)]
       /\ undo' = <<>> /\ redo' = <<>>
       /\ edits' = edits + 1
       /\ UNCHANGED <<gap, next, board>>

----------------------------------------------------------------------------
(* Saving and loading.                                                     *)

\* loadProject() of what was saved: the first clip comes to frame 0 (normalizeLead()),
\* the history is dropped, and the ids go on from the highest one there is.
Reopen ==
    LET clips  == [i \in Ids |-> [doc.clips[i] EXCEPT !.start = @ - Lead]]
    IN /\ doc' = [clips |-> clips, trans |-> Prune(clips, doc.trans)]
       /\ undo' = <<>> /\ redo' = <<>>
       /\ next' = FirstFree(doc)
       /\ edits' = edits + 1
       /\ UNCHANGED <<gap, board>>

----------------------------------------------------------------------------
TableRows == 0 .. Rows(doc.clips) - 1

Edit ==
    \/ CloseGap \/ Reopen
    \/ \E i \in Ids, f \in Frame : Trim(i, f) \/ SetRange(i, f) \/ Razor(i, f)
    \/ \E sel \in Selections :
          \/ Copy(sel) \/ Delete(sel) \/ Link(sel) \/ Unlink(sel)
          \/ \E dRow \in -Rows(doc.clips) .. Rows(doc.clips), by \in Shifts, ripple, copy \in BOOLEAN :
                Drag(sel, dRow, by, ripple, copy)
    \/ \E i, j \in Ids : AddDissolve(i, j)
    \/ \E t \in doc.trans : DeleteDissolve(t) \/ \E f \in Frame : ResizeDissolve(t, f)
    \/ \E f \in Frame : Paste(f)
    \/ \E row \in TableRows, audio \in BOOLEAN, f \in Frame, from \in DropsFrom :
          AddMedia(audio, row, f, from)
    \/ \E row \in TableRows : RemoveTrack(row) \/ \E f \in Frame : SelectGap(row, f)
    \/ \E from, to \in TableRows \ {Rows(doc.clips) - 1} : MoveTrack(from, to)

Next == Undo \/ Redo \/ (edits < MaxEdits /\ Edit)

Spec == Init /\ [][Next]_vars

----------------------------------------------------------------------------
(* Properties.                                                             *)

\* An undo takes back the last thing that was done to the document: it finds it as that
\* edit left it, and puts it back as it was before, whatever kind of snapshot the edit
\* took. A redo does the reverse.
UndoExact ==
    [][/\ Len(redo') > Len(redo)
             => doc = Last(undo).after /\ doc' = Last(undo).before
       /\ (Len(undo') > Len(undo) /\ edits' = edits)
             => doc = Last(redo).before /\ doc' = Last(redo).after]_vars

\* Every dissolve is on a live cut, one per cut, within the handles and the halves of
\* its clips, after any edit, undo or redo.
DissolvesLegal == CutsLegal(doc)

\* No clip references a frame its source does not have, whatever trims, cuts, drops
\* and trims of the clip it follows it went through.
SourceInRange == InRange(doc.clips)

\* A pair is a follower and a clip that follows nothing itself.
Paired(clips, i) == Linked(clips, i) /\ ~Linked(clips, clips[i].parent)
InPlace(clips, i) == clips[i].start = PlaceBy(clips[i], clips[clips[i].parent].start)

\* A pair survives every edit: a follower that is where its link says is so after the
\* edit too, as long as it is in a pair with the same clip.
PairsSurvive ==
    [][edits' = edits + 1 =>
          \A i \in Ids \cap DOMAIN doc'.clips :
              (/\ Linked(doc.clips, i) /\ InPlace(doc.clips, i)
               /\ Paired(doc'.clips, i) /\ doc'.clips[i].parent = doc.clips[i].parent)
                  => InPlace(doc'.clips, i)]_vars

\* The rows of pictures hold nothing else, and no two clips at one frame.
PicturesApart(clips) ==
    \A i, j \in DOMAIN clips :
        (i # j /\ clips[i].row = clips[j].row /\ ~clips[i].audio)
            => /\ ~clips[j].audio
               /\ End(clips[i]) <= clips[j].start \/ End(clips[j]) <= clips[i].start

\* Rows of pictures stay that way, and their clips apart, whatever clip is trimmed, cut,
\* added, pasted or moved, by overwriting or rippling: each makes the room it takes.
PicturesKeptApart ==
    [][(/\ undo' # <<>> /\ undo' # undo /\ Front(undo') = undo
        /\ Last(undo').label \in {"TRIM CLIP", "SET CLIP RANGE", "CUT CLIP", "MOVE CLIP",
                                 "ADD CLIP", "PASTE CLIPS"}
        /\ PicturesApart(doc.clips)) => PicturesApart(doc'.clips)]_vars

=============================================================================
