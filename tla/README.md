# Verification of jplay

jplay is a desktop player for reviewing shots: image sequences and videos on a timeline,
decoded ahead of the playhead into a memory budget, with background jobs, a review session
over the network and a local control channel. This directory holds TLA+ modules of its
concurrent core and of its editing, the TLC configurations that check them on small instances, and TLAPS
proofs of what they promise for every instance. Paths are relative to the repository:
the application is `src/src/`, its documentation `src/docs/`.

`PROJECT.json` lists every component, run, mutant and hazard, and the lines each definition
stands for. To check a module: `tlc -config X.cfg M`; to check a proof: `tlapm MProofs.tla`.

## 1. The system

One thread, the *UI thread*, owns the application (`App::run`, src/src/app/App.cpp:4707):
every frame it handles events, drains the completions of the background queues, applies
network and control messages, updates the player, publishes what the playhead will need
to the frame cache, and draws. Everything slow runs beside it.

| Component | State | Operations | Talks to | What is hard |
|---|---|---|---|---|
| Frame cache (`media/FrameCache`) | LRU map under a byte budget, pending batch, in-flight reads, busy videos, on-screen hold, flush counters | get, put, begin/request/endRequests, clear, dropMedia, setMaxBytes, workerLoop | published to by the player, put into by the hover preview, reads through `Media` | reads run with the lock released; flushes and seeks meet them at any point; wakeups; accounting |
| Work queue (`io/WorkQueue`) | pending jobs, completions, pause, stop, active count | submit, drainCompletions, setPaused, reset, workerLoop | every panel submits; loads reset | notify_one; reset against jobs in flight |
| Hover preview (`timeline/App_Timeline.cpp:4338-4535`) | thumbnails, in-flight marks, generation, slow flag | ensurePreviewThumb and its completions, clearFramePreview | work queue, frame cache, loads, proxy switch | results of before a switch; marks without a job; dropped requests |
| Media and proxy (`media/Media`, `media/ProxyMode`, `topbar/App_ProxyMenu`) | open source per media, slate offset, proxy mode and generation | ensureOpen, setProxyMode, setChannelSelection | every reader thread | re-open racing a switch |
| Thumbnail generator (`media/ThumbnailCache`) | current run, retired runs | start, stop, reap_, worker_, writeIfMissing | the overview grid, hover preview | cancelled workers outlive their run |
| Waveform cache (`media/WaveformCache`) | envelopes, in-flight marks | ensure, find, clear | work queue | marks against resets |
| Sync review (`io/SyncSession`, `panels/App_Sync`) | role, peers, snapshot, inbound queue, last-sent values | startHost, join, leave, broadcast, hostLoop, recvLoop, drainSync | network, player, project | joins during broadcasts, lost peers, blocking sends |
| Control channel (`io/ControlServer`, `app/App_Control`) | inbound requests with reply promises | start, stop, serveOne, drain | local clients, the run loop | reply timeout, stop |
| Audio (`media/Audio*`) | channels, stream | update, setDevice | SDL | real time |
| Output (`output/`) | device, frame being shown | submit, run | NDI, DeckLink | hand-over to the card's thread |
| Timeline and undo (`project/Timeline.h`, `project/Undo.h`, `timeline/App_Timeline.cpp`) | clips, links, dissolves, the stack of commands, clipboard, selected gap | trim, drag, drop, paste, cut, delete, link, dissolve, undo, redo | the mouse; project files | sequential, but each edit touches what others hang on: followers, neighbours, dissolves, and snapshots that carry only a part |
| Project files, OTIO, preferences | – | load, save | UI thread only | what a save keeps of ids and links |
| Decoders, colour, export, Python bridge, widgets | – | – | – | no protocol of their own, or external |

What makes the first ones correct:

* **Frame cache.** One worker inside a video's decoder at a time; a frame decoded once; reads
  whose result no longer counts told to stop; no stale frame admitted; no worker asleep
  beside work; the hold for the on-screen frame always released, and honoured while it is up;
  bytes accounted for; trimming within the budget, least wanted first; the frame under the
  playhead eventually there; the destructor returns.
* **Work queue.** A job runs once and its completion is called on the UI thread once, unless a
  reset came first, and then never; no lost wakeup; reset and destructor return.
* **Hover preview.** No frame of an old file or an old view reaches the cache; marks are taken
  back; the preview catches up with the cursor.
* **Media and proxy.** After a switch and its flush no frame of the old mode is shown; the slate
  offset used is that of the source read.
* **Sync review.** A peer that has applied everything has what was broadcast last, but for a pan it had
  no frame to place on; a joiner never goes back to an older project; nothing of a session that was left reaches the next; leaving
  returns; a closed connection is noticed.
* **Timeline and undo.** An undo takes back exactly the last edit; dissolves stay on live cuts within
  their handles; clips within their sources; sound with its picture; no overlaps on a row of pictures.
* **Control channel.** Each request gets one answer, and its own; stop returns.
* **Thumbnails.** No write of a run past the one that replaced it; bounded threads.

The hazards these rest on are in `PROJECT.json`, each at its line.

## 2. Modules

| Module | Models | Lines of it that matter |
|---|---|---|
| `Sums` | sums over finite sets | – |
| `Induction` | induction and recursion along an order, as first-order facts for the proofs | – |
| `FrameCache` | the decoded-frame cache and its reader pool | FrameCache.cpp 11-476 |
| `FrameCacheProofs` | its theorems | – |
| `JobQueue` | abstract: what a background queue promises | WorkQueue.h 14-46 |
| `WorkQueue` | the queue, detailed; implements `JobQueue` | WorkQueue.cpp 5-103 |
| `WorkQueueProofs` | its theorems, the refinement among them | – |
| `HoverPreview` | the frame preview, composed of `JobQueue` and a frame cache seen from outside | App_Timeline.cpp 4338-4535 |
| `HoverPreviewProofs` | its theorems | – |
| `SyncSession` | the network side of a sync review: sockets, the host's loop, receivers, `leave()` | SyncSession.cpp 191-768 |
| `SyncReview` | the applications over it: the host's per-tick diffs, the spectators' drain | App_Sync.cpp 40-288, App_Player.cpp 543-575 |
| `SyncNetProofs` | its types, and that nothing of an old session reaches a new one | – |
| `SyncReviewProofs` | that a spectator never goes back, and ends up with what was sent | – |
| `Timeline` | clips, links, dissolves, and making room, as functions | Timeline.h, App_Timeline.cpp 4814-4929 |
| `Editing` | the edits, with undo, redo, save and load | App_Timeline.cpp 2606-5256, Undo.h |
| `EditingProofs` | its theorems, and what each operator of `Timeline` does | – |
| `ApartProofs` | that the edits that make room keep pictures apart | – |
| `MC*` | small instances | – |

Each module marks, with the word *mutant*, definitions that are not part of the model: each is
a plausible bug put in place of the definition it follows, to see that the property listed with
it in `PROJECT.json` is then violated.

### FrameCache

Every action is one critical section of `mtx_`. The UI thread's calls are `Get`, `Put`,
`EndRequests` (with the staging before it, which no other thread sees), `Clear`, `DropMedia`,
`SetMaxBytes` and `Shutdown`. A worker's loop is cut where it releases the lock: `Wait` (into
`cv_.wait`), `SkipResident`, `StartRead`, `FinishRead` and `Exit`. Between `StartRead` and
`FinishRead` a worker is decoding, with its job in `reads[w]`, and anything may happen.
`FinishRead` may bring a frame of any size or none, and a called-off read may do either: a
video read does not look at its flag.

| Code | Model |
|---|---|
| `map_`, `Entry` | `map`: key -> bytes, standing |
| `tick_` | `older`: the order of the ticks, a relation |
| `wantEpoch`, `wantPrio` | `want`: the priority while the epoch is current, `Unwanted` after; a `put()` before any batch has the epoch 0 that is then current, so its standing is 0 |
| `inflight_` with a shared flag | `inflight`: key -> generation and owning worker, whose `reads[owner].cancel` is the flag |
| `heldReads_`, `holdReads_`, `firstFrameHold_` | the same, with 0 for no entry |
| `cv_` | `waiting`; only a notification wakes, so no spurious wakeup hides a missing one |
| `evictLocked` | `TrimTo`: what is dropped is the least prefix, in the code's order, that ends within the budget. Taking the maximum first and sorting the rest, as the code does, gives the same set |

Left out: the read timings and the fill rate (statistics), freeing off the lock, and the
`FramePool`. Equal priorities are taken in any order, a superset of the code's.

### WorkQueue and JobQueue

`ui` says where the UI thread is, and a notification is a step of its own, because the code
sends it with the lock released: a worker may take a job between `submit`'s push and its
`notify_one`. `reset()` is four steps: drop and stop, notify, check the count, sleep; the last
active worker's `idleCv_` notification brings it back to the check. Jobs are slots that are
used again. The completions of one drain are called one at a time and may submit, but not
reset: no completion in the application loads a project.

`JobQueue` has one variable, the phase of each job, and five atomic actions. The refinement
mapping puts a job out of the queue from the moment `reset()` sets `stop_`, wherever it still
is: this is what makes `reset()` atomic for its caller.

### HoverPreview

The queue is `JobQueue` (the refinement above is what allows that), the frame cache is the set
of resident frames, filled with current frames and trimmed at will by the pool that `FrameCache`
models. A frame is known by the file and the view (proxy mode, channels) it was read from,
counted per media. The slow path captures the media, so the file, when it is submitted, and
opens it, so takes the view, when it runs. `Event` and `Parses` select what the user does.

Left out: the 5 px throttle; playback, which hides the preview and pauses the queue; the cap of 64
thumbnails; the JPEG write-through.

### SyncSession and SyncReview

A connection has two ends and the queue of messages from the host to the spectator; TCP delivers
them in order and then the end of the stream. The host's loop is cut at its lock: it waits,
accepts and copies the snapshot (`Accept`), sends it without the lock and then adds the peer
(`AddPeer`), or reads and drops the peers that are gone (`Reap`). A receiver waits in `recv()`, has a
message in hand, pushes it. `leave()` is two steps on either side: flag and close, then the join.
`CloseWakes` says whether closing a socket ends a `recv()` that is blocked on it: it does on
Windows, and not on Linux, where only `shutdown()` would.

Above it, a tick of the host is a list of sends (`outbox`), because each broadcast takes the lock
for itself and a peer may join between two of them. `reached` is a history variable, what was
broadcast to a connection since it was made a peer. A send never blocks.

What a host sends after counting its peers is its framing: a zoom, and the image point at the centre
of the player, from which a spectator works out a pan in its own pixels. What `drainSync` makes of a queue is said in closed form: of each kind the last message
stays (`Applied`), and a framing is `Placed`: without a frame in the player (`texW_`, `texH_` still 0)
`applyFrameView` takes over the zoom and centres the image. Whether there is a frame is open at each drain: a
spectator that joins from the launcher has none until its first one is decoded, and a display with another range takes it
away again (`rebuildRenderer_`). `blind` is a history variable: the last framing found none.

| Code | Model |
|---|---|
| `frameZoom_`, `framePanX_`, `framePanY_` | `framing`: zoom and image point; `HostFraming` has those `frameViewCenter` gives |
| `lastSentZoom_`, `lastSentU_`, `lastSentV_` | `sent.framing`, `NeverSent` where the zoom is set to -1 |
| `lastPeerCount_` | `sent.peers` |
| `hostSnapshotDirty_` | `dirty` |

Left out: the sequence, transport, matte and exposure diffs, which are compared and sent in the same way and
applied whole; a frame or a window that changes its shape, after which the same pan in pixels is
another point. A spectator cannot zoom or pan for itself (`transportLocked`, App.cpp:1832).
The peers are a set: a broadcast goes to all of them under the lock, so their order shows nowhere.

### Timeline and Editing

`Timeline` has no state: a sequence is a function from ids to clips and a set of dissolves, and each
helper of the code is an operator on them. `Editing` is the document, the two stacks, the
selected gap, the clipboard and the next id. A gesture is one step, from press to
release: what is in between is a preview that changes nothing. A
command keeps the documents of before and after and its kind, and what its closure does with
them is `Restored`: whole clips put back as they were (drag, delete, paste), whole content, pruned
again (`restoreContent`), or rows, starts and dissolves, with the range of a few clips (`restorePositions`
and `restoreClipGeom`). Whether the last kind is enough for a trim that pushes a row, carries followers and
shortens dissolves is what `UndoExact` asks.

| Code | Model |
|---|---|
| `Clip`, `Transition` | `Clip`, `Dissolve`; two clips on a cut are named by id, so a set will do |
| `trackCount` | `Rows`: one spare row below the last that is used, as `ensureTrailingEmptyTrack` leaves it |
| order of `sequence.clips` | order of the ids, which new clips and tails extend |
| `selectedClipIds_` | any one or two clips: the sound of a picture can be taken out of the selection by a modified click |
| save and load | `Reopen` |

Left out: the packing of several sequences, shots, fades, curves, annotations, the replacement of a clip's
media, and the pairing of a sound with a new image sequence by the naming config.

## 3. Runs

| Run | Instance | Distinct states | Shows |
|---|---|---|---|
| `reads` | 1 video of 2 frames, 1 sequence, 2 workers, 2 priorities, 3 batches, 1 clear | 64 078 | one worker per video; no lost wakeup; the pool drains, the on-screen frames get in, the joins return |
| `trim` | same media, frames of 1 or 2 bytes, a budget of 2, 2 batches, one drop per media, previews put in | 202 094 | hold counts, single decode, call-offs, accounting, budget, `put` |
| `hold` | as `reads` | violated | finding 1 |
| `wanted` | as `reads`, budget 1 | violated | finding 2 |
| `queue` | 2 workers, 3 jobs, one without completion | 1 927 | the refinement, wakeups, reset, destructor, service |
| `hover` | 2 media of one frame, one unreadable, 2 slots, 2 retiring events of five kinds | 258 224 | no frame of an old file, marks taken back, the preview catches up |
| `hover_switch` | one switch of mode or channels | violated | finding 3 |
| `hover_failed` | one load of a file that does not parse | violated | finding 4 |
| `session` | a host and a spectator, 2 connections, 2 things the host's user does, two zooms and two image points | 221 177 | peers current but for a pan without a frame, no older project, nothing of an old session, `leave()` returns, a lost host is noticed |
| `session_leave` | one connection, `CloseWakes = FALSE` | violated | finding 5 |
| `editing` | 4 projects of 3 clips, 2 edits with any undo and redo, 5 clips at most | 333 610 | undo exact, dissolves legal, sources respected, pairs together, rows without overlaps |
| `editing_drop` | the same, clips dropped from the desktop | violated | finding 6 |

**Why these bounds.** Two workers are the least that can be in each other's way, and each hazard
of the cache is between two reads or between a read and one call. Two frames of one video make
its decoder contended; a sequence beside it is read freely; two priorities are on screen and
ahead. One flush is enough to have a doomed read beside a fresh one, and a second adds only a
second doomed read. `MCSeek` seeks back and forth between two positions; `MCDissolve` adds a batch with two
frames on screen, as a dissolve has. Frames of 1 and 2 bytes under a budget of 2 give growth, an insertion
that takes one victim, one that takes several, and a single frame over budget. In the queue,
three jobs for two workers leave one waiting while both are busy, and slots are used again, so
runs are unbounded. In the preview one slot may hold a job of before a clear and the other one
of after it, and two events let a second one meet what the first left. In the session two
connections let a spectator leave, or be dropped, and join again while the first connection is still being taken
apart, in a session of the host or the next. Two zooms and two points give the three framings that matter:
the whole image, and a zoomed one centred or not. The four projects of `editing` have between them two
pictures with a dissolve on their cut, a gap, a sound slipped against its picture, a sound older than its picture,
and a sound that follows a sound; two edits are enough for an edit to meet what another left, and each is undone and redone. Random
behaviours of six edits and eight clips have been simulated beyond that without a violation. The safety properties
do not hang on these bounds: every one is proved for all of them.

`CHECK_DEADLOCK FALSE` stands where destruction ends the system.

**Fairness.** *FrameCache*: weak fairness of each worker, that is, a decoder call returns, with
a frame or without, and a thread that has the lock free goes on. Nothing is assumed of the UI
thread; where a property needs it to go on publishing, its premise says so (`OnScreenServed`:
`submitCacheRequests`, App.cpp:3726, publishes again every `kPrefetchRefreshMs`).
*WorkQueue*: weak fairness of each worker (jobs poll `stop` or are short) and of a call the UI
thread is inside; strong fairness of the drain and of a completion, which the run loop gets to in every
frame (App.cpp:4737) although other submissions come between. `JobsServed` has the premise that
playback does not pause the queue for ever or again and again: while it plays, `setPaused` holds
jobs by design.
*SyncReview*: the threads go on, and so does each application's main loop, which drains every frame and
finishes what it began; nothing says that a user acts or that the other end answers.
*Editing* has no liveness: it is what a user does.
*HoverPreview*: the queue serves its jobs, which is `JobsServed`, and the UI thread ends what
it began; nothing of the user or of the cache. `slow` is a legitimate end of `CatchesUp`: the
code then stops decoding on demand.

## 4. Proofs

For all values of the constants allowed by the named assumptions (finite keys and
workers, natural sizes and budgets, priorities with 0, batches over the keys):

**FrameCache** (`FrameCacheProofs`). The invariant has three layers, each using the one before.
`ReadInv` says which reads run: a read that has not been called off stands in `inflight_` under
its own flag (`Registered`), each entry is that of a running read with the counters it
started with (`InflightBacked`), and a pending key has no live read (`PendingOwed`). These are
what the checks lack: `NoDoubleDecode` is not inductive, because nothing in it stops
`endRequests` from queueing a key whose live read is not in `inflight_`. From it follow
`SoleVideoReader`, `NoDoubleDecode`, `DoomedCalledOff` and, with the notifications,
`NoMissedWakeup`. `HoldInv` gives `HoldBacked`: adoption and release keep a key's counts below the
number of its readers; that `endRequests` adopts only reads that are live is where `ReadInv` comes in.
`ByteInv` says that the total is the sum over the entries and that the tick order
is one; `TypeOK`, `BytesAccounted`, `BudgetKept` and `PutKeepsWanted` follow from it. Sums are
cardinalities of disjoint unions (`Sums`), so their lemmas, which come first in the module, need no induction.

**WorkQueue** (`WorkQueueProofs`). `IInv` is `TypeOK` with: a job is in one place at a time
(`JobsApart`), so is a worker (`WorkersApart`), the flags say where the UI thread is
(`FlagsFollow`), `active_` counts the running jobs (`Counted`), and `NoJobLeftAsleep`. The last
is the argument for `notify_one`: the workers awake or about to be woken are at least as many
as the jobs, or nobody sleeps; so a worker only goes to sleep when there is nothing left. `IInv` gives
`NothingOutlivesReset` and the simulation: each step maps to a step of
`JobQueue` or to a stutter (`ImplementsHolds`).

**HoverPreview** (`HoverPreviewProofs`). `IInv` is `TypeOK` with: a job the queue has is of a key,
and was submitted in this generation or before (`JobsKeyed`), and the preview is resolved again only
for a cursor (`ResolveHovers`). `FilesCurrent` is not inductive because a decode under way will publish
what it read: `FInv` adds that a job of the current `previewGen_` reads the current file
(`JobsCurrent`). `VInv` is the same for the view, and does hold only where no switch happens: `ViewsCurrentHolds`
has that as a premise, which says that `applyProxyMode` and `applyChannelSelection` are the only
causes of finding 3. Likewise `MarksBackedHolds` is for the case that every file parses, and so
finding 4 comes from the failed load alone.

**SyncReview** (`SyncNetProofs`, `SyncReviewProofs`). `NetInv` is about the network alone, and nothing
in it depends on what closing a socket does to its reader: `CloseWakes` may be either.
`Typed` is `TypeOK`; types alone are not inductive, because a receiver takes its message
from the connection it believes it has, so `Sound` says that a spectator in a session has a
connection that exists and one without a session has no receiver and an empty queue. It
gives `OldSessionSilent`, from the order inside `leave()` (join, then clear). `Wired` says that no two spectators
share a connection and that its two ends agree; `Joining` that until `AddPeer` a connection carries
nothing, or the snapshot alone, and that the host's loop holds the one it is handing over.

The two properties of the applications are about `Coming(s)`: what was sent to spectator s and not
applied, in the socket, in the receiver's hand and in the queue, as one sequence. The receiver
moves messages along it and leaves it as it is, the host appends to it, a drain takes a prefix
off; the project after a concatenation is that of one after the other (`AppliedConcat`), so what s *will* show
changes only when the host sends. For the framing that is not so, because where a drain finds no frame the pan is lost:
`WillFrame` says that the framing sent last is still coming, or is shown as it was placed (`FrameDrained`). `TickInv` says where a tick stands: the outbox is one of a few
lists, and a broadcast of a project has the snapshot stored before it. `OrderInv` says that the
revisions in `view[s]`, `Coming(s)` and the snapshot handed to a joiner rise, and end at most at the stored
snapshot; that gives `ProjectNeverOlder`. `CurrentInv` says that a peer who was sent a kind of message will show the
snapshot, or the framing last sent, placed, unless that is still in the outbox; with everything drained it
is `PeersCurrent`. The theorem leaves the code one exception, and states how far it goes: a framing applied without a
frame keeps its zoom, and the project is never touched by it.

**Editing** (`EditingProofs`, `ApartProofs`). The constants are any loaded documents that satisfy
`EditingAssumption`: finite, with dissolves that are legal (a load prunes them, App_Timeline.cpp:3405) and clips
within their sources, and any bounds. The first half of the module is about the operators of `Timeline`,
each with what it keeps: the kind and the links of a clip, its range within the source, ids below the next
one, or, for pruning, dissolves that are legal whatever the clips are (`PruneLegal`) and the same where they
already are (`PruneKeeps`). `Edited(d, n)` says of a result that it is a document with ids below n and
is legal if the one before was, with its pairs in place; each edit has a lemma that concludes it. `EditIs` then sorts the edits into four
kinds of steps: with a command (`Commanded`), without one (`DroppedIn`, the drop from the desktop), with the
history cleared (`Forgotten`), and beside the document (`Aside`).

`TypeInv` is inductive by that alone. `UndoExact` is not inductive, nor does it follow from what one edit
does: that an undo finds the document its edit left rests on every edit, undo and redo since. `HistoryInv`
is the chain: each command's document after is the next one's before, up to the document there is, and
from there along the redo stack (`UndoChain`, `RedoChain`). An undo takes a link off the one and
puts it on the other. That a closure puts back the *whole* of the document, although it carries a part, is
`RestoredIs`: a snapshot of content is pruned again, so its dissolves have to be legal as they are; a snapshot of
positions restores rows and starts, and the range of the clips in `geom`, so the two documents must agree on
everything else (`Matches`): the clips there are, their kinds and links, and the range and offset of all clips but
those. For a trim that is `RecutEdits`: the clip and its followers are all that is trimmed, and they are what
`Geom` carries. `DissolvesLegal` and `SourceInRange` follow because the documents in the chain are legal, so
that an undo puts back a legal one.

`PairsSurvive` needs `TypeInv` alone. `ResyncPlaces` says that one sweep puts the pairs in their
places, whether the sound or the picture comes first in it; the edits that do not sweep leave both clips
where they are and keep the offset, or record it anew (`StillKeeps`); and a load shifts all clips alike, by
no more than the first one starts at, so that the clamp at frame 0 is not met.

`PicturesKeptApart` is in `ApartProofs`. Two clips `Fit` if they are on different rows, or are both sounds, or
both pictures of which one ends before the other begins; the property says that all pairs still fit after the edit. Nothing
that follows the making of room can undo it: a resync and a slip move sounds alone (`ResyncSettles`), because a
picture follows nothing, and a piece of a clip fits wherever the clip did (`FitWithin`), which is all that a
cut is (`CutApart`). What is left is that the room is made. `RippleIs` says of `rippleClips` that what it
pushed is clear of the range that was claimed and of each other;
`OverwriteApart` that the clips under a drop are taken out or cut to what is beside it. A trim and an added clip push
whatever ends after they begin, so nothing more is needed. A drop with ripple pushes only what begins at or after
it, and a clip that begins before it must also end before it: that is what the jump of `updateClipDrag` is for
(`JumpClear`), and why the property is about one clip moved, since a group jumps once, for the furthest of its
members. A paste needs an order on what is pasted, since each copy looks for room beside those
before it (`PasteApart`, by `OrderedInduction`). A redo is one of these steps as well, and does not make any room: it puts a document
back. `ApartInv` therefore adds to the chain that every command on either stack kept the pictures apart (`Kept`).

But for `TypeCorrect` and `PairsSurvive`, these have the premise `"desktop" \notin DropsFrom`: the drop without a
snapshot breaks the chain, and is the only cause of finding 6.

Several of these proofs need an induction over a sequence, or over what was placed before. The library's induction theorems
take an operator as a parameter and cannot be used, but well-foundedness of the naturals is a
first-order fact: `LeastNat` takes the least counterexample, or the last position of a kind. From it come
`OrderedInduction` and `OrderedRecursion`, which say of a set what they do of an operator: what holds of an
element once it holds of those before it holds of all, and a function defined by its values at those before
exists. The ripple, the row of drops and the rows of a paste are such functions.

**Only model-checked** is liveness (`DrainsWhenQuiet`, `OnScreenServed`, `ShutdownReturns`,
`ResetReturns`, `QuitReturns`, `JobsServed`, `CatchesUp`, `LeaveReturns`, `HostDropSeen`), which the
proof system does not treat under fairness. The recursive functions of the model (`Resynced`, `Pushed`, the row of drops,
`PasteRows`) are proved to have the properties above, by well-founded order; that their values are those of the code's
loops is what TLC's mutants probe.

## 5. Findings

1. **`hold`, HoldHonoured.** FrameCache.h:164 says of the hold that while it is up no prefetch read
   starts as long as an on-screen read is in flight. The counts are kept by key
   (FrameCache.cpp:438): an on-screen read flushed by `clear()` that ends before the fresh read
   of the same frame gives back that one's count, and prefetch starts beside it. The effect is
   on speed alone.
2. **`wanted`, UnwantedGoFirst.** A called-off read that completes is admitted with the current
   `wantEpoch_` and its old priority (FrameCache.cpp:465), and a frame of the published set may
   be dropped for it, against FrameCache.h:111 and FrameCache.cpp:300. The next batch puts the
   standing right.
3. **`hover_switch`, ViewsCurrent.** A preview decode that opened its source before a switch of the
   proxy mode or of the channels puts its frame into the cache after the flush, under
   the key of the new frames: `applyProxyMode` and `applyChannelSelection` do not bump
   `previewGen_`. The picture of the old mode stays until it is trimmed.
4. **`hover_failed`, MarksBacked.** `loadProject` resets the queue before it knows whether the file
   parses; on failure the mark of the dropped decode stays, and no preview is decoded on demand
   any more until something clears it.
5. **`session_leave`, LeaveReturns.** `leave()` closes the spectator's socket and joins the receiver
   blocked in `recv()` on it; SyncSession.cpp:648 says that closing unblocks it. On Linux `close()`
   does not, and with a host that sends nothing the UI thread waits.
6. **`editing_drop`, UndoExact.** Clips that come in from the desktop (App.cpp:2240), the Add Media browser
   (App_Project.cpp:3883) or a folder (App_Timeline.cpp:4626) change the timeline without a command; those
   dropped from the bins push one. The next undo takes back the edit before: it wipes the new clip, for
   good, or puts old positions under it.

Seen while modelling, without a run of their own:

* **Dead links revived.** Timeline.h:53 says that a stale link is inert and nothing has to prune it. It is
  saved (Project.cpp:142), and after a load the ids go on from the highest in use (Project.cpp:574): a
  new clip may get the id of a removed parent, and its sound follows it. If the new clip is a sound that
  is then linked to a picture, a sound follows a sound, and one sweep of `resyncLinkedClips` (called
  idempotent, App_Timeline.cpp:3901) can leave it where its parent was before. `PairsSurvive` is about
  pairs, whose parent follows nothing; the fourth project of `editing` has such a chain.
* **Pairs.** `addPairedAudio` gives the sound the length of the picture without looking at what its source
  has (App_Timeline.cpp:5344). A razor gives the tail of a slipped sound the offset of its head, so the
  next resync moves it. An overwrite that trims a picture's head shifts its sound without trimming it.
* **Overlaps** (App.h:2429: clips never overlap within a row). Closing a gap moves later clips of other
  rows over a clip that spans the gap; a resync may put a sound over its neighbour; a group dropped
  with ripple jumps once, for its furthest member; Alt-duplicating a pair one row down puts picture and sound on
  one row. `PicturesKeptApart` is about the edits for which it holds.
* **Outside undo**: hiding a clip (App.cpp:1886), muting and naming rows. The selected gap survives
  undo, cuts, loads and the removal of rows, and is then closed where it no longer is.
* **Sessions.** The host sends its view again for a new peer (App_Sync.cpp:252-259), once, on the tick that counts it. A spectator
  that has no frame yet then keeps the zoom and drops the pan (App_Player.cpp:565), and nothing sends it
  again until the host's own view changes: the joiner looks at the centre of the image, against App_Sync.cpp:253 ("zoom/pan isn't carried in
  the project snapshot, so a late joiner needs it") and docs/SYNC_SESSION.md:55 ("so the framing reproduces at any window size").
  `PeersCurrent` has the exception in so many words (`blind`). A project broadcast between the copy of the snapshot (SyncSession.cpp:391) and the joiner's
  becoming a peer never reaches it. A spectator leaving and another joining between two ticks hide each
  other (App_Sync.cpp:252). An accept that ends while the host leaves stays open until the next session.

## 6. Not modelled, and the plan

`PROJECT.json` says for each component why it is left out. What remains worth modelling, in order:

1. `FrameStore`, what a cache promises its reader (a frame got is one read since the last flush
   of its media), implemented by `FrameCache`: as a property of a run and as a theorem.
2. `ProxySwitch`: `Media::ensureOpen` against `setProxyMode` and the flush, composed with the
   cache's counters.
3. `ThumbnailRuns`: start, stop and reap_ with workers that outlive their run; the waveform cache's marks
   go with it, being those of `HoverPreview` again.
4. `ControlChannel`: request, answer, timeout and stop.
5. In `SyncReview`: bounded socket buffers, so that a send holds the lock, and the transport. In
   `Editing`: several sequences and their packing, the replacement of media.

Not to be modelled: decoders, colour, export, audio and output devices (arithmetic on pixels and
samples, foreign libraries, real time); panels and widgets (drawing); the format of project files,
OTIO and preferences (conversions read and written whole by one thread); the Python bridge.
