---------------------------- MODULE HoverPreview ----------------------------
(***************************************************************************)
(* The frame preview over the timeline ruler (ensurePreviewThumb,          *)
(* clearFramePreview and updateFramePreview of App_Timeline.cpp): a hover  *)
(* decodes a frame on the background queue, and its completion keeps a     *)
(* thumbnail and hands the full frame to the frame cache, so it must not   *)
(* outlive what retires frames: a load, a relocation, a proxy switch.      *)
(*                                                                         *)
(* The queue is JobQueue, which WorkQueue implements; the frame cache is   *)
(* `resident`, filled and trimmed at will by the pool FrameCache models.   *)
(* Left out: the 5 px throttle, playback (it hides the preview and pauses  *)
(* the queue), the 64-entry cap of the thumbnails and the JPEG             *)
(* write-through.                                                          *)
(***************************************************************************)
EXTENDS Naturals, FiniteSets, Functions

CONSTANTS
    Media,
    Key,         \* cache keys
    MediaOf,     \* the media of each key
    None,        \* no key
    Unreadable,  \* the keys whose decode brings no frame
    Job,         \* the queue's slots
    Event,       \* what the user may do besides hovering
    Parses,      \* what may come of reading a project file: TRUE, it parses
    MaxEvents    \* bound on the events that retire frames

ASSUME PreviewAssumption ==
    /\ MediaOf \in [Key -> Media]
    /\ None \notin Key /\ Unreadable \subseteq Key
    /\ Event \subseteq {"load", "relocate", "replace", "proxy", "channels"}
    /\ Parses \subseteq BOOLEAN
    /\ MaxEvents \in Nat

VARIABLES
    phase,     \* the queue's: where each job is
    job,       \* what the jobs hold: [key, gen, path, view, fast]
    path,      \* media -> the file it stands for, by count of changes
    view,      \* media -> the proxy mode and channels it is read through, likewise
    resident,  \* the frame cache: key -> [path, view] it was read from
    thumbs,    \* previewCache_, likewise
    inflight,  \* previewInflight_
    gen,       \* previewGen_
    slow,      \* previewSlowAccess_
    hover,     \* previewKey_ while previewHasKey_, else None
    resolve,   \* a completion is about to resolve the preview again
    events     \* how many events have retired frames

mediaVars   == <<path, view, events>>
previewVars == <<thumbs, inflight, gen, hover>>
vars == <<phase, job, mediaVars, resident, previewVars, slow, resolve>>

Queue == INSTANCE JobQueue WITH WithDone <- Job

\* The jobs still to report to the UI thread.
Live == {j \in Job : phase[j] # "idle"}

EmptyMap == [x \in {} |-> x]
With(f, x, v) == [y \in DOMAIN f \cup {x} |-> IF y = x THEN v ELSE f[y]]

\* What a frame of k is a frame of.
Current(k) == [path |-> path[MediaOf[k]], view |-> view[MediaOf[k]]]

\* What an idle slot holds.
NoJob == [key |-> None, gen |-> 0, path |-> 0, view |-> 0, fast |-> FALSE]

-----------------------------------------------------------------------------
Init ==
    /\ Queue!Init
    /\ job = [j \in Job |-> NoJob]
    /\ path = [m \in Media |-> 0] /\ view = [m \in Media |-> 0]
    /\ resident = EmptyMap /\ thumbs = EmptyMap
    /\ inflight = {} /\ gen = 0 /\ slow = FALSE
    /\ hover = None /\ resolve = FALSE /\ events = 0

-----------------------------------------------------------------------------
(* ensurePreviewThumb *)

Submit(k, frame, fast) ==
    /\ inflight' = inflight \cup {k}
    /\ \E j \in Job :
          /\ Queue!Submit(j)
          /\ job' = [job EXCEPT ![j] = [key |-> k, gen |-> gen, path |-> frame.path,
                                        view |-> frame.view, fast |-> fast]]

\* Whether a frame that is not resident may be decoded on demand.
MayDecode == ~slow /\ inflight = {}

EnsurePreviewThumb(k) ==
    \/ /\ k \in DOMAIN thumbs \cup inflight
       /\ UNCHANGED <<phase, job, inflight>>
    \/ /\ k \notin DOMAIN thumbs \cup inflight
       /\ IF k \in DOMAIN resident THEN Submit(k, resident[k], TRUE)
          ELSE IF MayDecode THEN Submit(k, Current(k), FALSE)
          ELSE UNCHANGED <<phase, job, inflight>>

\* The cursor comes to rest on k.
Hover(k) ==
    /\ ~resolve
    /\ hover' = k
    /\ EnsurePreviewThumb(k)
    /\ UNCHANGED <<mediaVars, resident, thumbs, gen, slow, resolve>>

Leave ==
    /\ ~resolve
    /\ hover # None /\ hover' = None
    /\ UNCHANGED <<phase, job, mediaVars, resident, thumbs, inflight, gen, slow, resolve>>

\* The trailing updateFramePreview() of a completion.
ResolveAgain ==
    /\ resolve /\ resolve' = FALSE
    /\ EnsurePreviewThumb(hover)
    /\ UNCHANGED <<mediaVars, resident, thumbs, gen, slow, hover>>

-----------------------------------------------------------------------------
(* The queue's workers. *)

\* The work opens the media it was submitted with, through whatever proxy mode and
\* channels are current by now; the fast path has its frame already.
Open(j) ==
    /\ Queue!Start(j)
    /\ job' = IF job[j].fast THEN job
              ELSE [job EXCEPT ![j].view = view[MediaOf[job[j].key]]]
    /\ UNCHANGED <<mediaVars, resident, previewVars, slow, resolve>>

\* The read returns, and may have been a slow one.
Decode(j) ==
    /\ Queue!Finish(j)
    /\ slow' \in (IF job[j].fast THEN {slow} ELSE {slow, TRUE})
    /\ UNCHANGED <<job, mediaVars, resident, previewVars, resolve>>

-----------------------------------------------------------------------------
(* The completion, on the UI thread. *)

MarkKept(j) == UNCHANGED inflight  \* mutant: a discarded result keeps its mark
MarkGone(j) == inflight' = inflight \ {job[j].key}

AnyGen(j) == TRUE  \* mutant: a result of before clearFramePreview() still counts
SameGen(j) == job[j].gen = gen

\* put() of the full frame: a resident one is left alone.
PutFull(k, frame) ==
    resident' = IF k \in DOMAIN resident THEN resident ELSE With(resident, k, frame)

Frame(j) == [path |-> job[j].path, view |-> job[j].view]
BringsFrame(j) == job[j].fast \/ job[j].key \notin Unreadable

\* Mutant: the result of a failed decode is stored as well.
PublishNull(j) ==
    /\ thumbs' = With(thumbs, job[j].key, IF BringsFrame(j) THEN Frame(j) ELSE None)
    /\ UNCHANGED resident

Publish(j) ==
    IF BringsFrame(j)
    THEN /\ thumbs' = With(thumbs, job[j].key, Frame(j))
         /\ IF job[j].fast THEN UNCHANGED resident ELSE PutFull(job[j].key, Frame(j))
    ELSE UNCHANGED <<thumbs, resident>>

ResolveNever(j) == FALSE  \* mutant
CursorMovedOn(j) == hover # None /\ hover # job[j].key

Complete(j) ==
    /\ ~resolve
    /\ Queue!Call(j)
    /\ MarkGone(j)
    /\ job' = [job EXCEPT ![j] = NoJob]
    /\ IF SameGen(j) THEN Publish(j) /\ resolve' = CursorMovedOn(j)
       ELSE UNCHANGED <<thumbs, resident, resolve>>
    /\ UNCHANGED <<mediaVars, gen, slow, hover>>

-----------------------------------------------------------------------------
(* The frame cache's own work (FrameCache), seen from here. *)

CacheReads(k) ==
    /\ k \notin DOMAIN resident \cup Unreadable
    /\ resident' = With(resident, k, Current(k))
    /\ UNCHANGED <<phase, job, mediaVars, previewVars, slow, resolve>>

CacheDrops(k) ==
    /\ k \in DOMAIN resident
    /\ resident' = Restrict(resident, DOMAIN resident \ {k})
    /\ UNCHANGED <<phase, job, mediaVars, previewVars, slow, resolve>>

-----------------------------------------------------------------------------
(* What retires frames, on the UI thread. *)

User(e) == ~resolve /\ e \in Event
Retires == events < MaxEvents /\ events' = events + 1

\* clearFramePreview()
ClearPreview ==
    /\ gen' = gen + 1
    /\ thumbs' = EmptyMap /\ inflight' = {}
    /\ hover' = None /\ slow' = FALSE

Changed(f, S) == [m \in Media |-> IF m \in S THEN f[m] + 1 ELSE f[m]]

\* loadProject(), loadOtio() and a session's loadProjectFromBuffer(): the queue is
\* reset first, and a file that does not parse changes nothing more.
Load ==
    /\ User("load")
    /\ Queue!Reset /\ job' = [j \in Job |-> NoJob]
    /\ \E parses \in Parses :
          IF parses
          THEN /\ Retires
               /\ ClearPreview /\ resident' = EmptyMap
               /\ path' = Changed(path, Media) /\ view' = Changed(view, Media)
          ELSE UNCHANGED <<mediaVars, resident, previewVars, slow>>
    /\ UNCHANGED resolve

\* A missing source is found elsewhere: its Media is replaced under the same id.
Relocate(m) ==
    /\ User("relocate") /\ Retires
    /\ path' = Changed(path, {m})
    /\ ClearPreview /\ resident' = EmptyMap
    /\ UNCHANGED <<phase, job, view, resolve>>

\* A clip's source is replaced (switchClipSource), or the preview switched off.
Replace ==
    /\ User("replace") /\ Retires
    /\ ClearPreview
    /\ UNCHANGED <<phase, job, path, view, resident, resolve>>

\* applyProxyMode()
SwitchProxy ==
    /\ User("proxy") /\ Retires
    /\ view' = Changed(view, Media)
    /\ resident' = EmptyMap
    /\ UNCHANGED <<phase, job, path, previewVars, slow, resolve>>

\* applyChannelSelection()
SelectChannels(m) ==
    /\ User("channels") /\ Retires
    /\ view' = Changed(view, {m})
    /\ resident' = Restrict(resident, {k \in DOMAIN resident : MediaOf[k] # m})
    /\ UNCHANGED <<phase, job, path, previewVars, slow, resolve>>

-----------------------------------------------------------------------------
Works(j) == Open(j) \/ Decode(j)

Next ==
    \/ \E k \in Key : Hover(k) \/ CacheReads(k) \/ CacheDrops(k)
    \/ Leave \/ ResolveAgain
    \/ \E j \in Job : Works(j) \/ Complete(j)
    \/ Load \/ Replace \/ SwitchProxy
    \/ \E m \in Media : Relocate(m) \/ SelectChannels(m)

\* The queue serves its jobs (WorkQueue's JobsServed) and the UI thread finishes
\* what it began.  Nothing is assumed of the user or of the frame cache.
Fairness ==
    /\ \A j \in Job : WF_vars(Works(j)) /\ SF_vars(Complete(j))
    /\ WF_vars(ResolveAgain)

Spec == Init /\ [][Next]_vars /\ Fairness

-----------------------------------------------------------------------------
(* Properties. *)

Frames == [path : Nat, view : Nat]

\* The type of every variable.
TypeOK ==
    /\ phase \in [Job -> Queue!Phase]
    /\ job \in [Job -> [key : Key \cup {None}, gen : Nat, path : Nat, view : Nat,
                        fast : BOOLEAN]]
    /\ path \in [Media -> Nat] /\ view \in [Media -> Nat]
    /\ DOMAIN resident \subseteq Key /\ resident \in [DOMAIN resident -> Frames]
    /\ DOMAIN thumbs \subseteq Key /\ thumbs \in [DOMAIN thumbs -> Frames]
    /\ inflight \subseteq Key /\ gen \in Nat /\ slow \in BOOLEAN
    /\ hover \in Key \cup {None} /\ resolve \in BOOLEAN /\ events \in 0 .. MaxEvents

\* A frame held in the cache is one of the file its media now stands for: no decode
\* under way when a load or a relocation retired the old ones brings one back (the
\* completion's check of previewGen_).
FilesCurrent == \A k \in DOMAIN resident : resident[k].path = path[MediaOf[k]]

\* It was also read through the proxy mode and the channels that are current, since
\* applyProxyMode and applyChannelSelection flush the frames of the old ones.
ViewsCurrent == \A k \in DOMAIN resident : resident[k].view = view[MediaOf[k]]

\* A key is marked as being decoded only while a job of the queue is at it
\* (previewInflight_): a mark left behind stops every later decode.
MarksBacked == \A k \in inflight : \E j \in Live : job[j].key = k

\* The preview catches up with a cursor that came to rest, although a request made
\* while another decode ran is dropped.
CatchesUp ==
    \A k \in Key \ Unreadable :
        hover = k ~> k \in DOMAIN thumbs \/ hover # k \/ slow
=============================================================================
