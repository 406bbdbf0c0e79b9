----------------------------- MODULE FrameCache -----------------------------
(***************************************************************************)
(* The decoded-frame cache of src/src/media/FrameCache.{h,cpp}: an LRU map *)
(* of frames under a byte budget, filled by a pool of reader threads.  The *)
(* UI thread publishes a wanted set every tick; the workers pick the most  *)
(* urgent pending request, read it with the lock released, and admit what  *)
(* they read unless the cache was flushed meanwhile.                       *)
(*                                                                         *)
(* Every action is one critical section of mtx_.  Abstracted:              *)
(*   - a CacheKey is a model value, its media given by MediaOf;            *)
(*   - tick_ only orders entries, so `older` keeps that order as a         *)
(*     relation between the resident keys;                                 *)
(*   - wantEpoch_ is only compared for equality, so an entry keeps its     *)
(*     wantPrio while its epoch is the current one and Unwanted after;     *)
(*   - a batch has no order: among equal priorities the choice of a worker *)
(*     is left open, a superset of the code's first-staged-first;          *)
(*   - frame contents, read timings, the fill-rate statistic and the       *)
(*     buffer pool are left out.                                           *)
(***************************************************************************)
EXTENDS Integers, FiniteSets, Functions, Sums

CONSTANTS
    Media,     \* media ids
    Video,     \* those whose ClipType is not ImageSequence
    Key,       \* cache keys
    MediaOf,   \* the media of each key
    Worker,    \* the pool's threads
    Prio,      \* request priorities; 0 is on screen, the rest is prefetch
    Size,      \* what Frame::bytes() may answer
    Budget,    \* what maxBytes_ may be
    Batch,     \* the wanted sets the UI may publish
    Shown,     \* the keys it may get() ...
    Previewed, \* ... and put()
    MaxClears, \* bound on clear(), and so on generation_
    MaxDrops   \* bound on dropMedia() per media, and so on its mediaEpoch_

ASSUME CacheAssumption ==
    /\ Video \subseteq Media
    /\ MediaOf \in [Key -> Media]
    /\ IsFiniteSet(Key) /\ IsFiniteSet(Worker) /\ Worker # {}
    /\ Prio \subseteq Nat /\ 0 \in Prio
    /\ Size \subseteq Nat
    /\ Budget \subseteq Nat /\ Budget # {}
    /\ \A b \in Batch : DOMAIN b \subseteq Key /\ b \in [DOMAIN b -> Prio]
    /\ Shown \subseteq Key /\ Previewed \subseteq Key
    /\ MaxClears \in Nat /\ MaxDrops \in Nat

Unwanted == -1  \* an entry's standing once its wantEpoch is not the current one
NoFrame  == -1  \* a read that brings nothing back

VARIABLES
    stop,        \* stop_
    generation,  \* generation_
    mediaEpoch,  \* mediaEpoch_
    staged,      \* staged_/stagedKeys_ as last published: key -> priority
    published,   \* wantEpoch_ > 0
    pending,     \* pending_
    map,         \* map_: key -> [bytes, want]
    older,       \* the order of the entries' ticks, oldest first
    total,       \* totalBytes_
    maxBytes,    \* maxBytes_
    inflight,    \* inflight_: key -> [gen, owner], owner's read holds `cancel`
    reads,       \* worker -> the job it is reading, with the lock released
    busyVideos,  \* busyVideos_
    failedMedia, \* failedMedia_
    hold,        \* firstFrameHold_
    holdReads,   \* holdReads_
    heldReads,   \* heldReads_, 0 where the code has no entry
    waiting,     \* workers blocked in cv_.wait
    exited       \* workers that have returned from workerLoop

wantVars  == <<staged, published>>
entryVars == <<map, older, total>>
holdVars  == <<hold, holdReads, heldReads>>
flushVars == <<generation, mediaEpoch>>
vars == <<stop, flushVars, wantVars, pending, entryVars, maxBytes, inflight,
          reads, busyVideos, failedMedia, holdVars, waiting, exited>>

-----------------------------------------------------------------------------
Resident == DOMAIN map
Reading  == DOMAIN reads
Ready    == Worker \ (Reading \cup waiting \cup exited)
Entry    == [bytes : Nat, want : Prio \cup {Unwanted}]
Read     == [key : Key, prio : Prio, gen : Nat, epoch : Nat, cancel : BOOLEAN]

EmptyMap == [x \in {} |-> x]
\* f without the keys of S.
Without(f, S) == Restrict(f, DOMAIN f \ S)
\* f with x bound to v.
With(f, x, v) == [y \in DOMAIN f \cup {x} |-> IF y = x THEN v ELSE f[y]]

\* Mutant: no read is ever told to stop.
LeftRunning(R, K) == R

\* The reads in R with the flags of the inflight_ entries of keys K set.
CalledOff(R, K) ==
    [w \in DOMAIN R |->
        [R[w] EXCEPT !.cancel =
            @ \/ \E k \in K \cap DOMAIN inflight : inflight[k].owner = w]]

\* A read whose result still counts: nothing flushed it since it started.
IsLive(r) == r.gen = generation /\ r.epoch = mediaEpoch[MediaOf[r.key]]

\* What endRequests() takes for a read that makes a new request needless.
HasLiveRead(k) ==
    /\ k \in DOMAIN inflight
    /\ inflight[k].gen = generation
    /\ ~reads[inflight[k].owner].cancel

-----------------------------------------------------------------------------
(* cv_.notify_all().  A worker wakes no other way: spurious wakeups are left out,
   so that none can hide a missing notification. *)
NotifyNone == UNCHANGED waiting                                     \* mutant
NotifyOne  == IF waiting = {} THEN UNCHANGED waiting               \* mutant
              ELSE \E w \in waiting : waiting' = waiting \ {w}
NotifyAll  == waiting' = {}

-----------------------------------------------------------------------------
(* evictLocked *)

\* Mutant: plain LRU.
LeastRecent(m, o, a, b) == <<a, b>> \in o

\* Entry a goes before entry b.
MoreEvictable(m, o, a, b) ==
    \/ m[a].want = Unwanted /\ m[b].want # Unwanted
    \/ m[a].want = Unwanted /\ m[b].want = Unwanted /\ <<a, b>> \in o
    \/ m[b].want # Unwanted /\ m[a].want > m[b].want
    \/ m[b].want # Unwanted /\ m[a].want = m[b].want /\ <<a, b>> \in o

BytesOf(m, S) == SumOver([k \in S |-> m[k].bytes], S)

\* Mutant: two entries are always kept.
OverBudgetOfTwo(m, t, max, gone) ==
    t - BytesOf(m, gone) > max /\ Cardinality(DOMAIN m \ gone) > 2

\* What is left once `gone` went is more than the budget, and not a single frame.
OverBudget(m, t, max, gone) ==
    t - BytesOf(m, gone) > max /\ Cardinality(DOMAIN m \ gone) > 1

\* D is what trimming the entries m, of t bytes, to max drops: entries are taken
\* in MoreEvictable order for as long as the rest is over budget.
IsTrim(m, o, t, max, D) ==
    /\ \A d \in D, k \in DOMAIN m \ D : MoreEvictable(m, o, d, k)
    /\ ~OverBudget(m, t, max, D)
    /\ \A d \in D : OverBudget(m, t, max, {e \in D : MoreEvictable(m, o, e, d)})

\* The map becomes m (ticks ordered by o, t bytes in all) trimmed to max.
TrimTo(m, o, t, max) ==
    \E D \in SUBSET DOMAIN m :
        /\ IsTrim(m, o, t, max, D)
        /\ map' = Without(m, D)
        /\ older' = {p \in o : p[1] \notin D /\ p[2] \notin D}
        /\ total' = IF BytesOf(m, D) > t THEN 0 ELSE t - BytesOf(m, D)

\* The tick order once k has the newest tick.
Touched(o, k) ==
    {p \in o : k \notin {p[1], p[2]}} \cup ((Resident \ {k}) \X {k})

\* Mutant: the admitted bytes are not counted.
AdmitUncounted(k, s, want) ==
    TrimTo(With(map, k, [bytes |-> s, want |-> want]), Touched(older, k), total, maxBytes)

\* Frame k of s bytes goes in with the given standing, then the map is trimmed.
Admit(k, s, want) ==
    TrimTo(With(map, k, [bytes |-> s, want |-> want]),
           Touched(older, k), total + s, maxBytes)

-----------------------------------------------------------------------------
Init ==
    /\ stop = FALSE
    /\ generation = 0
    /\ mediaEpoch = [m \in Media |-> 0]
    /\ staged = EmptyMap /\ published = FALSE
    /\ pending = {}
    /\ map = EmptyMap /\ older = {} /\ total = 0
    /\ maxBytes \in Budget
    /\ inflight = EmptyMap /\ reads = EmptyMap
    /\ busyVideos = {} /\ failedMedia = {}
    /\ hold = TRUE /\ holdReads = 0 /\ heldReads = [k \in Key |-> 0]
    /\ waiting = {} /\ exited = {}

-----------------------------------------------------------------------------
(* The UI thread. *)

\* get() of a resident key; its frame may have grown to `now` bytes meanwhile.
Get(k, now) ==
    /\ ~stop
    /\ k \in Resident /\ now >= map[k].bytes
    /\ older' = Touched(older, k)
    /\ map' = [map EXCEPT ![k].bytes = now]
    /\ total' = total - map[k].bytes + now
    /\ UNCHANGED <<stop, flushVars, wantVars, pending, maxBytes, inflight,
                   reads, busyVideos, failedMedia, holdVars, waiting, exited>>

\* put() of a frame decoded elsewhere: epoch 0, so outside any published set.
Put(k, s) ==
    /\ ~stop
    /\ k \notin Resident
    /\ Admit(k, s, IF published THEN Unwanted ELSE 0)
    /\ UNCHANGED <<stop, flushVars, wantVars, pending, maxBytes, inflight,
                   reads, busyVideos, failedMedia, holdVars, waiting, exited>>

\* beginRequests(), a request() per key of b, endRequests(holdOnScreen): the
\* staging is private to the UI thread, so the three are one step.
EndRequests(b, holdOnScreen) ==
    LET unread   == {k \in DOMAIN b \ Resident : ~HasLiveRead(k)}
        adopted  == {k \in DOMAIN b \ (Resident \cup unread) :
                        holdOnScreen /\ b[k] <= 0 /\ heldReads[k] = 0}
        onScreenPending == \E k \in unread : b[k] <= 0
    IN  /\ ~stop
        /\ staged' = b /\ published' = TRUE
        /\ map' = [k \in Resident |-> [map[k] EXCEPT !.want =
                        IF k \in DOMAIN b THEN b[k] ELSE Unwanted]]
        /\ pending' = {[key |-> k, prio |-> b[k]] : k \in unread}
        /\ reads' = CalledOff(reads, Key \ DOMAIN b)
        /\ heldReads' = [k \in Key |-> IF k \in adopted THEN 1 ELSE heldReads[k]]
        /\ holdReads' = holdReads + Cardinality(adopted)
        /\ hold' = IF onScreenPending THEN hold \/ holdOnScreen \/ adopted # {}
                   ELSE (hold \/ adopted # {}) /\ holdReads' # 0
        /\ NotifyAll
        /\ UNCHANGED <<stop, flushVars, older, total, maxBytes, inflight,
                       busyVideos, failedMedia, exited>>

Clear ==
    /\ ~stop
    /\ generation < MaxClears
    /\ generation' = generation + 1
    /\ pending' = {} /\ failedMedia' = {}
    /\ map' = EmptyMap /\ older' = {} /\ total' = 0
    /\ reads' = CalledOff(reads, Key)
    /\ UNCHANGED <<stop, mediaEpoch, wantVars, maxBytes, inflight, busyVideos,
                   holdVars, waiting, exited>>

DropMedia(m) ==
    LET mine == {k \in Key : MediaOf[k] = m}
        gone == BytesOf(map, mine \cap Resident)
    IN  /\ ~stop
        /\ mediaEpoch[m] < MaxDrops
        /\ mediaEpoch' = [mediaEpoch EXCEPT ![m] = @ + 1]
        /\ map' = Without(map, mine)
        /\ older' = {p \in older : p[1] \notin mine /\ p[2] \notin mine}
        /\ total' = IF gone > total THEN 0 ELSE total - gone
        /\ reads' = CalledOff(reads, mine)
        /\ inflight' = Without(inflight, mine)
        /\ failedMedia' = failedMedia \ {m}
        /\ UNCHANGED <<stop, generation, wantVars, pending, maxBytes,
                       busyVideos, holdVars, waiting, exited>>

SetMaxBytes(n) ==
    /\ ~stop
    /\ maxBytes' = n
    /\ TrimTo(map, older, total, n)
    /\ UNCHANGED <<stop, flushVars, wantVars, pending, inflight, reads,
                   busyVideos, failedMedia, holdVars, waiting, exited>>

\* The destructor, up to its joins.
Shutdown ==
    /\ ~stop
    /\ stop' = TRUE
    /\ pending' = {}
    /\ NotifyAll
    /\ UNCHANGED <<flushVars, wantVars, entryVars, maxBytes, inflight, reads,
                   busyVideos, failedMedia, holdVars, exited>>

-----------------------------------------------------------------------------
(* A worker: workerLoop between two releases of the lock. *)

RunnableBusy == pending  \* mutant: a video's decoder may be entered twice
Runnable == {p \in pending : MediaOf[p.key] \notin busyVideos}
MostUrgent == {p \in Runnable : \A q \in Runnable : p.prio <= q.prio}
\* What the wait's predicate lets a worker take.
Takeable == {p \in MostUrgent : ~(hold /\ holdReads > 0 /\ p.prio > 0)}

Wait(w) ==
    /\ w \in Ready /\ ~stop
    /\ Takeable = {}
    /\ waiting' = waiting \cup {w}
    /\ UNCHANGED <<stop, flushVars, wantVars, pending, entryVars, maxBytes,
                   inflight, reads, busyVideos, failedMedia, holdVars, exited>>

\* The job's frame came in some other way, through put() or another read.
SkipResident(w) ==
    /\ w \in Ready /\ ~stop
    /\ \E job \in Takeable : job.key \in Resident /\ pending' = pending \ {job}
    /\ UNCHANGED <<stop, flushVars, wantVars, entryVars, maxBytes, inflight,
                   reads, busyVideos, failedMedia, holdVars, waiting, exited>>

StartJob(w, job) ==
    /\ pending' = pending \ {job}
    /\ inflight' = With(inflight, job.key, [gen |-> generation, owner |-> w])
    /\ reads' = With(reads, w,
                     [key |-> job.key, prio |-> job.prio, gen |-> generation,
                      epoch |-> mediaEpoch[MediaOf[job.key]], cancel |-> FALSE])
    /\ busyVideos' = busyVideos \cup ({MediaOf[job.key]} \cap Video)
    /\ IF hold /\ job.prio <= 0
       THEN /\ heldReads' = [heldReads EXCEPT ![job.key] = @ + 1]
            /\ holdReads' = holdReads + 1
       ELSE UNCHANGED <<heldReads, holdReads>>

StartRead(w) ==
    /\ w \in Ready /\ ~stop
    /\ \E job \in Takeable : job.key \notin Resident /\ StartJob(w, job)
    /\ UNCHANGED <<stop, flushVars, wantVars, entryVars, maxBytes, failedMedia,
                   hold, waiting, exited>>

\* Mutants of ReleaseHold: only a live read gives its count back; the key's counts
\* go all at once; a read gives back a count nobody took.
ReleaseLive(r) ==
    IF heldReads[r.key] > 0 /\ IsLive(r)
    THEN /\ heldReads' = [heldReads EXCEPT ![r.key] = @ - 1]
         /\ holdReads' = holdReads - 1
         /\ hold' = (hold /\ (holdReads' > 0 \/ \E p \in pending : p.prio <= 0))
    ELSE UNCHANGED holdVars
ReleaseAll(r) ==
    /\ heldReads' = [heldReads EXCEPT ![r.key] = 0]
    /\ holdReads' = IF heldReads[r.key] > 0 THEN holdReads - 1 ELSE holdReads
    /\ UNCHANGED hold
ReleaseMore(r) ==
    /\ holdReads' = holdReads - 1
    /\ UNCHANGED <<hold, heldReads>>

\* The read's key gives back one count of the hold, whichever read it is.
ReleaseHold(r) ==
    IF heldReads[r.key] > 0
    THEN /\ heldReads' = [heldReads EXCEPT ![r.key] = @ - 1]
         /\ holdReads' = holdReads - 1
         /\ hold' = (hold /\ ~( /\ IsLive(r) /\ holdReads' = 0
                                /\ \A p \in pending : p.prio > 0 ))
    ELSE UNCHANGED holdVars

\* The inflight_ entry worker w's read of k retracts: its own only, by its flag.
AnyEntry(w, k) == {k} \cap DOMAIN inflight  \* mutant: whichever is there
OwnEntry(w, k) == {j \in {k} \cap DOMAIN inflight : inflight[j].owner = w}

FinishJob(w, r) ==
    /\ reads' = Without(reads, {w})
    /\ inflight' = Without(inflight, OwnEntry(w, r.key))
    /\ busyVideos' = busyVideos \ {MediaOf[r.key]}
    /\ ReleaseHold(r)
    /\ IF MediaOf[r.key] \in Video \/ heldReads[r.key] > 0
       THEN NotifyAll ELSE UNCHANGED waiting

\* A read comes back with a frame of `got` bytes, or with NoFrame: a failure
\* that is blamed on the media unless the read had been called off.
FinishRead(w, got) ==
    /\ w \in Reading
    /\ LET r == reads[w]
           m == MediaOf[r.key]
       IN  /\ FinishJob(w, r)
           /\ failedMedia' =
                IF got # NoFrame THEN failedMedia \ {m}
                ELSE IF r.cancel THEN failedMedia ELSE failedMedia \cup {m}
           /\ IF got # NoFrame /\ IsLive(r) /\ r.key \notin Resident
              THEN Admit(r.key, got, r.prio)
              ELSE UNCHANGED entryVars
    /\ UNCHANGED <<stop, flushVars, wantVars, pending, maxBytes, exited>>

Exit(w) ==
    /\ w \in Ready /\ stop
    /\ exited' = exited \cup {w}
    /\ UNCHANGED <<stop, flushVars, wantVars, pending, entryVars, maxBytes,
                   inflight, reads, busyVideos, failedMedia, holdVars, waiting>>

-----------------------------------------------------------------------------
UI ==
    \/ \E k \in Shown, s \in Size : Get(k, s)
    \/ \E k \in Previewed, s \in Size : Put(k, s)
    \/ \E b \in Batch, h \in BOOLEAN : EndRequests(b, h)
    \/ Clear
    \/ \E m \in Media : DropMedia(m)
    \/ \E n \in Budget : SetMaxBytes(n)
    \/ Shutdown

Pool(w) ==
    \/ Wait(w)
    \/ SkipResident(w)
    \/ StartRead(w)
    \/ \E got \in Size \cup {NoFrame} : FinishRead(w, got)
    \/ Exit(w)

Next == UI \/ \E w \in Worker : Pool(w)

\* Each worker keeps running and every read comes back: a decoder call returns,
\* with a frame or without.  Nothing is assumed of the UI thread.
Fairness == \A w \in Worker : WF_vars(Pool(w))

Spec == Init /\ [][Next]_vars /\ Fairness
-----------------------------------------------------------------------------
(* Properties. *)

MapOK == /\ map = [k \in Resident |-> map[k]]
         /\ Resident \subseteq Key
         /\ \A k \in Resident : map[k] \in Entry

InflightOK == /\ inflight = [k \in DOMAIN inflight |-> inflight[k]]
              /\ DOMAIN inflight \subseteq Key
              /\ \A k \in DOMAIN inflight :
                    inflight[k] \in [gen : Nat, owner : Worker]

ReadsOK == /\ reads = [w \in Reading |-> reads[w]]
           /\ Reading \subseteq Worker
           /\ \A w \in Reading : reads[w] \in Read

\* The type of every variable.
TypeOK ==
    /\ stop \in BOOLEAN /\ published \in BOOLEAN
    /\ generation \in Nat /\ mediaEpoch \in [Media -> Nat]
    /\ DOMAIN staged \subseteq Key /\ staged \in [DOMAIN staged -> Prio]
    /\ pending \subseteq [key : Key, prio : Prio]
    /\ MapOK /\ older \subseteq Resident \X Resident
    /\ total \in Nat /\ maxBytes \in Budget
    /\ InflightOK /\ ReadsOK
    /\ busyVideos \subseteq Video /\ failedMedia \subseteq Media
    /\ hold \in BOOLEAN /\ holdReads \in Nat /\ heldReads \in [Key -> Nat]
    /\ waiting \subseteq Worker /\ exited \subseteq Worker

ReadersOf(k) == {w \in Reading : reads[w].key = k}

\* Every count the hold waits for belongs to a read that is still running, so a
\* hold can always be given back: holdReads_ is what heldReads_ adds up to, and
\* no key has more counts than readers (workerLoop, endRequests' adoption).
HoldBacked ==
    /\ holdReads = SumOver(heldReads, Key)
    /\ \A k \in Key : heldReads[k] <= Cardinality(ReadersOf(k))

\* A video's decoder has one worker inside at most, and is marked busy exactly
\* while it has (busyVideos_ across every flush, call-off and shutdown).
SoleVideoReader ==
    /\ busyVideos = {MediaOf[reads[w].key] : w \in Reading} \cap Video
    /\ \A v, w \in Reading :
          v # w /\ MediaOf[reads[v].key] = MediaOf[reads[w].key]
            => MediaOf[reads[v].key] \notin Video

\* A frame is never decoded twice at once: of two reads of one key, one has been
\* called off (what endRequests() skips is what inflight_ says is alive).
NoDoubleDecode ==
    \A v, w \in Reading :
        v # w /\ reads[v].key = reads[w].key
            => reads[v].cancel \/ reads[w].cancel

\* A read whose result will be thrown away has been told to stop, so it neither
\* runs on for nothing nor gets its media blamed for a failure it caused.
DoomedCalledOff == \A w \in Reading : IsLive(reads[w]) \/ reads[w].cancel

\* The running total is what the resident entries were admitted for, whatever
\* grew, was dropped or was flushed since (Entry::bytes).
BytesAccounted == total = BytesOf(map, Resident)

\* No worker sleeps in cv_.wait while there is something it may take, and none
\* sleeps through the destructor: every change that can make its predicate true
\* notifies it.
NoMissedWakeup == waiting # {} => Takeable = {} /\ ~stop

\* A frame lifted from a hover preview never displaces one that is wanted, as
\* long as the cache was within its budget (put()).
KeepsWanted ==
    (\E k \in Previewed, s \in Size : Put(k, s)) /\ published /\ total <= maxBytes
      => \A j \in Resident : map[j].want # Unwanted => j \in DOMAIN map'
PutKeepsWanted == [][KeepsWanted]_vars

\* Admitting a frame, or shrinking the budget, leaves the cache within its budget
\* or with a single frame, whatever the resident ones grew to since (evictLocked).
EndsWithin ==
    DOMAIN map' \ Resident # {} \/ maxBytes' < maxBytes
      => total' <= maxBytes' \/ Cardinality(DOMAIN map') <= 1
BudgetKept == [][EndsWithin]_vars

\* The keys the last batch has on screen.
OnScreen == {k \in DOMAIN staged : staged[k] <= 0}

\* The read worker v is inside is for a frame the last batch has on screen.
OnScreenRead(v) ==
    /\ IsLive(reads[v]) /\ ~reads[v].cancel
    /\ reads[v].key \in OnScreen

PrefetchStarts(w) == w \notin Reading /\ w \in DOMAIN reads' /\ reads'[w].prio > 0

\* While the hold is up no prefetch read starts as long as an on-screen read is in
\* flight (firstFrameHold_).
HoldHonoured ==
    [][\A w \in Worker : PrefetchStarts(w) /\ hold
         => ~\E v \in Reading : OnScreenRead(v)]_vars

\* A frame outside the wanted set never outlives one the trimming took from it
\* (evictLocked: frames outside the current wanted set go first).
UnwantedGoFirst ==
    [][generation' = generation /\ mediaEpoch' = mediaEpoch
         => \A j \in Resident \ DOMAIN map', k \in DOMAIN map' :
               j \in DOMAIN staged => k \in DOMAIN staged]_vars

\* The pool drains whatever the UI leaves it: once the UI stops touching the
\* cache, no request is stuck behind the hold, a busy video or a lost wakeup.
DrainsWhenQuiet == []<><<UI>>_vars \/ <>[](pending = {} /\ Reading = {})

\* Once the UI settles on a wanted set and keeps republishing it, as
\* submitCacheRequests does every kPrefetchRefreshMs, the frames on screen get in:
\* whatever was called off, flushed or held before, unless a media on screen cannot
\* be read or the cache is destroyed.
OnScreenServed ==
    /\ WF_vars(\E h \in BOOLEAN : EndRequests(staged, h))
    /\ <>[][staged' = staged]_staged
    => \A k \in Key : k \in OnScreen ~>
            \/ k \in Resident
            \/ k \notin OnScreen
            \/ \E j \in OnScreen : MediaOf[j] \in failedMedia
            \/ stop

\* The destructor's joins return.
ShutdownReturns == stop ~> (exited = Worker)
=============================================================================
