------------------------- MODULE HoverPreviewProofs -------------------------
(***************************************************************************)
(* Theorems about HoverPreview, for any media, keys, slots of the queue    *)
(* and events.                                                             *)
(*                                                                         *)
(* The result of a job is only used in the generation it was submitted in, *)
(* and a generation ends with every change of a file: so what a job of the *)
(* current generation holds is of the current file (JobsCurrent), and      *)
(* FilesCurrent follows. The two properties the code does not have in      *)
(* general hold without the events that break them: MarksBacked if every   *)
(* project file parses, ViewsCurrent if nobody switches the proxy mode or  *)
(* the channels.                                                           *)
(***************************************************************************)
EXTENDS HoverPreview, TLAPS

JobType == [key : Key \cup {None}, gen : Nat, path : Nat, view : Nat, fast : BOOLEAN]

\* A job the queue still has is of a key, and was submitted in this generation or before.
JobsKeyed == \A j \in Job : phase[j] # "idle" => job[j].key \in Key /\ job[j].gen <= gen

\* The preview is only resolved again for a cursor.
ResolveHovers == resolve => hover # None

IInv == TypeOK /\ JobsKeyed /\ ResolveHovers

\* The jobs of this generation hold the files that are current.
JobsCurrent ==
    \A j \in Job : (phase[j] # "idle" /\ job[j].gen = gen)
                      => job[j].path = path[MediaOf[job[j].key]]

FInv == JobsCurrent /\ FilesCurrent

\* The jobs of this generation that may bring a frame hold the views that are current.
JobsSeeCurrent ==
    \A j \in Job : (phase[j] # "idle" /\ job[j].gen = gen)
                      => job[j].view = view[MediaOf[job[j].key]]

VInv == JobsSeeCurrent /\ ViewsCurrent

----------------------------------------------------------------------------
(* Helpers.                                                                *)

LEMMA NoJobTyped == NoJob \in JobType
BY DEF NoJob, JobType

\* A part of the cache, or of the thumbnails: what the maps of frames may be.
IsCache(f) == DOMAIN f \subseteq Key /\ f \in [DOMAIN f -> Frames]

LEMMA WithTyped ==
    ASSUME NEW f, IsCache(f), NEW k \in Key, NEW v \in Frames
    PROVE  IsCache(With(f, k, v))
BY DEF With, IsCache

LEMMA EmptyTyped == IsCache(EmptyMap)
BY DEF EmptyMap, IsCache

LEMMA RestrictTyped ==
    ASSUME NEW f, IsCache(f), NEW D, D \subseteq DOMAIN f
    PROVE  IsCache(Restrict(f, D))
BY DEF Restrict, IsCache

LEMMA ChangedTyped ==
    ASSUME NEW f \in [Media -> Nat], NEW S
    PROVE  Changed(f, S) \in [Media -> Nat]
BY DEF Changed

----------------------------------------------------------------------------
(* The type invariant.                                                     *)

Holding(k, frame, fast) ==
    [key |-> k, gen |-> gen, path |-> frame.path, view |-> frame.view, fast |-> fast]

\* Slot i, idle before, takes a job for a frame of k.
Takes(i, k, frame, fast) ==
    /\ phase[i] = "idle" /\ phase' = [phase EXCEPT ![i] = "queued"]
    /\ job' = [job EXCEPT ![i] = Holding(k, frame, fast)]
    /\ inflight' = inflight \cup {k}
    /\ frame = Current(k) \/ (k \in DOMAIN resident /\ frame = resident[k])

\* A preview submits a job, for the frame that is resident or for the current one, or
\* leaves the queue alone.
LEMMA EnsureCases ==
    ASSUME IInv, PreviewAssumption, NEW k \in Key, EnsurePreviewThumb(k)
    PROVE  \/ UNCHANGED <<phase, job, inflight>>
           \/ \E i \in Job, frame \in Frames, fast \in BOOLEAN : Takes(i, k, frame, fast)
<1>1. Current(k) \in Frames
  BY DEF Current, Frames, IInv, TypeOK, PreviewAssumption
<1>2. ASSUME NEW frame \in Frames, NEW fast \in BOOLEAN, Submit(k, frame, fast),
             frame = Current(k) \/ (k \in DOMAIN resident /\ frame = resident[k])
      PROVE  \E i \in Job : Takes(i, k, frame, fast)
  BY <1>2 DEF Submit, Takes, Holding, Queue!Submit, Queue!Move
<1>3. CASE k \in DOMAIN resident /\ Submit(k, resident[k], TRUE)
  BY <1>3, <1>2 DEF IInv, TypeOK
<1>4. CASE Submit(k, Current(k), FALSE)
  BY <1>4, <1>2, <1>1
<1> QED  BY <1>3, <1>4 DEF EnsurePreviewThumb

LEMMA EnsureTyped ==
    ASSUME IInv, PreviewAssumption, NEW k \in Key, EnsurePreviewThumb(k)
    PROVE  /\ phase' \in [Job -> Queue!Phase]
           /\ job' \in [Job -> JobType]
           /\ inflight' \subseteq Key
           /\ \A j \in Job : phase'[j] # "idle"
                 => job'[j].key \in Key /\ job'[j].gen <= gen
<1> USE DEF Queue!Phase
<1>1. ASSUME NEW i \in Job, NEW frame \in Frames, NEW fast \in BOOLEAN, Takes(i, k, frame, fast)
      PROVE  /\ phase' \in [Job -> Queue!Phase]
             /\ job' \in [Job -> JobType]
             /\ inflight' \subseteq Key
             /\ \A j \in Job : phase'[j] # "idle"
                   => job'[j].key \in Key /\ job'[j].gen <= gen
  <2>1. /\ Holding(k, frame, fast) \in JobType
        /\ Holding(k, frame, fast).key = k /\ Holding(k, frame, fast).gen = gen
    BY DEF Holding, JobType, Frames, IInv, TypeOK
  <2>2. inflight' \subseteq Key
    BY <1>1 DEF Takes, IInv, TypeOK
  <2>3. phase' \in [Job -> Queue!Phase] /\ job' \in [Job -> JobType]
    BY <1>1, <2>1 DEF Takes, IInv, TypeOK, JobType
  <2>4. ASSUME NEW j \in Job, phase'[j] # "idle"
        PROVE  job'[j].key \in Key /\ job'[j].gen <= gen
    <3>1. CASE j = i  BY <3>1, <1>1, <2>1 DEF Takes, IInv, TypeOK
    <3>2. CASE j # i
      <4>1. job'[j] = job[j] /\ phase'[j] = phase[j]
        BY <3>2, <1>1 DEF Takes, IInv, TypeOK
      <4> QED  BY <4>1, <2>4 DEF IInv, JobsKeyed
    <3> QED  BY <3>1, <3>2
  <2> QED  BY <2>2, <2>3, <2>4
<1>2. CASE UNCHANGED <<phase, job, inflight>>
  BY <1>2 DEF IInv, TypeOK, JobType, JobsKeyed
<1> QED  BY <1>1, <1>2, EnsureCases

\* clearFramePreview() begins a generation.
LEMMA ClearTyped ==
    ASSUME TypeOK, ClearPreview
    PROVE  /\ gen' = gen + 1 /\ gen' \in Nat
           /\ IsCache(thumbs')
           /\ inflight' \subseteq Key /\ slow' \in BOOLEAN /\ hover' \in Key \cup {None}
<1>1. IsCache(thumbs')
  BY EmptyTyped DEF ClearPreview
<1>2. gen' = gen + 1 /\ gen' \in Nat
  BY DEF ClearPreview, TypeOK
<1>3. inflight' = {} /\ slow' = FALSE /\ hover' = None
  BY DEF ClearPreview
<1> QED  BY <1>1, <1>2, <1>3

LEMMA RetiresTyped ==
    ASSUME TypeOK, PreviewAssumption, Retires
    PROVE  events' \in 0 .. MaxEvents
BY DEF Retires, TypeOK, IsCache, PreviewAssumption

\* A step of the queue that moves one job on, and the job keeps its key and generation.
LEMMA MoveTyped ==
    ASSUME IInv, NEW j \in Job, NEW from \in Queue!Phase, NEW to \in Queue!Phase,
           from # "idle", phase[j] = from, phase' = [phase EXCEPT ![j] = to],
           job' \in [Job -> JobType],
           \A i \in Job : phase'[i] # "idle" => job'[i].key = job[i].key /\ job'[i].gen = job[i].gen
    PROVE  /\ phase' \in [Job -> Queue!Phase]
           /\ \A i \in Job : phase'[i] # "idle" => job'[i].key \in Key /\ job'[i].gen <= gen
<1>1. phase' \in [Job -> Queue!Phase]
  BY DEF IInv, TypeOK, IsCache
<1>2. ASSUME NEW i \in Job, phase'[i] # "idle" PROVE phase[i] # "idle"
  BY <1>2 DEF IInv, TypeOK, IsCache
<1> QED  BY <1>1, <1>2 DEF IInv, JobsKeyed

LEMMA TypeInductive ==
    ASSUME IInv, PreviewAssumption, [Next]_vars
    PROVE  IInv'
<1> USE DEF Queue!Phase
<1>1. ASSUME NEW k \in Key, Hover(k) PROVE IInv'
  <2>1. hover' = k /\ EnsurePreviewThumb(k)
        /\ UNCHANGED <<mediaVars, resident, thumbs, gen, slow, resolve>>
    BY <1>1 DEF Hover
  <2>2. /\ phase' \in [Job -> Queue!Phase] /\ job' \in [Job -> JobType]
        /\ inflight' \subseteq Key
        /\ \A j \in Job : phase'[j] # "idle" => job'[j].key \in Key /\ job'[j].gen <= gen
    BY <2>1, EnsureTyped
  <2>3. TypeOK'
    BY <2>1, <2>2 DEF IInv, TypeOK, IsCache, mediaVars, JobType
  <2>4. JobsKeyed' /\ ResolveHovers'
    BY <2>1, <2>2 DEF JobsKeyed, ResolveHovers, PreviewAssumption
  <2> QED  BY <2>3, <2>4 DEF IInv
<1>2. ASSUME ResolveAgain PROVE IInv'
  <2>1. hover \in Key /\ EnsurePreviewThumb(hover) /\ resolve' = FALSE
        /\ UNCHANGED <<mediaVars, resident, thumbs, gen, slow, hover>>
    BY <1>2 DEF ResolveAgain, IInv, TypeOK, IsCache, ResolveHovers
  <2>2. /\ phase' \in [Job -> Queue!Phase] /\ job' \in [Job -> JobType]
        /\ inflight' \subseteq Key
        /\ \A j \in Job : phase'[j] # "idle" => job'[j].key \in Key /\ job'[j].gen <= gen
    BY <2>1, EnsureTyped
  <2>3. TypeOK'
    BY <2>1, <2>2 DEF IInv, TypeOK, IsCache, mediaVars, JobType
  <2>4. JobsKeyed' /\ ResolveHovers'
    BY <2>1, <2>2 DEF JobsKeyed, ResolveHovers
  <2> QED  BY <2>3, <2>4 DEF IInv
<1>3. ASSUME NEW k \in Key, CacheReads(k) PROVE IInv'
  <2>1. Current(k) \in Frames
    BY DEF Current, Frames, IInv, TypeOK, IsCache, PreviewAssumption
  <2>2. IsCache(resident')
    <3>1. IsCache(resident)
      BY DEF IInv, TypeOK, IsCache
    <3> QED  BY <1>3, <2>1, <3>1, WithTyped DEF CacheReads
  <2> QED
    BY <1>3, <2>2 DEF CacheReads, IInv, TypeOK, IsCache, JobsKeyed, ResolveHovers, mediaVars, previewVars
<1>4. ASSUME NEW k \in Key, CacheDrops(k) PROVE IInv'
  <2>1. IsCache(resident')
    <3>1. IsCache(resident)
      BY DEF IInv, TypeOK, IsCache
    <3>2. DOMAIN resident \ {k} \subseteq DOMAIN resident
      OBVIOUS
    <3> QED  BY <1>4, <3>1, <3>2, RestrictTyped DEF CacheDrops
  <2> QED
    BY <1>4, <2>1 DEF CacheDrops, IInv, TypeOK, IsCache, JobsKeyed, ResolveHovers, mediaVars, previewVars
<1>5. ASSUME Leave PROVE IInv'
  BY <1>5 DEF Leave, IInv, TypeOK, IsCache, JobsKeyed, ResolveHovers, mediaVars
<1>6. ASSUME NEW j \in Job, Open(j) PROVE IInv'
  <2>1. phase[j] = "queued" /\ phase' = [phase EXCEPT ![j] = "running"]
    BY <1>6 DEF Open, Queue!Start, Queue!Move
  <2>2. view[MediaOf[job[j].key]] \in Nat
    BY <2>1 DEF IInv, TypeOK, IsCache, JobsKeyed, PreviewAssumption
  <2>3. /\ job' \in [Job -> JobType]
        /\ \A i \in Job : job'[i].key = job[i].key /\ job'[i].gen = job[i].gen
    BY <1>6, <2>2 DEF Open, IInv, TypeOK, IsCache, JobType
  <2>4. /\ phase' \in [Job -> Queue!Phase]
        /\ \A i \in Job : phase'[i] # "idle" => job'[i].key \in Key /\ job'[i].gen <= gen
    BY <2>1, <2>3, MoveTyped
  <2> QED
    BY <1>6, <2>3, <2>4 DEF Open, IInv, TypeOK, IsCache, JobType, JobsKeyed, ResolveHovers, mediaVars, previewVars
<1>7. ASSUME NEW j \in Job, Decode(j) PROVE IInv'
  <2>1. phase[j] = "running" /\ phase' = [phase EXCEPT ![j] = "finished"] /\ job' = job
    BY <1>7 DEF Decode, Queue!Finish, Queue!Move
  <2>2. job' \in [Job -> JobType]
    BY <2>1 DEF IInv, TypeOK, IsCache, JobType
  <2>3. /\ phase' \in [Job -> Queue!Phase]
        /\ \A i \in Job : phase'[i] # "idle" => job'[i].key \in Key /\ job'[i].gen <= gen
    BY <2>1, <2>2, MoveTyped
  <2>4. slow' \in BOOLEAN
    BY <1>7 DEF Decode, IInv, TypeOK, IsCache
  <2> QED
    BY <1>7, <2>2, <2>3, <2>4 DEF Decode, IInv, TypeOK, IsCache, JobType, JobsKeyed, ResolveHovers,
       mediaVars, previewVars
<1>8. ASSUME NEW j \in Job, Complete(j) PROVE IInv'
  <2>1. phase[j] = "finished" /\ phase' = [phase EXCEPT ![j] = "idle"]
    BY <1>8 DEF Complete, Queue!Call, Queue!Move
  <2>2. job' = [job EXCEPT ![j] = NoJob] /\ job' \in [Job -> JobType]
    BY <1>8, NoJobTyped DEF Complete, IInv, TypeOK, IsCache, JobType
  <2>3. \A i \in Job : phase'[i] # "idle" => job'[i] = job[i]
    BY <2>1, <2>2 DEF IInv, TypeOK, IsCache
  <2>4. /\ phase' \in [Job -> Queue!Phase]
        /\ \A i \in Job : phase'[i] # "idle" => job'[i].key \in Key /\ job'[i].gen <= gen
    BY <2>1, <2>2, <2>3, MoveTyped
  <2>5. job[j].key \in Key /\ Frame(j) \in Frames
    BY <2>1 DEF IInv, TypeOK, IsCache, JobsKeyed, Frame, Frames
  <2>6. IsCache(thumbs) /\ IsCache(resident)
    BY DEF IInv, TypeOK, IsCache
  <2>7. IsCache(With(thumbs, job[j].key, Frame(j))) /\ IsCache(With(resident, job[j].key, Frame(j)))
    BY <2>5, <2>6, WithTyped
  <2>8. /\ IsCache(thumbs')
        /\ IsCache(resident')
    BY <1>8, <2>6, <2>7 DEF Complete, Publish, PutFull
  <2>9. /\ inflight' \subseteq Key /\ resolve' \in BOOLEAN
        /\ UNCHANGED <<mediaVars, gen, slow, hover>>
    BY <1>8 DEF Complete, MarkGone, CursorMovedOn, IInv, TypeOK, IsCache
  <2>10. ResolveHovers'
    BY <1>8 DEF Complete, CursorMovedOn, IInv, ResolveHovers
  <2>11. TypeOK'
    BY <2>2, <2>4, <2>8, <2>9 DEF IInv, TypeOK, IsCache, JobType, mediaVars
  <2> QED  BY <2>4, <2>9, <2>10, <2>11 DEF IInv, JobsKeyed
<1>9. ASSUME Load PROVE IInv'
  <2>1. phase' = [j \in Job |-> "idle"] /\ job' = [j \in Job |-> NoJob] /\ resolve' = resolve
        /\ ~resolve
    BY <1>9 DEF Load, Queue!Reset, User
  <2>2. phase' \in [Job -> Queue!Phase] /\ job' \in [Job -> JobType] /\ JobsKeyed' /\ ResolveHovers'
    BY <2>1, NoJobTyped DEF JobsKeyed, ResolveHovers
  <2>3. CASE UNCHANGED <<mediaVars, resident, previewVars, slow>>
    BY <2>1, <2>2, <2>3 DEF IInv, TypeOK, IsCache, JobType, mediaVars, previewVars
  <2>4. CASE /\ Retires /\ ClearPreview /\ resident' = EmptyMap
             /\ path' = Changed(path, Media) /\ view' = Changed(view, Media)
    <3>1. path' \in [Media -> Nat] /\ view' \in [Media -> Nat]
      BY <2>4, ChangedTyped DEF IInv, TypeOK, IsCache
    <3>2. IsCache(resident')
      BY <2>4, EmptyTyped
    <3> QED
      BY <2>1, <2>2, <2>4, <3>1, <3>2, ClearTyped, RetiresTyped DEF IInv, TypeOK, IsCache, JobType
  <2> QED  BY <1>9, <2>3, <2>4 DEF Load
<1>10. ASSUME UNCHANGED <<phase, job, resolve>>, ~resolve, Retires, ClearPreview,
              path' \in [Media -> Nat], UNCHANGED view,
              IsCache(resident')
       PROVE  IInv'
  <2>1. TypeOK'
    BY <1>10, ClearTyped, RetiresTyped DEF IInv, TypeOK, IsCache
  <2>2. JobsKeyed' /\ ResolveHovers'
    BY <1>10, ClearTyped DEF IInv, TypeOK, IsCache, JobsKeyed, ResolveHovers
  <2> QED  BY <2>1, <2>2 DEF IInv
<1>11. ASSUME NEW m \in Media, Relocate(m) PROVE IInv'
  <2>1. path' \in [Media -> Nat]
    BY <1>11, ChangedTyped DEF Relocate, IInv, TypeOK, IsCache
  <2>2. IsCache(resident')
    BY <1>11, EmptyTyped DEF Relocate
  <2> QED  BY <1>10, <1>11, <2>1, <2>2 DEF Relocate, User
<1>12. ASSUME Replace PROVE IInv'
  BY <1>10, <1>12 DEF Replace, User, IInv, TypeOK, IsCache
<1>13. ASSUME UNCHANGED <<phase, job, path, previewVars, slow, resolve>>, Retires,
              view' \in [Media -> Nat],
              IsCache(resident')
       PROVE  IInv'
  BY <1>13, RetiresTyped DEF IInv, TypeOK, IsCache, JobsKeyed, ResolveHovers, previewVars
<1>14. ASSUME SwitchProxy PROVE IInv'
  <2>1. view' \in [Media -> Nat]
    BY <1>14, ChangedTyped DEF SwitchProxy, IInv, TypeOK, IsCache
  <2>2. IsCache(resident')
    BY <1>14, EmptyTyped DEF SwitchProxy
  <2> QED  BY <1>13, <1>14, <2>1, <2>2 DEF SwitchProxy
<1>15. ASSUME NEW m \in Media, SelectChannels(m) PROVE IInv'
  <2>1. view' \in [Media -> Nat]
    BY <1>15, ChangedTyped DEF SelectChannels, IInv, TypeOK, IsCache
  <2>2. IsCache(resident')
    <3>1. IsCache(resident)
      BY DEF IInv, TypeOK, IsCache
    <3>2. {k \in DOMAIN resident : MediaOf[k] # m} \subseteq DOMAIN resident
      OBVIOUS
    <3> QED  BY <1>15, <3>1, <3>2, RestrictTyped DEF SelectChannels
  <2> QED  BY <1>13, <1>15, <2>1, <2>2 DEF SelectChannels
<1>16. ASSUME UNCHANGED vars PROVE IInv'
  BY <1>16 DEF vars, mediaVars, previewVars, IInv, TypeOK, IsCache, JobsKeyed, ResolveHovers
<1> QED
  BY <1>1, <1>2, <1>3, <1>4, <1>5, <1>6, <1>7, <1>8, <1>9, <1>11, <1>12, <1>14, <1>15, <1>16
     DEF Next, Works

LEMMA TypeInit ==
    ASSUME Init, PreviewAssumption
    PROVE  IInv
<1>1. TypeOK
  <2>1. IsCache(resident) /\ IsCache(thumbs)
    BY EmptyTyped DEF Init
  <2>2. job \in [Job -> JobType] /\ phase \in [Job -> Queue!Phase]
    BY NoJobTyped DEF Init, Queue!Init, Queue!Phase
  <2>3. path \in [Media -> Nat] /\ view \in [Media -> Nat]
    BY DEF Init
  <2>4. inflight = {} /\ gen = 0 /\ slow = FALSE /\ hover = None /\ resolve = FALSE /\ events = 0
    BY DEF Init
  <2>5. events \in 0 .. MaxEvents
    BY <2>4 DEF PreviewAssumption
  <2> QED  BY <2>1, <2>2, <2>3, <2>4, <2>5 DEF TypeOK, IsCache, JobType
<1>2. JobsKeyed /\ ResolveHovers
  BY DEF Init, Queue!Init, JobsKeyed, ResolveHovers
<1> QED  BY <1>1, <1>2 DEF IInv

LEMMA Inductive == Spec => []IInv
BY TypeInit, TypeInductive, PreviewAssumption, PTL DEF Spec

\* Every variable keeps its type, whatever the user, the queue and the cache do.
THEOREM TypeCorrect == Spec => []TypeOK
<1>1. IInv => TypeOK
  BY DEF IInv
<1> QED  BY <1>1, Inductive, PTL

----------------------------------------------------------------------------
(* The files.                                                              *)

\* A step of the queue or of a cursor that leaves the files alone: each job it leaves
\* unfinished is one of before, or holds a frame that is current.
LEMMA FilesEnsured ==
    ASSUME IInv, PreviewAssumption, FInv, NEW k \in Key, EnsurePreviewThumb(k),
           UNCHANGED <<mediaVars, resident, gen>>
    PROVE  FInv'
<1>1. FilesCurrent'
  BY DEF FInv, FilesCurrent, mediaVars
<1>2. ASSUME NEW i \in Job, NEW frame \in Frames, NEW fast \in BOOLEAN, Takes(i, k, frame, fast)
      PROVE  JobsCurrent'
  <2>1. frame.path = path[MediaOf[k]]
    BY <1>2 DEF Takes, Current, FInv, FilesCurrent
  <2> SUFFICES ASSUME NEW j \in Job, phase'[j] # "idle", job'[j].gen = gen
               PROVE  job'[j].path = path[MediaOf[job'[j].key]]
    BY DEF JobsCurrent, mediaVars
  <2>2. CASE j = i
    <3>1. job'[j] = Holding(k, frame, fast)
      BY <1>2, <2>2 DEF Takes, IInv, TypeOK
    <3> QED  BY <2>1, <3>1 DEF Holding
  <2>3. CASE j # i
    <3>1. job'[j] = job[j] /\ phase'[j] = phase[j]
      BY <1>2, <2>3 DEF Takes, IInv, TypeOK
    <3> QED  BY <3>1 DEF FInv, JobsCurrent
  <2> QED  BY <2>2, <2>3
<1>3. CASE UNCHANGED <<phase, job, inflight>>
  BY <1>1, <1>3 DEF FInv, JobsCurrent, mediaVars
<1> QED  BY <1>1, <1>2, <1>3, EnsureCases DEF FInv

LEMMA FilesInductive ==
    ASSUME IInv, PreviewAssumption, FInv, [Next]_vars
    PROVE  FInv'
<1>1. ASSUME NEW k \in Key, Hover(k) PROVE FInv'
  BY <1>1, FilesEnsured DEF Hover
<1>2. ASSUME ResolveAgain PROVE FInv'
  <2>1. hover \in Key
    BY <1>2 DEF ResolveAgain, IInv, TypeOK, ResolveHovers
  <2> QED  BY <1>2, <2>1, FilesEnsured DEF ResolveAgain
<1>3. ASSUME NEW k \in Key, CacheReads(k) PROVE FInv'
  <2>1. FilesCurrent'
    BY <1>3 DEF CacheReads, With, Current, FInv, FilesCurrent, mediaVars
  <2> QED  BY <1>3, <2>1 DEF CacheReads, FInv, JobsCurrent, mediaVars, previewVars
<1>4. ASSUME NEW k \in Key, CacheDrops(k) PROVE FInv'
  <2>1. FilesCurrent'
    BY <1>4 DEF CacheDrops, Restrict, FInv, FilesCurrent, mediaVars
  <2> QED  BY <1>4, <2>1 DEF CacheDrops, FInv, JobsCurrent, mediaVars, previewVars
<1>5. ASSUME Leave PROVE FInv'
  BY <1>5 DEF Leave, FInv, FilesCurrent, JobsCurrent, mediaVars
<1>6. ASSUME NEW j \in Job, Open(j) PROVE FInv'
  <2>1. phase[j] = "queued" /\ phase' = [phase EXCEPT ![j] = "running"]
    BY <1>6 DEF Open, Queue!Start, Queue!Move
  <2>2. ASSUME NEW i \in Job
        PROVE  job'[i].key = job[i].key /\ job'[i].gen = job[i].gen /\ job'[i].path = job[i].path
    BY <1>6 DEF Open, IInv, TypeOK
  <2>3. ASSUME NEW i \in Job PROVE phase'[i] # "idle" => phase[i] # "idle"
    BY <2>1 DEF IInv, TypeOK
  <2> QED
    BY <1>6, <2>2, <2>3, ZenonT(30) DEF Open, FInv, FilesCurrent, JobsCurrent, mediaVars, previewVars
<1>7. ASSUME NEW j \in Job, Decode(j) PROVE FInv'
  <2>1. phase[j] = "running" /\ phase' = [phase EXCEPT ![j] = "finished"] /\ job' = job
    BY <1>7 DEF Decode, Queue!Finish, Queue!Move
  <2>2. ASSUME NEW i \in Job PROVE phase'[i] # "idle" => phase[i] # "idle"
    BY <2>1 DEF IInv, TypeOK
  <2> QED
    BY <1>7, <2>1, <2>2 DEF Decode, FInv, FilesCurrent, JobsCurrent, mediaVars, previewVars
<1>8. ASSUME NEW j \in Job, Complete(j) PROVE FInv'
  <2>1. phase[j] = "finished" /\ phase' = [phase EXCEPT ![j] = "idle"]
        /\ job' = [job EXCEPT ![j] = NoJob] /\ UNCHANGED <<mediaVars, gen>>
    BY <1>8 DEF Complete, Queue!Call, Queue!Move
  <2>2. ASSUME NEW i \in Job, phase'[i] # "idle" PROVE phase[i] # "idle" /\ job'[i] = job[i]
    BY <2>1, <2>2 DEF IInv, TypeOK
  <2>3. JobsCurrent'
    BY <2>1, <2>2 DEF FInv, JobsCurrent, mediaVars
  <2>4. SameGen(j) => Frame(j).path = path[MediaOf[job[j].key]]
    BY <2>1 DEF SameGen, Frame, FInv, JobsCurrent
  <2>5. resident' = resident \/ (SameGen(j) /\ resident' = With(resident, job[j].key, Frame(j)))
    BY <1>8 DEF Complete, Publish, PutFull
  <2>6. FilesCurrent'
    BY <2>1, <2>4, <2>5 DEF With, FInv, FilesCurrent, mediaVars
  <2> QED  BY <2>3, <2>6 DEF FInv
<1>9. ASSUME Load PROVE FInv'
  <2>1. phase' = [j \in Job |-> "idle"]
    BY <1>9 DEF Load, Queue!Reset
  <2>2. JobsCurrent'
    BY <2>1 DEF JobsCurrent
  <2>3. resident' = EmptyMap \/ UNCHANGED <<mediaVars, resident>>
    BY <1>9 DEF Load
  <2>4. FilesCurrent'
    BY <2>3 DEF EmptyMap, FInv, FilesCurrent, mediaVars
  <2> QED  BY <2>2, <2>4 DEF FInv
<1>10. ASSUME ClearPreview, UNCHANGED <<phase, job>> PROVE JobsCurrent'
  <2>1. gen' = gen + 1 /\ gen \in Nat
    BY <1>10 DEF ClearPreview, IInv, TypeOK
  <2>2. ASSUME NEW j \in Job, phase[j] # "idle" PROVE job[j].gen # gen + 1
    BY <2>2 DEF IInv, JobsKeyed, TypeOK
  <2> QED  BY <1>10, <2>1, <2>2 DEF JobsCurrent
<1>11. ASSUME NEW m \in Media, Relocate(m) PROVE FInv'
  BY <1>10, <1>11 DEF Relocate, EmptyMap, FInv, FilesCurrent
<1>12. ASSUME Replace PROVE FInv'
  BY <1>10, <1>12 DEF Replace, FInv, FilesCurrent
<1>13. ASSUME SwitchProxy PROVE FInv'
  BY <1>13 DEF SwitchProxy, EmptyMap, FInv, FilesCurrent, JobsCurrent, previewVars
<1>14. ASSUME NEW m \in Media, SelectChannels(m) PROVE FInv'
  BY <1>14 DEF SelectChannels, Restrict, FInv, FilesCurrent, JobsCurrent, previewVars
<1>15. ASSUME UNCHANGED vars PROVE FInv'
  BY <1>15 DEF vars, mediaVars, previewVars, FInv, FilesCurrent, JobsCurrent
<1> QED
  BY <1>1, <1>2, <1>3, <1>4, <1>5, <1>6, <1>7, <1>8, <1>9, <1>11, <1>12, <1>13, <1>14, <1>15
     DEF Next, Works

LEMMA FilesInit == Init => FInv
BY DEF Init, Queue!Init, EmptyMap, FInv, FilesCurrent, JobsCurrent

\* No frame of a file that was unloaded or relocated is in the cache, whenever its decode
\* began: the completion's check of previewGen_ is enough.
THEOREM FilesCurrentHolds == Spec => []FilesCurrent
<1>1. FInv => FilesCurrent
  BY DEF FInv
<1> QED  BY <1>1, FilesInit, FilesInductive, Inductive, PreviewAssumption, PTL DEF Spec

----------------------------------------------------------------------------
(* The views.                                                              *)

\* A step of the queue or of a cursor that leaves the files alone: each job it leaves
\* unfinished is one of before, or holds a frame that is current.
LEMMA ViewsEnsured ==
    ASSUME IInv, PreviewAssumption, VInv, NEW k \in Key, EnsurePreviewThumb(k),
           UNCHANGED <<mediaVars, resident, gen>>
    PROVE  VInv'
<1>1. ViewsCurrent'
  BY DEF VInv, ViewsCurrent, mediaVars
<1>2. ASSUME NEW i \in Job, NEW frame \in Frames, NEW fast \in BOOLEAN, Takes(i, k, frame, fast)
      PROVE  JobsSeeCurrent'
  <2>1. frame.view = view[MediaOf[k]]
    BY <1>2 DEF Takes, Current, VInv, ViewsCurrent
  <2> SUFFICES ASSUME NEW j \in Job, phase'[j] # "idle", job'[j].gen = gen
               PROVE  job'[j].view = view[MediaOf[job'[j].key]]
    BY DEF JobsSeeCurrent, mediaVars
  <2>2. CASE j = i
    <3>1. job'[j] = Holding(k, frame, fast)
      BY <1>2, <2>2 DEF Takes, IInv, TypeOK
    <3> QED  BY <2>1, <3>1 DEF Holding
  <2>3. CASE j # i
    <3>1. job'[j] = job[j] /\ phase'[j] = phase[j]
      BY <1>2, <2>3 DEF Takes, IInv, TypeOK
    <3> QED  BY <3>1 DEF VInv, JobsSeeCurrent
  <2> QED  BY <2>2, <2>3
<1>3. CASE UNCHANGED <<phase, job, inflight>>
  BY <1>1, <1>3 DEF VInv, JobsSeeCurrent, mediaVars
<1> QED  BY <1>1, <1>2, <1>3, EnsureCases DEF VInv

LEMMA ViewsInductive ==
    ASSUME IInv, PreviewAssumption, VInv, [Next]_vars,
           Event \cap {"proxy", "channels"} = {}
    PROVE  VInv'
<1>1. ASSUME NEW k \in Key, Hover(k) PROVE VInv'
  BY <1>1, ViewsEnsured DEF Hover
<1>2. ASSUME ResolveAgain PROVE VInv'
  <2>1. hover \in Key
    BY <1>2 DEF ResolveAgain, IInv, TypeOK, ResolveHovers
  <2> QED  BY <1>2, <2>1, ViewsEnsured DEF ResolveAgain
<1>3. ASSUME NEW k \in Key, CacheReads(k) PROVE VInv'
  <2>1. ViewsCurrent'
    BY <1>3 DEF CacheReads, With, Current, VInv, ViewsCurrent, mediaVars
  <2> QED  BY <1>3, <2>1 DEF CacheReads, VInv, JobsSeeCurrent, mediaVars, previewVars
<1>4. ASSUME NEW k \in Key, CacheDrops(k) PROVE VInv'
  <2>1. ViewsCurrent'
    BY <1>4 DEF CacheDrops, Restrict, VInv, ViewsCurrent, mediaVars
  <2> QED  BY <1>4, <2>1 DEF CacheDrops, VInv, JobsSeeCurrent, mediaVars, previewVars
<1>5. ASSUME Leave PROVE VInv'
  BY <1>5 DEF Leave, VInv, ViewsCurrent, JobsSeeCurrent, mediaVars
<1>6. ASSUME NEW j \in Job, Open(j) PROVE VInv'
  <2>1. phase[j] = "queued" /\ phase' = [phase EXCEPT ![j] = "running"]
    BY <1>6 DEF Open, Queue!Start, Queue!Move
  <2>2. ASSUME NEW i \in Job
        PROVE  /\ job'[i].key = job[i].key /\ job'[i].gen = job[i].gen
               /\ job'[i].view \in {job[i].view, view[MediaOf[job[i].key]]}
    BY <1>6 DEF Open, IInv, TypeOK
  <2>3. ASSUME NEW i \in Job PROVE phase'[i] # "idle" => phase[i] # "idle"
    BY <2>1 DEF IInv, TypeOK
  <2> QED
    BY <1>6, <2>2, <2>3, ZenonT(30) DEF Open, VInv, ViewsCurrent, JobsSeeCurrent, mediaVars, previewVars
<1>7. ASSUME NEW j \in Job, Decode(j) PROVE VInv'
  <2>1. phase[j] = "running" /\ phase' = [phase EXCEPT ![j] = "finished"] /\ job' = job
    BY <1>7 DEF Decode, Queue!Finish, Queue!Move
  <2>2. ASSUME NEW i \in Job PROVE phase'[i] # "idle" => phase[i] # "idle"
    BY <2>1 DEF IInv, TypeOK
  <2> QED
    BY <1>7, <2>1, <2>2 DEF Decode, VInv, ViewsCurrent, JobsSeeCurrent, mediaVars, previewVars
<1>8. ASSUME NEW j \in Job, Complete(j) PROVE VInv'
  <2>1. phase[j] = "finished" /\ phase' = [phase EXCEPT ![j] = "idle"]
        /\ job' = [job EXCEPT ![j] = NoJob] /\ UNCHANGED <<mediaVars, gen>>
    BY <1>8 DEF Complete, Queue!Call, Queue!Move
  <2>2. ASSUME NEW i \in Job, phase'[i] # "idle" PROVE phase[i] # "idle" /\ job'[i] = job[i]
    BY <2>1, <2>2 DEF IInv, TypeOK
  <2>3. JobsSeeCurrent'
    BY <2>1, <2>2 DEF VInv, JobsSeeCurrent, mediaVars
  <2>4. SameGen(j) => Frame(j).view = view[MediaOf[job[j].key]]
    BY <2>1 DEF SameGen, Frame, VInv, JobsSeeCurrent
  <2>5. resident' = resident \/ (SameGen(j) /\ resident' = With(resident, job[j].key, Frame(j)))
    BY <1>8 DEF Complete, Publish, PutFull
  <2>6. ViewsCurrent'
    BY <2>1, <2>4, <2>5 DEF With, VInv, ViewsCurrent, mediaVars
  <2> QED  BY <2>3, <2>6 DEF VInv
<1>9. ASSUME Load PROVE VInv'
  <2>1. phase' = [j \in Job |-> "idle"]
    BY <1>9 DEF Load, Queue!Reset
  <2>2. JobsSeeCurrent'
    BY <2>1 DEF JobsSeeCurrent
  <2>3. resident' = EmptyMap \/ UNCHANGED <<mediaVars, resident>>
    BY <1>9 DEF Load
  <2>4. ViewsCurrent'
    BY <2>3 DEF EmptyMap, VInv, ViewsCurrent, mediaVars
  <2> QED  BY <2>2, <2>4 DEF VInv
<1>10. ASSUME ClearPreview, UNCHANGED <<phase, job>> PROVE JobsSeeCurrent'
  <2>1. gen' = gen + 1 /\ gen \in Nat
    BY <1>10 DEF ClearPreview, IInv, TypeOK
  <2>2. ASSUME NEW j \in Job, phase[j] # "idle" PROVE job[j].gen # gen + 1
    BY <2>2 DEF IInv, JobsKeyed, TypeOK
  <2> QED  BY <1>10, <2>1, <2>2 DEF JobsSeeCurrent
<1>11. ASSUME NEW m \in Media, Relocate(m) PROVE VInv'
  BY <1>10, <1>11 DEF Relocate, EmptyMap, VInv, ViewsCurrent
<1>12. ASSUME Replace PROVE VInv'
  BY <1>10, <1>12 DEF Replace, VInv, ViewsCurrent
<1>13. ASSUME SwitchProxy PROVE FALSE
  BY <1>13 DEF SwitchProxy, User
<1>14. ASSUME NEW m \in Media, SelectChannels(m) PROVE FALSE
  BY <1>14 DEF SelectChannels, User
<1>15. ASSUME UNCHANGED vars PROVE VInv'
  BY <1>15 DEF vars, mediaVars, previewVars, VInv, ViewsCurrent, JobsSeeCurrent
<1> QED
  BY <1>1, <1>2, <1>3, <1>4, <1>5, <1>6, <1>7, <1>8, <1>9, <1>11, <1>12, <1>13, <1>14, <1>15
     DEF Next, Works

LEMMA ViewsInit == Init => VInv
BY DEF Init, Queue!Init, EmptyMap, VInv, ViewsCurrent, JobsSeeCurrent

\* As long as nobody switches the proxy mode or the channels, every frame in the cache was
\* read through the views that are current: the two calls are all that is in the way.
THEOREM ViewsCurrentHolds ==
    ASSUME Event \cap {"proxy", "channels"} = {}
    PROVE  Spec => []ViewsCurrent
<1>1. VInv => ViewsCurrent
  BY DEF VInv
<1>2. IInv /\ VInv /\ [Next]_vars => VInv'
  BY ViewsInductive, PreviewAssumption
<1> QED  BY <1>1, <1>2, ViewsInit, Inductive, PTL DEF Spec

----------------------------------------------------------------------------
(* The marks.                                                              *)

LEMMA MarksEnsured ==
    ASSUME IInv, PreviewAssumption, MarksBacked, NEW k \in Key, EnsurePreviewThumb(k)
    PROVE  MarksBacked'
<1>1. ASSUME NEW i \in Job, NEW frame \in Frames, NEW fast \in BOOLEAN, Takes(i, k, frame, fast)
      PROVE  MarksBacked'
  <2>1. phase'[i] = "queued" /\ job'[i] = Holding(k, frame, fast)
    BY <1>1 DEF Takes, IInv, TypeOK
  <2>2. i \in Live' /\ job'[i].key = k
    BY <2>1 DEF Holding, Live
  <2>3. ASSUME NEW j \in Live PROVE j \in Live' /\ job'[j] = job[j]
    BY <1>1, <2>3 DEF Takes, Live, IInv, TypeOK
  <2> QED  BY <1>1, <2>2, <2>3 DEF Takes, MarksBacked
<1>2. CASE UNCHANGED <<phase, job, inflight>>
  BY <1>2 DEF MarksBacked, Live
<1> QED  BY <1>1, <1>2, EnsureCases

LEMMA MarksInductive ==
    ASSUME IInv, PreviewAssumption, MarksBacked, [Next]_vars, Parses \subseteq {TRUE}
    PROVE  MarksBacked'
<1>1. ASSUME NEW k \in Key, Hover(k) PROVE MarksBacked'
  BY <1>1, MarksEnsured DEF Hover
<1>2. ASSUME ResolveAgain PROVE MarksBacked'
  <2>1. hover \in Key
    BY <1>2 DEF ResolveAgain, IInv, TypeOK, ResolveHovers
  <2> QED  BY <1>2, <2>1, MarksEnsured DEF ResolveAgain
<1>3. ASSUME UNCHANGED <<phase, job, inflight>> PROVE MarksBacked'
  BY <1>3 DEF MarksBacked, Live
<1>4. ASSUME inflight' = {} PROVE MarksBacked'
  BY <1>4 DEF MarksBacked
<1>5. ASSUME NEW j \in Job, Works(j) PROVE MarksBacked'
  <2>1. \E to \in {"running", "finished"} : phase' = [phase EXCEPT ![j] = to]
    BY <1>5 DEF Works, Open, Decode, Queue!Start, Queue!Finish, Queue!Move
  <2>2. ASSUME NEW i \in Job PROVE job'[i].key = job[i].key
    <3>1. CASE Open(j)   BY <3>1 DEF Open, IInv, TypeOK
    <3>2. CASE Decode(j) BY <3>2 DEF Decode
    <3> QED  BY <1>5, <3>1, <3>2 DEF Works
  <2>3. \A i \in Live : i \in Live' /\ job'[i].key = job[i].key
    BY <2>1, <2>2 DEF Live, IInv, TypeOK
  <2> QED  BY <1>5, <2>3 DEF Works, Open, Decode, previewVars, MarksBacked
<1>6. ASSUME NEW j \in Job, Complete(j) PROVE MarksBacked'
  <2>1. inflight' = inflight \ {job[j].key}
    BY <1>6 DEF Complete, MarkGone
  <2>2. ASSUME NEW i \in Live, i # j PROVE i \in Live' /\ job'[i] = job[i]
    BY <1>6, <2>2 DEF Complete, Queue!Call, Queue!Move, Live, IInv, TypeOK
  <2> QED  BY <2>1, <2>2 DEF MarksBacked
<1>7. ASSUME Load PROVE MarksBacked'
  BY <1>4, <1>7 DEF Load, ClearPreview
<1> QED
  BY <1>1, <1>2, <1>3, <1>4, <1>5, <1>6, <1>7
     DEF Next, vars, Leave, CacheReads, CacheDrops, Replace, Relocate, SwitchProxy, SelectChannels,
         ClearPreview, previewVars

LEMMA MarksInit == Init => MarksBacked
BY DEF Init, MarksBacked

\* If no load ever fails to parse, no mark outlives its decode: a failed load is the only
\* thing that strands one.
THEOREM MarksBackedHolds ==
    ASSUME Parses \subseteq {TRUE}
    PROVE  Spec => []MarksBacked
<1>1. IInv /\ MarksBacked /\ [Next]_vars => MarksBacked'
  BY MarksInductive, PreviewAssumption
<1> QED  BY <1>1, MarksInit, Inductive, PTL DEF Spec

=============================================================================
