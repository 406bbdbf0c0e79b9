----------------------------- MODULE WorkQueue ------------------------------
(***************************************************************************)
(* The background job queue of src/src/io/WorkQueue.{h,cpp}: a pool of     *)
(* threads that runs submitted jobs, and completion callbacks handed back  *)
(* to the UI thread once a frame.  The UI thread is the only client (the   *)
(* run loop of App::run, the project loads that reset the queue, and the   *)
(* completions it calls, which may submit); its calls are sequential, and  *)
(* `ui` is where in them it is.                                            *)
(*                                                                         *)
(* An action is one critical section of mtx_, or one notification: those   *)
(* are sent with the lock released.  A job is a slot that is used again    *)
(* once the queue has let go of it.  completed_ and what a drain took from *)
(* it are sets: the order of the completions is left open, a superset of   *)
(* the code's.                                                             *)
(***************************************************************************)
EXTENDS Naturals, FiniteSets, Sequences, Functions

CONSTANTS
    Worker,   \* threads_
    Job,
    WithDone  \* the jobs whose `done` is not empty

ASSUME QueueAssumption ==
    /\ IsFiniteSet(Worker) /\ Worker # {}
    /\ IsFiniteSet(Job) /\ WithDone \subseteq Job

VARIABLES
    pending,    \* pending_
    completed,  \* completed_
    ready,      \* drainCompletions' local `ready`, not yet called
    paused,     \* paused_
    quitting,   \* quitting_
    stop,       \* stop_
    active,     \* active_
    running,    \* worker -> the job it is executing, with the lock released
    waiting,    \* workers blocked in cv_.wait
    exited,     \* workers that have returned from workerLoop
    ui          \* where the UI thread is

queueVars == <<pending, completed, ready>>
flagVars  == <<paused, quitting, stop>>
poolVars  == <<active, running, waiting, exited>>
vars == <<queueVars, flagVars, poolVars, ui>>

\* "run": outside the queue, or in a completion.  "one", "all", "reset-all" and
\* "quit-all": about to notify cv_.  "check" and "sleep": in reset()'s wait on
\* idleCv_.  "join": in the destructor's joins.
Place == {"run", "one", "all", "reset-all", "check", "sleep", "quit-all", "join", "gone"}

Resetting == {"reset-all", "check", "sleep"}
Quitting  == {"quit-all", "join", "gone"}

Running == DOMAIN running
Awake   == Worker \ (Running \cup waiting \cup exited)
JobsIn  == Range(pending) \cup completed \cup ready \cup Range(running)

-----------------------------------------------------------------------------
Init ==
    /\ pending = <<>> /\ completed = {} /\ ready = {}
    /\ paused = FALSE /\ quitting = FALSE /\ stop = FALSE
    /\ active = 0 /\ running = [w \in {} |-> {}]
    /\ waiting = {} /\ exited = {}
    /\ ui = "run"

-----------------------------------------------------------------------------
(* The UI thread. *)

Submit(j) ==
    /\ ui = "run" /\ j \notin JobsIn
    /\ pending' = Append(pending, j)
    /\ ui' = "one"
    /\ UNCHANGED <<completed, ready, flagVars, poolVars>>

NotifyNone == ui = "one" /\ ui' = "run" /\ UNCHANGED waiting  \* mutant
\* submit()'s notify_one.  No worker wakes in any other way: spurious wakeups
\* are left out, so that none can hide a missing notification.
NotifyOne ==
    /\ ui = "one" /\ ui' = "run"
    /\ IF waiting = {} THEN UNCHANGED waiting
       ELSE \E w \in waiting : waiting' = waiting \ {w}

\* What follows the notify_all of setPaused(), reset() and the destructor.
Notified ==
    \/ ui = "all" /\ ui' = "run"
    \/ ui = "reset-all" /\ ui' = "check"
    \/ ui = "quit-all" /\ ui' = "join"

NotifyNobody == Notified /\ UNCHANGED waiting  \* mutant
NotifyAll == Notified /\ waiting' = {}

Notify ==
    /\ NotifyOne \/ NotifyAll
    /\ UNCHANGED <<queueVars, flagVars, active, running, exited>>

SetPaused(b) ==
    /\ ui = "run" /\ ready = {}
    /\ paused # b
    /\ paused' = b
    /\ ui' = IF b THEN "run" ELSE "all"
    /\ UNCHANGED <<queueVars, quitting, stop, poolVars>>

DrainCompletions ==
    /\ ui = "run" /\ ready = {} /\ completed # {}
    /\ ready' = completed /\ completed' = {}
    /\ UNCHANGED <<pending, flagVars, poolVars, ui>>

\* One completion of drainCompletions' loop returns.
Done(j) ==
    /\ ui = "run" /\ j \in ready
    /\ ready' = ready \ {j}
    /\ UNCHANGED <<pending, completed, flagVars, poolVars, ui>>

BeginReset ==
    /\ ui = "run" /\ ready = {}
    /\ pending' = <<>> /\ stop' = TRUE
    /\ ui' = "reset-all"

Reset == BeginReset /\ UNCHANGED <<completed, ready, paused, quitting, poolVars>>

\* Mutants: the finished jobs' completions are kept; reset() does not wait.
KeepCompleted ==
    IF active = 0 THEN UNCHANGED completed /\ stop' = FALSE /\ ui' = "run"
    ELSE UNCHANGED <<completed, stop>> /\ ui' = "sleep"
ReturnAtOnce == completed' = {} /\ stop' = FALSE /\ ui' = "run"

\* idleCv_'s predicate, evaluated.
CheckIdle ==
    IF active = 0 THEN completed' = {} /\ stop' = FALSE /\ ui' = "run"
    ELSE UNCHANGED <<completed, stop>> /\ ui' = "sleep"

EndReset ==
    /\ ui = "check" /\ CheckIdle
    /\ UNCHANGED <<pending, ready, paused, quitting, poolVars>>

\* The destructor, up to its joins, and past them.
Quit ==
    /\ ui = "run" /\ ready = {}
    /\ pending' = <<>>
    /\ quitting' = TRUE /\ stop' = TRUE
    /\ ui' = "quit-all"
    /\ UNCHANGED <<completed, ready, paused, poolVars>>

Join ==
    /\ ui = "join" /\ exited = Worker
    /\ ui' = "gone"
    /\ UNCHANGED <<queueVars, flagVars, poolVars>>

-----------------------------------------------------------------------------
(* A worker: workerLoop. *)

Wait(w) ==
    /\ w \in Awake /\ ~quitting
    /\ paused \/ pending = <<>>
    /\ waiting' = waiting \cup {w}
    /\ UNCHANGED <<queueVars, flagVars, active, running, exited, ui>>

MayTake == ~quitting /\ ~paused

Start(w) ==
    /\ w \in Awake /\ MayTake /\ pending # <<>>
    /\ pending' = Tail(pending)
    /\ running' = [v \in Running \cup {w} |->
                      IF v = w THEN Head(pending) ELSE running[v]]
    /\ active' = active + 1
    /\ UNCHANGED <<completed, ready, flagVars, waiting, exited, ui>>

WakeNever == UNCHANGED ui                                       \* mutant
\* idleCv_.notify_all() once active_ has reached 0.
WakeReset == ui' = IF active' = 0 /\ ui = "sleep" THEN "check" ELSE ui

\* Mutant: an empty `done` is kept too.
CompletedAny(j) == completed' = completed \cup (IF stop THEN {} ELSE {j})
Completed(j) == completed' = completed \cup (IF stop THEN {} ELSE {j} \cap WithDone)

Finish(w) ==
    /\ w \in Running
    /\ Completed(running[w])
    /\ running' = Restrict(running, Running \ {w})
    /\ active' = active - 1
    /\ WakeReset
    /\ UNCHANGED <<pending, ready, flagVars, waiting, exited>>

Exit(w) ==
    /\ w \in Awake /\ quitting
    /\ exited' = exited \cup {w}
    /\ UNCHANGED <<queueVars, flagVars, active, running, waiting, ui>>

-----------------------------------------------------------------------------
Inside == Notify \/ EndReset \/ Join
AnyDone == \E j \in Job : Done(j)

Client ==
    \/ \E j \in Job : Submit(j)
    \/ \E b \in BOOLEAN : SetPaused(b)
    \/ Reset
    \/ Quit

Pool(w) == Wait(w) \/ Start(w) \/ Finish(w) \/ Exit(w)

Next == Client \/ DrainCompletions \/ AnyDone \/ Inside \/ \E w \in Worker : Pool(w)

\* A call the UI thread is inside goes on, the run loop gets to the drain every frame
\* (App::run) and a completion returns, however many submissions come between, and
\* a job returns: those the app submits poll `stop` or are short.
Fairness ==
    /\ WF_vars(Inside)
    /\ SF_vars(DrainCompletions) /\ SF_vars(AnyDone)
    /\ \A w \in Worker : WF_vars(Pool(w))

Spec == Init /\ [][Next]_vars /\ Fairness

-----------------------------------------------------------------------------
(* Properties. *)

\* The type of every variable.
TypeOK ==
    /\ pending \in Seq(Job) /\ completed \subseteq WithDone /\ ready \subseteq WithDone
    /\ paused \in BOOLEAN /\ quitting \in BOOLEAN /\ stop \in BOOLEAN
    /\ active \in Nat
    /\ Running \subseteq Worker /\ running \in [Running -> Job]
    /\ waiting \subseteq Worker /\ exited \subseteq Worker
    /\ ui \in Place

\* notify_one never costs the pool a worker: while jobs may start, either nobody
\* sleeps or there are as many workers awake (or about to be woken) as there are
\* jobs to take.  A worker that wakes for a job another one took, a pause between
\* a submit and a wakeup, and a reset must not leave a job with a sleeping pool.
NoJobLeftAsleep ==
    MayTake /\ ui # "all" /\ pending # <<>>
      => \/ waiting = {}
         \/ Cardinality(Awake) + (IF ui = "one" THEN 1 ELSE 0) >= Len(pending)

\* Once reset() has returned nothing of before runs on, so a job never works for a project that is gone.
ReturnsIdle == ui \in Resetting /\ ui' = "run" => Running' = {}
NothingOutlivesReset == [][ReturnsIdle]_vars

\* From the moment reset() is called a job is out of the queue, wherever it was.
PhaseOf(j) ==
    CASE stop                       -> "idle"
      [] ~stop /\ j \in Range(pending)        -> "queued"
      [] ~stop /\ j \in Range(running) -> "running"
      [] ~stop /\ j \in completed \cup ready -> "finished"
      [] OTHER                      -> "idle"

Abstract == INSTANCE JobQueue WITH phase <- [j \in Job |-> PhaseOf(j)]

\* The queue keeps JobQueue's promise: a job runs once and is then called, unless
\* a reset came first, and then its completion is never called, although reset()
\* drops the queued jobs, waits for the running ones and discards the finished
\* ones in steps that the pool interleaves with.
Implements == Abstract!Spec

\* reset() returns once the jobs that were running have.
ResetReturns == ui \in Resetting ~> ui = "run"

\* The destructor returns.
QuitReturns == quitting ~> ui = "gone"

\* Unless playback pauses the queue again and again, a submitted job is run and its
\* completion called, or it is dropped by a reset.
JobsServed ==
    <>[](~paused /\ ~quitting) => \A j \in Job : j \in Range(pending) ~> j \notin JobsIn
=============================================================================
