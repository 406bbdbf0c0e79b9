-------------------------- MODULE WorkQueueProofs ---------------------------
(***************************************************************************)
(* Theorems about WorkQueue, for every pool and every set of jobs.  The    *)
(* inductive invariant says where a job can be (in one place at a time),   *)
(* where a worker can be, what the flags say of the UI thread's place, and *)
(* that notify_one has not lost a worker.                                  *)
(***************************************************************************)
EXTENDS WorkQueue, FiniteSetTheorems, TLAPS

\* A job is in one place at a time, and there once.
JobsApart ==
    /\ \A x, y \in DOMAIN pending : pending[x] = pending[y] => x = y
    /\ \A v, w \in Running : running[v] = running[w] => v = w
    /\ Range(pending) \cap (Range(running) \cup completed \cup ready) = {}
    /\ Range(running) \cap (completed \cup ready) = {}
    /\ completed \cap ready = {}

\* A worker is in one place at a time, and gone only if the queue is being destroyed.
WorkersApart ==
    /\ waiting \cap Running = {} /\ exited \cap Running = {}
    /\ waiting \cap exited = {}
    /\ exited # {} => quitting

\* The flags follow the call the UI thread is in.
FlagsFollow ==
    /\ stop <=> ui \in Resetting \cup Quitting
    /\ quitting <=> ui \in Quitting
    /\ stop => pending = <<>> /\ ready = {}
    /\ ui = "all" => ~paused

\* active_ is the number of jobs being executed.
Counted == active = Cardinality(Running)

IInv == TypeOK /\ JobsApart /\ WorkersApart /\ FlagsFollow /\ Counted /\ NoJobLeftAsleep

-----------------------------------------------------------------------------
(* Sequences. *)

\* Appending adds one element, at the end.
LEMMA AppendFacts ==
    ASSUME NEW S, NEW s \in Seq(S), NEW e \in S
    PROVE  /\ Append(s, e) \in Seq(S) /\ Len(Append(s, e)) = Len(s) + 1
           /\ DOMAIN Append(s, e) = 1 .. Len(s) + 1
           /\ \A i \in 1 .. Len(s) : Append(s, e)[i] = s[i]
           /\ Append(s, e)[Len(s) + 1] = e
           /\ Range(Append(s, e)) = Range(s) \cup {e}
<1>1. /\ Append(s, e) \in Seq(S) /\ Len(Append(s, e)) = Len(s) + 1
      /\ DOMAIN Append(s, e) = 1 .. Len(s) + 1
      /\ \A i \in 1 .. Len(s) : Append(s, e)[i] = s[i]
      /\ Append(s, e)[Len(s) + 1] = e
      /\ DOMAIN s = 1 .. Len(s) /\ Len(s) \in Nat
  OBVIOUS
<1> DEFINE t == Append(s, e)
<1> HIDE DEF t
<1>2. Range(t) = Range(s) \cup {e}
  <2>1. ASSUME NEW i \in DOMAIN t PROVE t[i] \in Range(s) \cup {e}
    BY <1>1 DEF Range, t
  <2>2. ASSUME NEW i \in DOMAIN s PROVE s[i] \in Range(t)
    <3>1. i \in DOMAIN t /\ t[i] = s[i]
      BY <1>1 DEF t
    <3> QED BY <3>1 DEF Range
  <2>3. e \in Range(t)
    <3>1. Len(s) + 1 \in DOMAIN t /\ t[Len(s) + 1] = e
      BY <1>1 DEF t
    <3> QED BY <3>1 DEF Range
  <2> QED BY <2>1, <2>2, <2>3 DEF Range
<1> QED BY <1>1, <1>2 DEF t

\* Of a sequence without repetitions, the tail is the rest.
LEMMA TailFacts ==
    ASSUME NEW S, NEW s \in Seq(S), s # <<>>
    PROVE  /\ Tail(s) \in Seq(S) /\ Head(s) \in S /\ Head(s) \in Range(s)
           /\ Len(Tail(s)) = Len(s) - 1 /\ Len(s) \in Nat \ {0}
           /\ Range(s) = Range(Tail(s)) \cup {Head(s)}
           /\ (\A i, j \in DOMAIN s : s[i] = s[j] => i = j)
                => /\ Head(s) \notin Range(Tail(s))
                   /\ \A i, j \in DOMAIN Tail(s) : Tail(s)[i] = Tail(s)[j] => i = j
<1> DEFINE t == Tail(s)
<1>1. /\ t \in Seq(S) /\ Head(s) \in S /\ Len(t) = Len(s) - 1 /\ Len(s) \in Nat \ {0}
      /\ DOMAIN s = 1 .. Len(s) /\ DOMAIN t = 1 .. Len(s) - 1
      /\ Head(s) = s[1]
      /\ \A i \in 1 .. Len(s) - 1 : t[i] = s[i + 1]
  OBVIOUS
<1> HIDE DEF t
<1>2. Head(s) \in Range(s)
  BY <1>1 DEF Range
<1>3. Range(s) = Range(t) \cup {Head(s)}
  <2>1. ASSUME NEW i \in DOMAIN s PROVE s[i] \in Range(t) \cup {Head(s)}
    <3>1. CASE i = 1
      BY <1>1, <3>1
    <3>2. CASE i # 1
      <4>1. i - 1 \in DOMAIN t /\ t[i - 1] = s[i]
        BY <1>1, <3>2
      <4> QED BY <4>1 DEF Range
    <3> QED BY <3>1, <3>2
  <2>2. ASSUME NEW i \in DOMAIN t PROVE t[i] \in Range(s)
    <3>1. i + 1 \in DOMAIN s /\ t[i] = s[i + 1]
      BY <1>1
    <3> QED BY <3>1 DEF Range
  <2> QED BY <1>2, <2>1, <2>2 DEF Range
<1>4. ASSUME \A i, j \in DOMAIN s : s[i] = s[j] => i = j
      PROVE  /\ Head(s) \notin Range(t)
             /\ \A i, j \in DOMAIN t : t[i] = t[j] => i = j
  <2>1. ASSUME NEW i \in DOMAIN t PROVE t[i] # Head(s)
    <3>1. i + 1 \in DOMAIN s /\ 1 \in DOMAIN s /\ i + 1 # 1 /\ t[i] = s[i + 1]
      BY <1>1
    <3> QED BY <1>1, <1>4, <3>1
  <2>2. ASSUME NEW i \in DOMAIN t, NEW j \in DOMAIN t, t[i] = t[j] PROVE i = j
    <3>1. /\ i + 1 \in DOMAIN s /\ j + 1 \in DOMAIN s /\ i \in Int /\ j \in Int
          /\ t[i] = s[i + 1] /\ t[j] = s[j + 1]
      BY <1>1
    <3>2. i + 1 = j + 1
      BY <1>4, <2>2, <3>1
    <3> QED BY <3>1, <3>2
  <2> QED BY <2>1, <2>2 DEF Range
<1> QED BY <1>1, <1>2, <1>3, <1>4 DEF t

-----------------------------------------------------------------------------
(* The pool. *)

\* The workers outside cv_.wait, idle ones and running ones, are finitely many.
LEMMA PoolFinite ==
    ASSUME TypeOK
    PROVE  /\ IsFiniteSet(Running) /\ IsFiniteSet(Awake)
           /\ Cardinality(Running) \in Nat /\ Cardinality(Awake) \in Nat
<1>1. Running \in SUBSET Worker /\ Awake \in SUBSET Worker /\ IsFiniteSet(Worker)
  BY QueueAssumption DEF TypeOK, Awake
<1>2. IsFiniteSet(Running) /\ IsFiniteSet(Awake)
  BY <1>1, FS_Subset
<1>3. Cardinality(Running) \in Nat
  BY <1>2, FS_CardinalityType
<1>4. Cardinality(Awake) \in Nat
  BY <1>2, FS_CardinalityType
<1> QED BY <1>2, <1>3, <1>4

\* The invariant holds initially.
LEMMA IInvInit == Init => IInv
<1> SUFFICES ASSUME Init PROVE IInv
  OBVIOUS
<1>1. Running = {} /\ Range(running) = {} /\ Range(pending) = {}
  BY DEF Init, Running, Range
<1>2. TypeOK
  <2>1. pending \in Seq(Job) /\ active \in Nat
    BY DEF Init
  <2>2. running \in [Running -> Job]
    BY <1>1 DEF Init, Running
  <2> QED BY <1>1, <2>1, <2>2 DEF Init, TypeOK, Place
<1>3. JobsApart /\ WorkersApart /\ FlagsFollow /\ NoJobLeftAsleep
  BY <1>1 DEF Init, JobsApart, WorkersApart, FlagsFollow, NoJobLeftAsleep, Resetting,
     Quitting
<1>4. Counted
  BY <1>1, FS_EmptySet DEF Init, Counted
<1> QED BY <1>2, <1>3, <1>4 DEF IInv

-----------------------------------------------------------------------------
(* The UI thread's steps. *)

\* A submitted job joins the end of pending_, and its wakeup is owed.
LEMMA SubmitInv == ASSUME IInv, NEW j \in Job, Submit(j) PROVE IInv'
<1> USE DEF IInv
<1>1. /\ pending \in Seq(Job) /\ pending' = Append(pending, j) /\ j \notin JobsIn
      /\ ui = "run" /\ ui' = "one"
      /\ UNCHANGED <<completed, ready, paused, quitting, stop, active, running,
                     waiting, exited>>
  BY DEF Submit, TypeOK, flagVars, poolVars
<1>2. /\ pending' \in Seq(Job) /\ Len(pending') = Len(pending) + 1
      /\ DOMAIN pending' = 1 .. Len(pending) + 1
      /\ \A i \in 1 .. Len(pending) : pending'[i] = pending[i]
      /\ pending'[Len(pending) + 1] = j
      /\ Range(pending') = Range(pending) \cup {j}
  BY <1>1, AppendFacts
<1>3. TypeOK'
  BY <1>1, <1>2 DEF TypeOK, Place, Running
<1>4. JobsApart'
  <2>1. ASSUME NEW x \in DOMAIN pending', NEW y \in DOMAIN pending',
               pending'[x] = pending'[y]
        PROVE  x = y
    <3>1. \A i \in DOMAIN pending : pending[i] # j
      BY <1>1 DEF JobsIn, Range
    <3>2. DOMAIN pending = 1 .. Len(pending) /\ Len(pending) \in Nat
      BY <1>1
    <3> QED BY <1>2, <2>1, <3>1, <3>2 DEF JobsApart
  <2>2. UNCHANGED <<Range(running), Running>>
    BY <1>1 DEF Range, Running
  <2> QED BY <1>1, <1>2, <2>1, <2>2 DEF JobsApart, JobsIn
<1>5. WorkersApart' /\ FlagsFollow' /\ Counted'
  BY <1>1 DEF WorkersApart, FlagsFollow, Counted, Running, Resetting, Quitting
<1>6. NoJobLeftAsleep'
  <2>1. Awake' = Awake /\ Cardinality(Awake) \in Nat
    BY <1>1, PoolFinite DEF Awake, Running
  <2>2. CASE pending = <<>>
    BY <1>1, <1>2, <2>1, <2>2 DEF NoJobLeftAsleep
  <2>3. CASE pending # <<>>
    <3>1. Len(pending) \in Nat /\ MayTake' = MayTake
      BY <1>1 DEF MayTake
    <3> QED BY <1>1, <1>2, <2>1, <2>3, <3>1 DEF NoJobLeftAsleep
  <2> QED BY <2>2, <2>3
<1> QED BY <1>3, <1>4, <1>5, <1>6

\* A notification only moves workers out of cv_.wait.
LEMMA NotifyInv == ASSUME IInv, Notify PROVE IInv'
<1> USE DEF IInv
<1>1. /\ waiting' \subseteq waiting
      /\ UNCHANGED <<pending, completed, ready, paused, quitting, stop, active,
                     running, exited>>
      /\ ui \in {"one", "all", "reset-all", "quit-all"}
      /\ \/ ui \in {"one", "all"} /\ ui' = "run"
         \/ ui = "reset-all" /\ ui' = "check"
         \/ ui = "quit-all" /\ ui' = "join"
  BY DEF Notify, NotifyOne, NotifyAll, Notified, queueVars, flagVars
<1>2. TypeOK'
  BY <1>1 DEF TypeOK, Place, Running
<1>3. JobsApart' /\ WorkersApart' /\ Counted'
  BY <1>1 DEF JobsApart, WorkersApart, Counted, Running, Range
<1>4. FlagsFollow'
  BY <1>1 DEF FlagsFollow, Resetting, Quitting
<1>5. NoJobLeftAsleep'
  <2>1. CASE NotifyAll
    BY <2>1 DEF NotifyAll, NoJobLeftAsleep
  <2>2. CASE NotifyOne /\ waiting = {}
    BY <1>1, <2>2 DEF NotifyOne, NoJobLeftAsleep
  <2>3. CASE NotifyOne /\ waiting # {}
    <3>1. PICK w \in waiting : waiting' = waiting \ {w}
      BY <2>3 DEF NotifyOne
    <3>2. Awake' = Awake \cup {w} /\ w \notin Awake
      BY <1>1, <3>1 DEF Awake, WorkersApart, TypeOK, Running
    <3>3. Cardinality(Awake') = Cardinality(Awake) + 1 /\ Cardinality(Awake) \in Nat
      BY <3>2, PoolFinite, FS_AddElement
    <3>4. ui = "one" /\ ui' = "run" /\ MayTake' = MayTake /\ Len(pending) \in Nat
      BY <1>1, <2>3 DEF NotifyOne, MayTake, TypeOK
    <3> HIDE DEF IInv
    <3>5. NoJobLeftAsleep /\ pending' = pending
      BY <1>1 DEF IInv
    <3> QED BY <2>3, <3>3, <3>4, <3>5 DEF NoJobLeftAsleep
  <2> QED BY <2>1, <2>2, <2>3 DEF Notify
<1> QED BY <1>2, <1>3, <1>4, <1>5

\* Pausing starts nothing; resuming owes every worker a notification.
LEMMA SetPausedInv == ASSUME IInv, NEW b \in BOOLEAN, SetPaused(b) PROVE IInv'
<1> USE DEF IInv
<1>1. /\ paused' = b /\ ui = "run" /\ ui' = IF b THEN "run" ELSE "all"
      /\ UNCHANGED <<pending, completed, ready, quitting, stop, active, running,
                     waiting, exited>>
  BY DEF SetPaused, queueVars, poolVars
<1>2. TypeOK'
  BY <1>1 DEF TypeOK, Place, Running
<1>3. JobsApart' /\ WorkersApart' /\ Counted'
  BY <1>1 DEF JobsApart, WorkersApart, Counted, Running, Range
<1>4. FlagsFollow'
  BY <1>1 DEF FlagsFollow, Resetting, Quitting
<1>5. NoJobLeftAsleep'
  BY <1>1 DEF NoJobLeftAsleep, MayTake
<1> QED BY <1>2, <1>3, <1>4, <1>5

\* The completions change hands, and are called one by one.
LEMMA DrainInv ==
    ASSUME IInv, DrainCompletions \/ \E j \in Job : Done(j)
    PROVE  IInv'
<1> USE DEF IInv
<1>1. /\ completed' \cup ready' \subseteq completed \cup ready
      /\ completed' \cap ready' = {}
      /\ completed' \subseteq WithDone /\ ready' \subseteq WithDone /\ ui = "run"
      /\ UNCHANGED <<pending, paused, quitting, stop, active, running, waiting,
                     exited, ui>>
  BY DEF DrainCompletions, Done, flagVars, poolVars, JobsApart, TypeOK
<1>2. TypeOK'
  BY <1>1 DEF TypeOK, Place, Running
<1>3. JobsApart'
  BY <1>1 DEF JobsApart, Running, Range
<1>4. WorkersApart' /\ Counted'
  BY <1>1 DEF WorkersApart, Counted, Running
<1>5. FlagsFollow'
  BY <1>1 DEF FlagsFollow, Resetting, Quitting
<1>6. NoJobLeftAsleep'
  BY <1>1 DEF NoJobLeftAsleep, MayTake, Awake, Running
<1> QED BY <1>2, <1>3, <1>4, <1>5, <1>6

\* reset() and the destructor empty pending_ and raise the flag.
LEMMA StopInv == ASSUME IInv, Reset \/ Quit PROVE IInv'
<1> USE DEF IInv
<1>1. /\ pending' = <<>> /\ stop' = TRUE /\ ready = {} /\ ui = "run"
      /\ \/ ui' = "reset-all" /\ quitting' = quitting
         \/ ui' = "quit-all" /\ quitting' = TRUE
      /\ UNCHANGED <<completed, ready, paused, active, running, waiting, exited>>
  BY DEF Reset, BeginReset, Quit, poolVars
<1>2. TypeOK'
  <2>1. pending' \in Seq(Job)
    BY <1>1
  <2> QED BY <1>1, <2>1 DEF TypeOK, Place, Running
<1>3. JobsApart'
  BY <1>1 DEF JobsApart, Running, Range
<1>4. WorkersApart' /\ Counted'
  BY <1>1 DEF WorkersApart, Counted, Running
<1>5. FlagsFollow'
  BY <1>1 DEF FlagsFollow, Resetting, Quitting
<1>6. NoJobLeftAsleep'
  BY <1>1 DEF NoJobLeftAsleep
<1> QED BY <1>2, <1>3, <1>4, <1>5, <1>6

\* reset() goes back to sleep, or returns with the finished jobs thrown away; the
\* destructor returns.
LEMMA ReturnInv == ASSUME IInv, EndReset \/ Join PROVE IInv'
<1> USE DEF IInv
<1>1. /\ pending = <<>> /\ ready = {} /\ completed' \subseteq completed
      /\ UNCHANGED <<pending, ready, paused, quitting, active, running, waiting, exited>>
      /\ \/ ui = "check" /\ ui' = "run" /\ stop' = FALSE
         \/ ui = "check" /\ ui' = "sleep" /\ stop' = stop
         \/ ui = "join" /\ ui' = "gone" /\ stop' = stop
  BY DEF EndReset, CheckIdle, Join, queueVars, flagVars, poolVars, FlagsFollow, Resetting,
     Quitting
<1>2. TypeOK'
  BY <1>1 DEF TypeOK, Place, Running
<1>3. JobsApart'
  BY <1>1 DEF JobsApart, Running, Range
<1>4. WorkersApart' /\ Counted'
  BY <1>1 DEF WorkersApart, Counted, Running
<1>5. FlagsFollow'
  BY <1>1 DEF FlagsFollow, Resetting, Quitting
<1>6. NoJobLeftAsleep'
  BY <1>1 DEF NoJobLeftAsleep
<1> QED BY <1>2, <1>3, <1>4, <1>5, <1>6

-----------------------------------------------------------------------------
(* The workers' steps. *)

\* A worker goes to sleep, or returns: never while there is a job for it.
LEMMA IdleInv == ASSUME IInv, NEW w \in Worker, Wait(w) \/ Exit(w) PROVE IInv'
<1> USE DEF IInv
<1>1. /\ w \in Awake
      /\ UNCHANGED <<pending, completed, ready, paused, quitting, stop, active,
                     running, ui>>
      /\ \/ waiting' = waiting \cup {w} /\ exited' = exited
         \/ waiting' = waiting /\ exited' = exited \cup {w} /\ quitting
  BY DEF Wait, Exit, queueVars, flagVars
<1>2. TypeOK'
  BY <1>1 DEF TypeOK, Running
<1>3. JobsApart' /\ Counted' /\ FlagsFollow'
  BY <1>1 DEF JobsApart, Counted, FlagsFollow, Running, Range
<1>4. WorkersApart'
  BY <1>1 DEF WorkersApart, Awake, Running
<1>5. NoJobLeftAsleep'
  BY <1>1 DEF NoJobLeftAsleep, MayTake, Wait, Exit
<1> QED BY <1>2, <1>3, <1>4, <1>5

\* A worker takes the first job: one job less to take, one worker less awake.
LEMMA StartInv == ASSUME IInv, NEW w \in Worker, Start(w) PROVE IInv'
<1> USE DEF IInv
<1>1. /\ w \in Awake /\ pending # <<>> /\ pending' = Tail(pending)
      /\ running' = [v \in Running \cup {w} |->
                        IF v = w THEN Head(pending) ELSE running[v]]
      /\ active' = active + 1 /\ pending \in Seq(Job)
      /\ UNCHANGED <<completed, ready, paused, quitting, stop, waiting, exited, ui>>
  BY DEF Start, flagVars, TypeOK
<1>2. /\ pending' \in Seq(Job) /\ Head(pending) \in Job
      /\ Len(pending') = Len(pending) - 1 /\ Len(pending) \in Nat \ {0}
      /\ Range(pending) = Range(pending') \cup {Head(pending)}
  BY <1>1, TailFacts
<1>3. /\ Head(pending) \notin Range(pending')
      /\ \A x, y \in DOMAIN pending' : pending'[x] = pending'[y] => x = y
  BY <1>1, TailFacts DEF JobsApart
<1>4. w \notin Running /\ w \in Worker /\ Running' = Running \cup {w}
  BY <1>1 DEF Awake, Running
<1>5. Range(running') = Range(running) \cup {Head(pending)}
  BY <1>1, <1>4 DEF Range, Running
<1>6. TypeOK'
  <2>1. running' \in [Running' -> Job]
    BY <1>1, <1>2, <1>4 DEF TypeOK
  <2> QED BY <1>1, <1>2, <1>4, <2>1 DEF TypeOK
<1>7. JobsApart'
  <2>1. ASSUME NEW u \in Running', NEW v \in Running', running'[u] = running'[v]
        PROVE  u = v
    <3>1. \A x \in Running : running[x] # Head(pending)
      BY <1>2 DEF JobsApart, Range, Running
    <3> QED BY <1>1, <1>4, <2>1, <3>1 DEF JobsApart
  <2>2. /\ Range(pending') \cap (Range(running') \cup completed' \cup ready') = {}
        /\ Range(running') \cap (completed' \cup ready') = {}
        /\ completed' \cap ready' = {}
    <3>1. /\ Range(pending) \cap (Range(running) \cup completed \cup ready) = {}
          /\ Range(running) \cap (completed \cup ready) = {}
          /\ completed \cap ready = {}
      BY DEF JobsApart
    <3>2. UNCHANGED <<completed, ready>>
      BY <1>1
    <3>3. /\ Range(pending) = Range(pending') \cup {Head(pending)}
          /\ Head(pending) \notin Range(pending')
      BY <1>2, <1>3
    <3> HIDE DEF IInv
    <3> QED BY <1>5, <3>1, <3>2, <3>3
  <2> QED BY <1>3, <2>1, <2>2 DEF JobsApart
<1>8. WorkersApart' /\ FlagsFollow'
  <2>1. WorkersApart'
    BY <1>1, <1>4 DEF WorkersApart, Awake
  <2>2. ~stop
    BY <1>1 DEF FlagsFollow
  <2> QED BY <1>1, <2>1, <2>2 DEF FlagsFollow
<1>9. Counted'
  <2>1. Cardinality(Running') = Cardinality(Running) + 1
    BY <1>4, PoolFinite, FS_AddElement
  <2> QED BY <1>1, <2>1 DEF Counted
<1>10. NoJobLeftAsleep'
  <2>1. Awake' = Awake \ {w}
    BY <1>1, <1>4 DEF Awake
  <2>2. Cardinality(Awake') = Cardinality(Awake) - 1 /\ Cardinality(Awake) \in Nat
    BY <1>1, <2>1, PoolFinite, FS_RemoveElement
  <2>3. UNCHANGED <<MayTake, ui, waiting>> /\ pending # <<>>
    BY <1>1 DEF MayTake
  <2>4. NoJobLeftAsleep
    OBVIOUS
  <2> HIDE DEF IInv
  <2> QED BY <1>2, <2>2, <2>3, <2>4 DEF NoJobLeftAsleep
<1> QED BY <1>6, <1>7, <1>8, <1>9, <1>10

\* A job returns: one worker more awake, one job less counted.
LEMMA FinishInv == ASSUME IInv, NEW w \in Worker, Finish(w) PROVE IInv'
<1> USE DEF IInv
<1>1. /\ w \in Running /\ active' = active - 1
      /\ running' = [v \in Running \ {w} |-> running[v]]
      /\ UNCHANGED <<pending, ready, paused, quitting, stop, waiting, exited>>
      /\ ui' = ui \/ (ui = "sleep" /\ ui' = "check")
      /\ completed' \subseteq completed \cup ({running[w]} \cap WithDone)
      /\ running[w] \in Job
  BY DEF Finish, Restrict, flagVars, Completed, WakeReset, TypeOK
<1>2. Running' = Running \ {w}
  BY <1>1 DEF Running
<1>3. Range(running') \subseteq Range(running) /\ running[w] \in Range(running)
  BY <1>1, <1>2 DEF Range, Running
<1>4. running[w] \notin Range(running')
  BY <1>1, <1>2 DEF JobsApart, Range, Running
<1>5. /\ Cardinality(Running') = Cardinality(Running) - 1
      /\ Cardinality(Running) \in Nat \ {0}
  <2>1. Running # {} /\ IsFiniteSet(Running)
    BY <1>1, PoolFinite
  <2>2. Cardinality(Running) # 0
    BY <2>1, FS_EmptySet
  <2>3. Cardinality(Running') = Cardinality(Running) - 1
    BY <1>1, <1>2, <2>1, FS_RemoveElement
  <2> QED BY <2>2, <2>3, PoolFinite
<1>6. Counted' /\ active' \in Nat
  BY <1>1, <1>5 DEF Counted
<1>7. TypeOK'
  <2>1. running' \in [Running' -> Job]
    BY <1>1, <1>2 DEF TypeOK
  <2> QED BY <1>1, <1>2, <1>6, <2>1 DEF TypeOK, Place
<1>8. JobsApart'
  <2>1. \A u, v \in Running' : running'[u] = running'[v] => u = v
    BY <1>1, <1>2 DEF JobsApart
  <2>2. /\ Range(pending') \cap (Range(running') \cup completed' \cup ready') = {}
        /\ Range(running') \cap (completed' \cup ready') = {}
        /\ completed' \cap ready' = {}
    <3>1. /\ Range(pending) \cap (Range(running) \cup completed \cup ready) = {}
          /\ Range(running) \cap (completed \cup ready) = {}
          /\ completed \cap ready = {}
      BY DEF JobsApart
    <3>2. /\ UNCHANGED <<Range(pending), ready>>
          /\ completed' \subseteq completed \cup {running[w]}
      BY <1>1
    <3> HIDE DEF IInv
    <3> QED BY <1>3, <1>4, <3>1, <3>2
  <2>3. \A x, y \in DOMAIN pending' : pending'[x] = pending'[y] => x = y
    BY <1>1 DEF JobsApart
  <2> QED BY <2>1, <2>2, <2>3 DEF JobsApart
<1>9. WorkersApart' /\ FlagsFollow'
  BY <1>1, <1>2 DEF WorkersApart, FlagsFollow, Resetting, Quitting
<1>10. NoJobLeftAsleep'
  <2>1. Awake' = Awake \cup {w} /\ w \notin Awake
    BY <1>1, <1>2 DEF Awake, WorkersApart, TypeOK
  <2>2. Cardinality(Awake') = Cardinality(Awake) + 1 /\ Cardinality(Awake) \in Nat
    BY <2>1, PoolFinite, FS_AddElement
  <2>3. /\ UNCHANGED <<MayTake, pending, waiting>>
        /\ ui' = "one" <=> ui = "one"
        /\ ui' = "all" <=> ui = "all"
    BY <1>1 DEF MayTake
  <2>4. NoJobLeftAsleep /\ Len(pending) \in Nat
    BY DEF TypeOK
  <2> HIDE DEF IInv
  <2> QED BY <2>2, <2>3, <2>4 DEF NoJobLeftAsleep
<1> QED BY <1>6, <1>7, <1>8, <1>9, <1>10

\* Every step preserves the invariant.
LEMMA IInvStep == IInv /\ [Next]_vars => IInv'
<1> SUFFICES ASSUME IInv, [Next]_vars PROVE IInv'
  OBVIOUS
<1>1. CASE Client
  BY <1>1, SubmitInv, SetPausedInv, StopInv DEF Client
<1>2. CASE DrainCompletions \/ AnyDone
  BY <1>2, DrainInv DEF AnyDone
<1>3. CASE Inside
  BY <1>3, NotifyInv, ReturnInv DEF Inside
<1>4. ASSUME NEW w \in Worker, Pool(w) PROVE IInv'
  BY <1>4, IdleInv, StartInv, FinishInv DEF Pool
<1>5. CASE UNCHANGED vars
  <2>1. UNCHANGED <<pending, completed, ready, paused, quitting, stop, active, running,
                    waiting, exited, ui>>
    BY <1>5 DEF vars, queueVars, flagVars, poolVars
  <2> QED BY <2>1 DEF IInv, TypeOK, JobsApart, WorkersApart, FlagsFollow, Counted,
          NoJobLeftAsleep, MayTake, Awake, Running, Range
<1> QED BY <1>1, <1>2, <1>3, <1>4, <1>5 DEF Next

\* The strengthening is an invariant: the theorems below take from it.
THEOREM Invariant == Spec => []IInv
BY IInvInit, IInvStep, PTL DEF Spec

\* Every variable keeps its type (WorkQueue's members).
THEOREM TypeCorrect == Spec => []TypeOK
<1>1. IInv => TypeOK
  BY DEF IInv
<1> QED BY <1>1, Invariant, PTL

\* notify_one never leaves a job behind with a worker asleep (submit, workerLoop).
THEOREM NoJobLeftAsleepHolds == Spec => []NoJobLeftAsleep
<1>1. IInv => NoJobLeftAsleep
  BY DEF IInv
<1> QED BY <1>1, Invariant, PTL

\* When reset() returns, no job is running: active_ counts them all.
THEOREM NothingOutlivesResetHolds == Spec => NothingOutlivesReset
<1>1. IInv /\ [Next]_vars => [ReturnsIdle]_vars
  <2> SUFFICES ASSUME IInv, [Next]_vars, ui \in Resetting, ui' = "run"
               PROVE  Running' = {}
    BY DEF ReturnsIdle
  <2>1. ui = "check" /\ EndReset
    <3>1. CASE Client
      BY <3>1 DEF Client, Submit, SetPaused, Reset, BeginReset, Quit, Resetting
    <3>2. CASE DrainCompletions \/ AnyDone
      BY <3>2 DEF DrainCompletions, AnyDone, Done, Resetting
    <3>3. CASE Inside
      BY <3>3 DEF Inside, Notify, NotifyOne, NotifyAll, Notified, EndReset, Join, Resetting
    <3>4. ASSUME NEW w \in Worker, Pool(w) PROVE FALSE
      BY <3>4 DEF Pool, Wait, Start, Finish, WakeReset, Exit, Resetting
    <3>5. CASE UNCHANGED vars
      BY <3>5 DEF vars, Resetting
    <3> QED BY <3>1, <3>2, <3>3, <3>4, <3>5 DEF Next
  <2>2. active = 0 /\ running' = running
    BY <2>1 DEF EndReset, CheckIdle, poolVars
  <2>3. IsFiniteSet(Running) /\ Cardinality(Running) = 0
    BY <2>2, PoolFinite DEF IInv, Counted
  <2>4. Running = {}
    BY <2>3, FS_EmptySet
  <2> QED BY <2>2, <2>4 DEF Running
<1> QED BY <1>1, Invariant, PTL DEF Spec, NothingOutlivesReset

-----------------------------------------------------------------------------
(* The refinement. *)

Phases == [j \in Job |-> PhaseOf(j)]

\* A step that moves no job but j, from one phase to another, is JobQueue's.
LEMMA MoveOne ==
    ASSUME NEW j \in Job, NEW to, PhaseOf(j)' = to,
           \A i \in Job \ {j} : PhaseOf(i)' = PhaseOf(i)
    PROVE  Phases' = [Phases EXCEPT ![j] = to]
<1>1. ASSUME NEW i \in Job PROVE PhaseOf(i)' = [Phases EXCEPT ![j] = to][i]
  BY DEF Phases
<1> QED BY <1>1 DEF Phases

\* Every step of the queue is a step of JobQueue, or leaves every phase alone.
LEMMA StepSimulated == IInv /\ IInv' /\ [Next]_vars => [Abstract!Next]_Phases
<1> SUFFICES ASSUME IInv, IInv', [Next]_vars PROVE Abstract!Next \/ UNCHANGED Phases
  OBVIOUS
<1>1. ASSUME NEW j \in Job, Submit(j) PROVE Abstract!Submit(j)
  <2>1. /\ pending \in Seq(Job) /\ pending' = Append(pending, j) /\ j \notin JobsIn
        /\ ~stop /\ ~stop'
        /\ UNCHANGED <<completed, ready, running>>
    BY <1>1 DEF Submit, IInv, TypeOK, FlagsFollow, Resetting, Quitting, flagVars, poolVars
  <2>2. Range(pending') = Range(pending) \cup {j} /\ UNCHANGED Range(running)
    BY <2>1, AppendFacts DEF Range
  <2>3. PhaseOf(j) = "idle" /\ PhaseOf(j)' = "queued"
    BY <2>1, <2>2 DEF PhaseOf, JobsIn
  <2>4. \A i \in Job \ {j} : PhaseOf(i)' = PhaseOf(i)
    BY <2>1, <2>2 DEF PhaseOf
  <2> QED BY <2>3, <2>4, MoveOne DEF Abstract!Submit, Abstract!Move, Phases
<1>2. ASSUME Reset \/ Quit PROVE Abstract!Reset
  <2>1. stop'
    BY <1>2 DEF Reset, BeginReset, Quit
  <2> QED BY <2>1 DEF Abstract!Reset, PhaseOf
<1>3. ASSUME NEW j \in Job, Done(j) PROVE Abstract!Call(j)
  <2>1. /\ ~stop /\ ~stop' /\ j \in ready /\ ready' = ready \ {j}
        /\ UNCHANGED <<pending, completed, running>>
    BY <1>3 DEF Done, IInv, FlagsFollow, Resetting, Quitting, flagVars, poolVars
  <2>2. /\ j \notin Range(pending) /\ j \notin Range(running) /\ j \notin completed
        /\ UNCHANGED <<Range(pending), Range(running)>>
    BY <2>1 DEF IInv, JobsApart, Range
  <2>3. PhaseOf(j) = "finished" /\ PhaseOf(j)' = "idle"
    BY <2>1, <2>2 DEF PhaseOf
  <2>4. \A i \in Job \ {j} : PhaseOf(i)' = PhaseOf(i)
    BY <2>1, <2>2 DEF PhaseOf
  <2> QED BY <2>3, <2>4, MoveOne DEF Abstract!Call, Abstract!Move, Phases
<1>4. ASSUME NEW w \in Worker, Start(w) PROVE \E j \in Job : Abstract!Start(j)
  <2>1. /\ pending \in Seq(Job) /\ pending # <<>> /\ pending' = Tail(pending)
        /\ w \notin Running
        /\ running' = [v \in Running \cup {w} |->
                          IF v = w THEN Head(pending) ELSE running[v]]
        /\ ~stop /\ ~stop'
        /\ UNCHANGED <<completed, ready>>
    BY <1>4 DEF Start, Awake, IInv, TypeOK, FlagsFollow, flagVars
  <2>2. PICK j \in Job : j = Head(pending)
    BY <2>1, TailFacts
  <2>3. Range(pending) = Range(pending') \cup {j} /\ j \notin Range(pending')
    BY <2>1, <2>2, TailFacts DEF IInv, JobsApart
  <2>4. Range(running') = Range(running) \cup {j}
    BY <2>1, <2>2 DEF Range, Running
  <2>5. /\ ~stop /\ ~stop' /\ completed' = completed /\ ready' = ready
        /\ j \notin Range(running) /\ j \notin completed \cup ready
    BY <2>1, <2>3 DEF IInv, JobsApart
  <2>6. PhaseOf(j) = "queued" /\ PhaseOf(j)' = "running"
    BY <2>3, <2>4, <2>5 DEF PhaseOf
  <2>7. \A i \in Job \ {j} : PhaseOf(i)' = PhaseOf(i)
    BY <2>3, <2>4, <2>5 DEF PhaseOf
  <2> QED BY <2>6, <2>7, MoveOne DEF Abstract!Start, Abstract!Move, Phases
<1>5. ASSUME NEW w \in Worker, Finish(w)
      PROVE  (\E j \in Job : Abstract!Finish(j)) \/ UNCHANGED Phases
  <2>1. /\ w \in Running /\ running' = [v \in Running \ {w} |-> running[v]]
        /\ running[w] \in Job /\ Completed(running[w])
        /\ UNCHANGED <<pending, ready, stop>>
    BY <1>5 DEF Finish, Restrict, flagVars, IInv, TypeOK
  <2>2. CASE stop
    BY <2>1, <2>2 DEF Phases, PhaseOf
  <2>3. CASE ~stop
    <3>0. PICK j \in Job : j = running[w]
      BY <2>1
    <3>1. Range(running) = Range(running') \cup {j} /\ j \notin Range(running')
      BY <2>1, <3>0 DEF IInv, JobsApart, Range, Running
    <3>2. /\ j \notin Range(pending) /\ j \notin completed \cup ready
          /\ UNCHANGED Range(pending)
      BY <2>1, <3>1 DEF IInv, JobsApart, Range
    <3>3. completed' = completed \cup ({j} \cap WithDone)
      BY <2>1, <2>3, <3>0 DEF Completed
    <3>4. /\ PhaseOf(j) = "running"
          /\ PhaseOf(j)' = IF j \in WithDone THEN "finished" ELSE "idle"
      BY <2>1, <2>3, <3>1, <3>2, <3>3 DEF PhaseOf
    <3>5. \A i \in Job \ {j} : PhaseOf(i)' = PhaseOf(i)
      BY <2>1, <2>3, <3>1, <3>2, <3>3 DEF PhaseOf
    <3> QED BY <3>4, <3>5, MoveOne DEF Abstract!Finish, Abstract!Move, Phases
  <2> QED BY <2>2, <2>3
<1>6. ASSUME EndReset PROVE UNCHANGED Phases
  <2>1. ui = "check" /\ stop /\ UNCHANGED <<pending, ready, running, quitting>>
    BY <1>6 DEF EndReset, IInv, FlagsFollow, Resetting, poolVars
  <2>2. CASE active = 0
    <3>1. pending = <<>> /\ ready = {} /\ ~stop' /\ completed' = {}
      BY <1>6, <2>1, <2>2 DEF EndReset, CheckIdle, IInv, FlagsFollow
    <3>2. Running = {}
      <4>1. IsFiniteSet(Running) /\ Cardinality(Running) = 0
        BY <2>2, PoolFinite DEF IInv, Counted
      <4> QED BY <4>1, FS_EmptySet
    <3>3. Range(pending') = {} /\ Range(running') = {} /\ completed' \cup ready' = {}
      BY <2>1, <3>1, <3>2 DEF Range, Running
    <3>4. \A j \in Job : PhaseOf(j) = "idle" /\ PhaseOf(j)' = "idle"
      BY <2>1, <3>1, <3>3 DEF PhaseOf
    <3> QED BY <3>4 DEF Phases
  <2>3. CASE active # 0
    <3>1. stop' = stop
      BY <1>6, <2>3 DEF EndReset, CheckIdle
    <3> QED BY <2>1, <3>1 DEF Phases, PhaseOf
  <2> QED BY <2>2, <2>3
<1>7. ASSUME DrainCompletions PROVE UNCHANGED Phases
  <2>1. /\ completed' \cup ready' = completed \cup ready
        /\ UNCHANGED <<pending, running, stop>>
    BY <1>7 DEF DrainCompletions, flagVars, poolVars
  <2> QED BY <2>1 DEF Phases, PhaseOf, Range
<1>8. ASSUME \/ Notify \/ Join \/ \E b \in BOOLEAN : SetPaused(b)
             \/ \E w \in Worker : Wait(w) \/ Exit(w)
             \/ UNCHANGED vars
      PROVE  UNCHANGED Phases
  <2>1. UNCHANGED <<pending, completed, ready, running, stop>>
    BY <1>8 DEF Notify, Join, SetPaused, Wait, Exit, vars, queueVars, flagVars, poolVars
  <2> QED BY <2>1 DEF Phases, PhaseOf, Range
<1>9. CASE Client
  BY <1>1, <1>2, <1>8, <1>9 DEF Client, Abstract!Next
<1>10. CASE DrainCompletions \/ AnyDone
  BY <1>3, <1>7, <1>10 DEF AnyDone, Abstract!Next
<1>11. CASE Inside
  BY <1>6, <1>8, <1>11 DEF Inside
<1>12. ASSUME NEW w \in Worker, Pool(w) PROVE Abstract!Next \/ UNCHANGED Phases
  BY <1>4, <1>5, <1>8, <1>12 DEF Pool, Abstract!Next
<1> QED BY <1>8, <1>9, <1>10, <1>11, <1>12 DEF Next

\* The queue implements JobQueue: a job runs once and its completion is called,
\* unless a reset came first; then it never is (WorkQueue::reset).
THEOREM ImplementsHolds == Spec => Implements
<1>1. Init => Abstract!Init
  <2> SUFFICES ASSUME Init PROVE Abstract!Init
    OBVIOUS
  <2>1. /\ Range(pending) = {} /\ Range(running) = {} /\ completed \cup ready = {}
        /\ ~stop
    BY DEF Init, Range
  <2>2. \A j \in Job : PhaseOf(j) = "idle"
    BY <2>1 DEF PhaseOf
  <2> QED BY <2>2 DEF Abstract!Init
<1>2. IInv /\ IInv' /\ [Next]_vars => [Abstract!Next]_Phases
  BY StepSimulated
<1> QED BY <1>1, <1>2, Invariant, PTL DEF Spec, Implements, Abstract!Spec, Phases
=============================================================================
