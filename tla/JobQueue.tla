------------------------------ MODULE JobQueue ------------------------------
(***************************************************************************)
(* What a WorkQueue promises its one client, the UI thread: a submitted    *)
(* job runs once, then its completion is called, unless a reset (or the    *)
(* queue's destruction) takes it out first, from wherever it is, and then  *)
(* its completion is never called.  Nothing is promised of the order.      *)
(*                                                                         *)
(* A Job is a slot: the client may use it again once it is idle.           *)
(***************************************************************************)
CONSTANTS
    Job,
    WithDone  \* the jobs submitted with a completion callback

VARIABLE phase

Phase == {"idle", "queued", "running", "finished"}

Init == phase = [j \in Job |-> "idle"]

Move(j, from, to) == phase[j] = from /\ phase' = [phase EXCEPT ![j] = to]

Submit(j) == Move(j, "idle", "queued")
Start(j)  == Move(j, "queued", "running")
Finish(j) == Move(j, "running", IF j \in WithDone THEN "finished" ELSE "idle")
Call(j)   == Move(j, "finished", "idle")
Reset     == phase' = [j \in Job |-> "idle"]

Next == Reset \/ \E j \in Job : Submit(j) \/ Start(j) \/ Finish(j) \/ Call(j)

Spec == Init /\ [][Next]_phase
=============================================================================
