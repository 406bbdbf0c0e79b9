----------------------------- MODULE SyncReview -----------------------------
(***************************************************************************)
(* A sync review as the applications run it (App_Sync.cpp) over            *)
(* SyncSession: once a frame the host's main thread broadcasts what        *)
(* changed since it last sent it (broadcastHostState), and a spectator's   *)
(* applies what has arrived (drainSync).                                   *)
(*                                                                         *)
(* The host's state is the revision of its project and the framing of its  *)
(* frame, zoom and pan. The pan is in pixels of a player, so it travels as *)
(* an image point, which a spectator can place only on a frame it has. A   *)
(* broadcast takes the lock for itself, so a tick is a list of sends       *)
(* (outbox) the network may interleave with.                               *)
(*                                                                         *)
(* Left out: the sequence, transport, matte and exposure diffs, which are  *)
(* compared and sent beside the framing in the same way and applied whole  *)
(* as its zoom is; annotations; a project that fails to load; frames and   *)
(* windows that change their shape, after which the same pan in pixels is  *)
(* another point. A spectator's own user cannot zoom or pan                *)
(* (transportLocked).                                                      *)
(***************************************************************************)
EXTENDS SyncSession, FiniteSets

CONSTANTS
    Zooms,      \* values of the zoom, 1 being the whole image
    Points,     \* image points that may be at the centre of the player
    Centre,     \* the image's own centre
    NeverSent,  \* no framing: whatever there is differs from what was sent
    MaxOps      \* bound on what the host's user does

Framing == [zoom : Zooms, point : Points]

ASSUME ReviewAssumption ==
    /\ 1 \in Zooms /\ Centre \in Points /\ MaxOps \in Nat
    /\ NeverSent \notin Framing

VARIABLES
    app,      \* the host's state
    dirty,    \* hostSnapshotDirty_
    sent,     \* lastSent*_ (the framing) and lastPeerCount_
    outbox,   \* what is left of the tick's sends
    view,     \* spectator -> what it shows
    blind,    \* history: spectator -> no frame was there for the last view it applied
    reached,  \* history: connection -> the kinds of message broadcast to it
    ops       \* how often the host's user did something

appVars == <<app, dirty, sent, outbox, reached, ops>>
shown == <<view, blind>>
vars == <<netVars, appVars, shown>>

App == [doc : 0 .. MaxOps, framing : Framing]
Project == [kind : {"Project"}, doc : 0 .. MaxOps]
Msg == Project \cup [kind : {"View"}, framing : Framing]

\* What the main thread has to do: store a snapshot, broadcast, count the peers.
Task == [do : {"store"}, msg : Project] \cup [do : {"send"}, msg : Msg]
        \cup [do : {"count"}]

TypeOK ==
    /\ host \in HostType(Project)
    /\ conn \in Seq(ConnType(Msg)) /\ Len(conn) <= MaxConns
    /\ spec \in [Spectator -> SpecType(Msg)]
    /\ app \in App /\ view \in [Spectator -> App] /\ blind \in [Spectator -> BOOLEAN]
    /\ dirty \in BOOLEAN /\ ops \in 0 .. MaxOps
    /\ sent \in [framing : Framing \cup {NeverSent}, peers : 0 .. MaxConns]
    /\ outbox \in Seq(Task)
    /\ reached \in [Conn -> SUBSET {"Project", "View"}]

\* Nothing edited, and the whole image in the player.
Idle == [doc |-> 0, framing |-> [zoom |-> 1, point |-> Centre]]

Init ==
    /\ NetInit
    /\ app = Idle /\ view = [s \in Spectator |-> Idle]
    /\ blind = [s \in Spectator |-> FALSE]
    /\ dirty = FALSE /\ ops = 0 /\ outbox = <<>>
    /\ sent = [framing |-> NeverSent, peers |-> 0]
    /\ reached = [c \in Conn |-> {}]

----------------------------------------------------------------------------
(* The host.                                                               *)

\* The host's main thread is between two ticks.
Ready == outbox = <<>> /\ Free(host)

SaveBuffer(a) == [kind |-> "Project", doc |-> a.doc]

\* refreshHostSnapshot(): the project is serialized, stored and broadcast.
Refresh(a) == <<[do |-> "store", msg |-> SaveBuffer(a)], [do |-> "send", msg |-> SaveBuffer(a)]>>

\* "Create Session": the host's state counts as sent.
CreateSession ==
    /\ Ready /\ ops < MaxOps /\ ops' = ops + 1
    /\ StartHost
    /\ outbox' = Refresh(app)
    /\ sent' = [framing |-> app.framing, peers |-> 0]
    /\ dirty' = FALSE
    /\ UNCHANGED <<app, shown, reached>>

\* The host's framings (frameViewCenter): the whole image is centred.
HostFraming == {f \in Framing : f.zoom = 1 => f.point = Centre}

\* The user edits the project, loads another, which is sent at once, or zooms or pans.
UserActs ==
    /\ Ready /\ ops < MaxOps /\ ops' = ops + 1
    /\ \/ /\ app' = [app EXCEPT !.doc = ops + 1]
          /\ dirty' = TRUE /\ UNCHANGED outbox
       \/ /\ app' = [app EXCEPT !.doc = ops + 1]
          /\ outbox' = IF host.role = "Host" THEN Refresh(app') ELSE <<>>
          /\ UNCHANGED dirty
       \/ /\ \E f \in HostFraming \ {app.framing} : app' = [app EXCEPT !.framing = f]
          /\ UNCHANGED <<dirty, outbox>>
    /\ UNCHANGED <<netVars, sent, shown, reached>>

\* broadcastHostState(): the project first, the framing after the peers are counted.
Tick ==
    /\ Ready /\ host.role = "Host"
    /\ outbox' = (IF dirty THEN Refresh(app) ELSE <<>>) \o <<[do |-> "count"]>>
    /\ dirty' = FALSE
    /\ UNCHANGED <<netVars, app, sent, shown, reached, ops>>

Store ==
    /\ outbox # <<>> /\ Head(outbox).do = "store"
    /\ SetProjectSnapshot(Head(outbox).msg)
    /\ outbox' = Tail(outbox)
    /\ UNCHANGED <<app, dirty, sent, shown, reached, ops>>

Send ==
    /\ outbox # <<>> /\ Head(outbox).do = "send"
    /\ Broadcast(Head(outbox).msg)
    /\ reached' = [c \in Conn |-> IF c \in host'.peers
                                  THEN reached[c] \cup {Head(outbox).msg.kind}
                                  ELSE {}]
    /\ outbox' = Tail(outbox)
    /\ UNCHANGED <<app, dirty, sent, shown, ops>>

\* Mutant: what is sent is what was sent last, after it was reset to force a send.
ForcedView == IF Cardinality(Peers) > sent.peers THEN NeverSent ELSE sent.framing
ViewToSend == app.framing

\* More peers than last time: the framing is sent even if it has not changed.
CountPeers ==
    /\ outbox # <<>> /\ Head(outbox).do = "count"
    /\ LET last == IF Cardinality(Peers) > sent.peers THEN NeverSent ELSE sent.framing
       IN outbox' = IF last = app.framing THEN <<>>
                    ELSE <<[do |-> "send", msg |-> [kind |-> "View", framing |-> ViewToSend]]>>
    /\ sent' = [sent EXCEPT !.framing = app.framing, !.peers = Cardinality(Peers)]
    /\ UNCHANGED <<netVars, app, dirty, shown, reached, ops>>

\* leaveSession(), "End Session": the tracking is reset with the session.
EndSession ==
    /\ Ready /\ HostLeave
    /\ UNCHANGED <<appVars, shown>>

HostEnded ==
    /\ HostLeaveJoin
    /\ sent' = [framing |-> NeverSent, peers |-> 0]
    /\ UNCHANGED <<app, dirty, outbox, shown, reached, ops>>

HostThread == HostLoop /\ UNCHANGED <<appVars, shown>>

----------------------------------------------------------------------------
(* A spectator.                                                            *)

\* applyFrameView(): the zoom is set; the pan needs the size of the frame in the player
\* (texW_, texH_), and without one the image stays centred.
Placed(f, onFrame) == IF onFrame THEN f ELSE [f EXCEPT !.point = Centre]

\* What a spectator that shows v shows once it has applied the messages q in order, with
\* a frame in its player or not: of each kind the last one stays.
LastOf(q, kind) == CHOOSE i \in DOMAIN q :
    q[i].kind = kind /\ \A j \in DOMAIN q : q[j].kind = kind => j <= i
Has(q, kind) == \E i \in DOMAIN q : q[i].kind = kind
Applied(v, q, onFrame) ==
    [doc     |-> IF Has(q, "Project") THEN q[LastOf(q, "Project")].doc ELSE v.doc,
     framing |-> IF Has(q, "View") THEN Placed(q[LastOf(q, "View")].framing, onFrame)
                 ELSE v.framing]

Queued(s) == [i \in DOMAIN spec[s].inbound |-> spec[s].inbound[i].msg]

JoinSession(s) == Join(s) /\ UNCHANGED <<appVars, shown>>

\* drainSync() on a queue. Whether there is a frame by now is open: the first one may be
\* decoded at any time, and a display with another range takes it away (rebuildRenderer_).
ApplyQueued(s) ==
    /\ spec[s].inbound # <<>>
    /\ Drain(s)
    /\ \E onFrame \in BOOLEAN :
          /\ view' = [view EXCEPT ![s] = Applied(@, Queued(s), onFrame)]
          /\ blind' = [blind EXCEPT ![s] = IF Has(Queued(s), "View") THEN ~onFrame ELSE @]

\* drainSync(): a lost host is left before anything else is applied.
DrainSync(s) ==
    /\ spec[s].role = "Spectator" /\ Free(spec[s])
    /\ IF spec[s].lost THEN SpecLeave(s) /\ UNCHANGED shown ELSE ApplyQueued(s)
    /\ UNCHANGED appVars

\* "Leave Session".
LeaveSession(s) == SpecLeave(s) /\ UNCHANGED <<appVars, shown>>

SpecEnded(s) == SpecLeaveJoin(s) /\ UNCHANGED <<appVars, shown>>

SpecThread(s) == RecvLoop(s) /\ UNCHANGED <<appVars, shown>>

----------------------------------------------------------------------------
HostMain == Store \/ Send \/ CountPeers \/ HostEnded
SpecMain(s) == DrainSync(s) \/ SpecEnded(s)

Next ==
    \/ CreateSession \/ UserActs \/ Tick \/ EndSession \/ HostMain \/ HostThread
    \/ \E s \in Spectator : JoinSession(s) \/ LeaveSession(s) \/ SpecMain(s) \/ SpecThread(s)

\* The threads and the main loops keep running; nothing says a user acts or ticks.
Fairness ==
    /\ WF_vars(HostMain) /\ WF_vars(HostThread)
    /\ \A s \in Spectator : WF_vars(SpecMain(s)) /\ WF_vars(SpecThread(s))

Spec == Init /\ [][Next]_vars /\ Fairness

----------------------------------------------------------------------------
(* Properties.                                                             *)

\* What a spectator has received and not applied yet is of the session it is in: a
\* receiver thread that ends late leaves nothing behind for the next session, or for
\* none (leave() clears the queue after it joined the thread).
OldSessionSilent ==
    \A s \in Spectator : \A i \in DOMAIN spec[s].inbound :
        spec[s].inbound[i].from = spec[s].conn

\* All that was sent to spectator s has been applied.
Drained(s) ==
    /\ spec[s].role = "Spectator" /\ Free(spec[s]) /\ ~spec[s].lost
    /\ spec[s].inbound = <<>> /\ spec[s].recv # "push" /\ Mine(s).down = <<>>

\* A peer shows the latest project and framing, of those it was sent since it joined, once
\* it has applied everything, whichever peers were dropped by the same broadcasts. The one
\* exception is the pan of a view applied when there was no frame: it is lost, the zoom
\* is not, and the host does not send it again (applyFrameView, App_Player.cpp:565).
PeersCurrent ==
    \A s \in Spectator :
        (Drained(s) /\ outbox = <<>> /\ spec[s].conn \in Peers) =>
            /\ "Project" \in reached[spec[s].conn] => view[s].doc = host.snapshot.doc
            /\ "View" \in reached[spec[s].conn] =>
                  view[s].framing = Placed(sent.framing, ~blind[s])

\* A spectator never goes back to an older project: the snapshot a joiner is handed,
\* sent without the lock, cannot arrive after a newer project that was broadcast.
ProjectNeverOlder == [][\A s \in Spectator : view'[s].doc >= view[s].doc]_vars

\* leave() returns, for the host and for a spectator, whatever the other end does:
\* closing the sockets ends the threads it then joins.
LeaveReturns ==
    /\ ~Free(host) ~> Free(host)
    /\ \A s \in Spectator : ~Free(spec[s]) ~> Free(spec[s])

\* A spectator whose connection the host closed (the session ended, or a send to it
\* failed) falls back to free viewing by itself.
HostDropSeen ==
    \A s \in Spectator :
        (spec[s].role = "Spectator" /\ Mine(s).host = "closed") ~> spec[s].role = "None"

============================================================================
