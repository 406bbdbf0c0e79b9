---------------------------- MODULE SyncSession ----------------------------
(***************************************************************************)
(* The networking of a sync review (SyncSession.cpp): one host, its        *)
(* listener, its hostLoop thread and the peers it broadcasts to; and       *)
(* spectators, each with a socket and a recvLoop thread that queues what   *)
(* arrives for the main thread. Both ends leave() by raising a flag,       *)
(* closing the sockets under the lock and joining the thread.              *)
(*                                                                         *)
(* A step is what one thread does between two lock sections or blocking    *)
(* calls. TCP delivers what was sent in order, then the end of the stream. *)
(* Left out: the beacons and the discovery thread, a viewer's name (Hello) *)
(* and annotations, a connection cut by the network, and full socket       *)
(* buffers: a send never blocks. A broadcast goes to all peers under the   *)
(* lock, so the order in which the host lists them does not matter.        *)
(***************************************************************************)
EXTENDS Naturals, Sequences

CONSTANTS
    Spectator,   \* the machines that may join
    MaxConns,    \* bound on the connections ever made
    NoProject,   \* the empty snapshot
    Nothing,     \* no message
    CloseWakes   \* closing a socket ends a recv() already blocked on it

ASSUME SessionAssumption ==
    /\ MaxConns \in Nat \ {0}
    /\ CloseWakes \in BOOLEAN

VARIABLES
    host,   \* the host's Session: see HostType
    conn,   \* the connections, in the order they were made: see ConnType
    spec    \* spectator -> its Session: see SpecType

netVars == <<host, conn, spec>>

Conn == 1 .. MaxConns

\* The host's end of a connection waits in the listener's backlog, is open or closed.
ConnType(Msg) ==
    [host : {"backlog", "open", "closed"}, spec : {"open", "closed"}, down : Seq(Msg)]

\* leaving: the main thread is inside leave(), up to the join of its thread.
HostType(Project) ==
    [role : {"None", "Host"}, run : BOOLEAN, loop : {"off", "poll", "hand"},
     joiner : Conn \cup {0}, snap : Project \cup {NoProject}, peers : SUBSET Conn,
     snapshot : Project \cup {NoProject}, leaving : BOOLEAN]

SpecType(Msg) ==
    [role : {"None", "Spectator"}, conn : Conn \cup {0}, run : BOOLEAN,
     recv : {"off", "recv", "push"}, hand : Msg \cup {Nothing},
     inbound : Seq([from : Conn, msg : Msg]), lost : BOOLEAN, leaving : BOOLEAN]

NetInit ==
    /\ host = [role |-> "None", run |-> FALSE, loop |-> "off", joiner |-> 0,
               snap |-> NoProject, peers |-> {}, snapshot |-> NoProject,
               leaving |-> FALSE]
    /\ conn = <<>>
    /\ spec = [s \in Spectator |->
                 [role |-> "None", conn |-> 0, run |-> FALSE, recv |-> "off",
                  hand |-> Nothing, inbound |-> <<>>, lost |-> FALSE, leaving |-> FALSE]]

Peers == host.peers
Free(actor) == ~actor.leaving  \* its main thread may do something else than leave

\* The listening socket is open.
Listening == host.role = "Host" /\ ~host.leaving

\* The spectator's end is gone: closed, and no recv() still holds the socket.
Gone(c) ==
    /\ conn[c].spec = "closed"
    /\ \A s \in Spectator : spec[s].conn = c /\ spec[s].recv = "recv" => CloseWakes

\* conn once the host has closed its end of the connections C.
HostCloses(C) == [c \in DOMAIN conn |->
                    IF c \in C THEN [conn[c] EXCEPT !.host = "closed"] ELSE conn[c]]

----------------------------------------------------------------------------
(* The host's main thread.                                                 *)

\* startHost(): it leaves first, which closes the peers a finished session left behind.
StartHost ==
    /\ host.role = "None" /\ Free(host)
    /\ conn' = HostCloses(Peers)
    /\ host' = [host EXCEPT !.role = "Host", !.run = TRUE, !.loop = "poll", !.peers = {}]
    /\ UNCHANGED spec

\* setProjectSnapshot().
SetProjectSnapshot(project) ==
    /\ host' = [host EXCEPT !.snapshot = project]
    /\ UNCHANGED <<conn, spec>>

\* The peers whose send fails: their spectator is gone, and the system knows it.
MayFail == SUBSET {c \in Peers : Gone(c)}

\* Mutant: dropping a peer skips the one after it.
SentSkipping(m, failed) == [c \in DOMAIN conn |->
    IF c \in failed THEN [conn[c] EXCEPT !.host = "closed"]
    ELSE IF /\ c \in Peers /\ ~Gone(c)
            /\ \A d \in failed : d < c => \E p \in Peers : d < p /\ p < c
         THEN [conn[c] EXCEPT !.down = Append(@, m)] ELSE conn[c]]

\* conn once m was sent to every peer but those in failed, which are closed; what is
\* sent to a socket that is gone goes nowhere.
Sent(m, failed) == [c \in DOMAIN conn |->
    CASE c \in failed                      -> [conn[c] EXCEPT !.host = "closed"]
      [] c \in Peers \ failed /\ ~Gone(c)  -> [conn[c] EXCEPT !.down = Append(@, m)]
      [] OTHER                             -> conn[c]]

\* broadcast(): under the lock, to every peer; those that fail are dropped.
Broadcast(m) ==
    \E failed \in MayFail :
       /\ conn' = Sent(m, failed)
       /\ host' = [host EXCEPT !.peers = @ \ failed]
       /\ UNCHANGED spec

\* leave(): the flag is lowered and the sockets are closed under the lock, with them
\* those nobody has accepted.
HostLeave ==
    /\ host.role = "Host" /\ Free(host)
    /\ conn' = HostCloses(Peers \cup {c \in DOMAIN conn : conn[c].host = "backlog"})
    /\ host' = [host EXCEPT !.run = FALSE, !.peers = {}, !.leaving = TRUE]
    /\ UNCHANGED spec

\* leave(): the thread is joined, then the rest is reset.
HostLeaveJoin ==
    /\ host.leaving /\ host.loop = "off"
    /\ host' = [host EXCEPT !.role = "None", !.snapshot = NoProject, !.leaving = FALSE]
    /\ UNCHANGED <<conn, spec>>

----------------------------------------------------------------------------
(* hostLoop(): polls the listener and the peers, for a second at most.      *)

NextRound == IF host.run THEN "poll" ELSE "off"

\* poll() returns for anything readable: it times out only when nothing is.
PollTimeout ==
    /\ host.loop = "poll"
    /\ \A c \in Peers : ~Gone(c)
    /\ Listening => \A c \in DOMAIN conn : conn[c].host # "backlog"
    /\ host' = [host EXCEPT !.loop = NextRound]
    /\ UNCHANGED <<conn, spec>>

\* Mutant: the joiner is a peer before it was sent the snapshot.
AcceptAsPeer(c) ==
    /\ host.loop = "poll" /\ Listening /\ c \in DOMAIN conn /\ conn[c].host = "backlog"
    /\ conn' = [conn EXCEPT ![c].host = "open"]
    /\ host' = [host EXCEPT !.loop = "hand", !.joiner = c, !.snap = host.snapshot,
                            !.peers = @ \cup {c}]
    /\ UNCHANGED spec

\* A connection is accepted and the snapshot for it copied under the lock.
Accept(c) ==
    /\ host.loop = "poll" /\ Listening
    /\ c \in DOMAIN conn /\ conn[c].host = "backlog"
    /\ conn' = [conn EXCEPT ![c].host = "open"]
    /\ host' = [host EXCEPT !.loop = "hand", !.joiner = c, !.snap = host.snapshot]
    /\ UNCHANGED spec

\* The snapshot is sent, without the lock, and only then is the joiner made a peer.
AddPeer ==
    /\ host.loop = "hand"
    /\ LET c == host.joiner
       IN \/ /\ conn' = IF host.snap = NoProject \/ Gone(c) THEN conn
                        ELSE [conn EXCEPT ![c].down = Append(@, host.snap)]
             /\ host' = [host EXCEPT !.peers = @ \cup {c}, !.loop = NextRound,
                                     !.joiner = 0, !.snap = NoProject]
          \/ /\ host.snap # NoProject /\ Gone(c)  \* the send fails
             /\ conn' = HostCloses({c})
             /\ host' = [host EXCEPT !.loop = NextRound, !.joiner = 0, !.snap = NoProject]
    /\ UNCHANGED spec

\* A peer that polled readable turns out to have closed: it is dropped.
Reap(c) ==
    /\ host.loop = "poll" /\ c \in Peers /\ Gone(c)
    /\ conn' = HostCloses({c})
    /\ host' = [host EXCEPT !.peers = @ \ {c}, !.loop = NextRound]
    /\ UNCHANGED spec

HostLoop == PollTimeout \/ AddPeer \/ \E c \in Conn : Accept(c) \/ Reap(c)

----------------------------------------------------------------------------
(* A spectator.                                                            *)

Mine(s) == conn[spec[s].conn]

\* join(): the listener's backlog takes the connection; the receiver thread starts.
Join(s) ==
    /\ spec[s].role = "None" /\ Free(spec[s])
    /\ Listening /\ Len(conn) < MaxConns
    /\ conn' = Append(conn, [host |-> "backlog", spec |-> "open", down |-> <<>>])
    /\ spec' = [spec EXCEPT ![s].role = "Spectator", ![s].conn = Len(conn) + 1,
                            ![s].run = TRUE, ![s].recv = "recv", ![s].lost = FALSE]
    /\ UNCHANGED host

\* conn once the spectator's socket is closed; a recv() that goes on keeps its data.
CloseNothing(c) == conn  \* mutant: the thread is joined with its socket open
CloseSocket(c) == [conn EXCEPT ![c].spec = "closed",
                               ![c].down = IF CloseWakes THEN <<>> ELSE @]

\* leave(), in the same two steps as the host's.
SpecLeave(s) ==
    /\ spec[s].role = "Spectator" /\ Free(spec[s])
    /\ conn' = CloseSocket(spec[s].conn)
    /\ spec' = [spec EXCEPT ![s].run = FALSE, ![s].leaving = TRUE]
    /\ UNCHANGED host

InboundKept(s) == spec[s].inbound  \* mutant
InboundCleared(s) == <<>>

SpecLeaveJoin(s) ==
    /\ spec[s].leaving /\ spec[s].recv = "off"
    /\ spec' = [spec EXCEPT ![s].role = "None", ![s].inbound = InboundCleared(s),
                            ![s].lost = FALSE, ![s].conn = 0, ![s].leaving = FALSE]
    /\ UNCHANGED <<host, conn>>

\* recvLoop(), waiting in recv(): where closing the socket does not wake it, it goes on.
Waits(s) == spec[s].recv = "recv" /\ (Mine(s).spec = "open" \/ ~CloseWakes)

RecvData(s) ==
    /\ Waits(s) /\ Mine(s).down # <<>>
    /\ conn' = [conn EXCEPT ![spec[s].conn].down = Tail(@)]
    /\ spec' = [spec EXCEPT ![s].recv = "push", ![s].hand = Head(Mine(s).down)]
    /\ UNCHANGED host

\* If nobody asked the receiver thread to end, the host was lost.
NeverLatched(s) == FALSE  \* mutant
Latched(s) == spec[s].run

\* The stream ends, or the socket is gone.
RecvEnd(s) ==
    /\ spec[s].recv = "recv"
    /\ Waits(s) => Mine(s).down = <<>> /\ Mine(s).host = "closed"
    /\ spec' = [spec EXCEPT ![s].recv = "off", ![s].lost = Latched(s)]
    /\ UNCHANGED <<host, conn>>

\* What was received is queued under the lock, and the loop's condition read again.
RecvPush(s) ==
    /\ spec[s].recv = "push"
    /\ spec' = [spec EXCEPT ![s].recv = IF spec[s].run THEN "recv" ELSE "off",
                   ![s].hand = Nothing,
                   ![s].inbound = Append(@, [from |-> spec[s].conn, msg |-> spec[s].hand])]
    /\ UNCHANGED <<host, conn>>

RecvLoop(s) == RecvData(s) \/ RecvEnd(s) \/ RecvPush(s)

\* drain(): what the main thread takes.
Drain(s) ==
    /\ spec' = [spec EXCEPT ![s].inbound = <<>>]
    /\ UNCHANGED <<host, conn>>

============================================================================
