--------------------------- MODULE SyncNetProofs ---------------------------
(***************************************************************************)
(* What SyncReview's network keeps, proved for every number of spectators, *)
(* connections and changes, and whether or not closing a socket wakes its  *)
(* reader: the types (TypeCorrect), that nothing of an old session reaches *)
(* a new one (OldSessionSilentHolds), that each spectator has a connection *)
(* of its own (Wired), and that a connection no peer has yet carries       *)
(* nothing (Joining). SyncReviewProofs builds on the last two.             *)
(*                                                                         *)
(* Types alone are not inductive: that what the receiver thread takes is a *)
(* message needs that it runs only in a session, over a connection that is *)
(* there (Sound).                                                          *)
(***************************************************************************)
EXTENDS SyncReview, Induction, SequenceTheorems, FiniteSetTheorems

----------------------------------------------------------------------------
(* What is applied.                                                        *)

\* There is a newest message of a kind if there is one at all.
LEMMA NewestExists ==
    ASSUME NEW q \in Seq(Msg), NEW k, Has(q, k)
    PROVE  /\ LastOf(q, k) \in DOMAIN q /\ q[LastOf(q, k)].kind = k
           /\ \A j \in DOMAIN q : q[j].kind = k => j <= LastOf(q, k)
<1> DEFINE S == {n \in Nat : n <= Len(q) /\ Len(q) - n \in DOMAIN q /\ q[Len(q) - n].kind = k}
<1>0. Len(q) \in Nat /\ DOMAIN q = 1 .. Len(q)
  OBVIOUS
<1>1. PICK i \in DOMAIN q : q[i].kind = k
  BY DEF Has
<1>2. Len(q) - i \in S /\ Len(q) - (Len(q) - i) = i
  BY <1>0, <1>1
<1>3. PICK n \in S : \A y \in S : n <= y
  BY <1>2, LeastNat
<1>4. \A j \in DOMAIN q : q[j].kind = k => Len(q) - j \in S
  <2> SUFFICES ASSUME NEW j \in DOMAIN q, q[j].kind = k PROVE Len(q) - j \in S
    OBVIOUS
  <2>1. Len(q) - j \in Nat /\ Len(q) - (Len(q) - j) = j /\ Len(q) - j <= Len(q)
    BY <1>0
  <2> QED BY <2>1
<1>5. \A j \in DOMAIN q : q[j].kind = k => j <= Len(q) - n
  <2> SUFFICES ASSUME NEW j \in DOMAIN q, q[j].kind = k PROVE j <= Len(q) - n
    OBVIOUS
  <2>1. n <= Len(q) - j
    BY <1>3, <1>4
  <2>2. n \in Nat
    BY <1>3
  <2> HIDE DEF S
  <2> QED BY <1>0, <2>1, <2>2
<1>6. \E l \in DOMAIN q : q[l].kind = k /\ \A j \in DOMAIN q : q[j].kind = k => j <= l
  BY <1>0, <1>3, <1>5
<1> QED BY <1>6 DEF LastOf

----------------------------------------------------------------------------
(* Types of the network.                                                   *)

Host == HostType(Project)
Link == ConnType(Msg)
Viewer == SpecType(Msg)
IsConns(f) == f \in Seq(Link) /\ Len(f) <= MaxConns

\* A spectator's Session: with a session it has one of the connections C, over which all
\* that is queued came; without one it has no receiver thread and nothing queued.
Sound(r, C) ==
    /\ r.role = "Spectator" => r.conn \in C
    /\ r.role = "None" => r.inbound = <<>> /\ r.recv = "off" /\ ~r.leaving
    /\ r.recv = "push" => r.hand \in Msg
    /\ \A i \in DOMAIN r.inbound : r.inbound[i].from = r.conn

NetTyped == /\ host \in Host /\ IsConns(conn) /\ spec \in [Spectator -> Viewer]
            /\ host.loop = "hand" => host.joiner \in DOMAIN conn
            /\ \A s \in Spectator : Sound(spec[s], DOMAIN conn)

\* The connections there are are numbered as Conn is.
LEMMA ConnsInConn == IsConns(conn) => DOMAIN conn \subseteq Conn
BY SessionAssumption DEF Conn, IsConns

\* Each is a connection.
LEMMA LinkOf == ASSUME IsConns(conn), NEW c \in DOMAIN conn PROVE conn[c] \in Link
BY DEF IsConns

\* A function on the connections there are that gives connections.
LEMMA SameConns ==
    ASSUME IsConns(conn), NEW f, f = [c \in DOMAIN conn |-> f[c]],
           \A c \in DOMAIN conn : f[c] \in Link
    PROVE  IsConns(f) /\ DOMAIN f = DOMAIN conn
<1>1. Len(conn) \in Nat /\ DOMAIN conn = 1 .. Len(conn)
  BY DEF IsConns
<1>2. f \in Seq(Link)
  BY <1>1, IsASeq
<1> QED BY <1>1, <1>2 DEF IsConns

\* What the steps do to a connection leaves it one.
LEMMA LinkUpdates ==
    ASSUME NEW l \in Link
    PROVE  /\ \A h \in {"backlog", "open", "closed"} : [l EXCEPT !.host = h] \in Link
           /\ \A q \in Seq(Msg) : [l EXCEPT !.down = q] \in Link
           /\ \A q \in Seq(Msg) : [l EXCEPT !.spec = "closed", !.down = q] \in Link
           /\ l.down \in Seq(Msg)
BY DEF Link, ConnType

\* A broadcast leaves connections.
LEMMA SentTyped ==
    ASSUME IsConns(conn), NEW m \in Msg, NEW F
    PROVE  IsConns(Sent(m, F)) /\ DOMAIN Sent(m, F) = DOMAIN conn
<1>1. ASSUME NEW c \in DOMAIN conn PROVE Sent(m, F)[c] \in Link
  <2>1. conn[c] \in Link
    BY LinkOf
  <2>2. [conn[c] EXCEPT !.host = "closed"] \in Link
    BY <2>1, LinkUpdates
  <2>3. [conn[c] EXCEPT !.down = Append(conn[c].down, m)] \in Link
    <3>1. conn[c].down \in Seq(Msg)
      BY <2>1, LinkUpdates
    <3>2. Append(conn[c].down, m) \in Seq(Msg)
      BY <3>1
    <3> QED BY <2>1, <3>2, LinkUpdates
  <2>4. \/ Sent(m, F)[c] = [conn[c] EXCEPT !.host = "closed"]
        \/ Sent(m, F)[c] = [conn[c] EXCEPT !.down = Append(conn[c].down, m)]
        \/ Sent(m, F)[c] = conn[c]
    BY DEF Sent
  <2> QED BY <2>1, <2>2, <2>3, <2>4
<1>2. Sent(m, F) = [c \in DOMAIN conn |-> Sent(m, F)[c]]
  BY DEF Sent
<1> HIDE DEF Sent
<1> QED BY <1>1, <1>2, SameConns

\* So does closing the host's ends.
LEMMA ClosesTyped ==
    ASSUME IsConns(conn), NEW C
    PROVE  IsConns(HostCloses(C)) /\ DOMAIN HostCloses(C) = DOMAIN conn
<1>1. \A c \in DOMAIN conn : HostCloses(C)[c] \in Link
  BY LinkOf, LinkUpdates DEF HostCloses
<1>2. HostCloses(C) = [c \in DOMAIN conn |-> HostCloses(C)[c]]
  BY DEF HostCloses
<1> QED BY <1>1, <1>2, SameConns

\* One connection changes.
LEMMA OneTyped ==
    ASSUME IsConns(conn), NEW c, NEW l \in Link, NEW f, f = [conn EXCEPT ![c] = l]
    PROVE  IsConns(f) /\ DOMAIN f = DOMAIN conn
<1>1. f = [d \in DOMAIN conn |-> f[d]] /\ \A d \in DOMAIN conn : f[d] \in Link
  BY LinkOf
<1> QED BY <1>1, SameConns

\* The steps of the host's main thread,
LEMMA HostMainTyped ==
    ASSUME NetTyped, \/ StartHost \/ HostLeave \/ HostLeaveJoin
                     \/ \E p \in Project : SetProjectSnapshot(p)
                     \/ \E m \in Msg : Broadcast(m)
    PROVE  NetTyped'
<1> USE DEF NetTyped
<1>1. CASE StartHost
  <2>1. host' \in Host /\ spec' = spec /\ host'.loop = "poll"
    BY <1>1 DEF StartHost, Host, HostType
  <2>2. IsConns(conn') /\ DOMAIN conn' = DOMAIN conn
    BY <1>1, ClosesTyped DEF StartHost
  <2> QED BY <2>1, <2>2
<1>2. CASE HostLeave
  <2>1. host' \in Host /\ spec' = spec /\ host'.loop = host.loop /\ host'.joiner = host.joiner
    BY <1>2 DEF HostLeave, Host, HostType
  <2>2. IsConns(conn') /\ DOMAIN conn' = DOMAIN conn
    BY <1>2, ClosesTyped DEF HostLeave
  <2> QED BY <2>1, <2>2
<1>3. CASE HostLeaveJoin
  BY <1>3 DEF HostLeaveJoin, Host, HostType
<1>4. ASSUME NEW p \in Project, SetProjectSnapshot(p) PROVE NetTyped'
  BY <1>4 DEF SetProjectSnapshot, Host, HostType
<1>5. ASSUME NEW m \in Msg, Broadcast(m) PROVE NetTyped'
  <2>1. PICK failed \in MayFail : /\ conn' = Sent(m, failed)
                                  /\ host' = [host EXCEPT !.peers = @ \ failed]
                                  /\ spec' = spec
    BY <1>5 DEF Broadcast
  <2>2. host' \in Host /\ host'.loop = host.loop /\ host'.joiner = host.joiner
    BY <2>1 DEF Host, HostType
  <2>3. IsConns(conn') /\ DOMAIN conn' = DOMAIN conn
    BY <2>1, SentTyped
  <2> QED BY <2>1, <2>2, <2>3
<1> QED BY <1>1, <1>2, <1>3, <1>4, <1>5

\* of its hostLoop thread,
LEMMA HostLoopTyped == ASSUME NetTyped, HostLoop PROVE NetTyped'
<1> USE DEF NetTyped
<1>1. CASE PollTimeout
  BY <1>1 DEF PollTimeout, NextRound, Host, HostType
<1>2. CASE AddPeer
  <2> DEFINE c == host.joiner
  <2>1. spec' = spec /\ c \in DOMAIN conn /\ c \in Conn /\ host.snap \in Project \cup {NoProject}
    BY <1>2, ConnsInConn DEF AddPeer, Host, HostType
  <2>2. host' \in Host /\ host'.loop # "hand"
    <3>1. NextRound \in {"poll", "off"}
      BY DEF NextRound
    <3>2. \/ host' = [host EXCEPT !.peers = @ \cup {c}, !.loop = NextRound,
                                  !.joiner = 0, !.snap = NoProject]
          \/ host' = [host EXCEPT !.loop = NextRound, !.joiner = 0, !.snap = NoProject]
      BY <1>2 DEF AddPeer
    <3>3. host.peers \cup {c} \in SUBSET Conn
      BY <2>1 DEF Host, HostType
    <3> HIDE DEF c, NextRound
    <3>4. CASE host' = [host EXCEPT !.peers = @ \cup {c}, !.loop = NextRound,
                                    !.joiner = 0, !.snap = NoProject]
      BY <3>1, <3>3, <3>4 DEF Host, HostType
    <3>5. CASE host' = [host EXCEPT !.loop = NextRound, !.joiner = 0, !.snap = NoProject]
      BY <3>1, <3>5 DEF Host, HostType
    <3> QED BY <3>2, <3>4, <3>5
  <2>3. CASE conn' = [conn EXCEPT ![c].down = Append(@, host.snap)] /\ host.snap \in Project
    <3> DEFINE l == [conn[c] EXCEPT !.down = Append(conn[c].down, host.snap)]
    <3>0. conn[c] \in Link
      BY <2>1, LinkOf
    <3>d. conn[c].down \in Seq(Msg) /\ host.snap \in Msg
      BY <3>0, <2>3, LinkUpdates DEF Msg
    <3>1. Append(conn[c].down, host.snap) \in Seq(Msg)
      BY <3>d
    <3>2. l \in Link
      BY <3>0, <3>1, LinkUpdates
    <3>3. conn' = [conn EXCEPT ![c] = l]
      BY <2>3
    <3> HIDE DEF l, c
    <3>4. IsConns(conn') /\ DOMAIN conn' = DOMAIN conn
      BY <3>2, <3>3, OneTyped
    <3> QED BY <2>1, <2>2, <3>4
  <2>4. CASE conn' = conn \/ conn' = HostCloses({c})
    <3>1. IsConns(conn') /\ DOMAIN conn' = DOMAIN conn
      BY <2>4, ClosesTyped
    <3> QED BY <2>1, <2>2, <3>1
  <2>5. \/ conn' = [conn EXCEPT ![c].down = Append(@, host.snap)] /\ host.snap # NoProject
        \/ conn' = conn \/ conn' = HostCloses({c})
    BY <1>2 DEF AddPeer
  <2> HIDE DEF c
  <2> QED BY <2>1, <2>3, <2>4, <2>5
<1>3. ASSUME NEW c \in Conn, Accept(c) PROVE NetTyped'
  <2> DEFINE l == [conn[c] EXCEPT !.host = "open"]
  <2>1. host' \in Host /\ spec' = spec /\ host'.joiner = c
    BY <1>3 DEF Accept, Host, HostType
  <2>2. c \in DOMAIN conn /\ conn' = [conn EXCEPT ![c] = l]
    BY <1>3 DEF Accept
  <2>3. l \in Link
    BY <2>2, LinkOf, LinkUpdates
  <2> HIDE DEF l
  <2>4. IsConns(conn') /\ DOMAIN conn' = DOMAIN conn
    BY <2>2, <2>3, OneTyped
  <2> QED BY <2>1, <2>2, <2>4
<1>4. ASSUME NEW c \in Conn, Reap(c) PROVE NetTyped'
  <2>1. host' \in Host /\ spec' = spec /\ host'.loop # "hand"
    BY <1>4 DEF Reap, NextRound, Host, HostType
  <2>2. conn' = HostCloses({c})
    BY <1>4 DEF Reap
  <2> QED BY <2>1, <2>2, ClosesTyped
<1> QED BY <1>1, <1>2, <1>3, <1>4 DEF HostLoop

\* One spectator changes; there are at least as many connections.
LEMMA OneViewer ==
    ASSUME NetTyped, NEW s \in Spectator, NEW r \in Viewer,
           host' = host, IsConns(conn'), DOMAIN conn \subseteq DOMAIN conn',
           spec' = [spec EXCEPT ![s] = r], Sound(r, DOMAIN conn')
    PROVE  NetTyped'
<1> USE DEF NetTyped
<1>1. /\ spec' \in [Spectator -> Viewer] /\ spec'[s] = r
      /\ \A t \in Spectator \ {s} : spec'[t] = spec[t]
  OBVIOUS
<1>2. \A t \in Spectator : Sound(spec[t], DOMAIN conn) => Sound(spec[t], DOMAIN conn')
  BY DEF Sound
<1>3. ASSUME NEW t \in Spectator PROVE Sound(spec'[t], DOMAIN conn')
  BY <1>1, <1>2
<1> QED BY <1>1, <1>3

\* A queue of what came over c stays one when more comes over c.
LEMMA QueueFrom ==
    ASSUME NEW q \in Seq([from : Conn, msg : Msg]), NEW c \in Conn, NEW m \in Msg,
           \A i \in DOMAIN q : q[i].from = c
    PROVE  LET a == Append(q, [from |-> c, msg |-> m])
           IN  /\ a \in Seq([from : Conn, msg : Msg])
               /\ \A i \in DOMAIN a : a[i].from = c
<1> DEFINE e == [from |-> c, msg |-> m]
           a == Append(q, e)
           E == [from : Conn, msg : Msg]
<1>1. e \in E /\ e.from = c
  OBVIOUS
<1> HIDE DEF e, E
<1>2. /\ a \in Seq(E) /\ Len(a) = Len(q) + 1 /\ a[Len(q) + 1] = e
      /\ \A i \in 1 .. Len(q) : a[i] = q[i]
  BY <1>1, AppendProperties DEF E
<1>3. Len(q) \in Nat /\ DOMAIN q = 1 .. Len(q) /\ DOMAIN a = 1 .. Len(a)
  BY <1>2
<1> HIDE DEF a
<1>4. \A i \in DOMAIN a : a[i].from = c
  BY <1>1, <1>2, <1>3
<1> QED BY <1>2, <1>4 DEF a, e, E

\* and of a spectator's main and receiver threads.
LEMMA ViewerTyped ==
    ASSUME NetTyped, NEW s \in Spectator,
           \/ Join(s) \/ SpecLeave(s) \/ SpecLeaveJoin(s) \/ RecvData(s) \/ RecvEnd(s)
           \/ RecvPush(s) \/ Drain(s)
    PROVE  NetTyped'
<1> DEFINE c == spec[s].conn
           C == DOMAIN conn
<1>0. spec[s] \in Viewer /\ Sound(spec[s], C) /\ IsConns(conn)
  BY DEF NetTyped
<1>e. <<>> \in Seq([from : Conn, msg : Msg])
  BY EmptySeq
<1>c. C \subseteq Conn
  BY <1>0, ConnsInConn
<1>1. CASE Join(s)
  <2> DEFINE l == [host |-> "backlog", spec |-> "open", down |-> <<>>]
             r == [spec[s] EXCEPT !.role = "Spectator", !.conn = Len(conn) + 1, !.run = TRUE,
                                  !.recv = "recv", !.lost = FALSE]
  <2>1. host' = host /\ conn' = Append(conn, l) /\ spec' = [spec EXCEPT ![s] = r]
        /\ Len(conn) < MaxConns /\ spec[s].role = "None"
    BY <1>1 DEF Join
  <2>2. l \in Link
    BY DEF Link, ConnType
  <2>3. Len(conn) + 1 \in Conn
    BY <1>0, <2>1, SessionAssumption DEF IsConns, Conn
  <2>4. r \in Viewer /\ r.conn = Len(conn) + 1 /\ r.role = "Spectator" /\ r.recv = "recv"
        /\ r.inbound = spec[s].inbound
    BY <1>0, <2>3 DEF Viewer, SpecType
  <2> HIDE DEF l, r
  <2>5. IsConns(conn') /\ DOMAIN conn \subseteq DOMAIN conn' /\ Len(conn) + 1 \in DOMAIN conn'
    BY <1>0, <2>1, <2>2, SessionAssumption DEF IsConns
  <2>6. Sound(r, DOMAIN conn')
    BY <1>0, <2>1, <2>4, <2>5 DEF Sound
  <2> QED BY <2>1, <2>4, <2>5, <2>6, OneViewer
<1>2. CASE SpecLeave(s)
  <2> DEFINE r == [spec[s] EXCEPT !.run = FALSE, !.leaving = TRUE]
             q == IF CloseWakes THEN <<>> ELSE conn[c].down
             l == [conn[c] EXCEPT !.spec = "closed", !.down = q]
  <2>1. host' = host /\ conn' = [conn EXCEPT ![c] = l] /\ spec' = [spec EXCEPT ![s] = r]
        /\ spec[s].role = "Spectator"
    BY <1>2 DEF SpecLeave, CloseSocket
  <2>2. /\ r \in Viewer /\ r.role = "Spectator" /\ r.conn = c /\ r.recv = spec[s].recv
        /\ r.hand = spec[s].hand /\ r.inbound = spec[s].inbound
    BY <1>0, <2>1 DEF Viewer, SpecType
  <2>3. c \in C
    BY <1>0, <2>1 DEF Sound
  <2>4. conn[c] \in Link
    BY <1>0, <2>3, LinkOf
  <2>5. q \in Seq(Msg)
    <3>1. conn[c].down \in Seq(Msg) /\ <<>> \in Seq(Msg)
      BY <2>4, LinkUpdates, EmptySeq
    <3> QED BY <3>1
  <2> HIDE DEF q
  <2>6. l \in Link
    BY <2>4, <2>5, LinkUpdates
  <2> HIDE DEF l, r
  <2>7. IsConns(conn') /\ DOMAIN conn' = C
    BY <1>0, <2>1, <2>6, OneTyped
  <2>8. Sound(r, DOMAIN conn')
    BY <1>0, <2>2, <2>3, <2>7 DEF Sound
  <2> QED BY <2>1, <2>2, <2>7, <2>8, OneViewer
<1>3. CASE SpecLeaveJoin(s)
  <2> DEFINE r == [spec[s] EXCEPT !.role = "None", !.inbound = <<>>, !.lost = FALSE,
                                  !.conn = 0, !.leaving = FALSE]
  <2>1. host' = host /\ conn' = conn /\ spec' = [spec EXCEPT ![s] = r] /\ spec[s].recv = "off"
    BY <1>3 DEF SpecLeaveJoin, InboundCleared
  <2>2. /\ r \in Viewer /\ r.role = "None" /\ r.recv = "off" /\ r.inbound = <<>>
        /\ ~r.leaving
    BY <1>0, <1>e, <2>1 DEF Viewer, SpecType
  <2> HIDE DEF r
  <2>3. Sound(r, DOMAIN conn')
    BY <2>2 DEF Sound
  <2> QED BY <1>0, <2>1, <2>2, <2>3, OneViewer
<1>4. CASE RecvData(s)
  <2> DEFINE h == Head(conn[c].down)
             r == [spec[s] EXCEPT !.recv = "push", !.hand = h]
             q == Tail(conn[c].down)
             l == [conn[c] EXCEPT !.down = q]
  <2>1. host' = host /\ conn' = [conn EXCEPT ![c] = l] /\ spec' = [spec EXCEPT ![s] = r]
        /\ conn[c].down # <<>> /\ spec[s].recv = "recv"
    BY <1>4 DEF RecvData, Mine, Waits
  <2>2. spec[s].role = "Spectator"
    BY <1>0, <2>1 DEF Sound, Viewer, SpecType
  <2>3. c \in C
    BY <1>0, <2>2 DEF Sound
  <2>4. conn[c] \in Link
    BY <1>0, <2>3, LinkOf
  <2>5. conn[c].down \in Seq(Msg)
    BY <2>4, LinkUpdates
  <2>6. h \in Msg /\ q \in Seq(Msg)
    BY <2>1, <2>5
  <2> HIDE DEF q, h
  <2>7. /\ r \in Viewer /\ r.role = "Spectator" /\ r.conn = c /\ r.hand = h
        /\ r.inbound = spec[s].inbound
    BY <1>0, <2>2, <2>6 DEF Viewer, SpecType
  <2>8. l \in Link
    BY <2>4, <2>6, LinkUpdates
  <2> HIDE DEF l, r
  <2>9. IsConns(conn') /\ DOMAIN conn' = C
    BY <1>0, <2>1, <2>8, OneTyped
  <2>10. Sound(r, DOMAIN conn')
    BY <1>0, <2>3, <2>6, <2>7, <2>9 DEF Sound
  <2> QED BY <2>1, <2>7, <2>9, <2>10, OneViewer
<1>5. CASE RecvEnd(s)
  <2> DEFINE r == [spec[s] EXCEPT !.recv = "off", !.lost = spec[s].run]
  <2>1. host' = host /\ conn' = conn /\ spec' = [spec EXCEPT ![s] = r]
    BY <1>5 DEF RecvEnd, Latched
  <2>2. /\ r \in Viewer /\ r.role = spec[s].role /\ r.conn = c /\ r.recv = "off"
        /\ r.inbound = spec[s].inbound /\ r.leaving = spec[s].leaving
    BY <1>0 DEF Viewer, SpecType
  <2> HIDE DEF r
  <2>3. Sound(r, DOMAIN conn')
    BY <1>0, <2>1, <2>2 DEF Sound
  <2> QED BY <1>0, <2>1, <2>2, <2>3, OneViewer
<1>6. CASE RecvPush(s)
  <2> DEFINE q == Append(spec[s].inbound, [from |-> c, msg |-> spec[s].hand])
             loop == IF spec[s].run THEN "recv" ELSE "off"
             r == [spec[s] EXCEPT !.recv = loop, !.hand = Nothing, !.inbound = q]
  <2>1. host' = host /\ conn' = conn /\ spec' = [spec EXCEPT ![s] = r] /\ spec[s].recv = "push"
    BY <1>6 DEF RecvPush
  <2>2. spec[s].hand \in Msg /\ spec[s].role = "Spectator"
    BY <1>0, <2>1 DEF Sound, Viewer, SpecType
  <2>3. c \in C /\ c \in Conn
    BY <1>0, <1>c, <2>2 DEF Sound
  <2>4. /\ spec[s].inbound \in Seq([from : Conn, msg : Msg])
        /\ \A i \in DOMAIN spec[s].inbound : spec[s].inbound[i].from = c
    BY <1>0 DEF Viewer, SpecType, Sound
  <2>5. /\ q \in Seq([from : Conn, msg : Msg])
        /\ \A i \in DOMAIN q : q[i].from = c
    BY <2>2, <2>3, <2>4, QueueFrom
  <2> HIDE DEF q
  <2>6. /\ r \in Viewer /\ r.role = "Spectator" /\ r.conn = c /\ r.recv # "push"
        /\ r.inbound = q
    BY <1>0, <2>2, <2>5 DEF Viewer, SpecType
  <2> HIDE DEF r
  <2>7. Sound(r, DOMAIN conn')
    BY <2>1, <2>3, <2>5, <2>6 DEF Sound
  <2> QED BY <1>0, <2>1, <2>6, <2>7, OneViewer
<1>7. CASE Drain(s)
  <2> DEFINE r == [spec[s] EXCEPT !.inbound = <<>>]
  <2>1. host' = host /\ conn' = conn /\ spec' = [spec EXCEPT ![s] = r]
    BY <1>7 DEF Drain
  <2>2. /\ r \in Viewer /\ r.role = spec[s].role /\ r.conn = c /\ r.recv = spec[s].recv
        /\ r.hand = spec[s].hand /\ r.inbound = <<>> /\ r.leaving = spec[s].leaving
    BY <1>0, <1>e DEF Viewer, SpecType
  <2> HIDE DEF r
  <2>3. Sound(r, DOMAIN conn')
    BY <1>0, <2>1, <2>2 DEF Sound
  <2> QED BY <1>0, <2>1, <2>2, <2>3, OneViewer
<1> QED BY <1>1, <1>2, <1>3, <1>4, <1>5, <1>6, <1>7

----------------------------------------------------------------------------
(* Types of the review.                                                    *)

Kinds == {"Project", "View"}

AppTyped ==
    /\ app \in App /\ view \in [Spectator -> App] /\ blind \in [Spectator -> BOOLEAN]
    /\ dirty \in BOOLEAN /\ ops \in 0 .. MaxOps
    /\ sent \in [framing : Framing \cup {NeverSent}, peers : 0 .. MaxConns]
    /\ outbox \in Seq(Task)
    /\ reached \in [Conn -> SUBSET Kinds]

Typed == NetTyped /\ AppTyped

\* The types, without what makes them inductive.
LEMMA TypedGivesTypeOK == Typed => TypeOK
BY DEF Typed, NetTyped, AppTyped, TypeOK, Host, Link, Viewer, IsConns, Kinds

\* A message is of the kind it says.
LEMMA KindOfMsg ==
    ASSUME NEW m \in Msg
    PROVE  /\ m.kind \in Kinds
           /\ m.kind = "Project" => m \in Project /\ m.doc \in 0 .. MaxOps
           /\ m.kind = "View" => m.framing \in Framing
BY DEF Msg, Project, Kinds

\* A framing that is placed is one.
LEMMA PlacedTyped ==
    ASSUME NEW f \in Framing, NEW g \in BOOLEAN
    PROVE  Placed(f, g) \in Framing
BY ReviewAssumption DEF Placed, Framing

\* What is shown once messages were applied is a state of the application.
LEMMA AppliedTyped ==
    ASSUME NEW v \in App, NEW q \in Seq(Msg), NEW g \in BOOLEAN
    PROVE  Applied(v, q, g) \in App
<1>1. (IF Has(q, "Project") THEN q[LastOf(q, "Project")].doc ELSE v.doc) \in 0 .. MaxOps
  <2>1. CASE Has(q, "Project")
    <3>1. LastOf(q, "Project") \in DOMAIN q /\ q[LastOf(q, "Project")].kind = "Project"
      BY <2>1, NewestExists
    <3>2. q[LastOf(q, "Project")] \in Msg
      BY <3>1
    <3> QED BY <2>1, <3>1, <3>2, KindOfMsg
  <2>2. CASE ~Has(q, "Project")
    BY <2>2 DEF App
  <2> QED BY <2>1, <2>2
<1>2. (IF Has(q, "View") THEN Placed(q[LastOf(q, "View")].framing, g) ELSE v.framing)
      \in Framing
  <2>1. CASE Has(q, "View")
    <3>1. LastOf(q, "View") \in DOMAIN q /\ q[LastOf(q, "View")].kind = "View"
      BY <2>1, NewestExists
    <3>2. q[LastOf(q, "View")] \in Msg
      BY <3>1
    <3>3. q[LastOf(q, "View")].framing \in Framing
      BY <3>1, <3>2, KindOfMsg
    <3> QED BY <2>1, <3>3, PlacedTyped
  <2>2. CASE ~Has(q, "View")
    BY <2>2 DEF App
  <2> QED BY <2>1, <2>2
<1> QED BY <1>1, <1>2 DEF Applied, App

\* What is queued are messages.
LEMMA QueuedTyped ==
    ASSUME NetTyped, NEW s \in Spectator
    PROVE  /\ Queued(s) \in Seq(Msg) /\ Len(Queued(s)) = Len(spec[s].inbound)
           /\ DOMAIN Queued(s) = DOMAIN spec[s].inbound
<1> DEFINE q == spec[s].inbound
<1>1. q \in Seq([from : Conn, msg : Msg])
  BY DEF NetTyped, Viewer, SpecType
<1> DEFINE E == [from : Conn, msg : Msg]
<1>e. \A e \in E : e.msg \in Msg
  OBVIOUS
<1>i. q \in Seq(E)
  BY <1>1
<1> HIDE DEF q, E
<1>2. Len(q) \in Nat /\ DOMAIN q = 1 .. Len(q) /\ \A i \in 1 .. Len(q) : q[i].msg \in Msg
  BY <1>i, <1>e
<1>3. [i \in 1 .. Len(q) |-> q[i].msg] \in Seq(Msg)
  BY <1>2, IsASeq
<1>4. Queued(s) = [i \in 1 .. Len(q) |-> q[i].msg]
  BY <1>2 DEF q, Queued
<1> QED BY <1>2, <1>3, <1>4 DEF q

\* There are no more peers than connections.
LEMMA PeersCounted == NetTyped => Cardinality(Peers) \in 0 .. MaxConns
<1> SUFFICES ASSUME NetTyped PROVE Cardinality(Peers) \in 0 .. MaxConns
  OBVIOUS
<1>1. Peers \subseteq 1 .. MaxConns
  BY DEF NetTyped, Host, HostType, Peers, Conn
<1>2. IsFiniteSet(1 .. MaxConns) /\ Cardinality(1 .. MaxConns) = MaxConns
  BY SessionAssumption, FS_Interval
<1>3. IsFiniteSet(Peers) /\ Cardinality(Peers) <= MaxConns
  BY <1>1, <1>2, FS_Subset
<1>4. Cardinality(Peers) \in Nat
  BY <1>3, FS_CardinalityType
<1> QED BY <1>3, <1>4, SessionAssumption

\* What a refresh has to do are tasks.
LEMMA RefreshTyped ==
    ASSUME NEW a \in App
    PROVE  Refresh(a) \in Seq(Task) /\ SaveBuffer(a) \in Project /\ SaveBuffer(a) \in Msg
<1>1. SaveBuffer(a) \in Project /\ SaveBuffer(a) \in Msg
  BY DEF SaveBuffer, Project, Msg, App
<1>2. /\ [do |-> "store", msg |-> SaveBuffer(a)] \in Task
      /\ [do |-> "send", msg |-> SaveBuffer(a)] \in Task
  BY <1>1 DEF Task
<1> QED BY <1>1, <1>2 DEF Refresh

\* The state everyone starts in.
LEMMA IdleTyped == Idle \in App
BY ReviewAssumption DEF Idle, App, Framing

\* The types hold at the start,
LEMMA InitTyped == Init => Typed
<1> SUFFICES ASSUME Init PROVE Typed
  OBVIOUS
<1> DEFINE r == [role |-> "None", conn |-> 0, run |-> FALSE, recv |-> "off",
                 hand |-> Nothing, inbound |-> <<>>, lost |-> FALSE, leaving |-> FALSE]
<1>1. host \in Host /\ host.loop = "off"
  BY DEF Init, NetInit, Host, HostType
<1>2. IsConns(conn)
  BY SessionAssumption DEF Init, NetInit, IsConns
<1>3. r \in Viewer
  BY DEF Viewer, SpecType
<1>4. \A s \in Spectator : spec[s] = r
  BY DEF Init, NetInit
<1>5. r.role = "None" /\ r.inbound = <<>> /\ r.recv = "off" /\ ~r.leaving
  OBVIOUS
<1>6. spec = [s \in Spectator |-> r]
  BY DEF Init, NetInit
<1> HIDE DEF r
<1>7. spec \in [Spectator -> Viewer]
  BY <1>3, <1>6
<1>8. NetTyped
  BY <1>1, <1>2, <1>4, <1>5, <1>7 DEF NetTyped, Sound
<1>9. AppTyped
  <2>1. app \in App /\ view \in [Spectator -> App] /\ blind \in [Spectator -> BOOLEAN]
    BY IdleTyped DEF Init
  <2>2. sent \in [framing : Framing \cup {NeverSent}, peers : 0 .. MaxConns]
    BY SessionAssumption DEF Init
  <2>3. dirty \in BOOLEAN /\ ops \in 0 .. MaxOps
    <3>1. 0 \in 0 .. MaxOps
      BY ReviewAssumption
    <3>2. dirty = FALSE /\ ops = 0
      BY DEF Init
    <3>3. dirty \in BOOLEAN
      BY <3>2
    <3> QED BY <3>1, <3>2, <3>3
  <2>4. outbox \in Seq(Task)
    BY EmptySeq DEF Init
  <2>5. reached \in [Conn -> SUBSET Kinds]
    BY DEF Init
  <2> QED BY <2>1, <2>2, <2>3, <2>4, <2>5 DEF AppTyped
<1> QED BY <1>8, <1>9 DEF Typed

\* and every step keeps them.
LEMMA NextTyped == Typed /\ [Next]_vars => Typed'
<1> SUFFICES ASSUME Typed, [Next]_vars PROVE Typed'
  OBVIOUS
<1>t. NetTyped /\ AppTyped
  BY DEF Typed
<1>1. CASE CreateSession
  <2>1. NetTyped'
    BY <1>1, <1>t, HostMainTyped DEF CreateSession
  <2>2. outbox' \in Seq(Task)
    BY <1>1, <1>t, RefreshTyped DEF CreateSession, AppTyped
  <2>3. sent' \in [framing : Framing \cup {NeverSent}, peers : 0 .. MaxConns]
    BY <1>1, <1>t, SessionAssumption DEF CreateSession, AppTyped, App
  <2>4. ops' \in 0 .. MaxOps
    BY <1>1, <1>t, ReviewAssumption DEF CreateSession, AppTyped
  <2> QED BY <1>1, <1>t, <2>1, <2>2, <2>3, <2>4 DEF CreateSession, shown, AppTyped, Typed
<1>2. CASE UserActs
  <2>1. NetTyped'
    BY <1>2, <1>t DEF UserActs, netVars, NetTyped, IsConns, Sound
  <2>2. ops' \in 0 .. MaxOps /\ ops + 1 \in 0 .. MaxOps
    BY <1>2, <1>t, ReviewAssumption DEF UserActs, AppTyped
  <2>3. app' \in App
    <3>1. app \in App /\ HostFraming \subseteq Framing
      BY <1>t DEF AppTyped, HostFraming
    <3>2. \/ app' = [app EXCEPT !.doc = ops + 1]
          \/ \E f \in Framing : app' = [app EXCEPT !.framing = f]
      BY <1>2, <3>1 DEF UserActs
    <3> QED BY <2>2, <3>1, <3>2 DEF App
  <2>4. dirty' \in BOOLEAN
    BY <1>2, <1>t DEF UserActs, AppTyped
  <2>5. outbox' \in Seq(Task)
    <3>1. Refresh(app') \in Seq(Task) /\ <<>> \in Seq(Task) /\ outbox \in Seq(Task)
      BY <1>t, <2>3, RefreshTyped, EmptySeq DEF AppTyped
    <3>2. outbox' = outbox \/ outbox' = Refresh(app') \/ outbox' = <<>>
      BY <1>2 DEF UserActs
    <3> QED BY <3>1, <3>2
  <2> QED BY <1>2, <1>t, <2>1, <2>2, <2>3, <2>4, <2>5 DEF UserActs, shown, AppTyped, Typed
<1>3. CASE Tick
  <2>1. NetTyped'
    BY <1>3, <1>t DEF Tick, netVars, NetTyped, IsConns, Sound
  <2>2. outbox' \in Seq(Task)
    <3>1. <<[do |-> "count"]>> \in Seq(Task) /\ <<>> \in Seq(Task)
      BY EmptySeq DEF Task
    <3>2. Refresh(app) \in Seq(Task)
      BY <1>t, RefreshTyped DEF AppTyped
    <3> QED BY <1>3, <3>1, <3>2 DEF Tick
  <2> QED BY <1>3, <1>t, <2>1, <2>2 DEF Tick, shown, AppTyped, Typed
<1>4. CASE EndSession
  <2>1. NetTyped'
    BY <1>4, <1>t, HostMainTyped DEF EndSession
  <2> QED BY <1>4, <1>t, <2>1 DEF EndSession, appVars, shown, AppTyped, Typed
<1>5. CASE Store
  <2>1. Head(outbox) \in Task /\ Tail(outbox) \in Seq(Task)
    BY <1>5, <1>t DEF Store, AppTyped
  <2>2. Head(outbox).msg \in Project
    BY <1>5, <2>1 DEF Store, Task
  <2>3. NetTyped'
    BY <1>5, <1>t, <2>2, HostMainTyped DEF Store
  <2> QED BY <1>5, <1>t, <2>1, <2>3 DEF Store, shown, AppTyped, Typed
<1>6. CASE Send
  <2>1. Head(outbox) \in Task /\ Tail(outbox) \in Seq(Task)
    BY <1>6, <1>t DEF Send, AppTyped
  <2>2. Head(outbox).msg \in Msg
    BY <1>6, <2>1 DEF Send, Task
  <2>3. NetTyped'
    BY <1>6, <1>t, <2>2, HostMainTyped DEF Send
  <2>4. reached' \in [Conn -> SUBSET Kinds]
    <3>1. Head(outbox).msg.kind \in Kinds
      BY <2>2, KindOfMsg
    <3>2. \A c \in Conn : reached[c] \in SUBSET Kinds
      BY <1>t DEF AppTyped
    <3>3. \A c \in Conn : reached[c] \cup {Head(outbox).msg.kind} \in SUBSET Kinds
      BY <3>1, <3>2
    <3> QED BY <1>6, <3>3 DEF Send
  <2> QED BY <1>6, <1>t, <2>1, <2>3, <2>4 DEF Send, shown, AppTyped, Typed
<1>7. CASE CountPeers
  <2>1. NetTyped'
    BY <1>7, <1>t DEF CountPeers, netVars, NetTyped, IsConns, Sound
  <2>2. outbox' \in Seq(Task)
    <3>1. [kind |-> "View", framing |-> app.framing] \in Msg
      BY <1>t DEF AppTyped, App, Msg
    <3>2. <<[do |-> "send", msg |-> [kind |-> "View", framing |-> app.framing]]>> \in Seq(Task)
          /\ <<>> \in Seq(Task)
      BY <3>1, EmptySeq DEF Task
    <3> QED BY <1>7, <3>2 DEF CountPeers, ViewToSend
  <2>3. sent' \in [framing : Framing \cup {NeverSent}, peers : 0 .. MaxConns]
    <3>1. sent' = [sent EXCEPT !.framing = app.framing, !.peers = Cardinality(Peers)]
      BY <1>7 DEF CountPeers
    <3>2. app.framing \in Framing /\ Cardinality(Peers) \in 0 .. MaxConns
      BY <1>t, PeersCounted DEF AppTyped, App
    <3>3. sent \in [framing : Framing \cup {NeverSent}, peers : 0 .. MaxConns]
      BY <1>t DEF AppTyped
    <3> QED BY <3>1, <3>2, <3>3
  <2> QED BY <1>7, <1>t, <2>1, <2>2, <2>3 DEF CountPeers, shown, AppTyped, Typed
<1>8. CASE HostEnded
  <2>1. NetTyped'
    BY <1>8, <1>t, HostMainTyped DEF HostEnded
  <2>2. sent' \in [framing : Framing \cup {NeverSent}, peers : 0 .. MaxConns]
    BY <1>8, SessionAssumption DEF HostEnded
  <2> QED BY <1>8, <1>t, <2>1, <2>2 DEF HostEnded, shown, AppTyped, Typed
<1>9. CASE HostThread
  BY <1>9, <1>t, HostLoopTyped DEF HostThread, appVars, shown, AppTyped, Typed
<1>10. ASSUME NEW s \in Spectator,
              JoinSession(s) \/ LeaveSession(s) \/ SpecMain(s) \/ SpecThread(s)
       PROVE  Typed'
  <2>1. /\ UNCHANGED appVars
        /\ \/ UNCHANGED shown
           \/ ApplyQueued(s)
        /\ \/ Join(s) \/ SpecLeave(s) \/ SpecLeaveJoin(s) \/ RecvData(s) \/ RecvEnd(s)
           \/ RecvPush(s) \/ Drain(s)
    BY <1>10 DEF JoinSession, LeaveSession, SpecMain, DrainSync, ApplyQueued, SpecEnded,
       SpecThread, RecvLoop
  <2>2. NetTyped'
    BY <1>t, <2>1, ViewerTyped
  <2>3. view' \in [Spectator -> App] /\ blind' \in [Spectator -> BOOLEAN]
    <3>1. CASE UNCHANGED shown
      BY <1>t, <3>1 DEF shown, AppTyped
    <3>2. CASE ApplyQueued(s)
      <4>1. PICK g \in BOOLEAN :
               /\ view' = [view EXCEPT ![s] = Applied(@, Queued(s), g)]
               /\ blind' = [blind EXCEPT ![s] = IF Has(Queued(s), "View") THEN ~g ELSE @]
        BY <3>2 DEF ApplyQueued
      <4>2. view[s] \in App /\ Queued(s) \in Seq(Msg) /\ blind[s] \in BOOLEAN
        BY <1>t, QueuedTyped DEF AppTyped
      <4>3. Applied(view[s], Queued(s), g) \in App
        BY <4>2, AppliedTyped
      <4>4. (IF Has(Queued(s), "View") THEN ~g ELSE blind[s]) \in BOOLEAN
        BY <4>2
      <4>5. view' \in [Spectator -> App]
        BY <1>t, <4>1, <4>3 DEF AppTyped
      <4>6. blind' \in [Spectator -> BOOLEAN]
        BY <1>t, <4>1, <4>4 DEF AppTyped
      <4> QED BY <4>5, <4>6
    <3> QED BY <2>1, <3>1, <3>2
  <2> QED BY <1>t, <2>1, <2>2, <2>3 DEF appVars, AppTyped, Typed
<1>11. CASE UNCHANGED vars
  BY <1>11, <1>t DEF vars, netVars, appVars, shown, NetTyped, IsConns, Sound, AppTyped, Typed
<1> QED BY <1>1, <1>2, <1>3, <1>4, <1>5, <1>6, <1>7, <1>8, <1>9, <1>10, <1>11 DEF Next, HostMain

----------------------------------------------------------------------------

\* Every variable stays of its type: the connections within their bound, whatever is
\* under way a message, the framing that was sent last one there is.
THEOREM TypeCorrect == Spec => []TypeOK
<1> QED BY InitTyped, NextTyped, TypedGivesTypeOK, PTL DEF Spec

\* What a spectator holds and has not applied is of the session it is in: leave() clears
\* the queue only after it joined the receiver thread, and join() starts the next one on
\* an empty queue, so no interleaving of the two lets an old message through.
THEOREM OldSessionSilentHolds == Spec => []OldSessionSilent
<1>1. Typed => OldSessionSilent
  BY DEF Typed, NetTyped, Sound, OldSessionSilent
<1> QED BY <1>1, InitTyped, NextTyped, PTL DEF Spec

----------------------------------------------------------------------------
(* Steps of the network.                                                   *)

HostNet == \/ StartHost \/ HostLeave \/ HostLeaveJoin
           \/ \E p \in Project : SetProjectSnapshot(p)
           \/ \E m \in Msg : Broadcast(m)
           \/ HostLoop \/ UNCHANGED netVars
SpecNet(s) == \/ Join(s) \/ SpecLeave(s) \/ SpecLeaveJoin(s)
              \/ RecvData(s) \/ RecvEnd(s) \/ RecvPush(s) \/ Drain(s)

\* A step of the review is one of the network, or leaves it alone.
LEMMA NetSteps ==
    ASSUME Typed, [Next]_vars
    PROVE  HostNet \/ \E s \in Spectator : SpecNet(s)
<1>1. CASE CreateSession \/ EndSession \/ HostEnded \/ HostThread
  BY <1>1 DEF CreateSession, EndSession, HostEnded, HostThread, HostNet
<1>2. CASE UserActs \/ Tick \/ CountPeers \/ UNCHANGED vars
  BY <1>2 DEF UserActs, Tick, CountPeers, vars, HostNet
<1>3. CASE Store
  <2>1. Head(outbox) \in Task
    BY <1>3 DEF Store, Typed, AppTyped
  <2>2. Head(outbox).msg \in Project
    BY <1>3, <2>1 DEF Store, Task
  <2> QED BY <1>3, <2>2 DEF Store, HostNet
<1>4. CASE Send
  <2>1. Head(outbox) \in Task
    BY <1>4 DEF Send, Typed, AppTyped
  <2>2. Head(outbox).msg \in Msg
    BY <1>4, <2>1 DEF Send, Task
  <2> QED BY <1>4, <2>2 DEF Send, HostNet
<1>5. ASSUME NEW s \in Spectator,
             JoinSession(s) \/ LeaveSession(s) \/ SpecMain(s) \/ SpecThread(s)
      PROVE  SpecNet(s)
  BY <1>5 DEF JoinSession, LeaveSession, SpecMain, DrainSync, ApplyQueued, SpecEnded,
              SpecThread, RecvLoop, SpecNet
<1> QED BY <1>1, <1>2, <1>3, <1>4, <1>5 DEF Next, HostMain

----------------------------------------------------------------------------
(* What a step of the network leaves alone.                                *)

\* A step of the host: no Session of a spectator, no end of one.
LEMMA HostKeeps ==
    ASSUME NetTyped, HostNet
    PROVE  /\ spec' = spec /\ DOMAIN conn' = DOMAIN conn
           /\ \A c \in DOMAIN conn : conn'[c].spec = conn[c].spec
<1> USE DEF NetTyped
<1>l. \A c \in DOMAIN conn : conn[c] \in Link
  BY LinkOf
<1>1. CASE StartHost \/ HostLeave
  BY <1>1, <1>l DEF StartHost, HostLeave, HostCloses, Link, ConnType
<1>2. CASE HostLeaveJoin \/ (\E p \in Project : SetProjectSnapshot(p)) \/ UNCHANGED netVars
  BY <1>2 DEF HostLeaveJoin, SetProjectSnapshot, netVars
<1>3. ASSUME NEW m \in Msg, Broadcast(m)
      PROVE  /\ spec' = spec /\ DOMAIN conn' = DOMAIN conn
             /\ \A c \in DOMAIN conn : conn'[c].spec = conn[c].spec
  BY <1>3, <1>l DEF Broadcast, Sent, Link, ConnType
<1>4. CASE PollTimeout
  BY <1>4 DEF PollTimeout
<1>5. CASE AddPeer
  BY <1>5, <1>l DEF AddPeer, HostCloses, Link, ConnType
<1>6. ASSUME NEW c \in Conn, Accept(c) \/ Reap(c)
      PROVE  /\ spec' = spec /\ DOMAIN conn' = DOMAIN conn
             /\ \A d \in DOMAIN conn : conn'[d].spec = conn[d].spec
  BY <1>6, <1>l DEF Accept, Reap, HostCloses, Link, ConnType
<1> QED BY <1>1, <1>2, <1>3, <1>4, <1>5, <1>6 DEF HostNet, HostLoop

\* A step of a spectator: nothing of the host, no other's Session or connection, not
\* the host's end of its own.
LEMMA SpecKeeps ==
    ASSUME NetTyped, NEW s \in Spectator, SpecNet(s)
    PROVE  /\ host' = host
           /\ \A t \in Spectator \ {s} : spec'[t] = spec[t]
           /\ \A c \in DOMAIN conn : /\ c \in DOMAIN conn' /\ conn'[c].host = conn[c].host
                                     /\ c # spec[s].conn => conn'[c] = conn[c]
<1> USE DEF NetTyped
<1>l. \A c \in DOMAIN conn : conn[c] \in Link
  BY LinkOf
<1>1. CASE Join(s)
  <2> DEFINE l == [host |-> "backlog", spec |-> "open", down |-> <<>>]
  <2>1. conn' = Append(conn, l) /\ host' = host /\ \A t \in Spectator \ {s} : spec'[t] = spec[t]
    BY <1>1 DEF Join
  <2> HIDE DEF l
  <2>2. \A c \in DOMAIN conn : c \in DOMAIN conn' /\ conn'[c] = conn[c]
    BY <2>1 DEF IsConns
  <2> QED BY <2>1, <2>2
<1>2. CASE SpecLeave(s)
  BY <1>2, <1>l DEF SpecLeave, CloseSocket, Link, ConnType
<1>3. CASE SpecLeaveJoin(s) \/ RecvEnd(s) \/ RecvPush(s) \/ Drain(s)
  BY <1>3 DEF SpecLeaveJoin, RecvEnd, RecvPush, Drain
<1>4. CASE RecvData(s)
  BY <1>4, <1>l DEF RecvData, Mine, Link, ConnType
<1> QED BY <1>1, <1>2, <1>3, <1>4 DEF SpecNet

\* The host's end of a connection leaves the backlog by being accepted, or closed.
LEMMA BacklogKept ==
    ASSUME NetTyped, HostNet
    PROVE  \A c \in DOMAIN conn : conn'[c].host = "backlog" => conn[c].host = "backlog"
<1> USE DEF NetTyped
<1>l. \A c \in DOMAIN conn : conn[c] \in Link
  BY LinkOf
<1>1. CASE StartHost \/ HostLeave
  BY <1>1, <1>l DEF StartHost, HostLeave, HostCloses, Link, ConnType
<1>2. CASE HostLeaveJoin \/ (\E p \in Project : SetProjectSnapshot(p)) \/ UNCHANGED netVars
  BY <1>2 DEF HostLeaveJoin, SetProjectSnapshot, netVars
<1>3. ASSUME NEW m \in Msg, Broadcast(m)
      PROVE  \A c \in DOMAIN conn : conn'[c].host = "backlog" => conn[c].host = "backlog"
  BY <1>3, <1>l DEF Broadcast, Sent, Link, ConnType
<1>4. CASE PollTimeout
  BY <1>4 DEF PollTimeout
<1>5. CASE AddPeer
  <2>1. \/ conn' = conn \/ conn' = HostCloses({host.joiner})
        \/ conn' = [conn EXCEPT ![host.joiner].down = Append(@, host.snap)]
    BY <1>5 DEF AddPeer
  <2>2. CASE conn' = conn
    BY <2>2
  <2>3. CASE conn' = HostCloses({host.joiner})
    BY <1>l, <2>3 DEF HostCloses, Link, ConnType
  <2>4. CASE conn' = [conn EXCEPT ![host.joiner].down = Append(@, host.snap)]
    BY <1>l, <2>4 DEF Link, ConnType
  <2> QED BY <2>1, <2>2, <2>3, <2>4
<1>6. ASSUME NEW c \in Conn, Accept(c) \/ Reap(c)
      PROVE  \A d \in DOMAIN conn : conn'[d].host = "backlog" => conn[d].host = "backlog"
  <2>1. CASE Accept(c)
    BY <1>6, <2>1, <1>l DEF Accept, Link, ConnType
  <2>2. CASE Reap(c)
    BY <1>6, <2>2, <1>l DEF Reap, HostCloses, Link, ConnType
  <2> QED BY <1>6, <2>1, <2>2
<1> QED BY <1>1, <1>2, <1>3, <1>4, <1>5, <1>6 DEF HostNet, HostLoop

----------------------------------------------------------------------------
(* Each spectator has a connection of its own, open until it leaves.       *)

Wired == \A s \in Spectator :
    spec[s].role = "Spectator" =>
        /\ spec[s].leaving \/ conn[spec[s].conn].spec = "open"
        /\ \A t \in Spectator \ {s} : spec[t].role = "Spectator" => spec[t].conn # spec[s].conn

\* Joining takes a connection that is new, and leaving gives the one it had up.
LEMMA WiredStep ==
    ASSUME NetTyped, Wired, HostNet \/ \E s \in Spectator : SpecNet(s)
    PROVE  Wired'
<1>v. \A s \in Spectator : spec[s] \in Viewer /\ Sound(spec[s], DOMAIN conn)
  BY DEF NetTyped
<1>1. CASE HostNet
  BY <1>1, <1>v, HostKeeps DEF Wired, Sound
<1>2. ASSUME NEW s \in Spectator, SpecNet(s) PROVE Wired'
  <2> DEFINE c == spec[s].conn
  <2>1. /\ \A t \in Spectator \ {s} : spec'[t] = spec[t]
        /\ \A d \in DOMAIN conn : d \in DOMAIN conn' /\ (d # c => conn'[d] = conn[d])
    BY <1>2, SpecKeeps
  <2>2. CASE Join(s)
    <3>1. /\ spec'[s].conn = Len(conn) + 1
          /\ conn' = Append(conn, [host |-> "backlog", spec |-> "open", down |-> <<>>])
      BY <2>2, <1>v DEF Join, NetTyped, Viewer, SpecType
    <3>2. Len(conn) + 1 \notin DOMAIN conn /\ conn'[Len(conn) + 1].spec = "open"
          /\ \A d \in DOMAIN conn : conn'[d] = conn[d]
      BY <3>1 DEF NetTyped, IsConns
    <3>3. ASSUME NEW t \in Spectator \ {s}, spec[t].role = "Spectator"
          PROVE  spec[t].conn # Len(conn) + 1 /\ conn'[spec[t].conn] = conn[spec[t].conn]
      BY <3>2, <3>3, <1>v DEF Sound
    <3>5. ASSUME NEW t \in Spectator, spec'[t].role = "Spectator"
          PROVE  spec'[t].leaving \/ conn'[spec'[t].conn].spec = "open"
      <4>1. CASE t = s
        BY <3>1, <3>2, <4>1
      <4>2. CASE t # s
        <5>1. spec'[t] = spec[t] /\ spec[t].role = "Spectator"
          BY <2>1, <3>5, <4>2
        <5>2. conn'[spec[t].conn] = conn[spec[t].conn]
          BY <3>3, <4>2, <5>1
        <5> QED BY <5>1, <5>2 DEF Wired
      <4> QED BY <4>1, <4>2
    <3>6. ASSUME NEW t \in Spectator, NEW u \in Spectator \ {t}, spec'[t].role = "Spectator",
                 spec'[u].role = "Spectator"
          PROVE  spec'[t].conn # spec'[u].conn
      <4>1. CASE t = s \/ u = s
        BY <2>1, <3>1, <3>3, <3>6, <4>1
      <4>2. CASE t # s /\ u # s
        BY <2>1, <3>6, <4>2 DEF Wired
      <4> QED BY <4>1, <4>2
    <3> QED BY <3>5, <3>6 DEF Wired
  <2>3. CASE ~Join(s)
    <3>1. /\ spec'[s].role = "Spectator" =>
                /\ spec[s].role = "Spectator" /\ spec'[s].conn = c
                /\ spec[s].leaving => spec'[s].leaving
          /\ ~spec'[s].leaving => conn' = conn \/ RecvData(s)
             \/ spec'[s].role = "None"
      <4>1. spec \in [Spectator -> Viewer] /\ spec[s] \in Viewer
        BY DEF NetTyped
      <4>2. CASE SpecLeave(s)
        BY <4>1, <4>2 DEF SpecLeave, Viewer, SpecType
      <4>3. CASE SpecLeaveJoin(s)
        BY <4>1, <4>3 DEF SpecLeaveJoin, Viewer, SpecType
      <4>4. CASE RecvData(s)
        BY <4>1, <4>4 DEF RecvData, Viewer, SpecType
      <4>5. CASE RecvEnd(s)
        BY <4>1, <4>5 DEF RecvEnd, Viewer, SpecType
      <4>7. CASE Drain(s)
        BY <4>1, <4>7 DEF Drain, Viewer, SpecType
      <4>6. CASE RecvPush(s)
        BY <4>1, <4>6 DEF RecvPush, Viewer, SpecType
      <4> QED BY <1>2, <2>3, <4>2, <4>3, <4>4, <4>5, <4>6, <4>7 DEF SpecNet
    <3>2. ASSUME spec[s].role = "Spectator", RecvData(s) PROVE conn'[c].spec = conn[c].spec
      <4>1. c \in DOMAIN conn
        BY <1>v, <3>2 DEF Sound
      <4>2. conn[c] \in Link
        BY <4>1, LinkOf DEF NetTyped
      <4> QED BY <3>2, <4>1, <4>2 DEF RecvData, Mine, Link, ConnType
    <3>3. ASSUME spec'[s].role = "Spectator"
          PROVE  spec'[s].leaving \/ conn'[spec'[s].conn].spec = "open"
      BY <3>1, <3>2, <3>3 DEF Wired
    <3>4. ASSUME NEW t \in Spectator \ {s}, spec'[t].role = "Spectator"
          PROVE  /\ spec'[t].leaving \/ conn'[spec'[t].conn].spec = "open"
                 /\ spec'[s].role = "Spectator" => spec'[t].conn # spec'[s].conn
      <4>1. spec[t].role = "Spectator" /\ spec[t].conn \in DOMAIN conn
        BY <2>1, <3>4, <1>v DEF Sound
      <4>2. CASE spec[s].role = "Spectator"
        <5>1. spec[t].conn # c
          BY <4>1, <4>2 DEF Wired
        <5> QED BY <2>1, <3>1, <4>1, <5>1 DEF Wired
      <4>3. CASE spec[s].role # "Spectator"
        <5>1. spec'[s].role # "Spectator" /\ spec[s].role = "None"
          BY <3>1, <4>3, <1>v DEF Viewer, SpecType
        <5>2. conn' = conn
          BY <5>1, <1>2, <2>3, <1>v DEF SpecNet, SpecLeave, SpecLeaveJoin, RecvData, RecvEnd,
               RecvPush, Drain, Sound, Waits
        <5> QED BY <2>1, <4>1, <5>1, <5>2 DEF Wired
      <4> QED BY <4>2, <4>3
    <3>5. ASSUME NEW t \in Spectator, NEW u \in Spectator \ {t}, spec'[t].role = "Spectator",
                 spec'[u].role = "Spectator"
          PROVE  spec'[t].conn # spec'[u].conn
      <4>1. CASE t = s \/ u = s
        BY <3>4, <3>5, <4>1
      <4>2. CASE t # s /\ u # s
        BY <2>1, <3>5, <4>2 DEF Wired
      <4> QED BY <4>1, <4>2
    <3> QED BY <3>3, <3>4, <3>5 DEF Wired
  <2> QED BY <2>2, <2>3
<1> QED BY <1>1, <1>2

----------------------------------------------------------------------------
(* Connections nothing was sent over.                                      *)

\* Nothing was sent over c so far: it is in the backlog, or with the accepting thread.
Unheard(c) == conn[c].host = "backlog" \/ (host.loop = "hand" /\ host.joiner = c)

\* A connection nothing was sent over has nothing under way, and is no peer's.
Joining ==
    /\ Peers \subseteq DOMAIN conn
    /\ host.loop = "hand" => conn[host.joiner].host # "backlog"
    /\ \A c \in Conn \ DOMAIN conn : reached[c] = {}
    /\ \A c \in DOMAIN conn : Unheard(c) =>
          c \notin Peers /\ conn[c].down = <<>> /\ reached[c] = {}
    /\ \A s \in Spectator : (spec[s].role = "Spectator" /\ Unheard(spec[s].conn)) =>
          spec[s].inbound = <<>> /\ spec[s].recv # "push"

\* What a step of the host does to a connection nothing was sent over.
HeardBefore ==
    /\ Peers' \subseteq DOMAIN conn
    /\ host'.loop = "hand" => conn'[host'.joiner].host # "backlog"
    /\ \A c \in DOMAIN conn : Unheard(c)' =>
          Unheard(c) /\ c \notin Peers' /\ conn'[c].down = conn[c].down

\* Closing the host's end of connections leaves what is under way.
LEMMA ClosesKeeps ==
    ASSUME NetTyped, NEW C, NEW c \in DOMAIN conn
    PROVE  /\ HostCloses(C)[c].down = conn[c].down
           /\ HostCloses(C)[c].host \in {"closed", conn[c].host}
<1>1. conn[c] \in Link
  BY LinkOf DEF NetTyped
<1> QED BY <1>1 DEF HostCloses, Link, ConnType

\* Only the accepting thread takes a connection up, and a broadcast goes to peers only.
LEMMA HostHears == ASSUME NetTyped, Joining, HostNet PROVE HeardBefore
<1>0. host \in Host /\ (host.loop = "hand" => host.joiner \in DOMAIN conn)
  BY DEF NetTyped
<1>b. \A c \in DOMAIN conn : conn'[c].host = "backlog" => conn[c].host = "backlog"
  BY BacklogKept
<1>1. CASE StartHost
  <2>1. host'.loop = "poll" /\ Peers' = {} /\ conn' = HostCloses(Peers)
    BY <1>1, <1>0 DEF StartHost, Host, HostType, Peers
  <2> QED BY <1>b, <2>1, ClosesKeeps DEF HeardBefore, Unheard
<1>2. CASE HostLeave
  <2>1. /\ host'.loop = host.loop /\ host'.joiner = host.joiner /\ Peers' = {}
        /\ conn' = HostCloses(Peers \cup {c \in DOMAIN conn : conn[c].host = "backlog"})
    BY <1>2, <1>0 DEF HostLeave, Host, HostType, Peers
  <2> QED BY <1>0, <1>b, <2>1, ClosesKeeps DEF HeardBefore, Unheard, Joining
<1>3. CASE HostLeaveJoin \/ PollTimeout \/ (\E p \in Project : SetProjectSnapshot(p))
  <2>1. /\ Peers' = Peers /\ conn' = conn
        /\ host'.loop = "hand" => host.loop = "hand" /\ host'.joiner = host.joiner
    <3>1. CASE HostLeaveJoin
      BY <1>0, <3>1 DEF HostLeaveJoin, Host, HostType, Peers
    <3>2. CASE PollTimeout
      BY <1>0, <3>2 DEF PollTimeout, NextRound, Host, HostType, Peers
    <3>3. ASSUME NEW p \in Project, SetProjectSnapshot(p)
          PROVE  /\ Peers' = Peers /\ conn' = conn
                 /\ host'.loop = "hand" => host.loop = "hand" /\ host'.joiner = host.joiner
      BY <1>0, <3>3 DEF SetProjectSnapshot, Host, HostType, Peers
    <3> QED BY <1>3, <3>1, <3>2, <3>3
  <2> QED BY <2>1 DEF HeardBefore, Unheard, Joining
<1>4. CASE UNCHANGED netVars
  <2>1. host' = host /\ conn' = conn
    BY <1>4 DEF netVars
  <2> QED BY <2>1 DEF HeardBefore, Unheard, Joining, Peers
<1>5. ASSUME NEW m \in Msg, Broadcast(m) PROVE HeardBefore
  <2>1. PICK F \in MayFail : conn' = Sent(m, F) /\ host' = [host EXCEPT !.peers = @ \ F]
    BY <1>5 DEF Broadcast
  <2>2. host'.loop = host.loop /\ host'.joiner = host.joiner /\ Peers' \subseteq Peers
    BY <1>0, <2>1 DEF Host, HostType, Peers
  <2>3. ASSUME NEW c \in DOMAIN conn
        PROVE  /\ c \notin Peers => conn'[c].down = conn[c].down
               /\ conn'[c].host \in {"closed", conn[c].host}
    <3>1. conn[c] \in Link
      BY LinkOf DEF NetTyped
    <3> QED BY <2>1, <3>1 DEF Sent, MayFail, Link, ConnType
  <2> QED BY <1>0, <2>2, <2>3 DEF HeardBefore, Unheard, Joining
<1>6. CASE AddPeer
  <2> DEFINE c == host.joiner
  <2>1. /\ host.loop = "hand" /\ c \in DOMAIN conn /\ conn[c].host # "backlog"
        /\ host'.loop # "hand" /\ Peers' \subseteq Peers \cup {c}
    BY <1>6, <1>0 DEF AddPeer, NextRound, Host, HostType, Peers, Joining
  <2>2. ASSUME NEW d \in DOMAIN conn \ {c} PROVE conn'[d].down = conn[d].down
    <3>1. conn' = conn \/ conn' = HostCloses({c})
          \/ conn' = [conn EXCEPT ![c].down = Append(@, host.snap)]
      BY <1>6 DEF AddPeer
    <3>2. CASE conn' = [conn EXCEPT ![c].down = Append(@, host.snap)]
      BY <3>2
    <3>3. CASE conn' = conn \/ conn' = HostCloses({c})
      BY <3>3, ClosesKeeps
    <3> QED BY <3>1, <3>2, <3>3
  <2> QED BY <1>b, <2>1, <2>2 DEF HeardBefore, Unheard, Joining
<1>7. ASSUME NEW c \in Conn, Accept(c) PROVE HeardBefore
  <2>1. /\ c \in DOMAIN conn /\ conn[c].host = "backlog" /\ host.loop # "hand"
        /\ host'.loop = "hand" /\ host'.joiner = c /\ Peers' = Peers
    BY <1>0, <1>7 DEF Accept, Host, HostType, Peers
  <2>2. conn[c] \in Link /\ conn' = [conn EXCEPT ![c].host = "open"]
    BY <1>7, <2>1, LinkOf DEF Accept, NetTyped
  <2>3. conn'[c].host = "open" /\ \A d \in DOMAIN conn : conn'[d].down = conn[d].down
    BY <2>1, <2>2 DEF Link, ConnType
  <2> QED BY <1>b, <2>1, <2>3 DEF HeardBefore, Unheard, Joining
<1>8. ASSUME NEW c \in Conn, Reap(c) PROVE HeardBefore
  <2>1. host'.loop # "hand" /\ Peers' \subseteq Peers /\ conn' = HostCloses({c})
    BY <1>0, <1>8 DEF Reap, NextRound, Host, HostType, Peers
  <2> QED BY <1>b, <2>1, ClosesKeeps DEF HeardBefore, Unheard, Joining
<1> QED BY <1>1, <1>2, <1>3, <1>4, <1>5, <1>6, <1>7, <1>8 DEF HostNet, HostLoop

\* What was broadcast to the connections that are no peers is forgotten.
LEMMA ReachedStep ==
    ASSUME Typed, [Next]_vars
    PROVE  \/ reached' = reached
           \/ HostNet /\ \A c \in Conn \ Peers' : reached'[c] = {}
<1>1. CASE Send
  <2>1. HostNet
    <3>1. Head(outbox) \in Task
      BY <1>1 DEF Send, Typed, AppTyped
    <3>2. Head(outbox).msg \in Msg
      BY <1>1, <3>1 DEF Send, Task
    <3> QED BY <1>1, <3>2 DEF Send, HostNet
  <2> QED BY <1>1, <2>1 DEF Send, Peers
<1>2. CASE ~Send
  BY <1>2 DEF Next, CreateSession, UserActs, Tick, EndSession, HostMain, Store, CountPeers,
     HostEnded, HostThread, JoinSession, LeaveSession, SpecMain, DrainSync, SpecEnded,
     SpecThread, appVars, vars
<1> QED BY <1>1, <1>2

\* No step of either end puts anything on such a connection.
LEMMA JoiningStep == ASSUME Typed, Joining, [Next]_vars PROVE Joining'
<1>t. NetTyped /\ IsConns(conn)
  BY DEF Typed, NetTyped
<1>c. DOMAIN conn \subseteq Conn
  BY <1>t, ConnsInConn
<1>v. \A s \in Spectator : spec[s] \in Viewer /\ Sound(spec[s], DOMAIN conn)
  BY <1>t DEF NetTyped
<1>1. CASE HostNet
  <2>1. spec' = spec /\ DOMAIN conn' = DOMAIN conn
    BY <1>1, <1>t, HostKeeps
  <2>2. HeardBefore
    BY <1>1, <1>t, HostHears
  <2>3. \/ reached' = reached
        \/ \A c \in Conn \ Peers' : reached'[c] = {}
    BY ReachedStep
  <2>4. \A c \in Conn \ DOMAIN conn' : reached'[c] = {}
    BY <2>1, <2>2, <2>3 DEF HeardBefore, Joining
  <2>5. \A c \in DOMAIN conn' : Unheard(c)' =>
           c \notin Peers' /\ conn'[c].down = <<>> /\ reached'[c] = {}
    BY <1>c, <2>1, <2>2, <2>3 DEF HeardBefore, Joining
  <2>6. \A s \in Spectator : (spec'[s].role = "Spectator" /\ Unheard(spec[s].conn)') =>
           spec'[s].inbound = <<>> /\ spec'[s].recv # "push"
    BY <1>v, <2>1, <2>2 DEF HeardBefore, Joining, Sound
  <2> QED BY <2>1, <2>2, <2>4, <2>5, <2>6 DEF HeardBefore, Joining
<1>2. ASSUME NEW s \in Spectator, SpecNet(s), ~HostNet PROVE Joining'
  <2> DEFINE c == spec[s].conn
  <2>1. /\ host' = host /\ \A t \in Spectator \ {s} : spec'[t] = spec[t]
        /\ \A d \in DOMAIN conn : /\ d \in DOMAIN conn' /\ conn'[d].host = conn[d].host
                                  /\ d # c => conn'[d] = conn[d]
    BY <1>2, <1>t, SpecKeeps
  <2>2. reached' = reached
    BY <1>2, ReachedStep
  <2>3. Peers' = Peers /\ Peers' \subseteq DOMAIN conn'
    BY <2>1 DEF Peers, Joining
  <2>4. host'.loop = "hand" => conn'[host'.joiner].host # "backlog"
    BY <1>t, <2>1 DEF Joining, NetTyped
  <2>5. \A d \in DOMAIN conn : Unheard(d)' <=> Unheard(d)
    BY <2>1 DEF Unheard
  <2>6. \A d \in Conn \ DOMAIN conn' : reached'[d] = {}
    BY <2>1, <2>2 DEF Joining
  <2>7. CASE Join(s)
    <3>1. /\ conn' = Append(conn, [host |-> "backlog", spec |-> "open", down |-> <<>>])
          /\ Len(conn) < MaxConns /\ spec[s].role = "None"
      BY <2>7 DEF Join
    <3>2. /\ DOMAIN conn' = DOMAIN conn \cup {Len(conn) + 1} /\ Len(conn) + 1 \notin DOMAIN conn
          /\ conn'[Len(conn) + 1].down = <<>> /\ \A d \in DOMAIN conn : conn'[d] = conn[d]
      BY <1>t, <3>1 DEF IsConns
    <3>3. Len(conn) + 1 \in Conn
      BY <1>t, <3>1, SessionAssumption DEF IsConns, Conn
    <3>4. \A d \in DOMAIN conn' : Unheard(d)' =>
             d \notin Peers' /\ conn'[d].down = <<>> /\ reached'[d] = {}
      BY <2>2, <2>3, <2>5, <3>2, <3>3 DEF Joining
    <3>5. spec'[s].inbound = <<>> /\ spec'[s].recv # "push"
      BY <2>7, <3>1, <1>v, <1>t DEF Join, Sound, NetTyped, Viewer, SpecType
    <3>6. ASSUME NEW t \in Spectator, spec'[t].role = "Spectator", Unheard(spec[t].conn)',
                 t # s
          PROVE  spec'[t].inbound = <<>> /\ spec'[t].recv # "push"
      BY <1>v, <2>1, <2>5, <3>6 DEF Joining, Sound
    <3> QED BY <2>1, <2>3, <2>4, <2>6, <3>4, <3>5, <3>6 DEF Joining
  <2>8. CASE ~Join(s)
    <3>1. DOMAIN conn' = DOMAIN conn
      BY <1>2, <2>8, <1>t DEF SpecNet, SpecLeave, CloseSocket, SpecLeaveJoin, RecvData, RecvEnd,
         RecvPush, Drain
    <3>s. spec[s] \in Viewer /\ spec \in [Spectator -> Viewer]
      BY <1>t DEF NetTyped
    <3>2. ASSUME c \in DOMAIN conn, Unheard(c) PROVE conn'[c].down = <<>>
      <4>1. conn[c] \in Link /\ conn[c].down = <<>>
        BY <1>t, <3>2, LinkOf DEF Joining
      <4>2. ~RecvData(s)
        BY <4>1 DEF RecvData, Mine
      <4>3. conn' = conn \/ conn' = CloseSocket(c)
        BY <1>2, <2>8, <4>2 DEF SpecNet, SpecLeave, SpecLeaveJoin, RecvEnd, RecvPush, Drain
      <4> QED BY <3>2, <4>1, <4>3 DEF CloseSocket, Link, ConnType
    <3>3. \A d \in DOMAIN conn' : Unheard(d)' =>
             d \notin Peers' /\ conn'[d].down = <<>> /\ reached'[d] = {}
      BY <2>1, <2>2, <2>3, <2>5, <3>1, <3>2 DEF Joining
    <3>4. ASSUME spec'[s].role = "Spectator", Unheard(spec[s].conn)'
          PROVE  spec'[s].inbound = <<>> /\ spec'[s].recv # "push"
      <4>1. spec[s].role = "Spectator" /\ spec'[s].conn = c
        <5>1. CASE SpecLeave(s)
          BY <3>s, <5>1 DEF SpecLeave, Viewer, SpecType
        <5>2. CASE SpecLeaveJoin(s)
          BY <3>s, <3>4, <5>2 DEF SpecLeaveJoin, Viewer, SpecType
        <5>3. CASE RecvData(s)
          BY <3>s, <3>4, <5>3 DEF RecvData, Viewer, SpecType
        <5>4. CASE RecvEnd(s)
          BY <3>s, <3>4, <5>4 DEF RecvEnd, Viewer, SpecType
        <5>5. CASE RecvPush(s)
          BY <3>s, <3>4, <5>5 DEF RecvPush, Viewer, SpecType
        <5>6. CASE Drain(s)
          BY <3>s, <3>4, <5>6 DEF Drain, Viewer, SpecType
        <5> QED BY <1>2, <2>8, <5>1, <5>2, <5>3, <5>4, <5>5, <5>6 DEF SpecNet
      <4>2. c \in DOMAIN conn /\ Unheard(c)
        BY <1>v, <2>5, <3>4, <4>1 DEF Sound
      <4>3. spec[s].inbound = <<>> /\ spec[s].recv # "push" /\ conn[c].down = <<>>
        BY <4>1, <4>2 DEF Joining
      <4>4. ~RecvData(s) /\ ~RecvPush(s)
        BY <4>3 DEF RecvData, Mine, RecvPush
      <4>5. CASE SpecLeave(s)
        BY <3>s, <4>3, <4>5 DEF SpecLeave, Viewer, SpecType
      <4>6. CASE RecvEnd(s)
        BY <3>s, <4>3, <4>6 DEF RecvEnd, Viewer, SpecType
      <4>7. CASE Drain(s)
        BY <3>s, <4>3, <4>7 DEF Drain, Viewer, SpecType
      <4>8. CASE SpecLeaveJoin(s)
        BY <3>s, <3>4, <4>8 DEF SpecLeaveJoin, Viewer, SpecType
      <4> QED BY <1>2, <2>8, <4>4, <4>5, <4>6, <4>7, <4>8 DEF SpecNet
    <3>5. ASSUME NEW t \in Spectator, spec'[t].role = "Spectator", Unheard(spec[t].conn)',
                 t # s
          PROVE  spec'[t].inbound = <<>> /\ spec'[t].recv # "push"
      BY <1>v, <2>1, <2>5, <3>5 DEF Joining, Sound
    <3> QED BY <2>1, <2>3, <2>4, <2>6, <3>3, <3>4, <3>5 DEF Joining
  <2> QED BY <2>7, <2>8
<1> QED BY <1>1, <1>2, NetSteps

============================================================================
