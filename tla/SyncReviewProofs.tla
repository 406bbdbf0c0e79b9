-------------------------- MODULE SyncReviewProofs --------------------------
(***************************************************************************)
(* That a spectator of a sync review never goes back to an older project,  *)
(* and shows the latest project and framing once it has applied everything *)
(* (but for a pan no frame was there for), for every number of spectators, *)
(* connections and changes.                                                *)
(*                                                                         *)
(* Both are about Coming(s): all that was sent to s and not applied, in    *)
(* the socket, in the receiver thread's hand and in the queue. The         *)
(* receiver thread moves messages along it and changes nothing; a          *)
(* broadcast, or the accepting thread, appends one; drainSync() takes the  *)
(* first ones off and applies them.                                        *)
(***************************************************************************)
EXTENDS SyncNetProofs

----------------------------------------------------------------------------
(* What is applied.                                                        *)

\* The newest of a kind is the one no other of the kind follows.
LEMMA LastIs ==
    ASSUME NEW q \in Seq(Msg), NEW k, NEW i \in DOMAIN q, q[i].kind = k,
           \A j \in DOMAIN q : q[j].kind = k => j <= i
    PROVE  Has(q, k) /\ LastOf(q, k) = i
<1>1. Has(q, k)
  BY DEF Has
<1>2. /\ LastOf(q, k) \in DOMAIN q /\ q[LastOf(q, k)].kind = k
      /\ \A j \in DOMAIN q : q[j].kind = k => j <= LastOf(q, k)
  BY <1>1, NewestExists
<1>3. LastOf(q, k) <= i /\ i <= LastOf(q, k)
  BY <1>2
<1>4. i \in Int /\ LastOf(q, k) \in Int
  BY <1>2
<1> HIDE DEF LastOf
<1> QED BY <1>1, <1>3, <1>4

\* The newest of a kind in two sequences one after the other.
LEMMA NewestOfTwo ==
    ASSUME NEW a \in Seq(Msg), NEW b \in Seq(Msg), NEW k
    PROVE  /\ Has(a \o b, k) <=> Has(a, k) \/ Has(b, k)
           /\ Has(b, k) => (a \o b)[LastOf(a \o b, k)] = b[LastOf(b, k)]
           /\ (Has(a, k) /\ ~Has(b, k)) => (a \o b)[LastOf(a \o b, k)] = a[LastOf(a, k)]
<1> DEFINE ab == a \o b
           n == Len(a)
           m == Len(b)
<1>1. /\ ab \in Seq(Msg) /\ n \in Nat /\ m \in Nat /\ DOMAIN a = 1 .. n /\ DOMAIN b = 1 .. m
      /\ DOMAIN ab = 1 .. n + m
      /\ \A i \in 1 .. n + m : ab[i] = IF i <= n THEN a[i] ELSE b[i - n]
  BY ConcatProperties
<1> HIDE DEF ab, n, m
<1>2. \A i \in 1 .. n : i \in 1 .. n + m /\ ab[i] = a[i]
  BY <1>1
<1>3. \A i \in 1 .. m : n + i \in 1 .. n + m /\ ab[n + i] = b[i]
  <2> SUFFICES ASSUME NEW i \in 1 .. m PROVE n + i \in 1 .. n + m /\ ab[n + i] = b[i]
    OBVIOUS
  <2>1. n + i \in 1 .. n + m /\ ~(n + i <= n) /\ (n + i) - n = i
    BY <1>1
  <2> QED BY <1>1, <2>1
<1>4. \A i \in 1 .. n + m : \/ i \in 1 .. n
                            \/ i - n \in 1 .. m /\ ab[i] = b[i - n]
  BY <1>1
<1>5. Has(ab, k) <=> Has(a, k) \/ Has(b, k)
  <2>1. ASSUME Has(a, k) PROVE Has(ab, k)
    <3>1. PICK i \in 1 .. n : a[i].kind = k
      BY <1>1, <2>1 DEF Has
    <3> QED BY <1>1, <1>2, <3>1 DEF Has
  <2>2. ASSUME Has(b, k) PROVE Has(ab, k)
    <3>1. PICK i \in 1 .. m : b[i].kind = k
      BY <1>1, <2>2 DEF Has
    <3> QED BY <1>1, <1>3, <3>1 DEF Has
  <2>3. ASSUME Has(ab, k) PROVE Has(a, k) \/ Has(b, k)
    <3>1. PICK i \in 1 .. n + m : ab[i].kind = k
      BY <1>1, <2>3 DEF Has
    <3> QED BY <1>1, <1>2, <1>4, <3>1 DEF Has
  <2> QED BY <2>1, <2>2, <2>3
<1>6. ASSUME Has(b, k) PROVE ab[LastOf(ab, k)] = b[LastOf(b, k)]
  <2> DEFINE l == LastOf(b, k)
  <2>1. l \in 1 .. m /\ b[l].kind = k /\ \A j \in 1 .. m : b[j].kind = k => j <= l
    BY <1>1, <1>6, NewestExists
  <2> HIDE DEF l
  <2>2. n + l \in DOMAIN ab /\ ab[n + l] = b[l]
    BY <1>1, <1>3, <2>1
  <2>3. ASSUME NEW j \in DOMAIN ab, ab[j].kind = k PROVE j <= n + l
    <3>1. CASE j \in 1 .. n
      BY <1>1, <2>1, <3>1
    <3>2. CASE j - n \in 1 .. m /\ ab[j] = b[j - n]
      <4>1. j - n <= l
        BY <2>1, <2>3, <3>2
      <4> QED BY <1>1, <2>1, <4>1
    <3> QED BY <1>1, <1>4, <3>1, <3>2
  <2>4. LastOf(ab, k) = n + l
    BY <1>1, <2>1, <2>2, <2>3, LastIs
  <2> QED BY <2>2, <2>4 DEF l
<1>7. ASSUME Has(a, k), ~Has(b, k) PROVE ab[LastOf(ab, k)] = a[LastOf(a, k)]
  <2> DEFINE l == LastOf(a, k)
  <2>1. l \in 1 .. n /\ a[l].kind = k /\ \A j \in 1 .. n : a[j].kind = k => j <= l
    BY <1>1, <1>7, NewestExists
  <2> HIDE DEF l
  <2>2. l \in DOMAIN ab /\ ab[l] = a[l]
    BY <1>1, <1>2, <2>1
  <2>3. ASSUME NEW j \in DOMAIN ab, ab[j].kind = k PROVE j <= l
    <3>1. CASE j \in 1 .. n
      BY <1>2, <2>1, <2>3, <3>1
    <3>2. CASE j - n \in 1 .. m /\ ab[j] = b[j - n]
      BY <1>1, <1>7, <2>3, <3>2 DEF Has
    <3> QED BY <1>1, <1>4, <3>1, <3>2
  <2>4. LastOf(ab, k) = l
    <3>1. ab[l].kind = k /\ ab \in Seq(Msg)
      BY <1>1, <2>1, <2>2
    <3> QED BY <2>2, <2>3, <3>1, LastIs
  <2> QED BY <2>2, <2>4 DEF l
<1> QED BY <1>5, <1>6, <1>7 DEF ab

\* Applying two runs of messages one after the other is applying both, for the project.
LEMMA AppliedConcat ==
    ASSUME NEW v \in App, NEW a \in Seq(Msg), NEW b \in Seq(Msg),
           NEW g \in BOOLEAN, NEW h \in BOOLEAN
    PROVE  Applied(v, a \o b, h).doc = Applied(Applied(v, a, g), b, h).doc
<1> DEFINE ab == a \o b
           w == Applied(v, a, g)
<1>1. /\ Has(ab, "Project") <=> Has(a, "Project") \/ Has(b, "Project")
      /\ Has(b, "Project") => ab[LastOf(ab, "Project")] = b[LastOf(b, "Project")]
      /\ (Has(a, "Project") /\ ~Has(b, "Project")) =>
            ab[LastOf(ab, "Project")] = a[LastOf(a, "Project")]
  BY NewestOfTwo
<1>2. w.doc = IF Has(a, "Project") THEN a[LastOf(a, "Project")].doc ELSE v.doc
  BY DEF Applied
<1> HIDE DEF ab, w
<1>3. (IF Has(ab, "Project") THEN ab[LastOf(ab, "Project")].doc ELSE v.doc)
      = (IF Has(b, "Project") THEN b[LastOf(b, "Project")].doc ELSE w.doc)
  BY <1>1, <1>2
<1>4. Applied(v, ab, h).doc = Applied(w, b, h).doc
  BY <1>3 DEF Applied
<1> QED BY <1>4 DEF ab, w

\* One message more at the end is the newest of its kind.
LEMMA NewestAppended ==
    ASSUME NEW q \in Seq(Msg), NEW m \in Msg, NEW k
    PROVE  /\ Has(Append(q, m), k) <=> m.kind = k \/ Has(q, k)
           /\ m.kind = k => Append(q, m)[LastOf(Append(q, m), k)] = m
           /\ (Has(q, k) /\ m.kind # k) =>
                 Append(q, m)[LastOf(Append(q, m), k)] = q[LastOf(q, k)]
<1> DEFINE b == <<m>>
<1>1. b \in Seq(Msg) /\ DOMAIN b = {1} /\ b[1] = m
  OBVIOUS
<1>2. Append(q, m) = q \o b
  BY AppendIsConcat
<1> HIDE DEF b
<1>3. Has(b, k) <=> m.kind = k
  BY <1>1 DEF Has
<1>4. Has(b, k) => b[LastOf(b, k)] = m
  BY <1>1, NewestExists
<1>5. /\ Has(q \o b, k) <=> Has(q, k) \/ Has(b, k)
      /\ Has(b, k) => (q \o b)[LastOf(q \o b, k)] = b[LastOf(b, k)]
      /\ (Has(q, k) /\ ~Has(b, k)) => (q \o b)[LastOf(q \o b, k)] = q[LastOf(q, k)]
  BY <1>1, NewestOfTwo
<1> QED BY <1>2, <1>3, <1>4, <1>5

\* What is shown after some messages is what was shown, or one of them.
LEMMA AppliedDoc ==
    ASSUME NEW v \in App, NEW q \in Seq(Msg), NEW g \in BOOLEAN
    PROVE  \/ Applied(v, q, g).doc = v.doc
           \/ \E i \in DOMAIN q : q[i].kind = "Project" /\ Applied(v, q, g).doc = q[i].doc
<1>1. CASE Has(q, "Project")
  BY <1>1, NewestExists DEF Applied
<1>2. CASE ~Has(q, "Project")
  BY <1>2 DEF Applied
<1> QED BY <1>1, <1>2

----------------------------------------------------------------------------
(* What is under way to a spectator.                                       *)

Attends(s) == spec[s].role = "Spectator" /\ ~spec[s].leaving

InHand(s) == IF spec[s].recv = "push" THEN <<spec[s].hand>> ELSE <<>>

\* What has been sent to s and not applied, in the order it will be.
Coming(s) == Queued(s) \o (InHand(s) \o Mine(s).down)

\* What is under way are messages.
LEMMA PartsTyped ==
    ASSUME NetTyped, NEW s \in Spectator, spec[s].role = "Spectator"
    PROVE  /\ Queued(s) \in Seq(Msg) /\ InHand(s) \in Seq(Msg) /\ Mine(s).down \in Seq(Msg)
           /\ Coming(s) \in Seq(Msg) /\ spec[s].conn \in DOMAIN conn
<1>1. spec[s].conn \in DOMAIN conn
  BY DEF NetTyped, Sound
<1>2. Mine(s).down \in Seq(Msg)
  BY <1>1, LinkOf, LinkUpdates DEF NetTyped, Mine
<1>3. InHand(s) \in Seq(Msg)
  <2>1. spec[s].recv = "push" => spec[s].hand \in Msg
    BY DEF NetTyped, Sound
  <2>2. CASE spec[s].recv = "push"
    BY <2>1, <2>2 DEF InHand
  <2>3. CASE spec[s].recv # "push"
    BY <2>3, EmptySeq DEF InHand
  <2> QED BY <2>2, <2>3
<1>4. Queued(s) \in Seq(Msg)
  BY QueuedTyped
<1>5. InHand(s) \o Mine(s).down \in Seq(Msg)
  BY <1>2, <1>3, ConcatProperties
<1>6. Coming(s) \in Seq(Msg)
  BY <1>4, <1>5, ConcatProperties DEF Coming
<1> QED BY <1>1, <1>2, <1>3, <1>4, <1>6

\* Nothing queued, in hand or in the socket.
LEMMA NothingUnderWay ==
    ASSUME NetTyped, NEW s \in Spectator, spec[s].role = "Spectator",
           spec[s].inbound = <<>>, spec[s].recv # "push", Mine(s).down = <<>>
    PROVE  Coming(s) = <<>>
<1>1. Queued(s) = <<>>
  <2>1. Queued(s) \in Seq(Msg) /\ Len(Queued(s)) = 0
    BY QueuedTyped
  <2> QED BY <2>1, EmptySeq
<1>2. InHand(s) = <<>>
  BY DEF InHand
<1>3. <<>> \o (<<>> \o <<>>) = <<>>
  OBVIOUS
<1> QED BY <1>1, <1>2, <1>3 DEF Coming

\* The same Session, whose connection carries the same messages.
LEMMA ComingSame ==
    ASSUME NEW s \in Spectator, spec'[s] = spec[s],
           conn'[spec[s].conn].down = conn[spec[s].conn].down
    PROVE  Coming(s)' = Coming(s)
<1>1. Queued(s)' = Queued(s) /\ InHand(s)' = InHand(s)
  BY DEF Queued, InHand
<1>2. Mine(s).down' = Mine(s).down
  BY DEF Mine
<1> QED BY <1>1, <1>2 DEF Coming

\* One message more.
LEMMA ComingSent ==
    ASSUME NetTyped, NEW s \in Spectator, spec[s].role = "Spectator", spec'[s] = spec[s],
           NEW m \in Msg, conn'[spec[s].conn].down = Append(conn[spec[s].conn].down, m)
    PROVE  Coming(s)' = Append(Coming(s), m)
<1> DEFINE d == Mine(s).down
           q == Queued(s)
           h == InHand(s)
<1>1. Queued(s)' = q /\ InHand(s)' = h
  BY DEF Queued, InHand
<1>2. Mine(s).down' = Append(d, m)
  BY DEF Mine
<1>3. q \in Seq(Msg) /\ h \in Seq(Msg) /\ d \in Seq(Msg)
  BY PartsTyped
<1>4. Coming(s) = q \o (h \o d) /\ Coming(s)' = q \o (h \o Append(d, m))
  BY <1>1, <1>2 DEF Coming
<1> HIDE DEF q, h, d
<1>5. h \o Append(d, m) = Append(h \o d, m) /\ h \o d \in Seq(Msg)
  BY <1>3
<1>6. q \o Append(h \o d, m) = Append(q \o (h \o d), m)
  BY <1>3, <1>5
<1> QED BY <1>4, <1>5, <1>6

\* The receiver thread takes a message over: it stays where it was.
LEMMA ComingReceived ==
    ASSUME NetTyped, NEW s \in Spectator, RecvData(s)
    PROVE  Coming(s)' = Coming(s)
<1> DEFINE c == spec[s].conn
           d == Mine(s).down
           q == Queued(s)
<1>0. spec[s] \in Viewer /\ Sound(spec[s], DOMAIN conn) /\ spec[s].recv = "recv" /\ d # <<>>
      /\ spec \in [Spectator -> Viewer]
  BY DEF NetTyped, RecvData, Waits
<1>1. spec[s].role = "Spectator"
  BY <1>0 DEF Viewer, SpecType, Sound
<1>2. q \in Seq(Msg) /\ d \in Seq(Msg) /\ c \in DOMAIN conn
  BY <1>1, PartsTyped
<1>3. conn[c] \in Link
  BY <1>2, LinkOf DEF NetTyped
<1>4. /\ spec'[s].inbound = spec[s].inbound /\ spec'[s].conn = c /\ spec'[s].recv = "push"
      /\ spec'[s].hand = Head(d)
  BY <1>0 DEF RecvData, Viewer, SpecType
<1>5. conn'[c].down = Tail(d)
  BY <1>2, <1>3 DEF RecvData, Mine, Link, ConnType
<1>6. Queued(s)' = q /\ InHand(s)' = <<Head(d)>> /\ Mine(s).down' = Tail(d) /\ InHand(s) = <<>>
  BY <1>0, <1>4, <1>5 DEF Queued, InHand, Mine
<1>7. Coming(s) = q \o (<<>> \o d) /\ Coming(s)' = q \o (<<Head(d)>> \o Tail(d))
  BY <1>6 DEF Coming
<1> HIDE DEF d, q
<1>8. <<Head(d)>> \o Tail(d) = d /\ <<>> \o d = d
  BY <1>0, <1>2
<1> QED BY <1>7, <1>8

\* It queues it: it stays where it was.
LEMMA ComingQueued ==
    ASSUME NetTyped, NEW s \in Spectator, RecvPush(s)
    PROVE  Coming(s)' = Coming(s)
<1> DEFINE d == Mine(s).down
           q == Queued(s)
           h == spec[s].hand
           e == [from |-> spec[s].conn, msg |-> h]
<1>0. spec[s] \in Viewer /\ Sound(spec[s], DOMAIN conn) /\ spec[s].recv = "push"
      /\ spec \in [Spectator -> Viewer]
  BY DEF NetTyped, RecvPush
<1>1. spec[s].role = "Spectator" /\ h \in Msg
  BY <1>0 DEF Viewer, SpecType, Sound
<1>2. q \in Seq(Msg) /\ d \in Seq(Msg)
  BY <1>1, PartsTyped
<1>3. /\ spec'[s].inbound = Append(spec[s].inbound, e) /\ spec'[s].conn = spec[s].conn
      /\ spec'[s].recv # "push" /\ conn' = conn
  BY <1>0 DEF RecvPush, Viewer, SpecType
<1>4. InHand(s)' = <<>> /\ Mine(s).down' = d /\ InHand(s) = <<h>>
  BY <1>0, <1>3 DEF InHand, Mine
<1>5. Queued(s)' = Append(q, h)
  <2> DEFINE b == spec[s].inbound
             E == [from : Conn, msg : Msg]
  <2>1. b \in Seq(E)
    BY <1>0 DEF Viewer, SpecType
  <2>2. Queued(s)' = [i \in DOMAIN Append(b, e) |-> Append(b, e)[i].msg]
    BY <1>3 DEF Queued
  <2>3. q = [i \in DOMAIN b |-> b[i].msg]
    BY DEF Queued
  <2>4. e.msg = h
    OBVIOUS
  <2> HIDE DEF e, b, E, q, h
  <2>5. DOMAIN b = 1 .. Len(b) /\ Len(b) \in Nat /\ Len(q) = Len(b)
    BY <1>2, <2>1, <2>3
  <2>6. /\ DOMAIN Append(b, e) = 1 .. Len(b) + 1 /\ Append(b, e)[Len(b) + 1] = e
        /\ \A i \in 1 .. Len(b) : Append(b, e)[i] = b[i]
    BY <2>1, <2>5
  <2>7. /\ DOMAIN Append(q, h) = 1 .. Len(b) + 1 /\ Append(q, h)[Len(b) + 1] = h
        /\ \A i \in 1 .. Len(b) : Append(q, h)[i] = b[i].msg
    BY <1>2, <2>3, <2>5
  <2>8. Append(q, h) = [i \in 1 .. Len(b) + 1 |-> Append(q, h)[i]]
    <3>1. Append(q, h) \in Seq(Msg) /\ Len(Append(q, h)) = Len(b) + 1
      BY <1>1, <1>2, <2>5, AppendProperties
    <3>2. Append(q, h) \in [1 .. Len(b) + 1 -> Msg]
      BY <3>1, LenProperties
    <3> QED BY <3>2
  <2>9. \A i \in 1 .. Len(b) + 1 : Append(b, e)[i].msg = Append(q, h)[i]
    BY <2>4, <2>5, <2>6, <2>7
  <2> QED BY <2>2, <2>6, <2>8, <2>9
<1>6. Coming(s) = q \o (<<h>> \o d) /\ Coming(s)' = Append(q, h) \o (<<>> \o d)
  BY <1>4, <1>5 DEF Coming
<1> HIDE DEF d, q, h
<1>7. Append(q, h) = q \o <<h>> /\ <<>> \o d = d /\ <<h>> \in Seq(Msg)
  BY <1>1, <1>2, AppendIsConcat
<1>8. (q \o <<h>>) \o d = q \o (<<h>> \o d)
  BY <1>2, <1>7, ConcatAssociative
<1> QED BY <1>6, <1>7, <1>8

\* What is applied is the first that was coming.
LEMMA ComingDrained ==
    ASSUME NetTyped, NEW s \in Spectator, spec[s].role = "Spectator", Drain(s)
    PROVE  Coming(s) = Queued(s) \o Coming(s)' /\ Coming(s)' \in Seq(Msg)
<1>0. spec[s] \in Viewer /\ spec \in [Spectator -> Viewer]
  BY DEF NetTyped
<1>1. /\ spec'[s].inbound = <<>> /\ spec'[s].conn = spec[s].conn /\ conn' = conn
      /\ spec'[s].recv = spec[s].recv /\ spec'[s].hand = spec[s].hand
  BY <1>0 DEF Drain, Viewer, SpecType
<1>2. Queued(s)' = <<>> /\ InHand(s)' = InHand(s) /\ Mine(s).down' = Mine(s).down
  BY <1>1 DEF Queued, InHand, Mine
<1>3. InHand(s) \in Seq(Msg) /\ Mine(s).down \in Seq(Msg)
  BY PartsTyped
<1>4. InHand(s) \o Mine(s).down \in Seq(Msg)
  BY <1>3, ConcatProperties
<1>5. Coming(s)' = <<>> \o (InHand(s) \o Mine(s).down)
  BY <1>2 DEF Coming
<1>6. Coming(s)' = InHand(s) \o Mine(s).down
  BY <1>4, <1>5, ConcatEmptySeq
<1> QED BY <1>4, <1>6 DEF Coming

----------------------------------------------------------------------------
(* What a step of the host sends.                                          *)

\* The steps of the host that send nothing.
QuietNet == \/ StartHost \/ HostLeave \/ HostLeaveJoin \/ PollTimeout \/ UNCHANGED netVars
            \/ \E p \in Project : SetProjectSnapshot(p)
            \/ \E d \in Conn : Accept(d) \/ Reap(d)

\* They leave every socket as it is.
LEMMA QuietHost ==
    ASSUME NetTyped, NEW c \in DOMAIN conn, QuietNet
    PROVE  conn'[c].down = conn[c].down
<1>1. CASE StartHost \/ HostLeave
  BY <1>1, ClosesKeeps DEF StartHost, HostLeave
<1>2. CASE HostLeaveJoin \/ PollTimeout \/ UNCHANGED netVars
           \/ \E p \in Project : SetProjectSnapshot(p)
  BY <1>2 DEF HostLeaveJoin, PollTimeout, netVars, SetProjectSnapshot
<1>3. ASSUME NEW d \in Conn, Accept(d) PROVE conn'[c].down = conn[c].down
  <2>1. conn[c] \in Link
    BY LinkOf DEF NetTyped
  <2> QED BY <1>3, <2>1 DEF Accept, Link, ConnType
<1>4. ASSUME NEW d \in Conn, Reap(d) PROVE conn'[c].down = conn[c].down
  BY <1>4, ClosesKeeps DEF Reap
<1> QED BY <1>1, <1>2, <1>3, <1>4 DEF QuietNet

\* A broadcast reaches every peer that is left and whose socket is not gone.
LEMMA BroadcastDown ==
    ASSUME NetTyped, NEW m \in Msg, Broadcast(m), NEW c \in DOMAIN conn
    PROVE  /\ Peers' \subseteq Peers
           /\ conn'[c].down = IF c \in Peers' /\ ~Gone(c) THEN Append(conn[c].down, m)
                              ELSE conn[c].down
<1>1. PICK F \in MayFail : conn' = Sent(m, F) /\ host' = [host EXCEPT !.peers = @ \ F]
  BY DEF Broadcast
<1>2. Peers' = Peers \ F
  BY <1>1 DEF NetTyped, Host, HostType, Peers
<1>3. conn[c] \in Link
  BY LinkOf DEF NetTyped
<1>4. CASE c \in F
  <2>1. conn'[c] = [conn[c] EXCEPT !.host = "closed"]
    BY <1>1, <1>4 DEF Sent
  <2> QED BY <1>2, <1>3, <1>4, <2>1 DEF Link, ConnType
<1>5. CASE c \in Peers \ F /\ ~Gone(c)
  <2>1. conn'[c] = [conn[c] EXCEPT !.down = Append(conn[c].down, m)]
    BY <1>1, <1>5 DEF Sent
  <2> QED BY <1>2, <1>3, <1>5, <2>1 DEF Link, ConnType
<1>6. CASE c \notin F /\ ~(c \in Peers \ F /\ ~Gone(c))
  <2>1. conn'[c] = conn[c]
    BY <1>1, <1>6 DEF Sent
  <2> QED BY <1>2, <1>6, <2>1
<1> QED BY <1>2, <1>4, <1>5, <1>6

\* The accepting thread sends the joiner the snapshot it holds, if it holds one.
LEMMA AddPeerDown ==
    ASSUME NetTyped, AddPeer, NEW c \in DOMAIN conn
    PROVE  \/ conn'[c].down = conn[c].down
           \/ /\ c = host.joiner /\ host.loop = "hand"
              /\ host.snap \in Project /\ host.snap # NoProject
              /\ conn'[c].down = Append(conn[c].down, host.snap)
<1>1. conn[c] \in Link
  BY LinkOf DEF NetTyped
<1>2. host.snap \in Project \cup {NoProject}
  BY DEF NetTyped, Host, HostType
<1>3. CASE conn' = conn \/ conn' = HostCloses({host.joiner})
  BY <1>3, ClosesKeeps
<1>4. CASE /\ conn' = [conn EXCEPT ![host.joiner].down = Append(@, host.snap)]
           /\ host.snap # NoProject
  <2>1. CASE c = host.joiner
    BY <1>1, <1>2, <1>4, <2>1 DEF AddPeer, Link, ConnType
  <2>2. CASE c # host.joiner
    BY <1>4, <2>2
  <2> QED BY <2>1, <2>2
<1> QED BY <1>3, <1>4 DEF AddPeer

\* An attending spectator's socket is not gone.
LEMMA AttendingIsThere ==
    ASSUME NetTyped, Wired, NEW s \in Spectator, Attends(s)
    PROVE  /\ spec[s].conn \in DOMAIN conn /\ conn[spec[s].conn].spec = "open"
           /\ ~Gone(spec[s].conn)
BY DEF NetTyped, Sound, Wired, Attends, Gone

----------------------------------------------------------------------------
(* The host's main thread.                                                 *)

Hosting == host.role = "Host" /\ ~host.leaving

Storing(p) == [do |-> "store", msg |-> p]
Sending(m) == [do |-> "send", msg |-> m]
Counting == [do |-> "count"]
ViewMsg(f) == [kind |-> "View", framing |-> f]

\* What a tick, or a load, still has to do: first the project, then the framing.
ToStore == LET p == SaveBuffer(app)
           IN outbox \in {<<Storing(p), Sending(p)>>, <<Storing(p), Sending(p), Counting>>}
ToSend == LET p == SaveBuffer(app)
          IN /\ outbox \in {<<Sending(p)>>, <<Sending(p), Counting>>}
             /\ host.snapshot = p
ToCount == outbox = <<Counting>>
ToView == outbox = <<Sending(ViewMsg(sent.framing))>> /\ sent.framing \in Framing

TickInv ==
    /\ outbox = <<>> \/ ToStore \/ ToSend \/ ToCount \/ ToView
    /\ outbox # <<>> => Hosting
    /\ host.leaving => host.role = "Host"

\* The heads and tails of these sequences.
LEMMA Tasks ==
    ASSUME NEW p, NEW m
    PROVE  LET s == Storing(p)  d == Sending(m)  c == Counting
           IN  /\ <<s, d>> # <<>> /\ Head(<<s, d>>) = s /\ Tail(<<s, d>>) = <<d>>
               /\ <<s, d, c>> # <<>> /\ Head(<<s, d, c>>) = s /\ Tail(<<s, d, c>>) = <<d, c>>
               /\ <<d>> # <<>> /\ Head(<<d>>) = d /\ Tail(<<d>>) = <<>>
               /\ <<d, c>> # <<>> /\ Head(<<d, c>>) = d /\ Tail(<<d, c>>) = <<c>>
               /\ <<c>> # <<>> /\ Head(<<c>>) = c /\ Tail(<<c>>) = <<>>
               /\ <<s, d>> \o <<c>> = <<s, d, c>> /\ <<>> \o <<c>> = <<c>>
<1> DEFINE s == Storing(p)
           d == Sending(m)
           c == Counting
<1> HIDE DEF s, d, c
<1>1. /\ <<s, d>> # <<>> /\ Head(<<s, d>>) = s /\ Tail(<<s, d>>) = <<d>>
      /\ <<s, d, c>> # <<>> /\ Head(<<s, d, c>>) = s /\ Tail(<<s, d, c>>) = <<d, c>>
      /\ <<d>> # <<>> /\ Head(<<d>>) = d /\ Tail(<<d>>) = <<>>
      /\ <<d, c>> # <<>> /\ Head(<<d, c>>) = d /\ Tail(<<d, c>>) = <<c>>
      /\ <<c>> # <<>> /\ Head(<<c>>) = c /\ Tail(<<c>>) = <<>>
  OBVIOUS
<1>2. <<s, d>> \o <<c>> = <<s, d, c>> /\ <<>> \o <<c>> = <<c>>
  <2>1. <<s, d>> \in Seq({s, d, c}) /\ c \in {s, d, c} /\ <<c>> \in Seq({s, d, c})
    OBVIOUS
  <2>2. Append(<<s, d>>, c) = <<s, d, c>>
    <3> DEFINE T == {s, d, c}
               a == Append(<<s, d>>, c)
               b == <<s, d, c>>
    <3>1. <<s, d>> \in Seq(T) /\ c \in T /\ b \in Seq(T) /\ Len(<<s, d>>) = 2
          /\ <<s, d>>[1] = s /\ <<s, d>>[2] = d
      OBVIOUS
    <3>2. Len(b) = 3 /\ b[1] = s /\ b[2] = d /\ b[3] = c
      OBVIOUS
    <3> HIDE DEF T
    <3>3. /\ a \in Seq(T) /\ Len(a) = 3
          /\ \A i \in 1 .. 2 : a[i] = <<s, d>>[i]
          /\ a[3] = c
      BY <3>1, AppendProperties
    <3> HIDE DEF a, b
    <3>4. \A i \in 1 .. Len(a) : a[i] = b[i]
      <4>1. \A i \in 1 .. 3 : i \in 1 .. 2 \/ i = 3
        OBVIOUS
      <4>2. a[1] = s /\ a[2] = d
        BY <3>1, <3>3
      <4> QED BY <3>2, <3>3, <4>2
    <3>5. a = b
      BY <3>1, <3>2, <3>3, <3>4, SeqEqual
    <3> QED BY <3>5 DEF a, b
  <2>3. Append(<<s, d>>, c) = <<s, d>> \o <<c>>
    BY <2>1, AppendIsConcat
  <2>4. <<>> \o <<c>> = <<c>>
    BY <2>1, ConcatEmptySeq
  <2> QED BY <2>2, <2>3, <2>4
<1> QED BY <1>1, <1>2 DEF s, d, c

\* What the tasks are.
LEMMA TaskKinds ==
    ASSUME NEW p, NEW m
    PROVE  /\ Storing(p).do = "store" /\ Storing(p).msg = p
           /\ Sending(m).do = "send" /\ Sending(m).msg = m /\ Counting.do = "count"
           /\ ViewMsg(m).kind = "View" /\ ViewMsg(m).framing = m
BY DEF Storing, Sending, Counting, ViewMsg

\* Which task is first, and what is left after it.
LEMMA FirstTask ==
    ASSUME TickInv, outbox # <<>>
    PROVE  /\ Head(outbox).do = "store" =>
                 /\ ToStore /\ Head(outbox).msg = SaveBuffer(app)
                 /\ Tail(outbox) \in {<<Sending(SaveBuffer(app))>>,
                                      <<Sending(SaveBuffer(app)), Counting>>}
           /\ Head(outbox).do = "send" =>
                 \/ /\ ToSend /\ Head(outbox).msg = SaveBuffer(app)
                    /\ Tail(outbox) \in {<<>>, <<Counting>>}
                 \/ /\ ToView /\ Head(outbox).msg = ViewMsg(sent.framing) /\ Tail(outbox) = <<>>
           /\ Head(outbox).do = "count" => ToCount
<1> DEFINE p == SaveBuffer(app)
<1>1. CASE ToStore
  <2>1. outbox \in {<<Storing(p), Sending(p)>>, <<Storing(p), Sending(p), Counting>>}
    BY <1>1 DEF ToStore
  <2> HIDE DEF p
  <2>2. Head(outbox) = Storing(p) /\ Tail(outbox) \in {<<Sending(p)>>, <<Sending(p), Counting>>}
    BY <2>1, Tasks
  <2> QED BY <1>1, <2>2, TaskKinds DEF p
<1>2. CASE ToSend
  <2>1. outbox \in {<<Sending(p)>>, <<Sending(p), Counting>>}
    BY <1>2 DEF ToSend
  <2> HIDE DEF p
  <2>2. Head(outbox) = Sending(p) /\ Tail(outbox) \in {<<>>, <<Counting>>}
    BY <2>1, Tasks
  <2> QED BY <1>2, <2>2, TaskKinds DEF p
<1>3. CASE ToCount
  <2>1. Head(outbox) = Counting
    BY <1>3, Tasks DEF ToCount
  <2> QED BY <1>3, <2>1, TaskKinds
<1>4. CASE ToView
  <2>1. Head(outbox) = Sending(ViewMsg(sent.framing)) /\ Tail(outbox) = <<>>
    BY <1>4, Tasks DEF ToView
  <2> QED BY <1>4, <2>1, TaskKinds
<1> QED BY <1>1, <1>2, <1>3, <1>4 DEF TickInv

\* A host's role, whether it is leaving and its snapshot stay, but for what changes them.
LEMMA HostStays ==
    ASSUME NetTyped, HostLoop \/ (\E m \in Msg : Broadcast(m)) \/ UNCHANGED netVars
           \/ (\E s \in Spectator : SpecNet(s))
    PROVE  host'.role = host.role /\ host'.leaving = host.leaving /\ host'.snapshot = host.snapshot
<1>0. host \in Host
  BY DEF NetTyped
<1>1. CASE PollTimeout
  BY <1>0, <1>1 DEF PollTimeout, Host, HostType
<1>2. CASE AddPeer
  BY <1>0, <1>2 DEF AddPeer, Host, HostType
<1>3. ASSUME NEW c \in Conn, Accept(c) \/ Reap(c)
      PROVE  host'.role = host.role /\ host'.leaving = host.leaving
             /\ host'.snapshot = host.snapshot
  BY <1>0, <1>3 DEF Accept, Reap, Host, HostType
<1>4. ASSUME NEW m \in Msg, Broadcast(m)
      PROVE  host'.role = host.role /\ host'.leaving = host.leaving
             /\ host'.snapshot = host.snapshot
  BY <1>0, <1>4 DEF Broadcast, Host, HostType
<1>5. CASE UNCHANGED netVars \/ \E s \in Spectator : SpecNet(s)
  BY <1>5, SpecKeeps DEF netVars
<1> QED BY <1>1, <1>2, <1>3, <1>4, <1>5 DEF HostLoop

\* The steps of the spectators, with what they leave of the review.
LEMMA SpecSteps ==
    ASSUME NEW s \in Spectator, JoinSession(s) \/ LeaveSession(s) \/ SpecMain(s) \/ SpecThread(s)
    PROVE  SpecNet(s) /\ UNCHANGED appVars
BY DEF JoinSession, LeaveSession, SpecMain, DrainSync, ApplyQueued, SpecEnded, SpecThread,
       RecvLoop, SpecNet

\* The sends of a tick come one after the other, while it is hosting.
LEMMA TickStep == ASSUME Typed, TickInv, [Next]_vars PROVE TickInv'
<1> DEFINE p == SaveBuffer(app)
<1>t. NetTyped /\ AppTyped /\ host \in Host
  BY DEF Typed, NetTyped
<1>r. \A a : Refresh(a) = <<Storing(SaveBuffer(a)), Sending(SaveBuffer(a))>>
  BY DEF Refresh, Storing, Sending
<1>1. CASE CreateSession
  <2>1. host'.role = "Host" /\ ~host'.leaving
    BY <1>1, <1>t DEF CreateSession, StartHost, Free, Host, HostType
  <2>2. outbox' = Refresh(app) /\ app' = app
    BY <1>1 DEF CreateSession
  <2> QED BY <2>1, <2>2, <1>r DEF TickInv, ToStore, Hosting
<1>2. CASE UserActs
  <2>1. host' = host /\ ~host.leaving /\ outbox = <<>>
    BY <1>2 DEF UserActs, netVars, Ready, Free
  <2>2. outbox' = <<>> \/ (outbox' = Refresh(app)' /\ host.role = "Host")
    BY <1>2, <2>1 DEF UserActs
  <2>3. Refresh(app)' = <<Storing(SaveBuffer(app))', Sending(SaveBuffer(app))'>>
    BY DEF Refresh, Storing, Sending
  <2> QED BY <2>1, <2>2, <2>3 DEF TickInv, ToStore, Hosting
<1>3. CASE Tick
  <2>1. host' = host /\ Hosting /\ app' = app
    BY <1>3 DEF Tick, netVars, Ready, Free, Hosting
  <2>2. outbox' = <<Counting>> \/ outbox' = <<Storing(p), Sending(p), Counting>>
    <3>1. outbox' = (IF dirty THEN <<Storing(p), Sending(p)>> ELSE <<>>) \o <<Counting>>
      BY <1>3, <1>r DEF Tick, Counting
    <3> HIDE DEF p
    <3> QED BY <3>1, Tasks
  <2> QED BY <2>1, <2>2 DEF TickInv, ToStore, ToCount, Hosting
<1>4. CASE EndSession
  <2>1. outbox' = <<>> /\ host'.role = "Host"
    BY <1>4, <1>t DEF EndSession, Ready, HostLeave, appVars, Host, HostType
  <2> QED BY <2>1 DEF TickInv
<1>5. CASE Store
  <2>1. outbox # <<>> /\ Head(outbox).do = "store" /\ outbox' = Tail(outbox) /\ app' = app
        /\ SetProjectSnapshot(Head(outbox).msg)
    BY <1>5 DEF Store
  <2>2. Head(outbox).msg = p /\ outbox' \in {<<Sending(p)>>, <<Sending(p), Counting>>}
    BY <2>1, FirstTask
  <2>3. host'.snapshot = p /\ host'.role = host.role /\ host'.leaving = host.leaving
    BY <1>t, <2>1, <2>2 DEF SetProjectSnapshot, Host, HostType
  <2>4. Hosting
    BY <2>1 DEF TickInv
  <2> QED BY <2>1, <2>2, <2>3, <2>4 DEF TickInv, ToSend, Hosting
<1>6. CASE Send
  <2>1. outbox # <<>> /\ Head(outbox).do = "send" /\ outbox' = Tail(outbox)
        /\ Broadcast(Head(outbox).msg)
    BY <1>6 DEF Send
  <2>2. outbox' = <<>> \/ outbox' = <<Counting>>
    BY <2>1, FirstTask
  <2>3. host'.role = host.role /\ host'.leaving = host.leaving
    BY <1>t, <2>1 DEF Broadcast, Host, HostType
  <2> QED BY <2>1, <2>2, <2>3 DEF TickInv, ToCount, Hosting
<1>7. CASE CountPeers
  <2>1. /\ host' = host /\ Hosting
        /\ outbox' = <<>> \/ outbox' = <<[do |-> "send", msg |-> ViewMsg(app.framing)]>>
        /\ sent' = [sent EXCEPT !.framing = app.framing, !.peers = Cardinality(Peers)]
    BY <1>7 DEF CountPeers, netVars, TickInv, ViewToSend, ViewMsg
  <2>2. sent'.framing = app.framing /\ app.framing \in Framing
    BY <1>t, <2>1 DEF AppTyped, App
  <2> QED BY <2>1, <2>2 DEF TickInv, ToView, Sending, Hosting
<1>8. CASE HostEnded
  <2>1. ~host'.leaving /\ host.leaving
    BY <1>8, <1>t DEF HostEnded, HostLeaveJoin, Host, HostType
  <2>2. outbox' = <<>>
    BY <1>8, <2>1 DEF HostEnded, TickInv, Hosting
  <2> QED BY <2>1, <2>2 DEF TickInv
<1>9. ASSUME UNCHANGED appVars, host'.role = host.role, host'.leaving = host.leaving,
             host'.snapshot = host.snapshot
      PROVE  TickInv'
  BY <1>9 DEF appVars, TickInv, ToStore, ToSend, ToCount, ToView, Hosting
<1>10. CASE HostThread
  BY <1>9, <1>10, <1>t, HostStays DEF HostThread
<1>11. ASSUME NEW s \in Spectator,
              JoinSession(s) \/ LeaveSession(s) \/ SpecMain(s) \/ SpecThread(s)
       PROVE  TickInv'
  BY <1>9, <1>11, <1>t, SpecSteps, HostStays
<1>12. CASE UNCHANGED vars
  BY <1>9, <1>12 DEF vars, netVars
<1> QED BY <1>1, <1>2, <1>3, <1>4, <1>5, <1>6, <1>7, <1>8, <1>10, <1>11, <1>12 DEF Next, HostMain

----------------------------------------------------------------------------
(* What a step does to what is coming.                                     *)

NetInv == Typed /\ Wired /\ Joining

SameView(s) == view'[s] = view[s] /\ blind'[s] = blind[s]
AppliesQueued(s) == \E g \in BOOLEAN :
    /\ view'[s] = Applied(view[s], Queued(s), g)
    /\ blind'[s] = IF Has(Queued(s), "View") THEN ~g ELSE blind[s]

\* What a step does to what is under way to a spectator that attends after it.
Undisturbed(s) == /\ Attends(s) /\ spec'[s].conn = spec[s].conn /\ Coming(s)' = Coming(s)
                  /\ SameView(s)
SentTo(s) == /\ Send /\ Attends(s) /\ spec'[s] = spec[s] /\ spec[s].conn \in Peers'
             /\ Coming(s)' = Append(Coming(s), Head(outbox).msg)
             /\ SameView(s)
Handed(s) == /\ HostThread /\ Attends(s) /\ spec'[s] = spec[s]
             /\ host.loop = "hand" /\ host.joiner = spec[s].conn /\ host'.loop # "hand"
             /\ host.snap \in Project /\ host.snap # NoProject
             /\ Coming(s) = <<>> /\ Coming(s)' = Append(<<>>, host.snap)
             /\ SameView(s)
DrainedSome(s) == /\ DrainSync(s) /\ Attends(s) /\ spec'[s].conn = spec[s].conn
                  /\ spec[s].inbound # <<>>
                  /\ Coming(s)' \in Seq(Msg) /\ Coming(s) = Queued(s) \o Coming(s)'
                  /\ AppliesQueued(s)
Joined(s) == /\ JoinSession(s) /\ spec'[s].conn \notin DOMAIN conn /\ Coming(s)' = <<>>
             /\ SameView(s)

\* A step that leaves the views alone.
LEMMA ViewsStay == ASSUME UNCHANGED shown, NEW s PROVE SameView(s)
BY DEF shown, SameView

\* Nothing is coming over a connection nothing was sent over.
LEMMA UnheardIsQuiet ==
    ASSUME NetInv, NEW s \in Spectator, spec[s].role = "Spectator", Unheard(spec[s].conn)
    PROVE  /\ Coming(s) = <<>> /\ spec[s].inbound = <<>> /\ reached[spec[s].conn] = {}
           /\ spec[s].conn \notin Peers
<1>1. NetTyped /\ spec[s].conn \in DOMAIN conn
  BY DEF NetInv, Typed, NetTyped, Sound
<1>2. spec[s].inbound = <<>> /\ spec[s].recv # "push" /\ Mine(s).down = <<>>
      /\ reached[spec[s].conn] = {} /\ spec[s].conn \notin Peers
  BY <1>1 DEF NetInv, Joining, Mine
<1> QED BY <1>1, <1>2, NothingUnderWay

\* A step of the host that sends nothing.
LEMMA QuietComing ==
    ASSUME NetInv, QuietNet, UNCHANGED shown, NEW s \in Spectator, Attends(s)'
    PROVE  Undisturbed(s)
<1>1. NetTyped /\ HostNet
  BY DEF NetInv, Typed, QuietNet, HostNet, HostLoop
<1>2. spec' = spec
  BY <1>1, HostKeeps
<1>3. Attends(s)
  BY <1>2 DEF Attends
<1>4. spec[s].conn \in DOMAIN conn
  BY <1>3, AttendingIsThere DEF NetInv, Typed
<1>5. conn'[spec[s].conn].down = conn[spec[s].conn].down
  BY <1>1, <1>4, QuietHost
<1> QED BY <1>2, <1>3, <1>5, ComingSame, ViewsStay DEF Undisturbed

\* A broadcast reaches the spectators that are peers after it.
LEMMA SendComing ==
    ASSUME NetInv, Send, NEW s \in Spectator, Attends(s)'
    PROVE  SentTo(s) \/ (Undisturbed(s) /\ spec[s].conn \notin Peers')
<1>1. Head(outbox) \in Task /\ Head(outbox).do = "send" /\ Broadcast(Head(outbox).msg)
      /\ UNCHANGED shown
  BY DEF Send, NetInv, Typed, AppTyped
<1>2. Head(outbox).msg \in Msg
  BY <1>1 DEF Task
<1>3. spec' = spec /\ NetTyped
  BY <1>1 DEF Broadcast, NetInv, Typed
<1>4. Attends(s) /\ spec[s].role = "Spectator"
  BY <1>3 DEF Attends
<1>5. spec[s].conn \in DOMAIN conn /\ ~Gone(spec[s].conn)
  BY <1>3, <1>4, AttendingIsThere DEF NetInv
<1>6. CASE spec[s].conn \in Peers'
  <2>1. conn'[spec[s].conn].down = Append(conn[spec[s].conn].down, Head(outbox).msg)
    BY <1>1, <1>2, <1>3, <1>5, <1>6, BroadcastDown
  <2>2. Coming(s)' = Append(Coming(s), Head(outbox).msg)
    BY <1>2, <1>3, <1>4, <2>1, ComingSent
  <2> QED BY <1>1, <1>3, <1>4, <1>6, <2>2, ViewsStay DEF SentTo
<1>7. CASE spec[s].conn \notin Peers'
  <2>1. conn'[spec[s].conn].down = conn[spec[s].conn].down
    BY <1>1, <1>2, <1>3, <1>5, <1>7, BroadcastDown
  <2> QED BY <1>1, <1>3, <1>4, <1>7, <2>1, ComingSame, ViewsStay DEF Undisturbed
<1> QED BY <1>6, <1>7

\* hostLoop() sends a snapshot to its joiner, to which nothing was coming.
LEMMA ThreadComing ==
    ASSUME NetInv, HostThread, NEW s \in Spectator, Attends(s)'
    PROVE  Undisturbed(s) \/ Handed(s)
<1>1. HostLoop /\ UNCHANGED shown /\ NetTyped
  BY DEF HostThread, NetInv, Typed
<1>2. CASE QuietNet
  BY <1>1, <1>2, QuietComing
<1>3. CASE AddPeer
  <2>1. spec' = spec /\ host.loop = "hand" /\ host'.loop # "hand"
    BY <1>1, <1>3 DEF AddPeer, NextRound, NetTyped, Host, HostType
  <2>2. Attends(s) /\ spec[s].role = "Spectator"
    BY <2>1 DEF Attends
  <2>3. spec[s].conn \in DOMAIN conn
    BY <1>1, <2>2, AttendingIsThere DEF NetInv
  <2>4. CASE conn'[spec[s].conn].down = conn[spec[s].conn].down
    BY <1>1, <2>1, <2>2, <2>4, ComingSame, ViewsStay DEF Undisturbed
  <2>5. CASE /\ spec[s].conn = host.joiner /\ host.snap \in Project /\ host.snap # NoProject
             /\ conn'[spec[s].conn].down = Append(conn[spec[s].conn].down, host.snap)
    <3>1. Unheard(spec[s].conn)
      BY <2>1, <2>5 DEF Unheard
    <3>2. Coming(s) = <<>>
      BY <2>2, <3>1, UnheardIsQuiet
    <3>3. host.snap \in Msg
      BY <2>5 DEF Msg
    <3>4. Coming(s)' = Append(Coming(s), host.snap)
      BY <1>1, <2>1, <2>2, <2>5, <3>3, ComingSent
    <3> QED BY <1>1, <2>1, <2>2, <2>5, <3>2, <3>4, ViewsStay DEF Handed
  <2> QED BY <1>1, <1>3, <2>3, <2>4, <2>5, AddPeerDown
<1> QED BY <1>1, <1>2, <1>3 DEF HostLoop, QuietNet

\* Another spectator's step.
LEMMA OthersComing ==
    ASSUME NetInv, NEW s \in Spectator, NEW t \in Spectator \ {s}, Attends(t), SpecNet(s)
    PROVE  spec'[t] = spec[t] /\ Coming(t)' = Coming(t)
<1>1. NetTyped /\ spec[t].conn \in DOMAIN conn /\ spec[t].role = "Spectator"
  BY AttendingIsThere DEF NetInv, Typed, Attends
<1>2. /\ spec'[t] = spec[t]
      /\ spec[t].conn # spec[s].conn => conn'[spec[t].conn] = conn[spec[t].conn]
  BY <1>1, SpecKeeps
<1>3. CASE spec[t].conn # spec[s].conn
  BY <1>2, <1>3, ComingSame
<1>4. CASE spec[t].conn = spec[s].conn
  <2>1. spec[s].role = "None"
    BY <1>1, <1>4 DEF NetInv, Wired, NetTyped, Viewer, SpecType
  <2>2. spec[s].recv = "off" /\ ~spec[s].leaving
    BY <1>1, <2>1 DEF NetTyped, Sound
  <2>3. CASE Join(s)
    <3>1. conn'[spec[t].conn] = conn[spec[t].conn]
      BY <1>1, <2>3 DEF Join, NetTyped, IsConns
    <3> QED BY <1>2, <3>1, ComingSame
  <2>4. CASE ~Join(s)
    <3>1. conn' = conn
      BY <2>1, <2>2, <2>4 DEF SpecNet, SpecLeave, SpecLeaveJoin, RecvData, RecvEnd, RecvPush,
         Drain, Waits
    <3> QED BY <1>2, <3>1, ComingSame
  <2> QED BY <2>3, <2>4
<1> QED BY <1>3, <1>4

\* drainSync(), when the host is not lost.
LEMMA DrainComing ==
    ASSUME NetInv, NEW s \in Spectator, DrainSync(s), ~spec[s].lost
    PROVE  DrainedSome(s)
<1>t. /\ NetTyped /\ spec[s] \in Viewer /\ spec \in [Spectator -> Viewer]
      /\ view \in [Spectator -> App] /\ blind \in [Spectator -> BOOLEAN]
  BY DEF NetInv, Typed, NetTyped, AppTyped
<1>1. /\ Drain(s) /\ spec[s].role = "Spectator" /\ ~spec[s].leaving /\ spec[s].inbound # <<>>
      /\ ApplyQueued(s)
  BY DEF DrainSync, ApplyQueued, Free
<1>2. AppliesQueued(s)
  BY <1>t, <1>1 DEF ApplyQueued, AppliesQueued
<1>3. spec'[s].conn = spec[s].conn
  BY <1>t, <1>1 DEF Drain, Viewer, SpecType
<1>4. Coming(s) = Queued(s) \o Coming(s)' /\ Coming(s)' \in Seq(Msg)
  BY <1>t, <1>1, ComingDrained
<1> QED BY <1>1, <1>2, <1>3, <1>4 DEF DrainedSome, Attends

\* Its own.
LEMMA OwnComing ==
    ASSUME NetInv, NEW s \in Spectator, Attends(s)',
           JoinSession(s) \/ LeaveSession(s) \/ SpecMain(s) \/ SpecThread(s)
    PROVE  Undisturbed(s) \/ DrainedSome(s) \/ Joined(s)
<1>t. /\ NetTyped /\ spec[s] \in Viewer /\ spec \in [Spectator -> Viewer]
      /\ Sound(spec[s], DOMAIN conn)
  BY DEF NetInv, Typed, NetTyped
<1>a. spec'[s].role = "Spectator" /\ ~spec'[s].leaving
  BY DEF Attends
<1>1. CASE JoinSession(s)
  <2>1. Join(s) /\ UNCHANGED shown /\ spec[s].role = "None"
    BY <1>1 DEF JoinSession, Join
  <2>2. /\ conn' = Append(conn, [host |-> "backlog", spec |-> "open", down |-> <<>>])
        /\ spec'[s].conn = Len(conn) + 1 /\ spec'[s].inbound = <<>> /\ spec'[s].recv = "recv"
    BY <1>t, <2>1 DEF Join, Viewer, SpecType, Sound
  <2>3. Len(conn) + 1 \notin DOMAIN conn /\ conn'[Len(conn) + 1].down = <<>>
    BY <1>t, <2>2 DEF NetTyped, IsConns
  <2>4. Queued(s)' = <<>> /\ InHand(s)' = <<>> /\ Mine(s).down' = <<>>
    BY <2>2, <2>3 DEF Queued, InHand, Mine
  <2>5. <<>> \o (<<>> \o <<>>) = <<>>
    OBVIOUS
  <2> QED BY <1>1, <2>1, <2>2, <2>3, <2>4, <2>5, ViewsStay DEF Joined, Coming
<1>2. CASE LeaveSession(s) \/ (DrainSync(s) /\ spec[s].lost)
  <2>1. SpecLeave(s)
    BY <1>2 DEF LeaveSession, DrainSync
  <2>2. spec'[s].leaving
    BY <1>t, <2>1 DEF SpecLeave, Viewer, SpecType
  <2> QED BY <1>a, <2>2
<1>3. CASE SpecEnded(s)
  <2>1. spec'[s].role = "None"
    BY <1>t, <1>3 DEF SpecEnded, SpecLeaveJoin, Viewer, SpecType
  <2> QED BY <1>a, <2>1
<1>4. CASE DrainSync(s) /\ ~spec[s].lost
  BY <1>4, DrainComing
<1>5. CASE SpecThread(s)
  <2>1. RecvLoop(s) /\ UNCHANGED shown
    BY <1>5 DEF SpecThread
  <2>2. /\ spec'[s].role = spec[s].role /\ spec'[s].leaving = spec[s].leaving
        /\ spec'[s].conn = spec[s].conn /\ Coming(s)' = Coming(s)
    <3>1. CASE RecvData(s)
      <4>1. /\ spec'[s].role = spec[s].role /\ spec'[s].leaving = spec[s].leaving
            /\ spec'[s].conn = spec[s].conn
        BY <1>t, <3>1 DEF RecvData, Viewer, SpecType
      <4> QED BY <1>t, <3>1, <4>1, ComingReceived
    <3>2. CASE RecvPush(s)
      <4>1. /\ spec'[s].role = spec[s].role /\ spec'[s].leaving = spec[s].leaving
            /\ spec'[s].conn = spec[s].conn
        BY <1>t, <3>2 DEF RecvPush, Viewer, SpecType
      <4> QED BY <1>t, <3>2, <4>1, ComingQueued
    <3>3. CASE RecvEnd(s)
      <4>1. /\ spec'[s].role = spec[s].role /\ spec'[s].leaving = spec[s].leaving
            /\ spec'[s].conn = spec[s].conn /\ spec'[s].inbound = spec[s].inbound
            /\ spec[s].recv = "recv" /\ spec'[s].recv = "off" /\ conn' = conn
        BY <1>t, <3>3 DEF RecvEnd, Viewer, SpecType
      <4>2. Queued(s)' = Queued(s) /\ InHand(s)' = InHand(s) /\ Mine(s).down' = Mine(s).down
        BY <4>1 DEF Queued, InHand, Mine
      <4> QED BY <4>1, <4>2 DEF Coming
    <3> QED BY <2>1, <3>1, <3>2, <3>3 DEF RecvLoop
  <2> QED BY <1>a, <2>1, <2>2, ViewsStay DEF Undisturbed, Attends
<1> QED BY <1>1, <1>2, <1>3, <1>4, <1>5 DEF SpecMain

----------------------------------------------------------------------------
(* The order of the projects.                                              *)

IsProject(m) == m.kind = "Project"

\* Projects that are shown, one after the other, from v on never go back.
Ascending(v, q) == \A i \in DOMAIN q : IsProject(q[i]) =>
    /\ v.doc <= q[i].doc
    /\ \A j \in DOMAIN q : (i <= j /\ IsProject(q[j])) => q[i].doc <= q[j].doc

\* A project as new as all before it may follow.
LEMMA AscendingAppend ==
    ASSUME NEW v, NEW q \in Seq(Msg), NEW m \in Msg, Ascending(v, q),
           IsProject(m) => /\ v.doc <= m.doc
                           /\ \A i \in DOMAIN q : IsProject(q[i]) => q[i].doc <= m.doc
    PROVE  Ascending(v, Append(q, m))
<1> DEFINE a == Append(q, m)
           n == Len(q)
<1>1. /\ a \in Seq(Msg) /\ n \in Nat /\ DOMAIN q = 1 .. n /\ DOMAIN a = 1 .. n + 1
      /\ a[n + 1] = m /\ \A i \in 1 .. n : a[i] = q[i]
  BY AppendProperties
<1> HIDE DEF a, n
<1>2. \A i \in 1 .. n + 1 : i \in 1 .. n \/ i = n + 1
  BY <1>1
<1>3. IsProject(m) => m.doc <= m.doc
  BY KindOfMsg DEF IsProject
<1> SUFFICES ASSUME NEW i \in 1 .. n + 1, IsProject(a[i])
             PROVE  /\ v.doc <= a[i].doc
                    /\ \A j \in 1 .. n + 1 : (i <= j /\ IsProject(a[j])) => a[i].doc <= a[j].doc
  BY <1>1 DEF Ascending, a
<1>4. CASE i \in 1 .. n
  <2>1. a[i] = q[i] /\ IsProject(q[i]) /\ i \in DOMAIN q
    BY <1>1, <1>4
  <2>2. v.doc <= a[i].doc
    BY <2>1 DEF Ascending
  <2>3. ASSUME NEW j \in 1 .. n + 1, i <= j, IsProject(a[j]) PROVE a[i].doc <= a[j].doc
    <3>1. CASE j \in 1 .. n
      <4>1. a[j] = q[j] /\ j \in DOMAIN q
        BY <1>1, <3>1
      <4> QED BY <2>1, <2>3, <4>1 DEF Ascending
    <3>2. CASE j = n + 1
      BY <1>1, <2>1, <2>3, <3>2
    <3> QED BY <1>2, <3>1, <3>2
  <2> QED BY <2>2, <2>3
<1>5. CASE i = n + 1
  <2>1. a[i] = m /\ IsProject(m)
    BY <1>1, <1>5
  <2>2. \A j \in 1 .. n + 1 : i <= j => j = i
    BY <1>1, <1>5
  <2> QED BY <1>3, <2>1, <2>2
<1> QED BY <1>2, <1>4, <1>5

\* Applying the first messages of an ascending sequence goes up, and leaves the rest ascending.
LEMMA AscendingDrop ==
    ASSUME NEW v \in App, NEW a \in Seq(Msg), NEW b \in Seq(Msg),
           NEW g \in BOOLEAN, Ascending(v, a \o b)
    PROVE  v.doc <= Applied(v, a, g).doc /\ Ascending(Applied(v, a, g), b)
<1> DEFINE ab == a \o b
           n == Len(a)
           m == Len(b)
           w == Applied(v, a, g)
<1>1. /\ ab \in Seq(Msg) /\ n \in Nat /\ m \in Nat /\ DOMAIN a = 1 .. n /\ DOMAIN b = 1 .. m
      /\ DOMAIN ab = 1 .. n + m
      /\ \A i \in 1 .. n + m : ab[i] = IF i <= n THEN a[i] ELSE b[i - n]
  BY ConcatProperties
<1>a. \A i \in DOMAIN ab : IsProject(ab[i]) =>
         /\ v.doc <= ab[i].doc
         /\ \A j \in DOMAIN ab : (i <= j /\ IsProject(ab[j])) => ab[i].doc <= ab[j].doc
  BY DEF Ascending
<1>w. \/ w.doc = v.doc
      \/ \E i \in DOMAIN a : a[i].kind = "Project" /\ w.doc = a[i].doc
  BY AppliedDoc
<1>v. v.doc \in Nat
  BY DEF App
<1> HIDE DEF ab, n, m, w
<1>2. \A i \in 1 .. n : i \in 1 .. n + m /\ ab[i] = a[i]
  BY <1>1
<1>3. ASSUME NEW i \in 1 .. m PROVE n + i \in 1 .. n + m /\ ab[n + i] = b[i]
  <2>1. n + i \in 1 .. n + m /\ ~(n + i <= n) /\ (n + i) - n = i
    BY <1>1
  <2> QED BY <1>1, <2>1
<1>4. v.doc <= w.doc
  BY <1>1, <1>2, <1>a, <1>v, <1>w DEF IsProject
<1>5. ASSUME NEW i \in 1 .. m, IsProject(b[i]) PROVE w.doc <= b[i].doc
  <2>1. n + i \in DOMAIN ab /\ ab[n + i] = b[i]
    BY <1>1, <1>3
  <2>2. CASE w.doc = v.doc
    BY <1>5, <1>a, <2>1, <2>2
  <2>3. ASSUME NEW k \in DOMAIN a, a[k].kind = "Project", w.doc = a[k].doc
        PROVE  w.doc <= b[i].doc
    <3>1. k \in DOMAIN ab /\ ab[k] = a[k] /\ k <= n + i /\ IsProject(ab[k])
      BY <1>1, <1>2, <2>3 DEF IsProject
    <3>2. ab[k].doc <= ab[n + i].doc
      BY <1>5, <1>a, <2>1, <3>1
    <3> QED BY <2>1, <2>3, <3>1, <3>2
  <2> QED BY <1>w, <2>2, <2>3
<1>6. ASSUME NEW i \in 1 .. m, NEW j \in 1 .. m, IsProject(b[i]), IsProject(b[j]), i <= j
      PROVE  b[i].doc <= b[j].doc
  <2>1. /\ n + i \in DOMAIN ab /\ ab[n + i] = b[i]
        /\ n + j \in DOMAIN ab /\ ab[n + j] = b[j]
    BY <1>1, <1>3
  <2>2. n + i <= n + j
    BY <1>1, <1>6
  <2> QED BY <1>6, <1>a, <2>1, <2>2
<1>7. Ascending(w, b)
  BY <1>1, <1>5, <1>6 DEF Ascending
<1> QED BY <1>4, <1>7 DEF w

----------------------------------------------------------------------------

\* A project that has been seen, or is about to be, is not newer than what is stored.
Known(d, a, h) == d <= a.doc /\ (h.snapshot # NoProject => d <= h.snapshot.doc)
AllKnown(q, a, h) == \A i \in DOMAIN q : IsProject(q[i]) => Known(q[i].doc, a, h)

Holding == host.loop = "hand" /\ host.snap # NoProject

OrderInv ==
    /\ app.doc <= ops
    /\ host.snapshot # NoProject => host.snapshot.doc <= app.doc
    /\ Holding => Known(host.snap.doc, app, host)
    /\ \A s \in Spectator : Known(view[s].doc, app, host)
    /\ \A s \in Spectator : Attends(s) =>
          /\ AllKnown(Coming(s), app, host) /\ Ascending(view[s], Coming(s))
          /\ (Holding /\ host.joiner = spec[s].conn) => view[s].doc <= host.snap.doc

\* The project and the snapshot only get newer.
Newer == /\ app.doc <= app'.doc /\ app'.doc <= ops'
         /\ host'.snapshot # NoProject =>
               \/ host'.snapshot = host.snapshot /\ host.snapshot # NoProject
               \/ host'.snapshot.doc = app.doc

\* The snapshot changes when one is stored, and is gone with the session.
LEMMA SnapshotSteps ==
    ASSUME Typed, [Next]_vars
    PROVE  \/ host'.snapshot = host.snapshot
           \/ host'.snapshot = NoProject
           \/ Store
<1>0. NetTyped /\ host \in Host
  BY DEF Typed, NetTyped
<1>1. CASE CreateSession
  BY <1>0, <1>1 DEF CreateSession, StartHost, Host, HostType
<1>2. CASE UserActs \/ Tick \/ CountPeers
  BY <1>2 DEF UserActs, Tick, CountPeers, netVars
<1>3. CASE EndSession
  BY <1>0, <1>3 DEF EndSession, HostLeave, Host, HostType
<1>4. CASE Send
  BY <1>0, <1>4 DEF Send, Broadcast, Host, HostType
<1>5. CASE HostEnded
  BY <1>0, <1>5 DEF HostEnded, HostLeaveJoin, Host, HostType
<1>6. CASE HostThread
  BY <1>0, <1>6, HostStays DEF HostThread
<1>7. ASSUME NEW s \in Spectator,
             JoinSession(s) \/ LeaveSession(s) \/ SpecMain(s) \/ SpecThread(s)
      PROVE  host'.snapshot = host.snapshot
  BY <1>0, <1>7, SpecSteps, HostStays
<1>8. CASE UNCHANGED vars
  BY <1>8 DEF vars, netVars
<1> QED BY <1>1, <1>2, <1>3, <1>4, <1>5, <1>6, <1>7, <1>8 DEF Next, HostMain

\* The project changes when the user does something.
LEMMA DocSteps ==
    ASSUME Typed, [Next]_vars
    PROVE  \/ app'.doc = app.doc /\ ops <= ops'
           \/ app'.doc = ops + 1 /\ ops' = ops + 1
<1>0. app \in App /\ ops \in Nat
  BY ReviewAssumption DEF Typed, AppTyped
<1>1. CASE CreateSession
  BY <1>0, <1>1 DEF CreateSession
<1>2. CASE UserActs
  BY <1>0, <1>2 DEF UserActs, App
<1>3. CASE Tick \/ EndSession \/ HostMain
  BY <1>0, <1>3 DEF Tick, EndSession, appVars, HostMain, Store, Send, CountPeers, HostEnded
<1>4. CASE HostThread \/ UNCHANGED vars
  BY <1>0, <1>4 DEF HostThread, appVars, vars
<1>5. ASSUME NEW s \in Spectator,
             JoinSession(s) \/ LeaveSession(s) \/ SpecMain(s) \/ SpecThread(s)
      PROVE  app'.doc = app.doc /\ ops <= ops'
  BY <1>0, <1>5, SpecSteps DEF appVars
<1> QED BY <1>1, <1>2, <1>3, <1>4, <1>5 DEF Next

\* So neither gets older.
LEMMA NewerStep == ASSUME Typed, TickInv, OrderInv, [Next]_vars PROVE Newer
<1>0. app.doc \in Nat /\ ops \in Nat
  BY ReviewAssumption DEF Typed, AppTyped, App
<1>1. app.doc <= app'.doc /\ app'.doc <= ops'
  BY <1>0, DocSteps, NextTyped DEF OrderInv, Typed, AppTyped, App
<1>2. ASSUME Store PROVE host'.snapshot.doc = app.doc
  <2>1. SetProjectSnapshot(Head(outbox).msg) /\ Head(outbox).msg = SaveBuffer(app)
    BY <1>2, FirstTask DEF Store
  <2>2. host'.snapshot = SaveBuffer(app)
    BY <2>1 DEF SetProjectSnapshot, Typed, NetTyped, Host, HostType
  <2> QED BY <2>2 DEF SaveBuffer
<1> QED BY <1>1, <1>2, SnapshotSteps DEF Newer

\* What is known stays known.
LEMMA KnownStays ==
    ASSUME Typed, Typed', OrderInv, Newer
    PROVE  /\ \A d \in Nat : Known(d, app, host) => Known(d, app', host')
           /\ \A q \in Seq(Msg) : AllKnown(q, app, host) => AllKnown(q, app', host')
<1>1. app.doc \in Nat /\ app'.doc \in Nat
  BY DEF Typed, AppTyped, App
<1>2. ASSUME NEW d \in Nat, Known(d, app, host) PROVE Known(d, app', host')
  <2>1. d <= app'.doc
    BY <1>1, <1>2 DEF Known, Newer
  <2>2. host'.snapshot # NoProject => d <= host'.snapshot.doc
    BY <1>1, <1>2 DEF Known, Newer
  <2> QED BY <2>1, <2>2 DEF Known
<1>3. ASSUME NEW q \in Seq(Msg), AllKnown(q, app, host) PROVE AllKnown(q, app', host')
  <2> SUFFICES ASSUME NEW i \in DOMAIN q, IsProject(q[i]) PROVE Known(q[i].doc, app', host')
    BY DEF AllKnown
  <2>1. q[i].doc \in Nat
    BY KindOfMsg DEF IsProject
  <2>2. Known(q[i].doc, app, host)
    BY <1>3 DEF AllKnown
  <2> QED BY <1>2, <2>1, <2>2
<1> QED BY <1>2, <1>3

\* A known project may follow known ones.
LEMMA AllKnownAppend ==
    ASSUME NEW q \in Seq(Msg), NEW m \in Msg, NEW a, NEW h, AllKnown(q, a, h),
           IsProject(m) => Known(m.doc, a, h)
    PROVE  AllKnown(Append(q, m), a, h)
<1> DEFINE b == Append(q, m)
           n == Len(q)
<1>1. /\ n \in Nat /\ DOMAIN q = 1 .. n /\ DOMAIN b = 1 .. n + 1
      /\ b[n + 1] = m /\ \A i \in 1 .. n : b[i] = q[i]
  BY AppendProperties
<1> HIDE DEF b, n
<1>2. \A i \in 1 .. n + 1 : i \in 1 .. n \/ i = n + 1
  BY <1>1
<1> QED BY <1>1, <1>2 DEF AllKnown, b

\* Both parts of what is known are.
LEMMA AllKnownParts ==
    ASSUME NEW x \in Seq(Msg), NEW y \in Seq(Msg), NEW a, NEW h, AllKnown(x \o y, a, h)
    PROVE  AllKnown(x, a, h) /\ AllKnown(y, a, h)
<1> DEFINE xy == x \o y
           n == Len(x)
           m == Len(y)
<1>1. /\ n \in Nat /\ m \in Nat /\ DOMAIN x = 1 .. n /\ DOMAIN y = 1 .. m
      /\ DOMAIN xy = 1 .. n + m
      /\ \A i \in 1 .. n + m : xy[i] = IF i <= n THEN x[i] ELSE y[i - n]
  BY ConcatProperties
<1>a. \A i \in DOMAIN xy : IsProject(xy[i]) => Known(xy[i].doc, a, h)
  BY DEF AllKnown
<1> HIDE DEF xy, n, m
<1>2. \A i \in 1 .. n : i \in 1 .. n + m /\ xy[i] = x[i]
  BY <1>1
<1>3. ASSUME NEW i \in 1 .. m PROVE n + i \in 1 .. n + m /\ xy[n + i] = y[i]
  <2>1. n + i \in 1 .. n + m /\ ~(n + i <= n) /\ (n + i) - n = i
    BY <1>1
  <2> QED BY <1>1, <2>1
<1>4. AllKnown(x, a, h)
  BY <1>1, <1>2, <1>a DEF AllKnown
<1>5. AllKnown(y, a, h)
  BY <1>1, <1>3, <1>a DEF AllKnown
<1> QED BY <1>4, <1>5

\* What the accepting thread holds is what it held, or what was stored.
LEMMA SnapSteps ==
    ASSUME Typed, [Next]_vars, Holding'
    PROVE  \/ Holding /\ host'.snap = host.snap /\ host'.joiner = host.joiner
           \/ /\ host'.snap = host.snapshot /\ host.snapshot # NoProject
              /\ spec' = spec /\ UNCHANGED shown
<1>0. NetTyped /\ host \in Host
  BY DEF Typed, NetTyped
<1>1. CASE CreateSession
  BY <1>0, <1>1 DEF Holding, CreateSession, StartHost, Host, HostType
<1>2. CASE UserActs \/ Tick \/ CountPeers \/ UNCHANGED vars
  BY <1>2 DEF Holding, UserActs, Tick, CountPeers, netVars, vars
<1>3. CASE EndSession
  BY <1>0, <1>3 DEF Holding, EndSession, HostLeave, Host, HostType
<1>4. CASE Send
  BY <1>0, <1>4 DEF Holding, Send, Broadcast, Host, HostType
<1>5. CASE HostEnded
  BY <1>0, <1>5 DEF Holding, HostEnded, HostLeaveJoin, Host, HostType
<1>6. CASE Store
  BY <1>0, <1>6 DEF Holding, Store, SetProjectSnapshot, Host, HostType
<1>7. CASE HostThread
  <2>1. CASE PollTimeout
    BY <1>0, <2>1 DEF Holding, PollTimeout, NextRound, Host, HostType
  <2>2. CASE AddPeer
    BY <1>0, <2>2 DEF Holding, AddPeer, NextRound, Host, HostType
  <2>3. ASSUME NEW c \in Conn, Accept(c)
        PROVE  host'.snap = host.snapshot /\ host.snapshot # NoProject /\ spec' = spec
    BY <1>0, <2>3 DEF Holding, Accept, Host, HostType
  <2>4. ASSUME NEW c \in Conn, Reap(c) PROVE FALSE
    BY <1>0, <2>4 DEF Holding, Reap, NextRound, Host, HostType
  <2> QED BY <1>7, <2>1, <2>2, <2>3, <2>4 DEF HostThread, HostLoop
<1>8. ASSUME NEW s \in Spectator,
             JoinSession(s) \/ LeaveSession(s) \/ SpecMain(s) \/ SpecThread(s)
      PROVE  host' = host
  BY <1>0, <1>8, SpecSteps, SpecKeeps
<1> QED BY <1>1, <1>2, <1>3, <1>4, <1>5, <1>6, <1>7, <1>8 DEF Next, HostMain, Holding

----------------------------------------------------------------------------

\* A spectator shows what it showed, or applies what it had queued.
LEMMA ViewSteps ==
    ASSUME NetInv, [Next]_vars, NEW s \in Spectator
    PROVE  SameView(s) \/ DrainedSome(s)
<1>v. view \in [Spectator -> App] /\ blind \in [Spectator -> BOOLEAN]
  BY DEF NetInv, Typed, AppTyped
<1>1. CASE UNCHANGED shown
  BY <1>1, ViewsStay
<1>2. ASSUME NEW t \in Spectator, DrainSync(t) PROVE SameView(s) \/ DrainedSome(s)
  <2>1. CASE t = s /\ ~spec[s].lost
    BY <1>2, <2>1, DrainComing
  <2>2. CASE spec[t].lost
    <3>1. UNCHANGED shown
      BY <1>2, <2>2 DEF DrainSync
    <3> QED BY <3>1, ViewsStay
  <2>3. CASE t # s /\ ~spec[t].lost
    <3>1. ApplyQueued(t)
      BY <1>2, <2>3 DEF DrainSync
    <3> QED BY <1>v, <2>3, <3>1 DEF ApplyQueued, SameView
  <2> QED BY <2>1, <2>2, <2>3
<1>3. UNCHANGED shown \/ \E t \in Spectator : DrainSync(t)
  BY DEF Next, CreateSession, UserActs, Tick, EndSession, HostMain, Store, Send, CountPeers,
     HostEnded, HostThread, JoinSession, LeaveSession, SpecMain, SpecEnded, SpecThread, vars
<1> QED BY <1>1, <1>2, <1>3

\* All that a step does to what is coming to a spectator.
LEMMA ComingSteps ==
    ASSUME NetInv, [Next]_vars, NEW s \in Spectator, Attends(s)'
    PROVE  Undisturbed(s) \/ SentTo(s) \/ Handed(s) \/ DrainedSome(s) \/ Joined(s)
<1>1. CASE CreateSession \/ EndSession \/ HostEnded
  <2>1. QuietNet /\ UNCHANGED shown
    BY <1>1 DEF CreateSession, EndSession, HostEnded, QuietNet
  <2> QED BY <2>1, QuietComing
<1>2. CASE UserActs \/ Tick \/ CountPeers \/ UNCHANGED vars
  <2>1. QuietNet /\ UNCHANGED shown
    BY <1>2 DEF UserActs, Tick, CountPeers, vars, QuietNet
  <2> QED BY <2>1, QuietComing
<1>3. CASE Store
  <2>1. Head(outbox) \in Task
    BY <1>3 DEF Store, NetInv, Typed, AppTyped
  <2>2. Head(outbox).msg \in Project
    BY <1>3, <2>1 DEF Store, Task
  <2>3. QuietNet /\ UNCHANGED shown
    BY <1>3, <2>2 DEF Store, QuietNet
  <2> QED BY <2>3, QuietComing
<1>4. CASE Send
  BY <1>4, SendComing
<1>5. CASE HostThread
  BY <1>5, ThreadComing
<1>6. ASSUME NEW t \in Spectator,
             JoinSession(t) \/ LeaveSession(t) \/ SpecMain(t) \/ SpecThread(t)
      PROVE  Undisturbed(s) \/ DrainedSome(s) \/ Joined(s)
  <2>1. CASE t = s
    BY <1>6, <2>1, OwnComing
  <2>2. CASE t # s
    <3>1. spec'[s] = spec[s]
      BY <1>6, <2>2, SpecSteps, SpecKeeps DEF NetInv, Typed
    <3>2. Attends(s)
      BY <3>1 DEF Attends
    <3>3. Coming(s)' = Coming(s)
      BY <1>6, <2>2, <3>2, SpecSteps, OthersComing
    <3> QED BY <3>1, <3>2, <3>3, ViewSteps DEF Undisturbed
  <2> QED BY <2>1, <2>2
<1> QED BY <1>1, <1>2, <1>3, <1>4, <1>5, <1>6 DEF Next, HostMain

\* Every step keeps the order.
LEMMA OrderStep ==
    ASSUME NetInv, TickInv, OrderInv, [Next]_vars, Typed'
    PROVE  OrderInv'
<1>t. Typed /\ NetTyped /\ AppTyped
  BY DEF NetInv, Typed
<1>n. Newer
  BY <1>t, NewerStep
<1>d. /\ app.doc \in Nat /\ app'.doc \in Nat
      /\ \A s \in Spectator : view[s] \in App /\ view[s].doc \in Nat
  BY <1>t DEF Typed, AppTyped, App
<1>s. /\ host.snap \in Project \cup {NoProject} /\ host.snapshot \in Project \cup {NoProject}
      /\ \A p \in Project : p.doc \in Nat /\ IsProject(p)
  BY <1>t DEF NetTyped, Host, HostType, Project, IsProject
<1>1. app'.doc <= ops'
  BY <1>n DEF Newer
<1>2. host'.snapshot # NoProject => host'.snapshot.doc <= app'.doc
  <2>1. CASE host'.snapshot = host.snapshot /\ host.snapshot # NoProject
    <3>1. host.snapshot.doc <= app.doc /\ host.snapshot.doc \in Nat
      BY <1>s, <2>1 DEF OrderInv
    <3> QED BY <1>d, <1>n, <2>1, <3>1 DEF Newer
  <2>2. CASE host'.snapshot.doc = app.doc
    BY <1>n, <2>2 DEF Newer
  <2> QED BY <1>n, <2>1, <2>2 DEF Newer
<1>3. ASSUME Holding' PROVE Known(host'.snap.doc, app', host')
  <2>1. CASE Holding /\ host'.snap = host.snap
    <3>1. Known(host.snap.doc, app, host) /\ host.snap.doc \in Nat
      BY <1>s, <2>1 DEF OrderInv, Holding
    <3> QED BY <1>n, <1>t, <2>1, <3>1, KnownStays
  <2>2. CASE host'.snap = host.snapshot /\ host.snapshot # NoProject
    <3>1. host.snapshot.doc \in Nat /\ host.snapshot.doc <= app.doc
      BY <1>s, <2>2 DEF OrderInv
    <3>2. Known(host.snapshot.doc, app, host)
      BY <3>1 DEF Known
    <3> QED BY <1>n, <1>t, <2>2, <3>1, <3>2, KnownStays
  <2> QED BY <1>3, <1>t, <2>1, <2>2, SnapSteps
<1>4. ASSUME NEW s \in Spectator PROVE Known(view'[s].doc, app', host')
  <2>0. Known(view[s].doc, app, host)
    BY DEF OrderInv
  <2>1. CASE SameView(s)
    BY <1>d, <1>n, <1>t, <2>0, <2>1, KnownStays DEF SameView
  <2>2. CASE DrainedSome(s)
    <3> PICK g \in BOOLEAN : view'[s] = Applied(view[s], Queued(s), g)
      BY <2>2 DEF DrainedSome, AppliesQueued
    <3> DEFINE q == Queued(s)
               w == Applied(view[s], q, g)
    <3>1. q \in Seq(Msg)
      BY <1>t, QueuedTyped
    <3>2. AllKnown(q, app, host)
      BY <2>2, <3>1, AllKnownParts DEF DrainedSome, OrderInv
    <3>3. \/ w.doc = view[s].doc
          \/ \E i \in DOMAIN q : q[i].kind = "Project" /\ w.doc = q[i].doc
      BY <1>d, <3>1, AppliedDoc
    <3>4. w \in App
      BY <1>d, <3>1, AppliedTyped
    <3>5. view'[s] = w
      OBVIOUS
    <3> HIDE DEF q, w
    <3>6. Known(w.doc, app, host) /\ w.doc \in Nat
      BY <2>0, <3>2, <3>3, <3>4 DEF AllKnown, IsProject, App
    <3> QED BY <1>n, <1>t, <3>5, <3>6, KnownStays
  <2> QED BY <2>1, <2>2, ViewSteps
<1>5. ASSUME NEW s \in Spectator, Attends(s)'
      PROVE  AllKnown(Coming(s)', app', host') /\ Ascending(view'[s], Coming(s)')
  <2>1. CASE Undisturbed(s)
    <3>1. Coming(s) \in Seq(Msg)
      BY <1>t, <2>1, PartsTyped DEF Undisturbed, Attends
    <3>2. AllKnown(Coming(s), app, host) /\ Ascending(view[s], Coming(s))
      BY <2>1 DEF Undisturbed, OrderInv
    <3>3. AllKnown(Coming(s), app', host')
      BY <1>n, <1>t, <3>1, <3>2, KnownStays
    <3> QED BY <2>1, <3>2, <3>3 DEF Undisturbed, SameView
  <2>2. CASE SentTo(s)
    <3> DEFINE m == Head(outbox).msg
               q == Coming(s)
    <3>1. q \in Seq(Msg) /\ AllKnown(q, app, host) /\ Ascending(view[s], q)
      BY <1>t, <2>2, PartsTyped DEF SentTo, Attends, OrderInv
    <3>2. Head(outbox) \in Task /\ Head(outbox).do = "send" /\ outbox # <<>>
      BY <1>t, <2>2 DEF SentTo, Send, AppTyped
    <3>3. m \in Msg
      BY <3>2 DEF Task
    <3>4. ASSUME IsProject(m) PROVE m.doc = app.doc /\ host.snapshot.doc = app.doc
                                    /\ host.snapshot \in Project
      <4>1. m = SaveBuffer(app) /\ host.snapshot = SaveBuffer(app)
        <5>1. ~ToView \/ m # ViewMsg(sent.framing)
          BY <3>4, TaskKinds DEF IsProject
        <5> QED BY <3>2, <5>1, FirstTask DEF ToSend
      <4> QED BY <1>t, <4>1, RefreshTyped DEF SaveBuffer, AppTyped
    <3>5. IsProject(m) => Known(m.doc, app, host)
      BY <1>d, <3>4 DEF Known
    <3>6. IsProject(m) => /\ view[s].doc <= m.doc
                          /\ \A i \in DOMAIN q : IsProject(q[i]) => q[i].doc <= m.doc
      BY <3>1, <3>4 DEF OrderInv, Known, AllKnown
    <3> HIDE DEF m
    <3>7. q \in Seq(Msg) /\ Coming(s)' = Append(q, m) /\ view'[s] = view[s]
      BY <2>2, <3>1 DEF SentTo, SameView, m
    <3> HIDE DEF q
    <3>8. AllKnown(Append(q, m), app, host) /\ Append(q, m) \in Seq(Msg)
      BY <3>1, <3>3, <3>5, AllKnownAppend, AppendProperties
    <3>9. AllKnown(Append(q, m), app', host')
      BY <1>n, <1>t, <3>8, KnownStays
    <3>10. Ascending(view[s], Append(q, m))
      BY <3>1, <3>3, <3>6, AscendingAppend
    <3> QED BY <3>7, <3>9, <3>10
  <2>3. CASE Handed(s)
    <3> DEFINE m == host.snap
    <3>1. m \in Msg /\ m.doc \in Nat /\ Known(m.doc, app, host) /\ view[s].doc <= m.doc
      BY <1>s, <2>3 DEF Handed, Holding, OrderInv, Msg
    <3>2. Coming(s)' = Append(<<>>, m) /\ view'[s] = view[s]
      BY <2>3 DEF Handed, SameView
    <3> HIDE DEF m
    <3>3. <<>> \in Seq(Msg) /\ AllKnown(<<>>, app, host) /\ Ascending(view[s], <<>>)
      BY EmptySeq DEF AllKnown, Ascending
    <3>4. AllKnown(Append(<<>>, m), app, host) /\ Append(<<>>, m) \in Seq(Msg)
      BY <3>1, <3>3, AllKnownAppend, AppendProperties
    <3>5. AllKnown(Append(<<>>, m), app', host')
      BY <1>n, <1>t, <3>4, KnownStays
    <3>6. Ascending(view[s], Append(<<>>, m))
      <4>1. DOMAIN <<>> = {}
        OBVIOUS
      <4> QED BY <3>1, <3>3, <4>1, AscendingAppend
    <3> QED BY <3>2, <3>5, <3>6
  <2>4. CASE DrainedSome(s)
    <3> PICK g \in BOOLEAN : view'[s] = Applied(view[s], Queued(s), g)
      BY <2>4 DEF DrainedSome, AppliesQueued
    <3>1. /\ Queued(s) \in Seq(Msg) /\ Coming(s)' \in Seq(Msg)
          /\ Coming(s) = Queued(s) \o Coming(s)'
      BY <1>t, <2>4, QueuedTyped DEF DrainedSome
    <3>2. AllKnown(Queued(s) \o Coming(s)', app, host)
          /\ Ascending(view[s], Queued(s) \o Coming(s)')
      BY <2>4, <3>1 DEF DrainedSome, OrderInv
    <3>3. AllKnown(Coming(s)', app, host)
      BY <3>1, <3>2, AllKnownParts
    <3>4. AllKnown(Coming(s)', app', host')
      BY <1>n, <1>t, <3>1, <3>3, KnownStays
    <3>5. Ascending(Applied(view[s], Queued(s), g), Coming(s)')
      BY <1>d, <3>1, <3>2, AscendingDrop
    <3> QED BY <3>1, <3>4, <3>5
  <2>5. CASE Joined(s)
    BY <2>5 DEF Joined, AllKnown, Ascending
  <2> QED BY <1>5, <2>1, <2>2, <2>3, <2>4, <2>5, ComingSteps
<1>6. ASSUME NEW s \in Spectator, Attends(s)', Holding', host'.joiner = spec'[s].conn
      PROVE  view'[s].doc <= host'.snap.doc
  <2>1. CASE /\ host'.snap = host.snapshot /\ host.snapshot # NoProject
             /\ UNCHANGED shown
    BY <2>1 DEF shown, OrderInv, Known
  <2>2. CASE Holding /\ host'.snap = host.snap /\ host'.joiner = host.joiner
    <3>1. CASE Undisturbed(s) \/ SentTo(s)
      BY <1>6, <2>2, <3>1 DEF Undisturbed, SentTo, SameView, OrderInv
    <3>2. CASE Handed(s)
      BY <1>6, <3>2 DEF Handed, Holding
    <3>3. CASE DrainedSome(s)
      <4>1. Unheard(spec[s].conn) /\ spec[s].role = "Spectator" /\ spec[s].inbound # <<>>
        BY <1>6, <2>2, <3>3 DEF DrainedSome, Unheard, Holding, Attends
      <4> QED BY <4>1, UnheardIsQuiet
    <3>4. CASE Joined(s)
      BY <1>6, <1>t, <2>2, <3>4 DEF Joined, Holding, NetTyped
    <3> QED BY <1>6, <3>1, <3>2, <3>3, <3>4, ComingSteps
  <2> QED BY <1>6, <1>t, <2>1, <2>2, SnapSteps
<1> QED BY <1>1, <1>2, <1>3, <1>4, <1>5, <1>6 DEF OrderInv

----------------------------------------------------------------------------
(* What a peer will show.                                                  *)

\* Whether a message of the kind is still to be sent.
OwesIn(q, kind) == \E i \in DOMAIN q : q[i].do = "send" /\ q[i].msg.kind = kind
Owes(kind) == OwesIn(outbox, kind)

\* The project it will show: whether there is a frame does not matter to it.
WillShow(s) == Applied(view[s], Coming(s), TRUE).doc

\* What is shown once q was applied is the framing f, placed where a view v that is blind,
\* or not, has it, if no other is in q.
WillFrame(v, b, q, f) == IF Has(q, "View") THEN q[LastOf(q, "View")].framing = f
                         ELSE v.framing = Placed(f, ~b)

\* Once it has applied what is coming, a peer that was sent a project, or a framing, shows
\* the latest one, unless the tick still has to send it.
ShowsProject(s) == ("Project" \in reached[spec[s].conn] /\ ~Owes("Project"))
                      => WillShow(s) = host.snapshot.doc
ShowsView(s) == ("View" \in reached[spec[s].conn] /\ ~Owes("View"))
                   => WillFrame(view[s], blind[s], Coming(s), sent.framing)

CurrentInv ==
    /\ \A c \in Peers : reached[c] # {} => Hosting
    /\ \A s \in Spectator :
          (Attends(s) /\ spec[s].conn \in Peers) => ShowsProject(s) /\ ShowsView(s)

IInv == NetInv /\ TickInv /\ OrderInv /\ CurrentInv

\* What the tasks left to do owe.
LEMMA OwesNothing ==
    /\ ~OwesIn(<<>>, "Project") /\ ~OwesIn(<<>>, "View")
    /\ ~OwesIn(<<Counting>>, "Project") /\ ~OwesIn(<<Counting>>, "View")
<1>1. Counting.do # "send"
  BY TaskKinds
<1> HIDE DEF Counting
<1>2. DOMAIN <<>> = {} /\ DOMAIN <<Counting>> = {1} /\ <<Counting>>[1] = Counting
  OBVIOUS
<1> QED BY <1>1, <1>2 DEF OwesIn

LEMMA OwesProject ==
    ASSUME NEW a
    PROVE  /\ \A q \in {<<Sending(SaveBuffer(a))>>, <<Sending(SaveBuffer(a)), Counting>>} :
                 OwesIn(q, "Project") /\ ~OwesIn(q, "View")
           /\ \A q \in {<<Storing(SaveBuffer(a)), Sending(SaveBuffer(a))>>,
                        <<Storing(SaveBuffer(a)), Sending(SaveBuffer(a)), Counting>>} :
                 OwesIn(q, "Project") /\ ~OwesIn(q, "View")
<1> DEFINE t == Storing(SaveBuffer(a))
           d == Sending(SaveBuffer(a))
           c == Counting
<1>1. /\ d.do = "send" /\ d.msg.kind = "Project"
      /\ t.do # "send" /\ c.do # "send"
  BY TaskKinds DEF SaveBuffer
<1> HIDE DEF t, d, c
<1>2. OwesIn(<<d>>, "Project") /\ ~OwesIn(<<d>>, "View")
  BY <1>1 DEF OwesIn
<1>3. OwesIn(<<d, c>>, "Project") /\ ~OwesIn(<<d, c>>, "View")
  BY <1>1 DEF OwesIn
<1>4. OwesIn(<<t, d>>, "Project") /\ ~OwesIn(<<t, d>>, "View")
  BY <1>1 DEF OwesIn
<1>5. OwesIn(<<t, d, c>>, "Project") /\ ~OwesIn(<<t, d, c>>, "View")
  BY <1>1 DEF OwesIn
<1> QED BY <1>2, <1>3, <1>4, <1>5 DEF t, d, c

LEMMA OwesView ==
    ASSUME NEW f
    PROVE  LET q == <<Sending(ViewMsg(f))>> IN OwesIn(q, "View") /\ ~OwesIn(q, "Project")
<1> DEFINE d == Sending(ViewMsg(f))
<1>1. d.do = "send" /\ d.msg.kind = "View"
  BY TaskKinds
<1> HIDE DEF d
<1>2. OwesIn(<<d>>, "View") /\ ~OwesIn(<<d>>, "Project")
  BY <1>1 DEF OwesIn
<1> QED BY <1>2 DEF d

\* Applying the first messages leaves the framing that will be shown as it was: it is still
\* coming, or was placed.
LEMMA FrameDrained ==
    ASSUME NEW s \in Spectator, AppliesQueued(s), NEW q \in Seq(Msg), Queued(s) \in Seq(Msg),
           NEW f, WillFrame(view[s], blind[s], Queued(s) \o q, f)
    PROVE  WillFrame(view'[s], blind'[s], q, f)
<1> DEFINE a == Queued(s)
           aq == a \o q
<1>1. /\ Has(aq, "View") <=> Has(a, "View") \/ Has(q, "View")
      /\ Has(q, "View") => aq[LastOf(aq, "View")] = q[LastOf(q, "View")]
      /\ (Has(a, "View") /\ ~Has(q, "View")) =>
            aq[LastOf(aq, "View")] = a[LastOf(a, "View")]
  BY NewestOfTwo
<1>2. PICK g \in BOOLEAN : /\ view'[s] = Applied(view[s], a, g)
                          /\ blind'[s] = IF Has(a, "View") THEN ~g ELSE blind[s]
  BY DEF AppliesQueued
<1>3. view'[s].framing = IF Has(a, "View") THEN Placed(a[LastOf(a, "View")].framing, g)
                         ELSE view[s].framing
  BY <1>2 DEF Applied
<1>4. IF Has(aq, "View") THEN aq[LastOf(aq, "View")].framing = f
      ELSE view[s].framing = Placed(f, ~blind[s])
  BY DEF WillFrame
<1> HIDE DEF a, aq
<1>5. CASE Has(q, "View")
  BY <1>1, <1>4, <1>5 DEF WillFrame
<1>6. CASE ~Has(q, "View") /\ Has(a, "View")
  <2>1. view'[s].framing = Placed(f, g) /\ blind'[s] = ~g
    BY <1>1, <1>2, <1>3, <1>4, <1>6
  <2>2. (~blind'[s]) = g
    BY <2>1
  <2> QED BY <1>6, <2>1, <2>2 DEF WillFrame
<1>7. CASE ~Has(q, "View") /\ ~Has(a, "View")
  BY <1>1, <1>2, <1>3, <1>4, <1>7 DEF WillFrame
<1> QED BY <1>5, <1>6, <1>7

\* A step that leaves alone what was broadcast, stored and counted, and that adds to what
\* is owed at most.
LEMMA CurrentKept ==
    ASSUME NetInv, CurrentInv, NEW s \in Spectator,
           Undisturbed(s) \/ DrainedSome(s),
           spec[s].conn \in Peers, reached'[spec[s].conn] = reached[spec[s].conn]
    PROVE  /\ (host'.snapshot = host.snapshot /\ (~Owes("Project")' => ~Owes("Project")))
                 => ShowsProject(s)'
           /\ (sent'.framing = sent.framing /\ (~Owes("View")' => ~Owes("View"))) => ShowsView(s)'
<1>1. Attends(s) /\ spec'[s].conn = spec[s].conn
  BY DEF Undisturbed, DrainedSome
<1>2. ShowsProject(s) /\ ShowsView(s)
  BY <1>1 DEF CurrentInv
<1>3. WillShow(s)' = WillShow(s)
  <2>1. CASE Undisturbed(s)
    BY <2>1 DEF Undisturbed, SameView, WillShow
  <2>2. CASE DrainedSome(s)
    <3> PICK g \in BOOLEAN : view'[s] = Applied(view[s], Queued(s), g)
      BY <2>2 DEF DrainedSome, AppliesQueued
    <3>1. view[s] \in App /\ Queued(s) \in Seq(Msg) /\ Coming(s)' \in Seq(Msg)
      BY <2>2, QueuedTyped DEF DrainedSome, NetInv, Typed, AppTyped
    <3>2. Applied(view[s], Queued(s) \o Coming(s)', TRUE).doc
          = Applied(Applied(view[s], Queued(s), g), Coming(s)', TRUE).doc
      BY <3>1, AppliedConcat
    <3> QED BY <2>2, <3>2 DEF DrainedSome, WillShow
  <2> QED BY <2>1, <2>2
<1>4. ASSUME WillFrame(view[s], blind[s], Coming(s), sent.framing)
      PROVE  WillFrame(view'[s], blind'[s], Coming(s)', sent.framing)
  <2>1. CASE Undisturbed(s)
    BY <1>4, <2>1 DEF Undisturbed, SameView
  <2>2. CASE DrainedSome(s)
    <3>1. Queued(s) \in Seq(Msg) /\ Coming(s)' \in Seq(Msg)
          /\ Coming(s) = Queued(s) \o Coming(s)'
      BY <2>2, QueuedTyped DEF DrainedSome, NetInv, Typed
    <3> QED BY <1>4, <2>2, <3>1, FrameDrained DEF DrainedSome
  <2> QED BY <2>1, <2>2
<1> QED BY <1>1, <1>2, <1>3, <1>4 DEF ShowsProject, ShowsView

\* A peer that was made one by this step has been sent nothing so far.
LEMMA NewPeers ==
    ASSUME NetInv, HostThread, NEW c \in Peers' \ Peers
    PROVE  c \in DOMAIN conn /\ Unheard(c)
<1>0. NetTyped
  BY DEF NetInv, Typed
<1>1. CASE AddPeer
  <2>1. host.loop = "hand" /\ host.joiner \in DOMAIN conn
    BY <1>0, <1>1 DEF AddPeer, NetTyped
  <2>2. Peers' \subseteq Peers \cup {host.joiner}
    BY <1>0, <1>1 DEF AddPeer, Peers, NetTyped, Host, HostType
  <2> QED BY <2>1, <2>2 DEF Unheard
<1>2. CASE PollTimeout
  BY <1>0, <1>2 DEF PollTimeout, Peers, NetTyped, Host, HostType
<1>3. ASSUME NEW d \in Conn, Accept(d) \/ Reap(d) PROVE Peers' \subseteq Peers
  BY <1>0, <1>3 DEF Accept, Reap, Peers, NetTyped, Host, HostType
<1> QED BY <1>1, <1>2, <1>3 DEF HostThread, HostLoop

\* Every step keeps what a peer will show current, or owes it, or leaves it no peer.
LEMMA CurrentStep ==
    ASSUME NetInv, TickInv, CurrentInv, [Next]_vars
    PROVE  CurrentInv'
<1>t. Typed /\ NetTyped /\ AppTyped /\ host \in Host
  BY DEF NetInv, Typed, NetTyped
<1>0. ASSUME Peers' = {} PROVE CurrentInv'
  BY <1>0 DEF CurrentInv
\* The steps that leave the peers, what they were sent and what was stored and counted.
<1>q. ASSUME QuietNet, UNCHANGED <<shown, reached, sent>>, host'.snapshot = host.snapshot,
             Peers' = Peers, Hosting => Hosting',
             ~Owes("Project")' => ~Owes("Project"), ~Owes("View")' => ~Owes("View")
      PROVE  CurrentInv'
  <2>1. \A c \in Peers' : reached'[c] # {} => Hosting'
    BY <1>q DEF CurrentInv
  <2>2. ASSUME NEW s \in Spectator, Attends(s)', spec'[s].conn \in Peers'
        PROVE  ShowsProject(s)' /\ ShowsView(s)'
    <3>1. Undisturbed(s)
      BY <1>q, <2>2, QuietComing
    <3>2. spec[s].conn \in Peers
      BY <1>q, <2>2, <3>1 DEF Undisturbed
    <3> QED BY <1>q, <3>1, <3>2, CurrentKept
  <2> QED BY <2>1, <2>2 DEF CurrentInv
<1>1. CASE CreateSession
  BY <1>0, <1>1, <1>t DEF CreateSession, StartHost, Peers, Host, HostType
<1>2. CASE UserActs \/ Tick
  <2>1. /\ QuietNet /\ host' = host /\ outbox = <<>> /\ UNCHANGED shown
        /\ UNCHANGED <<reached, sent>>
    BY <1>2 DEF UserActs, Tick, netVars, Ready, QuietNet
  <2>2. ~Owes("Project") /\ ~Owes("View")
    BY <2>1, OwesNothing DEF Owes
  <2> QED BY <1>q, <2>1, <2>2 DEF Peers, Hosting
<1>3. CASE EndSession
  BY <1>0, <1>3, <1>t DEF EndSession, HostLeave, Peers, Host, HostType
<1>4. CASE Store
  <2>1. outbox # <<>> /\ Head(outbox).do = "store" /\ outbox' = Tail(outbox)
        /\ SetProjectSnapshot(Head(outbox).msg) /\ UNCHANGED <<shown, reached, sent>>
    BY <1>4 DEF Store
  <2>2. /\ ToStore /\ Head(outbox).msg = SaveBuffer(app)
        /\ outbox' \in {<<Sending(SaveBuffer(app))>>, <<Sending(SaveBuffer(app)), Counting>>}
    BY <2>1, FirstTask
  <2>3. /\ Peers' = Peers /\ host'.role = host.role /\ host'.leaving = host.leaving
    BY <1>t, <2>1 DEF SetProjectSnapshot, Peers, Host, HostType
  <2>4. Owes("Project")' /\ ~Owes("View")
    BY <2>2, OwesProject DEF Owes, ToStore
  <2>5. QuietNet
    BY <1>t, <2>1, <2>2, RefreshTyped DEF QuietNet, AppTyped
  <2>6. \A c \in Peers' : reached'[c] # {} => Hosting'
    BY <2>1, <2>3 DEF CurrentInv, Hosting
  <2>7. ASSUME NEW s \in Spectator, Attends(s)', spec'[s].conn \in Peers'
        PROVE  ShowsProject(s)' /\ ShowsView(s)'
    <3>1. Undisturbed(s)
      BY <2>1, <2>5, <2>7, QuietComing
    <3>2. spec[s].conn \in Peers
      BY <2>3, <2>7, <3>1 DEF Undisturbed
    <3>3. ShowsView(s)'
      BY <2>1, <2>4, <3>1, <3>2, CurrentKept
    <3> QED BY <2>4, <3>3 DEF ShowsProject
  <2> QED BY <2>6, <2>7 DEF CurrentInv
<1>5. CASE Send
  <2> DEFINE m == Head(outbox).msg
  <2>1. /\ outbox # <<>> /\ Head(outbox).do = "send" /\ outbox' = Tail(outbox) /\ Broadcast(m)
        /\ UNCHANGED <<app, sent, shown>>
        /\ reached' = [c \in Conn |-> IF c \in Peers' THEN reached[c] \cup {m.kind} ELSE {}]
    BY <1>5 DEF Send, Peers
  <2>2. m \in Msg /\ Hosting
    <3>1. Head(outbox) \in Task
      BY <1>t, <2>1 DEF AppTyped
    <3> QED BY <2>1, <3>1 DEF Task, TickInv
  <2>3. /\ host'.role = host.role /\ host'.leaving = host.leaving
        /\ host'.snapshot = host.snapshot
    BY <1>t, <2>1, <2>2, HostStays
  <2>p. Peers' \subseteq Peers /\ Peers \subseteq Conn
    BY <1>t, <2>1 DEF Broadcast, Peers, Host, HostType
  <2>4. \/ /\ ToSend /\ m = SaveBuffer(app) /\ outbox' \in {<<>>, <<Counting>>}
        \/ /\ ToView /\ m = ViewMsg(sent.framing) /\ outbox' = <<>>
    BY <2>1, FirstTask
  <2> HIDE DEF m
  <2>5. ASSUME NEW s \in Spectator, Attends(s)', spec'[s].conn \in Peers'
        PROVE  ShowsProject(s)' /\ ShowsView(s)'
    <3> DEFINE c == spec[s].conn
               v == view[s]
               q == Coming(s)
    <3>1. SentTo(s)
      BY <1>5, <2>5, SendComing DEF Undisturbed
    <3>2. /\ Attends(s) /\ spec'[s].conn = c /\ c \in Peers' /\ c \in Peers
          /\ Coming(s)' = Append(q, m) /\ view'[s] = v /\ blind'[s] = blind[s]
      BY <2>p, <3>1 DEF SentTo, SameView, m
    <3>3. q \in Seq(Msg) /\ v \in App
      BY <1>t, <3>2, PartsTyped DEF Attends, AppTyped
    <3>n. \A k : /\ Has(Append(q, m), k) <=> m.kind = k \/ Has(q, k)
                 /\ m.kind = k => Append(q, m)[LastOf(Append(q, m), k)] = m
                 /\ (Has(q, k) /\ m.kind # k) =>
                       Append(q, m)[LastOf(Append(q, m), k)] = q[LastOf(q, k)]
      BY <2>2, <3>3, NewestAppended
    <3>4. WillShow(s)' = IF m.kind = "Project" THEN m.doc ELSE WillShow(s)
      BY <3>2, <3>n DEF WillShow, Applied
    <3>w. /\ m.kind = "View" => WillFrame(v, blind[s], Append(q, m), m.framing)
          /\ m.kind # "View" => \A f : WillFrame(v, blind[s], q, f) =>
                                        WillFrame(v, blind[s], Append(q, m), f)
      BY <3>n DEF WillFrame
    <3>5. ShowsProject(s) /\ ShowsView(s)
      BY <3>2 DEF CurrentInv
    <3>6. reached'[c] = reached[c] \cup {m.kind}
      BY <2>1, <2>p, <3>2
    <3>7. CASE ToSend /\ m = SaveBuffer(app) /\ outbox' \in {<<>>, <<Counting>>}
      <4>1. m.kind = "Project" /\ m.doc = host.snapshot.doc
        BY <3>7 DEF ToSend, SaveBuffer
      <4>2. ~Owes("View")
        BY <3>7, OwesProject DEF ToSend, Owes
      <4>3. ShowsProject(s)'
        BY <2>3, <3>4, <4>1 DEF ShowsProject
      <4>4. "View" \in reached'[c] => WillFrame(v, blind[s], Append(q, m), sent.framing)
        <5>1. "View" \in reached'[c] => "View" \in reached[c]
          BY <3>6, <4>1
        <5>2. "View" \in reached[c] => WillFrame(v, blind[s], q, sent.framing)
          BY <3>5, <4>2 DEF ShowsView
        <5> QED BY <3>w, <4>1, <5>1, <5>2
      <4>5. ShowsView(s)'
        BY <2>1, <3>2, <4>4 DEF ShowsView
      <4> QED BY <4>3, <4>5
    <3>8. CASE ToView /\ m = ViewMsg(sent.framing) /\ outbox' = <<>>
      <4>1. m.kind = "View" /\ m.framing = sent.framing
        BY <3>8, TaskKinds
      <4>2. ~Owes("Project")
        BY <3>8, OwesView DEF ToView, Owes
      <4>3. ShowsProject(s)'
        BY <2>3, <3>2, <3>4, <3>5, <3>6, <4>1, <4>2 DEF ShowsProject
      <4>4. ShowsView(s)'
        BY <2>1, <3>2, <3>w, <4>1 DEF ShowsView
      <4> QED BY <4>3, <4>4
    <3> QED BY <2>4, <3>7, <3>8
  <2> QED BY <2>2, <2>3, <2>5 DEF CurrentInv, Hosting
<1>6. CASE CountPeers
  <2>1. /\ QuietNet /\ host' = host /\ UNCHANGED shown /\ reached' = reached
        /\ outbox # <<>> /\ Head(outbox).do = "count"
    BY <1>6 DEF CountPeers, netVars, QuietNet
  <2>2. ToCount
    BY <2>1, FirstTask
  <2>3. ~Owes("Project") /\ ~Owes("View")
    BY <2>2, OwesNothing DEF Owes, ToCount
  <2>4. sent'.framing = app.framing /\ app.framing \in Framing
    BY <1>6, <1>t DEF CountPeers, AppTyped, App
  <2>5. sent'.framing = sent.framing \/ Owes("View")'
    <3>1. CASE outbox' = <<[do |-> "send", msg |-> ViewMsg(app.framing)]>>
      BY <3>1, OwesView DEF Owes, Sending
    <3>2. CASE outbox' # <<[do |-> "send", msg |-> ViewMsg(app.framing)]>>
      <4>1. (IF Cardinality(Peers) > sent.peers THEN NeverSent ELSE sent.framing) = app.framing
        BY <1>6, <3>2 DEF CountPeers, ViewToSend, ViewMsg
      <4>2. app.framing # NeverSent
        BY <2>4, ReviewAssumption
      <4>3. sent.framing = app.framing
        BY <4>1, <4>2
      <4> QED BY <2>4, <4>3
    <3> QED BY <3>1, <3>2
  <2>6. Peers' = Peers /\ Hosting' = Hosting /\ host'.snapshot = host.snapshot
    BY <2>1 DEF Peers, Hosting
  <2>7. \A c \in Peers' : reached'[c] # {} => Hosting'
    BY <2>1, <2>6 DEF CurrentInv
  <2>8. ASSUME NEW s \in Spectator, Attends(s)', spec'[s].conn \in Peers'
        PROVE  ShowsProject(s)' /\ ShowsView(s)'
    <3>1. Undisturbed(s)
      BY <2>1, <2>8, QuietComing
    <3>2. spec[s].conn \in Peers
      BY <2>6, <2>8, <3>1 DEF Undisturbed
    <3>3. ShowsProject(s)'
      BY <2>1, <2>3, <2>6, <3>1, <3>2, CurrentKept
    <3>4. ShowsView(s)'
      <4>1. CASE sent'.framing = sent.framing
        BY <2>1, <2>3, <3>1, <3>2, <4>1, CurrentKept
      <4>2. CASE Owes("View")'
        BY <4>2 DEF ShowsView
      <4> QED BY <2>5, <4>1, <4>2
    <3> QED BY <3>3, <3>4
  <2> QED BY <2>7, <2>8 DEF CurrentInv
<1>7. CASE HostEnded
  <2>1. Peers' = Peers /\ host.leaving /\ reached' = reached
    BY <1>7, <1>t DEF HostEnded, HostLeaveJoin, Peers, Host, HostType
  <2>2. \A c \in Peers' : reached'[c] = {}
    BY <2>1 DEF CurrentInv, Hosting
  <2> QED BY <2>2 DEF CurrentInv, ShowsProject, ShowsView
<1>8. CASE HostThread
  <2>1. /\ host'.role = host.role /\ host'.leaving = host.leaving
        /\ host'.snapshot = host.snapshot /\ UNCHANGED appVars
    BY <1>8, <1>t, HostStays DEF HostThread
  <2>2. \A c \in Peers' \ Peers : reached'[c] = {}
    BY <1>8, <2>1, NewPeers DEF NetInv, Joining, appVars
  <2>3. \A c \in Peers' : reached'[c] # {} => Hosting'
    BY <2>1, <2>2 DEF CurrentInv, Hosting, appVars
  <2>4. ASSUME NEW s \in Spectator, Attends(s)', spec'[s].conn \in Peers'
        PROVE  ShowsProject(s)' /\ ShowsView(s)'
    <3>1. CASE reached'[spec'[s].conn] = {}
      BY <3>1 DEF ShowsProject, ShowsView
    <3>2. CASE reached'[spec'[s].conn] # {}
      <4>1. spec'[s].conn \in Peers /\ reached[spec'[s].conn] # {}
        BY <2>1, <2>2, <2>4, <3>2 DEF appVars
      <4>2. ~Handed(s)
        <5> SUFFICES ASSUME Handed(s) PROVE FALSE
          OBVIOUS
        <5>1. spec'[s] = spec[s] /\ Unheard(spec[s].conn) /\ spec[s].role = "Spectator"
          BY DEF Handed, Unheard, Attends
        <5> QED BY <4>1, <5>1, UnheardIsQuiet
      <4>3. Undisturbed(s)
        BY <1>8, <2>4, <4>2, ThreadComing
      <4>4. spec'[s].conn = spec[s].conn
        BY <4>3 DEF Undisturbed
      <4> QED BY <2>1, <4>1, <4>3, <4>4, CurrentKept DEF appVars, Owes
    <3> QED BY <3>1, <3>2
  <2> QED BY <2>3, <2>4 DEF CurrentInv
<1>9. ASSUME NEW t \in Spectator,
             JoinSession(t) \/ LeaveSession(t) \/ SpecMain(t) \/ SpecThread(t)
      PROVE  CurrentInv'
  <2>1. SpecNet(t) /\ UNCHANGED appVars /\ host' = host
    BY <1>9, <1>t, SpecSteps, SpecKeeps
  <2>2. Peers' = Peers /\ Hosting' = Hosting
    BY <2>1 DEF Peers, Hosting
  <2>3. \A c \in Peers' : reached'[c] # {} => Hosting'
    BY <2>1, <2>2 DEF CurrentInv, appVars
  <2>4. ASSUME NEW s \in Spectator, Attends(s)', spec'[s].conn \in Peers'
        PROVE  ShowsProject(s)' /\ ShowsView(s)'
    <3>1. Undisturbed(s) \/ DrainedSome(s)
      <4>1. CASE s = t
        <5>1. ~Joined(s)
          BY <2>2, <2>4 DEF Joined, NetInv, Joining
        <5> QED BY <1>9, <2>4, <4>1, <5>1, OwnComing
      <4>2. CASE s # t
        <5>1. spec'[s] = spec[s]
          BY <1>t, <2>1, <4>2, SpecKeeps
        <5>2. Attends(s)
          BY <2>4, <5>1 DEF Attends
        <5>3. Coming(s)' = Coming(s)
          BY <2>1, <4>2, <5>2, OthersComing
        <5> QED BY <5>1, <5>2, <5>3, ViewSteps DEF Undisturbed
      <4> QED BY <4>1, <4>2
    <3>2. spec[s].conn \in Peers
      BY <2>2, <2>4, <3>1 DEF Undisturbed, DrainedSome
    <3> QED BY <2>1, <3>1, <3>2, CurrentKept DEF appVars, Owes
  <2> QED BY <2>3, <2>4 DEF CurrentInv
<1>10. CASE UNCHANGED vars
  <2>1. QuietNet /\ UNCHANGED <<shown, reached, sent, host, outbox>>
    BY <1>10 DEF vars, netVars, appVars, QuietNet
  <2> QED BY <1>q, <2>1 DEF Peers, Hosting, Owes
<1> QED BY <1>1, <1>2, <1>3, <1>4, <1>5, <1>6, <1>7, <1>8, <1>9, <1>10 DEF Next, HostMain

----------------------------------------------------------------------------

\* The invariant holds at the start,
LEMMA Initially == Init => IInv
<1> SUFFICES ASSUME Init PROVE IInv
  OBVIOUS
<1>1. Typed
  BY InitTyped
<1>2. \A s \in Spectator : spec[s].role = "None" /\ spec[s].inbound = <<>>
  BY DEF Init, NetInit
<1>3. /\ host.role = "None" /\ host.loop = "off" /\ ~host.leaving /\ Peers = {}
      /\ host.snapshot = NoProject
  BY DEF Init, NetInit, Peers
<1>4. DOMAIN conn = {}
  BY DEF Init, NetInit
<1>5. Wired
  BY <1>2 DEF Wired
<1>6. Joining
  BY <1>2, <1>3, <1>4 DEF Joining, Init
<1>7. TickInv
  BY <1>3 DEF TickInv, Init
<1>8. OrderInv
  BY <1>2, <1>3 DEF OrderInv, Attends, Holding, Known, Init, Idle
<1>9. CurrentInv
  BY <1>2, <1>3 DEF CurrentInv, Attends
<1> QED BY <1>1, <1>5, <1>6, <1>7, <1>8, <1>9 DEF IInv, NetInv

\* and every step keeps it.
LEMMA Inductive == IInv /\ [Next]_vars => IInv'
<1> SUFFICES ASSUME IInv, [Next]_vars PROVE IInv'
  OBVIOUS
<1>1. NetInv /\ TickInv /\ OrderInv /\ CurrentInv /\ Typed /\ NetTyped
  BY DEF IInv, NetInv, Typed
<1>2. Typed'
  BY <1>1, NextTyped
<1>3. Wired'
  BY <1>1, NetSteps, WiredStep DEF NetInv
<1>4. Joining'
  BY <1>1, JoiningStep DEF NetInv
<1>5. TickInv'
  BY <1>1, TickStep
<1>6. OrderInv'
  BY <1>1, <1>2, OrderStep
<1>7. CurrentInv'
  BY <1>1, CurrentStep
<1> QED BY <1>2, <1>3, <1>4, <1>5, <1>6, <1>7 DEF IInv, NetInv

\* A peer that was sent a project, or a framing, since it joined shows the latest one once it
\* has applied everything, whichever peers a broadcast dropped; of a framing that found no
\* frame to be placed on, the zoom with the image centred. At every moment what it shows and
\* what is coming to it make up what was stored and counted last (CurrentInv).
THEOREM PeersCurrentHolds == Spec => []PeersCurrent
<1>1. IInv => PeersCurrent
  <2> SUFFICES ASSUME IInv, NEW s \in Spectator, Drained(s), outbox = <<>>,
                      spec[s].conn \in Peers
               PROVE  /\ "Project" \in reached[spec[s].conn] => view[s].doc = host.snapshot.doc
                      /\ "View" \in reached[spec[s].conn] =>
                            view[s].framing = Placed(sent.framing, ~blind[s])
    BY DEF PeersCurrent
  <2>1. NetTyped
    BY DEF IInv, NetInv, Typed
  <2>2. Attends(s) /\ Coming(s) = <<>>
    BY <2>1, NothingUnderWay DEF Drained, Free, Attends
  <2>3. ~Owes("Project") /\ ~Owes("View")
    BY OwesNothing DEF Owes
  <2>4. ~Has(Coming(s), "Project") /\ ~Has(Coming(s), "View")
    BY <2>2 DEF Has
  <2>5. WillShow(s) = view[s].doc
    BY <2>4 DEF WillShow, Applied
  <2>6. ShowsProject(s) /\ ShowsView(s)
    BY <2>2 DEF IInv, CurrentInv
  <2> QED BY <2>3, <2>4, <2>5, <2>6 DEF ShowsProject, ShowsView, WillFrame
<1> QED BY <1>1, Initially, Inductive, PTL DEF Spec

\* A spectator never goes back to an older project: what is coming to it ascends from what
\* it shows (OrderInv), the snapshot the accepting thread sends without the lock included,
\* as a joiner is a peer only after it.
THEOREM ProjectNeverOlderHolds == Spec => ProjectNeverOlder
<1>1. IInv /\ [Next]_vars => [\A s \in Spectator : view'[s].doc >= view[s].doc]_vars
  <2> SUFFICES ASSUME IInv, [Next]_vars, NEW s \in Spectator PROVE view'[s].doc >= view[s].doc
    OBVIOUS
  <2>0. /\ NetInv /\ Typed /\ NetTyped /\ OrderInv /\ view[s] \in App /\ view[s].doc \in Nat
    BY DEF IInv, NetInv, Typed, AppTyped, App
  <2>1. CASE SameView(s)
    BY <2>0, <2>1 DEF SameView
  <2>2. CASE DrainedSome(s)
    <3> PICK g \in BOOLEAN : view'[s] = Applied(view[s], Queued(s), g)
      BY <2>2 DEF DrainedSome, AppliesQueued
    <3>1. /\ Queued(s) \in Seq(Msg) /\ Coming(s)' \in Seq(Msg)
          /\ Coming(s) = Queued(s) \o Coming(s)' /\ Applied(view[s], Queued(s), g) \in App
      BY <2>0, <2>2, QueuedTyped, AppliedTyped DEF DrainedSome
    <3>2. Ascending(view[s], Queued(s) \o Coming(s)')
      BY <2>0, <2>2, <3>1 DEF DrainedSome, OrderInv
    <3>3. view[s].doc <= view'[s].doc /\ view'[s].doc \in Nat
      BY <2>0, <3>1, <3>2, AscendingDrop DEF App
    <3> QED BY <2>0, <3>3
  <2> QED BY <2>0, <2>1, <2>2, ViewSteps
<1> QED BY <1>1, Initially, Inductive, PTL DEF Spec, ProjectNeverOlder

=============================================================================
