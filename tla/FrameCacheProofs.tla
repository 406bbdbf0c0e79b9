-------------------------- MODULE FrameCacheProofs --------------------------
(***************************************************************************)
(* Theorems about FrameCache, for every pool, set of media and keys,       *)
(* budget, frame size and wanted set.  The inductive invariant comes in    *)
(* three layers, each resting on the one before:                           *)
(*   ReadInv   which reads run, who registered them, which are called off; *)
(*   HoldInv   the counts the hold waits for;                              *)
(*   ByteInv   the entries and what they weigh.                            *)
(***************************************************************************)
EXTENDS FrameCache, Integers, Functions, FiniteSetTheorems, TLAPS

----------------------------------------------------------------------------
(* How SumOver behaves: what the accounting of bytes and holds rests on.   *)

\* The tokens of a finite set are finite, so a sum is a natural number.
LEMMA SumType ==
    ASSUME NEW S, IsFiniteSet(S), NEW f, \A k \in S : f[k] \in Nat
    PROVE  IsFiniteSet(Tokens(f, S)) /\ SumOver(f, S) \in Nat
<1> DEFINE F == [k \in S |-> {k} \X (1 .. f[k])]
           T == {{k} \X (1 .. f[k]) : k \in S}
<1>1. F \in Surjection(S, T)
  BY DEF Surjection
<1>2. IsFiniteSet(T)
  BY <1>1, FS_Surjection
<1>3. ASSUME NEW k \in S PROVE IsFiniteSet({k} \X (1 .. f[k]))
  <2>1. IsFiniteSet({k})
    BY FS_Singleton
  <2>2. IsFiniteSet(1 .. f[k])
    BY FS_Interval
  <2> QED BY <2>1, <2>2, FS_Product
<1>4. IsFiniteSet(UNION T)
  BY <1>2, <1>3, FS_UNION
<1> QED BY <1>4, FS_CardinalityType DEF Tokens, SumOver

\* Only the values on S matter.
LEMMA SumCong ==
    ASSUME NEW S, NEW f, NEW g, \A k \in S : f[k] = g[k]
    PROVE  SumOver(f, S) = SumOver(g, S)
<1>1. Tokens(f, S) = Tokens(g, S)
  BY DEF Tokens
<1> QED BY <1>1 DEF SumOver

\* The empty sum.
LEMMA SumEmpty == ASSUME NEW f PROVE SumOver(f, {}) = 0
<1>1. Tokens(f, {}) = {}
  BY DEF Tokens
<1> QED BY <1>1, FS_EmptySet DEF SumOver

\* The sum over a single element.
LEMMA SumSingle ==
    ASSUME NEW f, NEW k, f[k] \in Nat
    PROVE  SumOver(f, {k}) = f[k]
<1>1. Tokens(f, {k}) = {k} \X (1 .. f[k])
  BY DEF Tokens
<1>2. IsFiniteSet({k}) /\ Cardinality({k}) = 1
  BY FS_Singleton
<1>3. IsFiniteSet(1 .. f[k]) /\ Cardinality(1 .. f[k]) = f[k]
  BY FS_Interval, SMTT(30)
<1>4. Cardinality({k} \X (1 .. f[k])) = Cardinality({k}) * Cardinality(1 .. f[k])
  BY <1>2, <1>3, FS_Product, Zenon
<1>5. 1 * f[k] = f[k]
  OBVIOUS
<1> QED BY <1>1, <1>2, <1>3, <1>4, <1>5, Zenon DEF SumOver

\* A sum splits over disjoint parts.
LEMMA SumSplit ==
    ASSUME NEW S, IsFiniteSet(S), NEW T, IsFiniteSet(T), S \cap T = {},
           NEW f, \A k \in S \cup T : f[k] \in Nat
    PROVE  SumOver(f, S \cup T) = SumOver(f, S) + SumOver(f, T)
<1>1. Tokens(f, S \cup T) = Tokens(f, S) \cup Tokens(f, T)
  BY DEF Tokens
<1>2. Tokens(f, S) \cap Tokens(f, T) = {}
  BY DEF Tokens
<1>3. /\ IsFiniteSet(Tokens(f, S)) /\ IsFiniteSet(Tokens(f, T))
      /\ SumOver(f, S) \in Nat /\ SumOver(f, T) \in Nat
  BY SumType
<1>4. Cardinality(Tokens(f, S) \cup Tokens(f, T))
        = Cardinality(Tokens(f, S)) + Cardinality(Tokens(f, T)) - Cardinality({})
  BY <1>2, <1>3, FS_Union
<1>5. Cardinality({}) = 0
  BY FS_EmptySet
<1>6. SumOver(f, S \cup T) = SumOver(f, S) + SumOver(f, T) - 0
  BY <1>1, <1>4, <1>5, Zenon DEF SumOver
<1> QED BY <1>3, <1>6

\* Taking a part away.
LEMMA SumLess ==
    ASSUME NEW S, IsFiniteSet(S), NEW T, T \subseteq S,
           NEW f, \A k \in S : f[k] \in Nat
    PROVE  /\ SumOver(f, T) \in Nat /\ SumOver(f, S \ T) \in Nat
           /\ SumOver(f, S) = SumOver(f, S \ T) + SumOver(f, T)
<1>1. IsFiniteSet(T) /\ IsFiniteSet(S \ T)
  BY FS_Subset
<1>2. (S \ T) \cup T = S /\ (S \ T) \cap T = {}
  OBVIOUS
<1>3. SumOver(f, (S \ T) \cup T) = SumOver(f, S \ T) + SumOver(f, T)
  BY <1>1, <1>2, SumSplit
<1> QED BY <1>1, <1>2, <1>3, SumType

\* A new element.
LEMMA SumAdd ==
    ASSUME NEW S, IsFiniteSet(S), NEW x, x \notin S,
           NEW f, \A k \in S \cup {x} : f[k] \in Nat
    PROVE  SumOver(f, S \cup {x}) = SumOver(f, S) + f[x]
<1>1. IsFiniteSet({x}) /\ S \cap {x} = {}
  BY FS_Singleton
<1>2. SumOver(f, S \cup {x}) = SumOver(f, S) + SumOver(f, {x})
  BY <1>1, SumSplit
<1> QED BY <1>2, SumSingle

\* One element's value moves.
LEMMA SumChange ==
    ASSUME NEW S, IsFiniteSet(S), NEW x \in S,
           NEW f, \A k \in S : f[k] \in Nat,
           NEW g, \A k \in S : g[k] \in Nat, \A k \in S \ {x} : g[k] = f[k]
    PROVE  /\ f[x] <= SumOver(f, S)
           /\ SumOver(g, S) = SumOver(f, S) - f[x] + g[x]
<1>1. SumOver(f, S \ {x}) = SumOver(g, S \ {x})
  BY SumCong
<1>2. /\ SumOver(f, S) = SumOver(f, S \ {x}) + SumOver(f, {x})
      /\ SumOver(f, S \ {x}) \in Nat
  BY SumLess
<1>3. SumOver(g, S) = SumOver(g, S \ {x}) + SumOver(g, {x})
  BY SumLess
<1>4. SumOver(f, {x}) = f[x] /\ SumOver(g, {x}) = g[x]
  BY SumSingle
<1> QED BY <1>1, <1>2, <1>3, <1>4

\* A sum of zeros.
LEMMA SumZero ==
    ASSUME NEW S, NEW f, \A k \in S : f[k] = 0
    PROVE  SumOver(f, S) = 0
<1>1. Tokens(f, S) = {}
  BY DEF Tokens
<1> QED BY <1>1, FS_EmptySet DEF SumOver

\* A sum of ones counts.
LEMMA SumOnes ==
    ASSUME NEW S, IsFiniteSet(S), NEW f, \A k \in S : f[k] = 1
    PROVE  SumOver(f, S) = Cardinality(S) /\ Cardinality(S) \in Nat
<1>1. Tokens(f, S) = S \X (1 .. 1)
  BY DEF Tokens
<1>2. IsFiniteSet(1 .. 1) /\ Cardinality(1 .. 1) = 1
  <2>1. 1 .. 1 = {1}
    OBVIOUS
  <2>2. IsFiniteSet({1}) /\ Cardinality({1}) = 1
    BY FS_Singleton
  <2> QED BY <2>1, <2>2
<1>3. Cardinality(S \X (1 .. 1)) = Cardinality(S) * Cardinality(1 .. 1)
  BY <1>2, FS_Product, Zenon
<1>4. Cardinality(S) \in Nat
  BY FS_CardinalityType
<1>5. Cardinality(S) * 1 = Cardinality(S)
  BY <1>4
<1>6. SumOver(f, S) = Cardinality(S)
  BY <1>1, <1>2, <1>3, <1>5, Zenon DEF SumOver
<1> QED BY <1>4, <1>6

\* A part's values go from zero to one.
LEMMA SumRaise ==
    ASSUME NEW S, IsFiniteSet(S), NEW A, A \subseteq S,
           NEW f, \A k \in S : f[k] \in Nat, \A k \in A : f[k] = 0,
           NEW g, \A k \in A : g[k] = 1, \A k \in S \ A : g[k] = f[k]
    PROVE  SumOver(g, S) = SumOver(f, S) + Cardinality(A) /\ Cardinality(A) \in Nat
<1>0. IsFiniteSet(A)
  BY FS_Subset
<1>1. SumOver(f, S) = SumOver(f, S \ A) + SumOver(f, A) /\ SumOver(f, S \ A) \in Nat
  BY SumLess
<1>2. \A k \in S : g[k] \in Nat
  OBVIOUS
<1>3. SumOver(g, S) = SumOver(g, S \ A) + SumOver(g, A)
  BY <1>2, SumLess
<1>4. SumOver(f, S \ A) = SumOver(g, S \ A)
  BY SumCong
<1>5. SumOver(f, A) = 0
  BY SumZero
<1>6. SumOver(g, A) = Cardinality(A) /\ Cardinality(A) \in Nat
  BY <1>0, SumOnes
<1> QED BY <1>1, <1>3, <1>4, <1>5, <1>6

----------------------------------------------------------------------------
(* The invariant.                                                          *)

\* The types of what ReadInv speaks of.
ReadTypes ==
    /\ stop \in BOOLEAN /\ published \in BOOLEAN
    /\ generation \in Nat /\ mediaEpoch \in [Media -> Nat]
    /\ DOMAIN staged \subseteq Key /\ staged \in [DOMAIN staged -> Prio]
    /\ pending \subseteq [key : Key, prio : Prio]
    /\ InflightOK /\ ReadsOK
    /\ busyVideos \subseteq Video /\ failedMedia \subseteq Media
    /\ waiting \subseteq Worker /\ exited \subseteq Worker

\* A read that has not been called off stands in inflight_ under its own flag.
Registered ==
    \A w \in Reading : reads[w].cancel \/
        /\ reads[w].key \in DOMAIN inflight
        /\ inflight[reads[w].key].owner = w

\* Every entry of inflight_ is that of a running read of its key, with the
\* counters it started with; its media has not been dropped since.
InflightBacked ==
    \A k \in DOMAIN inflight :
        /\ inflight[k].owner \in Reading
        /\ reads[inflight[k].owner].key = k
        /\ reads[inflight[k].owner].gen = inflight[k].gen
        /\ reads[inflight[k].owner].epoch = mediaEpoch[MediaOf[k]]

\* A key is pending once, and never beside a read of it that still counts.
PendingOwed ==
    /\ \A p, q \in pending : p.key = q.key => p = q
    /\ \A p \in pending : ~HasLiveRead(p.key)

ReadInv ==
    /\ ReadTypes
    /\ Registered /\ InflightBacked /\ PendingOwed
    /\ DoomedCalledOff /\ SoleVideoReader

-----------------------------------------------------------------------------
\* What CalledOff changes: flags only go up, and only those of registered reads.
LEMMA CalledOffFacts ==
    ASSUME ReadsOK, InflightOK, NEW K \in SUBSET Key
    PROVE  LET R == CalledOff(reads, K)
           IN  /\ R = [w \in Reading |-> R[w]]
               /\ DOMAIN R = Reading
               /\ \A w \in Reading :
                    /\ R[w] \in Read
                    /\ R[w].key = reads[w].key /\ R[w].prio = reads[w].prio
                    /\ R[w].gen = reads[w].gen /\ R[w].epoch = reads[w].epoch
                    /\ R[w].cancel <=>
                         \/ reads[w].cancel
                         \/ \E k \in K \cap DOMAIN inflight : inflight[k].owner = w
BY ZenonT(30) DEF ReadsOK, InflightOK, CalledOff, Read, Reading

\* The first layer holds initially.
LEMMA ReadInvInit == Init => ReadInv
<1> SUFFICES ASSUME Init PROVE ReadInv
  OBVIOUS
<1> USE CacheAssumption DEF Init
<1>1. ReadTypes
  BY DEF ReadTypes, InflightOK, ReadsOK, Reading, EmptyMap
<1>2. Reading = {} /\ DOMAIN inflight = {} /\ pending = {} /\ busyVideos = {}
  BY DEF Reading, EmptyMap
<1> QED
  BY <1>1, <1>2 DEF ReadInv, Registered, InflightBacked, PendingOwed,
     DoomedCalledOff, SoleVideoReader

\* Actions that leave every variable of the layer but `waiting` and `exited` alone.
LEMMA ReadInvFrame ==
    ASSUME ReadInv, waiting' \subseteq Worker, exited' \subseteq Worker,
           UNCHANGED <<stop, published, generation, mediaEpoch, staged, pending,
                       inflight, reads, busyVideos, failedMedia>>
    PROVE  ReadInv'
BY DEF ReadInv, ReadTypes, InflightOK, ReadsOK, Registered, InflightBacked,
   PendingOwed, HasLiveRead, DoomedCalledOff, IsLive, SoleVideoReader, Reading
\* One worker per video is a matter of who reads which key.
LEMMA SameReadersSole ==
    ASSUME SoleVideoReader, Reading' = Reading, UNCHANGED busyVideos,
           \A w \in Reading : reads'[w].key = reads[w].key
    PROVE  SoleVideoReader'
<1>1. {MediaOf[reads'[w].key] : w \in Reading'} = {MediaOf[reads[w].key] : w \in Reading}
  OBVIOUS
<1> QED BY <1>1 DEF SoleVideoReader

\* Publishing a wanted set: what is pending has no live read, and calling reads off
\* leaves every other fact standing.
LEMMA ReadInvEndRequests ==
    ASSUME ReadInv, NEW b \in Batch, NEW h \in BOOLEAN, EndRequests(b, h)
    PROVE  ReadInv'
<1> USE CacheAssumption
<1> DEFINE K == Key \ DOMAIN b
<1>1. K \in SUBSET Key /\ ReadsOK /\ InflightOK
  BY DEF ReadInv, ReadTypes
<1>2. /\ reads' = CalledOff(reads, K)
      /\ UNCHANGED <<stop, generation, mediaEpoch, inflight, busyVideos,
                     failedMedia, exited>>
      /\ staged' = b /\ published' = TRUE /\ waiting' = {}
      /\ pending' = {[key |-> k, prio |-> b[k]] :
                        k \in {j \in DOMAIN b \ Resident : ~HasLiveRead(j)}}
  BY DEF EndRequests, flushVars, NotifyAll
<1>3. /\ reads' = [w \in Reading |-> reads'[w]] /\ DOMAIN reads' = Reading
      /\ \A w \in Reading :
            /\ reads'[w] \in Read
            /\ reads'[w].key = reads[w].key /\ reads'[w].prio = reads[w].prio
            /\ reads'[w].gen = reads[w].gen /\ reads'[w].epoch = reads[w].epoch
            /\ reads[w].cancel => reads'[w].cancel
  BY <1>1, <1>2, CalledOffFacts, ZenonT(30)
<1>4. DOMAIN b \subseteq Key /\ b \in [DOMAIN b -> Prio]
  OBVIOUS
<1>5. ReadTypes'
  <2>1. ReadsOK' /\ InflightOK'
    BY <1>1, <1>2, <1>3 DEF ReadsOK, InflightOK, Reading
  <2>2. pending' \subseteq [key : Key, prio : Prio]
    BY <1>2, <1>4
  <2> QED BY <1>2, <1>4, <2>1, <2>2 DEF ReadInv, ReadTypes
<1>6. Registered' /\ InflightBacked' /\ DoomedCalledOff'
  <2> USE <1>3
  <2>0. Reading' = Reading /\ UNCHANGED <<inflight, generation, mediaEpoch>>
    BY <1>2 DEF Reading
  <2>1. Registered'
    BY <2>0 DEF ReadInv, Registered
  <2>2. InflightBacked'
    BY <2>0 DEF ReadInv, InflightBacked
  <2>3. DoomedCalledOff'
    BY <2>0 DEF ReadInv, DoomedCalledOff, IsLive
  <2> QED BY <2>1, <2>2, <2>3
<1>8. SoleVideoReader'
  BY <1>2, <1>3, SameReadersSole DEF ReadInv, Reading
<1>7. PendingOwed'
  <2>1. \A p, q \in pending' : p.key = q.key => p = q
    BY <1>2
  <2>2. ASSUME NEW p \in pending' PROVE ~HasLiveRead(p.key)'
    <3>1. ~HasLiveRead(p.key)
      BY <1>2
    <3> QED BY <3>1, <1>2, <1>3 DEF HasLiveRead, ReadInv, InflightBacked, Reading
  <2> QED BY <2>1, <2>2 DEF PendingOwed
<1> QED BY <1>5, <1>6, <1>7, <1>8 DEF ReadInv

\* Flushing everything: the reads that had not been called off are registered, so
\* the flush calls them off as it dooms them.
LEMMA ReadInvClear == ASSUME ReadInv, Clear PROVE ReadInv'
<1> USE CacheAssumption
<1>1. Key \in SUBSET Key /\ ReadsOK /\ InflightOK
  BY DEF ReadInv, ReadTypes
<1>2. /\ reads' = CalledOff(reads, Key)
      /\ generation' = generation + 1
      /\ UNCHANGED <<stop, mediaEpoch, staged, published, inflight, busyVideos,
                     waiting, exited>>
      /\ failedMedia' = {} /\ pending' = {}
  BY DEF Clear, wantVars
<1>3. /\ reads' = [w \in Reading |-> reads'[w]] /\ DOMAIN reads' = Reading
      /\ \A w \in Reading :
            /\ reads'[w] \in Read
            /\ reads'[w].key = reads[w].key
            /\ reads'[w].gen = reads[w].gen /\ reads'[w].epoch = reads[w].epoch
            /\ reads'[w].cancel <=>
                 reads[w].cancel \/ \E k \in DOMAIN inflight : inflight[k].owner = w
  BY <1>1, <1>2, CalledOffFacts DEF InflightOK
<1>4. ReadTypes'
  BY <1>2, <1>3 DEF ReadInv, ReadTypes, ReadsOK, InflightOK, Reading
<1>5. \A w \in Reading : reads'[w].cancel
  BY <1>3 DEF ReadInv, Registered
<1>6. Registered' /\ InflightBacked' /\ DoomedCalledOff' /\ SoleVideoReader'
  BY <1>2, <1>3, <1>5 DEF ReadInv, Registered, InflightBacked, DoomedCalledOff,
     SoleVideoReader, Reading
<1>7. PendingOwed'
  BY <1>2 DEF PendingOwed
<1> QED BY <1>4, <1>6, <1>7 DEF ReadInv

\* Flushing one media: its registered reads are called off with their entries.
LEMMA ReadInvDropMedia == ASSUME ReadInv, NEW m \in Media, DropMedia(m) PROVE ReadInv'
<1> USE CacheAssumption
<1> DEFINE mine == {k \in Key : MediaOf[k] = m}
<1>1. mine \in SUBSET Key /\ ReadsOK /\ InflightOK
  BY DEF ReadInv, ReadTypes
<1>2. /\ reads' = CalledOff(reads, mine)
      /\ mediaEpoch' = [mediaEpoch EXCEPT ![m] = @ + 1]
      /\ inflight' = Without(inflight, mine)
      /\ UNCHANGED <<stop, generation, staged, published, pending, busyVideos,
                     waiting, exited>>
      /\ failedMedia' = failedMedia \ {m}
  BY DEF DropMedia, wantVars
<1>3. /\ reads' = [w \in Reading |-> reads'[w]] /\ DOMAIN reads' = Reading
      /\ \A w \in Reading :
            /\ reads'[w] \in Read
            /\ reads'[w].key = reads[w].key
            /\ reads'[w].gen = reads[w].gen /\ reads'[w].epoch = reads[w].epoch
            /\ reads'[w].cancel <=>
                 \/ reads[w].cancel
                 \/ \E k \in mine \cap DOMAIN inflight : inflight[k].owner = w
  BY <1>1, <1>2, CalledOffFacts
<1>4. /\ DOMAIN inflight' = DOMAIN inflight \ mine
      /\ \A k \in DOMAIN inflight' : inflight'[k] = inflight[k]
      /\ inflight' = [k \in DOMAIN inflight' |-> inflight'[k]]
  BY <1>2 DEF Without, Restrict
<1>5. \A n \in Media : mediaEpoch'[n] = IF n = m THEN mediaEpoch[n] + 1 ELSE mediaEpoch[n]
  BY <1>2 DEF ReadInv, ReadTypes
<1>6. ReadTypes'
  <2>1. ReadsOK' /\ InflightOK'
    BY <1>1, <1>3, <1>4 DEF ReadsOK, InflightOK, Reading
  <2>2. mediaEpoch' \in [Media -> Nat]
    BY <1>2 DEF ReadInv, ReadTypes
  <2> QED BY <1>2, <2>1, <2>2 DEF ReadInv, ReadTypes
<1>7. \A w \in Reading : MediaOf[reads[w].key] = m => reads'[w].cancel
  BY <1>1, <1>3 DEF ReadInv, Registered, ReadsOK, Read, Reading
<1>8. \A w \in Reading : MediaOf[reads[w].key] # m =>
        (reads'[w].cancel <=> reads[w].cancel)
  BY <1>1, <1>3 DEF ReadInv, InflightBacked, Reading
<1>9. \A w \in Reading : reads[w].key \in Key /\ MediaOf[reads[w].key] \in Media
  BY <1>1 DEF ReadsOK, Read, Reading
<1>10. Registered'
  <2> SUFFICES ASSUME NEW w \in Reading, ~reads'[w].cancel
               PROVE  /\ reads[w].key \in DOMAIN inflight'
                      /\ inflight'[reads[w].key].owner = w
    BY <1>3 DEF Registered, Reading
  <2>1. MediaOf[reads[w].key] # m
    BY <1>7
  <2>2. ~reads[w].cancel
    BY <1>3
  <2> QED BY <2>1, <2>2, <1>4 DEF ReadInv, Registered
<1>11. InflightBacked'
  <2> SUFFICES ASSUME NEW k \in DOMAIN inflight'
               PROVE  /\ inflight[k].owner \in Reading
                      /\ reads'[inflight[k].owner].key = k
                      /\ reads'[inflight[k].owner].gen = inflight[k].gen
                      /\ reads'[inflight[k].owner].epoch = mediaEpoch'[MediaOf[k]]
    BY <1>3, <1>4 DEF InflightBacked, Reading
  <2>1. k \in Key /\ MediaOf[k] # m /\ MediaOf[k] \in Media
    BY <1>1, <1>4 DEF InflightOK
  <2> QED BY <2>1, <1>3, <1>4, <1>5 DEF ReadInv, InflightBacked
<1>12. DoomedCalledOff'
  <2> SUFFICES ASSUME NEW w \in Reading, ~reads'[w].cancel
               PROVE  /\ reads'[w].gen = generation'
                      /\ reads'[w].epoch = mediaEpoch'[MediaOf[reads'[w].key]]
    BY <1>3 DEF DoomedCalledOff, IsLive, Reading
  <2>1. MediaOf[reads[w].key] # m /\ ~reads[w].cancel
    BY <1>3, <1>7
  <2> QED BY <2>1, <1>2, <1>3, <1>5, <1>9 DEF ReadInv, DoomedCalledOff, IsLive
<1>13. SoleVideoReader'
  BY <1>2, <1>3, SameReadersSole DEF ReadInv, Reading
<1>14. PendingOwed'
  <2>1. ASSUME NEW k \in DOMAIN inflight', ~reads'[inflight'[k].owner].cancel,
               inflight'[k].gen = generation'
        PROVE  HasLiveRead(k)
    <3>1. k \in DOMAIN inflight /\ inflight'[k] = inflight[k]
      BY <1>4
    <3>2. inflight[k].owner \in Reading
      BY <3>1 DEF ReadInv, InflightBacked
    <3>3. ~reads[inflight[k].owner].cancel
      BY <1>3, <2>1, <3>1, <3>2
    <3> QED BY <1>2, <2>1, <3>1, <3>3 DEF HasLiveRead
  <2> QED BY <1>2, <2>1 DEF ReadInv, PendingOwed, HasLiveRead
<1> QED BY <1>6, <1>10, <1>11, <1>12, <1>13, <1>14 DEF ReadInv
\* A destructor empties pending_; a job whose frame is resident is dropped.
LEMMA ReadInvShrink ==
    ASSUME ReadInv, pending' \subseteq pending, waiting' \subseteq Worker,
           stop' \in BOOLEAN,
           UNCHANGED <<published, generation, mediaEpoch, staged, inflight, reads,
                       busyVideos, failedMedia, exited>>
    PROVE  ReadInv'
<1>1. ReadTypes'
  BY DEF ReadInv, ReadTypes, InflightOK, ReadsOK, Reading
<1>2. Registered' /\ InflightBacked' /\ DoomedCalledOff'
  BY DEF ReadInv, Registered, InflightBacked, DoomedCalledOff, IsLive, Reading
<1>3. PendingOwed'
  BY DEF ReadInv, PendingOwed, HasLiveRead
<1>4. SoleVideoReader'
  BY SameReadersSole DEF ReadInv, Reading
<1> QED BY <1>1, <1>2, <1>3, <1>4 DEF ReadInv

\* A worker starts a job.  The entry it overwrites, if any, is that of a read which
\* no longer counts: otherwise the job would not be pending.
LEMMA ReadInvStartRead ==
    ASSUME ReadInv, NEW w \in Worker, StartRead(w)
    PROVE  ReadInv'
<1> USE CacheAssumption
<1>1. PICK job \in Takeable : job.key \notin Resident /\ StartJob(w, job)
  BY DEF StartRead
<1> DEFINE k == job.key
           r == [key |-> k, prio |-> job.prio, gen |-> generation,
                 epoch |-> mediaEpoch[MediaOf[k]], cancel |-> FALSE]
<1>2. /\ job \in pending /\ job \in [key : Key, prio : Prio]
      /\ MediaOf[k] \notin busyVideos
      /\ k \in Key /\ MediaOf[k] \in Media
  BY <1>1 DEF Takeable, MostUrgent, Runnable, ReadInv, ReadTypes
<1>3. w \notin Reading
  BY DEF StartRead, Ready
<1>4. /\ pending' = pending \ {job}
      /\ inflight' = With(inflight, k, [gen |-> generation, owner |-> w])
      /\ reads' = With(reads, w, r)
      /\ busyVideos' = busyVideos \cup ({MediaOf[k]} \cap Video)
      /\ UNCHANGED <<stop, generation, mediaEpoch, staged, published,
                     failedMedia, waiting, exited>>
  BY <1>1 DEF StartRead, StartJob, flushVars, wantVars
<1>5. /\ DOMAIN reads' = Reading \cup {w} /\ reads'[w] = r
      /\ \A v \in Reading : reads'[v] = reads[v]
      /\ reads' = [v \in DOMAIN reads' |-> reads'[v]]
  BY <1>3, <1>4 DEF With, Reading
<1>6. /\ DOMAIN inflight' = DOMAIN inflight \cup {k}
      /\ inflight'[k] = [gen |-> generation, owner |-> w]
      /\ \A j \in DOMAIN inflight \ {k} : inflight'[j] = inflight[j]
      /\ inflight' = [j \in DOMAIN inflight' |-> inflight'[j]]
  BY <1>4 DEF With
<1>7. r \in Read
  BY <1>2 DEF ReadInv, ReadTypes, Read
<1>8. ReadTypes'
  <2>1. ReadsOK'
    BY <1>5, <1>7 DEF ReadInv, ReadTypes, ReadsOK, Reading
  <2>2. InflightOK'
    BY <1>2, <1>6 DEF ReadInv, ReadTypes, InflightOK
  <2> QED BY <1>4, <2>1, <2>2 DEF ReadInv, ReadTypes
<1>9. \A v \in Reading : reads[v].key = k => reads[v].cancel
  <2> SUFFICES ASSUME NEW v \in Reading, reads[v].key = k, ~reads[v].cancel
               PROVE  FALSE
    OBVIOUS
  <2>1. k \in DOMAIN inflight /\ inflight[k].owner = v
    BY DEF ReadInv, Registered
  <2>2. inflight[k].gen = generation
    BY <2>1 DEF ReadInv, InflightBacked, DoomedCalledOff, IsLive
  <2>3. HasLiveRead(k)
    BY <2>1, <2>2 DEF HasLiveRead
  <2> QED BY <1>2, <2>3 DEF ReadInv, PendingOwed
<1>10. Registered'
  <2>1. ASSUME NEW v \in Reading, ~reads[v].cancel
        PROVE  reads[v].key \in DOMAIN inflight' /\ inflight'[reads[v].key].owner = v
    BY <2>1, <1>6, <1>9 DEF ReadInv, Registered
  <2> QED BY <2>1, <1>5, <1>6 DEF Registered, Reading
<1>11. InflightBacked'
  <2>1. ASSUME NEW j \in DOMAIN inflight \ {k}
        PROVE  /\ inflight'[j].owner \in Reading
               /\ reads'[inflight'[j].owner].key = j
               /\ reads'[inflight'[j].owner].gen = inflight'[j].gen
               /\ reads'[inflight'[j].owner].epoch = mediaEpoch'[MediaOf[j]]
    <3>1. inflight'[j] = inflight[j] /\ inflight[j].owner \in Reading
      BY <1>6 DEF ReadInv, InflightBacked
    <3>2. reads'[inflight[j].owner] = reads[inflight[j].owner]
      BY <1>5, <3>1
    <3>3. inflight[j].owner \in Reading'
      BY <1>5, <3>1 DEF Reading
    <3> QED BY <3>1, <3>2, <3>3, <1>4 DEF ReadInv, InflightBacked
  <2>2. /\ inflight'[k].owner \in DOMAIN reads'
        /\ reads'[inflight'[k].owner].key = k
        /\ reads'[inflight'[k].owner].gen = inflight'[k].gen
        /\ reads'[inflight'[k].owner].epoch = mediaEpoch'[MediaOf[k]]
    <3>1. inflight'[k].owner = w /\ inflight'[k].gen = generation
      BY <1>6
    <3>2. /\ reads'[w].key = k /\ reads'[w].gen = generation
          /\ reads'[w].epoch = mediaEpoch[MediaOf[k]] /\ w \in DOMAIN reads'
      BY <1>5
    <3> QED BY <3>1, <3>2, <1>4
  <2>3. \A j \in DOMAIN inflight' : j = k \/ j \in DOMAIN inflight \ {k}
    BY <1>6
  <2> HIDE DEF k, r
  <2> QED BY <2>1, <2>2, <2>3, <1>5 DEF InflightBacked, Reading
<1>12. DoomedCalledOff'
  <2> SUFFICES ASSUME NEW v \in Reading', ~reads'[v].cancel
               PROVE  /\ reads'[v].gen = generation
                      /\ reads'[v].epoch = mediaEpoch[MediaOf[reads'[v].key]]
    BY <1>4 DEF DoomedCalledOff, IsLive
  <2>1. CASE v \in Reading
    BY <2>1, <1>5 DEF ReadInv, DoomedCalledOff, IsLive
  <2>2. CASE v = w
    BY <2>2, <1>5
  <2> QED BY <2>1, <2>2, <1>5 DEF Reading
<1>13. SoleVideoReader'
  <2>0. reads'[w].key = k
    BY <1>5
  <2> HIDE DEF k, r
  <2>1. busyVideos' = {MediaOf[reads'[v].key] : v \in Reading'} \cap Video
    <3>1. {MediaOf[reads'[v].key] : v \in Reading'}
            = {MediaOf[reads[v].key] : v \in Reading} \cup {MediaOf[k]}
      BY <2>0, <1>5 DEF Reading
    <3>2. busyVideos = {MediaOf[reads[v].key] : v \in Reading} \cap Video
      BY DEF ReadInv, SoleVideoReader
    <3> QED BY <3>1, <3>2, <1>4
  <2>2. ASSUME NEW v \in Reading, MediaOf[reads[v].key] = MediaOf[k]
        PROVE  MediaOf[k] \notin Video
    BY <1>2, <2>2 DEF ReadInv, SoleVideoReader
  <2> QED BY <2>0, <2>1, <2>2, <1>5 DEF ReadInv, SoleVideoReader, Reading
<1>14. PendingOwed'
  <2> SUFFICES ASSUME NEW p \in pending, p # job PROVE ~HasLiveRead(p.key)'
    BY <1>4 DEF ReadInv, PendingOwed
  <2>1. p.key # k
    BY <1>2 DEF ReadInv, PendingOwed
  <2>2. ~HasLiveRead(p.key)
    BY DEF ReadInv, PendingOwed
  <2>3. p.key \in DOMAIN inflight => reads'[inflight[p.key].owner] = reads[inflight[p.key].owner]
    BY <1>5 DEF ReadInv, InflightBacked
  <2> QED BY <2>1, <2>2, <2>3, <1>4, <1>6 DEF HasLiveRead
<1> QED BY <1>8, <1>10, <1>11, <1>12, <1>13, <1>14 DEF ReadInv

\* A worker's read comes back: it retracts its own entry, and its media's decoder
\* is free, since no other worker was inside.
LEMMA ReadInvFinishRead ==
    ASSUME ReadInv, NEW w \in Worker, NEW got \in Size \cup {NoFrame},
           FinishRead(w, got)
    PROVE  ReadInv'
<1> USE CacheAssumption
<1> DEFINE r == reads[w]
           k == r.key
<1>1. w \in Reading /\ r \in Read /\ k \in Key /\ MediaOf[k] \in Media
  BY DEF FinishRead, ReadInv, ReadTypes, ReadsOK, Read
<1>2. /\ reads' = Without(reads, {w})
      /\ inflight' = Without(inflight, OwnEntry(w, k))
      /\ busyVideos' = busyVideos \ {MediaOf[k]}
      /\ UNCHANGED <<stop, generation, mediaEpoch, staged, published, pending, exited>>
  BY DEF FinishRead, FinishJob, flushVars, wantVars
<1>3. waiting' \subseteq Worker
  BY DEF FinishRead, FinishJob, NotifyAll, ReadInv, ReadTypes
<1>4. failedMedia' \subseteq Media
  BY <1>1 DEF FinishRead, ReadInv, ReadTypes
<1>5. /\ DOMAIN reads' = Reading \ {w}
      /\ \A v \in Reading \ {w} : reads'[v] = reads[v]
      /\ reads' = [v \in DOMAIN reads' |-> reads'[v]]
  BY <1>2 DEF Without, Restrict, Reading
<1>6. /\ DOMAIN inflight' \subseteq DOMAIN inflight
      /\ \A j \in DOMAIN inflight' : inflight'[j] = inflight[j]
      /\ \A j \in DOMAIN inflight :
            j \in DOMAIN inflight' <=> ~(j = k /\ inflight[j].owner = w)
      /\ inflight' = [j \in DOMAIN inflight' |-> inflight'[j]]
  BY <1>2 DEF Without, Restrict, OwnEntry
<1> HIDE DEF r, k
<1>7. ReadTypes'
  <2>1. ReadsOK' /\ InflightOK'
    BY <1>5, <1>6 DEF ReadInv, ReadTypes, ReadsOK, InflightOK, Reading
  <2> QED BY <1>2, <1>3, <1>4, <2>1 DEF ReadInv, ReadTypes
<1>8. Registered'
  BY <1>5, <1>6 DEF ReadInv, Registered, Reading
<1>9. \A j \in DOMAIN inflight' : inflight[j].owner \in Reading \ {w}
  <2> SUFFICES ASSUME NEW j \in DOMAIN inflight', inflight[j].owner = w PROVE FALSE
    BY <1>6 DEF ReadInv, InflightBacked
  <2>1. k = j
    BY <1>6 DEF ReadInv, InflightBacked, r, k
  <2> QED BY <2>1, <1>6
<1>10. InflightBacked'
  <2> SUFFICES ASSUME NEW j \in DOMAIN inflight'
               PROVE  /\ inflight[j].owner \in DOMAIN reads'
                      /\ reads'[inflight[j].owner].key = j
                      /\ reads'[inflight[j].owner].gen = inflight[j].gen
                      /\ reads'[inflight[j].owner].epoch = mediaEpoch[MediaOf[j]]
    <3>1. mediaEpoch' = mediaEpoch /\ \A i \in DOMAIN inflight' : inflight'[i] = inflight[i]
      BY <1>2, <1>6
    <3> QED BY <3>1 DEF InflightBacked, Reading
  <2>1. reads'[inflight[j].owner] = reads[inflight[j].owner]
    BY <1>5, <1>9
  <2> QED BY <2>1, <1>5, <1>6, <1>9 DEF ReadInv, InflightBacked
<1>11. DoomedCalledOff'
  BY <1>2, <1>5, ZenonT(30) DEF ReadInv, DoomedCalledOff, IsLive, Reading
<1>12. SoleVideoReader'
  <2> DEFINE M == {MediaOf[reads[v].key] : v \in Reading}
             N == {MediaOf[reads[v].key] : v \in Reading \ {w}}
  <2>1. {MediaOf[reads'[v].key] : v \in Reading'} = N
    BY <1>5 DEF Reading
  <2>2. M = N \cup {MediaOf[k]}
    BY <1>1 DEF r, k
  <2>3. MediaOf[k] \in N => MediaOf[k] \notin Video
    <3> SUFFICES ASSUME NEW v \in Reading \ {w}, MediaOf[reads[v].key] = MediaOf[k]
                 PROVE  MediaOf[k] \notin Video
      OBVIOUS
    <3> QED BY <1>1 DEF ReadInv, SoleVideoReader, r, k
  <2>4. busyVideos = M \cap Video
    BY DEF ReadInv, SoleVideoReader
  <2>5. busyVideos' = N \cap Video
    BY <1>2, <2>2, <2>3, <2>4
  <2>6. \A v, u \in Reading' :
            v # u /\ MediaOf[reads'[v].key] = MediaOf[reads'[u].key]
              => MediaOf[reads'[v].key] \notin Video
    BY <1>5 DEF ReadInv, SoleVideoReader, Reading
  <2> QED BY <2>1, <2>5, <2>6 DEF SoleVideoReader
<1>13. PendingOwed'
  <2>1. ASSUME NEW p \in pending PROVE ~HasLiveRead(p.key)'
    <3>1. ~HasLiveRead(p.key)
      BY DEF ReadInv, PendingOwed
    <3>2. p.key \in DOMAIN inflight' =>
             /\ p.key \in DOMAIN inflight /\ inflight'[p.key] = inflight[p.key]
             /\ reads'[inflight[p.key].owner] = reads[inflight[p.key].owner]
      BY <1>5, <1>6, <1>9
    <3> QED BY <3>1, <3>2, <1>2 DEF HasLiveRead
  <2> QED BY <2>1, <1>2 DEF ReadInv, PendingOwed
<1> QED BY <1>7, <1>8, <1>10, <1>11, <1>12, <1>13 DEF ReadInv

\* Every step of the system keeps the first layer.
LEMMA ReadInvStep == ReadInv /\ [Next]_vars => ReadInv'
<1> SUFFICES ASSUME ReadInv, [Next]_vars PROVE ReadInv'
  OBVIOUS
<1>1. CASE UNCHANGED vars
  BY <1>1, ReadInvFrame DEF vars, flushVars, wantVars, ReadInv, ReadTypes
<1>2. ASSUME NEW k \in Shown, NEW s \in Size, Get(k, s) PROVE ReadInv'
  BY <1>2, ReadInvFrame DEF Get, flushVars, wantVars, ReadInv, ReadTypes
<1>3. ASSUME NEW k \in Previewed, NEW s \in Size, Put(k, s) PROVE ReadInv'
  BY <1>3, ReadInvFrame DEF Put, flushVars, wantVars, ReadInv, ReadTypes
<1>4. ASSUME NEW b \in Batch, NEW h \in BOOLEAN, EndRequests(b, h) PROVE ReadInv'
  BY <1>4, ReadInvEndRequests
<1>5. ASSUME Clear PROVE ReadInv'
  BY <1>5, ReadInvClear
<1>6. ASSUME NEW m \in Media, DropMedia(m) PROVE ReadInv'
  BY <1>6, ReadInvDropMedia
<1>7. ASSUME NEW n \in Budget, SetMaxBytes(n) PROVE ReadInv'
  BY <1>7, ReadInvFrame DEF SetMaxBytes, flushVars, wantVars, ReadInv, ReadTypes
<1>8. ASSUME Shutdown PROVE ReadInv'
  BY <1>8, ReadInvShrink DEF Shutdown, flushVars, wantVars, NotifyAll
<1>9. ASSUME NEW w \in Worker, Pool(w) PROVE ReadInv'
  <2>1. ASSUME Wait(w) PROVE ReadInv'
    BY <2>1, ReadInvFrame DEF Wait, flushVars, wantVars, ReadInv, ReadTypes
  <2>2. ASSUME SkipResident(w) PROVE ReadInv'
    BY <2>2, ReadInvShrink DEF SkipResident, flushVars, wantVars, ReadInv, ReadTypes
  <2>3. ASSUME StartRead(w) PROVE ReadInv'
    BY <2>3, ReadInvStartRead
  <2>4. ASSUME NEW got \in Size \cup {NoFrame}, FinishRead(w, got) PROVE ReadInv'
    BY <2>4, ReadInvFinishRead
  <2>5. ASSUME Exit(w) PROVE ReadInv'
    BY <2>5, ReadInvFrame DEF Exit, flushVars, wantVars, ReadInv, ReadTypes
  <2> QED BY <1>9, <2>1, <2>2, <2>3, <2>4, <2>5 DEF Pool
<1> QED BY <1>1, <1>2, <1>3, <1>4, <1>5, <1>6, <1>7, <1>8, <1>9 DEF Next, UI

\* The first layer holds throughout.
LEMMA ReadInvariant == Spec => []ReadInv
BY ReadInvInit, ReadInvStep, PTL DEF Spec

\* A video's decoder is never entered twice, for any pool and any flushes.
THEOREM SoleVideoReaderHolds == Spec => []SoleVideoReader
<1>1. ReadInv => SoleVideoReader
  BY DEF ReadInv
<1> QED BY <1>1, ReadInvariant, PTL

\* Of two reads of one key, one was called off: the other is the one inflight_ names.
THEOREM NoDoubleDecodeHolds == Spec => []NoDoubleDecode
<1>1. ReadInv => NoDoubleDecode
  BY DEF ReadInv, Registered, NoDoubleDecode
<1> QED BY <1>1, ReadInvariant, PTL

\* A read that a flush outlived has been told to stop.
THEOREM DoomedCalledOffHolds == Spec => []DoomedCalledOff
<1>1. ReadInv => DoomedCalledOff
  BY DEF ReadInv
<1> QED BY <1>1, ReadInvariant, PTL
-----------------------------------------------------------------------------
\* No worker sleeps while there is something it may take: it went to sleep when
\* there was nothing, and whatever adds a job, frees a decoder, gives back a count
\* of the hold or stops the pool notifies.
LEMMA NoMissedWakeupStep ==
    ReadInv /\ NoMissedWakeup /\ [Next]_vars => NoMissedWakeup'
<1> SUFFICES ASSUME ReadInv, NoMissedWakeup, [Next]_vars PROVE NoMissedWakeup'
  OBVIOUS
<1> USE DEF NoMissedWakeup
<1>0. ASSUME UNCHANGED <<pending, busyVideos, hold, holdReads>> PROVE Takeable' = Takeable
  BY <1>0 DEF Takeable, MostUrgent, Runnable
<1>1. CASE UNCHANGED vars
  BY <1>0, <1>1 DEF vars, holdVars
<1>2. ASSUME NEW k \in Shown, NEW s \in Size, Get(k, s) PROVE NoMissedWakeup'
  BY <1>0, <1>2 DEF Get, holdVars
<1>3. ASSUME NEW k \in Previewed, NEW s \in Size, Put(k, s) PROVE NoMissedWakeup'
  BY <1>0, <1>3 DEF Put, holdVars
<1>4. ASSUME NEW b \in Batch, NEW h \in BOOLEAN, EndRequests(b, h) PROVE NoMissedWakeup'
  BY <1>4 DEF EndRequests, NotifyAll
<1>5. ASSUME Clear PROVE NoMissedWakeup'
  BY <1>5 DEF Clear, Takeable, MostUrgent, Runnable
<1>6. ASSUME NEW m \in Media, DropMedia(m) PROVE NoMissedWakeup'
  BY <1>0, <1>6 DEF DropMedia, holdVars
<1>7. ASSUME NEW n \in Budget, SetMaxBytes(n) PROVE NoMissedWakeup'
  BY <1>0, <1>7 DEF SetMaxBytes, holdVars
<1>8. ASSUME Shutdown PROVE NoMissedWakeup'
  BY <1>8 DEF Shutdown, NotifyAll
<1>9. ASSUME NEW w \in Worker, Pool(w) PROVE NoMissedWakeup'
  <2>1. ASSUME Wait(w) PROVE NoMissedWakeup'
    BY <1>0, <2>1 DEF Wait, holdVars
  <2>2. ASSUME SkipResident(w) PROVE NoMissedWakeup'
    BY <2>2 DEF SkipResident
  <2>3. ASSUME StartRead(w) PROVE NoMissedWakeup'
    BY <2>3 DEF StartRead
  <2>4. ASSUME NEW got \in Size \cup {NoFrame}, FinishRead(w, got) PROVE NoMissedWakeup'
    <3>1. FinishJob(w, reads[w]) /\ UNCHANGED <<stop, pending>>
      BY <2>4 DEF FinishRead
    <3>2. CASE MediaOf[reads[w].key] \in Video \/ heldReads[reads[w].key] > 0
      BY <3>1, <3>2 DEF FinishJob, NotifyAll
    <3>3. CASE MediaOf[reads[w].key] \notin Video /\ ~(heldReads[reads[w].key] > 0)
      <4>1. UNCHANGED <<hold, holdReads, waiting>>
        BY <3>1, <3>3 DEF FinishJob, ReleaseHold, holdVars
      <4>2. busyVideos' = busyVideos
        BY <3>1, <3>3 DEF FinishJob, ReadInv, ReadTypes
      <4> QED BY <1>0, <3>1, <4>1, <4>2
    <3> QED BY <3>2, <3>3
  <2>5. ASSUME Exit(w) PROVE NoMissedWakeup'
    BY <1>0, <2>5 DEF Exit, holdVars
  <2> QED BY <1>9, <2>1, <2>2, <2>3, <2>4, <2>5 DEF Pool
<1> QED BY <1>1, <1>2, <1>3, <1>4, <1>5, <1>6, <1>7, <1>8, <1>9 DEF Next, UI

\* No wakeup is lost, however many workers there are.
THEOREM NoMissedWakeupHolds == Spec => []NoMissedWakeup
<1>1. Init => NoMissedWakeup
  BY DEF Init, NoMissedWakeup
<1> QED BY <1>1, NoMissedWakeupStep, ReadInvariant, PTL DEF Spec

-----------------------------------------------------------------------------
\* The second layer: what the hold waits for.
HoldInv ==
    /\ hold \in BOOLEAN /\ holdReads \in Nat /\ heldReads \in [Key -> Nat]
    /\ HoldBacked

\* The readers of a key can be counted.
LEMMA ReadersFinite ==
    ASSUME ReadsOK, NEW k
    PROVE  IsFiniteSet(ReadersOf(k)) /\ Cardinality(ReadersOf(k)) \in Nat
<1>1. ReadersOf(k) \subseteq Worker
  BY DEF ReadersOf, ReadsOK
<1>2. IsFiniteSet(Worker)
  BY CacheAssumption
<1>3. IsFiniteSet(ReadersOf(k))
  BY <1>1, <1>2, FS_Subset
<1> QED BY <1>3, FS_CardinalityType

\* Steps that keep every count, every reader and the hold's type.
LEMMA HoldInvFrame ==
    ASSUME HoldInv, UNCHANGED <<hold, holdReads, heldReads>>, Reading' = Reading,
           \A w \in Reading : reads'[w].key = reads[w].key
    PROVE  HoldInv'
<1>1. \A k : ReadersOf(k)' = ReadersOf(k)
  BY DEF ReadersOf
<1> QED BY <1>1 DEF HoldInv, HoldBacked

\* Publishing a wanted set: a read is adopted into the hold once, and it runs.
LEMMA HoldInvEndRequests ==
    ASSUME ReadInv, HoldInv, NEW b \in Batch, NEW h \in BOOLEAN, EndRequests(b, h)
    PROVE  HoldInv'
<1> USE CacheAssumption
<1> DEFINE unread  == {k \in DOMAIN b \ Resident : ~HasLiveRead(k)}
           adopted == {k \in DOMAIN b \ (Resident \cup unread) :
                          h /\ b[k] <= 0 /\ heldReads[k] = 0}
<1>1. ReadsOK /\ InflightOK /\ DOMAIN b \subseteq Key
  BY DEF ReadInv, ReadTypes
<1>2. /\ reads' = CalledOff(reads, Key \ DOMAIN b)
      /\ heldReads' = [k \in Key |-> IF k \in adopted THEN 1 ELSE heldReads[k]]
      /\ holdReads' = holdReads + Cardinality(adopted)
  BY DEF EndRequests
<1>3. hold' \in BOOLEAN
  BY DEF EndRequests, HoldInv
<1>4. Reading' = Reading /\ \A w \in Reading : reads'[w].key = reads[w].key
  BY <1>1, <1>2, CalledOffFacts DEF Reading
<1>5. \A k \in Key : ReadersOf(k)' = ReadersOf(k)
  BY <1>4 DEF ReadersOf
<1>6. \A k \in adopted : heldReads[k] = 0 /\ HasLiveRead(k) /\ k \in Key
  BY <1>1
<1> HIDE DEF adopted
<1>7. heldReads \in [Key -> Nat] /\ holdReads = SumOver(heldReads, Key)
  BY DEF HoldInv, HoldBacked
<1>8. adopted \subseteq Key /\ IsFiniteSet(Key)
  BY <1>6
<1>9. /\ \A k \in adopted : heldReads'[k] = 1
      /\ \A k \in Key \ adopted : heldReads'[k] = heldReads[k]
      /\ heldReads' \in [Key -> Nat]
  BY <1>2, <1>7, <1>8
<1>10. /\ SumOver(heldReads', Key) = SumOver(heldReads, Key) + Cardinality(adopted)
       /\ Cardinality(adopted) \in Nat
  BY <1>6, <1>7, <1>8, <1>9, SumRaise
<1>11. holdReads' = SumOver(heldReads', Key) /\ holdReads' \in Nat
  BY <1>2, <1>7, <1>10 DEF HoldInv
<1>12. ASSUME NEW k \in Key PROVE heldReads'[k] <= Cardinality(ReadersOf(k)')
  <2>1. CASE k \in adopted
    <3>1. inflight[k].owner \in ReadersOf(k)
      BY <1>6, <2>1 DEF HasLiveRead, ReadInv, InflightBacked, ReadersOf
    <3>2. IsFiniteSet(ReadersOf(k)) /\ Cardinality(ReadersOf(k)) \in Nat
      BY <1>1, ReadersFinite
    <3>3. Cardinality(ReadersOf(k)) # 0
      BY <3>1, <3>2, FS_EmptySet
    <3> QED BY <2>1, <3>2, <3>3, <1>5, <1>9
  <2>2. CASE k \notin adopted
    BY <2>2, <1>5, <1>9 DEF HoldInv, HoldBacked
  <2> QED BY <2>1, <2>2
<1> QED BY <1>3, <1>9, <1>11, <1>12 DEF HoldInv, HoldBacked

\* A job that starts under the hold takes a count and is there to give it back.
LEMMA HoldInvStartRead ==
    ASSUME ReadInv, HoldInv, NEW w \in Worker, StartRead(w)
    PROVE  HoldInv'
<1> USE CacheAssumption
<1>1. PICK job \in Takeable : StartJob(w, job)
  BY DEF StartRead
<1> DEFINE k == job.key
<1>2. k \in Key /\ w \notin Reading /\ ReadsOK
  BY DEF Takeable, MostUrgent, Runnable, ReadInv, ReadTypes, StartRead, Ready
<1>3. /\ Reading' = Reading \cup {w} /\ reads'[w].key = k
      /\ \A v \in Reading : reads'[v] = reads[v]
  BY <1>1, <1>2 DEF StartJob, With, Reading
<1>4. hold' = hold
  BY DEF StartRead
<1>5. /\ heldReads \in [Key -> Nat] /\ holdReads = SumOver(heldReads, Key)
      /\ hold \in BOOLEAN /\ holdReads \in Nat
      /\ \A j \in Key : heldReads[j] <= Cardinality(ReadersOf(j))
  BY DEF HoldInv, HoldBacked
<1>6. \/ /\ heldReads' = [heldReads EXCEPT ![k] = @ + 1]
         /\ holdReads' = holdReads + 1
      \/ UNCHANGED <<heldReads, holdReads>>
  BY <1>1 DEF StartJob
<1> HIDE DEF k
<1>7. heldReads' \in [Key -> Nat] /\ holdReads' = SumOver(heldReads', Key)
  <2>1. CASE UNCHANGED <<heldReads, holdReads>>
    BY <2>1, <1>5
  <2>2. CASE /\ heldReads' = [heldReads EXCEPT ![k] = @ + 1]
             /\ holdReads' = holdReads + 1
    <3>1. /\ heldReads' \in [Key -> Nat] /\ heldReads'[k] = heldReads[k] + 1
          /\ \A j \in Key \ {k} : heldReads'[j] = heldReads[j]
      BY <1>2, <1>5, <2>2
    <3>2. SumOver(heldReads', Key) = SumOver(heldReads, Key) - heldReads[k] + heldReads'[k]
      BY <1>2, <1>5, <3>1, SumChange
    <3> QED BY <1>2, <1>5, <2>2, <3>1, <3>2
  <2> QED BY <1>6, <2>1, <2>2
<1>8. holdReads' \in Nat
  BY <1>5, <1>6
<1>9. ASSUME NEW j \in Key PROVE heldReads'[j] <= Cardinality(ReadersOf(j)')
  <2>0. IsFiniteSet(ReadersOf(j)) /\ Cardinality(ReadersOf(j)) \in Nat
    BY <1>2, ReadersFinite
  <2>1. CASE j = k
    <3>1. ReadersOf(j)' = ReadersOf(j) \cup {w} /\ w \notin ReadersOf(j)
      BY <1>2, <1>3, <2>1 DEF ReadersOf
    <3>2. Cardinality(ReadersOf(j) \cup {w}) = Cardinality(ReadersOf(j)) + 1
      BY <2>0, <3>1, FS_AddElement
    <3>3. heldReads'[k] <= heldReads[k] + 1
      BY <1>2, <1>5, <1>6
    <3>4. heldReads[j] <= Cardinality(ReadersOf(j)) /\ heldReads[j] \in Nat /\ heldReads'[j] \in Nat
      BY <1>5, <1>7
    <3> QED BY <2>0, <2>1, <3>1, <3>2, <3>3, <3>4
  <2>2. CASE j # k
    <3>1. ReadersOf(j)' = ReadersOf(j)
      BY <1>2, <1>3, <2>2 DEF ReadersOf
    <3>2. heldReads'[j] = heldReads[j]
      BY <1>2, <1>5, <1>6, <2>2
    <3> QED BY <3>1, <3>2, <1>5
  <2> QED BY <2>1, <2>2
<1> QED BY <1>4, <1>5, <1>7, <1>8, <1>9 DEF HoldInv, HoldBacked

\* A read that comes back gives back a count of its key while there is one, and
\* leaves no fewer readers than counts.
LEMMA HoldInvFinishRead ==
    ASSUME ReadInv, HoldInv, NEW w \in Worker, NEW got \in Size \cup {NoFrame},
           FinishRead(w, got)
    PROVE  HoldInv'
<1> USE CacheAssumption
<1> DEFINE r == reads[w]
           k == r.key
<1>1. w \in Reading /\ k \in Key /\ ReadsOK
  BY DEF FinishRead, ReadInv, ReadTypes, ReadsOK, Read
<1>2. /\ Reading' = Reading \ {w}
      /\ \A v \in Reading \ {w} : reads'[v] = reads[v]
  BY DEF FinishRead, FinishJob, Without, Restrict, Reading
<1>3. ReleaseHold(r)
  BY DEF FinishRead, FinishJob
<1>4. /\ heldReads \in [Key -> Nat] /\ holdReads = SumOver(heldReads, Key)
      /\ hold \in BOOLEAN /\ holdReads \in Nat
      /\ \A j \in Key : heldReads[j] <= Cardinality(ReadersOf(j))
  BY DEF HoldInv, HoldBacked
<1>5. \/ /\ heldReads[k] > 0
         /\ heldReads' = [heldReads EXCEPT ![k] = @ - 1]
         /\ holdReads' = holdReads - 1
      \/ heldReads[k] = 0 /\ UNCHANGED <<heldReads, holdReads>>
  BY <1>1, <1>3, <1>4 DEF ReleaseHold, holdVars
<1>6. hold' \in BOOLEAN
  BY <1>3, <1>4 DEF ReleaseHold, holdVars
<1>7. k = reads[w].key
  OBVIOUS
<1> HIDE DEF r, k
<1>8. /\ heldReads' \in [Key -> Nat] /\ holdReads' = SumOver(heldReads', Key)
      /\ holdReads' \in Nat
  <2>1. CASE UNCHANGED <<heldReads, holdReads>>
    BY <2>1, <1>4
  <2>2. CASE /\ heldReads[k] > 0
             /\ heldReads' = [heldReads EXCEPT ![k] = @ - 1]
             /\ holdReads' = holdReads - 1
    <3>1. /\ heldReads' \in [Key -> Nat] /\ heldReads'[k] = heldReads[k] - 1
          /\ \A j \in Key \ {k} : heldReads'[j] = heldReads[j]
      BY <1>1, <1>4, <2>2
    <3>2. /\ heldReads[k] <= SumOver(heldReads, Key)
          /\ SumOver(heldReads', Key) = SumOver(heldReads, Key) - heldReads[k] + heldReads'[k]
      BY <1>1, <1>4, <3>1, SumChange
    <3>3. heldReads[k] \in Nat
      BY <1>1, <1>4
    <3> QED BY <1>4, <2>2, <3>1, <3>2, <3>3
  <2> QED BY <1>5, <2>1, <2>2
<1>9. ASSUME NEW j \in Key PROVE heldReads'[j] <= Cardinality(ReadersOf(j)')
  <2>0. IsFiniteSet(ReadersOf(j)) /\ Cardinality(ReadersOf(j)) \in Nat
    BY <1>1, ReadersFinite
  <2>1. CASE j = k
    <3>1. ReadersOf(j)' = ReadersOf(j) \ {w} /\ w \in ReadersOf(j)
      BY <1>1, <1>2, <1>7, <2>1 DEF ReadersOf
    <3>2. Cardinality(ReadersOf(j) \ {w}) = Cardinality(ReadersOf(j)) - 1
      BY <2>0, <3>1, FS_RemoveElement
    <3>3. Cardinality(ReadersOf(j)) # 0
      BY <2>0, <3>1, FS_EmptySet
    <3>4. heldReads[j] <= Cardinality(ReadersOf(j)) /\ heldReads[j] \in Nat
      BY <1>4
    <3>5. heldReads'[j] = heldReads[j] - 1 \/ heldReads'[j] = 0
      BY <1>1, <1>4, <1>5, <2>1
    <3> QED BY <2>0, <3>1, <3>2, <3>3, <3>4, <3>5
  <2>2. CASE j # k
    <3>1. ReadersOf(j)' = ReadersOf(j)
      BY <1>1, <1>2, <1>7, <2>2 DEF ReadersOf
    <3>2. heldReads'[j] = heldReads[j]
      BY <1>1, <1>4, <1>5, <2>2
    <3> QED BY <3>1, <3>2, <1>4
  <2> QED BY <2>1, <2>2
<1> QED BY <1>6, <1>8, <1>9 DEF HoldInv, HoldBacked

\* Every step of the system keeps the second layer.
LEMMA HoldInvStep == ReadInv /\ HoldInv /\ [Next]_vars => HoldInv'
<1> SUFFICES ASSUME ReadInv, HoldInv, [Next]_vars PROVE HoldInv'
  OBVIOUS
<1>0. ASSUME NEW K \in SUBSET Key, reads' = CalledOff(reads, K)
      PROVE  Reading' = Reading /\ \A w \in Reading : reads'[w].key = reads[w].key
  BY <1>0, CalledOffFacts DEF Reading, ReadInv, ReadTypes
<1>1. CASE UNCHANGED vars
  BY <1>1, HoldInvFrame DEF vars, holdVars, Reading
<1>2. ASSUME NEW k \in Shown, NEW s \in Size, Get(k, s) PROVE HoldInv'
  BY <1>2, HoldInvFrame DEF Get, holdVars, Reading
<1>3. ASSUME NEW k \in Previewed, NEW s \in Size, Put(k, s) PROVE HoldInv'
  BY <1>3, HoldInvFrame DEF Put, holdVars, Reading
<1>4. ASSUME NEW b \in Batch, NEW h \in BOOLEAN, EndRequests(b, h) PROVE HoldInv'
  BY <1>4, HoldInvEndRequests
<1>5. ASSUME Clear PROVE HoldInv'
  <2>1. reads' = CalledOff(reads, Key) /\ UNCHANGED <<hold, holdReads, heldReads>>
    BY <1>5 DEF Clear, holdVars
  <2>2. Reading' = Reading /\ \A w \in Reading : reads'[w].key = reads[w].key
    BY <2>1, <1>0
  <2> QED BY <2>1, <2>2, HoldInvFrame
<1>6. ASSUME NEW m \in Media, DropMedia(m) PROVE HoldInv'
  <2> DEFINE mine == {k \in Key : MediaOf[k] = m}
  <2>1. reads' = CalledOff(reads, mine) /\ UNCHANGED <<hold, holdReads, heldReads>>
    BY <1>6 DEF DropMedia, holdVars
  <2>2. Reading' = Reading /\ \A w \in Reading : reads'[w].key = reads[w].key
    BY <2>1, <1>0
  <2> QED BY <2>1, <2>2, HoldInvFrame
<1>7. ASSUME NEW n \in Budget, SetMaxBytes(n) PROVE HoldInv'
  BY <1>7, HoldInvFrame DEF SetMaxBytes, holdVars, Reading
<1>8. ASSUME Shutdown PROVE HoldInv'
  BY <1>8, HoldInvFrame DEF Shutdown, holdVars, Reading
<1>9. ASSUME NEW w \in Worker, Pool(w) PROVE HoldInv'
  <2>1. ASSUME Wait(w) PROVE HoldInv'
    BY <2>1, HoldInvFrame DEF Wait, holdVars, Reading
  <2>2. ASSUME SkipResident(w) PROVE HoldInv'
    BY <2>2, HoldInvFrame DEF SkipResident, holdVars, Reading
  <2>3. ASSUME StartRead(w) PROVE HoldInv'
    BY <2>3, HoldInvStartRead
  <2>4. ASSUME NEW got \in Size \cup {NoFrame}, FinishRead(w, got) PROVE HoldInv'
    BY <2>4, HoldInvFinishRead
  <2>5. ASSUME Exit(w) PROVE HoldInv'
    BY <2>5, HoldInvFrame DEF Exit, holdVars, Reading
  <2> QED BY <1>9, <2>1, <2>2, <2>3, <2>4, <2>5 DEF Pool
<1> QED BY <1>1, <1>2, <1>3, <1>4, <1>5, <1>6, <1>7, <1>8, <1>9 DEF Next, UI

\* The second layer holds initially.
LEMMA HoldInvInit == Init => HoldInv
<1> SUFFICES ASSUME Init PROVE HoldInv
  OBVIOUS
<1>1. hold \in BOOLEAN /\ holdReads = 0 /\ heldReads = [k \in Key |-> 0]
  BY DEF Init
<1>2. SumOver(heldReads, Key) = 0
  BY <1>1, SumZero
<1>3. \A k : ReadersOf(k) = {}
  BY DEF Init, ReadersOf, Reading, EmptyMap
<1> QED BY <1>1, <1>2, <1>3, FS_EmptySet DEF HoldInv, HoldBacked

\* The second layer holds throughout.
LEMMA HoldInvariant == Spec => []HoldInv
BY HoldInvInit, HoldInvStep, ReadInvariant, PTL DEF Spec

\* The hold only waits for reads that are running.
THEOREM HoldBackedHolds == Spec => []HoldBacked
<1>1. HoldInv => HoldBacked
  BY DEF HoldInv
<1> QED BY <1>1, HoldInvariant, PTL

-----------------------------------------------------------------------------
\* The third layer: the entries and what they weigh.
Entries(m) ==
    /\ m = [k \in DOMAIN m |-> m[k]] /\ DOMAIN m \subseteq Key
    /\ \A k \in DOMAIN m : m[k] \in Entry

ByteInv ==
    /\ MapOK /\ older \subseteq Resident \X Resident
    /\ total \in Nat /\ maxBytes \in Budget
    /\ BytesAccounted

\* What some entries weigh is a number, and what a part of them weighs is the rest.
LEMMA BytesLess ==
    ASSUME NEW m, Entries(m), NEW S \in SUBSET DOMAIN m, NEW T \in SUBSET S
    PROVE  /\ BytesOf(m, S) \in Nat /\ BytesOf(m, T) \in Nat /\ BytesOf(m, S \ T) \in Nat
           /\ BytesOf(m, S) = BytesOf(m, S \ T) + BytesOf(m, T)
<1> DEFINE f == [k \in S |-> m[k].bytes]
<1>1. IsFiniteSet(S)
  <2>1. IsFiniteSet(Key) /\ S \subseteq Key
    BY CacheAssumption DEF Entries
  <2> QED BY <2>1, FS_Subset
<1>2. \A k \in S : f[k] \in Nat
  BY DEF Entries, Entry
<1>3. BytesOf(m, S) = SumOver(f, S)
  BY DEF BytesOf
<1>4. BytesOf(m, T) = SumOver(f, T)
  <2>1. SumOver([k \in T |-> m[k].bytes], T) = SumOver(f, T)
    BY SumCong
  <2> QED BY <2>1 DEF BytesOf
<1>5. BytesOf(m, S \ T) = SumOver(f, S \ T)
  <2>1. SumOver([k \in S \ T |-> m[k].bytes], S \ T) = SumOver(f, S \ T)
    BY SumCong
  <2> QED BY <2>1 DEF BytesOf
<1> HIDE DEF f
<1>6. SumOver(f, S) \in Nat
  BY <1>1, <1>2, SumType
<1>7. /\ SumOver(f, T) \in Nat /\ SumOver(f, S \ T) \in Nat
      /\ SumOver(f, S) = SumOver(f, S \ T) + SumOver(f, T)
  BY <1>1, <1>2, SumLess
<1> QED BY <1>3, <1>4, <1>5, <1>6, <1>7

\* Only the bytes of the entries matter.
LEMMA BytesCong ==
    ASSUME NEW m, NEW n, NEW S, \A k \in S : m[k].bytes = n[k].bytes
    PROVE  BytesOf(m, S) = BytesOf(n, S)
<1>1. SumOver([k \in S |-> m[k].bytes], S) = SumOver([k \in S |-> n[k].bytes], S)
  BY SumCong
<1> QED BY <1>1 DEF BytesOf

\* A new entry adds what it weighs.
LEMMA BytesWith ==
    ASSUME NEW m, Entries(m), NEW k \in Key, k \notin DOMAIN m, NEW e \in Entry
    PROVE  LET n == With(m, k, e)
           IN  /\ Entries(n) /\ DOMAIN n = DOMAIN m \cup {k} /\ n[k] = e
               /\ \A j \in DOMAIN m : n[j] = m[j]
               /\ BytesOf(n, DOMAIN n) = BytesOf(m, DOMAIN m) + e.bytes
<1> DEFINE n == With(m, k, e)
           f == [j \in DOMAIN m \cup {k} |-> n[j].bytes]
<1>1. DOMAIN n = DOMAIN m \cup {k} /\ n[k] = e /\ \A j \in DOMAIN m : n[j] = m[j]
  BY DEF With
<1>2. Entries(n)
  BY <1>1 DEF Entries, With
<1>3. IsFiniteSet(DOMAIN m)
  <2>1. IsFiniteSet(Key) /\ DOMAIN m \subseteq Key
    BY CacheAssumption DEF Entries
  <2> QED BY <2>1, FS_Subset
<1>4. \A j \in DOMAIN m \cup {k} : f[j] \in Nat
  BY <1>1, <1>2 DEF Entries, Entry
<1>5. f[k] = e.bytes
  BY <1>1
<1>6. BytesOf(n, DOMAIN n) = SumOver(f, DOMAIN m \cup {k})
  BY <1>1 DEF BytesOf
<1>7. BytesOf(m, DOMAIN m) = SumOver(f, DOMAIN m)
  <2>1. SumOver([j \in DOMAIN m |-> m[j].bytes], DOMAIN m) = SumOver(f, DOMAIN m)
    BY <1>1, SumCong
  <2> QED BY <2>1 DEF BytesOf
<1> HIDE DEF f
<1>8. SumOver(f, DOMAIN m \cup {k}) = SumOver(f, DOMAIN m) + f[k]
  BY <1>3, <1>4, SumAdd
<1> QED BY <1>1, <1>2, <1>5, <1>6, <1>7, <1>8

\* An order of S without the pairs D is in, and with k newest.
LEMMA PairsWithout ==
    ASSUME NEW S, NEW D, NEW o, o \subseteq S \X S
    PROVE  {p \in o : p[1] \notin D /\ p[2] \notin D} \subseteq (S \ D) \X (S \ D)
<1> SUFFICES ASSUME NEW p \in o, p[1] \notin D, p[2] \notin D
             PROVE  p \in (S \ D) \X (S \ D)
  OBVIOUS
<1>1. p \in S \X S
  OBVIOUS
<1>2. p[1] \in S /\ p[2] \in S /\ p = <<p[1], p[2]>>
  BY <1>1
<1> QED BY <1>2

LEMMA PairsTouched ==
    ASSUME older \subseteq Resident \X Resident, NEW k
    PROVE  Touched(older, k) \subseteq (Resident \cup {k}) \X (Resident \cup {k})
<1>1. Resident \X Resident \subseteq (Resident \cup {k}) \X (Resident \cup {k})
  OBVIOUS
<1>2. (Resident \ {k}) \X {k} \subseteq (Resident \cup {k}) \X (Resident \cup {k})
  OBVIOUS
<1> QED BY <1>1, <1>2 DEF Touched

\* Trimming well-formed entries leaves well-formed entries, with their bytes counted.
LEMMA TrimKeeps ==
    ASSUME NEW m, Entries(m), NEW o, o \subseteq (DOMAIN m) \X (DOMAIN m),
           NEW t, t = BytesOf(m, DOMAIN m), NEW max, TrimTo(m, o, t, max)
    PROVE  /\ MapOK' /\ older' \subseteq Resident' \X Resident'
           /\ total' \in Nat /\ BytesAccounted'
<1>1. PICK D \in SUBSET DOMAIN m :
        /\ map' = Without(m, D)
        /\ older' = {p \in o : p[1] \notin D /\ p[2] \notin D}
        /\ total' = IF BytesOf(m, D) > t THEN 0 ELSE t - BytesOf(m, D)
  BY DEF TrimTo
<1>2. DOMAIN map' = DOMAIN m \ D /\ \A k \in DOMAIN map' : map'[k] = m[k]
  BY <1>1 DEF Without, Restrict
<1>3. MapOK'
  BY <1>1, <1>2 DEF MapOK, Entries, Without, Restrict, Resident
<1>4. older' \subseteq Resident' \X Resident'
  <2>0. Resident' = DOMAIN m \ D
    BY <1>2 DEF Resident
  <2>1. {p \in o : p[1] \notin D /\ p[2] \notin D} \subseteq (DOMAIN m \ D) \X (DOMAIN m \ D)
    BY PairsWithout
  <2> QED BY <2>0, <2>1, <1>1, Zenon
<1>5. /\ BytesOf(m, DOMAIN m) \in Nat /\ BytesOf(m, D) \in Nat
      /\ BytesOf(m, DOMAIN m \ D) \in Nat
      /\ BytesOf(m, DOMAIN m) = BytesOf(m, DOMAIN m \ D) + BytesOf(m, D)
  BY BytesLess
<1>6. total' = BytesOf(m, DOMAIN m \ D)
  BY <1>1, <1>5
<1>7. BytesOf(map', DOMAIN map') = BytesOf(m, DOMAIN m \ D)
  BY <1>2, BytesCong
<1> QED BY <1>3, <1>4, <1>5, <1>6, <1>7 DEF BytesAccounted, Resident

\* Admitting a frame that is not resident, within a well-formed map.
LEMMA AdmitKeeps ==
    ASSUME ByteInv, NEW k \in Key, k \notin Resident, NEW s \in Nat,
           NEW want \in Prio \cup {Unwanted}, Admit(k, s, want)
    PROVE  /\ MapOK' /\ older' \subseteq Resident' \X Resident'
           /\ total' \in Nat /\ BytesAccounted'
<1> DEFINE e == [bytes |-> s, want |-> want]
           n == With(map, k, e)
           o == Touched(older, k)
<1>1. Entries(map) /\ e \in Entry
  BY DEF ByteInv, MapOK, Entries, Entry, Resident
<1>2. /\ Entries(n) /\ DOMAIN n = Resident \cup {k}
      /\ BytesOf(n, DOMAIN n) = BytesOf(map, DOMAIN map) + e.bytes
  BY <1>1, BytesWith DEF Resident
<1>3. o \subseteq (DOMAIN n) \X (DOMAIN n)
  <2>1. o \subseteq (Resident \cup {k}) \X (Resident \cup {k})
    BY PairsTouched DEF ByteInv
  <2>2. DOMAIN n = Resident \cup {k}
    BY <1>2
  <2> HIDE DEF n, o
  <2> QED BY <2>1, <2>2
<1>4. total + s = BytesOf(n, DOMAIN n)
  BY <1>2 DEF ByteInv, BytesAccounted, Resident
<1>5. TrimTo(n, o, total + s, maxBytes)
  BY DEF Admit
<1> HIDE DEF n, o, e
<1> QED BY <1>2, <1>3, <1>4, <1>5, TrimKeeps

\* Steps that leave the entries alone.
LEMMA ByteInvFrame ==
    ASSUME ByteInv, UNCHANGED <<map, older, total, maxBytes>> PROVE ByteInv'
BY DEF ByteInv, MapOK, BytesAccounted, Resident

\* A shown frame that grew is counted again.
LEMMA ByteInvGet ==
    ASSUME ByteInv, NEW k \in Shown, NEW now \in Size, Get(k, now) PROVE ByteInv'
<1> USE CacheAssumption
<1>1. /\ k \in Resident /\ now \in Nat
      /\ map' = [map EXCEPT ![k].bytes = now]
      /\ older' = Touched(older, k)
      /\ total' = total - map[k].bytes + now /\ maxBytes' = maxBytes
  BY DEF Get
<1>2. Entries(map) /\ total = BytesOf(map, Resident) /\ older \subseteq Resident \X Resident
  BY DEF ByteInv, MapOK, Entries, Resident, BytesAccounted
<1>3. map[k] \in Entry /\ map[k].bytes \in Nat /\ IsFiniteSet(Resident)
  <2>1. map[k] \in Entry /\ Resident \subseteq Key /\ IsFiniteSet(Key)
    BY <1>1, <1>2 DEF Entries, Resident
  <2>2. IsFiniteSet(Resident)
    BY <2>1, FS_Subset
  <2> QED BY <2>1, <2>2 DEF Entry
<1>4. /\ Resident' = Resident /\ map'[k] = [map[k] EXCEPT !.bytes = now]
      /\ \A j \in Resident \ {k} : map'[j] = map[j]
      /\ map' = [j \in Resident |-> map'[j]]
  BY <1>1, <1>2 DEF Entries, Resident
<1>5. map'[k] \in Entry /\ map'[k].bytes = now
  BY <1>1, <1>3, <1>4 DEF Entry
<1>6. MapOK'
  BY <1>2, <1>4, <1>5 DEF MapOK, Entries, Resident
<1>7. older' \subseteq Resident' \X Resident'
  BY <1>1, <1>2, <1>4 DEF Touched
<1> DEFINE f == [j \in Resident |-> map[j].bytes]
           g == [j \in Resident |-> map'[j].bytes]
<1>8. /\ \A j \in Resident : f[j] \in Nat
      /\ \A j \in Resident : g[j] \in Nat
      /\ \A j \in Resident \ {k} : g[j] = f[j]
      /\ f[k] = map[k].bytes /\ g[k] = now
  BY <1>1, <1>2, <1>4, <1>5 DEF Entries, Entry, Resident
<1>9. SumOver(f, Resident) = total /\ SumOver(g, Resident) = BytesOf(map', Resident')
  BY <1>2, <1>4 DEF BytesOf
<1> HIDE DEF f, g
<1>10. f[k] <= SumOver(f, Resident) /\ SumOver(g, Resident) = SumOver(f, Resident) - f[k] + g[k]
  BY <1>1, <1>3, <1>8, SumChange
<1>11. total' = BytesOf(map', Resident') /\ total' \in Nat
  <2>1. total' = total - map[k].bytes + now /\ total \in Nat
    BY <1>1 DEF ByteInv
  <2>2. map[k].bytes <= total /\ BytesOf(map', Resident') = total - map[k].bytes + now
    BY <1>8, <1>9, <1>10
  <2> QED BY <2>1, <2>2, <1>1, <1>3
<1> QED BY <1>1, <1>6, <1>7, <1>11 DEF ByteInv, BytesAccounted

\* Publishing a wanted set moves the entries' standings, not their bytes.
LEMMA ByteInvEndRequests ==
    ASSUME ByteInv, NEW b \in Batch, NEW h \in BOOLEAN, EndRequests(b, h) PROVE ByteInv'
<1> USE CacheAssumption
<1>1. /\ map' = [k \in Resident |-> [map[k] EXCEPT !.want =
                    IF k \in DOMAIN b THEN b[k] ELSE Unwanted]]
      /\ UNCHANGED <<older, total, maxBytes>>
  BY DEF EndRequests
<1>2. b \in [DOMAIN b -> Prio]
  OBVIOUS
<1>3. Resident' = Resident
  BY <1>1 DEF Resident
<1>4. ASSUME NEW k \in Resident
      PROVE  map'[k] \in Entry /\ map'[k].bytes = map[k].bytes
  <2>1. map[k] \in Entry
    BY DEF ByteInv, MapOK
  <2>2. map'[k] = [map[k] EXCEPT !.want = IF k \in DOMAIN b THEN b[k] ELSE Unwanted]
    BY <1>1
  <2>3. (IF k \in DOMAIN b THEN b[k] ELSE Unwanted) \in Prio \cup {Unwanted}
    BY <1>2
  <2> QED BY <2>1, <2>2, <2>3 DEF Entry
<1>5. MapOK'
  BY <1>1, <1>3, <1>4 DEF ByteInv, MapOK
<1>6. BytesOf(map', Resident) = BytesOf(map, Resident)
  BY <1>4, BytesCong
<1> QED BY <1>1, <1>3, <1>5, <1>6 DEF ByteInv, BytesAccounted

\* Dropping a media takes its entries' bytes with them.
LEMMA ByteInvDropMedia ==
    ASSUME ByteInv, NEW m \in Media, DropMedia(m) PROVE ByteInv'
<1> DEFINE mine == {k \in Key : MediaOf[k] = m}
           gone == mine \cap Resident
<1>1. /\ map' = Without(map, mine)
      /\ older' = {p \in older : p[1] \notin mine /\ p[2] \notin mine}
      /\ total' = IF BytesOf(map, gone) > total THEN 0 ELSE total - BytesOf(map, gone)
      /\ maxBytes' = maxBytes
  BY DEF DropMedia
<1>2. Entries(map) /\ total = BytesOf(map, Resident) /\ older \subseteq Resident \X Resident
  BY DEF ByteInv, MapOK, Entries, Resident, BytesAccounted
<1>3. /\ Resident' = Resident \ gone /\ \A k \in Resident' : map'[k] = map[k]
      /\ map' = [k \in Resident' |-> map'[k]]
  BY <1>1, <1>2 DEF Without, Restrict, Resident
<1>4. MapOK'
  BY <1>2, <1>3 DEF MapOK, Entries, Resident
<1>5. older' \subseteq Resident' \X Resident'
  BY <1>1, <1>2, <1>3
<1> HIDE DEF gone, mine
<1>6. gone \subseteq Resident
  BY DEF gone
<1>7. /\ BytesOf(map, Resident) \in Nat /\ BytesOf(map, gone) \in Nat
      /\ BytesOf(map, Resident \ gone) \in Nat
      /\ BytesOf(map, Resident) = BytesOf(map, Resident \ gone) + BytesOf(map, gone)
  BY <1>2, <1>6, BytesLess DEF Resident
<1>8. BytesOf(map', Resident') = BytesOf(map, Resident')
  BY <1>3, BytesCong
<1>9. total' = BytesOf(map', Resident') /\ total' \in Nat
  BY <1>1, <1>2, <1>3, <1>7, <1>8
<1> QED BY <1>1, <1>4, <1>5, <1>9 DEF ByteInv, BytesAccounted

\* Every step of the system keeps the third layer.
LEMMA ByteInvStep == ReadInv /\ ByteInv /\ [Next]_vars => ByteInv'
<1> SUFFICES ASSUME ReadInv, ByteInv, [Next]_vars PROVE ByteInv'
  OBVIOUS
<1> USE CacheAssumption
<1>0. maxBytes \in Budget
  BY DEF ByteInv
<1>1. CASE UNCHANGED vars
  BY <1>1, ByteInvFrame DEF vars, entryVars
<1>2. ASSUME NEW k \in Shown, NEW s \in Size, Get(k, s) PROVE ByteInv'
  BY <1>2, ByteInvGet
<1>3. ASSUME NEW k \in Previewed, NEW s \in Size, Put(k, s) PROVE ByteInv'
  <2> DEFINE want == IF published THEN Unwanted ELSE 0
  <2>1. /\ k \in Key /\ k \notin Resident /\ s \in Nat /\ want \in Prio \cup {Unwanted}
        /\ Admit(k, s, want) /\ maxBytes' = maxBytes
    BY <1>3 DEF Put
  <2> HIDE DEF want
  <2> QED BY <1>0, <2>1, AdmitKeeps DEF ByteInv
<1>4. ASSUME NEW b \in Batch, NEW h \in BOOLEAN, EndRequests(b, h) PROVE ByteInv'
  BY <1>4, ByteInvEndRequests
<1>5. ASSUME Clear PROVE ByteInv'
  <2>1. map' = EmptyMap /\ older' = {} /\ total' = 0 /\ maxBytes' = maxBytes
    BY <1>5 DEF Clear
  <2>2. Resident' = {} /\ MapOK'
    BY <2>1 DEF Resident, EmptyMap, MapOK
  <2>3. BytesOf(map', {}) = 0
    BY SumEmpty DEF BytesOf
  <2> QED BY <1>0, <2>1, <2>2, <2>3 DEF ByteInv, BytesAccounted
<1>6. ASSUME NEW m \in Media, DropMedia(m) PROVE ByteInv'
  BY <1>6, ByteInvDropMedia
<1>7. ASSUME NEW n \in Budget, SetMaxBytes(n) PROVE ByteInv'
  <2>1. TrimTo(map, older, total, n) /\ maxBytes' = n
    BY <1>7 DEF SetMaxBytes
  <2>2. /\ Entries(map) /\ older \subseteq (DOMAIN map) \X (DOMAIN map)
        /\ total = BytesOf(map, DOMAIN map)
    BY DEF ByteInv, MapOK, Entries, BytesAccounted, Resident
  <2> QED BY <2>1, <2>2, TrimKeeps DEF ByteInv
<1>8. ASSUME Shutdown PROVE ByteInv'
  BY <1>8, ByteInvFrame DEF Shutdown, entryVars
<1>9. ASSUME NEW w \in Worker, Pool(w) PROVE ByteInv'
  <2>1. ASSUME Wait(w) PROVE ByteInv'
    BY <2>1, ByteInvFrame DEF Wait, entryVars
  <2>2. ASSUME SkipResident(w) PROVE ByteInv'
    BY <2>2, ByteInvFrame DEF SkipResident, entryVars
  <2>3. ASSUME StartRead(w) PROVE ByteInv'
    BY <2>3, ByteInvFrame DEF StartRead, entryVars
  <2>4. ASSUME NEW got \in Size \cup {NoFrame}, FinishRead(w, got) PROVE ByteInv'
    <3> DEFINE r == reads[w]
    <3>1. r.key \in Key /\ r.prio \in Prio /\ maxBytes' = maxBytes
      BY <2>4 DEF FinishRead, ReadInv, ReadTypes, ReadsOK, Read
    <3>2. \/ got # NoFrame /\ r.key \notin Resident /\ Admit(r.key, got, r.prio)
          \/ UNCHANGED <<map, older, total>>
      BY <2>4 DEF FinishRead, entryVars
    <3> HIDE DEF r
    <3>3. CASE got # NoFrame /\ r.key \notin Resident /\ Admit(r.key, got, r.prio)
      <4>1. got \in Nat /\ r.prio \in Prio \cup {Unwanted}
        BY <3>1, <3>3
      <4> QED BY <1>0, <3>1, <3>3, <4>1, AdmitKeeps DEF ByteInv
    <3>4. CASE UNCHANGED <<map, older, total>>
      BY <3>1, <3>4, ByteInvFrame
    <3> QED BY <3>2, <3>3, <3>4
  <2>5. ASSUME Exit(w) PROVE ByteInv'
    BY <2>5, ByteInvFrame DEF Exit, entryVars
  <2> QED BY <1>9, <2>1, <2>2, <2>3, <2>4, <2>5 DEF Pool
<1> QED BY <1>1, <1>2, <1>3, <1>4, <1>5, <1>6, <1>7, <1>8, <1>9 DEF Next, UI

\* The third layer holds initially.
LEMMA ByteInvInit == Init => ByteInv
<1> SUFFICES ASSUME Init PROVE ByteInv
  OBVIOUS
<1>1. map = EmptyMap /\ older = {} /\ total = 0 /\ maxBytes \in Budget
  BY DEF Init
<1>2. Resident = {} /\ MapOK
  BY <1>1 DEF Resident, EmptyMap, MapOK
<1>3. BytesOf(map, {}) = 0
  BY SumEmpty DEF BytesOf
<1> QED BY <1>1, <1>2, <1>3 DEF ByteInv, BytesAccounted

\* The third layer holds throughout.
LEMMA ByteInvariant == Spec => []ByteInv
BY ByteInvInit, ByteInvStep, ReadInvariant, PTL DEF Spec

\* The running total never drifts from what is resident.
THEOREM BytesAccountedHolds == Spec => []BytesAccounted
<1>1. ByteInv => BytesAccounted
  BY DEF ByteInv
<1> QED BY <1>1, ByteInvariant, PTL

\* Every variable keeps its type.
THEOREM TypeCorrect == Spec => []TypeOK
<1>1. ReadInv /\ HoldInv /\ ByteInv => TypeOK
  BY DEF ReadInv, ReadTypes, HoldInv, ByteInv, TypeOK
<1> QED BY <1>1, ReadInvariant, HoldInvariant, ByteInvariant, PTL

-----------------------------------------------------------------------------
\* A trim leaves the entries within the budget, or a single one.
LEMMA TrimWithin ==
    ASSUME NEW m, Entries(m), NEW o, NEW t \in Nat, NEW max \in Nat, TrimTo(m, o, t, max)
    PROVE  total' <= max \/ Cardinality(DOMAIN map') <= 1
<1>1. PICK D \in SUBSET DOMAIN m :
        /\ ~OverBudget(m, t, max, D)
        /\ map' = Without(m, D)
        /\ total' = IF BytesOf(m, D) > t THEN 0 ELSE t - BytesOf(m, D)
  BY DEF TrimTo, IsTrim
<1>2. DOMAIN map' = DOMAIN m \ D
  BY <1>1 DEF Without, Restrict
<1>3. BytesOf(m, D) \in Nat
  BY BytesLess
<1>4. IsFiniteSet(DOMAIN m \ D)
  <2>1. IsFiniteSet(Key) /\ DOMAIN m \ D \subseteq Key
    BY CacheAssumption DEF Entries
  <2> QED BY <2>1, FS_Subset
<1>5. Cardinality(DOMAIN m \ D) \in Nat
  BY <1>4, FS_CardinalityType
<1> QED BY <1>1, <1>2, <1>3, <1>5 DEF OverBudget

\* Admitting trims what it admits into.
LEMMA AdmitWithin ==
    ASSUME ByteInv, NEW k \in Key, k \notin Resident, NEW s \in Nat,
           NEW want \in Prio \cup {Unwanted}, Admit(k, s, want)
    PROVE  total' <= maxBytes \/ Cardinality(DOMAIN map') <= 1
<1> DEFINE e == [bytes |-> s, want |-> want]
           n == With(map, k, e)
<1>1. Entries(map) /\ e \in Entry
  BY DEF ByteInv, MapOK, Entries, Entry, Resident
<1>2. Entries(n)
  BY <1>1, BytesWith DEF Resident
<1>3. total + s \in Nat /\ maxBytes \in Nat
  BY CacheAssumption DEF ByteInv
<1>4. TrimTo(n, Touched(older, k), total + s, maxBytes)
  BY DEF Admit
<1> HIDE DEF n, e
<1> QED BY <1>2, <1>3, <1>4, TrimWithin

\* The budget is kept at every step that could break it.
THEOREM BudgetKeptHolds == Spec => BudgetKept
<1>1. ReadInv /\ ByteInv /\ [Next]_vars => [EndsWithin]_vars
  <2> SUFFICES ASSUME ReadInv, ByteInv, Next,
                      DOMAIN map' \ Resident # {} \/ maxBytes' < maxBytes
               PROVE  total' <= maxBytes' \/ Cardinality(DOMAIN map') <= 1
    BY DEF EndsWithin
  <2> USE CacheAssumption
  <2>0. maxBytes \in Nat
    BY DEF ByteInv
  <2>1. ASSUME DOMAIN map' \subseteq Resident, maxBytes' = maxBytes PROVE FALSE
    BY <2>0, <2>1
  <2>2. ASSUME NEW k \in Shown, NEW s \in Size, Get(k, s) PROVE FALSE
    BY <2>1, <2>2 DEF Get, Resident
  <2>3. ASSUME NEW k \in Previewed, NEW s \in Size, Put(k, s)
        PROVE  total' <= maxBytes' \/ Cardinality(DOMAIN map') <= 1
    <3> DEFINE want == IF published THEN Unwanted ELSE 0
    <3>1. /\ k \in Key /\ k \notin Resident /\ s \in Nat /\ want \in Prio \cup {Unwanted}
          /\ Admit(k, s, want) /\ maxBytes' = maxBytes
      BY <2>3 DEF Put
    <3> HIDE DEF want
    <3> QED BY <3>1, AdmitWithin
  <2>4. ASSUME NEW b \in Batch, NEW h \in BOOLEAN, EndRequests(b, h) PROVE FALSE
    BY <2>1, <2>4 DEF EndRequests, Resident
  <2>5. ASSUME Clear PROVE FALSE
    BY <2>1, <2>5 DEF Clear, EmptyMap
  <2>6. ASSUME NEW m \in Media, DropMedia(m) PROVE FALSE
    BY <2>1, <2>6 DEF DropMedia, Without, Restrict, Resident
  <2>7. ASSUME NEW n \in Budget, SetMaxBytes(n)
        PROVE  total' <= maxBytes' \/ Cardinality(DOMAIN map') <= 1
    <3>1. TrimTo(map, older, total, n) /\ maxBytes' = n /\ n \in Nat
      BY <2>7 DEF SetMaxBytes
    <3>2. Entries(map) /\ total \in Nat
      BY DEF ByteInv, MapOK, Entries, Resident
    <3> QED BY <3>1, <3>2, TrimWithin
  <2>8. ASSUME Shutdown PROVE FALSE
    BY <2>1, <2>8 DEF Shutdown, entryVars, Resident
  <2>9. ASSUME NEW w \in Worker, Pool(w)
        PROVE  total' <= maxBytes' \/ Cardinality(DOMAIN map') <= 1
    <3>1. ASSUME NEW got \in Size \cup {NoFrame}, FinishRead(w, got)
          PROVE  total' <= maxBytes' \/ Cardinality(DOMAIN map') <= 1
      <4> DEFINE r == reads[w]
      <4>1. r.key \in Key /\ r.prio \in Prio /\ maxBytes' = maxBytes
        BY <3>1 DEF FinishRead, ReadInv, ReadTypes, ReadsOK, Read
      <4>2. \/ got # NoFrame /\ r.key \notin Resident /\ Admit(r.key, got, r.prio)
            \/ map' = map
        BY <3>1 DEF FinishRead, entryVars
      <4> HIDE DEF r
      <4>3. CASE got # NoFrame /\ r.key \notin Resident /\ Admit(r.key, got, r.prio)
        <5>1. got \in Nat /\ r.prio \in Prio \cup {Unwanted}
          BY <4>1, <4>3
        <5> QED BY <4>1, <4>3, <5>1, AdmitWithin
      <4>4. CASE map' = map
        BY <2>1, <4>1, <4>4 DEF Resident
      <4> QED BY <4>2, <4>3, <4>4
    <3>2. ASSUME Wait(w) \/ SkipResident(w) \/ StartRead(w) \/ Exit(w) PROVE FALSE
      BY <2>1, <3>2 DEF Wait, SkipResident, StartRead, Exit, entryVars, Resident
    <3> QED BY <2>9, <3>1, <3>2 DEF Pool
  <2> QED BY <2>2, <2>3, <2>4, <2>5, <2>6, <2>7, <2>8, <2>9 DEF Next, UI
<1> QED BY <1>1, ReadInvariant, ByteInvariant, PTL DEF Spec, BudgetKept

\* put() drops no wanted frame: were one dropped, the new frame would have gone
\* before it, and with that gone the rest was within the budget already.
THEOREM PutKeepsWantedHolds == Spec => PutKeepsWanted
<1>1. ByteInv /\ [Next]_vars => [KeepsWanted]_vars
  <2> SUFFICES ASSUME ByteInv, NEW k \in Previewed, NEW s \in Size, Put(k, s),
                      published, total <= maxBytes,
                      NEW j \in Resident, map[j].want # Unwanted, j \notin DOMAIN map'
               PROVE  FALSE
    BY DEF KeepsWanted
  <2> USE CacheAssumption
  <2> DEFINE e == [bytes |-> s, want |-> Unwanted]
             n == With(map, k, e)
             o == Touched(older, k)
  <2>1. k \in Key /\ k \notin Resident /\ s \in Nat /\ Admit(k, s, Unwanted)
    BY DEF Put
  <2>2. Entries(map) /\ e \in Entry
    BY <2>1 DEF ByteInv, MapOK, Entries, Entry, Resident
  <2>3. /\ Entries(n) /\ DOMAIN n = Resident \cup {k} /\ n[k] = e
        /\ \A i \in Resident : n[i] = map[i]
    BY <2>1, <2>2, BytesWith, SMTT(30) DEF Resident
  <2>4. TrimTo(n, o, total + s, maxBytes)
    BY <2>1 DEF Admit
  <2>5. n[k].want = Unwanted /\ n[k].bytes = s /\ n[j].want # Unwanted
    BY <2>3
  <2> HIDE DEF n, o, e
  <2>6. PICK D \in SUBSET DOMAIN n :
          /\ \A d \in D, i \in DOMAIN n \ D : MoreEvictable(n, o, d, i)
          /\ \A d \in D : OverBudget(n, total + s, maxBytes, {i \in D : MoreEvictable(n, o, i, d)})
          /\ map' = Without(n, D)
    BY <2>4 DEF TrimTo, IsTrim
  <2>7. j \in D
    BY <2>3, <2>6 DEF Without, Restrict
  <2>8. k \in D
    BY <2>3, <2>5, <2>6, <2>7 DEF MoreEvictable
  <2> DEFINE G == {i \in D : MoreEvictable(n, o, i, j)}
  <2>9. k \in G
    BY <2>5, <2>8 DEF MoreEvictable
  <2>10. (total + s) - BytesOf(n, G) > maxBytes
    <3> DEFINE t == total + s
    <3>1. OverBudget(n, t, maxBytes, G)
      BY <2>6, <2>7
    <3> HIDE DEF t, G
    <3>2. t - BytesOf(n, G) > maxBytes
      BY <3>1 DEF OverBudget
    <3> QED BY <3>2 DEF t
  <2>11. G \in SUBSET DOMAIN n
    OBVIOUS
  <2> HIDE DEF G
  <2>12. /\ BytesOf(n, G) \in Nat /\ BytesOf(n, {k}) \in Nat /\ BytesOf(n, G \ {k}) \in Nat
         /\ BytesOf(n, G) = BytesOf(n, G \ {k}) + BytesOf(n, {k})
    <3>1. Entries(n) /\ {k} \in SUBSET G
      BY <2>3, <2>9
    <3> QED BY ONLY <2>11, <3>1, BytesLess
  <2>13. BytesOf(n, {k}) = s
    <3>1. [i \in {k} |-> n[i].bytes][k] = s
      BY <2>5
    <3> QED BY <3>1, <2>1, SumSingle DEF BytesOf
  <2>14. total \in Nat /\ maxBytes \in Nat
    BY DEF ByteInv
  <2> QED BY <2>1, <2>10, <2>12, <2>13, <2>14
<1> QED BY <1>1, ByteInvariant, PTL DEF Spec, PutKeepsWanted
=============================================================================
