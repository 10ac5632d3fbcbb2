------------------------ MODULE PacketExchangeProofs ------------------------
(***************************************************************************)
(* Proofs about the packet-transport roles over one connection, for any    *)
(* frames, receivers, session ids and bounds: the results a frame's        *)
(* receivers get are the first ones the server sent for it, none is lost   *)
(* while the connection and the router last, the server refuses no submit, *)
(* and the whole is a queue per frame, as OrderedDelivery promises.  And   *)
(* about FrameResultBuffer, which a client puts behind the roles.          *)
(***************************************************************************)
EXTENDS PacketExchange, FrameResultBuffer, EventQueuesProofs

-----------------------------------------------------------------------------
(* Prefixes *)

(* A prefix of a list is what the list begins with. *)
LEMMA PrefixRest ==
  ASSUME NEW E, NEW s \in Seq(E), NEW t \in Seq(E)
  PROVE  IsPrefix(s, t) <=> \E u \in Seq(E) : t = s \o u
<1>1. PICK m \in Nat, n \in Nat : m = Len(s) /\ n = Len(t)
  BY LenProperties
<1>2. IsPrefix(s, t) <=> m <= n /\ SubSeq(s, 1, m) = SubSeq(t, 1, m)
  BY <1>1 DEF IsPrefix
<1>3. SubSeq(s, 1, m) = s
  BY <1>1, SubSeqFull
<1>4. \A i \in 1 .. n : t[i] \in E
  BY <1>1, ElementOfSeq
<1>5. ASSUME IsPrefix(s, t) PROVE \E u \in Seq(E) : t = s \o u
  <2>1. m <= n /\ SubSeq(t, 1, m) = s
    BY <1>2, <1>3, <1>5
  <2>2. m + 1 \in Int /\ \A i \in (m + 1) .. n : i \in 1 .. n /\ t[i] \in E
    BY <1>4
  <2>3. SubSeq(t, m + 1, n) \in Seq(E)
    BY <2>2, SubSeqProperties
  <2>4. 1 \in 1 .. (n + 1) /\ m \in (1 - 1) .. n /\ n \in m .. n
    BY <2>1
  <2>5. SubSeq(t, 1, m) \o SubSeq(t, m + 1, n) = SubSeq(t, 1, n)
    BY <1>1, <2>4, ConcatAdjacentSubSeq
  <2>6. SubSeq(t, 1, n) = t
    BY <1>1, SubSeqFull
  <2> QED
    BY <2>1, <2>3, <2>5, <2>6
<1>6. ASSUME NEW u \in Seq(E), t = s \o u PROVE IsPrefix(s, t)
  <2>1. /\ n = m + Len(u) /\ Len(u) \in Nat
        /\ \A i \in 1 .. m : (s \o u)[i] = s[i]
    <3>1. Len(s \o u) = Len(s) + Len(u)
      BY ConcatProperties
    <3> QED
      BY <1>1, <1>6, <3>1, ConcatShape
  <2>2. m <= n
    BY <2>1
  <2>3. \A i \in 1 .. m : t[i] = s[i]
    BY <1>6, <2>1
  <2>4. \A i \in 1 .. m : i \in 1 .. n /\ t[i] \in E
    BY <1>4, <2>2
  <2>5. PICK v : v = SubSeq(t, 1, m)
    OBVIOUS
  <2>6. v \in Seq(E) /\ Len(v) = m /\ \A i \in 1 .. m : v[i] = t[i]
    <3>1. /\ SubSeq(t, 1, m) \in Seq(E)
          /\ Len(SubSeq(t, 1, m)) = IF 1 <= m THEN m - 1 + 1 ELSE 0
          /\ \A i \in 1 .. m - 1 + 1 : SubSeq(t, 1, m)[i] = t[1 + i - 1]
      BY <2>4, SubSeqProperties
    <3>2. m - 1 + 1 = m /\ \A i \in 1 .. m : 1 + i - 1 = i
      OBVIOUS
    <3> QED
      BY <2>5, <3>1, <3>2
  <2>7. v = s
    BY <1>1, <2>3, <2>6, SeqEqual
  <2> QED
    BY <1>2, <1>3, <2>2, <2>5, <2>7
<1> QED
  BY <1>5, <1>6

(* Prefixes of longer lists, of lists with the same beginning, and of what was picked. *)
LEMMA PrefixConcat ==
  ASSUME NEW E, NEW s \in Seq(E), NEW t \in Seq(E), NEW u \in Seq(E)
  PROVE  /\ IsPrefix(s, s \o t) /\ IsPrefix(s, s)
         /\ IsPrefix(s, t) => IsPrefix(s, t \o u)
         /\ IsPrefix(s \o t, u) => IsPrefix(s, u)
         /\ IsPrefix(t, u) => IsPrefix(s \o t, s \o u)
         /\ IsPrefix(s, t) /\ IsPrefix(t, u) => IsPrefix(s, u)
<1>0. s \o t \in Seq(E) /\ t \o u \in Seq(E) /\ s \o u \in Seq(E) /\ <<>> \in Seq(E) /\ s \o <<>> = s
  BY ConcatProperties, ConcatEmptySeq, EmptySeq
<1>1. IsPrefix(s, s \o t) /\ IsPrefix(s, s)
  BY <1>0, PrefixRest
<1>2. ASSUME IsPrefix(s, t), IsPrefix(t, u) PROVE IsPrefix(s, u)
  <2>1. PICK v \in Seq(E) : t = s \o v
    BY <1>2, PrefixRest
  <2>2. PICK w \in Seq(E) : u = t \o w
    BY <1>2, PrefixRest
  <2>3. v \o w \in Seq(E) /\ (s \o v) \o w = s \o (v \o w)
    <3>1. v \o w \in Seq(E)
      BY ConcatProperties, SMTT(30)
    <3>2. (s \o v) \o w = s \o (v \o w)
      BY ConcatAssociative, SMTT(30)
    <3> QED
      BY <3>1, <3>2
  <2>4. u = s \o (v \o w)
    BY <2>1, <2>2, <2>3
  <2> QED
    BY <2>3, <2>4, PrefixRest
<1>3. ASSUME IsPrefix(s, t) PROVE IsPrefix(s, t \o u)
  <2>1. PICK v \in Seq(E) : t = s \o v
    BY <1>3, PrefixRest
  <2>2. v \o u \in Seq(E) /\ (s \o v) \o u = s \o (v \o u)
    <3>1. v \o u \in Seq(E)
      BY ConcatProperties, SMTT(30)
    <3>2. (s \o v) \o u = s \o (v \o u)
      BY ConcatAssociative, SMTT(30)
    <3> QED
      BY <3>1, <3>2
  <2>3. t \o u = s \o (v \o u)
    BY <2>1, <2>2
  <2> QED
    BY <1>0, <2>2, <2>3, PrefixRest
<1>4. ASSUME IsPrefix(s \o t, u) PROVE IsPrefix(s, u)
  <2>1. PICK v \in Seq(E) : u = (s \o t) \o v
    <3>1. PICK r \in Seq(E) : r = s \o t
      BY <1>0
    <3>2. IsPrefix(r, u)
      BY <1>4, <3>1, Zenon
    <3>3. \E v \in Seq(E) : u = r \o v
      BY <3>2, PrefixRest
    <3> QED
      BY <3>1, <3>3
  <2>2. t \o v \in Seq(E) /\ (s \o t) \o v = s \o (t \o v)
    <3>1. t \o v \in Seq(E)
      BY ConcatProperties, SMTT(30)
    <3>2. (s \o t) \o v = s \o (t \o v)
      BY ConcatAssociative, SMTT(30)
    <3> QED
      BY <3>1, <3>2
  <2>3. u = s \o (t \o v)
    BY <2>1, <2>2
  <2> QED
    BY <2>2, <2>3, PrefixRest
<1>5. ASSUME IsPrefix(t, u) PROVE IsPrefix(s \o t, s \o u)
  <2>1. PICK v \in Seq(E) : u = t \o v
    BY <1>5, PrefixRest
  <2>2. (s \o t) \o v = s \o (t \o v)
    BY ConcatAssociative, SMTT(30)
  <2>3. s \o u = (s \o t) \o v
    BY <2>1, <2>2
  <2> QED
    BY <1>0, <2>3, PrefixRest
<1> QED
  BY <1>1, <1>2, <1>3, <1>4, <1>5

LEMMA PickPrefix ==
  ASSUME NEW E, NEW s \in Seq(E), NEW t \in Seq(E), IsPrefix(s, t), NEW P
  PROVE  IsPrefix(Pick(s, P), Pick(t, P))
<1>1. PICK u \in Seq(E) : t = s \o u
  BY PrefixRest
<1>2. Pick(s \o u, P) = Pick(s, P) \o Pick(u, P)
  BY PickConcat
<1>3. Pick(s, P) \in Seq(E) /\ Pick(u, P) \in Seq(E) /\ Pick(t, P) \in Seq(E)
  BY PickShape
<1>4. Pick(t, P) = Pick(s, P) \o Pick(u, P)
  BY <1>1, <1>2
<1> QED
  BY <1>3, <1>4, PrefixRest

(* The first elements of a list, and what follows them. *)
LEMMA Halves ==
  ASSUME NEW E, NEW s \in Seq(E), NEW n \in 0 .. Len(s)
  PROVE  /\ SubSeq(s, 1, n) \in Seq(E) /\ SubSeq(s, n + 1, Len(s)) \in Seq(E)
         /\ Len(SubSeq(s, 1, n)) = n
         /\ s = SubSeq(s, 1, n) \o SubSeq(s, n + 1, Len(s))
         /\ IsPrefix(SubSeq(s, 1, n), s)
<1>1. PICK m \in Nat : m = Len(s)
  BY LenProperties
<1>2. \A i \in 1 .. m : s[i] \in E
  BY <1>1, ElementOfSeq
<1>3. n \in Nat /\ n <= m
  BY <1>1
<1>4. /\ \A i \in 1 .. n : s[i] \in E
      /\ n + 1 \in Int /\ \A i \in (n + 1) .. m : s[i] \in E
  BY <1>2, <1>3
<1>5. SubSeq(s, 1, n) \in Seq(E) /\ Len(SubSeq(s, 1, n)) = IF 1 <= n THEN n - 1 + 1 ELSE 0
  BY <1>3, <1>4, SubSeqProperties
<1>6. SubSeq(s, n + 1, m) \in Seq(E)
  BY <1>3, <1>4, SubSeqProperties
<1>7. 1 \in 1 .. (m + 1) /\ n \in (1 - 1) .. m /\ m \in n .. m
  BY <1>3
<1>8. SubSeq(s, 1, n) \o SubSeq(s, n + 1, m) = SubSeq(s, 1, m)
  BY <1>1, <1>7, ConcatAdjacentSubSeq
<1>9. SubSeq(s, 1, m) = s
  BY <1>1, SubSeqFull
<1>10. Len(SubSeq(s, 1, n)) = n
  BY <1>3, <1>5
<1>11. s = SubSeq(s, 1, n) \o SubSeq(s, n + 1, m)
  BY <1>8, <1>9
<1>12. IsPrefix(SubSeq(s, 1, n), s)
  BY <1>5, <1>6, <1>11, PrefixRest
<1> QED
  BY <1>1, <1>5, <1>6, <1>10, <1>11, <1>12

-----------------------------------------------------------------------------
(* Results, chunks and cuts *)

\* The results of a frame.
Results(f) == {p \in AnyPacket : p.kind = "result" /\ p.frame = f}

(* What the model picks by index is what is picked by content. *)
LEMMA ResultsPicked ==
  ASSUME NEW f \in Frames, NEW s \in Seq(AnyPacket)
  PROVE  ResultsOf(f, s) = Pick(s, Results(f))
<1>1. \A i \in DOMAIN s : s[i] \in AnyPacket
  BY LenProperties
<1>2. {i \in DOMAIN s : s[i].kind = "result" /\ s[i].frame = f} = {i \in DOMAIN s : s[i] \in Results(f)}
  BY <1>1 DEF Results
<1> QED
  BY <1>2 DEF ResultsOf, Pick

(* What is routed of a chunk is its beginning. *)
LEMMA DecodablePrefix ==
  ASSUME NEW s \in Seq(AnyPacket)
  PROVE  Decodable(s) \in Seq(AnyPacket) /\ IsPrefix(Decodable(s), s)
<1> DEFINE bad == {i \in DOMAIN s : s[i].kind = "garbage"}
           k == IF bad = {} THEN Len(s) ELSE (CHOOSE i \in bad : \A j \in bad : i <= j) - 1
<1>1. Decodable(s) = SubSeq(s, 1, k)
  BY DEF Decodable
<1>2. Len(s) \in Nat /\ DOMAIN s = 1 .. Len(s)
  BY LenProperties
<1>3. k \in 0 .. Len(s)
  <2>1. CASE bad = {}
    BY <1>2, <2>1
  <2>2. CASE bad # {}
    <3>1. bad \in SUBSET Nat /\ IsFiniteSet(bad)
      <4>1. bad \in SUBSET (DOMAIN s)
        OBVIOUS
      <4> QED
        BY <4>1, IndexSet
    <3>2. \E m \in bad : \A j \in bad : m <= j
      BY <2>2, <3>1, LeastOf
    <3>3. PICK i : i = (CHOOSE m \in bad : \A j \in bad : m <= j)
      OBVIOUS
    <3>4. i \in bad
      BY <3>2, <3>3
    <3>5. i \in 1 .. Len(s) /\ k = i - 1
      BY <1>2, <2>2, <3>3, <3>4
    <3> QED
      BY <1>2, <3>5
  <2> QED
    BY <2>1, <2>2
<1> HIDE DEF k
<1>4. SubSeq(s, 1, k) \in Seq(AnyPacket) /\ IsPrefix(SubSeq(s, 1, k), s)
  BY <1>3, Halves
<1> QED
  BY <1>1, <1>4

(* A chunk holds no more packets than are in flight. *)
LEMMA ChunkSize ==
  ASSUME TypeOK, NEW n \in 1 .. Avail
  PROVE  /\ (half + n) \div 2 \in 0 .. Len(inflight)
         /\ (half + n) % 2 \in 0 .. 1
<1>1. half \in {0, 1} /\ Len(inflight) \in Nat
  BY LenProperties DEF TypeOK
<1>2. n \in Nat /\ half + n <= 2 * Len(inflight)
  <2>1. CASE inflight # <<>> /\ inflight[Len(inflight)].kind = "torn"
    <3>1. Avail = 2 * Len(inflight) - half - 1
      BY <2>1 DEF Avail
    <3> QED
      BY <1>1, <3>1
  <2>2. CASE ~(inflight # <<>> /\ inflight[Len(inflight)].kind = "torn")
    <3>1. Avail = 2 * Len(inflight) - half - 0
      BY <2>2 DEF Avail
    <3> QED
      BY <1>1, <3>1
  <2> QED
    BY <2>1, <2>2
<1>3. PICK m \in Nat : m = half + n /\ m <= 2 * Len(inflight)
  BY <1>1, <1>2
<1>4. m \div 2 \in 0 .. Len(inflight) /\ m % 2 \in 0 .. 1
  BY <1>1, <1>3
<1> QED
  BY <1>3, <1>4

(* Where a cut falls. *)
LEMMA CutSize ==
  ASSUME TypeOK, NEW n \in half .. (half + Avail)
  PROVE  \E k \in 0 .. Len(inflight) : k = n \div 2 /\ (n % 2 # 0 => k + 1 \in 1 .. Len(inflight))
<1>1. half \in {0, 1} /\ Len(inflight) \in Nat /\ inflight \in Seq(AnyPacket)
  BY LenProperties DEF TypeOK
<1>2. n \in Nat /\ n <= 2 * Len(inflight)
  <2>1. CASE inflight # <<>> /\ inflight[Len(inflight)].kind = "torn"
    <3>1. Avail = 2 * Len(inflight) - half - 1
      BY <2>1 DEF Avail
    <3> QED
      BY <1>1, <3>1
  <2>2. CASE ~(inflight # <<>> /\ inflight[Len(inflight)].kind = "torn")
    <3>1. Avail = 2 * Len(inflight) - half - 0
      BY <2>2 DEF Avail
    <3> QED
      BY <1>1, <3>1
  <2> QED
    BY <2>1, <2>2
<1>3. \E k \in 0 .. Len(inflight) : k = n \div 2 /\ (n % 2 # 0 => k + 1 \in 1 .. Len(inflight))
  BY <1>1, <1>2
<1> QED
  BY <1>3

(* A cut takes no result away but at the end. *)
LEMMA CutTyped ==
  ASSUME TypeOK, NEW n \in half .. (half + Avail), NEW f \in Frames
  PROVE  /\ Cut(inflight, n) \in Seq(AnyPacket)
         /\ IsPrefix(Pick(Cut(inflight, n), Results(f)), Pick(inflight, Results(f)))
<1>1. inflight \in Seq(AnyPacket)
  BY DEF TypeOK
<1>3. PICK k \in 0 .. Len(inflight) : k = n \div 2 /\ (n % 2 # 0 => k + 1 \in 1 .. Len(inflight))
  BY CutSize
<1>4. PICK w \in Seq(AnyPacket) : w = SubSeq(inflight, 1, k) /\ IsPrefix(w, inflight)
  BY <1>1, Halves
<1>5. IsPrefix(Pick(w, Results(f)), Pick(inflight, Results(f)))
  BY <1>1, <1>4, PickPrefix
<1>6. CASE n % 2 = 0
  <2>1. Cut(inflight, n) = w
    BY <1>3, <1>4, <1>6 DEF Cut
  <2> QED
    BY <1>4, <1>5, <2>1
<1>7. CASE n % 2 # 0
  <2>1. PICK e : e = [inflight[k + 1] EXCEPT !.kind = "torn"]
    OBVIOUS
  <2>2. inflight[k + 1] \in AnyPacket
    BY <1>1, <1>3, <1>7, ElementOfSeq
  <2>3. e \in AnyPacket /\ e \notin Results(f)
    BY <2>1, <2>2 DEF AnyPacket, Results, Kinds
  <2>4. Cut(inflight, n) = Append(w, e)
    BY <1>3, <1>4, <1>7, <2>1 DEF Cut
  <2>5. Append(w, e) \in Seq(AnyPacket)
    BY <2>3, AppendProperties
  <2>6. Pick(Append(w, e), Results(f)) = Pick(w, Results(f))
    BY <2>3, PickAppend
  <2> QED
    BY <1>5, <2>4, <2>5, <2>6
<1> QED
  BY <1>6, <1>7

-----------------------------------------------------------------------------
(* The types of the state *)

\* A call of _receive_from_queue, or none.
Calls == [q : Queues \cup {"none"}, got : AnyPacket \cup {NoPacket}]

(* A caller begins a call, ends one or has its packet. *)
LEMMA CallTypes ==
  /\ NoCall \in Calls
  /\ \A q \in Queues : Receive(q) \in Calls
  /\ \A c \in Calls, p \in AnyPacket : [c EXCEPT !.got = p] \in Calls
  /\ \A c \in [Callers -> Calls], t \in Callers, d \in Calls : [c EXCEPT ![t] = d] \in [Callers -> Calls]
  /\ {"connector", "router"} \subseteq Callers /\ {"control", "submit", "result"} \subseteq Queues
<1>1. NoCall \in Calls
  BY DEF Calls, NoCall
<1>2. \A q \in Queues : Receive(q) \in Calls
  BY DEF Calls, Receive
<1>3. \A c \in Calls, p \in AnyPacket : [c EXCEPT !.got = p] \in Calls
  BY DEF Calls
<1>4. \A c \in [Callers -> Calls], t \in Callers, d \in Calls : [c EXCEPT ![t] = d] \in [Callers -> Calls]
  OBVIOUS
<1>5. {"connector", "router"} \subseteq Callers /\ {"control", "submit", "result"} \subseteq Queues
  BY CallersAssumption DEF Queues
<1> QED
  BY <1>1, <1>2, <1>3, <1>4, <1>5

(* The types of the state, at first and after every step. *)
LEMMA InitTypes == Init => TypeOK
<1> SUFFICES ASSUME Init PROVE TypeOK
  OBVIOUS
<1>1. Requested \in SessionIds
  BY DEF SessionIds
<1>2. /\ client \in [phase : {"start", "awaiting", "open", "leaving", "closed"}, sid : SessionIds]
      /\ server \in [phase : {"start", "resolved", "open", "closed"}, sid : SessionIds]
      /\ router \in [task : {"none", "created", "running", "done", "dropped"}, closed : BOOLEAN,
                     error : BOOLEAN]
  BY <1>1 DEF Init
<1>3. /\ inflight \in Seq(AnyPacket) /\ outbox \in Seq(AnyPacket)
      /\ queue \in [Queues -> Seq(AnyPacket)]
      /\ rq \in [Frames -> Seq(AnyPacket \cup {Sentinel})]
      /\ sent \in [Frames -> Seq(AnyPacket)] /\ delivered \in [Frames -> Seq(AnyPacket)]
  <2>1. <<>> \in Seq(AnyPacket) /\ <<>> \in Seq(AnyPacket \cup {Sentinel})
    BY EmptySeq
  <2> QED
    BY <2>1 DEF Init, ConnInit
<1>4. call \in [Callers -> Calls]
  BY CallTypes DEF Init, ConnInit
<1>5. submits \in 0 .. MaxSubmits /\ sends \in 0 .. MaxSends
  BY BoundAssumption DEF Init
<1>6. /\ half \in 0 .. 1 /\ shut \in BOOLEAN /\ reader \in BOOLEAN /\ failed \in BOOLEAN /\ refused \in BOOLEAN
      /\ writer \in {"open", "ending"}
  <2>1. half = 0 /\ shut = FALSE /\ reader = TRUE /\ failed = FALSE /\ refused = FALSE /\ writer = "open"
    BY DEF Init, ConnInit
  <2>2. half \in 0 .. 1
    BY <2>1
  <2> QED
    BY <2>1, <2>2, Zenon
<1> QED
  BY <1>2, <1>3, <1>4, <1>5, <1>6 DEF Init, TypeOK, Calls

(* What a packet the model builds is. *)
LEMMA PacketType ==
  ASSUME NEW kind \in Kinds, NEW sid \in SessionIds, NEW n \in 0 .. MaxSends, NEW f \in Frames
  PROVE  Packet(kind, f, sid, n) \in AnyPacket /\ AnyFrame \in Frames
BY FrameAssumption DEF Packet, AnyPacket, AnyFrame

(* What sorting a chunk adds to a queue is picked from the chunk. *)
LEMMA SortedType ==
  ASSUME TypeOK, NEW ps \in Seq(AnyPacket)
  PROVE  /\ Sorted(ps) \in [Queues -> Seq(AnyPacket)]
         /\ \A q \in Queues : Sorted(ps)[q] = queue[q] \o Pick(ps, {p \in AnyPacket : QueueOf(p) = q})
<1> SUFFICES ASSUME NEW q \in Queues
             PROVE  /\ Sorted(ps)[q] = queue[q] \o Pick(ps, {p \in AnyPacket : QueueOf(p) = q})
                    /\ Sorted(ps)[q] \in Seq(AnyPacket)
  BY DEF Sorted
<1>1. \A i \in DOMAIN ps : ps[i] \in AnyPacket
  BY LenProperties
<1>2. {i \in DOMAIN ps : QueueOf(ps[i]) = q} = {i \in DOMAIN ps : ps[i] \in {p \in AnyPacket : QueueOf(p) = q}}
  BY <1>1
<1>3. Sorted(ps)[q] = queue[q] \o Pick(ps, {p \in AnyPacket : QueueOf(p) = q})
  BY <1>2 DEF Sorted, Pick
<1>4. Pick(ps, {p \in AnyPacket : QueueOf(p) = q}) \in Seq(AnyPacket) /\ queue[q] \in Seq(AnyPacket)
  BY PickShape DEF TypeOK
<1> QED
  BY <1>3, <1>4, ConcatProperties

(* A chunk is cut into packets, the first of which are routed. *)
LEMMA ChunkRead ==
  ASSUME TypeOK, NEW n \in 1 .. Avail, ReadChunk(n)
  PROVE  \E ps \in Seq(AnyPacket), rest \in Seq(AnyPacket), ok \in Seq(AnyPacket) :
           /\ inflight = ps \o rest /\ IsPrefix(ok, ps)
           /\ inflight' = rest /\ queue' = Sorted(ok)
           /\ reader' = (ok = ps) /\ failed' = (failed \/ ok # ps)
<1>1. PICK k \in 0 .. Len(inflight) : k = (half + n) \div 2
  BY ChunkSize
<1>2. inflight \in Seq(AnyPacket)
  BY DEF TypeOK
<1>3. PICK ps \in Seq(AnyPacket), rest \in Seq(AnyPacket) :
        /\ ps = SubSeq(inflight, 1, k) /\ rest = SubSeq(inflight, k + 1, Len(inflight))
        /\ inflight = ps \o rest /\ Len(ps) = k
  BY <1>1, <1>2, Halves
<1>4. PICK ok \in Seq(AnyPacket) : ok = Decodable(ps) /\ IsPrefix(ok, ps)
  BY DecodablePrefix
<1>5. inflight' = rest /\ queue' = Sorted(ok) /\ reader' = (ok = ps) /\ failed' = (failed \/ ok # ps)
  BY <1>1, <1>3, <1>4 DEF ReadChunk
<1> QED
  <2>1. inflight = ps \o rest /\ IsPrefix(ok, ps)
    BY <1>3, <1>4
  <2> QED
    BY <1>5, <2>1

(* What the server sends, and what is recorded of it. *)
LEMMA SentPacket ==
  ASSUME TypeOK, ServerSend
  PROVE  \E p \in AnyPacket :
           /\ p.kind # "ack" /\ p.frame \in Frames
           /\ PeerSend(p)
           /\ sends' \in 0 .. MaxSends
           /\ sent' = IF shut \/ p.kind # "result" THEN sent ELSE [sent EXCEPT ![p.frame] = Append(@, p)]
<1>1. PICK p : /\ p \in [kind : {"result"}, frame : Frames, sid : {server.sid}, n : {sends + 1}]
                            \cup [kind : PeerSends, frame : {AnyFrame}, sid : {server.sid}, n : {sends + 1}]
               /\ PeerSend(p)
               /\ sent' = IF shut \/ p.kind # "result" THEN sent ELSE [sent EXCEPT ![p.frame] = Append(@, p)]
               /\ sends' = IF shut THEN sends ELSE sends + 1
               /\ sends < MaxSends
  BY DEF ServerSend
<1>2. sends \in 0 .. MaxSends /\ sends + 1 \in 0 .. MaxSends /\ server.sid \in SessionIds
  BY <1>1, BoundAssumption DEF TypeOK
<1>3. p \in AnyPacket /\ p.kind # "ack"
  BY <1>1, <1>2, FrameAssumption, PeerAssumption DEF AnyPacket, Kinds, AnyFrame
<1>4. p.frame \in Frames
  BY <1>3 DEF AnyPacket
<1>5. sends' \in 0 .. MaxSends
  BY <1>1, <1>2
<1> QED
  BY <1>1, <1>3, <1>4, <1>5

(* Every step keeps the types. *)
LEMMA TypeStep == TypeOK /\ [Next]_vars => TypeOK'
<1> SUFFICES ASSUME TypeOK, [Next]_vars PROVE TypeOK'
  OBVIOUS
<1> USE DEF TypeOK
<1>0. /\ \A kind \in Kinds, sid \in SessionIds, n \in 0 .. MaxSends : Packet(kind, AnyFrame, sid, n) \in AnyPacket
      /\ 0 \in 0 .. MaxSends
  BY PacketType, BoundAssumption, FrameAssumption
<1>a. call \in [Callers -> Calls]
  BY DEF Calls
<1>b. ASSUME NEW t \in Callers, NEW c \in Calls, call' = [call EXCEPT ![t] = c]
      PROVE  call' \in [Callers -> [q : Queues \cup {"none"}, got : AnyPacket \cup {NoPacket}]]
  BY <1>a, <1>b, CallTypes DEF Calls
<1>1. ASSUME NEW n \in 1 .. Avail, ReadChunk(n), UNCHANGED <<sessionVars, routerVars>>
      PROVE  TypeOK'
  <2>1. PICK ps \in Seq(AnyPacket), rest \in Seq(AnyPacket), ok \in Seq(AnyPacket) :
           /\ inflight' = rest /\ queue' = Sorted(ok)
           /\ reader' = (ok = ps) /\ failed' = (failed \/ ok # ps)
    BY <1>1, ChunkRead
  <2>2. Sorted(ok) \in [Queues -> Seq(AnyPacket)]
    BY SortedType
  <2>3. half' \in 0 .. 1
    BY <1>1, ChunkSize DEF ReadChunk
  <2> QED
    BY <1>1, <2>1, <2>2, <2>3 DEF ReadChunk, sessionVars, routerVars
<1>2. ASSUME ReadEnd \/ ReadIdle, UNCHANGED <<sessionVars, routerVars>>
      PROVE  TypeOK'
  BY <1>2, ZenonT(30) DEF ReadEnd, ReadIdle, wireVars, sessionVars, routerVars
<1>3. ASSUME NEW t \in Callers, QueueTask(t), UNCHANGED <<sessionVars, routerVars>>
      PROVE  TypeOK'
  <2>1. PICK q \in Queues : q = call[t].q /\ queue[q] # <<>>
    BY <1>3 DEF QueueTask, Waiting
  <2>2. queue[q] \in Seq(AnyPacket)
    OBVIOUS
  <2>3. Head(queue[q]) \in AnyPacket /\ Tail(queue[q]) \in Seq(AnyPacket)
    BY <2>1, <2>2, HeadTailProperties
  <2>4. queue' = [queue EXCEPT ![q] = Tail(queue[q])]
    BY <1>3, <2>1 DEF QueueTask
  <2>5. queue' \in [Queues -> Seq(AnyPacket)]
    BY <2>3, <2>4
  <2>6. PICK c : c = [call[t] EXCEPT !.got = Head(queue[q])]
    OBVIOUS
  <2>7. c \in Calls /\ call' = [call EXCEPT ![t] = c]
    <3>1. call[t] \in Calls
      BY <1>a
    <3>2. c \in Calls
      BY <2>3, <2>6, <3>1, CallTypes
    <3> QED
      BY <1>3, <2>1, <2>6, <3>2 DEF QueueTask
  <2>8. call' \in [Callers -> [q : Queues \cup {"none"}, got : AnyPacket \cup {NoPacket}]]
    BY <1>b, <2>7
  <2> QED
    BY <1>3, <2>5, <2>8 DEF QueueTask, wireVars, sessionVars, routerVars
<1>4. ASSUME NetworkCut, UNCHANGED <<sessionVars, routerVars>>
      PROVE  TypeOK'
  <2>1. inflight' \in Seq(AnyPacket)
    BY <1>4, CutTyped, FrameAssumption, SMTT(30) DEF NetworkCut
  <2>2. outbox' \in Seq(AnyPacket)
    <3>1. PICK n \in 0 .. Len(outbox) : outbox' = SubSeq(outbox, 1, n)
      BY <1>4 DEF NetworkCut
    <3>2. outbox \in Seq(AnyPacket)
      OBVIOUS
    <3> QED
      BY <3>1, <3>2, Halves
  <2> QED
    BY <1>4, <2>1, <2>2 DEF NetworkCut, innerVars, sessionVars, routerVars
<1>5. ASSUME ClientHello PROVE TypeOK'
  <2>1. Packet("hello", AnyFrame, Requested, 0) \in AnyPacket
    BY <1>0 DEF Kinds, SessionIds
  <2>2. outbox' \in Seq(AnyPacket)
    BY <1>5, <2>1 DEF ClientHello, Send
  <2>3. call' \in [Callers -> [q : Queues \cup {"none"}, got : AnyPacket \cup {NoPacket}]]
    BY <1>5, <1>b, CallTypes DEF ClientHello
  <2> QED
    BY <1>5, <2>2, <2>3 DEF ClientHello, routerVars
<1>6. ASSUME ClientAck PROVE TypeOK'
  <2>1. call' \in [Callers -> [q : Queues \cup {"none"}, got : AnyPacket \cup {NoPacket}]]
    BY <1>6, <1>b, CallTypes DEF ClientAck
  <2>2. call["connector"].got \in AnyPacket
    BY <1>6, CallTypes DEF ClientAck, Got
  <2>3. client' \in [phase : {"start", "awaiting", "open", "leaving", "closed"}, sid : SessionIds]
    BY <1>6, <2>2 DEF ClientAck, AnyPacket
  <2> QED
    BY <1>6, <2>1, <2>3 DEF ClientAck, wireVars, routerVars
<1>7. ASSUME ClientExit PROVE TypeOK'
  <2>1. inflight' \in Seq(AnyPacket) /\ shut' = TRUE /\ writer' = "ending" /\ outbox' = outbox
    BY <1>7, CutTyped, FrameAssumption DEF ClientExit, CloseWriter
  <2>2. client' \in [phase : {"start", "awaiting", "open", "leaving", "closed"}, sid : SessionIds]
    BY <1>7 DEF ClientExit
  <2>3. call' \in [Callers -> [q : Queues \cup {"none"}, got : AnyPacket \cup {NoPacket}]]
    BY <1>7, CallTypes DEF ClientExit, NoCall
  <2> QED
    BY <1>7, <2>1, <2>2, <2>3, ZenonT(30) DEF ClientExit, routerVars
<1>8. ASSUME ClientSubmit PROVE TypeOK'
  BY <1>0, <1>8, BoundAssumption DEF ClientSubmit, Send, innerVars, routerVars, Kinds
<1>9. ASSUME ClientSendFails PROVE TypeOK'
  BY <1>9 DEF ClientSendFails, SendFails, wireVars, sessionVars, routerVars
<1>10. ASSUME ClientFlow PROVE TypeOK'
  <2>1. call' \in [Callers -> [q : Queues \cup {"none"}, got : AnyPacket \cup {NoPacket}]]
    BY <1>10, <1>b, CallTypes DEF ClientFlow
  <2> QED
    BY <1>10, <2>1 DEF ClientFlow, wireVars, sessionVars, routerVars
<1>11. ASSUME ServerResolve PROVE TypeOK'
  BY <1>11 DEF ServerResolve, SessionIds, innerVars, routerVars
<1>12. ASSUME ServerAck PROVE TypeOK'
  <2>1. Packet("ack", AnyFrame, server.sid, 0) \in AnyPacket
    BY <1>0 DEF Kinds
  <2>2. inflight' \in Seq(AnyPacket)
    BY <1>12, <2>1 DEF ServerAck, PeerSend
  <2> QED
    BY <1>12, <2>2 DEF ServerAck, innerVars, routerVars
<1>13. ASSUME ServerClose PROVE TypeOK'
  <2>1. outbox' \in Seq(AnyPacket) /\ shut' \in BOOLEAN
    BY <1>13, EmptySeq DEF ServerClose
  <2>2. server' \in [phase : {"start", "resolved", "open", "closed"}, sid : SessionIds]
    BY <1>13 DEF ServerClose
  <2> QED
    BY <1>13, <2>1, <2>2 DEF ServerClose, innerVars, routerVars
<1>14. ASSUME ServerReceive PROVE TypeOK'
  BY <1>14 DEF ServerReceive, innerVars, routerVars
<1>15. ASSUME ServerSend PROVE TypeOK'
  <2>1. PICK p \in AnyPacket :
          /\ p.frame \in Frames /\ PeerSend(p)
          /\ sends' \in 0 .. MaxSends
          /\ sent' = IF shut \/ p.kind # "result" THEN sent ELSE [sent EXCEPT ![p.frame] = Append(@, p)]
    BY <1>15, SentPacket
  <2>2. sent' \in [Frames -> Seq(AnyPacket)] /\ inflight' \in Seq(AnyPacket)
    BY <2>1 DEF PeerSend
  <2> QED
    BY <1>15, <2>1, <2>2 DEF ServerSend, innerVars, routerVars
<1>16. ASSUME RouterEnter PROVE TypeOK'
  BY <1>16 DEF RouterEnter, connVars, wireVars, innerVars, sessionVars
<1>17. ASSUME NEW e \in BOOLEAN, RouterStops(e) PROVE TypeOK'
  <2>1. rq' \in [Frames -> Seq(AnyPacket \cup {Sentinel})]
    BY <1>17 DEF RouterStops, Stopped
  <2> QED
    BY <1>17, <2>1 DEF RouterStops, NoCall, wireVars, sessionVars
<1>18. ASSUME RouterStart PROVE TypeOK'
  <2>1. CASE failed /\ RouterStops(TRUE)
    BY <1>17, <2>1
  <2>2. CASE ~failed
    <3>1. call' \in [Callers -> [q : Queues \cup {"none"}, got : AnyPacket \cup {NoPacket}]]
      BY <1>18, <2>2, <1>b, CallTypes, ZenonT(30) DEF RouterStart
    <3> QED
      BY <1>18, <2>2, <3>1 DEF RouterStart, wireVars, sessionVars
  <2> QED
    BY <1>18, <2>1, <2>2 DEF RouterStart
<1>19. ASSUME RouterPut PROVE TypeOK'
  <2>1. PICK p \in AnyPacket : p = call["router"].got /\ p.frame \in Frames
    BY <1>19, CallersAssumption DEF RouterPut, Got, AnyPacket
  <2>2. PICK qs \in [Frames -> Seq(AnyPacket \cup {Sentinel})] : qs = Filed(p)
    <3>1. PICK x \in AnyPacket \cup {Sentinel}, f \in Frames : x = p /\ f = p.frame
      BY <2>1
    <3>2. [rq EXCEPT ![f] = Append(@, x)] \in [Frames -> Seq(AnyPacket \cup {Sentinel})]
      OBVIOUS
    <3> QED
      BY <3>1, <3>2 DEF Filed
  <2>3. keys' \subseteq Frames
    BY <1>19, <2>1 DEF RouterPut
  <2>4. rq' \in [Frames -> Seq(AnyPacket \cup {Sentinel})]
    <3>1. Stopped(qs, keys') \in [Frames -> Seq(AnyPacket \cup {Sentinel})]
      BY <2>2 DEF Stopped
    <3>2. rq' = qs \/ rq' = Stopped(qs, keys')
      BY <1>19, <2>1, <2>2 DEF RouterPut
    <3> QED
      BY <3>1, <3>2
  <2>0. \/ /\ router' = [task |-> "done", closed |-> TRUE, error |-> TRUE]
           /\ call' = [call EXCEPT !["router"] = NoCall]
        \/ /\ router' = router
           /\ call' = [call EXCEPT !["router"] = Receive("result")]
    BY <1>19 DEF RouterPut
  <2>5. call' \in [Callers -> [q : Queues \cup {"none"}, got : AnyPacket \cup {NoPacket}]]
    BY <2>0, <1>b, CallTypes
  <2>6. router' \in [task : {"none", "created", "running", "done", "dropped"}, closed : BOOLEAN,
                     error : BOOLEAN]
    <3>1. CASE router' = router
      BY <3>1
    <3>2. CASE router' = [task |-> "done", closed |-> TRUE, error |-> TRUE]
      <4>1. PICK b \in BOOLEAN : router' = [task |-> "done", closed |-> b, error |-> b]
        BY <3>2
      <4> QED
        BY <4>1
    <3> QED
      BY <2>0, <3>1, <3>2
  <2> QED
    BY <1>19, <2>3, <2>4, <2>5, <2>6 DEF RouterPut, wireVars, sessionVars
<1>20. ASSUME RouterFails PROVE TypeOK'
  BY <1>17, <1>20 DEF RouterFails
<1>21. ASSUME RouterClose PROVE TypeOK'
  <2>1. CASE RouterStops(FALSE)
    BY <1>17, <2>1
  <2>2. CASE ~RouterStops(FALSE)
    BY <1>21, <2>2 DEF RouterClose, connVars, wireVars, innerVars, sessionVars
  <2> QED
    BY <2>1, <2>2
<1>22. ASSUME NEW r \in Receivers, Take(r)
       PROVE  /\ rq' \in [Frames -> Seq(AnyPacket \cup {Sentinel})]
              /\ receiver' \in [Receivers -> {"idle", "waiting", "raised"}]
              /\ delivered' \in [Frames -> Seq(AnyPacket)]
  <2>1. PICK f \in Frames : f = FrameFor[r] /\ rq[f] # <<>>
    BY <1>22, FrameAssumption DEF Take
  <2>2. Head(rq[f]) \in AnyPacket \cup {Sentinel} /\ Tail(rq[f]) \in Seq(AnyPacket \cup {Sentinel})
    BY <2>1, HeadTailProperties
  <2> QED
    BY <1>22, <2>1, <2>2, SMTT(30) DEF Take
<1>23. ASSUME NEW r \in Receivers, ReceiveBegin(r) PROVE TypeOK'
  <2>1. CASE Take(r)
    BY <1>22, <1>23, <2>1, FrameAssumption, SMTT(30) DEF ReceiveBegin, connVars, wireVars, innerVars, sessionVars
  <2>2. CASE ~Take(r)
    BY <1>23, <2>2, FrameAssumption, ZenonT(30) DEF ReceiveBegin, connVars, wireVars, innerVars, sessionVars
  <2> QED
    BY <2>1, <2>2
<1>24. ASSUME NEW r \in Receivers, ReceiveTake(r) PROVE TypeOK'
  BY <1>22, <1>24 DEF ReceiveTake, connVars, wireVars, innerVars, sessionVars
<1>25. ASSUME NEW r \in Receivers, ReceiveTimeout(r) PROVE TypeOK'
  BY <1>25 DEF ReceiveTimeout, connVars, wireVars, innerVars, sessionVars
<1>26. CASE UNCHANGED vars
  BY <1>26 DEF vars, connVars, wireVars, innerVars, sessionVars, routerVars
<1>27. ASSUME ClientExited PROVE TypeOK'
  BY <1>27, ZenonT(30) DEF ClientExited, connVars, wireVars, innerVars, routerVars
<1> QED
  BY <1>1, <1>2, <1>3, <1>4, <1>5, <1>6, <1>7, <1>8, <1>9, <1>10, <1>11, <1>12, <1>13, <1>14, <1>15,
     <1>16, <1>18, <1>19, <1>20, <1>21, <1>23, <1>24, <1>25, <1>26, <1>27 DEF Next, Network, Client, Server, Router

-----------------------------------------------------------------------------
(* Calls, and the ids of the handshake *)

\* Who receives from which queue, and when a packet is in somebody's hand.
CallsInv ==
  /\ router.task = "running" => call["router"].q = "result"
  /\ router.task # "running" => call["router"] = NoCall
  /\ call["connector"].q \in {"none", "control"}
  /\ \A t \in Callers : call[t].q = "none" => call[t].got = NoPacket

\* The packets that have reached the client and are neither used nor dropped.
Held ==
  Elems(inflight) \cup (UNION {Elems(queue[q]) : q \in Queues})
    \cup ({call[t].got : t \in Callers} \ {NoPacket})

\* An ack carries the id the server resolved.
AckOk(p) == p.kind = "ack" => server.phase \in {"open", "closed"} /\ p.sid = server.sid

AcksInv == \A p \in Held : AckOk(p)

\* One hello opens the session; what follows it carries the id of the ack.
SessionInv ==
  /\ client.phase = "open" => server.phase \in {"open", "closed"} /\ client.sid = server.sid
  /\ client.phase = "start" => outbox = <<>> /\ server.phase \in {"start", "closed"}
  /\ server.phase = "start" => Len(outbox) <= 1
  /\ server.phase = "resolved" => outbox = <<>>
  /\ server.phase = "closed" => shut /\ outbox = <<>>
  /\ server.phase = "open" => \A p \in Elems(outbox) : p.sid = server.sid

(* Every step keeps the calls in order. *)
LEMMA CallsStep == TypeOK /\ CallsInv /\ [Next]_vars => CallsInv'
<1> SUFFICES ASSUME TypeOK, CallsInv, [Next]_vars PROVE CallsInv'
  OBVIOUS
<1> USE DEF CallsInv
<1>a. call \in [Callers -> Calls] /\ "router" \in Callers /\ "connector" \in Callers
      /\ Callers = {"connector", "router"}
  BY CallersAssumption DEF TypeOK, Calls
<1>b. NoCall.q = "none" /\ NoCall.got = NoPacket
  BY DEF NoCall
<1>c. \A q \in Queues : Receive(q).q = q /\ q # "none"
  BY DEF Receive, Queues
<1>1. ASSUME UNCHANGED <<router, call>> PROVE CallsInv'
  BY <1>1
<1>2. ASSUME NEW t \in Callers, QueueTask(t), UNCHANGED <<sessionVars, routerVars>>
      PROVE  CallsInv'
  <2>1. router' = router /\ call[t].q # "none"
    BY <1>2 DEF QueueTask, Waiting, routerVars
  <2>2. \A u \in Callers : call'[u].q = call[u].q /\ (u # t => call'[u] = call[u])
    BY <1>2, <1>a DEF QueueTask, Calls
  <2>3. t = "router" => router.task = "running"
    BY <2>1, <1>b
  <2> QED
    BY <2>1, <2>2, <2>3, <1>a
<1>3. ASSUME router' = router, NEW c \in Calls, c.q \in {"none", "control"}, c.got = NoPacket,
             call' = [call EXCEPT !["connector"] = c]
      PROVE  CallsInv'
  BY <1>3, <1>a
<1>4. ASSUME router'.task # "running", call' = [call EXCEPT !["router"] = NoCall]
      PROVE  CallsInv'
  BY <1>4, <1>a, <1>b
<1>5. ASSUME router'.task = "running", call' = [call EXCEPT !["router"] = Receive("result")]
      PROVE  CallsInv'
  BY <1>5, <1>a, <1>c DEF Receive
<1>6. NoCall \in Calls /\ Receive("control") \in Calls /\ Receive("control").q = "control"
      /\ Receive("control").got = NoPacket
  BY CallTypes DEF Receive
<1>7. ASSUME ClientHello \/ ClientAck \/ ClientExit \/ ClientFlow PROVE CallsInv'
  <2>1. router' = router
    BY <1>7 DEF ClientHello, ClientAck, ClientExit, ClientFlow, routerVars
  <2>2. \E c \in {NoCall, Receive("control")} : call' = [call EXCEPT !["connector"] = c]
    BY <1>7 DEF ClientHello, ClientAck, ClientExit, ClientFlow
  <2> QED
    BY <2>1, <2>2, <1>3, <1>6, <1>b
<1>8. ASSUME NEW e \in BOOLEAN, RouterStops(e) PROVE CallsInv'
  BY <1>8, <1>4 DEF RouterStops
<1>9. ASSUME RouterStart \/ RouterPut \/ RouterFails PROVE CallsInv'
  <2>1. CASE RouterStops(TRUE)
    BY <2>1, <1>8
  <2>2. CASE ~RouterStops(TRUE) /\ RouterStart
    BY <2>2, <1>5 DEF RouterStart, TypeOK
  <2>3. CASE RouterPut
    <3>1. \/ /\ router' = [task |-> "done", closed |-> TRUE, error |-> TRUE]
             /\ call' = [call EXCEPT !["router"] = NoCall]
          \/ /\ router' = router /\ router.task = "running"
             /\ call' = [call EXCEPT !["router"] = Receive("result")]
      BY <2>3 DEF RouterPut
    <3> QED
      BY <3>1, <1>4, <1>5
  <2> QED
    BY <1>9, <2>1, <2>2, <2>3 DEF RouterFails
<1>10. ASSUME RouterClose \/ RouterEnter PROVE CallsInv'
  <2>1. CASE RouterStops(FALSE)
    BY <2>1, <1>8
  <2>2. CASE ~RouterStops(FALSE)
    <3>1. call' = call /\ router.task # "running" /\ router'.task # "running"
      BY <1>10, <2>2 DEF RouterClose, RouterEnter, TypeOK, connVars, innerVars
    <3> QED
      BY <3>1
  <2> QED
    BY <2>1, <2>2
<1>11. ASSUME \/ \E n \in 1 .. Avail : ReadChunk(n) /\ UNCHANGED <<sessionVars, routerVars>>
              \/ (ReadEnd \/ ReadIdle \/ NetworkCut) /\ UNCHANGED <<sessionVars, routerVars>>
              \/ ClientSubmit \/ ClientSendFails \/ ClientExited
              \/ ServerResolve \/ ServerAck \/ ServerClose \/ ServerReceive \/ ServerSend
              \/ \E r \in Receivers : ReceiveBegin(r) \/ ReceiveTake(r) \/ ReceiveTimeout(r)
              \/ UNCHANGED vars
       PROVE  CallsInv'
  <2>1. UNCHANGED <<router, call>>
    BY <1>11 DEF ReadChunk, ReadEnd, ReadIdle, NetworkCut, ClientSubmit, ClientSendFails, ClientExited, ServerResolve,
       ServerAck, ServerClose, ServerReceive, ServerSend, ReceiveBegin, ReceiveTake, ReceiveTimeout,
       vars, connVars, innerVars, routerVars
  <2> QED
    BY <2>1, <1>1
<1> QED
  BY <1>2, <1>7, <1>9, <1>10, <1>11 DEF Next, Network, Client, Server, Router

(* The elements of parts of a list are elements of it. *)
LEMMA PartElems ==
  ASSUME NEW E, NEW s \in Seq(E)
  PROVE  /\ s # <<>> => Head(s) \in Elems(s) /\ Elems(Tail(s)) \subseteq Elems(s)
         /\ \A t \in Seq(E) : IsPrefix(t, s) => Elems(t) \subseteq Elems(s)
         /\ \A e \in E : Elems(Append(s, e)) = Elems(s) \cup {e}
         /\ Elems(<<>>) = {} /\ Elems(s) \subseteq E
<1>1. ASSUME s # <<>> PROVE Head(s) \in Elems(s) /\ Elems(Tail(s)) \subseteq Elems(s)
  <2>0. Head(s) \in E /\ Tail(s) \in Seq(E) /\ s = <<Head(s)>> \o Tail(s)
    <3> DEFINE none == {}
    <3> HIDE DEF none
    <3>1. Pick(s, none) = Pick(s, none)
      OBVIOUS
    <3> QED
      BY <1>1, <3>1, PickHead
  <2>1. PICK h \in E, t \in Seq(E) : h = Head(s) /\ t = Tail(s) /\ s = <<h>> \o t
    BY <2>0
  <2>2. PICK u \in Seq(E) : u = <<h>>
    <3>1. <<h>> \in Seq(E)
      OBVIOUS
    <3> QED
      BY <3>1
  <2>3. Elems(u) = {h}
    BY <2>2 DEF Elems
  <2>4. Elems(u \o t) = Elems(u) \cup Elems(t)
    BY ConcatContents
  <2> QED
    BY <2>1, <2>2, <2>3, <2>4
<1>2. ASSUME NEW t \in Seq(E), IsPrefix(t, s) PROVE Elems(t) \subseteq Elems(s)
  <2>1. PICK u \in Seq(E) : s = t \o u
    BY <1>2, PrefixRest
  <2>2. Elems(t \o u) = Elems(t) \cup Elems(u)
    BY ConcatContents
  <2> QED
    BY <2>1, <2>2
<1>3. \A e \in E : Elems(Append(s, e)) = Elems(s) \cup {e}
  BY AppendContents
<1>4. Elems(<<>>) = {} /\ Elems(s) \subseteq E
  <2>1. \A i \in DOMAIN s : s[i] \in E
    BY LenProperties
  <2> QED
    BY <2>1, EmptyList DEF Elems
<1> QED
  BY <1>1, <1>2, <1>3, <1>4

(* A cut leaves the packets there were, except that it may tear one. *)
LEMMA CutElems ==
  ASSUME TypeOK, NEW n \in half .. (half + Avail)
  PROVE  \A p \in Elems(Cut(inflight, n)) : p \in Elems(inflight) \/ p.kind = "torn"
<1>1. PICK k \in 0 .. Len(inflight) : k = n \div 2 /\ (n % 2 # 0 => k + 1 \in 1 .. Len(inflight))
  BY CutSize
<1>2. inflight \in Seq(AnyPacket)
  BY DEF TypeOK
<1>3. PICK w \in Seq(AnyPacket) : w = SubSeq(inflight, 1, k) /\ IsPrefix(w, inflight)
  BY <1>1, <1>2, Halves
<1>4. Elems(w) \subseteq Elems(inflight)
  <2>1. \A t \in Seq(AnyPacket) : IsPrefix(t, inflight) => Elems(t) \subseteq Elems(inflight)
    BY <1>2, PartElems
  <2> QED
    BY <1>3, <2>1
<1>5. CASE n % 2 = 0
  <2>1. Cut(inflight, n) = w
    BY <1>1, <1>3, <1>5 DEF Cut
  <2> QED
    BY <1>4, <2>1
<1>6. CASE n % 2 # 0
  <2>1. PICK e : e = [inflight[k + 1] EXCEPT !.kind = "torn"]
    OBVIOUS
  <2>2. inflight[k + 1] \in AnyPacket
    BY <1>1, <1>2, <1>6, ElementOfSeq
  <2>3. e \in AnyPacket /\ e.kind = "torn"
    BY <2>1, <2>2 DEF AnyPacket, Kinds
  <2>4. Cut(inflight, n) = Append(w, e)
    BY <1>1, <1>3, <1>6, <2>1 DEF Cut
  <2>5. Elems(Append(w, e)) = Elems(w) \cup {e}
    BY <2>3, PartElems
  <2> QED
    BY <1>4, <2>3, <2>4, <2>5
<1> QED
  BY <1>5, <1>6

(* What reaches the client in a step: what had reached it, and what the server sends. *)
LEMMA HeldStep ==
  TypeOK /\ [Next]_vars =>
    \A p \in Held' : \/ p \in Held
                     \/ p.kind # "ack"
                     \/ ServerAck /\ p = Packet("ack", AnyFrame, server.sid, 0)
<1> SUFFICES ASSUME TypeOK, [Next]_vars, NEW p \in Held'
             PROVE  \/ p \in Held
                    \/ p.kind # "ack"
                    \/ ServerAck /\ p = Packet("ack", AnyFrame, server.sid, 0)
  OBVIOUS
<1>a. /\ inflight \in Seq(AnyPacket)
      /\ \A q \in Queues : queue[q] \in Seq(AnyPacket)
      /\ call \in [Callers -> Calls]
  BY DEF TypeOK, Calls
<1>b. NoCall.got = NoPacket /\ \A q : Receive(q).got = NoPacket
  BY DEF NoCall, Receive
<1>1. ASSUME UNCHANGED queue, UNCHANGED call, \A x \in Elems(inflight') : x \in Elems(inflight) \/ x.kind # "ack"
      PROVE  p \in Held \/ p.kind # "ack"
  BY <1>1 DEF Held
<1>2. ASSUME UNCHANGED queue, NEW t \in Callers, NEW c \in Calls, c.got = NoPacket,
             call' = [call EXCEPT ![t] = c],
             \A x \in Elems(inflight') : x \in Elems(inflight) \/ x.kind # "ack"
      PROVE  p \in Held \/ p.kind # "ack"
  <2>1. \A u \in Callers : call'[u] = call[u] \/ call'[u].got = NoPacket
    BY <1>2, <1>a
  <2> QED
    BY <1>2, <2>1 DEF Held
<1>3. ASSUME NEW n \in 1 .. Avail, ReadChunk(n)
      PROVE  p \in Held
  <2>1. PICK ps \in Seq(AnyPacket), rest \in Seq(AnyPacket), ok \in Seq(AnyPacket) :
           /\ inflight = ps \o rest /\ IsPrefix(ok, ps)
           /\ inflight' = rest /\ queue' = Sorted(ok)
    BY <1>3, ChunkRead
  <2>2. Elems(inflight) = Elems(ps) \cup Elems(rest) /\ Elems(ok) \subseteq Elems(ps)
    <3>1. Elems(ps \o rest) = Elems(ps) \cup Elems(rest)
      BY ConcatContents
    <3>2. Elems(ok) \subseteq Elems(ps)
      BY <2>1, PartElems
    <3> QED
      BY <2>1, <3>1, <3>2
  <2>3. ASSUME NEW q \in Queues PROVE Elems(queue'[q]) \subseteq Elems(queue[q]) \cup Elems(ok)
    <3>1. PICK w \in Seq(AnyPacket) : /\ w = Pick(ok, {x \in AnyPacket : QueueOf(x) = q})
                                     /\ Elems(w) \subseteq Elems(ok)
      BY PickShape, ZenonT(30)
    <3>2. queue'[q] = queue[q] \o w
      BY <2>1, <3>1, SortedType
    <3>3. Elems(queue[q] \o w) = Elems(queue[q]) \cup Elems(w)
      BY <1>a, ConcatContents
    <3> QED
      BY <3>1, <3>2, <3>3
  <2>4. call' = call
    BY <1>3 DEF ReadChunk
  <2> QED
    BY <2>1, <2>2, <2>3, <2>4 DEF Held
<1>4. ASSUME NEW t \in Callers, QueueTask(t) PROVE p \in Held
  <2>1. PICK q \in Queues : q = call[t].q /\ queue[q] # <<>>
    BY <1>4 DEF QueueTask, Waiting, TypeOK
  <2>2. Head(queue[q]) \in Elems(queue[q]) /\ Elems(Tail(queue[q])) \subseteq Elems(queue[q])
    BY <1>a, <2>1, PartElems
  <2>3. \A r \in Queues : queue'[r] = queue[r] \/ (r = q /\ queue'[r] = Tail(queue[r]))
    BY <1>4, <2>1 DEF QueueTask, TypeOK
  <2>4. \A u \in Callers : call'[u].got = call[u].got \/ call'[u].got = Head(queue[q])
    BY <1>4, <1>a, <2>1 DEF QueueTask, Calls
  <2>5. inflight' = inflight
    BY <1>4 DEF QueueTask, wireVars
  <2>6. \A r \in Queues : Elems(queue'[r]) \subseteq Elems(queue[r])
    BY <2>2, <2>3
  <2> QED
    <3>1. \A r \in Queues : Elems(queue'[r]) \subseteq Held
      BY <2>6 DEF Held
    <3>2. Elems(inflight') \subseteq Held
      BY <2>5 DEF Held
    <3>3. \A u \in Callers : call'[u].got # NoPacket => call'[u].got \in Held
      <4>1. Head(queue[q]) \in Held
        BY <2>1, <2>2 DEF Held
      <4>2. \A u \in Callers : call[u].got # NoPacket => call[u].got \in Held
        BY DEF Held
      <4> QED
        BY <2>4, <4>1, <4>2
    <3>4. \A x \in Held' : \/ (\E r \in Queues : x \in Elems(queue'[r]))
                          \/ x \in Elems(inflight')
                          \/ (\E u \in Callers : x = call'[u].got /\ x # NoPacket)
      BY DEF Held
    <3> QED
      BY <3>1, <3>2, <3>3, <3>4
<1>5. ASSUME NetworkCut \/ ClientExit PROVE p \in Held \/ p.kind # "ack"
  <2>1. \A x \in Elems(inflight') : x \in Elems(inflight) \/ x.kind # "ack"
    BY <1>5, CutElems DEF NetworkCut, ClientExit, CloseWriter
  <2>2. CASE NetworkCut
    BY <2>1, <2>2, <1>1 DEF NetworkCut, innerVars
  <2>3. CASE ClientExit
    <3>1. UNCHANGED queue /\ call' = [call EXCEPT !["connector"] = NoCall]
      BY <2>3 DEF ClientExit
    <3> QED
      BY <2>1, <3>1, <1>2, <1>b, CallTypes
  <2> QED
    BY <1>5, <2>2, <2>3
<1>6. ASSUME ServerAck PROVE p \in Held \/ p = Packet("ack", AnyFrame, server.sid, 0)
  <2>1. Packet("ack", AnyFrame, server.sid, 0) \in AnyPacket
    BY PacketType, FrameAssumption, BoundAssumption DEF TypeOK, Kinds
  <2>2. Elems(inflight') \subseteq Elems(inflight) \cup {Packet("ack", AnyFrame, server.sid, 0)}
    BY <1>6, <1>a, <2>1, PartElems DEF ServerAck, PeerSend
  <2>3. UNCHANGED queue /\ UNCHANGED call
    BY <1>6 DEF ServerAck, innerVars
  <2> QED
    BY <2>2, <2>3 DEF Held
<1>7. ASSUME ServerSend PROVE p \in Held \/ p.kind # "ack"
  <2>1. PICK x \in AnyPacket : x.kind # "ack" /\ PeerSend(x)
    BY <1>7, SentPacket
  <2>2. \A y \in Elems(inflight') : y \in Elems(inflight) \/ y.kind # "ack"
    BY <1>a, <2>1, PartElems DEF PeerSend
  <2>3. UNCHANGED queue /\ UNCHANGED call
    BY <1>7 DEF ServerSend, innerVars
  <2> QED
    BY <2>2, <2>3, <1>1
<1>8. ASSUME ClientHello \/ ClientAck \/ ClientFlow \/ RouterStart \/ RouterPut \/ RouterFails
      PROVE  p \in Held \/ p.kind # "ack"
  <2>1. inflight' = inflight /\ queue' = queue
    BY <1>8 DEF ClientHello, ClientAck, ClientFlow, RouterStart, RouterPut, RouterFails, RouterStops, wireVars
  <2>2. \E t \in Callers, c \in {NoCall, Receive("control"), Receive("result")} : call' = [call EXCEPT ![t] = c]
    <3>1. CASE ClientHello \/ ClientAck \/ ClientFlow
      BY <3>1, CallTypes DEF ClientHello, ClientAck, ClientFlow
    <3>2. CASE RouterStart \/ RouterPut \/ RouterFails
      <4>1. \E c \in {NoCall, Receive("control"), Receive("result")} : call' = [call EXCEPT !["router"] = c]
        BY <3>2 DEF RouterStart, RouterPut, RouterFails, RouterStops
      <4> QED
        BY <4>1, CallTypes
    <3> QED
      BY <1>8, <3>1, <3>2
  <2> QED
    BY <2>1, <2>2, <1>2, <1>b, CallTypes
<1>9. ASSUME RouterClose PROVE p \in Held \/ p.kind # "ack"
  <2>1. CASE RouterStops(FALSE)
    BY <2>1, <1>2, <1>b, CallTypes DEF RouterStops, wireVars
  <2>2. CASE ~RouterStops(FALSE)
    BY <1>9, <2>2, <1>1 DEF RouterClose, connVars, wireVars, innerVars
  <2> QED
    BY <2>1, <2>2
<1>10. ASSUME \/ ReadEnd \/ ReadIdle
              \/ ClientSubmit \/ ClientSendFails \/ ClientExited \/ RouterEnter
              \/ ServerResolve \/ ServerClose \/ ServerReceive
              \/ \E r \in Receivers : ReceiveBegin(r) \/ ReceiveTake(r) \/ ReceiveTimeout(r)
              \/ UNCHANGED vars
       PROVE  p \in Held \/ p.kind # "ack"
  <2>1. UNCHANGED <<inflight, queue, call>>
    BY <1>10 DEF ReadEnd, ReadIdle, ClientSubmit, ClientSendFails, ClientExited, RouterEnter, ServerResolve,
       ServerClose, ServerReceive, ReceiveBegin, ReceiveTake, ReceiveTimeout,
       vars, connVars, innerVars, wireVars
  <2> QED
    BY <2>1, <1>1
<1> QED
  BY <1>3, <1>4, <1>5, <1>6, <1>7, <1>8, <1>9, <1>10 DEF Next, Network, Client, Server, Router

(* The ids agree along the handshake and after it. *)
LEMMA SessionStep ==
  TypeOK /\ AcksInv /\ SessionInv /\ SubmitsAccepted /\ [Next]_vars
    => AcksInv' /\ SessionInv' /\ SubmitsAccepted'
<1> SUFFICES ASSUME TypeOK, AcksInv, SessionInv, SubmitsAccepted, [Next]_vars
             PROVE  AcksInv' /\ SessionInv' /\ SubmitsAccepted'
  OBVIOUS
<1>a. /\ outbox \in Seq(AnyPacket)
      /\ server.phase \in {"start", "resolved", "open", "closed"}
      /\ client.phase \in {"start", "awaiting", "open", "leaving", "closed"}
      /\ client \in [phase : {"start", "awaiting", "open", "leaving", "closed"}, sid : SessionIds]
      /\ server \in [phase : {"start", "resolved", "open", "closed"}, sid : SessionIds]
  BY DEF TypeOK
<1>b. Elems(<<>>) = {} /\ Len(<<>>) = 0
  BY EmptyList
<1>1. AcksInv'
  <2> SUFFICES ASSUME NEW p \in Held' PROVE AckOk(p)'
    BY DEF AcksInv
  <2>1. p \in Held \/ p.kind # "ack" \/ (ServerAck /\ p = Packet("ack", AnyFrame, server.sid, 0))
    BY HeldStep
  <2>2. CASE p.kind # "ack"
    BY <2>2 DEF AckOk
  <2>3. CASE ServerAck /\ p = Packet("ack", AnyFrame, server.sid, 0)
    BY <2>3, <1>a DEF ServerAck, Packet, AckOk
  <2>4. CASE p \in Held
    <3>1. AckOk(p)
      BY <2>4 DEF AcksInv
    <3>2. \/ server' = server \/ server.phase \in {"start", "resolved"}
          \/ server'.sid = server.sid /\ server'.phase \in {"open", "closed"}
      BY <1>a DEF Next, Network, Client, Server, Router, ClientHello, ClientAck, ClientExit, ClientExited, ClientSendFails,
         ClientFlow, ClientSubmit, ServerResolve, ServerAck, ServerClose, ServerReceive, ServerSend, RouterEnter,
         RouterStart, RouterPut, RouterFails, RouterClose, RouterStops, ReceiveBegin, ReceiveTake, ReceiveTimeout,
         vars, sessionVars
    <3> QED
      BY <3>1, <3>2 DEF AckOk
  <2> QED
    BY <2>1, <2>2, <2>3, <2>4
<1> SUFFICES SessionInv' /\ SubmitsAccepted'
  BY <1>1
<1>2. ASSUME UNCHANGED <<client, server, refused>>, shut => shut',
             outbox' \in Seq(AnyPacket), IsPrefix(outbox', outbox)
      PROVE  SessionInv' /\ SubmitsAccepted'
  <2>1. Elems(outbox') \subseteq Elems(outbox)
    BY <1>2, <1>a, PartElems
  <2>2. PICK u \in Seq(AnyPacket) : outbox = outbox' \o u
    <3>1. PICK t \in Seq(AnyPacket) : t = outbox' /\ IsPrefix(t, outbox)
      BY <1>2
    <3>2. \E u \in Seq(AnyPacket) : outbox = t \o u
      BY <1>a, <3>1, PrefixRest
    <3> QED
      BY <3>1, <3>2
  <2>3. Len(outbox') \in Nat /\ Len(u) \in Nat /\ Len(outbox) = Len(outbox') + Len(u)
    BY <1>2, <2>2, LenProperties, ConcatProperties
  <2>4. outbox = <<>> => outbox' = <<>>
    BY <1>2, <2>3, <1>b, EmptySeq
  <2> QED
    BY <1>2, <2>1, <2>3, <2>4 DEF SessionInv, SubmitsAccepted
<1>3. ASSUME UNCHANGED <<outbox, client, server, refused>>, shut => shut'
      PROVE  SessionInv' /\ SubmitsAccepted'
  BY <1>3 DEF SessionInv, SubmitsAccepted
<1>4. CASE Network
  <2>1. UNCHANGED <<client, server, refused>>
    BY <1>4 DEF Network, sessionVars
  <2>2. CASE NetworkCut
    <3>1. PICK n \in 0 .. Len(outbox) : outbox' = SubSeq(outbox, 1, n)
      BY <2>2 DEF NetworkCut
    <3>2. outbox' \in Seq(AnyPacket) /\ IsPrefix(outbox', outbox)
      BY <3>1, <1>a, Halves
    <3> QED
      BY <2>1, <2>2, <3>2, <1>2 DEF NetworkCut
  <2>3. CASE ~NetworkCut
    <3>1. outbox' = outbox /\ shut' = shut
      BY <1>4, <2>3 DEF Network, ReadChunk, ReadEnd, ReadIdle, QueueTask, wireVars
    <3> QED
      BY <2>1, <3>1, <1>3
  <2> QED
    BY <2>2, <2>3
<1>5. CASE ClientHello
  <2>1. PICK p \in AnyPacket : outbox' = IF shut THEN outbox ELSE Append(outbox, p)
    <3>1. Packet("hello", AnyFrame, Requested, 0) \in AnyPacket
      BY PacketType, FrameAssumption, BoundAssumption DEF SessionIds, Kinds
    <3> QED
      BY <3>1, <1>5 DEF ClientHello, Send
  <2>2. /\ client.phase = "start" /\ client'.phase = "awaiting" /\ server' = server /\ shut' = shut /\ refused' = refused
        /\ outbox = <<>> /\ server.phase \in {"start", "closed"}
    BY <1>5, <1>a DEF ClientHello, SessionInv
  <2>3. Len(outbox') <= 1
    <3>1. Len(Append(outbox, p)) = Len(outbox) + 1
      BY <1>a, AppendProperties
    <3> QED
      BY <2>1, <2>2, <3>1, <1>b
  <2> QED
    BY <2>1, <2>2, <2>3 DEF SessionInv, SubmitsAccepted
<1>6. CASE ClientAck
  <2>1. call["connector"].got \in Held /\ call["connector"].got.kind = "ack"
    <3>1. call["connector"].got # NoPacket /\ call["connector"].got.kind = "ack"
      BY <1>6 DEF ClientAck, Got
    <3>2. \A t \in Callers : call[t].got # NoPacket => call[t].got \in Held
      BY DEF Held
    <3>3. "connector" \in Callers
      BY CallersAssumption
    <3> QED
      BY <3>1, <3>2, <3>3
  <2>2. server.phase \in {"open", "closed"} /\ client'.sid = server.sid /\ client'.phase = "open"
    BY <2>1, <1>6 DEF AcksInv, AckOk, ClientAck
  <2>3. UNCHANGED <<outbox, shut, server, refused>>
    BY <1>6 DEF ClientAck, wireVars
  <2> QED
    BY <2>2, <2>3 DEF SessionInv, SubmitsAccepted
<1>7. CASE ClientExit
  <2>1. client'.phase = "leaving" /\ outbox' = outbox /\ shut' /\ server' = server /\ refused' = refused
    BY <1>7, <1>a DEF ClientExit, CloseWriter
  <2> QED
    BY <2>1 DEF SessionInv, SubmitsAccepted
<1>8. CASE ClientSubmit
  <2>1. PICK p \in AnyPacket : p.sid = client.sid /\ outbox' = IF shut THEN outbox ELSE Append(outbox, p)
    <3>1. Packet("submit", AnyFrame, client.sid, 0) \in AnyPacket
      BY <1>a, PacketType, FrameAssumption, BoundAssumption DEF Kinds
    <3>2. Packet("submit", AnyFrame, client.sid, 0).sid = client.sid
      BY DEF Packet
    <3> QED
      BY <3>1, <3>2, <1>8 DEF ClientSubmit, Send
  <2>2. /\ client.phase = "open" /\ UNCHANGED <<client, server, shut, refused>>
        /\ server.phase \in {"open", "closed"} /\ client.sid = server.sid
    BY <1>8 DEF ClientSubmit, SessionInv
  <2>3. CASE shut
    BY <2>1, <2>2, <2>3 DEF SessionInv, SubmitsAccepted
  <2>4. CASE ~shut
    <3>1. server.phase = "open" /\ Elems(outbox') = Elems(outbox) \cup {p}
      BY <1>a, <2>1, <2>2, <2>4, PartElems DEF SessionInv
    <3> QED
      BY <2>1, <2>2, <3>1 DEF SessionInv, SubmitsAccepted
  <2> QED
    BY <2>3, <2>4
<1>9. CASE ServerResolve
  <2>1. /\ server.phase = "start" /\ outbox # <<>> /\ outbox' = Tail(outbox) /\ server'.phase = "resolved"
        /\ UNCHANGED <<client, shut, refused>>
    BY <1>9 DEF ServerResolve
  <2>2. client.phase # "start" /\ client.phase # "open" /\ Len(outbox) <= 1
    BY <2>1 DEF SessionInv
  <2>3. outbox' = <<>>
    <3>1. Tail(outbox) \in Seq(AnyPacket) /\ Len(Tail(outbox)) = Len(outbox) - 1
      BY <1>a, <2>1, HeadTailProperties
    <3>2. Len(outbox) \in Nat /\ Len(outbox') \in Nat
      BY <1>a, <2>1, <3>1, LenProperties
    <3> QED
      BY <2>1, <2>2, <3>1, <3>2, EmptySeq
  <2> QED
    BY <2>1, <2>2, <2>3 DEF SessionInv, SubmitsAccepted
<1>10. CASE ServerAck
  <2>1. /\ server.phase = "resolved" /\ server'.phase = "open" /\ server'.sid = server.sid
        /\ UNCHANGED <<outbox, client, shut, refused>>
    BY <1>10, <1>a DEF ServerAck
  <2> QED
    BY <2>1, <1>b DEF SessionInv, SubmitsAccepted
<1>11. CASE ServerClose
  <2>1. /\ server'.phase = "closed" /\ server'.sid = server.sid /\ shut' /\ outbox' = <<>>
        /\ UNCHANGED <<client, refused>>
    BY <1>11, <1>a DEF ServerClose
  <2> QED
    BY <2>1, <1>b DEF SessionInv, SubmitsAccepted
<1>12. CASE ServerReceive
  <2>1. /\ server.phase = "open" /\ outbox # <<>> /\ outbox' = Tail(outbox)
        /\ refused' = (refused \/ Head(outbox).sid # server.sid)
        /\ UNCHANGED <<client, server, shut>>
    BY <1>12 DEF ServerReceive
  <2>2. Head(outbox) \in Elems(outbox) /\ Elems(outbox') \subseteq Elems(outbox)
    BY <1>a, <2>1, PartElems
  <2>3. client.phase # "start"
    BY <2>1 DEF SessionInv
  <2> QED
    BY <2>1, <2>2, <2>3 DEF SessionInv, SubmitsAccepted
<1>14. CASE ClientExited
  <2>1. client'.phase = "closed" /\ UNCHANGED <<outbox, shut, server, refused>>
    BY <1>14, <1>a DEF ClientExited, connVars, wireVars
  <2> QED
    BY <2>1 DEF SessionInv, SubmitsAccepted
<1>13. CASE \/ ServerSend \/ ClientSendFails \/ ClientFlow \/ Router \/ UNCHANGED vars
  <2>1. UNCHANGED <<outbox, client, server, refused, shut>>
    BY <1>13 DEF Router, ServerSend, ClientSendFails, ClientFlow, RouterEnter,
         RouterStart, RouterPut, RouterFails, RouterClose, RouterStops, ReceiveBegin, ReceiveTake, ReceiveTimeout,
         vars, sessionVars, connVars, wireVars
  <2> QED
    BY <2>1, <1>3
<1> QED
  BY <1>4, <1>5, <1>6, <1>7, <1>8, <1>9, <1>10, <1>11, <1>12, <1>13, <1>14 DEF Next, Client, Server

-----------------------------------------------------------------------------
(* The flow of the results of a frame *)

\* While the router can still put something into its queues, what it has put
\* there and what is on its way to it is what the frame was sent, up to a loss at
\* the end; afterwards what it has put there is.
FlowOf(f) == IF RouterAlive THEN Landed(f) \o ResultsOf(f, Underway) ELSE Landed(f)

FlowInv == NothingLost /\ \A f \in Frames : IsPrefix(FlowOf(f), sent[f])

(* What a frame's queue holds besides sentinels. *)
LEMMA QueueShape ==
  ASSUME NEW q \in Seq(AnyPacket \cup {Sentinel})
  PROVE  /\ At(q, {i \in DOMAIN q : q[i] # Sentinel}) = Pick(q, AnyPacket)
         /\ Pick(q, AnyPacket) \in Seq(AnyPacket)
<1>1. \A i \in DOMAIN q : q[i] \in AnyPacket \cup {Sentinel}
  BY LenProperties
<1>2. Sentinel \notin AnyPacket
  BY MarkAssumption
<1>3. {i \in DOMAIN q : q[i] # Sentinel} = {i \in DOMAIN q : q[i] \in AnyPacket}
  BY <1>1, <1>2
<1>4. At(q, {i \in DOMAIN q : q[i] # Sentinel}) = Pick(q, AnyPacket)
  BY <1>3 DEF Pick
<1>5. PICK w \in Seq(AnyPacket \cup {Sentinel}) : w = Pick(q, AnyPacket) /\ Elems(w) = Elems(q) \cap AnyPacket
  BY PickShape
<1>6. PICK n \in Nat : n = Len(w) /\ w \in [1 .. n -> AnyPacket \cup {Sentinel}] /\ DOMAIN w = 1 .. n
  BY LenProperties
<1>7. \A k \in 1 .. n : w[k] \in AnyPacket
  BY <1>5, <1>6 DEF Elems
<1>8. w \in [1 .. n -> AnyPacket]
  BY <1>6, <1>7
<1>9. w \in Seq(AnyPacket)
  BY <1>8, SeqDef
<1> QED
  BY <1>4, <1>5, <1>9

(* Picking from lists of packets. *)
LEMMA PickTwo ==
  ASSUME NEW P, NEW s \in Seq(AnyPacket), NEW t \in Seq(AnyPacket)
  PROVE  Pick(s \o t, P) = Pick(s, P) \o Pick(t, P)
BY PickConcat

(* Picking from packets in three places. *)
LEMMA WayShape ==
  ASSUME NEW P, NEW h \in Seq(AnyPacket), NEW q \in Seq(AnyPacket), NEW i \in Seq(AnyPacket)
  PROVE  /\ (h \o q) \o i \in Seq(AnyPacket)
         /\ Pick((h \o q) \o i, P) = (Pick(h, P) \o Pick(q, P)) \o Pick(i, P)
<1>1. PICK x \in Seq(AnyPacket) : x = h \o q
  BY ConcatProperties
<1>2. PICK y \in Seq(AnyPacket) : y = x \o i
  BY ConcatProperties
<1>4. Pick(x \o i, P) = Pick(x, P) \o Pick(i, P)
  BY PickTwo
<1>5. Pick(h \o q, P) = Pick(h, P) \o Pick(q, P)
  BY PickTwo
<1> QED
  BY <1>1, <1>2, <1>4, <1>5

(* The results of a frame among packets in three places. *)
LEMMA UnderwayShape ==
  ASSUME NEW f \in Frames, NEW h \in Seq(AnyPacket), NEW q \in Seq(AnyPacket), NEW i \in Seq(AnyPacket)
  PROVE  ResultsOf(f, (h \o q) \o i) = (Pick(h, Results(f)) \o Pick(q, Results(f))) \o Pick(i, Results(f))
<1>1. PICK y \in Seq(AnyPacket) : y = (h \o q) \o i
  BY WayShape
<1>2. ResultsOf(f, y) = Pick(y, Results(f))
  BY ResultsPicked
<1>3. Pick((h \o q) \o i, Results(f)) = (Pick(h, Results(f)) \o Pick(q, Results(f))) \o Pick(i, Results(f))
  BY WayShape, ZenonT(30)
<1> QED
  BY <1>1, <1>2, <1>3

(* What a frame's receivers got or can get, when something is put or taken. *)
LEMMA LandedSteps ==
  ASSUME NEW d \in Seq(AnyPacket), NEW q \in Seq(AnyPacket \cup {Sentinel})
  PROVE  /\ d \o Pick(Append(q, Sentinel), AnyPacket) = d \o Pick(q, AnyPacket)
         /\ \A p \in AnyPacket : d \o Pick(Append(q, p), AnyPacket) = Append(d \o Pick(q, AnyPacket), p)
         /\ q # <<>> =>
              d \o Pick(q, AnyPacket) = IF Head(q) = Sentinel THEN d \o Pick(Tail(q), AnyPacket)
                                        ELSE Append(d, Head(q)) \o Pick(Tail(q), AnyPacket)
<1>1. Sentinel \notin AnyPacket
  BY MarkAssumption
<1>2. Pick(q, AnyPacket) \in Seq(AnyPacket)
  BY QueueShape
<1>3. d \o Pick(Append(q, Sentinel), AnyPacket) = d \o Pick(q, AnyPacket)
  <2>1. PICK x \in AnyPacket \cup {Sentinel} : x = Sentinel
    OBVIOUS
  <2>2. Pick(Append(q, x), AnyPacket) = IF x \in AnyPacket THEN Append(Pick(q, AnyPacket), x) ELSE Pick(q, AnyPacket)
    BY PickAppend, SMTT(60)
  <2> QED
    BY <1>1, <2>1, <2>2
<1>4. ASSUME NEW p \in AnyPacket
      PROVE  d \o Pick(Append(q, p), AnyPacket) = Append(d \o Pick(q, AnyPacket), p)
  <2>1. PICK x \in AnyPacket \cup {Sentinel} : x = p
    OBVIOUS
  <2>2. Pick(Append(q, x), AnyPacket) = IF x \in AnyPacket THEN Append(Pick(q, AnyPacket), x) ELSE Pick(q, AnyPacket)
    BY PickAppend
  <2>3. PICK w \in Seq(AnyPacket) : w = Pick(q, AnyPacket)
    BY <1>2
  <2>4. d \o Append(w, p) = Append(d \o w, p)
    BY ConcatAppend
  <2> QED
    BY <2>1, <2>2, <2>3, <2>4
<1>5. ASSUME q # <<>>
      PROVE  d \o Pick(q, AnyPacket) = IF Head(q) = Sentinel THEN d \o Pick(Tail(q), AnyPacket)
                                       ELSE Append(d, Head(q)) \o Pick(Tail(q), AnyPacket)
  <2>1. /\ Head(q) \in AnyPacket \cup {Sentinel} /\ Tail(q) \in Seq(AnyPacket \cup {Sentinel})
        /\ Pick(q, AnyPacket) = IF Head(q) \in AnyPacket THEN <<Head(q)>> \o Pick(Tail(q), AnyPacket)
                                ELSE Pick(Tail(q), AnyPacket)
    BY <1>5, PickHead
  <2>2. CASE Head(q) = Sentinel
    BY <1>1, <2>1, <2>2
  <2>3. CASE Head(q) # Sentinel
    <3>1. PICK h \in AnyPacket : h = Head(q)
      BY <2>1, <2>3
    <3>2. PICK w \in Seq(AnyPacket) : w = Pick(Tail(q), AnyPacket)
      BY <2>1, QueueShape
    <3>3. <<h>> \in Seq(AnyPacket)
      OBVIOUS
    <3>4. PICK u \in Seq(AnyPacket) : u = <<h>>
      BY <3>3
    <3>5. (d \o u) \o w = d \o (u \o w)
      BY ConcatAssociative
    <3>6. Append(d, h) = d \o u
      BY <3>4, AppendIsConcat
    <3> QED
      BY <2>1, <2>3, <3>1, <3>2, <3>4, <3>5, <3>6
  <2> QED
    BY <2>2, <2>3
<1> QED
  BY <1>3, <1>4, <1>5

(* The packet in the router's hand, and the one it takes next. *)
LEMMA HandSteps ==
  ASSUME NEW P, NEW q \in Seq(AnyPacket), q # <<>>, NEW h, h = <<Head(q)>>
  PROVE  /\ h \in Seq(AnyPacket) /\ Tail(q) \in Seq(AnyPacket)
         /\ Pick(h, P) \o Pick(Tail(q), P) = Pick(q, P)
<1>1. Head(q) \in AnyPacket /\ Tail(q) \in Seq(AnyPacket) /\ q = <<Head(q)>> \o Tail(q)
  BY PickHead
<1>2. PICK e \in AnyPacket, t \in Seq(AnyPacket) : e = Head(q) /\ t = Tail(q)
  BY <1>1
<1>3. <<e>> \in Seq(AnyPacket)
  OBVIOUS
<1>4. h \in Seq(AnyPacket)
  BY <1>2, <1>3
<1>5. Pick(h \o t, P) = Pick(h, P) \o Pick(t, P)
  <2>1. PICK u \in Seq(AnyPacket) : u = h
    BY <1>4
  <2>2. Pick(u \o t, P) = Pick(u, P) \o Pick(t, P)
    BY PickConcat
  <2> QED
    BY <2>1, <2>2
<1> QED
  BY <1>1, <1>2, <1>4, <1>5

(* Lists put together in two ways. *)
LEMMA Assoc ==
  ASSUME NEW E, NEW x \in Seq(E), NEW y \in Seq(E), NEW z \in Seq(E)
  PROVE  (x \o y) \o z = x \o (y \o z)
BY ConcatAssociative

(* Four lists. *)
LEMMA AssocFour ==
  ASSUME NEW E, NEW l \in Seq(E), NEW a \in Seq(E), NEW b \in Seq(E), NEW c \in Seq(E)
  PROVE  (l \o a) \o (b \o c) = l \o ((a \o b) \o c)
<1>1. (a \o b) \o c = a \o (b \o c)
  BY Assoc
<1>2. PICK x \in Seq(E) : x = b \o c
  BY ConcatProperties
<1>3. (l \o a) \o x = l \o (a \o x)
  BY Assoc, SMTT(30)
<1> QED
  BY <1>1, <1>2, <1>3

(* Four lists, two of them in the middle. *)
LEMMA AssocMiddle ==
  ASSUME NEW E, NEW a \in Seq(E), NEW b \in Seq(E), NEW d \in Seq(E), NEW c \in Seq(E)
  PROVE  (a \o (b \o d)) \o c = (a \o b) \o (d \o c)
<1>1. (a \o b) \o (d \o c) = a \o ((b \o d) \o c)
  BY AssocFour, SMTT(90)
<1>2. PICK y \in Seq(E) : y = b \o d
  BY ConcatProperties
<1>3. (a \o y) \o c = a \o (y \o c)
  BY Assoc, SMTT(30)
<1> QED
  BY <1>1, <1>2, <1>3

(* A list and more keeps its prefixes. *)
LEMMA PrefixUnder ==
  ASSUME NEW E, NEW l \in Seq(E), NEW x \in Seq(E), NEW y \in Seq(E), IsPrefix(y, x)
  PROVE  IsPrefix(l \o y, l \o x) /\ l \o x \in Seq(E) /\ l \o y \in Seq(E)
<1>1. IsPrefix(l \o y, l \o x)
  BY PrefixConcat
<1>2. l \o x \in Seq(E) /\ l \o y \in Seq(E)
  BY ConcatProperties
<1> QED
  BY <1>1, <1>2

(* Rearranging lists of four parts. *)
LEMMA FourParts ==
  ASSUME NEW E, NEW l \in Seq(E), NEW a \in Seq(E), NEW b \in Seq(E), NEW c \in Seq(E)
  PROVE  /\ l \o ((a \o b) \o c) \in Seq(E)
         /\ (l \o a) \o ((<<>> \o b) \o c) = l \o ((a \o b) \o c)
         /\ IsPrefix(l, l \o ((a \o b) \o c))
         /\ IsPrefix(l \o a, l \o ((a \o b) \o c))
<1>1. (l \o a) \o (b \o c) = l \o ((a \o b) \o c)
  BY AssocFour, SMTT(90)
<1>2. <<>> \o b = b
  BY ConcatEmptySeq
<1>3. IsPrefix(l \o a, l \o ((a \o b) \o c))
  <2>1. PICK la \in Seq(E), bc \in Seq(E) : la = l \o a /\ bc = b \o c
    BY ConcatProperties
  <2>2. IsPrefix(la, la \o bc)
    BY PrefixConcat
  <2> QED
    BY <1>1, <2>1, <2>2, Zenon
<1>4. l \o ((a \o b) \o c) \in Seq(E) /\ IsPrefix(l, l \o ((a \o b) \o c))
  <2>1. PICK ab \in Seq(E) : ab = a \o b
    BY ConcatProperties
  <2>2. PICK x \in Seq(E) : x = ab \o c
    BY ConcatProperties
  <2>3. l \o x \in Seq(E)
    BY ConcatProperties
  <2>4. IsPrefix(l, l \o x)
    BY PrefixConcat
  <2> QED
    BY <2>1, <2>2, <2>3, <2>4, Zenon
<1> QED
  BY <1>1, <1>2, <1>3, <1>4

(* What remains when the last part is cut. *)
LEMMA FourPartsCut ==
  ASSUME NEW E, NEW l \in Seq(E), NEW a \in Seq(E), NEW b \in Seq(E), NEW c \in Seq(E),
         NEW d \in Seq(E), IsPrefix(d, c)
  PROVE  IsPrefix(l \o ((a \o b) \o d), l \o ((a \o b) \o c))
<1>1. PICK ab \in Seq(E) : ab = a \o b
  BY ConcatProperties
<1>2. PICK x \in Seq(E), y \in Seq(E) : x = ab \o c /\ y = ab \o d /\ IsPrefix(y, x)
  BY PrefixUnder
<1>3. IsPrefix(l \o y, l \o x)
  BY <1>2, PrefixUnder
<1> QED
  BY <1>1, <1>2, <1>3, Zenon

\* The packet in the router's hand, and the ones the reader can still read.
Hand == IF Got("router") THEN <<call["router"].got>> ELSE <<>>
Stream == IF reader THEN inflight ELSE <<>>

(* What the flow of a frame consists of. *)
LEMMA FlowShape ==
  TypeOK =>
    /\ Hand \in Seq(AnyPacket) /\ Stream \in Seq(AnyPacket) /\ queue["result"] \in Seq(AnyPacket)
    /\ \A f \in Frames :
         /\ delivered[f] \in Seq(AnyPacket) /\ rq[f] \in Seq(AnyPacket \cup {Sentinel})
         /\ Landed(f) = delivered[f] \o Pick(rq[f], AnyPacket)
         /\ Landed(f) \in Seq(AnyPacket)
         /\ ResultsOf(f, Underway) =
              (Pick(Hand, Results(f)) \o Pick(queue["result"], Results(f))) \o Pick(Stream, Results(f))
<1> SUFFICES ASSUME TypeOK
             PROVE  /\ Hand \in Seq(AnyPacket) /\ Stream \in Seq(AnyPacket) /\ queue["result"] \in Seq(AnyPacket)
                    /\ \A f \in Frames :
                         /\ delivered[f] \in Seq(AnyPacket) /\ rq[f] \in Seq(AnyPacket \cup {Sentinel})
                         /\ Landed(f) = delivered[f] \o Pick(rq[f], AnyPacket)
                         /\ Landed(f) \in Seq(AnyPacket)
                         /\ ResultsOf(f, Underway) =
                              (Pick(Hand, Results(f)) \o Pick(queue["result"], Results(f)))
                                \o Pick(Stream, Results(f))
  OBVIOUS
<1>1. Got("router") => call["router"].got \in AnyPacket
  BY CallersAssumption DEF TypeOK, Got
<1>2. <<>> \in Seq(AnyPacket) /\ \A p \in AnyPacket : <<p>> \in Seq(AnyPacket)
  OBVIOUS
<1>3. Hand \in Seq(AnyPacket) /\ Stream \in Seq(AnyPacket) /\ queue["result"] \in Seq(AnyPacket)
  BY <1>1, <1>2 DEF Hand, Stream, TypeOK, Queues
<1>4. ASSUME NEW f \in Frames
      PROVE  /\ delivered[f] \in Seq(AnyPacket) /\ rq[f] \in Seq(AnyPacket \cup {Sentinel})
             /\ Landed(f) = delivered[f] \o Pick(rq[f], AnyPacket)
             /\ Landed(f) \in Seq(AnyPacket)
  <2>1. delivered[f] \in Seq(AnyPacket) /\ rq[f] \in Seq(AnyPacket \cup {Sentinel})
    BY DEF TypeOK
  <2>2. /\ At(rq[f], {i \in DOMAIN rq[f] : rq[f][i] # Sentinel}) = Pick(rq[f], AnyPacket)
        /\ Pick(rq[f], AnyPacket) \in Seq(AnyPacket)
    BY <2>1, QueueShape
  <2>3. Landed(f) = delivered[f] \o Pick(rq[f], AnyPacket)
    BY <2>2 DEF Landed
  <2> QED
    BY <2>1, <2>2, <2>3, ConcatProperties
<1>5. ASSUME NEW f \in Frames
      PROVE  ResultsOf(f, Underway) =
               (Pick(Hand, Results(f)) \o Pick(queue["result"], Results(f))) \o Pick(Stream, Results(f))
  <2>1. Underway = (Hand \o queue["result"]) \o Stream
    BY DEF Underway, Hand, Stream
  <2> QED
    BY <1>3, <2>1, UnderwayShape
<1> QED
  BY <1>3, <1>4, <1>5

(* Nothing is picked from nothing. *)
LEMMA PickNone == \A P : Pick(<<>>, P) = <<>>
<1> SUFFICES ASSUME NEW P PROVE Pick(<<>>, P) = <<>>
  OBVIOUS
<1>1. PICK s \in Seq({}) : s = <<>>
  BY EmptySeq
<1>2. \A i \in DOMAIN s : s[i] \notin P
  BY <1>1
<1>3. Pick(s, P) = <<>>
  BY <1>2, PickAll
<1> QED
  BY <1>1, <1>3

(* Picking from a list with one more packet, and from one packet. *)
LEMMA PickOne ==
  ASSUME NEW f \in Frames, NEW p \in AnyPacket
  PROVE  /\ Pick(<<p>>, Results(f)) = IF p \in Results(f) THEN <<p>> ELSE <<>>
         /\ \A s \in Seq(AnyPacket) :
              Pick(Append(s, p), Results(f)) = Pick(s, Results(f)) \o Pick(<<p>>, Results(f))
<1>1. PICK s \in Seq(AnyPacket) : s = <<>>
  BY EmptySeq
<1>2. Pick(Append(s, p), Results(f)) = IF p \in Results(f) THEN Append(Pick(s, Results(f)), p)
                                       ELSE Pick(s, Results(f))
  BY PickAppend
<1>3. Append(s, p) = <<p>> /\ Pick(s, Results(f)) = <<>>
  BY <1>1, PickNone
<1>4. Append(<<>>, p) = <<p>>
  OBVIOUS
<1>5. Pick(<<p>>, Results(f)) = IF p \in Results(f) THEN <<p>> ELSE <<>>
  BY <1>2, <1>3, <1>4
<1>6. ASSUME NEW t \in Seq(AnyPacket)
      PROVE  Pick(Append(t, p), Results(f)) = Pick(t, Results(f)) \o Pick(<<p>>, Results(f))
  <2>0. <<p>> \in Seq(AnyPacket)
    OBVIOUS
  <2>1. PICK u \in Seq(AnyPacket) : u = <<p>>
    BY <2>0
  <2>2. Pick(t \o u, Results(f)) = Pick(t, Results(f)) \o Pick(u, Results(f))
    BY PickTwo
  <2>3. Append(t, p) = t \o u
    BY <2>1, AppendIsConcat
  <2> QED
    BY <2>1, <2>2, <2>3
<1> QED
  BY <1>5, <1>6

\* The flow of a frame whose receivers have l, with a in the router's hand, b in
\* its queue and c in the stream.
Joined(alive, l, a, b, c) == IF alive THEN l \o ((a \o b) \o c) ELSE l

\* The results of a frame that are in the router's hand, in its queue and unread.
InHand(f)   == Pick(Hand, Results(f))
InQueue(f)  == Pick(queue["result"], Results(f))
InStream(f) == Pick(Stream, Results(f))

(* A flow is what has landed and its three parts under way. *)
LEMMA FlowParts ==
  TypeOK =>
    \A f \in Frames :
      /\ Landed(f) \in Seq(AnyPacket) /\ InHand(f) \in Seq(AnyPacket)
      /\ InQueue(f) \in Seq(AnyPacket) /\ InStream(f) \in Seq(AnyPacket)
      /\ Landed(f) = delivered[f] \o Pick(rq[f], AnyPacket)
      /\ FlowOf(f) = Joined(RouterAlive, Landed(f), InHand(f), InQueue(f), InStream(f))
<1> HAVE TypeOK
<1> TAKE f \in Frames
<1>1. /\ Landed(f) \in Seq(AnyPacket)
      /\ Landed(f) = delivered[f] \o Pick(rq[f], AnyPacket)
      /\ ResultsOf(f, Underway) =
           (Pick(Hand, Results(f)) \o Pick(queue["result"], Results(f))) \o Pick(Stream, Results(f))
  BY FlowShape, Zenon
<1>2. Hand \in Seq(AnyPacket) /\ queue["result"] \in Seq(AnyPacket) /\ Stream \in Seq(AnyPacket)
  BY FlowShape
<1>3. PICK h \in Seq(AnyPacket), q \in Seq(AnyPacket), s \in Seq(AnyPacket) :
        h = Hand /\ q = queue["result"] /\ s = Stream
  BY <1>2
<1>4. /\ Pick(h, Results(f)) \in Seq(AnyPacket) /\ Pick(q, Results(f)) \in Seq(AnyPacket)
      /\ Pick(s, Results(f)) \in Seq(AnyPacket)
  BY PickShape
<1>5. FlowOf(f) = Joined(RouterAlive, Landed(f), InHand(f), InQueue(f), InStream(f))
  BY <1>1 DEF FlowOf, Joined, InHand, InQueue, InStream
<1> QED
  BY <1>1, <1>3, <1>4, <1>5 DEF InHand, InQueue, InStream

(* The same after a step. *)
LEMMA FlowPartsNext ==
  (TypeOK =>
    \A f \in Frames :
      /\ Landed(f) \in Seq(AnyPacket) /\ InHand(f) \in Seq(AnyPacket)
      /\ InQueue(f) \in Seq(AnyPacket) /\ InStream(f) \in Seq(AnyPacket)
      /\ Landed(f) = delivered[f] \o Pick(rq[f], AnyPacket)
      /\ FlowOf(f) = Joined(RouterAlive, Landed(f), InHand(f), InQueue(f), InStream(f)))'
BY FlowParts, PTL

\* While nothing is lost for good.
Sure == ~shut /\ reader /\ RouterAlive

(* The prefixes of a flow. *)
LEMMA JoinedSame ==
  ASSUME NEW l \in Seq(AnyPacket), NEW a \in Seq(AnyPacket), NEW b \in Seq(AnyPacket),
         NEW c \in Seq(AnyPacket), NEW alive \in BOOLEAN
  PROVE  /\ Joined(alive, l, a, b, c) \in Seq(AnyPacket)
         /\ IsPrefix(Joined(alive, l, a, b, c), Joined(alive, l, a, b, c))
         /\ alive => /\ IsPrefix(l, Joined(alive, l, a, b, c))
                     /\ IsPrefix(l \o a, Joined(alive, l, a, b, c))
                     /\ Joined(alive, l \o a, <<>>, b, c) = Joined(alive, l, a, b, c)
         /\ \A d \in Seq(AnyPacket) :
              IsPrefix(d, c) => IsPrefix(Joined(alive, l, a, b, d), Joined(alive, l, a, b, c))
<1>1. /\ l \o ((a \o b) \o c) \in Seq(AnyPacket)
      /\ (l \o a) \o ((<<>> \o b) \o c) = l \o ((a \o b) \o c)
      /\ IsPrefix(l, l \o ((a \o b) \o c))
      /\ IsPrefix(l \o a, l \o ((a \o b) \o c))
  BY FourParts, SMTT(60)
<1>2. Joined(alive, l, a, b, c) \in Seq(AnyPacket)
  BY <1>1 DEF Joined
<1>3. PICK x \in Seq(AnyPacket) : x = Joined(alive, l, a, b, c)
  BY <1>2
<1>4. IsPrefix(x, x)
  BY PrefixConcat
<1>5. ASSUME alive
      PROVE  /\ IsPrefix(l, Joined(alive, l, a, b, c))
             /\ IsPrefix(l \o a, Joined(alive, l, a, b, c))
             /\ Joined(alive, l \o a, <<>>, b, c) = Joined(alive, l, a, b, c)
  BY <1>1, <1>5 DEF Joined
<1>6. ASSUME NEW d \in Seq(AnyPacket), IsPrefix(d, c)
      PROVE  IsPrefix(Joined(alive, l, a, b, d), Joined(alive, l, a, b, c))
  <2>1. CASE alive
    <3>1. IsPrefix(l \o ((a \o b) \o d), l \o ((a \o b) \o c))
      BY <1>6, FourPartsCut, SMTT(60)
    <3> QED
      BY <2>1, <3>1, Zenon DEF Joined
  <2>2. CASE ~alive
    <3>1. IsPrefix(l, l)
      BY PrefixConcat
    <3> QED
      BY <2>2, <3>1, Zenon DEF Joined
  <2> QED
    BY <2>1, <2>2
<1> QED
  BY <1>2, <1>3, <1>4, <1>5, <1>6, Zenon

(* What moves from the stream into the queue stays in the flow. *)
LEMMA JoinedMiddle ==
  ASSUME NEW alive, NEW l, NEW a \in Seq(AnyPacket), NEW b \in Seq(AnyPacket), NEW d \in Seq(AnyPacket),
         NEW e \in Seq(AnyPacket)
  PROVE  /\ Joined(alive, l, a, b \o d, e) = Joined(alive, l, a, b, d \o e)
         /\ d \o e \in Seq(AnyPacket)
<1>1. (a \o (b \o d)) \o e = (a \o b) \o (d \o e)
  BY AssocMiddle, SMTT(90)
<1>2. d \o e \in Seq(AnyPacket)
  BY ConcatProperties
<1> QED
  BY <1>1, <1>2 DEF Joined

\* What a step that sends nothing may do to a frame's flow.
Shrinks(f) ==
  /\ IsPrefix(FlowOf(f)', FlowOf(f))
  /\ Sure' => Sure /\ FlowOf(f)' = FlowOf(f)

(* What a step does to a flow follows from what it does to the parts. *)
LEMMA PartsMove ==
  ASSUME TypeOK, TypeOK', NEW f \in Frames
  PROVE  /\ /\ Landed(f)' = Landed(f) /\ InHand(f)' \o InQueue(f)' = InHand(f) \o InQueue(f)
            /\ InStream(f)' = InStream(f) /\ RouterAlive' = RouterAlive /\ (Sure' => Sure)
            => Shrinks(f)
         /\ /\ Landed(f)' = Landed(f) \/ Landed(f)' = Landed(f) \o InHand(f)
            /\ RouterAlive /\ ~RouterAlive'
            => Shrinks(f)
         /\ /\ Landed(f)' = Landed(f) \o InHand(f) /\ InHand(f)' = <<>>
            /\ InQueue(f)' = InQueue(f) /\ InStream(f)' = InStream(f)
            /\ RouterAlive /\ RouterAlive' /\ (Sure' => Sure)
            => Shrinks(f)
         /\ /\ Landed(f)' = Landed(f) /\ InHand(f)' = InHand(f) /\ InQueue(f)' = InQueue(f)
            /\ IsPrefix(InStream(f)', InStream(f)) /\ RouterAlive' = RouterAlive /\ ~Sure'
            => Shrinks(f)
         /\ \A d \in Seq(AnyPacket) :
              /\ Landed(f)' = Landed(f) /\ InHand(f)' = InHand(f) /\ InQueue(f)' = InQueue(f) \o d
              /\ IsPrefix(d \o InStream(f)', InStream(f)) /\ RouterAlive' = RouterAlive
              /\ Sure' => Sure /\ d \o InStream(f)' = InStream(f)
              => Shrinks(f)
<1>1. /\ Landed(f) \in Seq(AnyPacket) /\ InHand(f) \in Seq(AnyPacket)
      /\ InQueue(f) \in Seq(AnyPacket) /\ InStream(f) \in Seq(AnyPacket)
      /\ FlowOf(f) = Joined(RouterAlive, Landed(f), InHand(f), InQueue(f), InStream(f))
  BY FlowParts
<1>2. RouterAlive \in BOOLEAN
  BY DEF RouterAlive
<1>3. PICK alive \in BOOLEAN, l \in Seq(AnyPacket), a \in Seq(AnyPacket), b \in Seq(AnyPacket),
           c \in Seq(AnyPacket) :
        alive = RouterAlive /\ l = Landed(f) /\ a = InHand(f) /\ b = InQueue(f) /\ c = InStream(f)
  BY <1>1, <1>2
<1>4. PICK x \in Seq(AnyPacket) : x = FlowOf(f) /\ x = Joined(alive, l, a, b, c)
  <2>1. Joined(alive, l, a, b, c) \in Seq(AnyPacket)
    BY JoinedSame
  <2> QED
    BY <1>1, <1>3, <2>1
<1>5. /\ IsPrefix(x, x)
      /\ alive => IsPrefix(l, x) /\ IsPrefix(l \o a, x) /\ Joined(alive, l \o a, <<>>, b, c) = x
      /\ \A d \in Seq(AnyPacket) : IsPrefix(d, c) => IsPrefix(Joined(alive, l, a, b, d), x)
  <2>1. /\ IsPrefix(Joined(alive, l, a, b, c), Joined(alive, l, a, b, c))
        /\ alive => /\ IsPrefix(l, Joined(alive, l, a, b, c))
                    /\ IsPrefix(l \o a, Joined(alive, l, a, b, c))
                    /\ Joined(alive, l \o a, <<>>, b, c) = Joined(alive, l, a, b, c)
        /\ \A d \in Seq(AnyPacket) :
              IsPrefix(d, c) => IsPrefix(Joined(alive, l, a, b, d), Joined(alive, l, a, b, c))
    BY JoinedSame, SMTT(60)
  <2> QED
    BY <1>4, <2>1, Zenon
<1>6. \A d \in Seq(AnyPacket), e \in Seq(AnyPacket) :
        Joined(alive, l, a, b \o d, e) = Joined(alive, l, a, b, d \o e) /\ d \o e \in Seq(AnyPacket)
  BY JoinedMiddle
<1>8. /\ Landed(f)' \in Seq(AnyPacket) /\ InHand(f)' \in Seq(AnyPacket)
      /\ InQueue(f)' \in Seq(AnyPacket) /\ InStream(f)' \in Seq(AnyPacket)
      /\ FlowOf(f)' = Joined(RouterAlive', Landed(f)', InHand(f)', InQueue(f)', InStream(f)')
  BY FlowPartsNext
<1>9. PICK l2 \in Seq(AnyPacket), a2 \in Seq(AnyPacket), b2 \in Seq(AnyPacket), c2 \in Seq(AnyPacket) :
        /\ FlowOf(f)' = Joined(RouterAlive', l2, a2, b2, c2)
        /\ Landed(f)' = l2 /\ InHand(f)' = a2 /\ InQueue(f)' = b2 /\ InStream(f)' = c2
  BY <1>8
<1>10. ASSUME Landed(f)' = Landed(f), InHand(f)' \o InQueue(f)' = InHand(f) \o InQueue(f),
              InStream(f)' = InStream(f), RouterAlive' = RouterAlive, Sure' => Sure
       PROVE  Shrinks(f)
  <2>1. FlowOf(f)' = x
    BY <1>3, <1>4, <1>9, <1>10 DEF Joined
  <2> QED
    BY <1>4, <1>5, <1>10, <2>1, Zenon DEF Shrinks
<1>11. ASSUME Landed(f)' = Landed(f) \/ Landed(f)' = Landed(f) \o InHand(f), RouterAlive, ~RouterAlive'
       PROVE  Shrinks(f)
  <2>1. FlowOf(f)' = l2 /\ (l2 = l \/ l2 = l \o a)
    BY <1>3, <1>9, <1>11 DEF Joined
  <2>2. IsPrefix(l, x) /\ IsPrefix(l \o a, x)
    BY <1>3, <1>5, <1>11
  <2>3. IsPrefix(l2, x)
    BY <2>1, <2>2, Zenon
  <2>4. ~Sure'
    BY <1>11 DEF Sure
  <2> QED
    BY <1>4, <2>1, <2>3, <2>4, Zenon DEF Shrinks
<1>12. ASSUME Landed(f)' = Landed(f) \o InHand(f), InHand(f)' = <<>>, InQueue(f)' = InQueue(f),
              InStream(f)' = InStream(f), RouterAlive, RouterAlive', Sure' => Sure
       PROVE  Shrinks(f)
  <2>1. FlowOf(f)' = x
    <3>1. FlowOf(f)' = Joined(alive, l \o a, <<>>, b, c)
      BY <1>3, <1>9, <1>12 DEF Joined
    <3> QED
      BY <1>3, <1>5, <1>12, <3>1
  <2> QED
    BY <1>4, <1>5, <1>12, <2>1, Zenon DEF Shrinks
<1>13. ASSUME Landed(f)' = Landed(f), InHand(f)' = InHand(f), InQueue(f)' = InQueue(f),
              IsPrefix(InStream(f)', InStream(f)), RouterAlive' = RouterAlive, ~Sure'
       PROVE  Shrinks(f)
  <2>1. FlowOf(f)' = Joined(alive, l, a, b, c2)
    BY <1>3, <1>9, <1>13
  <2>2. IsPrefix(c2, c)
    BY <1>3, <1>9, <1>13, Zenon
  <2>3. IsPrefix(Joined(alive, l, a, b, c2), x)
    BY <1>5, <2>2
  <2> QED
    BY <1>4, <1>13, <2>1, <2>3, Zenon DEF Shrinks
<1>14. ASSUME NEW d \in Seq(AnyPacket),
              Landed(f)' = Landed(f), InHand(f)' = InHand(f), InQueue(f)' = InQueue(f) \o d,
              IsPrefix(d \o InStream(f)', InStream(f)), RouterAlive' = RouterAlive,
              Sure' => Sure /\ d \o InStream(f)' = InStream(f)
       PROVE  Shrinks(f)
  <2>1. FlowOf(f)' = Joined(alive, l, a, b, d \o c2) /\ d \o c2 \in Seq(AnyPacket)
    BY <1>3, <1>6, <1>9, <1>14
  <2>2. IsPrefix(d \o c2, c)
    BY <1>3, <1>9, <1>14, Zenon
  <2>3. IsPrefix(Joined(alive, l, a, b, d \o c2), x)
    BY <1>5, <2>1, <2>2
  <2>4. Sure' => FlowOf(f)' = x
    BY <1>3, <1>4, <1>9, <1>14, <2>1
  <2> QED
    BY <1>4, <1>14, <2>1, <2>3, <2>4, Zenon DEF Shrinks
<1> QED
  BY <1>10, <1>11, <1>12, <1>13, <1>14

(* What a part of a flow depends on. *)
LEMMA PartsKept ==
  ASSUME NEW f \in Frames
  PROVE  /\ delivered' = delivered /\ rq' = rq => Landed(f)' = Landed(f)
         /\ call'["router"] = call["router"] => InHand(f)' = InHand(f)
         /\ queue'["result"] = queue["result"] => InQueue(f)' = InQueue(f)
         /\ inflight' = inflight /\ reader' = reader => InStream(f)' = InStream(f)
         /\ ~reader' => InStream(f)' = <<>>
         /\ call'["router"].got = NoPacket => InHand(f)' = <<>>
         /\ call["router"].got = NoPacket => InHand(f) = <<>>
         /\ reader => InStream(f) = Pick(inflight, Results(f))
         /\ reader' => InStream(f)' = Pick(inflight', Results(f))
<1>1. delivered' = delivered /\ rq' = rq => Landed(f)' = Landed(f)
  BY DEF Landed
<1>2. call'["router"] = call["router"] => InHand(f)' = InHand(f)
  BY DEF InHand, Hand, Got, Waiting, Results, AnyPacket
<1>3. queue'["result"] = queue["result"] => InQueue(f)' = InQueue(f)
  BY DEF InQueue, Results
<1>4. inflight' = inflight /\ reader' = reader => InStream(f)' = InStream(f)
  BY DEF InStream, Stream, Results
<1>5. ~reader' => InStream(f)' = <<>>
  BY PickNone DEF InStream, Stream
<1>6. call'["router"].got = NoPacket => InHand(f)' = <<>>
  BY PickNone DEF InHand, Hand, Got
<1>7. call["router"].got = NoPacket => InHand(f) = <<>>
  BY PickNone DEF InHand, Hand, Got
<1>8. reader => InStream(f) = Pick(inflight, Results(f))
  BY DEF InStream, Stream
<1>9. reader' => InStream(f)' = Pick(inflight', Results(f))
  BY DEF InStream, Stream, Results
<1> QED
  BY <1>1, <1>2, <1>3, <1>4, <1>5, <1>6, <1>7, <1>8, <1>9

(* The results of a frame among what a chunk adds to the router's queue. *)
LEMMA ChunkFlow ==
  ASSUME TypeOK, TypeOK', NEW n \in 1 .. Avail, ReadChunk(n), UNCHANGED <<sessionVars, routerVars>>,
         NEW f \in Frames
  PROVE  Shrinks(f)
<1>1. PICK ps \in Seq(AnyPacket), rest \in Seq(AnyPacket), ok \in Seq(AnyPacket) :
        /\ inflight = ps \o rest /\ IsPrefix(ok, ps)
        /\ inflight' = rest /\ queue' = Sorted(ok)
        /\ reader' = (ok = ps) /\ failed' = (failed \/ ok # ps)
  BY ChunkRead
<1>2. /\ Landed(f)' = Landed(f) /\ InHand(f)' = InHand(f) /\ RouterAlive' = RouterAlive
      /\ shut' = shut /\ reader
  <2>1. UNCHANGED <<delivered, rq, call, router, shut>> /\ reader
    BY DEF ReadChunk, routerVars
  <2> QED
    BY <2>1, PartsKept DEF RouterAlive
<1>3. PICK d \in Seq(AnyPacket) : d = Pick(ok, Results(f))
  BY PickShape
<1>4. InQueue(f)' = InQueue(f) \o d
  <2> DEFINE R == {p \in AnyPacket : QueueOf(p) = "result"}
  <2>1. queue'["result"] = queue["result"] \o Pick(ok, R)
    BY <1>1, SortedType DEF Queues
  <2>2. Pick(ok, R) \in Seq(AnyPacket) /\ queue["result"] \in Seq(AnyPacket)
    BY PickShape DEF TypeOK, Queues
  <2>3. Results(f) \in SUBSET R
    BY DEF Results, QueueOf
  <2>4. Pick(Pick(ok, R), Results(f)) = d
    BY <1>3, <2>3, PickPick
  <2>5. Pick(queue["result"] \o Pick(ok, R), Results(f)) =
          Pick(queue["result"], Results(f)) \o Pick(Pick(ok, R), Results(f))
    <3>1. PICK q \in Seq(AnyPacket), r \in Seq(AnyPacket) : q = queue["result"] /\ r = Pick(ok, R)
      BY <2>2
    <3>2. Pick(q \o r, Results(f)) = Pick(q, Results(f)) \o Pick(r, Results(f))
      BY PickTwo
    <3> QED
      BY <3>1, <3>2
  <2>6. InQueue(f)' = Pick(queue'["result"], Results(f))
    BY DEF InQueue, Results
  <2> QED
    BY <2>1, <2>4, <2>5, <2>6 DEF InQueue
<1>5. PICK e \in Seq(AnyPacket), t \in Seq(AnyPacket) :
        /\ e = Pick(ps, Results(f)) /\ t = Pick(rest, Results(f))
        /\ InStream(f) = e \o t
  <2>1. Pick(ps \o rest, Results(f)) = Pick(ps, Results(f)) \o Pick(rest, Results(f))
    BY PickTwo
  <2>2. Pick(ps, Results(f)) \in Seq(AnyPacket) /\ Pick(rest, Results(f)) \in Seq(AnyPacket)
    BY PickShape
  <2>3. InStream(f) = Pick(inflight, Results(f))
    BY <1>2, PartsKept
  <2> QED
    BY <1>1, <2>1, <2>2, <2>3
<1>6. CASE ok = ps
  <2>1. InStream(f)' = t /\ d = e
    BY <1>1, <1>3, <1>5, <1>6, PartsKept
  <2>2. d \o InStream(f)' = InStream(f)
    BY <1>5, <2>1
  <2>3. IsPrefix(d \o InStream(f)', InStream(f))
    <3>1. PICK y \in Seq(AnyPacket) : y = e \o t
      BY ConcatProperties
    <3>2. IsPrefix(y, y)
      BY PrefixConcat
    <3> QED
      BY <1>5, <2>1, <3>1, <3>2, Zenon
  <2>4. Sure' => Sure
    BY <1>2 DEF Sure
  <2> QED
    BY <1>2, <1>4, <2>2, <2>3, <2>4, PartsMove
<1>7. CASE ok # ps
  <2>1. ~reader' /\ InStream(f)' = <<>>
    BY <1>1, <1>7, PartsKept
  <2>2. d \o InStream(f)' = d
    BY <2>1, ConcatEmptySeq
  <2>3. IsPrefix(d, e)
    <3>1. IsPrefix(Pick(ok, Results(f)), Pick(ps, Results(f)))
      BY <1>1, PickPrefix
    <3> QED
      BY <1>3, <1>5, <3>1, Zenon
  <2>4. IsPrefix(d, e \o t)
    BY <2>3, PrefixConcat
  <2>5. IsPrefix(d \o InStream(f)', InStream(f))
    BY <1>5, <2>2, <2>4, Zenon
  <2>6. ~Sure'
    BY <2>1 DEF Sure
  <2> QED
    BY <1>2, <1>4, <2>5, <2>6, PartsMove
<1> QED
  BY <1>6, <1>7

(* The router's task takes the first packet of its queue. *)
LEMMA TaskFlow ==
  ASSUME TypeOK, TypeOK', CallsInv, QueueTask("router"), UNCHANGED <<sessionVars, routerVars>>,
         NEW f \in Frames
  PROVE  Shrinks(f)
<1>1. /\ call["router"].q = "result" /\ call["router"].got = NoPacket
      /\ queue["result"] # <<>>
      /\ call' = [call EXCEPT !["router"].got = Head(queue["result"])]
      /\ queue' = [queue EXCEPT !["result"] = Tail(@)]
      /\ UNCHANGED <<inflight, shut, reader, router, rq, delivered>>
  <2>1. /\ call["router"].q # "none" /\ ~(call["router"].q # "none" /\ call["router"].got # NoPacket)
        /\ queue[call["router"].q] # <<>>
        /\ call' = [call EXCEPT !["router"].got = Head(queue[call["router"].q])]
        /\ queue' = [queue EXCEPT ![call["router"].q] = Tail(@)]
        /\ UNCHANGED <<inflight, shut, reader, router, rq, delivered>>
    BY DEF QueueTask, Waiting, Got, wireVars, routerVars
  <2>2. router.task = "running"
    BY <2>1 DEF CallsInv, NoCall
  <2>3. call["router"].q = "result"
    BY <2>2 DEF CallsInv
  <2> QED
    BY <2>1, <2>3
<1>2. PICK q \in Seq(AnyPacket) : q = queue["result"]
  BY DEF TypeOK, Queues
<1>3. PICK h : h = <<Head(q)>>
  OBVIOUS
<1>4. Pick(h, Results(f)) \o Pick(Tail(q), Results(f)) = Pick(q, Results(f))
  BY <1>1, <1>2, <1>3, HandSteps
<1>5. InHand(f)' = Pick(h, Results(f)) /\ InQueue(f)' = Pick(Tail(q), Results(f))
  <2>1. Head(q) \in AnyPacket
    BY <1>1, <1>2, HeadTailProperties
  <2>2. call'["router"].q = "result" /\ call'["router"].got = Head(q)
    BY <1>1, <1>2, CallersAssumption DEF TypeOK
  <2>3. Head(q) # NoPacket
    BY <2>1, MarkAssumption
  <2>4. (Hand)' = h
    BY <1>3, <2>2, <2>3 DEF Hand, Got, Waiting
  <2>5. InHand(f)' = Pick(h, Results(f))
    BY <2>4 DEF InHand, Results
  <2>6. queue'["result"] = Tail(q)
    BY <1>1, <1>2 DEF TypeOK, Queues
  <2>7. InQueue(f)' = Pick(Tail(q), Results(f))
    BY <2>6 DEF InQueue, Results
  <2> QED
    BY <2>5, <2>7
<1>6. InHand(f) \o InQueue(f) = InQueue(f) /\ InQueue(f) = Pick(q, Results(f))
  <2>1. InHand(f) = <<>> /\ InQueue(f) = Pick(q, Results(f))
    BY <1>1, <1>2, PartsKept DEF InQueue
  <2>2. InQueue(f) \in Seq(AnyPacket)
    BY FlowParts
  <2> QED
    BY <2>1, <2>2, ConcatEmptySeq
<1>7. InHand(f)' \o InQueue(f)' = InHand(f) \o InQueue(f)
  BY <1>4, <1>5, <1>6
<1>8. /\ Landed(f)' = Landed(f) /\ InStream(f)' = InStream(f) /\ RouterAlive' = RouterAlive
      /\ Sure' => Sure
  BY <1>1, PartsKept DEF RouterAlive, Sure
<1> QED
  BY <1>7, <1>8, PartsMove

(* A sentinel in a frame's queue is not among what lands there. *)
LEMMA StoppedLanded ==
  ASSUME TypeOK, NEW f \in Frames, NEW qs \in [Frames -> Seq(AnyPacket \cup {Sentinel})], NEW ks
  PROVE  delivered[f] \o Pick(Stopped(qs, ks)[f], AnyPacket) = delivered[f] \o Pick(qs[f], AnyPacket)
<1>1. delivered[f] \in Seq(AnyPacket) /\ qs[f] \in Seq(AnyPacket \cup {Sentinel})
  BY DEF TypeOK
<1>2. delivered[f] \o Pick(Append(qs[f], Sentinel), AnyPacket) = delivered[f] \o Pick(qs[f], AnyPacket)
  BY <1>1, LandedSteps
<1>3. Stopped(qs, ks)[f] = IF f \in ks THEN Append(qs[f], Sentinel) ELSE qs[f]
  BY DEF Stopped
<1> QED
  BY <1>2, <1>3

(* The router stops without or with an error. *)
LEMMA StopFlow ==
  ASSUME TypeOK, TypeOK', NEW err, RouterStops(err), RouterAlive, NEW f \in Frames
  PROVE  Shrinks(f)
<1>1. /\ router'.task = "done" /\ rq' = Stopped(rq, keys) /\ delivered' = delivered
  BY DEF RouterStops
<1>2. rq \in [Frames -> Seq(AnyPacket \cup {Sentinel})]
  BY DEF TypeOK
<1>3. ~RouterAlive'
  BY <1>1 DEF RouterAlive
<1>4. Landed(f)' = delivered[f] \o Pick(Stopped(rq, keys)[f], AnyPacket)
  BY <1>1, FlowPartsNext
<1>5. Landed(f) = delivered[f] \o Pick(rq[f], AnyPacket)
  BY FlowParts
<1>6. Landed(f)' = Landed(f)
  BY <1>2, <1>4, <1>5, StoppedLanded
<1> QED
  BY <1>3, <1>6, PartsMove

(* The router puts the packet in its hand into the queue of its frame. *)
LEMMA PutFlow ==
  ASSUME TypeOK, TypeOK', RouterPut, NEW f \in Frames
  PROVE  Shrinks(f)
<1>1. PICK p \in AnyPacket : p = call["router"].got /\ p.frame \in Frames /\ p.kind = "result"
  BY CallersAssumption DEF RouterPut, Got, AnyPacket, TypeOK
<1>2. PICK qs \in [Frames -> Seq(AnyPacket \cup {Sentinel})] :
        qs = Filed(p) /\ qs[f] = IF f = p.frame THEN Append(rq[f], p) ELSE rq[f]
  <2>1. PICK x \in AnyPacket \cup {Sentinel}, g \in Frames : x = p /\ g = p.frame
    BY <1>1
  <2>2. PICK s \in [Frames -> Seq(AnyPacket \cup {Sentinel})] : s = rq
    BY DEF TypeOK
  <2>3. /\ [s EXCEPT ![g] = Append(@, x)] \in [Frames -> Seq(AnyPacket \cup {Sentinel})]
        /\ [s EXCEPT ![g] = Append(@, x)][f] = IF f = g THEN Append(s[f], x) ELSE s[f]
    OBVIOUS
  <2> QED
    BY <2>1, <2>2, <2>3 DEF Filed
<1>3. /\ Got("router") /\ router.task = "running" /\ delivered' = delivered
      /\ \/ router'.task = "done" /\ rq' = Stopped(qs, keys')
         \/ router' = router /\ rq' = qs /\ call' = [call EXCEPT !["router"] = Receive("result")]
      /\ UNCHANGED <<inflight, shut, reader, queue>>
  BY <1>1, <1>2 DEF RouterPut, wireVars
<1>4. InHand(f) = IF f = p.frame THEN <<p>> ELSE <<>>
  <2>1. Hand = <<p>>
    BY <1>1, <1>3 DEF Hand
  <2>2. Pick(<<p>>, Results(f)) = IF p \in Results(f) THEN <<p>> ELSE <<>>
    BY PickOne
  <2>3. p \in Results(f) <=> f = p.frame
    BY <1>1 DEF Results
  <2> QED
    BY <2>1, <2>2, <2>3 DEF InHand
<1>5. delivered[f] \o Pick(qs[f], AnyPacket) = Landed(f) \o InHand(f)
  <2>1. Landed(f) = delivered[f] \o Pick(rq[f], AnyPacket) /\ Landed(f) \in Seq(AnyPacket)
    BY FlowParts
  <2>2. delivered[f] \in Seq(AnyPacket) /\ rq[f] \in Seq(AnyPacket \cup {Sentinel})
    BY DEF TypeOK
  <2>3. CASE f = p.frame
    <3>1. delivered[f] \o Pick(Append(rq[f], p), AnyPacket) = Append(Landed(f), p)
      BY <2>1, <2>2, LandedSteps
    <3>2. Append(Landed(f), p) = Landed(f) \o <<p>>
      BY <2>1, AppendIsConcat
    <3> QED
      BY <1>2, <1>4, <2>3, <3>1, <3>2
  <2>4. CASE f # p.frame
    <3>1. Landed(f) \o <<>> = Landed(f)
      BY <2>1, ConcatEmptySeq
    <3> QED
      BY <1>2, <1>4, <2>1, <2>4, <3>1
  <2> QED
    BY <2>3, <2>4
<1>6. Landed(f)' = Landed(f) \o InHand(f)
  <2>1. Landed(f)' = delivered[f] \o Pick(rq'[f], AnyPacket)
    BY <1>3, FlowPartsNext
  <2>2. delivered[f] \o Pick(Stopped(qs, keys')[f], AnyPacket) = delivered[f] \o Pick(qs[f], AnyPacket)
    BY StoppedLanded
  <2> QED
    BY <1>3, <1>5, <2>1, <2>2
<1>7. RouterAlive
  BY <1>3 DEF RouterAlive
<1>8. CASE router'.task = "done"
  BY <1>6, <1>7, <1>8, PartsMove DEF RouterAlive
<1>9. CASE router' = router /\ call' = [call EXCEPT !["router"] = Receive("result")]
  <2>1. call'["router"].got = NoPacket
    BY <1>9, CallersAssumption DEF Receive, TypeOK
  <2>2. InHand(f)' = <<>> /\ InQueue(f)' = InQueue(f) /\ InStream(f)' = InStream(f)
    BY <1>3, <2>1, PartsKept
  <2>3. RouterAlive' /\ (Sure' => Sure)
    BY <1>3, <1>7, <1>9 DEF RouterAlive, Sure
  <2> QED
    BY <1>6, <1>7, <2>2, <2>3, PartsMove
<1> QED
  BY <1>3, <1>8, <1>9

(* A receiver takes what is first in its queue. *)
LEMMA TakeFlow ==
  ASSUME TypeOK, TypeOK', NEW r \in Receivers, Take(r), NEW f \in Frames
  PROVE  Landed(f)' = Landed(f)
<1>1. PICK g \in Frames : /\ g = FrameFor[r] /\ rq[g] # <<>>
                          /\ rq' = [rq EXCEPT ![g] = Tail(@)]
                          /\ delivered' = IF Head(rq[g]) = Sentinel THEN delivered
                                          ELSE [delivered EXCEPT ![g] = Append(@, Head(rq[g]))]
  BY FrameAssumption DEF Take
<1>2. Landed(f) = delivered[f] \o Pick(rq[f], AnyPacket)
  BY FlowParts
<1>3. Landed(f)' = delivered'[f] \o Pick(rq'[f], AnyPacket)
  BY FlowPartsNext
<1>4. delivered[f] \in Seq(AnyPacket) /\ rq[f] \in Seq(AnyPacket \cup {Sentinel})
  BY DEF TypeOK
<1>5. CASE f = g
  <2>1. delivered[f] \o Pick(rq[f], AnyPacket) =
          IF Head(rq[f]) = Sentinel THEN delivered[f] \o Pick(Tail(rq[f]), AnyPacket)
          ELSE Append(delivered[f], Head(rq[f])) \o Pick(Tail(rq[f]), AnyPacket)
    BY <1>1, <1>4, <1>5, LandedSteps
  <2>2. /\ rq'[f] = Tail(rq[f])
        /\ delivered'[f] = IF Head(rq[f]) = Sentinel THEN delivered[f] ELSE Append(delivered[f], Head(rq[f]))
    BY <1>1, <1>5 DEF TypeOK
  <2> QED
    BY <1>2, <1>3, <2>1, <2>2
<1>6. CASE f # g
  BY <1>1, <1>2, <1>3, <1>6 DEF TypeOK
<1> QED
  BY <1>5, <1>6

(* Without a send nothing new is under way, and what is lost is lost at the end. *)
LEMMA FlowMoves ==
  ASSUME TypeOK, TypeOK', CallsInv, [Next]_vars, ~ServerSend, NEW f \in Frames
  PROVE  sent' = sent /\ Shrinks(f)
<1>a. "router" \in Callers /\ "connector" \in Callers /\ call \in [Callers -> Calls]
      /\ Callers = {"connector", "router"}
  BY CallersAssumption DEF TypeOK, Calls
<1>1. ASSUME UNCHANGED <<delivered, rq>>, call'["router"] = call["router"],
             queue'["result"] = queue["result"], inflight' = inflight, reader' = reader,
             shut => shut', RouterAlive' = RouterAlive
      PROVE  Shrinks(f)
  <2>1. /\ Landed(f)' = Landed(f) /\ InHand(f)' = InHand(f) /\ InQueue(f)' = InQueue(f)
        /\ InStream(f)' = InStream(f)
    BY <1>1, PartsKept
  <2>2. Sure' => Sure
    BY <1>1 DEF Sure
  <2> QED
    BY <1>1, <2>1, <2>2, PartsMove
<1>2. ASSUME UNCHANGED <<delivered, rq, call, queue, router>>, ~Sure',
             IsPrefix(InStream(f)', InStream(f))
      PROVE  Shrinks(f)
  <2>1. /\ Landed(f)' = Landed(f) /\ InHand(f)' = InHand(f) /\ InQueue(f)' = InQueue(f)
        /\ RouterAlive' = RouterAlive
    BY <1>2, PartsKept DEF RouterAlive
  <2> QED
    BY <1>2, <2>1, PartsMove
<1>3. ASSUME ReadEnd \/ ReadIdle, UNCHANGED <<sessionVars, routerVars>>
      PROVE  sent' = sent /\ Shrinks(f)
  <2>1. UNCHANGED <<delivered, rq, call, queue, router, sent>> /\ ~reader'
    BY <1>3 DEF ReadEnd, ReadIdle, sessionVars, routerVars
  <2>2. InStream(f)' = <<>> /\ ~Sure' /\ InStream(f) \in Seq(AnyPacket)
    BY <2>1, PartsKept, FlowParts DEF Sure
  <2>3. IsPrefix(InStream(f)', InStream(f))
    <3>1. PICK e \in Seq(AnyPacket), s \in Seq(AnyPacket) : e = <<>> /\ s = InStream(f)
      BY <2>2, EmptySeq
    <3>2. e \o s = s
      BY <3>1, ConcatEmptySeq
    <3>3. IsPrefix(e, e \o s)
      BY PrefixConcat
    <3> QED
      BY <2>2, <3>1, <3>2, <3>3, Zenon
  <2> QED
    BY <1>2, <2>1, <2>2, <2>3
<1>4. ASSUME NEW n \in half .. (half + Avail), shut', inflight' = Cut(inflight, n) \/ inflight' = inflight,
             reader' = reader
      PROVE  IsPrefix(InStream(f)', InStream(f)) /\ ~Sure'
  <2>1. InStream(f) \in Seq(AnyPacket) /\ InStream(f)' \in Seq(AnyPacket)
    BY FlowParts, FlowPartsNext
  <2>2. ASSUME InStream(f)' = InStream(f) PROVE IsPrefix(InStream(f)', InStream(f))
    <3>1. PICK s \in Seq(AnyPacket) : s = InStream(f)
      BY <2>1
    <3>2. IsPrefix(s, s)
      BY PrefixConcat
    <3> QED
      BY <2>2, <3>1, <3>2, Zenon
  <2>3. CASE reader /\ inflight' = Cut(inflight, n)
    <3>1. InStream(f)' = Pick(Cut(inflight, n), Results(f)) /\ InStream(f) = Pick(inflight, Results(f))
      BY <1>4, <2>3, PartsKept
    <3>2. IsPrefix(Pick(Cut(inflight, n), Results(f)), Pick(inflight, Results(f)))
      BY CutTyped
    <3>3. IsPrefix(InStream(f)', InStream(f))
      BY <3>1, <3>2, Zenon
    <3> QED
      BY <1>4, <3>3 DEF Sure
  <2>4. CASE ~reader \/ inflight' = inflight
    <3>1. InStream(f)' = InStream(f)
      BY <1>4, <2>4, PartsKept DEF InStream, Stream
    <3> QED
      BY <1>4, <2>2, <3>1 DEF Sure
  <2> QED
    BY <1>4, <2>3, <2>4
<1>5. ASSUME NetworkCut, UNCHANGED <<sessionVars, routerVars>>
      PROVE  sent' = sent /\ Shrinks(f)
  <2>1. /\ UNCHANGED <<delivered, rq, call, queue, router, sent, reader>> /\ shut'
        /\ \E n \in half .. (half + Avail) : inflight' = Cut(inflight, n)
    BY <1>5 DEF NetworkCut, innerVars, sessionVars, routerVars
  <2> QED
    BY <1>2, <1>4, <2>1
<1>6. ASSUME ClientExit PROVE sent' = sent /\ Shrinks(f)
  <2>1. /\ UNCHANGED <<delivered, rq, queue, router, sent, reader>> /\ shut'
        /\ \E n \in half .. (half + Avail) : inflight' = Cut(inflight, n) \/ inflight' = inflight
        /\ call' = [call EXCEPT !["connector"] = NoCall]
    BY <1>6 DEF ClientExit, CloseWriter, routerVars
  <2>2. /\ Landed(f)' = Landed(f) /\ InHand(f)' = InHand(f) /\ InQueue(f)' = InQueue(f)
        /\ RouterAlive' = RouterAlive
    BY <1>a, <2>1, PartsKept DEF RouterAlive
  <2>3. IsPrefix(InStream(f)', InStream(f)) /\ ~Sure'
    BY <1>4, <2>1
  <2> QED
    BY <2>1, <2>2, <2>3, PartsMove
<1>7. ASSUME QueueTask("connector"), UNCHANGED <<sessionVars, routerVars>>
      PROVE  sent' = sent /\ Shrinks(f)
  <2>1. /\ UNCHANGED <<delivered, rq, inflight, shut, reader, router, sent>>
        /\ \E q \in Queues \ {"result"} : queue' = [queue EXCEPT ![q] = Tail(@)]
    BY <1>7, <1>a DEF QueueTask, Waiting, CallsInv, wireVars, sessionVars, routerVars, Queues
  <2>2. call'["router"] = call["router"]
    BY <1>7, <1>a DEF QueueTask
  <2>3. queue'["result"] = queue["result"]
    BY <2>1 DEF TypeOK, Queues
  <2>4. RouterAlive' = RouterAlive
    BY <2>1 DEF RouterAlive
  <2> QED
    BY <1>1, <2>1, <2>2, <2>3, <2>4
<1>8. ASSUME ClientHello \/ ClientAck \/ ClientFlow PROVE sent' = sent /\ Shrinks(f)
  <2>1. /\ UNCHANGED <<delivered, rq, inflight, shut, reader, router, sent, queue>>
        /\ \E c : call' = [call EXCEPT !["connector"] = c]
    BY <1>8 DEF ClientHello, ClientAck, ClientFlow, wireVars, sessionVars, routerVars
  <2>2. call'["router"] = call["router"] /\ RouterAlive' = RouterAlive
    BY <1>a, <2>1 DEF RouterAlive
  <2> QED
    BY <1>1, <2>1, <2>2
<1>9. ASSUME \/ ClientSubmit \/ ClientSendFails \/ ClientExited
             \/ ServerResolve \/ ServerClose \/ ServerReceive
      PROVE  sent' = sent /\ Shrinks(f)
  <2>1. /\ UNCHANGED <<delivered, rq, inflight, reader, router, sent, queue, call>>
        /\ shut => shut'
    BY <1>9 DEF ClientSubmit, ClientSendFails, ClientExited, ServerResolve, ServerClose, ServerReceive, SendFails,
                connVars, wireVars, innerVars, sessionVars, routerVars
  <2>2. RouterAlive' = RouterAlive
    BY <2>1 DEF RouterAlive
  <2> QED
    BY <1>1, <2>1, <2>2
<1>10. ASSUME ServerAck PROVE sent' = sent /\ Shrinks(f)
  <2>1. /\ UNCHANGED <<delivered, rq, reader, router, sent, queue, call, shut>>
        /\ inflight' = IF shut THEN inflight ELSE Append(inflight, Packet("ack", AnyFrame, server.sid, 0))
    BY <1>10 DEF ServerAck, PeerSend, innerVars, routerVars
  <2>2. PICK p \in AnyPacket : p = Packet("ack", AnyFrame, server.sid, 0) /\ p.kind = "ack"
    <3>1. server.sid \in SessionIds
      BY DEF TypeOK
    <3>2. Packet("ack", AnyFrame, server.sid, 0) \in AnyPacket
      BY <3>1, PacketType, BoundAssumption, FrameAssumption DEF Kinds
    <3> QED
      BY <3>2 DEF Packet
  <2>3. Pick(Append(inflight, p), Results(f)) = Pick(inflight, Results(f))
    <3>1. PICK s \in Seq(AnyPacket) : s = inflight
      BY DEF TypeOK
    <3>2. p \notin Results(f)
      BY <2>2 DEF Results
    <3>3. Pick(Append(s, p), Results(f)) = Pick(s, Results(f))
      BY <3>2, PickAppend
    <3> QED
      BY <3>1, <3>3
  <2>4. InStream(f)' = InStream(f)
    BY <2>1, <2>2, <2>3, PartsKept DEF InStream, Stream
  <2>5. /\ Landed(f)' = Landed(f) /\ InHand(f)' = InHand(f) /\ InQueue(f)' = InQueue(f)
        /\ RouterAlive' = RouterAlive /\ (Sure' => Sure)
    BY <2>1, PartsKept DEF RouterAlive, Sure
  <2> QED
    BY <2>1, <2>4, <2>5, PartsMove
<1>11. ASSUME RouterEnter PROVE sent' = sent /\ Shrinks(f)
  <2>1. /\ UNCHANGED <<delivered, rq, inflight, reader, sent, queue, call, shut>>
        /\ router' = [router EXCEPT !.task = "created"] /\ router.task = "none"
    BY <1>11 DEF RouterEnter, connVars, wireVars, innerVars, sessionVars
  <2>2. RouterAlive' = RouterAlive
    BY <2>1 DEF RouterAlive, TypeOK
  <2> QED
    BY <1>1, <2>1, <2>2
<1>12. ASSUME NEW err \in BOOLEAN, RouterStops(err), router.task \in {"created", "running"}
       PROVE  sent' = sent /\ Shrinks(f)
  <2>1. sent' = sent /\ RouterAlive
    BY <1>12 DEF RouterStops, sessionVars, RouterAlive
  <2> QED
    BY <1>12, <2>1, StopFlow
<1>13. ASSUME RouterStart PROVE sent' = sent /\ Shrinks(f)
  <2>1. CASE RouterStops(TRUE)
    BY <1>12, <1>13, <2>1 DEF RouterStart
  <2>2. CASE ~RouterStops(TRUE)
    <3>1. /\ UNCHANGED <<delivered, rq, inflight, reader, sent, queue, shut>>
          /\ router' = [router EXCEPT !.task = "running"] /\ router.task = "created"
          /\ call' = [call EXCEPT !["router"] = Receive("result")]
      BY <1>13, <2>2 DEF RouterStart, wireVars, sessionVars
    <3>2. RouterAlive' = RouterAlive /\ (Sure' => Sure)
      BY <3>1 DEF RouterAlive, TypeOK, Sure
    <3>3. call["router"].got = NoPacket /\ call'["router"].got = NoPacket
      BY <1>a, <3>1 DEF CallsInv, NoCall, Receive
    <3>4. /\ InHand(f)' = InHand(f) /\ Landed(f)' = Landed(f) /\ InQueue(f)' = InQueue(f)
          /\ InStream(f)' = InStream(f)
      BY <3>1, <3>3, PartsKept
    <3> QED
      BY <3>1, <3>2, <3>4, PartsMove
  <2> QED
    BY <2>1, <2>2
<1>14. ASSUME RouterPut PROVE sent' = sent /\ Shrinks(f)
  BY <1>14, PutFlow DEF RouterPut, sessionVars
<1>15. ASSUME RouterFails PROVE sent' = sent /\ Shrinks(f)
  BY <1>12, <1>15 DEF RouterFails
<1>16. ASSUME RouterClose PROVE sent' = sent /\ Shrinks(f)
  <2>1. CASE router.task = "running"
    BY <1>12, <1>16, <2>1 DEF RouterClose
  <2>2. CASE router.task # "running"
    <3>1. /\ UNCHANGED <<delivered, rq, sent>> /\ router.task \in {"none", "created"}
          /\ router' = [router EXCEPT !.task = "dropped", !.closed = router.task = "none"]
      BY <1>16, <2>2 DEF RouterClose, sessionVars
    <3>2. RouterAlive /\ ~RouterAlive'
      BY <3>1 DEF RouterAlive, TypeOK
    <3>3. Landed(f)' = Landed(f)
      BY <3>1, PartsKept
    <3> QED
      BY <3>1, <3>2, <3>3, PartsMove
  <2> QED
    BY <2>1, <2>2
<1>17. ASSUME NEW r \in Receivers, ReceiveBegin(r) \/ ReceiveTake(r) \/ ReceiveTimeout(r)
       PROVE  sent' = sent /\ Shrinks(f)
  <2>1. /\ UNCHANGED <<inflight, reader, sent, queue, shut, call, router>>
        /\ Take(r) \/ UNCHANGED <<delivered, rq>>
    BY <1>17 DEF ReceiveBegin, ReceiveTake, ReceiveTimeout, connVars, wireVars, innerVars, sessionVars
  <2>2. Landed(f)' = Landed(f)
    BY <2>1, TakeFlow, PartsKept
  <2>3. /\ InHand(f)' = InHand(f) /\ InQueue(f)' = InQueue(f) /\ InStream(f)' = InStream(f)
        /\ RouterAlive' = RouterAlive /\ (Sure' => Sure)
    BY <2>1, PartsKept DEF RouterAlive, Sure
  <2> QED
    BY <2>1, <2>2, <2>3, PartsMove
<1>18. ASSUME UNCHANGED vars PROVE sent' = sent /\ Shrinks(f)
  <2>1. /\ UNCHANGED <<delivered, rq, inflight, reader, sent, queue, call, shut, router>>
    BY <1>18 DEF vars, connVars, wireVars, innerVars, sessionVars, routerVars
  <2>2. RouterAlive' = RouterAlive
    BY <2>1 DEF RouterAlive
  <2> QED
    BY <1>1, <2>1, <2>2
<1>19. ASSUME NEW n \in 1 .. Avail, ReadChunk(n), UNCHANGED <<sessionVars, routerVars>>
       PROVE  sent' = sent /\ Shrinks(f)
  BY <1>19, ChunkFlow DEF sessionVars
<1>20. ASSUME QueueTask("router"), UNCHANGED <<sessionVars, routerVars>>
       PROVE  sent' = sent /\ Shrinks(f)
  BY <1>20, TaskFlow DEF sessionVars
<1>21. ASSUME Network PROVE sent' = sent /\ Shrinks(f)
  BY <1>a, <1>3, <1>5, <1>7, <1>19, <1>20, <1>21 DEF Network
<1> QED
  BY <1>6, <1>8, <1>9, <1>10, <1>11, <1>13, <1>14, <1>15, <1>16, <1>17, <1>18, <1>21
     DEF Next, Client, Server, Router

(* Four lists, one of them at the end. *)
LEMMA AssocEnd ==
  ASSUME NEW l \in Seq(AnyPacket), NEW u \in Seq(AnyPacket), NEW c \in Seq(AnyPacket), NEW x \in Seq(AnyPacket)
  PROVE  l \o (u \o (c \o x)) = (l \o (u \o c)) \o x
<1>1. (l \o (u \o c)) \o x = (l \o u) \o (c \o x)
  BY AssocMiddle, SMTT(90)
<1>2. PICK y \in Seq(AnyPacket) : y = c \o x
  BY ConcatProperties
<1>3. (l \o u) \o y = l \o (u \o y)
  BY Assoc, SMTT(90)
<1> QED
  BY <1>1, <1>2, <1>3

(* More in the stream is more in the flow. *)
LEMMA FlowMore ==
  ASSUME TypeOK, NEW f \in Frames, NEW y \in Seq(AnyPacket)
  PROVE  Joined(TRUE, Landed(f), InHand(f), InQueue(f), InStream(f) \o y) =
           Joined(TRUE, Landed(f), InHand(f), InQueue(f), InStream(f)) \o y
<1>1. /\ Landed(f) \in Seq(AnyPacket) /\ InStream(f) \in Seq(AnyPacket)
      /\ InHand(f) \in Seq(AnyPacket) /\ InQueue(f) \in Seq(AnyPacket)
  BY FlowParts
<1>2. InHand(f) \o InQueue(f) \in Seq(AnyPacket)
  BY <1>1, ConcatProperties
<1>3. PICK l \in Seq(AnyPacket), u \in Seq(AnyPacket), c \in Seq(AnyPacket) :
        l = Landed(f) /\ u = InHand(f) \o InQueue(f) /\ c = InStream(f)
  BY <1>1, <1>2
<1>4. l \o (u \o (c \o y)) = (l \o (u \o c)) \o y
  BY AssocEnd, SMTT(60)
<1> QED
  BY <1>3, <1>4 DEF Joined

(* Nothing is lost as long as nothing can be. *)
LEMMA SureFlow == NothingLost <=> (Sure => \A f \in Frames : FlowOf(f) = sent[f])
BY DEF NothingLost, Sure, FlowOf

(* The same after a step. *)
LEMMA SureFlowNext == (NothingLost <=> (Sure => \A f \in Frames : FlowOf(f) = sent[f]))'
BY SureFlow, PTL

(* What the server sends is under way while the connection is up. *)
LEMMA FlowSend ==
  ASSUME TypeOK, TypeOK', FlowInv, ServerSend
  PROVE  FlowInv'
<1> SUFFICES ASSUME NEW f \in Frames
             PROVE  IsPrefix(FlowOf(f)', sent'[f]) /\ (Sure' => FlowOf(f)' = sent'[f])
  BY SureFlowNext DEF FlowInv
<1>1. PICK p \in AnyPacket :
        /\ p.frame \in Frames /\ PeerSend(p)
        /\ sent' = IF shut \/ p.kind # "result" THEN sent ELSE [sent EXCEPT ![p.frame] = Append(@, p)]
  BY SentPacket
<1>2. /\ UNCHANGED <<delivered, rq, reader, router, queue, call, shut>>
      /\ inflight' = IF shut THEN inflight ELSE Append(inflight, p)
  BY <1>1 DEF ServerSend, PeerSend, innerVars, routerVars
<1>3. /\ Landed(f)' = Landed(f) /\ InHand(f)' = InHand(f) /\ InQueue(f)' = InQueue(f)
      /\ RouterAlive' = RouterAlive /\ Sure' = Sure
  BY <1>2, PartsKept DEF RouterAlive, Sure
<1>4. FlowOf(f)' = Joined(RouterAlive, Landed(f), InHand(f), InQueue(f), InStream(f)')
  BY <1>3, FlowPartsNext
<1>5. PICK l \in Seq(AnyPacket), a \in Seq(AnyPacket), b \in Seq(AnyPacket), c \in Seq(AnyPacket) :
        l = Landed(f) /\ a = InHand(f) /\ b = InQueue(f) /\ c = InStream(f)
  BY FlowParts
<1>0. \A y \in Seq(AnyPacket) : Joined(TRUE, l, a, b, c \o y) = Joined(TRUE, l, a, b, c) \o y
  BY <1>5, FlowMore
<1>6. FlowOf(f) = Joined(RouterAlive, l, a, b, c)
  BY <1>5, FlowParts
<1>7. IsPrefix(FlowOf(f), sent[f]) /\ (Sure => FlowOf(f) = sent[f])
  BY SureFlow DEF FlowInv
<1>8. PICK t \in Seq(AnyPacket), w \in Seq(AnyPacket) : t = sent[f] /\ w = FlowOf(f)
  <2>1. Joined(RouterAlive, l, a, b, c) \in Seq(AnyPacket)
    <3>0. RouterAlive \in BOOLEAN
      BY DEF RouterAlive
    <3>1. PICK alive \in BOOLEAN : alive = RouterAlive
      BY <3>0
    <3>2. Joined(alive, l, a, b, c) \in Seq(AnyPacket)
      BY JoinedSame
    <3> QED
      BY <3>1, <3>2
  <2> QED
    BY <1>6, <2>1 DEF TypeOK
<1>9. CASE shut
  <2>1. sent' = sent /\ InStream(f)' = InStream(f)
    BY <1>1, <1>2, <1>9, PartsKept
  <2>2. FlowOf(f)' = FlowOf(f)
    BY <1>4, <1>5, <1>6, <2>1
  <2>3. IsPrefix(FlowOf(f)', sent'[f])
    BY <1>7, <2>1, <2>2, Zenon
  <2> QED
    BY <1>2, <1>9, <2>3 DEF Sure
<1>10. CASE ~shut
  <2>1. PICK x \in Seq(AnyPacket) : x = Pick(<<p>>, Results(f))
    <3>1. PICK u \in Seq(AnyPacket) : u = <<p>>
      <4>1. <<p>> \in Seq(AnyPacket)
        OBVIOUS
      <4> QED
        BY <4>1
    <3>2. Pick(u, Results(f)) \in Seq(AnyPacket)
      BY PickShape
    <3> QED
      BY <3>1, <3>2
  <2>2. sent'[f] = t \o x
    <3>1. x = IF p \in Results(f) THEN <<p>> ELSE <<>>
      BY <2>1, PickOne
    <3>2. p \in Results(f) <=> p.kind = "result" /\ p.frame = f
      BY DEF Results
    <3>3. t \o <<>> = t /\ Append(t, p) = t \o <<p>>
      BY ConcatEmptySeq, AppendIsConcat
    <3>4. sent'[f] = IF p.kind = "result" /\ p.frame = f THEN Append(t, p) ELSE t
      BY <1>1, <1>8, <1>10 DEF TypeOK
    <3> QED
      BY <3>1, <3>2, <3>3, <3>4
  <2>3. IsPrefix(w, t \o x)
    <3>1. IsPrefix(w, t)
      BY <1>7, <1>8, Zenon
    <3> QED
      BY <3>1, PrefixConcat, SMTT(60)
  <2>4. CASE ~reader \/ ~RouterAlive
    <3>1. FlowOf(f)' = w
      <4>1. CASE ~reader
        <5>1. InStream(f)' = InStream(f)
          BY <1>2, <4>1, PickNone DEF InStream, Stream
        <5> QED
          BY <1>4, <1>5, <1>6, <1>8, <5>1
      <4>2. CASE ~RouterAlive
        BY <1>4, <1>5, <1>6, <1>8, <4>2 DEF Joined
      <4> QED
        BY <2>4, <4>1, <4>2
    <3>2. ~Sure'
      BY <1>3, <2>4 DEF Sure
    <3>3. IsPrefix(FlowOf(f)', sent'[f])
      BY <2>2, <2>3, <3>1, Zenon
    <3> QED
      BY <3>2, <3>3
  <2>5. CASE reader /\ RouterAlive
    <3>1. InStream(f)' = c \o x
      <4>1. PICK s \in Seq(AnyPacket) : s = inflight
        BY DEF TypeOK
      <4>2. Pick(Append(s, p), Results(f)) = Pick(s, Results(f)) \o Pick(<<p>>, Results(f))
        BY PickOne
      <4>3. InStream(f)' = Pick(inflight', Results(f)) /\ c = Pick(inflight, Results(f))
        BY <1>2, <1>5, <2>5, PartsKept
      <4> QED
        BY <1>2, <1>10, <2>1, <4>1, <4>2, <4>3
    <3>2. Joined(TRUE, l, a, b, c \o x) = Joined(TRUE, l, a, b, c) \o x
      BY <1>0
    <3>3. FlowOf(f)' = w \o x
      BY <1>4, <1>5, <1>6, <1>8, <2>5, <3>1, <3>2 DEF Joined
    <3>4. w = t
      BY <1>7, <1>8, <1>10, <2>5 DEF Sure
    <3>5. FlowOf(f)' = sent'[f]
      BY <2>2, <3>3, <3>4
    <3>6. IsPrefix(FlowOf(f)', sent'[f])
      <4>1. PICK y \in Seq(AnyPacket) : y = w \o x
        BY ConcatProperties
      <4>2. IsPrefix(y, y)
        BY PrefixConcat
      <4> QED
        BY <3>3, <3>5, <4>1, <4>2, Zenon
    <3> QED
      BY <3>5, <3>6
  <2> QED
    BY <2>4, <2>5
<1> QED
  BY <1>9, <1>10

(* A prefix of a prefix. *)
LEMMA PrefixTrans ==
  ASSUME NEW E, NEW s \in Seq(E), NEW t \in Seq(E), NEW u \in Seq(E), IsPrefix(s, t), IsPrefix(t, u)
  PROVE  IsPrefix(s, u)
<1>1. PICK v \in Seq(E) : u = t \o v
  BY PrefixRest
<1>2. IsPrefix(s, t \o v)
  BY PrefixConcat
<1> QED
  BY <1>1, <1>2, Zenon

(* A flow is a list, and what has landed its beginning. *)
LEMMA FlowTyped ==
  TypeOK => \A f \in Frames : FlowOf(f) \in Seq(AnyPacket) /\ IsPrefix(Landed(f), FlowOf(f))
<1> HAVE TypeOK
<1> TAKE f \in Frames
<1>1. /\ Landed(f) \in Seq(AnyPacket) /\ InHand(f) \in Seq(AnyPacket)
      /\ InQueue(f) \in Seq(AnyPacket) /\ InStream(f) \in Seq(AnyPacket)
      /\ FlowOf(f) = Joined(RouterAlive, Landed(f), InHand(f), InQueue(f), InStream(f))
  BY FlowParts
<1>2. RouterAlive \in BOOLEAN
  BY DEF RouterAlive
<1>3. PICK alive \in BOOLEAN, l \in Seq(AnyPacket), a \in Seq(AnyPacket), b \in Seq(AnyPacket),
           c \in Seq(AnyPacket) :
        alive = RouterAlive /\ l = Landed(f) /\ a = InHand(f) /\ b = InQueue(f) /\ c = InStream(f)
  BY <1>1, <1>2
<1>4. Joined(alive, l, a, b, c) \in Seq(AnyPacket) /\ (alive => IsPrefix(l, Joined(alive, l, a, b, c)))
  BY JoinedSame, SMTT(60)
<1>5. IsPrefix(l, l)
  BY PrefixConcat
<1>6. ~alive => Joined(alive, l, a, b, c) = l
  BY DEF Joined
<1>7. IsPrefix(l, Joined(alive, l, a, b, c))
  BY <1>4, <1>5, <1>6, Zenon
<1> QED
  BY <1>1, <1>3, <1>4, <1>7, Zenon

(* The same after a step. *)
LEMMA FlowTypedNext ==
  (TypeOK => \A f \in Frames : FlowOf(f) \in Seq(AnyPacket) /\ IsPrefix(Landed(f), FlowOf(f)))'
BY FlowTyped, PTL

(* Every step keeps the flows. *)
LEMMA FlowStep == TypeOK /\ TypeOK' /\ CallsInv /\ FlowInv /\ [Next]_vars => FlowInv'
<1> SUFFICES ASSUME TypeOK, TypeOK', CallsInv, FlowInv, [Next]_vars PROVE FlowInv'
  OBVIOUS
<1>1. CASE ServerSend
  BY <1>1, FlowSend
<1>2. CASE ~ServerSend
  <2> SUFFICES ASSUME NEW f \in Frames
               PROVE  IsPrefix(FlowOf(f)', sent'[f]) /\ (Sure' => FlowOf(f)' = sent'[f])
    BY SureFlowNext DEF FlowInv
  <2>1. sent' = sent /\ Shrinks(f)
    BY <1>2, FlowMoves
  <2>2. IsPrefix(FlowOf(f), sent[f]) /\ (Sure => FlowOf(f) = sent[f])
    BY SureFlow DEF FlowInv
  <2>3. FlowOf(f) \in Seq(AnyPacket) /\ FlowOf(f)' \in Seq(AnyPacket) /\ sent[f] \in Seq(AnyPacket)
    BY FlowTyped, FlowTypedNext DEF TypeOK
  <2>4. PICK x \in Seq(AnyPacket), y \in Seq(AnyPacket), z \in Seq(AnyPacket) :
          x = FlowOf(f)' /\ y = FlowOf(f) /\ z = sent[f]
    BY <2>3
  <2>5. IsPrefix(x, y) /\ IsPrefix(y, z)
    BY <2>1, <2>2, <2>4, Zenon DEF Shrinks
  <2>6. IsPrefix(x, z)
    BY <2>5, PrefixTrans
  <2>7. Sure' => FlowOf(f)' = sent'[f]
    BY <2>1, <2>2 DEF Shrinks
  <2> QED
    BY <2>1, <2>4, <2>6, <2>7, Zenon
<1> QED
  BY <1>1, <1>2

-----------------------------------------------------------------------------
(* The inductive invariant and what follows from it *)

\* The types of the state, who waits for what, the flow of every frame, and the
\* ids that the acks and the submits carry.
IInv == TypeOK /\ CallsInv /\ FlowInv /\ AcksInv /\ SessionInv /\ SubmitsAccepted

(* The inductive invariant holds at first. *)
LEMMA InitIInv == Init => IInv
<1> SUFFICES ASSUME Init PROVE IInv
  OBVIOUS
<1>1. TypeOK
  BY InitTypes
<1>2. CallsInv
  BY CallersAssumption DEF Init, ConnInit, CallsInv, NoCall
<1>3. /\ inflight = <<>>
      /\ \A q \in Queues : queue[q] = <<>>
      /\ \A t \in Callers : call[t] = NoCall
  BY DEF Init, ConnInit
<1>4. AcksInv
  <2>1. Elems(inflight) = {} /\ (\A q \in Queues : Elems(queue[q]) = {})
    BY <1>3 DEF Elems
  <2>2. {call[t].got : t \in Callers} \ {NoPacket} = {}
    <3>1. \A t \in Callers : call[t].got = NoPacket
      BY <1>3 DEF NoCall
    <3> QED
      BY <3>1
  <2> QED
    BY <2>1, <2>2 DEF AcksInv, Held
<1>5. SessionInv
  BY DEF Init, ConnInit, SessionInv
<1>6. SubmitsAccepted
  BY DEF Init, SubmitsAccepted
<1>7. FlowInv
  <2> SUFFICES ASSUME NEW f \in Frames
               PROVE  IsPrefix(FlowOf(f), sent[f]) /\ FlowOf(f) = sent[f]
    BY SureFlow DEF FlowInv
  <2>0. <<>> \o <<>> = <<>>
    <3>1. PICK e \in Seq(AnyPacket) : e = <<>>
      BY EmptySeq
    <3> QED
      BY <3>1, ConcatEmptySeq
  <2>1. delivered[f] = <<>> /\ rq[f] = <<>> /\ sent[f] = <<>>
    BY DEF Init
  <2>2. Landed(f) = <<>>
    <3>1. Landed(f) = delivered[f] \o Pick(rq[f], AnyPacket)
      BY <1>1, FlowParts
    <3>2. Pick(<<>>, AnyPacket) = <<>>
      BY PickNone
    <3> QED
      BY <2>0, <2>1, <3>1, <3>2
  <2>3. InHand(f) = <<>> /\ InQueue(f) = <<>> /\ InStream(f) = <<>>
    BY <1>3, CallersAssumption, PickNone DEF InHand, InQueue, InStream, Hand, Stream, Got, Waiting, NoCall, Queues
  <2>4. FlowOf(f) = <<>>
    <3>1. FlowOf(f) = Joined(RouterAlive, Landed(f), InHand(f), InQueue(f), InStream(f))
      BY <1>1, FlowParts
    <3> QED
      BY <2>0, <2>2, <2>3, <3>1 DEF Joined
  <2>5. PICK e \in Seq(AnyPacket) : e = <<>>
    BY EmptySeq
  <2>6. IsPrefix(e, e)
    BY PrefixConcat
  <2> QED
    BY <2>1, <2>4, <2>5, <2>6, Zenon
<1> QED
  BY <1>1, <1>2, <1>4, <1>5, <1>6, <1>7 DEF IInv

(* Every step keeps it. *)
LEMMA IInvStep == IInv /\ [Next]_vars => IInv'
BY TypeStep, CallsStep, FlowStep, SessionStep DEF IInv

(* What has landed is a prefix of the flow. *)
LEMMA LandedFirst == TypeOK /\ FlowInv => \A f \in Frames : IsPrefix(Landed(f), sent[f])
<1> SUFFICES ASSUME TypeOK, FlowInv, NEW f \in Frames PROVE IsPrefix(Landed(f), sent[f])
  OBVIOUS
<1>1. PICK l \in Seq(AnyPacket), x \in Seq(AnyPacket), t \in Seq(AnyPacket) :
        l = Landed(f) /\ x = FlowOf(f) /\ t = sent[f]
  BY FlowParts, FlowTyped DEF TypeOK
<1>2. IsPrefix(x, t)
  BY <1>1, Zenon DEF FlowInv
<1>3. IsPrefix(l, x)
  BY <1>1, FlowTyped, Zenon
<1>4. IsPrefix(l, t)
  BY <1>2, <1>3, PrefixTrans
<1> QED
  BY <1>1, <1>4, Zenon

(* It holds in every state. *)
LEMMA Invariance == Spec => []IInv
<1>1. Init => IInv
  BY InitIInv
<1>2. IInv /\ [Next]_vars => IInv'
  BY IInvStep
<1> QED
  BY <1>1, <1>2, PTL DEF Spec

(* The results a frame's receivers got or can still get are the first ones the
   server sent for it, whatever the chunks, the failures and the timeouts: _read_packets,
   _receive_from_queue and ResultRouter._run skip, repeat and reorder none.  While the
   connection and the router last, the others are on their way. *)
THEOREM ResultsInOrderHolds == Spec => []ResultsInOrder
<1>1. IInv => ResultsInOrder
  BY LandedFirst DEF IInv, FlowInv, ResultsInOrder
<1> QED
  BY <1>1, Invariance, PTL

(* ServerSession.receive_submit refuses no submit of a client whose session id came
   from the ack of accept_server_connection. *)
THEOREM SubmitsAcceptedHolds == Spec => []SubmitsAccepted
<1>1. IInv => SubmitsAccepted
  BY DEF IInv
<1> QED
  BY <1>1, Invariance, PTL

(* Only a receiver changes what was delivered. *)
LEMMA DeliveredSteps ==
  ASSUME [Next]_vars, delivered' # delivered
  PROVE  ~ServerSend /\ \E r \in Receivers : Take(r)
<1>1. ServerSend => delivered' = delivered
  BY DEF ServerSend, routerVars
<1>2. Network \/ UNCHANGED vars => delivered' = delivered
  BY DEF Network, vars, routerVars
<1>3. Client => delivered' = delivered
  BY DEF Client, ClientHello, ClientAck, ClientExit, ClientExited, ClientSendFails, ClientFlow, ClientSubmit, routerVars
<1>4. Server => delivered' = delivered
  BY <1>1 DEF Server, ServerResolve, ServerAck, ServerClose, ServerReceive, routerVars
<1>5. RouterEnter \/ RouterStart \/ RouterPut \/ RouterFails \/ RouterClose => delivered' = delivered
  BY DEF RouterEnter, RouterStart, RouterPut, RouterFails, RouterClose, RouterStops
<1>6. PICK r \in Receivers : ReceiveBegin(r) \/ ReceiveTake(r) \/ ReceiveTimeout(r)
  BY <1>2, <1>3, <1>4, <1>5 DEF Next, Router
<1>7. Take(r)
  BY <1>6 DEF ReceiveBegin, ReceiveTake, ReceiveTimeout
<1> QED
  BY <1>1, <1>7

(* What a receiver takes is the next of what was sent for its frame. *)
LEMMA TakesNext ==
  ASSUME TypeOK, FlowInv, NEW r \in Receivers, Take(r), delivered' # delivered
  PROVE  \E f \in Frames :
           /\ Len(delivered[f]) < Len(sent[f])
           /\ delivered' = [delivered EXCEPT ![f] = Append(@, sent[f][Len(@) + 1])]
<1>1. PICK f \in Frames : /\ rq[f] # <<>> /\ Head(rq[f]) # Sentinel
                          /\ delivered' = [delivered EXCEPT ![f] = Append(@, Head(rq[f]))]
  BY FrameAssumption DEF Take
<1>2. delivered[f] \in Seq(AnyPacket) /\ rq[f] \in Seq(AnyPacket \cup {Sentinel}) /\ sent[f] \in Seq(AnyPacket)
  BY DEF TypeOK
<1>3. PICK d \in Seq(AnyPacket), t \in Seq(AnyPacket) : d = delivered[f] /\ t = sent[f]
  BY <1>2
<1>4. PICK h \in AnyPacket, q \in Seq(AnyPacket \cup {Sentinel}) : h = Head(rq[f]) /\ q = Tail(rq[f])
  <2>1. /\ Head(rq[f]) \in AnyPacket \cup {Sentinel}
        /\ Tail(rq[f]) \in Seq(AnyPacket \cup {Sentinel})
    BY <1>1, <1>2, HeadTailProperties
  <2>2. Head(rq[f]) \in AnyPacket
    BY <1>1, <2>1
  <2> QED
    BY <2>1, <2>2
<1>5. d \o Pick(rq[f], AnyPacket) = Append(d, h) \o Pick(q, AnyPacket)
  BY <1>1, <1>2, <1>3, <1>4, LandedSteps
<1>6. PICK w \in Seq(AnyPacket) : w = Pick(q, AnyPacket)
  BY QueueShape
<1>7. PICK e \in Seq(AnyPacket) : e = Append(d, h)
  BY AppendProperties
<1>8. IsPrefix(e \o w, t)
  <2>1. Landed(f) = e \o w
    BY <1>3, <1>5, <1>6, <1>7, FlowParts
  <2>2. IsPrefix(Landed(f), sent[f])
    BY LandedFirst
  <2> QED
    BY <1>3, <2>1, <2>2, Zenon
<1>9. IsPrefix(e, t)
  BY <1>8, PrefixConcat
<1>10. PICK u \in Seq(AnyPacket) : t = e \o u
  BY <1>9, PrefixRest
<1>11. Len(d) < Len(t) /\ t[Len(d) + 1] = h
  <2>1. Len(e) = Len(d) + 1 /\ e[Len(d) + 1] = h /\ Len(d) \in Nat
    BY <1>7, AppendProperties, LenProperties
  <2>2. Len(e \o u) = Len(e) + Len(u) /\ Len(u) \in Nat
    BY ConcatProperties, LenProperties
  <2>3. \A i \in 1 .. Len(e) : (e \o u)[i] = e[i]
    BY ConcatProperties
  <2> QED
    BY <1>10, <2>1, <2>2, <2>3
<1> QED
  BY <1>1, <1>3, <1>4, <1>11

(* What ResultRouter.receive returns for a frame is, call by call, the next of the
   results sent for it: the connection, the router and its queues implement
   OrderedDelivery. *)
THEOREM DeliveryKeptHolds == Spec => DeliveryKept
<1>1. Init => Delivery!Init
  BY DEF Init, Delivery!Init
<1>2. IInv /\ [Next]_vars => [Delivery!Next]_<<sent, delivered>>
  <2> SUFFICES ASSUME IInv, [Next]_vars PROVE [Delivery!Next]_<<sent, delivered>>
    OBVIOUS
  <2>1. TypeOK /\ TypeOK' /\ CallsInv /\ FlowInv
    BY IInvStep DEF IInv
  <2>2. CASE ServerSend
    <3>1. delivered' = delivered
      BY <2>2 DEF ServerSend, routerVars
    <3>2. PICK p \in AnyPacket :
            /\ p.frame \in Frames
            /\ sent' = IF shut \/ p.kind # "result" THEN sent ELSE [sent EXCEPT ![p.frame] = Append(@, p)]
      BY <2>1, <2>2, SentPacket
    <3>3. CASE sent' = sent
      BY <3>1, <3>3
    <3>4. CASE p.kind = "result" /\ sent' = [sent EXCEPT ![p.frame] = Append(@, p)]
      <4>1. Delivery!Produce(p.frame, p)
        BY <3>1, <3>4 DEF Delivery!Produce
      <4>2. p \in {x \in AnyPacket : x.kind = "result"}
        BY <3>4
      <4> QED
        BY <3>2, <4>1, <4>2 DEF Delivery!Next
    <3> QED
      BY <3>2, <3>3, <3>4
  <2>3. CASE ~ServerSend /\ delivered' # delivered
    <3>1. PICK r \in Receivers : Take(r)
      BY <2>3, DeliveredSteps
    <3>2. PICK f \in Frames :
            /\ Len(delivered[f]) < Len(sent[f])
            /\ delivered' = [delivered EXCEPT ![f] = Append(@, sent[f][Len(@) + 1])]
      BY <2>1, <2>3, <3>1, TakesNext
    <3>3. sent' = sent
      BY <2>1, <2>3, <3>2, FlowMoves
    <3>4. Delivery!Consume(f)
      BY <3>2, <3>3 DEF Delivery!Consume
    <3> QED
      BY <3>4 DEF Delivery!Next
  <2>4. CASE ~ServerSend /\ delivered' = delivered
    <3>1. sent' = sent
      BY <2>1, <2>4, FrameAssumption, FlowMoves
    <3> QED
      BY <2>4, <3>1
  <2> QED
    BY <2>2, <2>3, <2>4
<1> QED
  BY <1>1, <1>2, Invariance, PTL DEF Spec, DeliveryKept, Delivery!Spec

-----------------------------------------------------------------------------
(* The ordered result buffer                                               *)

\* Every packet has an entry in the heap, and is the newest of its frame.
EntryKept == \A f \in Stored : heap[f] > 0

NewestStored ==
  \A f \in Stored : /\ byFrame[f] \in DOMAIN added /\ added[byFrame[f]] = f
                    /\ \A n \in DOMAIN added : added[n] = f => n <= byFrame[f]

AddedOnce == \A i \in DOMAIN out : out[i] \in DOMAIN added

\* A task is started for a wait only where wait_for makes one.
StartedByWaitFor == \A t \in Waiters : wait[t].phase = "starting" => wait[t].timed /\ Wraps

WaitersInv == NobodyWaitsInVain /\ StartedByWaitFor

BufferIInv ==
  /\ BufferTypeOK /\ ~skipped /\ HandedOutOnce /\ WaitersInv
  /\ EntryKept /\ NewestStored /\ AddedOnce /\ Len(added) <= MaxAdds

(* It holds at first. *)
LEMMA BufferInitIInv == BufferInit => BufferIInv
<1> SUFFICES ASSUME BufferInit PROVE BufferIInv
  OBVIOUS
<1>1. Stored = {} /\ DOMAIN added = {} /\ DOMAIN out = {} /\ Len(added) = 0
  BY DEF BufferInit, Stored
<1>2. BufferTypeOK
  <2>0. 0 \in 0 .. MaxAdds /\ 0 \in Nat
    BY MaxAddsAssumption
  <2>1. heap \in [BufferedFrames -> Nat] /\ byFrame \in [BufferedFrames -> 0 .. MaxAdds]
    BY <2>0 DEF BufferInit
  <2>4. skipped \in BOOLEAN
    BY DEF BufferInit
  <2>2. added \in Seq(BufferedFrames) /\ out \in Seq(1 .. MaxAdds)
    BY EmptySeq DEF BufferInit
  <2>3. wait \in [Waiters -> [phase : {"idle", "starting", "waiting", "woken"},
                            wants : BufferedFrames \cup {NextFrame}, timed : BOOLEAN]]
    BY DEF BufferInit, NotWaiting
  <2> QED
    BY <2>1, <2>2, <2>3, <2>4 DEF BufferTypeOK
<1>3. ~skipped /\ HandedOutOnce /\ WaitersInv
  BY <1>1 DEF BufferInit, NotWaiting, HandedOutOnce, WaitersInv, NobodyWaitsInVain, StartedByWaitFor
<1> QED
  BY <1>1, <1>2, <1>3, MaxAddsAssumption DEF BufferIInv, EntryKept, NewestStored, AddedOnce

(* What is handed out is the newest of its frame and was not handed out before. *)
LEMMA HandOutKeeps ==
  ASSUME BufferIInv, NEW m \in Stored, HandOut(m), added' = added
  PROVE  /\ byFrame' \in [BufferedFrames -> 0 .. MaxAdds] /\ out' \in Seq(1 .. MaxAdds)
         /\ Stored' = Stored \ {m} /\ \A f \in Stored' : byFrame'[f] = byFrame[f]
         /\ HandedOutOnce' /\ NewestStored' /\ AddedOnce'
<1> DEFINE n == byFrame[m]
<1>1. /\ n \in 1 .. MaxAdds /\ n \in DOMAIN added /\ added[n] = m
      /\ \A k \in DOMAIN added : added[k] = m => k <= n
  BY DEF BufferIInv, BufferTypeOK, NewestStored, Stored
<1>2. /\ out \in Seq(1 .. MaxAdds) /\ byFrame \in [BufferedFrames -> 0 .. MaxAdds]
      /\ added \in Seq(BufferedFrames) /\ m \in BufferedFrames
  BY DEF BufferIInv, BufferTypeOK, Stored
<1>3. byFrame' = [byFrame EXCEPT ![m] = 0] /\ out' = Append(out, n)
  BY DEF HandOut
<1> HIDE DEF n
<1>4. /\ out' \in Seq(1 .. MaxAdds) /\ Len(out') = Len(out) + 1 /\ Len(out) \in Nat
      /\ DOMAIN out = 1 .. Len(out) /\ DOMAIN out' = 1 .. (Len(out) + 1)
      /\ out'[Len(out) + 1] = n /\ \A i \in 1 .. Len(out) : out'[i] = out[i]
  BY <1>1, <1>2, <1>3, AppendProperties, LenProperties
<1>5. /\ byFrame' \in [BufferedFrames -> 0 .. MaxAdds]
      /\ byFrame'[m] = 0 /\ \A f \in BufferedFrames \ {m} : byFrame'[f] = byFrame[f]
  BY <1>2, <1>3, MaxAddsAssumption
<1>6. Stored' = Stored \ {m} /\ \A f \in Stored' : byFrame'[f] = byFrame[f]
  BY <1>2, <1>5 DEF Stored
<1>7. DOMAIN added \subseteq Nat /\ \A k \in DOMAIN added : added[k] \in BufferedFrames
  BY <1>2, LenProperties, ElementOfSeq
<1>8. NewestStored'
  BY <1>6 DEF BufferIInv, NewestStored
<1>9. AddedOnce'
  BY <1>1, <1>4 DEF BufferIInv, AddedOnce
<1>10. \A k \in DOMAIN added :
         \/ \E i \in DOMAIN out' : out'[i] = k
         \/ byFrame'[added[k]] = k
         \/ \E l \in DOMAIN added : l > k /\ added[l] = added[k]
  <2> SUFFICES ASSUME NEW k \in DOMAIN added
               PROVE  \/ \E i \in DOMAIN out' : out'[i] = k
                      \/ byFrame'[added[k]] = k
                      \/ \E l \in DOMAIN added : l > k /\ added[l] = added[k]
    OBVIOUS
  <2>1. \/ \E i \in DOMAIN out : out[i] = k
        \/ byFrame[added[k]] = k
        \/ \E l \in DOMAIN added : l > k /\ added[l] = added[k]
    BY DEF BufferIInv, HandedOutOnce
  <2>2. CASE \E i \in DOMAIN out : out[i] = k
    BY <1>4, <2>2
  <2>3. CASE byFrame[added[k]] = k /\ added[k] = m
    <3>1. k = n
      BY <2>3 DEF n
    <3> QED
      BY <1>4, <3>1
  <2>4. CASE byFrame[added[k]] = k /\ added[k] # m
    BY <1>5, <1>7, <2>4
  <2> QED
    BY <2>1, <2>2, <2>3, <2>4
<1>11. \A i \in DOMAIN out : out[i] \in DOMAIN added /\ (added[out[i]] = m => out[i] < n)
  <2>1. n # 0
    BY <1>1
  <2> QED
    BY <2>1 DEF BufferIInv, HandedOutOnce, AddedOnce, n
<1>12. \A i, j \in DOMAIN out' : i < j /\ added[out'[i]] = added[out'[j]] => out'[i] < out'[j]
  <2> SUFFICES ASSUME NEW i \in DOMAIN out', NEW j \in DOMAIN out', i < j, added[out'[i]] = added[out'[j]]
               PROVE  out'[i] < out'[j]
    OBVIOUS
  <2>1. i \in 1 .. Len(out) /\ out'[i] = out[i]
    BY <1>4
  <2>2. CASE j = Len(out) + 1
    BY <1>1, <1>4, <1>11, <2>1, <2>2
  <2>3. CASE j # Len(out) + 1
    <3>1. j \in DOMAIN out /\ out'[j] = out[j]
      BY <1>4, <2>3
    <3> QED
      BY <1>4, <2>1, <3>1 DEF BufferIInv, HandedOutOnce
  <2> QED
    BY <2>2, <2>3
<1>13. \A i \in DOMAIN out' : byFrame'[added[out'[i]]] # 0 => out'[i] < byFrame'[added[out'[i]]]
  <2> SUFFICES ASSUME NEW i \in DOMAIN out', byFrame'[added[out'[i]]] # 0
               PROVE  out'[i] < byFrame'[added[out'[i]]]
    OBVIOUS
  <2>1. added[out'[i]] # m
    BY <1>5
  <2>2. i \in DOMAIN out /\ out'[i] = out[i]
    BY <1>1, <1>4, <2>1
  <2>3. added[out[i]] \in BufferedFrames \ {m}
    BY <1>7, <1>11, <2>1, <2>2
  <2> QED
    BY <1>5, <2>2, <2>3 DEF BufferIInv, HandedOutOnce
<1> QED
  BY <1>4, <1>5, <1>6, <1>8, <1>9, <1>10, <1>12, <1>13 DEF HandedOutOnce

(* The steps that find nothing, and those that drop stale entries, keep what is stored. *)
LEMMA LiveIsStored == EntryKept => Live = Stored
BY DEF EntryKept, Live, Stored

(* What a call of pop_next or pop_frame, or a turn of a coroutine, does to the contents. *)
ContentsKept ==
  /\ heap' \in [BufferedFrames -> Nat] /\ byFrame' \in [BufferedFrames -> 0 .. MaxAdds]
  /\ out' \in Seq(1 .. MaxAdds) /\ skipped' = FALSE
  /\ Stored' \subseteq Stored
  /\ HandedOutOnce' /\ NewestStored' /\ AddedOnce' /\ EntryKept'

LEMMA SameContents ==
  ASSUME BufferIInv, UNCHANGED <<byFrame, out, added>>
  PROVE  /\ Stored' = Stored /\ HandedOutOnce' /\ NewestStored' /\ AddedOnce'
         /\ byFrame' \in [BufferedFrames -> 0 .. MaxAdds] /\ out' \in Seq(1 .. MaxAdds)
BY DEF BufferIInv, BufferTypeOK, Stored, HandedOutOnce, NewestStored, AddedOnce

LEMMA TakeNextKeeps ==
  ASSUME BufferIInv, added' = added, NEW m \in Live, TakeNext(m)
  PROVE  ContentsKept
<1>1. Live = Stored /\ m \in Stored /\ m \in BufferedFrames
  BY LiveIsStored DEF BufferIInv, Stored
<1>2. /\ byFrame' \in [BufferedFrames -> 0 .. MaxAdds] /\ out' \in Seq(1 .. MaxAdds)
      /\ Stored' = Stored \ {m} /\ HandedOutOnce' /\ NewestStored' /\ AddedOnce'
  BY <1>1, HandOutKeeps DEF TakeNext
<1>3. heap \in [BufferedFrames -> Nat] /\ heap[m] \in Nat /\ heap[m] > 0 /\ BufferedFrames \subseteq Nat
  BY <1>1, BufferedFramesAssumption DEF BufferIInv, BufferTypeOK, EntryKept
<1>4. heap' = [[f \in BufferedFrames |-> IF f < m THEN 0 ELSE heap[f]] EXCEPT ![m] = @ - 1]
  BY DEF TakeNext, Without
<1>5. /\ heap' \in [BufferedFrames -> Nat]
      /\ \A f \in BufferedFrames \ {m} : heap'[f] = IF f < m THEN 0 ELSE heap[f]
  BY <1>1, <1>3, <1>4
<1>6. \A f \in Stored : m <= f
  BY <1>1 DEF TakeNext, IsFirst
<1>7. skipped' = FALSE
  <2>1. \A f \in Stored : ~(f < m)
    BY <1>1, <1>3, <1>6 DEF Stored
  <2> QED
    BY <2>1 DEF TakeNext, BufferIInv
<1>8. EntryKept'
  <2> SUFFICES ASSUME NEW f \in Stored \ {m} PROVE heap'[f] > 0
    BY <1>2 DEF EntryKept
  <2>1. f \in BufferedFrames \ {m} /\ ~(f < m) /\ heap[f] > 0
    BY <1>1, <1>3, <1>6 DEF Stored, BufferIInv, EntryKept
  <2> QED
    BY <1>5, <2>1
<1> QED
  BY <1>2, <1>5, <1>7, <1>8 DEF ContentsKept

LEMMA TakeFrameKeeps ==
  ASSUME BufferIInv, added' = added, NEW m \in BufferedFrames, TakeFrame(m)
  PROVE  ContentsKept
<1>1. m \in Stored /\ heap' = heap /\ skipped' = skipped
  BY DEF TakeFrame
<1>2. /\ byFrame' \in [BufferedFrames -> 0 .. MaxAdds] /\ out' \in Seq(1 .. MaxAdds)
      /\ Stored' = Stored \ {m} /\ HandedOutOnce' /\ NewestStored' /\ AddedOnce'
  BY <1>1, HandOutKeeps DEF TakeFrame
<1>3. EntryKept' /\ heap' \in [BufferedFrames -> Nat] /\ skipped' = FALSE
  BY <1>1, <1>2 DEF EntryKept, BufferIInv, BufferTypeOK
<1> QED
  BY <1>2, <1>3 DEF ContentsKept

(* The entries before the front are stale. *)
LEMMA WithoutKeeps ==
  ASSUME BufferIInv, NEW m \in Live, IsFirst(m)
  PROVE  /\ Without(m) \in [BufferedFrames -> Nat]
         /\ \A f \in Stored : Without(m)[f] > 0
<1>1. Live = Stored /\ m \in Stored /\ m \in BufferedFrames /\ heap \in [BufferedFrames -> Nat]
  BY LiveIsStored DEF BufferIInv, Stored, BufferTypeOK
<1>2. \A f \in Stored : f \in BufferedFrames /\ ~(f < m) /\ heap[f] > 0
  <2> SUFFICES ASSUME NEW f \in Stored PROVE f \in BufferedFrames /\ ~(f < m) /\ heap[f] > 0
    OBVIOUS
  <2>1. f \in BufferedFrames
    BY DEF Stored
  <2>2. m <= f
    BY <1>1 DEF IsFirst
  <2>3. heap[f] > 0
    BY DEF BufferIInv, EntryKept
  <2> QED
    BY <1>1, <2>1, <2>2, <2>3, BufferedFramesAssumption
<1> QED
  BY <1>1, <1>2 DEF Without

LEMMA FindNoneKeeps ==
  ASSUME BufferIInv, added' = added, FindNone
  PROVE  ContentsKept /\ Stored = {} /\ Stored' = {}
<1>1. Stored = {} /\ skipped' = FALSE
  BY LiveIsStored DEF BufferIInv, FindNone
<1>2. /\ Stored' = Stored /\ HandedOutOnce' /\ NewestStored' /\ AddedOnce'
      /\ byFrame' \in [BufferedFrames -> 0 .. MaxAdds] /\ out' \in Seq(1 .. MaxAdds)
  BY SameContents DEF FindNone
<1>3. heap' \in [BufferedFrames -> Nat] /\ EntryKept'
  BY <1>1, <1>2 DEF FindNone, EntryKept
<1> QED
  BY <1>1, <1>2, <1>3 DEF ContentsKept

LEMMA FindOtherKeeps ==
  ASSUME BufferIInv, added' = added, NEW expected \in BufferedFrames, FindOther(expected)
  PROVE  ContentsKept
<1>1. PICK m \in Live \ {expected} : IsFirst(m) /\ heap' = Without(m)
  BY DEF FindOther
<1>2. /\ Stored' = Stored /\ HandedOutOnce' /\ NewestStored' /\ AddedOnce'
      /\ byFrame' \in [BufferedFrames -> 0 .. MaxAdds] /\ out' \in Seq(1 .. MaxAdds)
  BY SameContents DEF FindOther
<1>3. heap' \in [BufferedFrames -> Nat] /\ EntryKept'
  BY <1>1, <1>2, WithoutKeeps DEF EntryKept
<1>4. skipped' = FALSE
  <2>1. Live = Stored /\ m \in BufferedFrames /\ BufferedFrames \subseteq Nat
    BY <1>1, LiveIsStored, BufferedFramesAssumption DEF BufferIInv, Live, Stored
  <2>2. ~(expected \in Stored /\ \A f \in Stored : expected <= f)
    <3> SUFFICES ASSUME expected \in Stored, \A f \in Stored : expected <= f PROVE FALSE
      OBVIOUS
    <3>1. m <= expected /\ expected <= m
      BY <1>1, <2>1 DEF IsFirst
    <3> QED
      BY <1>1, <2>1, <3>1
  <2> QED
    BY <2>2 DEF FindOther, BufferIInv
<1> QED
  BY <1>2, <1>3, <1>4 DEF ContentsKept

Phases == {"idle", "starting", "waiting", "woken"}
Waits == [phase : Phases, wants : BufferedFrames \cup {NextFrame}, timed : BOOLEAN]

(* A step without an add. *)
LEMMA NoAddKeeps ==
  ASSUME BufferIInv, ContentsKept, added' = added, wait' \in [Waiters -> Waits], WaitersInv'
  PROVE  BufferIInv'
<1>1. BufferTypeOK'
  BY DEF BufferIInv, BufferTypeOK, ContentsKept, Waits, Phases
<1> QED
  BY <1>1 DEF BufferIInv, ContentsKept

LEMMA SameWaits ==
  ASSUME BufferIInv, wait' = wait, Stored' \subseteq Stored
  PROVE  wait' \in [Waiters -> Waits] /\ WaitersInv'
<1>1. wait' \in [Waiters -> Waits]
  BY DEF BufferIInv, BufferTypeOK, Waits, Phases
<1>2. WaitersInv'
  BY DEF BufferIInv, WaitersInv, NobodyWaitsInVain, StartedByWaitFor, Wants
<1> QED
  BY <1>1, <1>2

(* A coroutine that is no longer, or not yet, waiting. *)
LEMMA OneWait ==
  ASSUME BufferIInv, Stored' \subseteq Stored, NEW t \in Waiters, NEW w \in Waits,
         wait' = [wait EXCEPT ![t] = w],
         w.phase = "waiting" =>
           (w.timed /\ Wraps) \/ \A f \in Stored' : w.wants \notin {f, NextFrame},
         w.phase = "starting" => w.timed /\ Wraps
  PROVE  wait' \in [Waiters -> Waits] /\ WaitersInv'
<1>1. wait \in [Waiters -> Waits]
  BY DEF BufferIInv, BufferTypeOK, Waits, Phases
<1>2. wait' \in [Waiters -> Waits] /\ wait'[t] = w /\ \A u \in Waiters \ {t} : wait'[u] = wait[u]
  BY <1>1
<1>3. NobodyWaitsInVain'
  <2> SUFFICES ASSUME NEW u \in Waiters, NEW f \in Stored', wait'[u].phase = "waiting",
                      wait'[u].wants \in {f, NextFrame}
               PROVE  wait'[u].timed /\ Wraps
    BY DEF NobodyWaitsInVain, Wants
  <2>1. CASE u = t
    BY <1>2, <2>1
  <2>2. CASE u # t
    BY <1>2, <2>2 DEF BufferIInv, WaitersInv, NobodyWaitsInVain, Wants
  <2> QED
    BY <2>1, <2>2
<1>4. StartedByWaitFor'
  BY <1>2 DEF BufferIInv, WaitersInv, StartedByWaitFor
<1> QED
  BY <1>2, <1>3, <1>4 DEF WaitersInv

LEMMA NotWaitingIs == NotWaiting \in Waits /\ NotWaiting.phase \notin {"waiting", "starting"}
BY DEF NotWaiting, Waits, Phases

LEMMA ContentsSame ==
  ASSUME BufferIInv, UNCHANGED <<contents, added>>
  PROVE  ContentsKept /\ Stored' = Stored
<1>1. /\ Stored' = Stored /\ HandedOutOnce' /\ NewestStored' /\ AddedOnce'
      /\ byFrame' \in [BufferedFrames -> 0 .. MaxAdds] /\ out' \in Seq(1 .. MaxAdds)
  BY SameContents DEF contents
<1>2. heap' \in [BufferedFrames -> Nat] /\ EntryKept' /\ skipped' = FALSE
  BY <1>1 DEF contents, BufferIInv, BufferTypeOK, EntryKept
<1> QED
  BY <1>1, <1>2 DEF ContentsKept

(* One turn of a coroutine that waits. *)
LEMMA LookKeeps ==
  ASSUME BufferIInv, NEW t \in Waiters, NEW w \in BufferedFrames \cup {NextFrame}, NEW timed \in BOOLEAN,
         Look(t, w, timed)
  PROVE  BufferIInv'
<1>1. added' = added
  BY DEF Look
<1>2. CASE TakeWanted(w) /\ wait' = [wait EXCEPT ![t] = NotWaiting]
  <2>1. ContentsKept
    <3>1. CASE w = NextFrame
      BY <1>1, <1>2, <3>1, TakeNextKeeps DEF TakeWanted
    <3>2. CASE w # NextFrame
      BY <1>1, <1>2, <3>2, TakeFrameKeeps DEF TakeWanted
    <3> QED
      BY <3>1, <3>2
  <2>2. wait' \in [Waiters -> Waits] /\ WaitersInv'
    BY <1>2, <2>1, NotWaitingIs, OneWait DEF ContentsKept
  <2> QED
    BY <1>1, <2>1, <2>2, NoAddKeeps
<1>3. CASE FindNoWanted(w) /\ ~(TakeWanted(w) /\ wait' = [wait EXCEPT ![t] = NotWaiting])
  <2>1. ContentsKept /\ \A f \in Stored' : w \notin {f, NextFrame}
    <3>1. CASE w = NextFrame
      BY <1>1, <1>3, <3>1, FindNoneKeeps DEF FindNoWanted
    <3>2. CASE w # NextFrame
      <4>1. w \notin Stored /\ UNCHANGED contents
        BY <1>3, <3>2 DEF FindNoWanted
      <4>2. ContentsKept /\ Stored' = Stored
        BY <1>1, <4>1, ContentsSame
      <4> QED
        BY <3>2, <4>1, <4>2
    <3> QED
      BY <3>1, <3>2
  <2>2. PICK v \in Waits : /\ wait' = [wait EXCEPT ![t] = v]
                           /\ v.phase = "waiting" => v.wants = w
                           /\ v.phase = "starting" => v.timed /\ Wraps
    <3> DEFINE v == [phase |-> IF timed /\ Wraps THEN "starting" ELSE "waiting", wants |-> w, timed |-> timed]
    <3>1. v \in Waits /\ v.wants = w /\ (v.phase = "starting" => v.timed /\ Wraps)
      BY DEF Waits, Phases
    <3>2. wait' = [wait EXCEPT ![t] = v] \/ wait' = [wait EXCEPT ![t] = NotWaiting]
      BY <1>3 DEF Look
    <3> QED
      BY <3>1, <3>2, NotWaitingIs
  <2>3. wait' \in [Waiters -> Waits] /\ WaitersInv'
    <3>1. v.phase = "waiting" => \A f \in Stored' : v.wants \notin {f, NextFrame}
      BY <2>1, <2>2
    <3> QED
      BY <2>1, <2>2, <3>1, OneWait DEF ContentsKept
  <2> QED
    BY <1>1, <2>1, <2>3, NoAddKeeps
<1> QED
  BY <1>2, <1>3 DEF Look

(* add. *)
LEMMA AddKeeps ==
  ASSUME BufferIInv, NEW f \in BufferedFrames, Add(f)
  PROVE  BufferIInv'
<1> DEFINE n == Len(added) + 1
<1>1. /\ added \in Seq(BufferedFrames) /\ Len(added) \in Nat /\ Len(added) < MaxAdds /\ MaxAdds \in Nat
      /\ n \in 1 .. MaxAdds /\ n \in 0 .. MaxAdds /\ n # 0
  BY MaxAddsAssumption, LenProperties DEF Add, BufferIInv, BufferTypeOK
<1>2. added' = Append(added, f) /\ byFrame' = [byFrame EXCEPT ![f] = n] /\ out' = out /\ skipped' = skipped
  BY DEF Add
<1> HIDE DEF n
<1>3. /\ added' \in Seq(BufferedFrames) /\ Len(added') = n
      /\ DOMAIN added = 1 .. Len(added) /\ n = Len(added) + 1 /\ DOMAIN added' = 1 .. n
      /\ added'[n] = f /\ \A k \in DOMAIN added : added'[k] = added[k]
  BY <1>1, <1>2, AppendProperties, LenProperties DEF n
<1>4. /\ byFrame' \in [BufferedFrames -> 0 .. MaxAdds] /\ byFrame'[f] = n
      /\ \A g \in BufferedFrames \ {f} : byFrame'[g] = byFrame[g]
  BY <1>1, <1>2 DEF BufferIInv, BufferTypeOK
<1>5. Stored' = Stored \cup {f}
  BY <1>1, <1>4 DEF Stored
<1>6. heap' \in [BufferedFrames -> Nat] /\ EntryKept'
  <2>1. heap \in [BufferedFrames -> Nat]
    BY DEF BufferIInv, BufferTypeOK
  <2>2. CASE byFrame[f] = 0
    <3>1. heap' = [heap EXCEPT ![f] = @ + 1]
      BY <2>2 DEF Add
    <3> QED
      BY <1>5, <2>1, <3>1 DEF BufferIInv, EntryKept, Stored
  <2>3. CASE byFrame[f] # 0
    <3>1. heap' = heap /\ f \in Stored
      BY <2>3 DEF Add, Stored
    <3> QED
      BY <1>5, <2>1, <3>1 DEF BufferIInv, EntryKept
  <2> QED
    BY <2>2, <2>3
<1>7. wait' \in [Waiters -> Waits] /\ WaitersInv'
  <2>1. wait \in [Waiters -> Waits] /\ wait' = [t \in Waiters |-> Woken(wait[t])]
    BY DEF BufferIInv, BufferTypeOK, Waits, Phases, Add
  <2>2. \A w \in Waits : Woken(w) \in Waits /\ Woken(w).phase # "waiting" /\ Woken(w).timed = w.timed
                             /\ (Woken(w).phase = "starting" => w.phase = "starting")
    BY DEF Woken, Waits, Phases
  <2> QED
    BY <2>1, <2>2 DEF BufferIInv, WaitersInv, NobodyWaitsInVain, StartedByWaitFor
<1>8. BufferTypeOK'
  BY <1>2, <1>3, <1>4, <1>6, <1>7 DEF BufferIInv, BufferTypeOK, Waits, Phases
<1>9. NewestStored'
  <2> SUFFICES ASSUME NEW g \in Stored'
               PROVE  /\ byFrame'[g] \in DOMAIN added' /\ added'[byFrame'[g]] = g
                      /\ \A k \in DOMAIN added' : added'[k] = g => k <= byFrame'[g]
    BY DEF NewestStored
  <2>1. CASE g = f
    BY <1>1, <1>3, <1>4, <2>1
  <2>2. CASE g # f
    <3>1. g \in Stored /\ g \in BufferedFrames /\ byFrame'[g] = byFrame[g]
      BY <1>4, <1>5, <2>2 DEF Stored
    <3>2. /\ byFrame[g] \in DOMAIN added /\ added[byFrame[g]] = g
          /\ \A k \in DOMAIN added : added[k] = g => k <= byFrame[g]
      BY <3>1 DEF BufferIInv, NewestStored
    <3>3. \A k \in DOMAIN added' : added'[k] = g => k \in DOMAIN added
      BY <1>1, <1>3, <2>2
    <3> QED
      BY <1>1, <1>3, <3>1, <3>2, <3>3
  <2> QED
    BY <2>1, <2>2
<1>10. /\ \A i \in DOMAIN out : out[i] \in DOMAIN added /\ added'[out[i]] = added[out[i]]
       /\ AddedOnce' /\ DOMAIN added \subseteq DOMAIN added'
  BY <1>1, <1>2, <1>3 DEF BufferIInv, AddedOnce
<1>11. \A k \in DOMAIN added' :
         \/ \E i \in DOMAIN out : out[i] = k
         \/ byFrame'[added'[k]] = k
         \/ \E l \in DOMAIN added' : l > k /\ added'[l] = added'[k]
  <2> SUFFICES ASSUME NEW k \in DOMAIN added'
               PROVE  \/ \E i \in DOMAIN out : out[i] = k
                      \/ byFrame'[added'[k]] = k
                      \/ \E l \in DOMAIN added' : l > k /\ added'[l] = added'[k]
    OBVIOUS
  <2>1. CASE k = n
    BY <1>3, <1>4, <2>1
  <2>2. CASE k # n /\ added'[k] = f
    <3>1. n \in DOMAIN added' /\ n > k
      BY <1>1, <1>3, <2>2
    <3> QED
      BY <1>3, <2>2, <3>1
  <2>3. CASE k # n /\ added'[k] # f
    <3>1. k \in DOMAIN added /\ added'[k] = added[k] /\ added[k] \in BufferedFrames \ {f}
      BY <1>1, <1>3, <2>3, ElementOfSeq
    <3>2. \/ \E i \in DOMAIN out : out[i] = k
          \/ byFrame[added[k]] = k
          \/ \E l \in DOMAIN added : l > k /\ added[l] = added[k]
      BY <3>1 DEF BufferIInv, HandedOutOnce
    <3> QED
      BY <1>3, <1>4, <1>10, <3>1, <3>2
  <2> QED
    BY <2>1, <2>2, <2>3
<1>12. \A i, j \in DOMAIN out : i < j /\ added'[out[i]] = added'[out[j]] => out[i] < out[j]
  BY <1>10 DEF BufferIInv, HandedOutOnce
<1>13. \A i \in DOMAIN out : byFrame'[added'[out[i]]] # 0 => out[i] < byFrame'[added'[out[i]]]
  <2> SUFFICES ASSUME NEW i \in DOMAIN out, byFrame'[added'[out[i]]] # 0
               PROVE  out[i] < byFrame'[added'[out[i]]]
    OBVIOUS
  <2>1. out[i] \in DOMAIN added /\ added'[out[i]] = added[out[i]] /\ added[out[i]] \in BufferedFrames
    BY <1>1, <1>3, <1>10, ElementOfSeq
  <2>2. CASE added[out[i]] = f
    BY <1>1, <1>3, <1>4, <2>1, <2>2
  <2>3. CASE added[out[i]] # f
    <3>1. byFrame'[added[out[i]]] = byFrame[added[out[i]]]
      BY <1>4, <2>1, <2>3
    <3> QED
      BY <2>1, <3>1 DEF BufferIInv, HandedOutOnce
  <2> QED
    BY <2>2, <2>3
<1>14. HandedOutOnce'
  BY <1>2, <1>11, <1>12, <1>13 DEF HandedOutOnce
<1>15. Len(added') <= MaxAdds
  BY <1>1, <1>3
<1> QED
  BY <1>2, <1>6, <1>7, <1>8, <1>9, <1>10, <1>14, <1>15 DEF BufferIInv

LEMMA BufferIInvStep == BufferIInv /\ [BufferNext]_bufferVars => BufferIInv'
<1> SUFFICES ASSUME BufferIInv, [BufferNext]_bufferVars PROVE BufferIInv'
  OBVIOUS
<1>1. ASSUME ContentsKept, UNCHANGED <<wait, added>> PROVE BufferIInv'
  <2>1. wait' \in [Waiters -> Waits] /\ WaitersInv'
    BY <1>1, SameWaits DEF ContentsKept
  <2> QED
    BY <1>1, <2>1, NoAddKeeps
<1>2. CASE PopNext
  BY <1>1, <1>2, TakeNextKeeps, FindNoneKeeps DEF PopNext
<1>3. CASE PeekNext
  <2>1. Stored' = Stored /\ HandedOutOnce' /\ NewestStored' /\ AddedOnce'
        /\ byFrame' \in [BufferedFrames -> 0 .. MaxAdds] /\ out' \in Seq(1 .. MaxAdds)
    BY <1>3, SameContents DEF PeekNext
  <2>2. heap' \in [BufferedFrames -> Nat] /\ EntryKept'
    <3>1. CASE \E m \in Live : IsFirst(m) /\ heap' = Without(m)
      BY <2>1, <3>1, WithoutKeeps DEF EntryKept
    <3>2. CASE Live = {} /\ heap' = [f \in BufferedFrames |-> 0]
      <4>1. Stored = {}
        BY <3>2, LiveIsStored DEF BufferIInv
      <4> QED
        BY <2>1, <3>2, <4>1 DEF EntryKept
    <3> QED
      BY <1>3, <3>1, <3>2 DEF PeekNext
  <2>3. skipped' = FALSE
    BY <1>3 DEF PeekNext, BufferIInv
  <2>4. ContentsKept
    BY <2>1, <2>2, <2>3 DEF ContentsKept
  <2> QED
    BY <1>1, <1>3, <2>4 DEF PeekNext
<1>4. ASSUME NEW f \in BufferedFrames, Add(f) PROVE BufferIInv'
  BY <1>4, AddKeeps
<1>5. ASSUME NEW f \in BufferedFrames, PopExpected(f) PROVE BufferIInv'
  <2>1. TakeNext(f) => f \in Live
    BY DEF TakeNext, IsFirst
  <2>2. ContentsKept
    BY <1>5, <2>1, TakeNextKeeps, FindOtherKeeps, FindNoneKeeps DEF PopExpected
  <2> QED
    BY <1>1, <1>5, <2>2 DEF PopExpected
<1>6. ASSUME NEW f \in BufferedFrames, PopFrame(f) PROVE BufferIInv'
  BY <1>1, <1>6, TakeFrameKeeps DEF PopFrame
<1>7. ASSUME NEW t \in Waiters, WaitBegin(t) PROVE BufferIInv'
  BY <1>7, LookKeeps DEF WaitBegin
<1>8. ASSUME NEW t \in Waiters, WaitStarts(t) PROVE BufferIInv'
  <2>1. wait[t] \in Waits /\ wait[t].timed /\ Wraps
    BY <1>8 DEF BufferIInv, BufferTypeOK, WaitersInv, StartedByWaitFor, Waits, Phases, WaitStarts
  <2>2. PICK w \in Waits : w = [wait[t] EXCEPT !.phase = "waiting"]
    BY <2>1 DEF Waits, Phases
  <2>3. w.timed /\ w.phase = "waiting"
    BY <2>1, <2>2 DEF Waits
  <2>4. wait' = [wait EXCEPT ![t] = w]
    BY <1>8, <2>2 DEF WaitStarts
  <2>5. ContentsKept /\ Stored' = Stored /\ added' = added
    BY <1>8, ContentsSame DEF WaitStarts
  <2>6. wait' \in [Waiters -> Waits] /\ WaitersInv'
    BY <2>1, <2>3, <2>4, <2>5, OneWait
  <2> QED
    BY <2>5, <2>6, NoAddKeeps
<1>9. ASSUME NEW t \in Waiters, WaitResumes(t) PROVE BufferIInv'
  <2>1. wait[t].wants \in BufferedFrames \cup {NextFrame} /\ wait[t].timed \in BOOLEAN
    BY DEF BufferIInv, BufferTypeOK
  <2> QED
    BY <1>9, <2>1, LookKeeps DEF WaitResumes
<1>10. ASSUME NEW t \in Waiters, WaitEnds(t) PROVE BufferIInv'
  <2>1. UNCHANGED <<contents, added>> /\ wait' = [wait EXCEPT ![t] = NotWaiting]
    BY <1>10 DEF WaitEnds
  <2>2. ContentsKept /\ Stored' = Stored
    BY <2>1, ContentsSame
  <2>3. wait' \in [Waiters -> Waits] /\ WaitersInv'
    BY <2>1, <2>2, NotWaitingIs, OneWait
  <2> QED
    BY <2>1, <2>2, <2>3, NoAddKeeps
<1>11. CASE UNCHANGED bufferVars
  <2>1. UNCHANGED <<contents, added, wait>>
    BY <1>11 DEF bufferVars
  <2> QED
    BY <1>1, <2>1, ContentsSame
<1> QED
  BY <1>2, <1>3, <1>4, <1>5, <1>6, <1>7, <1>8, <1>9, <1>10, <1>11 DEF BufferNext

LEMMA BufferInvariance == BufferSpec => []BufferIInv
<1>1. BufferInit => BufferIInv
  BY BufferInitIInv
<1>2. BufferIInv /\ [BufferNext]_bufferVars => BufferIInv'
  BY BufferIInvStep
<1> QED
  BY <1>1, <1>2, PTL DEF BufferSpec

(* FrameResultBuffer hands out the smallest frame it holds, every result once unless
   a later one of its frame replaced it, and lets nobody wait for what is there who
   waits without a timeout, or with one where wait_for starts no task. *)
THEOREM ResultsInFrameOrderHolds == BufferSpec => []ResultsInFrameOrder
<1>1. BufferIInv => ResultsInFrameOrder
  BY DEF BufferIInv, WaitersInv, ResultsInFrameOrder
<1> QED
  BY <1>1, BufferInvariance, PTL

(* From Python 3.12 on wait_for_frame and wait_for_next keep what the docstring says,
   with and without a timeout: nobody sleeps on while what it waits for is there. *)
THEOREM ArrivalsSeenWithoutTasks == ~Wraps => (BufferSpec => []WaitersSeeArrivals)
<1> SUFFICES ASSUME ~Wraps PROVE BufferSpec => []WaitersSeeArrivals
  OBVIOUS
<1>1. BufferIInv => WaitersSeeArrivals
  BY DEF BufferIInv, WaitersInv, NobodyWaitsInVain, WaitersSeeArrivals
<1> QED
  BY <1>1, BufferInvariance, PTL

=============================================================================
