----------------------- MODULE RtspStreamStateProofs -----------------------
(***************************************************************************)
(* Theorems about RtspStreamState, for every set of blocks, every media    *)
(* file and every bound.                                                   *)
(***************************************************************************)
EXTENDS RtspStreamState, FiniteSetTheorems, SequenceTheorems, TLAPS

-----------------------------------------------------------------------------
(* Counting the closures of a queue.                                       *)

(* The closures of a queue that belong to a set are finitely many. *)
LEMMA MatchingFinite ==
    ASSUME NEW queue \in Seq(Task), NEW M
    PROVE  /\ Matching(queue, M) \subseteq 1 .. Len(queue)
           /\ IsFiniteSet(Matching(queue, M))
           /\ Count(queue, M) \in Nat
<1>1. Matching(queue, M) \subseteq 1 .. Len(queue)
  BY LenProperties DEF Matching
<1>2. IsFiniteSet(1 .. Len(queue))
  BY FS_Interval, LenProperties
<1>3. IsFiniteSet(Matching(queue, M))
  BY <1>1, <1>2, FS_Subset
<1> QED
  BY <1>1, <1>3, FS_CardinalityType DEF Count

(* Append adds one to the count of every set the new closure is in. *)
LEMMA CountAppend ==
    ASSUME NEW queue \in Seq(Task), NEW t \in Task, NEW M
    PROVE  Count(Append(queue, t), M)
             = Count(queue, M) + (IF t \in M THEN 1 ELSE 0)
<1> DEFINE n == Len(queue)
<1>1. /\ n \in Nat
      /\ DOMAIN queue = 1 .. n
      /\ DOMAIN Append(queue, t) = 1 .. n + 1
      /\ \A i \in 1 .. n : Append(queue, t)[i] = queue[i]
      /\ Append(queue, t)[n + 1] = t
  BY LenProperties, AppendProperties
<1>2. n + 1 \notin Matching(queue, M)
  BY <1>1 DEF Matching
<1>3. IsFiniteSet(Matching(queue, M)) /\ Count(queue, M) \in Nat
  BY MatchingFinite
<1>4. CASE t \in M
  <2>1. Matching(Append(queue, t), M) = Matching(queue, M) \union {n + 1}
    BY <1>1, <1>4 DEF Matching
  <2> QED
    BY <1>2, <1>3, <1>4, <2>1, FS_AddElement DEF Count
<1>5. CASE t \notin M
  <2>1. Matching(Append(queue, t), M) = Matching(queue, M)
    BY <1>1, <1>5 DEF Matching
  <2> QED
    BY <1>3, <1>5, <2>1 DEF Count
<1> QED
  BY <1>4, <1>5

(* Taking the head out takes one from the count of every set it is in. *)
LEMMA CountTail ==
    ASSUME NEW queue \in Seq(Task), queue # <<>>, NEW M
    PROVE  Count(queue, M)
             = Count(Tail(queue), M) + (IF Head(queue) \in M THEN 1 ELSE 0)
<1> DEFINE rest == Tail(queue)
           S == Matching(rest, M)
           T == Matching(queue, M) \ {1}
           f == [i \in S |-> i + 1]
<1>1. /\ Len(queue) \in Nat \ {0}
      /\ DOMAIN queue = 1 .. Len(queue)
      /\ rest \in Seq(Task)
      /\ DOMAIN rest = 1 .. Len(queue) - 1
      /\ \A i \in 1 .. Len(queue) - 1 : rest[i] = queue[i + 1]
      /\ Head(queue) = queue[1]
  BY LenProperties, EmptySeq, HeadTailProperties
<1>2. f \in Bijection(S, T)
  <2>1. \A i \in S : i \in Nat /\ i + 1 \in T
    BY <1>1 DEF Matching
  <2>2. \A j \in T : j - 1 \in S /\ j = (j - 1) + 1
    BY <1>1 DEF Matching
  <2>3. f \in [S -> T]
    BY <2>1
  <2>4. IsInjective(f)
    BY <2>1 DEF IsInjective
  <2>5. \A j \in T : \E i \in S : f[i] = j
    BY <2>2
  <2> QED
    BY <2>3, <2>4, <2>5 DEF Bijection, Injection, Surjection
<1>3. /\ IsFiniteSet(S)
      /\ IsFiniteSet(Matching(queue, M))
      /\ Count(rest, M) \in Nat
      /\ Count(queue, M) \in Nat
  BY <1>1, MatchingFinite
<1>4. Cardinality(T) = Count(rest, M)
  BY <1>2, <1>3, FS_Bijection DEF ExistsBijection, Count
<1>5. 1 \in Matching(queue, M) <=> Head(queue) \in M
  BY <1>1 DEF Matching
<1>6. Cardinality(T) = IF 1 \in Matching(queue, M)
                       THEN Count(queue, M) - 1 ELSE Count(queue, M)
  BY <1>3, FS_RemoveElement DEF Count
<1> QED
  BY <1>3, <1>4, <1>5, <1>6

(* A batch that holds one closure of a set adds one to its count, a batch  *)
(* that holds none leaves it as it is.                                     *)
LEMMA CountConcat ==
    ASSUME NEW queue \in Seq(Task), NEW batch \in Seq(Task), NEW M
    PROVE  /\ \A k \in DOMAIN batch :
                (\A i \in DOMAIN batch : batch[i] \in M <=> i = k)
                  => Count(queue \o batch, M) = Count(queue, M) + 1
           /\ (\A i \in DOMAIN batch : batch[i] \notin M)
                => Count(queue \o batch, M) = Count(queue, M)
<1> DEFINE n == Len(queue)
           m == Len(batch)
<1>1. /\ n \in Nat /\ m \in Nat
      /\ DOMAIN queue = 1 .. n
      /\ DOMAIN batch = 1 .. m
      /\ DOMAIN (queue \o batch) = 1 .. n + m
      /\ \A i \in 1 .. n + m : (queue \o batch)[i] =
            IF i <= n THEN queue[i] ELSE batch[i - n]
  BY LenProperties, ConcatProperties
<1>2. IsFiniteSet(Matching(queue, M)) /\ Count(queue, M) \in Nat
  BY MatchingFinite
<1>3. ASSUME NEW k \in DOMAIN batch,
             \A i \in DOMAIN batch : batch[i] \in M <=> i = k
      PROVE  Count(queue \o batch, M) = Count(queue, M) + 1
  <2>1. Matching(queue \o batch, M) = Matching(queue, M) \union {n + k}
    BY <1>1, <1>3 DEF Matching
  <2>2. n + k \notin Matching(queue, M)
    BY <1>1, <1>3 DEF Matching
  <2> QED
    BY <1>2, <2>1, <2>2, FS_AddElement DEF Count
<1>4. ASSUME \A i \in DOMAIN batch : batch[i] \notin M
      PROVE  Count(queue \o batch, M) = Count(queue, M)
  <2>1. Matching(queue \o batch, M) = Matching(queue, M)
    BY <1>1, <1>4 DEF Matching
  <2> QED
    BY <2>1 DEF Count
<1> QED
  BY <1>3, <1>4
-----------------------------------------------------------------------------
(* Type correctness.                                                       *)

(* The head of a queue of closures is one, and the rest is such a queue. *)
LEMMA HeadOfQueue ==
    ASSUME NEW queue \in Seq(Task), queue # <<>>
    PROVE  Head(queue) \in Task /\ Tail(queue) \in Seq(Task)
BY HeadTailProperties

(* A new stream is one, and so is a block that had none. *)
LEMMA NewStreamType == NewStream \in Stream /\ NoStream \in Stream
<1>1. Len(File) \in Nat
  BY FileAssumption, LenProperties
<1>2. 0 \in 0 .. TsMod - 1
  BY TimestampAssumption
<1>3. NewStream \in Stream
  BY <1>1, <1>2, EmptySeq DEF NewStream, Stream
<1> QED
  BY <1>3, Zenon DEF NoStream, Stream

(* The timestamp on entry and the one sent are 32-bit values. *)
LEMMA StampType ==
    ASSUME NEW s \in Stream, NEW t \in Task, NEW base \in Base(s)
    PROVE  base \in 0 .. TsMod - 1 /\ Stamp(t, base) \in 0 .. TsMod - 1
<1>1. base \in 0 .. TsMod - 1
  BY SMTT(40), TimestampAssumption DEF Base, Stream
<1>2. (base + TsDuration) % TsMod \in 0 .. TsMod - 1
  BY <1>1, TimestampAssumption
<1> QED
  BY <1>1, <1>2 DEF Stamp

(* The stream after one NALU was handed to the sink. *)
LEMMA DeliverType ==
    ASSUME TypeOK, NEW t \in Task, NEW stall \in BOOLEAN,
           HasFrame(stream[t.addr]), Deliver(t, stall)
    PROVE  stream' \in [Addr -> Stream]
<1> DEFINE a == t.addr
           s == stream[a]
<1>1. a \in Addr /\ s \in Stream
  BY DEF TypeOK, Task
<1>2. PICK base \in Base(s) :
        stream' = [stream EXCEPT
                     ![a].ts = Stamp(t, base),
                     ![a].pos = @ + 1,
                     ![a].sent = Append(@, [nalu |-> File[s.pos + 1],
                                            ts |-> Stamp(t, base),
                                            life |-> t.life]),
                     ![a].stalls = IF stall THEN @ + 1 ELSE @]
  BY Zenon DEF Deliver
<1>3. Stamp(t, base) \in 0 .. TsMod - 1
  BY <1>1, StampType
<1>4. Len(File) \in Nat /\ s.pos + 1 \in 0 .. Len(File)
  BY SMTT(40), <1>1, FileAssumption, LenProperties DEF HasFrame, Stream
<1>5. File[s.pos + 1] \in Nalu
  BY <1>1, <1>4, FileAssumption, ElementOfSeq DEF HasFrame, Stream
<1>6. Append(s.sent, [nalu |-> File[s.pos + 1], ts |-> Stamp(t, base),
                      life |-> t.life]) \in Seq(Frame)
  BY <1>1, <1>3, <1>5, AppendProperties DEF Stream, Frame, Task
<1>7. stream'[a] \in Stream
  <2> DEFINE sent == Append(s.sent, [nalu |-> File[s.pos + 1],
                                     ts |-> Stamp(t, base), life |-> t.life])
             stalls == IF stall THEN s.stalls + 1 ELSE s.stalls
  <2>1. stream'[a] = [s EXCEPT !.ts = Stamp(t, base), !.pos = s.pos + 1,
                               !.sent = sent, !.stalls = stalls]
    BY <1>1, <1>2 DEF TypeOK
  <2>2. stalls \in Nat
    BY <1>1 DEF Stream
  <2> HIDE DEF sent, stalls
  <2>3. [s EXCEPT !.ts = Stamp(t, base), !.pos = s.pos + 1,
                  !.sent = sent, !.stalls = stalls] \in Stream
    BY <1>1, <1>3, <1>4, <1>6, <2>2, Zenon DEF Stream, sent
  <2> QED
    BY <2>1, <2>3
<1> QED
  BY <1>1, <1>2, <1>7 DEF TypeOK

(* A closure made by PlayOnce is one. *)
LEMMA FollowType ==
    ASSUME TypeOK, NEW t \in Task, NEW update \in BOOLEAN
    PROVE  Follow(t, update) \in Task
BY DEF TypeOK, Task, Follow

(* PlayOnce keeps the types, whatever queue it was taken from. *)
LEMMA PlayOnceType ==
    ASSUME TypeOK, NEW t \in Task, NEW p \in Seq(Task), NEW m \in Seq(Task),
           PlayOnce(t, p, m)
    PROVE  /\ stream' \in [Addr -> Stream]
           /\ pending' \in Seq(Task)
           /\ timers' \in Seq(Task)
           /\ up' \in BOOLEAN
<1>1. t.addr \in Addr /\ stream[t.addr] \in Stream
  BY DEF TypeOK, Task
<1>2. CASE Cancel(t, p, m)
  BY <1>2 DEF Cancel, TypeOK
<1>3. CASE ReadGarbage(t, p, m)
  BY <1>3 DEF ReadGarbage, TypeOK
<1>4. CASE SendBye(t, p, m)
  <2> DEFINE s == stream[t.addr]
  <2>1. PICK base \in Base(s) :
          stream' = [stream EXCEPT
                       ![t.addr].ts = base,
                       ![t.addr].pos = IF @ < Len(File) THEN @ + 1 ELSE @,
                       ![t.addr].byes = @ + 1]
    BY <1>4, Zenon DEF SendBye
  <2>2. base \in 0 .. TsMod - 1
    BY <1>1, StampType
  <2>3. Len(File) \in Nat
    BY FileAssumption, LenProperties
  <2>4. stream'[t.addr] \in Stream
    <3> DEFINE pos == IF s.pos < Len(File) THEN s.pos + 1 ELSE s.pos
    <3>1. stream'[t.addr] =
            [s EXCEPT !.ts = base, !.pos = pos, !.byes = s.byes + 1]
      BY <1>1, <2>1 DEF TypeOK
    <3> s.pos \in 0 .. Len(File) /\ s.byes \in Nat
      BY <1>1, Zenon DEF Stream
    <3>2. pos \in 0 .. Len(File) /\ s.byes + 1 \in Nat
      BY SMTT(40), <2>3
    <3> HIDE DEF pos
    <3>3. [s EXCEPT !.ts = base, !.pos = pos, !.byes = s.byes + 1] \in Stream
      BY <1>1, <2>2, <3>2, Zenon DEF Stream
    <3> QED
      BY <3>1, <3>3
  <2>5. stream' \in [Addr -> Stream]
    BY <1>1, <2>1, <2>4 DEF TypeOK
  <2> QED
    BY <1>4, <2>5 DEF SendBye, TypeOK
<1>5. CASE SendParam(t, p, m)
  <2>1. stream' \in [Addr -> Stream]
    BY <1>5, DeliverType DEF SendParam
  <2>2. pending' \in Seq(Task)
    BY <1>5, FollowType, AppendProperties DEF SendParam
  <2> QED
    BY <1>5, <2>1, <2>2 DEF SendParam, TypeOK
<1>6. CASE SendSlice(t, p, m)
  <2>1. stream' \in [Addr -> Stream]
    BY <1>6, DeliverType DEF SendSlice
  <2>2. timers' \in Seq(Task)
    BY <1>6, FollowType, AppendProperties DEF SendSlice
  <2> QED
    BY <1>6, <2>1, <2>2 DEF SendSlice, TypeOK
<1>7. CASE SendEmpty(t, p, m)
  <2>1. stream' \in [Addr -> Stream]
    BY <1>7, DeliverType DEF SendEmpty
  <2> QED
    BY <1>7, <2>1 DEF SendEmpty, TypeOK
<1> QED
  BY <1>2, <1>3, <1>4, <1>5, <1>6, <1>7 DEF PlayOnce

(* The closures of one Play request. *)
LEMMA PlayBatch ==
    ASSUME TypeOK, NEW q \in Sessions(live)
    PROVE  /\ Len(q) \in Nat
           /\ DOMAIN q = 1 .. Len(q)
           /\ \A i \in DOMAIN q : q[i] \in live
           /\ IsInjective(q)
           /\ [i \in DOMAIN q |-> [addr |-> q[i], life |-> lives[q[i]],
                                   update |-> TRUE]] \in Seq(Task)
<1>1. PICK n \in 1 .. Cardinality(live) : q \in [1 .. n -> live]
  BY DEF Sessions
<1>2. n \in Nat
  OBVIOUS
<1>3. Len(q) = n /\ DOMAIN q = 1 .. n
  BY <1>1, <1>2
<1>4. \A i \in 1 .. n : [addr |-> q[i], life |-> lives[q[i]],
                         update |-> TRUE] \in Task
  BY <1>1 DEF TypeOK, Task
<1>5. [i \in 1 .. n |-> [addr |-> q[i], life |-> lives[q[i]],
                         update |-> TRUE]] \in Seq(Task)
  BY <1>2, <1>4
<1> QED
  BY <1>1, <1>2, <1>3, <1>5 DEF Sessions

(* Every step keeps the types. *)
LEMMA TypeStep == TypeOK /\ [Next]_vars => TypeOK'
<1> SUFFICES ASSUME TypeOK, [Next]_vars PROVE TypeOK'
  OBVIOUS
<1>1. ASSUME NEW a \in Addr, Construct(a) PROVE TypeOK'
  BY <1>1, NewStreamType DEF Construct, TypeOK
<1>2. ASSUME NEW q \in Sessions(live), Play(q) PROVE TypeOK'
  <2>1. pending' \in Seq(Task)
    BY Zenon, <1>2, PlayBatch, ConcatProperties DEF Play, TypeOK
  <2>2. \A a \in Addr :
          [stream[a] EXCEPT !.playing = TRUE, !.plays = @ + 1] \in Stream
    <3> SUFFICES ASSUME NEW s \in Stream
                 PROVE  [s EXCEPT !.playing = TRUE, !.plays = @ + 1] \in Stream
      BY Zenon DEF TypeOK
    <3>1. s.plays + 1 \in Nat
      BY DEF Stream
    <3> QED
      BY <3>1, Zenon DEF Stream
  <2>3. stream' \in [Addr -> Stream]
    BY <1>2, <2>2, Zenon DEF Play, TypeOK
  <2>4. \A a \in Addr : starts[a] + 1 \in Nat
    BY DEF TypeOK
  <2>5. starts' \in [Addr -> Nat]
    BY <1>2, <2>4, Zenon DEF Play, TypeOK
  <2> QED
    BY Zenon, <1>2, <2>1, <2>3, <2>5 DEF Play, TypeOK
<1>3. ASSUME NEW S \in (SUBSET live) \ {{}}, Release(S) PROVE TypeOK'
  <2>1. \A a \in Addr :
          [stream[a] EXCEPT !.playing = FALSE, !.source = FALSE] \in Stream
    BY DEF TypeOK, Stream
  <2> QED
    BY <1>3, <2>1 DEF Release, TypeOK
<1>4. CASE RunFunctor
  BY <1>4, HeadOfQueue, PlayOnceType DEF RunFunctor, TypeOK
<1>5. CASE FireTimer
  BY <1>5, HeadOfQueue, PlayOnceType DEF FireTimer, TypeOK
<1>6. CASE UNCHANGED vars
  BY <1>6 DEF vars, TypeOK
<1> QED
  BY <1>1, <1>2, <1>3, <1>4, <1>5, <1>6 DEF Next, Request

(* The types of the initial state. *)
LEMMA TypeInit == Init => TypeOK
BY NewStreamType, EmptySeq DEF Init, TypeOK

(* Whatever the file and however streams come and go, cursors stay within  *)
(* the file, timestamps within 32 bits, and every queued closure is one of *)
(* PlayOnce on a known block (rtsp_stream_state.cpp:36-191).               *)
THEOREM TypeCorrect == Spec => []TypeOK
<1> QED
  BY TypeInit, TypeStep, PTL DEF Spec

-----------------------------------------------------------------------------
(* The inductive invariant.                                                *)

(* What one NALU does to the counters of its stream. *)
LEMMA DeliverEffect ==
    ASSUME TypeOK, NEW t \in Task, NEW stall \in BOOLEAN, Deliver(t, stall)
    PROVE  /\ \A b \in Addr \ {t.addr} : stream'[b] = stream[b]
           /\ stream'[t.addr].playing = stream[t.addr].playing
           /\ stream'[t.addr].source = stream[t.addr].source
           /\ stream'[t.addr].plays = stream[t.addr].plays
           /\ stream'[t.addr].byes = stream[t.addr].byes
           /\ stream'[t.addr].stalls =
                IF stall THEN stream[t.addr].stalls + 1
                         ELSE stream[t.addr].stalls
<1> DEFINE a == t.addr
           s == stream[a]
<1>1. a \in Addr /\ s \in Stream
  BY DEF TypeOK, Task
<1>2. PICK base \in Base(s) :
        stream' = [stream EXCEPT
                     ![a].ts = Stamp(t, base),
                     ![a].pos = @ + 1,
                     ![a].sent = Append(@, [nalu |-> File[s.pos + 1],
                                            ts |-> Stamp(t, base),
                                            life |-> t.life]),
                     ![a].stalls = IF stall THEN @ + 1 ELSE @]
  BY Zenon DEF Deliver
<1>3. stream \in [Addr -> Stream]
  BY DEF TypeOK
<1>4. \A b \in Addr \ {a} : stream'[b] = stream[b]
  BY <1>2, <1>3
<1> DEFINE sent == Append(s.sent, [nalu |-> File[s.pos + 1],
                                   ts |-> Stamp(t, base), life |-> t.life])
           stalls == IF stall THEN s.stalls + 1 ELSE s.stalls
<1>5. stream'[a] = [s EXCEPT !.ts = Stamp(t, base), !.pos = s.pos + 1,
                             !.sent = sent, !.stalls = stalls]
  BY <1>1, <1>2, <1>3
<1> HIDE DEF sent, stalls
<1>6. /\ stream'[a].playing = s.playing
      /\ stream'[a].source = s.source
      /\ stream'[a].plays = s.plays
      /\ stream'[a].byes = s.byes
      /\ stream'[a].stalls = stalls
  BY <1>1, <1>5, Zenon DEF Stream
<1> QED
  BY <1>4, <1>6 DEF stalls

(* The chains of a stream that have ended. *)
Ended(s) == s.byes + s.stalls

(* What PlayOnce does to chains: it drops one of a stream that does not    *)
(* play, ends one, or continues one with a closure for the same object.    *)
LEMMA PlayOnceEffect ==
    ASSUME TypeOK, NEW t \in Task, NEW p \in Seq(Task), NEW m \in Seq(Task),
           PlayOnce(t, p, m)
    PROVE  /\ \A b \in Addr \ {t.addr} : stream'[b] = stream[b]
           /\ stream'[t.addr].playing = stream[t.addr].playing
           /\ stream'[t.addr].source = stream[t.addr].source
           /\ stream'[t.addr].plays = stream[t.addr].plays
           /\ \/ /\ t.addr \notin live \/ ~Active(t)
                 /\ stream' = stream
                 /\ pending' = p /\ timers' = m
              \/ /\ Active(t)
                 /\ Ended(stream'[t.addr]) = Ended(stream[t.addr]) + 1
                 /\ pending' = p /\ timers' = m
              \/ /\ Active(t)
                 /\ Ended(stream'[t.addr]) = Ended(stream[t.addr])
                 /\ \E update \in BOOLEAN :
                      \/ /\ pending' = Append(p, Follow(t, update))
                         /\ timers' = m
                      \/ /\ pending' = p
                         /\ timers' = Append(m, Follow(t, update))
<1> DEFINE a == t.addr
           s == stream[a]
<1>1. a \in Addr /\ s \in Stream /\ s.byes \in Nat /\ s.stalls \in Nat
  BY SMTT(40) DEF TypeOK, Task, Stream
<1>2. CASE Cancel(t, p, m) \/ ReadGarbage(t, p, m)
  BY <1>2 DEF Cancel, ReadGarbage
<1>3. CASE SendBye(t, p, m)
  <2>1. PICK base \in Base(s) :
          stream' = [stream EXCEPT
                       ![a].ts = base,
                       ![a].pos = IF @ < Len(File) THEN @ + 1 ELSE @,
                       ![a].byes = @ + 1]
    BY <1>3, Zenon DEF SendBye
  <2>2. stream \in [Addr -> Stream]
    BY DEF TypeOK
  <2>3. \A b \in Addr \ {a} : stream'[b] = stream[b]
    BY <2>1, <2>2
  <2> DEFINE pos == IF s.pos < Len(File) THEN s.pos + 1 ELSE s.pos
  <2>4. stream'[a] = [s EXCEPT !.ts = base, !.pos = pos, !.byes = s.byes + 1]
    BY <1>1, <2>1, <2>2
  <2> HIDE DEF pos
  <2>5. /\ stream'[a].playing = s.playing
        /\ stream'[a].source = s.source
        /\ stream'[a].plays = s.plays
        /\ stream'[a].byes = s.byes + 1
        /\ stream'[a].stalls = s.stalls
    BY <1>1, <2>4, Zenon DEF Stream
  <2>6. Ended(stream'[a]) = Ended(s) + 1
    BY <1>1, <2>5 DEF Ended
  <2> QED
    BY <1>3, <2>3, <2>5, <2>6 DEF SendBye
<1>4. CASE SendParam(t, p, m)
  BY <1>4, DeliverEffect DEF SendParam, Ended
<1>5. CASE SendSlice(t, p, m)
  BY <1>5, DeliverEffect DEF SendSlice, Ended
<1>6. CASE SendEmpty(t, p, m)
  <2>1. Deliver(t, TRUE)
    BY <1>6 DEF SendEmpty
  <2>2. /\ \A b \in Addr \ {a} : stream'[b] = stream[b]
        /\ stream'[a].playing = s.playing
        /\ stream'[a].source = s.source
        /\ stream'[a].plays = s.plays
        /\ stream'[a].byes = s.byes
        /\ stream'[a].stalls = IF TRUE THEN s.stalls + 1 ELSE s.stalls
    BY <2>1, DeliverEffect, Zenon
  <2> HIDE DEF s
  <2>3. Ended(stream'[a]) = Ended(s) + 1
    BY ONLY <1>1, <2>2 DEF Ended
  <2>4. Active(t) /\ pending' = p /\ timers' = m
    BY <1>6 DEF SendEmpty
  <2> QED
    BY ONLY <2>2, <2>3, <2>4 DEF s
<1> QED
  BY <1>2, <1>3, <1>4, <1>5, <1>6 DEF PlayOnce

(* A closure that does not go on leaves all streams as they are. *)
LEMMA PlayOnceUntouched ==
    ASSUME NEW t, NEW p, NEW m, PlayOnce(t, p, m), ~Active(t)
    PROVE  stream' = stream
BY DEF PlayOnce, Cancel, ReadGarbage, SendBye, SendParam, SendSlice, SendEmpty

(* The loop touches a stream only if it lives and plays, and never starts  *)
(* or stops it.                                                            *)
LEMMA LoopEffect ==
    ASSUME TypeOK, FreeIsReset, RunFunctor \/ FireTimer
    PROVE  \A a \in Addr :
             /\ stream'[a].playing = stream[a].playing
             /\ stream'[a] # stream[a] => a \in live /\ stream[a].playing
<1>1. ASSUME NEW t \in Task, NEW p \in Seq(Task), NEW m \in Seq(Task), PlayOnce(t, p, m)
      PROVE  \A a \in Addr :
               /\ stream'[a].playing = stream[a].playing
               /\ stream'[a] # stream[a] => a \in live /\ stream[a].playing
  <2>1. /\ \A b \in Addr \ {t.addr} : stream'[b] = stream[b]
        /\ stream'[t.addr].playing = stream[t.addr].playing
        /\ Active(t) \/ stream' = stream
    BY <1>1, PlayOnceUntouched, PlayOnceEffect
  <2> QED
    BY <2>1 DEF Active, FreeIsReset
<1>2. CASE RunFunctor
  <2>1. PlayOnce(Head(pending), Tail(pending), timers) /\ pending # <<>>
    BY <1>2 DEF RunFunctor
  <2>2. Head(pending) \in Task /\ Tail(pending) \in Seq(Task) /\ timers \in Seq(Task)
    BY <2>1, HeadOfQueue DEF TypeOK
  <2> QED
    BY <1>1, <2>1, <2>2
<1>3. CASE FireTimer
  <2>1. PlayOnce(Head(timers), pending, Tail(timers)) /\ timers # <<>>
    BY <1>3 DEF FireTimer
  <2>2. Head(timers) \in Task /\ Tail(timers) \in Seq(Task) /\ pending \in Seq(Task)
    BY <2>1, HeadOfQueue DEF TypeOK
  <2> QED
    BY <1>1, <2>1, <2>2
<1> QED
  BY <1>2, <1>3

(* The count of a set of closures after a PlayOnce step that continues a   *)
(* chain.                                                                  *)
LEMMA ContinueCount ==
    ASSUME NEW u \in Task, NEW p \in Seq(Task), NEW m \in Seq(Task), NEW M,
           NEW p2, NEW m2,
           \/ p2 = Append(p, u) /\ m2 = m
           \/ p2 = p /\ m2 = Append(m, u)
    PROVE  Count(p2, M) + Count(m2, M) =
             Count(p, M) + Count(m, M) + (IF u \in M THEN 1 ELSE 0)
<1>1. Count(p, M) \in Nat /\ Count(m, M) \in Nat
  BY MatchingFinite
<1>2. Count(Append(p, u), M) = Count(p, M) + (IF u \in M THEN 1 ELSE 0)
  BY CountAppend
<1>3. Count(Append(m, u), M) = Count(m, M) + (IF u \in M THEN 1 ELSE 0)
  BY CountAppend
<1> DEFINE one == IF u \in M THEN 1 ELSE 0
<1>4. one \in Nat
  OBVIOUS
<1> HIDE DEF one
<1>5. CASE p2 = Append(p, u) /\ m2 = m
  <2>1. Count(p2, M) = Count(p, M) + one /\ Count(m2, M) = Count(m, M)
    BY <1>2, <1>5 DEF one
  <2> QED
    BY <1>1, <1>4, <2>1 DEF one
<1>6. CASE p2 = p /\ m2 = Append(m, u)
  <2>1. Count(p2, M) = Count(p, M) /\ Count(m2, M) = Count(m, M) + one
    BY <1>3, <1>6 DEF one
  <2> QED
    BY <1>1, <1>4, <2>1 DEF one
<1> QED
  BY <1>5, <1>6

(* A PlayOnce step keeps the two bounds on the chains of every stream; t   *)
(* is counted in the queues before the step.                               *)
LEMMA PlayOnceChains ==
    ASSUME TypeOK, IdleIsFresh, LiveHasSource,
           NEW t \in Task, NEW p \in Seq(Task), NEW m \in Seq(Task),
           PlayOnce(t, p, m), NEW a \in Addr
    PROVE  LET before(M) ==
                 Count(p, M) + Count(m, M) + (IF t \in M THEN 1 ELSE 0)
               after(M) == Count(pending', M) + Count(timers', M)
           IN  /\ before(ForBlock(a)) + Ended(stream[a]) <= starts[a]
                     => after(ForBlock(a)) + Ended(stream'[a]) <= starts[a]
               /\ a \in live
                     /\ before(ForCurrent(a)) + Ended(stream[a])
                          >= stream[a].plays
                     => after(ForCurrent(a)) + Ended(stream'[a])
                          >= stream'[a].plays
<1> DEFINE before(M) == Count(p, M) + Count(m, M) + (IF t \in M THEN 1 ELSE 0)
           after(M) == Count(pending', M) + Count(timers', M)
<1>1. /\ \A M : Count(p, M) \in Nat /\ Count(m, M) \in Nat
      /\ Ended(stream[a]) \in Nat
      /\ stream[a].plays \in Nat
      /\ starts[a] \in Nat
  <2>1. \A M : Count(p, M) \in Nat /\ Count(m, M) \in Nat
    BY MatchingFinite
  <2>2. stream[a] \in Stream /\ starts[a] \in Nat
    BY DEF TypeOK
  <2> QED
    BY SMTT(40), <2>1, <2>2 DEF Stream, Ended
<1>2. /\ \A b \in Addr \ {t.addr} : stream'[b] = stream[b]
      /\ stream'[t.addr].plays = stream[t.addr].plays
  BY PlayOnceEffect
<1>3. /\ t \in ForBlock(a) <=> t.addr = a
      /\ t \in ForCurrent(a) => t.addr = a
  BY DEF ForBlock, ForCurrent
<1>4. CASE /\ t.addr \notin live \/ ~Active(t)
           /\ stream' = stream
           /\ pending' = p /\ timers' = m
  <2>1. Ended(stream'[a]) = Ended(stream[a])
    BY <1>2, <1>4
  <2>2. before(ForBlock(a)) + Ended(stream[a]) <= starts[a]
          => after(ForBlock(a)) + Ended(stream'[a]) <= starts[a]
    BY <1>1, <1>4, <2>1
  <2>3. stream'[a].plays = stream[a].plays
    BY <1>2
  <2>4. ASSUME a \in live, t \in ForCurrent(a) PROVE stream[a].plays = 0
    BY <1>3, <1>4, <2>4 DEF Active, IdleIsFresh, LiveHasSource
  <2>5. ASSUME a \in live, before(ForCurrent(a)) + Ended(stream[a])
                             >= stream[a].plays
        PROVE  after(ForCurrent(a)) + Ended(stream'[a]) >= stream'[a].plays
    BY <1>1, <1>4, <2>1, <2>3, <2>4, <2>5
  <2> QED
    BY <2>2, <2>5
<1>5. CASE /\ Active(t)
           /\ Ended(stream'[t.addr]) = Ended(stream[t.addr]) + 1
           /\ pending' = p /\ timers' = m
  <2>1. CASE t.addr = a
    <3>1. /\ before(ForBlock(a)) = after(ForBlock(a)) + 1
          /\ before(ForCurrent(a)) <= after(ForCurrent(a)) + 1
      BY <1>1, <1>3, <1>5, <2>1
    <3>2. /\ Ended(stream'[a]) = Ended(stream[a]) + 1
          /\ stream'[a].plays = stream[a].plays
      BY <1>2, <1>5, <2>1
    <3>3. \A M : before(M) \in Nat /\ after(M) \in Nat
      BY <1>1, <1>5
    <3> HIDE DEF before, after
    <3>4. /\ before(ForBlock(a)) + Ended(stream[a]) <= starts[a]
                => after(ForBlock(a)) + Ended(stream'[a]) <= starts[a]
          /\ before(ForCurrent(a)) + Ended(stream[a]) >= stream[a].plays
                => after(ForCurrent(a)) + Ended(stream'[a])
                     >= stream'[a].plays
      BY SMTT(40), <1>1, <3>1, <3>2, <3>3
    <3> QED
      BY <3>4 DEF before, after
  <2>2. CASE t.addr # a
    BY <1>1, <1>2, <1>3, <1>5, <2>2
  <2> QED
    BY <2>1, <2>2
<1>6. CASE /\ Active(t)
           /\ Ended(stream'[t.addr]) = Ended(stream[t.addr])
           /\ \E update \in BOOLEAN :
                \/ /\ pending' = Append(p, Follow(t, update))
                   /\ timers' = m
                \/ /\ pending' = p
                   /\ timers' = Append(m, Follow(t, update))
  <2>1. PICK update \in BOOLEAN :
          \/ pending' = Append(p, Follow(t, update)) /\ timers' = m
          \/ pending' = p /\ timers' = Append(m, Follow(t, update))
    BY <1>6
  <2> DEFINE u == Follow(t, update)
  <2>2. u \in Task
    BY FollowType
  <2>3. /\ u \in ForBlock(a) <=> t.addr = a
        /\ u \in ForCurrent(a) <=> t.addr = a
    BY <2>2 DEF ForBlock, ForCurrent, Follow
  <2> HIDE DEF u
  <2>4. \A M : after(M) =
                 Count(p, M) + Count(m, M) + (IF u \in M THEN 1 ELSE 0)
    BY <2>1, <2>2, ContinueCount DEF u
  <2>5. Ended(stream'[a]) = Ended(stream[a])
        /\ stream'[a].plays = stream[a].plays
    BY <1>2, <1>6
  <2> QED
    BY SMTT(40), <1>1, <1>3, <2>3, <2>4, <2>5
<1> QED
  BY <1>4, <1>5, <1>6, PlayOnceEffect

(* A PlayOnce step of either queue keeps the invariant: t is the closure   *)
(* the loop runs, and the queues without it are p and m.                   *)
LEMMA PlayOnceInvariant ==
    ASSUME IInv, TypeOK',
           NEW t \in Task, NEW p \in Seq(Task), NEW m \in Seq(Task),
           PlayOnce(t, p, m), UNCHANGED <<live, lives, starts>>,
           \A M : Queued(M) =
                    Count(p, M) + Count(m, M) + (IF t \in M THEN 1 ELSE 0)
    PROVE  IInv'
<1>1. /\ TypeOK /\ IdleIsFresh /\ LiveHasSource /\ t.addr \in Addr
      /\ live' = live /\ lives' = lives /\ starts' = starts
  BY DEF IInv, TypeOK, Task
<1>2. \A a \in Addr : /\ stream'[a].playing = stream[a].playing
                       /\ stream'[a].source = stream[a].source
                       /\ stream'[a].plays = stream[a].plays
  BY <1>1, PlayOnceEffect
<1>3. FreeIsReset' /\ LiveHasSource' /\ IdleIsFresh'
  BY <1>1, <1>2 DEF IInv, FreeIsReset, LiveHasSource, IdleIsFresh, TypeOK
<1>4. \A a \in Addr : /\ ForBlock(a)' = ForBlock(a)
                       /\ ForCurrent(a)' = ForCurrent(a)
  BY <1>1 DEF ForBlock, ForCurrent
<1>5. \A a \in Addr : /\ Ended(stream[a]) = stream[a].byes + stream[a].stalls
                       /\ Ended(stream'[a]) = stream'[a].byes + stream'[a].stalls
                       /\ stream[a].byes \in Nat /\ stream[a].stalls \in Nat
                       /\ stream'[a].byes \in Nat /\ stream'[a].stalls \in Nat
  BY <1>1, TypeOK' DEF TypeOK, Stream, Ended
<1>6. \A M : /\ Queued(M) \in Nat
             /\ Count(pending', M) \in Nat /\ Count(timers', M) \in Nat
  <2>1. /\ pending \in Seq(Task) /\ timers \in Seq(Task)
        /\ pending' \in Seq(Task) /\ timers' \in Seq(Task)
    BY <1>1, TypeOK' DEF TypeOK
  <2>2. \A M : /\ Count(pending, M) \in Nat /\ Count(timers, M) \in Nat
               /\ Count(pending', M) \in Nat /\ Count(timers', M) \in Nat
    BY <2>1, MatchingFinite
  <2> QED
    BY <2>2 DEF Queued
<1>7. ASSUME NEW a \in live PROVE (Queued(ForCurrent(a)) + stream[a].byes
                                    + stream[a].stalls >= stream[a].plays)'
  <2>1. a \in Addr
    BY <1>1 DEF TypeOK
  <2>2. Queued(ForCurrent(a)) + Ended(stream[a]) >= stream[a].plays
    BY SMTT(40), <1>5, <1>6, <2>1 DEF IInv, NoLostChain
  <2>3. Count(pending', ForCurrent(a)) + Count(timers', ForCurrent(a))
          + Ended(stream'[a]) >= stream'[a].plays
    BY <1>1, <2>1, <2>2, PlayOnceChains
  <2> QED
    BY SMTT(40), <1>4, <1>5, <1>6, <2>1, <2>3 DEF Queued
<1>8. ASSUME NEW a \in Addr PROVE (Queued(ForBlock(a)) + stream[a].byes
                                    + stream[a].stalls <= starts[a])'
  <2>1. Queued(ForBlock(a)) + Ended(stream[a]) <= starts[a]
    <3>1. Queued(ForBlock(a)) + stream[a].byes + stream[a].stalls <= starts[a]
      BY DEF IInv, NoExtraChain
    <3>2. Queued(ForBlock(a)) \in Nat
      BY <1>6
    <3> QED
      BY <1>5, <3>1, <3>2
  <2>2. Count(pending', ForBlock(a)) + Count(timers', ForBlock(a))
          + Ended(stream'[a]) <= starts[a]
    BY <1>1, <2>1, PlayOnceChains
  <2> QED
    BY SMTT(40), <1>1, <1>4, <1>5, <1>6, <2>2 DEF Queued
<1>9. NoLostChain' /\ NoExtraChain'
  BY <1>1, <1>7, <1>8 DEF NoLostChain, NoExtraChain
<1>10. PlayingIsPlayed'
  <2> SUFFICES ASSUME NEW a \in Addr, stream'[a].playing
               PROVE  stream'[a].plays > 0
    BY DEF PlayingIsPlayed
  <2> QED
    BY <1>2 DEF IInv, PlayingIsPlayed
<1>11. SilentUntilPlayed'
  <2> SUFFICES ASSUME NEW a \in Addr, stream'[a].plays = 0
               PROVE  /\ stream'[a].sent = <<>> /\ stream'[a].byes = 0
                      /\ stream'[a].stalls = 0
    BY DEF SilentUntilPlayed
  <2>1. stream[a].plays = 0
    BY <1>2
  <2>2. ~stream[a].playing
    BY <2>1 DEF IInv, PlayingIsPlayed
  <2>3. stream'[a] = stream[a]
    <3>1. CASE t.addr = a
      BY <1>1, <2>2, <3>1, PlayOnceUntouched DEF Active
    <3>2. CASE t.addr # a
      BY <1>1, <3>2, PlayOnceEffect
    <3> QED
      BY <3>1, <3>2
  <2> QED
    BY <2>1, <2>3 DEF IInv, SilentUntilPlayed
<1> QED
  BY <1>3, <1>9, <1>10, <1>11 DEF IInv

(* Construction: the new stream has no chain, the others keep theirs. *)
LEMMA ConstructInvariant ==
    ASSUME IInv, TypeOK', NEW c \in Addr, Construct(c)
    PROVE  IInv'
<1>1. TypeOK
  BY DEF IInv
<1>2. /\ live' = live \union {c}
      /\ starts' = starts /\ pending' = pending /\ timers' = timers
      /\ \A a \in Addr \ {c} : stream'[a] = stream[a] /\ lives'[a] = lives[a]
      /\ stream'[c] = NewStream
  BY <1>1 DEF Construct, TypeOK
<1>3. /\ stream'[c].playing = FALSE /\ stream'[c].plays = 0
      /\ stream'[c].source = TRUE
      /\ stream'[c].byes = 0 /\ stream'[c].stalls = 0
  BY <1>2 DEF NewStream
<1>4. FreeIsReset' /\ LiveHasSource' /\ IdleIsFresh'
  BY <1>1, <1>2, <1>3 DEF IInv, FreeIsReset, LiveHasSource, IdleIsFresh, TypeOK
<1>5. \A M : Queued(M) \in Nat
  BY <1>1, MatchingFinite DEF TypeOK, Queued
<1>6. /\ \A M : Count(pending', M) + Count(timers', M) = Queued(M)
      /\ \A a \in Addr : ForBlock(a)' = ForBlock(a)
      /\ \A a \in Addr \ {c} : ForCurrent(a)' = ForCurrent(a)
  BY <1>2 DEF Queued, ForBlock, ForCurrent
<1>7. NoLostChain'
  <2> SUFFICES ASSUME NEW a \in live'
               PROVE  (Queued(ForCurrent(a)) + stream[a].byes
                        + stream[a].stalls >= stream[a].plays)'
    BY DEF NoLostChain
  <2>1. CASE a = c
    <3>1. Queued(ForCurrent(a))' \in Nat
      BY <1>2, MatchingFinite, TypeOK' DEF TypeOK, Queued
    <3> QED
      BY <1>3, <2>1, <3>1
  <2>2. CASE a # c
    <3>1. a \in live /\ a \in Addr \ {c}
      BY <1>1, <1>2, <2>2 DEF TypeOK
    <3>2. Queued(ForCurrent(a))' = Queued(ForCurrent(a))
      BY <1>2, <1>6, <3>1 DEF Queued
    <3> QED
      BY <1>2, <3>1, <3>2 DEF IInv, NoLostChain
  <2> QED
    BY <2>1, <2>2
<1>8. NoExtraChain'
  <2> SUFFICES ASSUME NEW a \in Addr
               PROVE  (Queued(ForBlock(a)) + stream[a].byes
                        + stream[a].stalls <= starts[a])'
    BY DEF NoExtraChain
  <2>1. Queued(ForBlock(a))' = Queued(ForBlock(a))
    BY <1>2, <1>6 DEF Queued
  <2>2. /\ Queued(ForBlock(a)) + stream[a].byes + stream[a].stalls <= starts[a]
        /\ stream[a].byes \in Nat /\ stream[a].stalls \in Nat
        /\ starts[a] \in Nat /\ Queued(ForBlock(a)) \in Nat
    BY <1>1, <1>5 DEF IInv, NoExtraChain, TypeOK, Stream
  <2>3. CASE a = c
    BY <1>2, <1>3, <2>1, <2>2, <2>3
  <2>4. CASE a # c
    BY <1>2, <2>1, <2>2, <2>4
  <2> QED
    BY <2>3, <2>4
<1>9. PlayingIsPlayed'
  <2> SUFFICES ASSUME NEW a \in Addr, stream'[a].playing
               PROVE  stream'[a].plays > 0
    BY DEF PlayingIsPlayed
  <2>1. a # c
    BY <1>3
  <2> QED
    BY <1>2, <2>1 DEF IInv, PlayingIsPlayed
<1>10. SilentUntilPlayed'
  <2> SUFFICES ASSUME NEW a \in Addr, stream'[a].plays = 0
               PROVE  /\ stream'[a].sent = <<>> /\ stream'[a].byes = 0
                      /\ stream'[a].stalls = 0
    BY DEF SilentUntilPlayed
  <2>1. CASE a = c
    BY <1>2, <2>1 DEF NewStream
  <2>2. CASE a # c
    BY <1>2, <2>2 DEF IInv, SilentUntilPlayed
  <2> QED
    BY <2>1, <2>2
<1> QED
  BY <1>4, <1>7, <1>8, <1>9, <1>10 DEF IInv

(* Release: counters and queues stay, and fewer streams are concerned. *)
LEMMA ReleaseInvariant ==
    ASSUME IInv, TypeOK', NEW S, Release(S)
    PROVE  IInv'
<1>1. /\ TypeOK
      /\ live' = live \ S /\ live \subseteq Addr
      /\ lives' = lives /\ starts' = starts
      /\ pending' = pending /\ timers' = timers
  BY DEF IInv, TypeOK, Release
<1>2. \A a \in Addr : a \notin S => stream'[a] = stream[a]
  BY DEF Release
<1>3. \A a \in Addr :
        a \in S => stream'[a].playing = FALSE /\ stream'[a].source = FALSE
  <2> SUFFICES ASSUME NEW a \in Addr, a \in S
               PROVE  stream'[a].playing = FALSE /\ stream'[a].source = FALSE
    OBVIOUS
  <2>1. stream'[a] = [stream[a] EXCEPT !.playing = FALSE, !.source = FALSE]
    BY DEF Release
  <2>2. stream[a] \in Stream
    BY <1>1 DEF TypeOK
  <2> QED
    BY <2>1, <2>2, Zenon DEF Stream
<1>4. \A a \in Addr : /\ stream'[a].byes = stream[a].byes
                       /\ stream'[a].stalls = stream[a].stalls
                       /\ stream'[a].plays = stream[a].plays
                       /\ stream'[a].sent = stream[a].sent
  BY <1>1 DEF Release, TypeOK, Stream
<1>5. FreeIsReset'
  <2> SUFFICES ASSUME NEW a \in Addr, a \notin live'
               PROVE  ~stream'[a].playing /\ ~stream'[a].source
    BY DEF FreeIsReset
  <2>1. CASE a \in S
    BY <1>3, <2>1
  <2>2. CASE a \notin S
    <3>1. a \in Addr \ live /\ stream'[a] = stream[a]
      BY <1>1, <1>2, <2>2
    <3> QED
      BY <3>1 DEF IInv, FreeIsReset
  <2> QED
    BY <2>1, <2>2
<1>6. LiveHasSource' /\ IdleIsFresh'
  <2>1. \A a \in live' : a \in live /\ a \in Addr /\ stream'[a] = stream[a]
    BY <1>1, <1>2
  <2> QED
    BY <2>1 DEF IInv, LiveHasSource, IdleIsFresh
<1>7. \A a \in Addr : /\ Queued(ForBlock(a))' = Queued(ForBlock(a))
                       /\ Queued(ForCurrent(a))' = Queued(ForCurrent(a))
  BY <1>1 DEF Queued, ForBlock, ForCurrent
<1>8. NoLostChain'
  <2> SUFFICES ASSUME NEW a \in live'
               PROVE  (Queued(ForCurrent(a)) + stream[a].byes
                        + stream[a].stalls >= stream[a].plays)'
    BY DEF NoLostChain
  <2>1. a \in live /\ a \in Addr
    BY <1>1
  <2>2. Queued(ForCurrent(a)) + stream[a].byes + stream[a].stalls
          >= stream[a].plays
    BY <2>1 DEF IInv, NoLostChain
  <2> QED
    BY <1>4, <1>7, <2>1, <2>2
<1>9. NoExtraChain'
  <2> SUFFICES ASSUME NEW a \in Addr
               PROVE  (Queued(ForBlock(a)) + stream[a].byes
                        + stream[a].stalls <= starts[a])'
    BY DEF NoExtraChain
  <2>1. Queued(ForBlock(a)) + stream[a].byes + stream[a].stalls <= starts[a]
    BY DEF IInv, NoExtraChain
  <2> QED
    BY <1>1, <1>4, <1>7, <2>1
<1>10. PlayingIsPlayed'
  <2> SUFFICES ASSUME NEW a \in Addr, stream'[a].playing
               PROVE  stream'[a].plays > 0
    BY DEF PlayingIsPlayed
  <2>1. a \notin S
    BY <1>3
  <2> QED
    BY <1>2, <2>1 DEF IInv, PlayingIsPlayed
<1>11. SilentUntilPlayed'
  <2> SUFFICES ASSUME NEW a \in Addr, stream'[a].plays = 0
               PROVE  /\ stream'[a].sent = <<>> /\ stream'[a].byes = 0
                      /\ stream'[a].stalls = 0
    BY DEF SilentUntilPlayed
  <2> QED
    BY <1>4 DEF IInv, SilentUntilPlayed
<1> QED
  BY <1>5, <1>6, <1>8, <1>9, <1>10, <1>11 DEF IInv

(* A Play request: every stream of the session starts one chain. *)
LEMMA PlayInvariant ==
    ASSUME IInv, TypeOK', NEW q \in Sessions(live), Play(q)
    PROVE  IInv'
<1> DEFINE batch == [i \in DOMAIN q |-> [addr |-> q[i], life |-> lives[q[i]],
                                         update |-> TRUE]]
<1>1. /\ TypeOK
      /\ live' = live /\ lives' = lives /\ timers' = timers
      /\ pending' = pending \o batch
      /\ batch \in Seq(Task)
  BY Zenon, PlayBatch DEF IInv, Play
<1>2. \A a \in Addr : /\ stream'[a].byes = stream[a].byes
                       /\ stream'[a].stalls = stream[a].stalls
  BY ZenonT(40), <1>1 DEF Play, TypeOK, Stream
<1>3. \A a \in Addr \ Range(q) : /\ stream'[a] = stream[a]
                                  /\ starts'[a] = starts[a]
  BY Zenon, <1>1 DEF Play
<1>4. \A a \in Addr : a \in Range(q) =>
        /\ stream'[a].playing
        /\ stream'[a].source = stream[a].source
        /\ stream'[a].plays = stream[a].plays + 1
        /\ starts'[a] = starts[a] + 1
        /\ a \in live
  <2> SUFFICES ASSUME NEW a \in Addr, a \in Range(q)
               PROVE  /\ stream'[a].playing
                      /\ stream'[a].source = stream[a].source
                      /\ stream'[a].plays = stream[a].plays + 1
                      /\ starts'[a] = starts[a] + 1
                      /\ a \in live
    OBVIOUS
  <2>1. stream'[a] = [stream[a] EXCEPT !.playing = TRUE, !.plays = @ + 1]
    BY Zenon DEF Play
  <2>2. stream[a] \in Stream
    BY <1>1 DEF TypeOK
  <2>3. /\ stream'[a].playing /\ stream'[a].source = stream[a].source
        /\ stream'[a].plays = stream[a].plays + 1
    BY <2>1, <2>2, Zenon DEF Stream
  <2>4. starts'[a] = starts[a] + 1
    BY Zenon DEF Play
  <2>5. a \in live
    BY <1>1, PlayBatch DEF Range
  <2> QED
    BY <2>3, <2>4, <2>5
<1>5. FreeIsReset'
  BY <1>1, <1>3, <1>4 DEF IInv, FreeIsReset
<1>6. LiveHasSource' /\ IdleIsFresh'
  BY <1>1, <1>3, <1>4 DEF IInv, LiveHasSource, IdleIsFresh, TypeOK
<1>7. \A a \in Addr : /\ ForBlock(a)' = ForBlock(a)
                       /\ ForCurrent(a)' = ForCurrent(a)
  BY <1>1 DEF ForBlock, ForCurrent
<1>8. /\ \A M : Count(pending, M) \in Nat /\ Count(timers, M) \in Nat
      /\ \A a \in Addr : /\ stream[a].byes \in Nat /\ stream[a].stalls \in Nat
                          /\ stream[a].plays \in Nat /\ starts[a] \in Nat
  <2>1. \A M : Count(pending, M) \in Nat /\ Count(timers, M) \in Nat
    BY <1>1, MatchingFinite DEF TypeOK
  <2> QED
    BY <1>1, <2>1 DEF TypeOK, Stream
<1>9. \A a \in Addr : \A i \in DOMAIN batch :
        /\ batch[i] \in ForBlock(a) <=> q[i] = a
        /\ batch[i] \in ForCurrent(a) <=> q[i] = a
  <2>1. \A i \in DOMAIN batch : batch[i] \in Task
    BY <1>1, LenProperties, ElementOfSeq
  <2> QED
    BY <2>1 DEF ForBlock, ForCurrent
<1>10. ASSUME NEW a \in Addr, a \in Range(q)
       PROVE  /\ Queued(ForBlock(a))' = Queued(ForBlock(a)) + 1
              /\ Queued(ForCurrent(a))' = Queued(ForCurrent(a)) + 1
  <2>1. PICK k \in DOMAIN q : q[k] = a
    BY <1>10 DEF Range
  <2>2. \A i \in DOMAIN batch : q[i] = a <=> i = k
    BY <1>1, <2>1, PlayBatch DEF IsInjective
  <2> HIDE DEF batch
  <2>3. k \in DOMAIN batch
    BY <2>1 DEF batch
  <2>4. pending \in Seq(Task) /\ batch \in Seq(Task)
    BY <1>1 DEF TypeOK
  <2>5. /\ \A i \in DOMAIN batch : batch[i] \in ForBlock(a) <=> i = k
        /\ \A i \in DOMAIN batch : batch[i] \in ForCurrent(a) <=> i = k
    BY <1>9, <2>2
  <2>6. Count(pending \o batch, ForBlock(a)) = Count(pending, ForBlock(a)) + 1
    BY <2>3, <2>4, <2>5, CountConcat
  <2>7. Count(pending \o batch, ForCurrent(a))
          = Count(pending, ForCurrent(a)) + 1
    BY <2>3, <2>4, <2>5, CountConcat
  <2> QED
    BY SMTT(40), <1>1, <1>7, <1>8, <2>6, <2>7 DEF Queued
<1>11. ASSUME NEW a \in Addr, a \notin Range(q)
       PROVE  /\ Queued(ForBlock(a))' = Queued(ForBlock(a))
              /\ Queued(ForCurrent(a))' = Queued(ForCurrent(a))
  <2>1. \A i \in DOMAIN batch : q[i] # a
    BY <1>11 DEF Range
  <2> HIDE DEF batch
  <2>2. \A i \in DOMAIN batch : /\ batch[i] \notin ForBlock(a)
                                /\ batch[i] \notin ForCurrent(a)
    BY <1>9, <2>1
  <2>3. pending \in Seq(Task) /\ batch \in Seq(Task)
    BY <1>1 DEF TypeOK
  <2>4. Count(pending \o batch, ForBlock(a)) = Count(pending, ForBlock(a))
    BY <2>2, <2>3, CountConcat
  <2>5. Count(pending \o batch, ForCurrent(a)) = Count(pending, ForCurrent(a))
    BY <2>2, <2>3, CountConcat
  <2> QED
    BY <1>1, <1>7, <1>8, <2>4, <2>5 DEF Queued
<1>12. \A M : Queued(M) \in Nat
  BY <1>8 DEF Queued
<1>13. NoLostChain'
  <2> SUFFICES ASSUME NEW a \in live
               PROVE  (Queued(ForCurrent(a)) + stream[a].byes
                        + stream[a].stalls >= stream[a].plays)'
    BY <1>1 DEF NoLostChain
  <2>1. a \in Addr /\ Queued(ForCurrent(a)) + stream[a].byes
                        + stream[a].stalls >= stream[a].plays
    BY <1>1 DEF IInv, NoLostChain, TypeOK
  <2>2. CASE a \in Range(q)
    BY <1>2, <1>4, <1>8, <1>10, <1>12, <2>1, <2>2
  <2>3. CASE a \notin Range(q)
    BY <1>3, <1>11, <2>1, <2>3
  <2> QED
    BY <2>2, <2>3
<1>14. NoExtraChain'
  <2> SUFFICES ASSUME NEW a \in Addr
               PROVE  (Queued(ForBlock(a)) + stream[a].byes
                        + stream[a].stalls <= starts[a])'
    BY DEF NoExtraChain
  <2>1. Queued(ForBlock(a)) + stream[a].byes + stream[a].stalls <= starts[a]
    BY DEF IInv, NoExtraChain
  <2>2. CASE a \in Range(q)
    BY <1>2, <1>4, <1>8, <1>10, <1>12, <2>1, <2>2
  <2>3. CASE a \notin Range(q)
    BY <1>3, <1>11, <2>1, <2>3
  <2> QED
    BY <2>2, <2>3
<1>15. PlayingIsPlayed'
  <2> SUFFICES ASSUME NEW a \in Addr, stream'[a].playing
               PROVE  stream'[a].plays > 0
    BY DEF PlayingIsPlayed
  <2>1. CASE a \in Range(q)
    BY <1>4, <1>8, <2>1
  <2>2. CASE a \notin Range(q)
    BY <1>3, <2>2 DEF IInv, PlayingIsPlayed
  <2> QED
    BY <2>1, <2>2
<1>16. SilentUntilPlayed'
  <2> SUFFICES ASSUME NEW a \in Addr, stream'[a].plays = 0
               PROVE  /\ stream'[a].sent = <<>> /\ stream'[a].byes = 0
                      /\ stream'[a].stalls = 0
    BY DEF SilentUntilPlayed
  <2>1. a \notin Range(q)
    BY <1>4, <1>8
  <2> QED
    BY <1>3, <2>1 DEF IInv, SilentUntilPlayed
<1> QED
  BY <1>5, <1>6, <1>13, <1>14, <1>15, <1>16 DEF IInv

(* Every step keeps the invariant. *)
LEMMA InvariantStep == IInv /\ [Next]_vars => IInv'
<1> SUFFICES ASSUME IInv, [Next]_vars PROVE IInv'
  OBVIOUS
<1>1. TypeOK /\ TypeOK'
  BY TypeStep DEF IInv
<1>2. ASSUME NEW a \in Addr, Construct(a) PROVE IInv'
  BY <1>1, <1>2, ConstructInvariant
<1>3. ASSUME NEW q \in Sessions(live), Play(q) PROVE IInv'
  BY <1>1, <1>3, PlayInvariant
<1>4. ASSUME NEW S \in (SUBSET live) \ {{}}, Release(S) PROVE IInv'
  BY <1>1, <1>4, ReleaseInvariant
<1>5. CASE RunFunctor
  <2>1. /\ Head(pending) \in Task /\ Tail(pending) \in Seq(Task)
        /\ timers \in Seq(Task)
    BY <1>1, <1>5, HeadOfQueue DEF RunFunctor, TypeOK
  <2>2. \A M : /\ Count(Tail(pending), M) \in Nat
               /\ Count(timers, M) \in Nat
               /\ Count(pending, M) = Count(Tail(pending), M)
                     + (IF Head(pending) \in M THEN 1 ELSE 0)
    BY <1>1, <1>5, <2>1, CountTail, MatchingFinite DEF RunFunctor, TypeOK
  <2>3. \A M : Queued(M) = Count(Tail(pending), M) + Count(timers, M)
                             + (IF Head(pending) \in M THEN 1 ELSE 0)
    BY <2>2 DEF Queued
  <2> QED
    BY <1>1, <1>5, <2>1, <2>3, PlayOnceInvariant DEF RunFunctor
<1>6. CASE FireTimer
  <2>1. /\ Head(timers) \in Task /\ Tail(timers) \in Seq(Task)
        /\ pending \in Seq(Task)
    BY <1>1, <1>6, HeadOfQueue DEF FireTimer, TypeOK
  <2>2. \A M : /\ Count(Tail(timers), M) \in Nat
               /\ Count(pending, M) \in Nat
               /\ Count(timers, M) = Count(Tail(timers), M)
                     + (IF Head(timers) \in M THEN 1 ELSE 0)
    BY <1>1, <1>6, <2>1, CountTail, MatchingFinite DEF FireTimer, TypeOK
  <2>3. \A M : Queued(M) = Count(pending, M) + Count(Tail(timers), M)
                             + (IF Head(timers) \in M THEN 1 ELSE 0)
    BY <2>2 DEF Queued
  <2> QED
    BY <1>1, <1>6, <2>1, <2>3, PlayOnceInvariant DEF FireTimer
<1>7. CASE UNCHANGED vars
  <2>1. \A a : /\ ForBlock(a)' = ForBlock(a)
               /\ ForCurrent(a)' = ForCurrent(a)
    BY <1>7 DEF vars, ForBlock, ForCurrent
  <2> QED
    BY <1>1, <1>7, <2>1 DEF vars, IInv, FreeIsReset, LiveHasSource, IdleIsFresh,
                          PlayingIsPlayed, SilentUntilPlayed, NoLostChain,
                          NoExtraChain, Queued
<1> QED
  BY <1>2, <1>3, <1>4, <1>5, <1>6, <1>7 DEF Next, Request

(* The invariant holds before the first request. *)
LEMMA InvariantInit == Init => IInv
<1> SUFFICES ASSUME Init PROVE IInv
  OBVIOUS
<1>1. TypeOK
  BY TypeInit
<1>2. \A M : Queued(M) = 0
  <2>1. \A M : Matching(<<>>, M) = {}
    BY DEF Matching
  <2> QED
    BY <2>1, FS_EmptySet DEF Init, Queued, Count
<1>3. \A a \in Addr : /\ stream[a].playing = FALSE /\ stream[a].sent = <<>>
                       /\ stream[a].source = FALSE
                       /\ stream[a].byes = 0 /\ stream[a].stalls = 0
                       /\ starts[a] = 0
  BY DEF Init, NoStream, NewStream
<1> QED
  BY <1>1, <1>2, <1>3 DEF IInv, Init, FreeIsReset, LiveHasSource, IdleIsFresh,
                          PlayingIsPlayed, SilentUntilPlayed, NoLostChain,
                          NoExtraChain

(* The invariant, for every number of streams, file and bound. *)
THEOREM Invariant == Spec => []IInv
<1> QED
  BY InvariantInit, InvariantStep, PTL DEF Spec

(* A step changes nothing in a block that is free and stays free. *)
FreeUntouched == \A a \in Addr \ (live \union live') : stream'[a] = stream[a]

(* No step does anything for a stream that is destroyed. *)
LEMMA FreeStep == IInv /\ [Next]_vars => FreeUntouched
<1> SUFFICES ASSUME IInv, [Next]_vars,
                    NEW a \in Addr, a \notin live, a \notin live'
             PROVE  stream'[a] = stream[a]
  BY DEF FreeUntouched
<1>1. TypeOK /\ FreeIsReset
  BY DEF IInv
<1>2. ASSUME NEW c \in Addr, Construct(c) PROVE stream'[a] = stream[a]
  BY <1>1, <1>2 DEF Construct, TypeOK
<1>3. ASSUME NEW q \in Sessions(live), Play(q) PROVE stream'[a] = stream[a]
  <2>1. a \notin Range(q)
    BY <1>1, PlayBatch DEF Range
  <2> QED
    BY Zenon, <1>3, <2>1 DEF Play
<1>4. ASSUME NEW S \in (SUBSET live) \ {{}}, Release(S)
      PROVE  stream'[a] = stream[a]
  BY <1>4 DEF Release
<1>5. CASE RunFunctor \/ FireTimer
  BY <1>1, <1>5, LoopEffect
<1>6. CASE UNCHANGED vars
  BY <1>6 DEF vars
<1> QED
  BY <1>2, <1>3, <1>4, <1>5, <1>6 DEF Next, Request

(* The closures that are run for a destroyed stream, whether it went away  *)
(* by TEARDOWN or with its connection, send nothing as long as its block   *)
(* is free (rtsp_stream_state.cpp:27-34, 138-147).                         *)
THEOREM ReleasedStaysSilent == Spec => ReleasedIsSilent
<1>1. IInv /\ [Next]_vars => [FreeUntouched]_vars
  BY FreeStep
<1>2. [][FreeUntouched]_vars => ReleasedIsSilent
  <2>1. [FreeUntouched]_vars =>
          [\A a \in Addr \ (live \union live') : stream'[a] = stream[a]]_vars
    BY DEF FreeUntouched
  <2> QED
    BY <2>1, PTL DEF ReleasedIsSilent
<1> QED
  BY <1>1, <1>2, Invariant, PTL DEF Spec

(* A stream sends nothing before its own first Play, whatever closures the *)
(* earlier objects of its block left (stream_state.cpp:5-10).              *)
THEOREM SilenceUntilPlay == Spec => []SilentUntilPlayed
<1>1. IInv => SilentUntilPlayed
  BY DEF IInv
<1> QED
  BY <1>1, Invariant, PTL

(* PlayOnce loses no chain that a Play call of the present object began:   *)
(* each is queued or has ended (rtsp_stream_state.cpp:137-191).            *)
THEOREM ChainsAreKept == Spec => []NoLostChain
<1>1. IInv => NoLostChain
  BY DEF IInv
<1> QED
  BY <1>1, Invariant, PTL

(* PlayOnce never multiplies: there are never more chains for a block than *)
(* Play calls on the streams that lived there.                             *)
THEOREM ChainsAreBounded == Spec => []NoExtraChain
<1>1. IInv => NoExtraChain
  BY DEF IInv
<1> QED
  BY <1>1, Invariant, PTL

-----------------------------------------------------------------------------
(* One chain keeps the timeline.                                           *)

(* The file does not reach the end of the timestamps: 2^32 is some 13      *)
(* hours of it.  (At the wrap a timestamp may become 0, which stands for   *)
(* "none chosen yet".)                                                     *)
FileFitsTimestamps ==
    /\ TsDuration > 0
    /\ \A r \in RandomTs : r + Len(File) * TsDuration < TsMod

(* The closures that wait to be run. *)
Waiting == Range(pending) \cup Range(timers)

(* The closure t will send the next NALU of s when it is due: it steps the *)
(* timestamp at first and after a slice, and does not after a parameter    *)
(* set.  Every NALU took one step at most.                                 *)
InTime(s, t) ==
    IF s.sent = <<>>
    THEN t.update /\ s.ts = 0
    ELSE LET last == s.sent[Len(s.sent)] IN
         /\ s.ts = last.ts /\ s.ts > 0
         /\ last.nalu = "param" => ~t.update
         /\ last.nalu = "slice" => t.update
         /\ \E r \in RandomTs : s.ts <= r + s.pos * TsDuration

Timed(a) ==
    /\ stream[a].plays <= starts[a]
    /\ stream[a].plays = 0 => stream[a].ts = 0
    /\ starts[a] = 1 /\ stream[a].plays > 0 =>
         \A t \in Waiting : t.addr = a => InTime(stream[a], t)
    /\ starts[a] = 1 => Timeline(stream[a])

TimeInv == FileFitsTimestamps /\ IInv /\ \A a \in Addr : Timed(a)

(* A set whose count is 0 has no closure in the queue. *)
LEMMA NoneCounted ==
    ASSUME NEW queue \in Seq(Task), NEW M, Count(queue, M) = 0
    PROVE  \A t \in Range(queue) : t \notin M
<1>1. IsFiniteSet(Matching(queue, M))
  BY MatchingFinite
<1>2. Matching(queue, M) = {}
  BY <1>1, FS_EmptySet DEF Count
<1> QED
  BY <1>2 DEF Matching, Range

(* What a queue holds after an Append, or with its head. *)
LEMMA RangeOfQueue ==
    ASSUME NEW queue \in Seq(Task)
    PROVE  /\ Range(queue) \subseteq Task
           /\ \A t \in Task : Range(Append(queue, t)) = Range(queue) \cup {t}
           /\ queue # <<>> =>
                Range(queue) = {Head(queue)} \cup Range(Tail(queue))
           /\ \A batch \in Seq(Task) :
                Range(queue \o batch) = Range(queue) \cup Range(batch)
<1>1. Len(queue) \in Nat /\ DOMAIN queue = 1 .. Len(queue)
  BY LenProperties
<1>2. Range(queue) \subseteq Task
  BY <1>1, ElementOfSeq DEF Range
<1>3. ASSUME NEW t \in Task
      PROVE  Range(Append(queue, t)) = Range(queue) \cup {t}
  <2> DEFINE q == Append(queue, t)
  <2>1. /\ DOMAIN q = 1 .. Len(queue) + 1 /\ q[Len(queue) + 1] = t
        /\ \A i \in 1 .. Len(queue) : q[i] = queue[i]
    BY <1>1, AppendProperties, LenProperties
  <2> HIDE DEF q
  <2>2. Range(q) = Range(queue) \cup {t}
    BY <1>1, <2>1 DEF Range
  <2> QED
    BY <2>2 DEF q
<1>4. ASSUME queue # <<>>
      PROVE  Range(queue) = {Head(queue)} \cup Range(Tail(queue))
  <2> DEFINE q == Tail(queue)
  <2>1. /\ Head(queue) = queue[1] /\ DOMAIN q = 1 .. Len(queue) - 1
        /\ \A i \in 1 .. Len(queue) - 1 : q[i] = queue[i + 1]
        /\ Len(queue) >= 1
    BY <1>1, <1>4, HeadTailProperties, LenProperties, EmptySeq
  <2> HIDE DEF q
  <2>2. ASSUME NEW i \in 1 .. Len(queue)
        PROVE  queue[i] \in {Head(queue)} \cup Range(q)
    <3>1. CASE i = 1
      BY <2>1, <3>1
    <3>2. CASE i # 1
      <4>1. i - 1 \in 1 .. Len(queue) - 1 /\ (i - 1) + 1 = i
        BY <1>1, <3>2
      <4>2. i - 1 \in DOMAIN q /\ q[i - 1] = queue[i]
        BY <2>1, <4>1
      <4> QED
        BY <4>2 DEF Range
    <3> QED
      BY <3>1, <3>2
  <2>3. ASSUME NEW i \in DOMAIN q PROVE q[i] \in Range(queue)
    <3>1. i + 1 \in DOMAIN queue /\ q[i] = queue[i + 1]
      BY <1>1, <2>1
    <3> QED
      BY <3>1 DEF Range
  <2>4. Head(queue) \in Range(queue)
    BY <1>1, <2>1 DEF Range
  <2>5. Range(queue) = {Head(queue)} \cup Range(q)
    BY <1>1, <2>2, <2>3, <2>4 DEF Range
  <2> QED
    BY <2>5 DEF q
<1>5. ASSUME NEW batch \in Seq(Task)
      PROVE  Range(queue \o batch) = Range(queue) \cup Range(batch)
  <2> DEFINE q == queue \o batch
             n == Len(queue)
             m == Len(batch)
  <2>1. /\ m \in Nat /\ DOMAIN batch = 1 .. m /\ DOMAIN q = 1 .. n + m
        /\ \A i \in 1 .. n + m : q[i] = IF i <= n THEN queue[i] ELSE batch[i - n]
    BY <1>1, ConcatProperties, LenProperties
  <2>2. n \in Nat /\ DOMAIN queue = 1 .. n
    BY <1>1
  <2> HIDE DEF q, n, m
  <2>3. ASSUME NEW i \in 1 .. n PROVE queue[i] \in Range(q)
    <3>1. i \in DOMAIN q /\ q[i] = queue[i]
      BY <2>1, <2>2
    <3> QED
      BY <3>1 DEF Range
  <2>4. ASSUME NEW i \in 1 .. m PROVE batch[i] \in Range(q)
    <3>1. n + i \in DOMAIN q /\ ~(n + i <= n) /\ (n + i) - n = i
      BY <2>1, <2>2
    <3>2. q[n + i] = batch[i]
      BY <2>1, <3>1
    <3> QED
      BY <3>1, <3>2 DEF Range
  <2>5. ASSUME NEW i \in DOMAIN q PROVE q[i] \in Range(queue) \cup Range(batch)
    <3>1. CASE i <= n
      <4>1. i \in DOMAIN queue /\ q[i] = queue[i]
        BY <2>1, <2>2, <3>1
      <4> QED
        BY <4>1 DEF Range
    <3>2. CASE ~(i <= n)
      <4>1. i - n \in DOMAIN batch /\ q[i] = batch[i - n]
        BY <2>1, <2>2, <3>2
      <4> QED
        BY <4>1 DEF Range
    <3> QED
      BY <3>1, <3>2
  <2>6. Range(q) = Range(queue) \cup Range(batch)
    BY <2>1, <2>2, <2>3, <2>4, <2>5 DEF Range
  <2> QED
    BY <2>6 DEF q
<1> QED
  BY <1>2, <1>3, <1>4, <1>5

(* What one NALU does to the cursor, the timestamp and what was sent. *)
LEMMA DeliverSends ==
    ASSUME TypeOK, NEW t \in Task, NEW stall \in BOOLEAN, Deliver(t, stall)
    PROVE  \E base \in Base(stream[t.addr]) :
             /\ stream'[t.addr].ts = Stamp(t, base)
             /\ stream'[t.addr].pos = stream[t.addr].pos + 1
             /\ stream'[t.addr].sent =
                  Append(stream[t.addr].sent,
                         [nalu |-> File[stream[t.addr].pos + 1],
                          ts |-> Stamp(t, base), life |-> t.life])
<1> DEFINE a == t.addr
           s == stream[a]
<1>1. a \in Addr /\ s \in Stream /\ stream \in [Addr -> Stream]
  BY DEF TypeOK, Task
<1>2. PICK base \in Base(s) :
        stream' = [stream EXCEPT
                     ![a].ts = Stamp(t, base),
                     ![a].pos = @ + 1,
                     ![a].sent = Append(@, [nalu |-> File[s.pos + 1],
                                            ts |-> Stamp(t, base),
                                            life |-> t.life]),
                     ![a].stalls = IF stall THEN @ + 1 ELSE @]
  BY Zenon DEF Deliver
<1> DEFINE sent == Append(s.sent, [nalu |-> File[s.pos + 1],
                                   ts |-> Stamp(t, base), life |-> t.life])
           stalls == IF stall THEN s.stalls + 1 ELSE s.stalls
<1>3. stream'[a] = [s EXCEPT !.ts = Stamp(t, base), !.pos = s.pos + 1,
                             !.sent = sent, !.stalls = stalls]
  BY <1>1, <1>2
<1> HIDE DEF sent, stalls
<1>4. /\ stream'[a].ts = Stamp(t, base)
      /\ stream'[a].pos = s.pos + 1
      /\ stream'[a].sent = sent
  BY <1>1, <1>3, Zenon DEF Stream
<1> QED
  BY <1>4, Zenon DEF sent

(* The timestamp of a NALU that is sent in time. *)
LEMMA StampInTime ==
    ASSUME FileFitsTimestamps, NEW s \in Stream, NEW t \in Task, HasFrame(s),
           InTime(s, t), NEW base \in Base(s)
    PROVE  /\ s.sent # <<>> /\ ~t.update => Stamp(t, base) = s.ts
           /\ s.sent # <<>> /\ t.update => Stamp(t, base) = s.ts + TsDuration
           /\ Stamp(t, base) > 0
           /\ \E r \in RandomTs :
                Stamp(t, base) <= r + (s.pos + 1) * TsDuration
<1>1. /\ TsMod \in Nat /\ TsDuration \in Nat /\ TsDuration > 0
      /\ RandomTs \subseteq Nat /\ Len(File) \in Nat
  BY TimestampAssumption, FileAssumption, LenProperties DEF FileFitsTimestamps
<1>2. s.pos \in Nat /\ s.pos + 1 <= Len(File) /\ s.ts \in Nat
  BY <1>1, TimestampAssumption DEF HasFrame, Stream
<1>3. PICK r \in RandomTs : base <= r + s.pos * TsDuration /\ base \in Nat
  <2>1. CASE s.sent = <<>>
    <3>1. base \in RandomTs
      BY <2>1 DEF InTime, Base
    <3>2. s.pos * TsDuration \in Nat
      BY <1>1, <1>2
    <3> QED
      BY <1>1, <3>1, <3>2
  <2>2. CASE s.sent # <<>>
    <3>1. base = s.ts /\ \E r \in RandomTs : s.ts <= r + s.pos * TsDuration
      BY <1>2, <2>2 DEF InTime, Base
    <3> QED
      BY <1>2, <3>1
  <2> QED
    BY <2>1, <2>2
<1>4. /\ s.pos * TsDuration \in Nat /\ (s.pos + 1) * TsDuration \in Nat
      /\ (s.pos + 1) * TsDuration = s.pos * TsDuration + TsDuration
      /\ (s.pos + 1) * TsDuration <= Len(File) * TsDuration
      /\ Len(File) * TsDuration \in Nat
  BY <1>1, <1>2
<1>5. r \in Nat /\ r + Len(File) * TsDuration < TsMod
  BY <1>1 DEF FileFitsTimestamps
<1>6. /\ base + TsDuration <= r + (s.pos + 1) * TsDuration
      /\ base + TsDuration < TsMod
  BY <1>1, <1>3, <1>4, <1>5
<1>7. (base + TsDuration) % TsMod = base + TsDuration
  BY <1>1, <1>3, <1>6
<1>8. Stamp(t, base) = IF t.update THEN base + TsDuration ELSE base
  BY <1>7 DEF Stamp
<1>9. s.sent = <<>> => t.update
  BY DEF InTime
<1>10. s.sent # <<>> => base = s.ts /\ s.ts > 0
  BY DEF InTime, Base
<1>11. t.update \in BOOLEAN
  BY DEF Task
<1>12. CASE t.update
  <2>1. Stamp(t, base) = base + TsDuration
    BY <1>8, <1>12
  <2> QED
    BY <1>1, <1>3, <1>6, <1>10, <1>12, <2>1
<1>13. CASE ~t.update
  <2>1. Stamp(t, base) = base
    BY <1>8, <1>13
  <2>2. base <= r + (s.pos + 1) * TsDuration
    BY <1>1, <1>3, <1>4, <1>5
  <2> QED
    BY <1>9, <1>10, <1>13, <2>1, <2>2
<1> QED
  BY <1>12, <1>13

(* A NALU sent in time keeps the timeline, and the closure that follows it *)
(* is in time if it steps the timestamp after a slice only.                *)
LEMMA DeliverInTime ==
    ASSUME TypeOK, TypeOK', FileFitsTimestamps, NEW t \in Task, NEW stall \in BOOLEAN,
           HasFrame(stream[t.addr]), Deliver(t, stall),
           InTime(stream[t.addr], t), Timeline(stream[t.addr])
    PROVE  /\ Timeline(stream'[t.addr])
           /\ \A u \in Task :
                (u.update <=> File[stream[t.addr].pos + 1] = "slice")
                  => InTime(stream'[t.addr], u)
<1> DEFINE a == t.addr
           s == stream[a]
           z == stream'[a]
           n == Len(s.sent)
<1>1. a \in Addr /\ s \in Stream /\ z \in Stream
  BY DEF TypeOK, Task
<1>2. PICK base \in Base(s) :
        /\ z.ts = Stamp(t, base) /\ z.pos = s.pos + 1
        /\ z.sent = Append(s.sent, [nalu |-> File[s.pos + 1],
                                    ts |-> Stamp(t, base), life |-> t.life])
  BY DeliverSends
<1> DEFINE frame == [nalu |-> File[s.pos + 1], ts |-> Stamp(t, base),
                     life |-> t.life]
<1>3. s.sent \in Seq(Frame) /\ n \in Nat
  BY <1>1, LenProperties DEF Stream
<1>4. /\ frame.nalu = File[s.pos + 1] /\ frame.ts = z.ts
      /\ z.sent = Append(s.sent, frame)
  BY <1>2
<1> HIDE DEF frame
<1>5. /\ Len(z.sent) = n + 1 /\ z.sent[n + 1] = frame /\ z.sent # <<>>
      /\ \A i \in 1 .. n : z.sent[i] = s.sent[i]
  BY <1>3, <1>4
<1>6. /\ s.sent # <<>> /\ ~t.update => z.ts = s.ts
      /\ s.sent # <<>> /\ t.update => z.ts = s.ts + TsDuration
      /\ z.ts > 0
      /\ \E r \in RandomTs : z.ts <= r + z.pos * TsDuration
  BY <1>1, <1>2, StampInTime
<1>7. n > 0 =>
        /\ s.ts = s.sent[n].ts
        /\ s.sent[n].nalu = "param" => ~t.update
        /\ s.sent[n].nalu = "slice" => t.update
        /\ s.sent # <<>>
  BY <1>3 DEF InTime
<1>8. Timeline(z)
  <2> SUFFICES ASSUME NEW i \in 1 .. n
               PROVE  /\ z.sent[i].nalu = "param" => z.sent[i + 1].ts = z.sent[i].ts
                      /\ z.sent[i].nalu = "slice" =>
                           z.sent[i + 1].ts = z.sent[i].ts + TsDuration
    BY <1>3, <1>5 DEF Timeline
  <2>1. CASE i = n
    <3>1. z.sent[i] = s.sent[n] /\ z.sent[i + 1].ts = z.ts /\ n > 0
      BY <1>3, <1>4, <1>5, <2>1
    <3> QED
      BY <1>6, <1>7, <3>1
  <2>2. CASE i # n
    <3>1. i \in 1 .. n - 1 /\ i + 1 \in 1 .. n
      BY <1>3, <2>2
    <3>2. z.sent[i] = s.sent[i] /\ z.sent[i + 1] = s.sent[i + 1]
      BY <1>5, <3>1
    <3> QED
      BY <3>1, <3>2 DEF Timeline
  <2> QED
    BY <2>1, <2>2
<1>9. ASSUME NEW u \in Task, u.update <=> File[s.pos + 1] = "slice"
      PROVE  InTime(z, u)
  <2>1. z.sent[Len(z.sent)] = frame
    BY <1>5
  <2>2. /\ z.sent[Len(z.sent)].ts = z.ts
        /\ z.sent[Len(z.sent)].nalu = File[s.pos + 1]
    BY <1>4, <2>1
  <2>3. /\ File[s.pos + 1] = "param" => ~u.update
        /\ File[s.pos + 1] = "slice" => u.update
    BY <1>9
  <2> QED
    BY <1>5, <1>6, <2>2, <2>3 DEF InTime
<1> QED
  BY <1>8, <1>9

(* What PlayOnce leaves waiting: the others, and the closure that follows  *)
(* a NALU, which steps the timestamp after a slice only.                   *)
LEMMA PlayOnceLeaves ==
    ASSUME TypeOK, NEW t \in Task, NEW p \in Seq(Task), NEW m \in Seq(Task),
           PlayOnce(t, p, m)
    PROVE  \/ /\ stream' = stream
              /\ Waiting' = Range(p) \cup Range(m)
           \/ /\ Active(t)
              /\ stream'[t.addr].sent = stream[t.addr].sent
              /\ Waiting' = Range(p) \cup Range(m)
           \/ /\ Active(t) /\ HasFrame(stream[t.addr])
              /\ \E stall \in BOOLEAN : Deliver(t, stall)
              /\ \/ Waiting' = Range(p) \cup Range(m)
                 \/ \E u \in Task :
                      /\ u.addr = t.addr
                      /\ u.update <=> File[stream[t.addr].pos + 1] = "slice"
                      /\ Waiting' = {u} \cup Range(p) \cup Range(m)
<1> DEFINE a == t.addr
           s == stream[a]
<1>1. a \in Addr /\ s \in Stream /\ stream \in [Addr -> Stream]
  BY DEF TypeOK, Task
<1>2. pending' = p /\ timers' = m => Waiting' = Range(p) \cup Range(m)
  BY DEF Waiting
<1>3. ASSUME NEW update \in BOOLEAN
      PROVE  /\ Follow(t, update) \in Task /\ Follow(t, update).addr = a
             /\ Follow(t, update).update = update
             /\ pending' = Append(p, Follow(t, update)) /\ timers' = m =>
                  Waiting' = {Follow(t, update)} \cup Range(p) \cup Range(m)
             /\ pending' = p /\ timers' = Append(m, Follow(t, update)) =>
                  Waiting' = {Follow(t, update)} \cup Range(p) \cup Range(m)
  <2>1. Follow(t, update) \in Task
    BY FollowType
  <2>2. Follow(t, update).addr = a /\ Follow(t, update).update = update
    BY DEF Follow
  <2>3. PICK u \in Task : u = Follow(t, update)
    BY <2>1
  <2>4. /\ Range(Append(p, u)) = Range(p) \cup {u}
        /\ Range(Append(m, u)) = Range(m) \cup {u}
    BY RangeOfQueue
  <2>5. /\ pending' = Append(p, u) /\ timers' = m =>
             Waiting' = {u} \cup Range(p) \cup Range(m)
        /\ pending' = p /\ timers' = Append(m, u) =>
             Waiting' = {u} \cup Range(p) \cup Range(m)
    BY <2>4 DEF Waiting
  <2> QED
    BY <2>1, <2>2, <2>3, <2>5
<1>4. CASE Cancel(t, p, m) \/ ReadGarbage(t, p, m)
  BY <1>2, <1>4 DEF Cancel, ReadGarbage
<1>5. CASE SendBye(t, p, m)
  <2>1. PICK base \in Base(s) :
          stream' = [stream EXCEPT
                       ![a].ts = base,
                       ![a].pos = IF @ < Len(File) THEN @ + 1 ELSE @,
                       ![a].byes = @ + 1]
    BY <1>5, Zenon DEF SendBye
  <2> DEFINE pos == IF s.pos < Len(File) THEN s.pos + 1 ELSE s.pos
  <2>2. stream'[a] = [s EXCEPT !.ts = base, !.pos = pos, !.byes = s.byes + 1]
    BY <1>1, <2>1
  <2> HIDE DEF pos
  <2>3. stream'[a].sent = s.sent
    BY <1>1, <2>2, Zenon DEF Stream
  <2> QED
    BY <1>2, <1>5, <2>3 DEF SendBye
<1>6. CASE SendParam(t, p, m)
  <2>1. /\ Active(t) /\ HasFrame(s) /\ File[s.pos + 1] # "slice"
        /\ Deliver(t, FALSE)
        /\ pending' = Append(p, Follow(t, FALSE)) /\ timers' = m
    BY <1>6 DEF SendParam
  <2>2. PICK u \in Task :
          /\ u.addr = a /\ u.update = FALSE
          /\ Waiting' = {u} \cup Range(p) \cup Range(m)
    BY <1>3, <2>1
  <2>3. u.update <=> File[s.pos + 1] = "slice"
    BY <2>1, <2>2
  <2> QED
    BY <2>1, <2>2, <2>3
<1>7. CASE SendSlice(t, p, m)
  <2>1. /\ Active(t) /\ HasFrame(s) /\ File[s.pos + 1] = "slice"
        /\ Deliver(t, FALSE)
        /\ pending' = p /\ timers' = Append(m, Follow(t, TRUE))
    BY <1>7 DEF SendSlice
  <2> QED
    BY <1>3, <2>1
<1>8. CASE SendEmpty(t, p, m)
  BY <1>2, <1>8 DEF SendEmpty
<1> QED
  BY <1>4, <1>5, <1>6, <1>7, <1>8 DEF PlayOnce

(* A closure that is run keeps every stream in time. *)
LEMMA PlayOnceTimed ==
    ASSUME TimeInv, TypeOK', IInv',
           NEW t \in Task, NEW p \in Seq(Task), NEW m \in Seq(Task),
           PlayOnce(t, p, m),
           Waiting = {t} \cup Range(p) \cup Range(m),
           \A M : Queued(M) = Count(p, M) + Count(m, M)
                                + (IF t \in M THEN 1 ELSE 0),
           UNCHANGED <<live, lives, starts>>, NEW a \in Addr
    PROVE  Timed(a)'
<1> DEFINE s == stream[a]
           z == stream'[a]
           rest == Range(p) \cup Range(m)
<1>1. TypeOK /\ starts' = starts /\ Timed(a) /\ FileFitsTimestamps /\ IInv
  BY DEF TimeInv, IInv
<1>2. s \in Stream /\ z \in Stream /\ starts[a] \in Nat /\ t.addr \in Addr
  BY <1>1 DEF TypeOK, Task
<1>3. /\ \A b \in Addr \ {t.addr} : stream'[b] = stream[b]
      /\ stream'[t.addr].plays = stream[t.addr].plays
      /\ ~Active(t) => stream' = stream
  BY <1>1, PlayOnceUntouched, PlayOnceEffect
<1>4. z.plays = s.plays
  BY <1>3
<1>5. z.plays = 0 => z.ts = 0
  <2>1. s.plays = 0 => z = s
    BY <1>1, <1>3 DEF IInv, PlayingIsPlayed, Active
  <2> QED
    BY <1>1, <1>4, <2>1 DEF Timed
<1>6. CASE a # t.addr
  <2>1. z = s
    BY <1>3, <1>6
  <2>2. \A u \in Waiting' : u.addr = a => u \in Waiting
    BY <1>1, <1>6, PlayOnceLeaves
  <2> QED
    BY <1>1, <2>1, <2>2 DEF Timed
<1>7. CASE a = t.addr /\ ~(starts[a] = 1 /\ s.plays > 0)
  <2>1. s.plays \in Nat
    BY <1>2 DEF Stream
  <2>2. starts[a] = 1 => z.plays = 0
    BY <1>4, <1>7, <2>1
  <2>3. z.plays = 0 => z.sent = <<>>
    BY DEF IInv, SilentUntilPlayed
  <2>4. z.sent = <<>> => Timeline(z)
    BY DEF Timeline
  <2> QED
    BY <1>1, <1>4, <1>5, <1>7, <2>2, <2>3, <2>4 DEF Timed
<1>8. CASE a = t.addr /\ starts[a] = 1 /\ s.plays > 0
  <2>1. InTime(s, t) /\ Timeline(s)
    BY <1>1, <1>8 DEF Timed
  <2>2. ASSUME NEW u \in rest PROVE u.addr # a
    <3>1. /\ Count(p, ForBlock(a)) \in Nat /\ Count(m, ForBlock(a)) \in Nat
          /\ s.byes \in Nat /\ s.stalls \in Nat
      BY <1>2, MatchingFinite DEF Stream
    <3>2. Queued(ForBlock(a)) + s.byes + s.stalls <= 1
      BY <1>1, <1>8 DEF IInv, NoExtraChain
    <3>3. t \in ForBlock(a)
      BY <1>8 DEF ForBlock
    <3>4. Queued(ForBlock(a)) = Count(p, ForBlock(a)) + Count(m, ForBlock(a)) + 1
      BY <3>3
    <3>5. Count(p, ForBlock(a)) = 0 /\ Count(m, ForBlock(a)) = 0
      BY <3>1, <3>2, <3>4
    <3>6. u \in Task /\ u \notin ForBlock(a)
      BY <3>5, NoneCounted, RangeOfQueue
    <3> QED
      BY <3>6 DEF ForBlock
  <2>3. CASE Waiting' = rest /\ z.sent = s.sent
    <3>1. Timeline(z)
      BY <2>1, <2>3 DEF Timeline
    <3> QED
      BY <1>1, <1>4, <1>5, <2>2, <2>3, <3>1 DEF Timed
  <2>4. ASSUME NEW stall \in BOOLEAN, Deliver(t, stall), HasFrame(s),
               \/ Waiting' = rest
               \/ \E u \in Task : /\ u.update <=> File[s.pos + 1] = "slice"
                                  /\ Waiting' = {u} \cup rest
        PROVE  Timed(a)'
    <3>1. /\ Timeline(z)
          /\ \A u \in Task : (u.update <=> File[s.pos + 1] = "slice")
                               => InTime(z, u)
      BY <1>1, <1>8, <2>1, <2>4, DeliverInTime
    <3>2. \A u \in Waiting' : u.addr = a => InTime(z, u)
      BY <2>2, <2>4, <3>1
    <3> QED
      BY <1>1, <1>4, <1>5, <3>1, <3>2 DEF Timed
  <2>5. \/ Waiting' = rest /\ z.sent = s.sent
        \/ /\ HasFrame(s)
           /\ \E stall \in BOOLEAN : Deliver(t, stall)
           /\ \/ Waiting' = rest
              \/ \E u \in Task : /\ u.update <=> File[s.pos + 1] = "slice"
                                 /\ Waiting' = {u} \cup rest
    <3>1. \A u \in Task : {u} \cup Range(p) \cup Range(m) = {u} \cup rest
      OBVIOUS
    <3> QED
      BY <1>1, <1>8, <3>1, PlayOnceLeaves
  <2> QED
    BY <2>3, <2>4, <2>5
<1> QED
  BY <1>6, <1>7, <1>8

(* Requests keep every stream in time: a first Play finds no closure for   *)
(* the block, and starts one that steps the timestamp.                     *)
LEMMA RequestTimed ==
    ASSUME TimeInv, TypeOK', IInv', Request, NEW a \in Addr
    PROVE  Timed(a)'
<1> DEFINE s == stream[a]
           z == stream'[a]
<1>1. /\ TypeOK /\ Timed(a) /\ IInv /\ timers' = timers
      /\ s \in Stream /\ z \in Stream /\ starts[a] \in Nat
  BY Zenon DEF TimeInv, IInv, TypeOK, Request, Construct, Play, Release
<1>2. ASSUME NEW c \in Addr, Construct(c) PROVE Timed(a)'
  <2>1. starts' = starts /\ pending' = pending /\ Waiting' = Waiting
    BY <1>1, <1>2 DEF Construct, Waiting
  <2>2. CASE a = c
    <3>1. z = NewStream
      BY <1>1, <1>2, <2>2 DEF Construct, TypeOK
    <3>2. z.plays = 0 /\ z.ts = 0 /\ z.sent = <<>>
      BY <3>1 DEF NewStream
    <3> QED
      BY <1>1, <2>1, <3>2 DEF Timed, Timeline
  <2>3. CASE a # c
    <3>1. z = s
      BY <1>1, <1>2, <2>3 DEF Construct, TypeOK
    <3> QED
      BY <1>1, <2>1, <3>1 DEF Timed
  <2> QED
    BY <2>2, <2>3
<1>3. ASSUME NEW S \in (SUBSET live) \ {{}}, Release(S) PROVE Timed(a)'
  <2>1. starts' = starts /\ pending' = pending /\ Waiting' = Waiting
    BY <1>1, <1>3 DEF Release, Waiting
  <2>2. z.plays = s.plays /\ z.ts = s.ts /\ z.sent = s.sent /\ z.pos = s.pos
    BY <1>1, <1>3 DEF Release, Stream
  <2>3. /\ Timeline(z) <=> Timeline(s)
        /\ \A t : InTime(z, t) <=> InTime(s, t)
    BY <2>2 DEF Timeline, InTime
  <2> QED
    BY <1>1, <2>1, <2>2, <2>3 DEF Timed
<1>4. ASSUME NEW q \in Sessions(live), Play(q) PROVE Timed(a)'
  <2> DEFINE batch == [i \in DOMAIN q |-> [addr |-> q[i], life |-> lives[q[i]],
                                           update |-> TRUE]]
  <2>1. pending' = pending \o batch /\ batch \in Seq(Task)
    BY Zenon, <1>1, <1>4, PlayBatch DEF Play
  <2>2. Waiting' = Waiting \cup Range(batch)
    <3> HIDE DEF batch
    <3>1. Range(pending') = Range(pending) \cup Range(batch)
      BY <1>1, <2>1, RangeOfQueue DEF TypeOK
    <3> QED
      BY <1>1, <3>1 DEF Waiting
  <2>3. \A u \in Range(batch) : u.update /\ u.addr \in Range(q)
    BY DEF Range
  <2> HIDE DEF batch
  <2>4. CASE a \notin Range(q)
    <3>1. z = s /\ starts'[a] = starts[a]
      BY Zenon, <1>4, <2>4 DEF Play
    <3>2. \A u \in Waiting' : u.addr = a => u \in Waiting
      BY <2>2, <2>3, <2>4
    <3> QED
      BY <1>1, <3>1, <3>2 DEF Timed
  <2>5. CASE a \in Range(q)
    <3>1. z = [s EXCEPT !.playing = TRUE, !.plays = @ + 1] /\ starts'[a] = starts[a] + 1
      BY Zenon, <1>4, <2>5 DEF Play
    <3>2. z.plays = s.plays + 1 /\ z.ts = s.ts /\ z.sent = s.sent /\ z.pos = s.pos
      BY <1>1, <3>1, Zenon DEF Stream
    <3>3. s.plays \in Nat
      BY <1>1 DEF Stream
    <3>4. z.plays <= starts'[a] /\ z.plays # 0
      BY <1>1, <3>1, <3>2, <3>3 DEF Timed
    <3>5. CASE starts'[a] # 1
      BY <3>4, <3>5 DEF Timed
    <3>6. CASE starts'[a] = 1
      <4>1. starts[a] = 0 /\ s.plays = 0
        BY <1>1, <3>1, <3>3, <3>6 DEF Timed
      <4>2. z.ts = 0 /\ z.sent = <<>>
        BY <1>1, <3>2, <4>1 DEF Timed, IInv, SilentUntilPlayed
      <4>3. ASSUME NEW u \in Waiting, u.addr = a PROVE FALSE
        <5>1. Queued(ForBlock(a)) + s.byes + s.stalls <= 0
          BY <1>1, <4>1 DEF IInv, NoExtraChain
        <5>2. /\ Count(pending, ForBlock(a)) \in Nat
              /\ Count(timers, ForBlock(a)) \in Nat
              /\ s.byes \in Nat /\ s.stalls \in Nat
          BY <1>1, MatchingFinite DEF Stream, TypeOK
        <5>3. Count(pending, ForBlock(a)) = 0 /\ Count(timers, ForBlock(a)) = 0
          BY <5>1, <5>2 DEF Queued
        <5>4. u \in Task /\ u \notin ForBlock(a)
          BY <1>1, <5>3, NoneCounted, RangeOfQueue DEF Waiting, TypeOK
        <5> QED
          BY <4>3, <5>4 DEF ForBlock
      <4>4. \A u \in Waiting' : u.addr = a => InTime(z, u)
        BY <2>2, <2>3, <4>2, <4>3 DEF InTime
      <4>5. Timeline(z)
        BY <4>2 DEF Timeline
      <4> QED
        BY <3>4, <4>4, <4>5 DEF Timed
    <3> QED
      BY <3>5, <3>6
  <2> QED
    BY <2>4, <2>5
<1> QED
  BY <1>2, <1>3, <1>4 DEF Request

(* Every step keeps every stream in time. *)
LEMMA TimeStep == TimeInv /\ [Next]_vars => TimeInv'
<1> SUFFICES ASSUME TimeInv, [Next]_vars PROVE TimeInv'
  OBVIOUS
<1>1. /\ TypeOK /\ IInv /\ IInv' /\ TypeOK' /\ FileFitsTimestamps'
  BY InvariantStep, TypeStep DEF TimeInv, IInv, FileFitsTimestamps
<1>2. SUFFICES ASSUME NEW a \in Addr PROVE Timed(a)'
  BY <1>1 DEF TimeInv
<1>3. CASE Request
  BY <1>1, <1>3, RequestTimed
<1>4. CASE RunFunctor
  <2>1. /\ pending # <<>> /\ PlayOnce(Head(pending), Tail(pending), timers)
        /\ UNCHANGED <<live, lives, starts>>
    BY <1>4 DEF RunFunctor
  <2>2. /\ Head(pending) \in Task /\ Tail(pending) \in Seq(Task)
        /\ timers \in Seq(Task) /\ pending \in Seq(Task)
    BY <1>1, <2>1, HeadOfQueue DEF TypeOK
  <2>3. Waiting = {Head(pending)} \cup Range(Tail(pending)) \cup Range(timers)
    BY <2>1, <2>2, RangeOfQueue DEF Waiting
  <2>4. \A M : Queued(M) = Count(Tail(pending), M) + Count(timers, M)
                             + (IF Head(pending) \in M THEN 1 ELSE 0)
    <3>1. \A M : /\ Count(Tail(pending), M) \in Nat
                 /\ Count(timers, M) \in Nat
                 /\ Count(pending, M) = Count(Tail(pending), M)
                       + (IF Head(pending) \in M THEN 1 ELSE 0)
      BY <2>1, <2>2, CountTail, MatchingFinite
    <3> QED
      BY <3>1 DEF Queued
  <2> QED
    BY <1>1, <2>1, <2>2, <2>3, <2>4, PlayOnceTimed
<1>5. CASE FireTimer
  <2>1. /\ timers # <<>> /\ PlayOnce(Head(timers), pending, Tail(timers))
        /\ UNCHANGED <<live, lives, starts>>
    BY <1>5 DEF FireTimer
  <2>2. /\ Head(timers) \in Task /\ Tail(timers) \in Seq(Task)
        /\ timers \in Seq(Task) /\ pending \in Seq(Task)
    BY <1>1, <2>1, HeadOfQueue DEF TypeOK
  <2>3. Waiting = {Head(timers)} \cup Range(pending) \cup Range(Tail(timers))
    BY <2>1, <2>2, RangeOfQueue DEF Waiting
  <2>4. \A M : Queued(M) = Count(pending, M) + Count(Tail(timers), M)
                             + (IF Head(timers) \in M THEN 1 ELSE 0)
    <3>1. \A M : /\ Count(Tail(timers), M) \in Nat
                 /\ Count(pending, M) \in Nat
                 /\ Count(timers, M) = Count(Tail(timers), M)
                       + (IF Head(timers) \in M THEN 1 ELSE 0)
      BY <2>1, <2>2, CountTail, MatchingFinite
    <3> QED
      BY <3>1 DEF Queued
  <2> QED
    BY <1>1, <2>1, <2>2, <2>3, <2>4, PlayOnceTimed
<1>6. CASE UNCHANGED vars
  BY <1>6 DEF vars, TimeInv, Timed, Waiting
<1> QED
  BY <1>3, <1>4, <1>5, <1>6 DEF Next

(* Every stream is in time before the first request. *)
LEMMA TimeInit == FileFitsTimestamps /\ Init => TimeInv
<1> SUFFICES ASSUME FileFitsTimestamps, Init PROVE TimeInv
  OBVIOUS
<1>1. IInv
  BY InvariantInit
<1>2. ASSUME NEW a \in Addr
      PROVE  starts[a] = 0 /\ stream[a].plays = 0 /\ stream[a].ts = 0
  BY DEF Init, NoStream, NewStream
<1> QED
  BY <1>1, <1>2 DEF TimeInv, Timed

(* A stream that was played once, in a block that no other stream was      *)
(* played in, keeps its timeline: what follows a parameter set carries its *)
(* timestamp and what follows a slice is one duration later, for every     *)
(* file that ends before the timestamps do (rtsp_stream_state.cpp:137-191).*)
THEOREM OneChainKeepsTime == FileFitsTimestamps => (Spec => []SingleChainTimeline)
<1>1. TimeInv => SingleChainTimeline
  BY DEF TimeInv, Timed, SingleChainTimeline
<1> QED
  BY <1>1, TimeInit, TimeStep, PTL DEF Spec
=============================================================================
