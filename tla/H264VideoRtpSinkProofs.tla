----------------------- MODULE H264VideoRtpSinkProofs -----------------------
(***************************************************************************)
(* The sender of H264VideoRtpSink, for every payload size, NALU size and   *)
(* number of NALUs: fragments are well formed and cover their NALU.        *)
(*                                                                         *)
(* Every sending action hands one packet to Emit or none at all, so the    *)
(* argument is in two parts: what Emit keeps when the packet follows the   *)
(* last one (EmitKeeps), and that each action's packet does (its lemma).   *)
(* Loop is what the second part needs about a call between two packets.    *)
(***************************************************************************)
EXTENDS H264VideoRtpSink, Induction, Remainders, TLAPS

(* A remainder is below its modulus. *)
LEMMA ModRange ==
    ASSUME NEW x \in Nat, NEW m \in Nat \ {0}
    PROVE  x % m \in 0 .. m - 1
BY SMT

(* The sizes the proofs calculate with. *)
LEMMA Sizes ==
    /\ MaxPayload \in Nat /\ HeaderSize \in Nat /\ FrameSize \in Nat
    /\ FuHeadSize \in Nat /\ 0 < FuHeadSize /\ FuHeadSize < MaxPayload
BY SizeAssumption

(* The size and the time of a NALU are naturals. *)
LEMMA NaluType ==
    ASSUME NEW n \in Nalu
    PROVE  n.size \in Nat /\ n.ts \in Nat
<1>1. n.size \in Size /\ n.ts \in Nat
  BY DEF Nalu
<1> QED
  BY <1>1, SizeAssumption

(* The NALU the loop works on, and how much of it is left. *)
LEMMA InLoop ==
    ASSUME TypeOK, Loop, rest.busy
    PROVE  /\ calls # <<>> /\ Len(calls) \in Nat /\ Len(calls) \in DOMAIN calls
           /\ calls[Len(calls)] \in Nalu /\ calls[Len(calls)].size \in Nat
           /\ rest.left \in Nat /\ 0 < rest.left
           /\ rest.left < calls[Len(calls)].size
<1>1. calls # <<>> /\ rest.left \in 1 .. calls[Len(calls)].size - 1
  BY DEF Loop
<1>2. calls \in Seq(Nalu)
  BY DEF TypeOK
<1>3. Len(calls) \in Nat /\ Len(calls) \in DOMAIN calls
      /\ calls[Len(calls)] \in Nalu
  BY <1>1, <1>2
<1>4. calls[Len(calls)].size \in Nat
  BY <1>3, NaluType
<1> QED
  BY <1>1, <1>3, <1>4

-----------------------------------------------------------------------------
(* Types *)

(* The header fields of a whole NALU, as sent over UDP and over TCP. *)
LEMMA WholeType ==
    ASSUME NEW n \in Nalu, NEW i \in Nat, seq \in 0 .. SeqMod - 1
    PROVE  /\ Whole(n, i, HeaderSize + n.size) \in Packet
           /\ Whole(n, i, (HeaderSize + n.size) % LengthMod) \in Packet
<1>1. n.size \in Nat /\ n.ts \in Nat /\ HeaderSize \in Nat
  BY Sizes, NaluType
<1>2. (HeaderSize + n.size) % LengthMod \in Nat
  BY <1>1, ModRange, WidthAssumption
<1> QED
  BY <1>1, <1>2 DEF Whole, Packet

(* A fragment is within its NALU as long as the piece is within the rest. *)
LEMMA FragmentType ==
    ASSUME TypeOK, calls # <<>>, rest.left < calls[Len(calls)].size,
           NEW size \in Nat, NEW last \in BOOLEAN
    PROVE  Fragment(size, last) \in Packet
<1> DEFINE n == calls[Len(calls)]
<1>1. n \in Nalu /\ Len(calls) \in Nat
  BY DEF TypeOK
<1>2. n.size \in Nat /\ n.ts \in Nat /\ rest.left \in Nat /\ rest.s \in BOOLEAN
  BY <1>1, NaluType DEF TypeOK
<1>3. n.size - rest.left \in Nat
  BY <1>2
<1>4. HeaderSize + FuHeadSize + size \in Nat /\ seq \in 0 .. SeqMod - 1
  BY SizeAssumption DEF TypeOK
<1> QED
  BY <1>1, <1>2, <1>3, <1>4 DEF Fragment, Packet

(* What Emit leaves behind is well typed. *)
LEMMA EmitType ==
    ASSUME TypeOK, NEW p \in Packet, NEW size \in Nat, Emit(p, size)
    PROVE  /\ wire' \in Seq(Packet)
           /\ net' \subseteq DOMAIN wire'
           /\ seq' \in 0 .. SeqMod - 1
           /\ packets' \in 0 .. CountMod - 1
           /\ octets' \in 0 .. CountMod - 1
<1>1. /\ wire \in Seq(Packet) /\ net \subseteq 1 .. Len(wire)
      /\ seq + 1 \in Nat /\ packets + 1 \in Nat /\ octets + size \in Nat
  BY DEF TypeOK
<1>2. wire' = Append(wire, p) /\ wire' \in Seq(Packet)
      /\ Len(wire') = Len(wire) + 1 /\ Len(wire) \in Nat
  BY <1>1 DEF Emit
<1>3. net' \subseteq DOMAIN wire'
  <2>1. DOMAIN wire' = 1 .. Len(wire) + 1
    BY <1>2
  <2>2. net' = net \/ net' = net \union {Len(wire) + 1}
    BY DEF Emit
  <2>3. 1 .. Len(wire) \subseteq 1 .. Len(wire) + 1
        /\ Len(wire) + 1 \in 1 .. Len(wire) + 1
    BY <1>2
  <2> QED
    BY <1>1, <2>1, <2>2, <2>3, Zenon
<1>4. /\ seq' \in 0 .. SeqMod - 1 /\ packets' \in 0 .. CountMod - 1
      /\ octets' \in 0 .. CountMod - 1
  BY <1>1, ModRange, WidthAssumption DEF Emit
<1> QED
  BY <1>2, <1>3, <1>4

(* Types hold before the first NALU. *)
LEMMA TypeInit == Init => TypeOK
<1> SUFFICES ASSUME Init PROVE TypeOK
  OBVIOUS
<1>1. seq \in 0 .. SeqMod - 1 /\ 0 \in 0 .. CountMod - 1
      /\ 0 \in 0 .. SeqMod - 1
  BY WidthAssumption DEF Init
<1> QED
  BY <1>1 DEF Init, TypeOK, Idle, Nothing

(* One call of Send or one iteration of its loop. *)
LEMMA SendType ==
    ASSUME IInv, NEW n \in Nalu,
           \/ SendOverTcp(n)
           \/ SendWhole(n)
           \/ StartFragments(n)
           \/ SendFragment
           \/ SendLast
    PROVE  TypeOK'
<1>1. TypeOK /\ Loop
  BY DEF IInv
<1>2. /\ seq \in 0 .. SeqMod - 1 /\ calls \in Seq(Nalu)
      /\ n.size \in Nat /\ Len(calls) \in Nat
      /\ rest \in [busy : BOOLEAN, left : Nat, s : BOOLEAN]
  <2>1. calls \in Seq(Nalu)
    BY <1>1 DEF TypeOK
  <2> QED
    BY <1>1, <2>1, NaluType DEF TypeOK
<1>3. Append(calls, n) \in Seq(Nalu) /\ Len(Append(calls, n)) \in Nat
  BY <1>2
<1>4. CASE SendOverTcp(n)
  <2>1. PICK p \in Packet :
          p = Whole(n, Len(calls'), (HeaderSize + n.size) % LengthMod)
    BY <1>2, <1>3, <1>4, WholeType DEF SendOverTcp
  <2>2. Emit(p, FrameSize + HeaderSize + n.size)
    BY <1>4, <2>1 DEF SendOverTcp
  <2>3. FrameSize + HeaderSize + n.size \in Nat
    BY <1>2, Sizes
  <2> QED
    BY <1>1, <1>3, <1>4, <2>2, <2>3, EmitType DEF SendOverTcp, TypeOK
<1>5. CASE SendWhole(n)
  <2>1. PICK p \in Packet : p = Whole(n, Len(calls'), HeaderSize + n.size)
    BY <1>2, <1>3, <1>5, WholeType DEF SendWhole
  <2>2. Emit(p, HeaderSize + n.size)
    BY <1>5, <2>1 DEF SendWhole
  <2>3. HeaderSize + n.size \in Nat
    BY <1>2, Sizes
  <2> QED
    BY <1>1, <1>3, <1>5, <2>2, <2>3, EmitType DEF SendWhole, TypeOK
<1>6. CASE StartFragments(n)
  <2>1. n.size - 1 \in Nat
    BY <1>2, <1>6, Sizes DEF StartFragments
  <2> QED
    BY <1>1, <1>3, <1>6, <2>1 DEF StartFragments, TypeOK
<1>7. CASE SendFragment
  <2>1. MaxPayload - FuHeadSize \in Nat /\ HeaderSize + MaxPayload \in Nat
    BY Sizes
  <2>2. calls # <<>> /\ rest.left < calls[Len(calls)].size
    BY <1>1, <1>7, InLoop DEF SendFragment
  <2>3. PICK p \in Packet : p = Fragment(MaxPayload - FuHeadSize, FALSE)
    BY <1>1, <2>1, <2>2, FragmentType
  <2>4. Emit(p, HeaderSize + MaxPayload)
    BY <1>7, <2>3 DEF SendFragment
  <2>5. rest.left - (MaxPayload - FuHeadSize) \in Nat
    BY <1>2, <1>7, Sizes DEF SendFragment, More
  <2>6. rest' \in [busy : BOOLEAN, left : Nat, s : BOOLEAN]
    BY <1>2, <1>7, <2>5 DEF SendFragment
  <2>7. /\ wire' \in Seq(Packet) /\ net' \subseteq DOMAIN wire'
        /\ seq' \in 0 .. SeqMod - 1 /\ packets' \in 0 .. CountMod - 1
        /\ octets' \in 0 .. CountMod - 1
    BY <1>1, <2>1, <2>4, EmitType
  <2>8. UNCHANGED <<tcp, calls, partial, got>>
    BY <1>7 DEF SendFragment
  <2> QED
    BY <1>1, <2>6, <2>7, <2>8 DEF TypeOK
<1>8. CASE SendLast
  <2>1. calls # <<>> /\ rest.left < calls[Len(calls)].size
    BY <1>1, <1>8, InLoop DEF SendLast
  <2>2. PICK p \in Packet : p = Fragment(rest.left, TRUE)
    BY <1>1, <1>2, <2>1, FragmentType
  <2>3. Emit(p, HeaderSize + FuHeadSize + rest.left)
    BY <1>8, <2>2 DEF SendLast
  <2>4. HeaderSize + FuHeadSize + rest.left \in Nat
    BY <1>2, Sizes
  <2> QED
    BY <1>1, <1>8, <2>3, <2>4, EmitType DEF SendLast, TypeOK, Idle
<1> QED
  BY <1>4, <1>5, <1>6, <1>7, <1>8

(* The network and the client, which leave the sender alone. *)
LEMMA ClientType ==
    ASSUME TypeOK, Lose \/ Receive
    PROVE  /\ TypeOK'
           /\ UNCHANGED <<tcp, seq, packets, octets, calls, rest, wire>>
<1>1. CASE Lose
  BY <1>1 DEF Lose, TypeOK
<1>2. CASE Receive
  <2>1. PICK i \in net :
          LET p == wire[i]
              a == Assembled(p) IN
          /\ net' \in {net, net \ {i}}
          /\ \/ /\ ~p.fu
                /\ got' = got \union {[nalu |-> p.nalu, whole |-> TRUE]}
                /\ partial' = Nothing
             \/ /\ p.fu /\ p.e /\ a # Nothing
                /\ got' = got \union
                     {[nalu |-> a.nalu,
                       whole |-> a.sound /\ a.to = calls[a.nalu].size]}
                /\ partial' = Nothing
             \/ /\ p.fu /\ ~(p.e /\ a # Nothing)
                /\ partial' = a
                /\ UNCHANGED got
          /\ UNCHANGED <<tcp, seq, packets, octets, calls, rest, wire>>
    BY <1>2 DEF Receive
  <2> DEFINE p == wire[i]
             a == Assembled(p)
             Partial == [seq : 0 .. SeqMod - 1, nalu : Nat, to : Nat,
                         sound : BOOLEAN]
  <2>2. p \in Packet
    BY DEF TypeOK
  <2>3. Nothing \in Partial
    BY WidthAssumption DEF Nothing
  <2>4. a \in Partial
    BY <2>2, <2>3 DEF Assembled, Packet, TypeOK
  <2>5. partial' \in Partial
    BY <2>1, <2>3, <2>4
  <2>6. p.nalu \in Nat /\ a.nalu \in Nat
    BY <2>2, <2>4 DEF Packet
  <2>7. got' \subseteq [nalu : Nat, whole : BOOLEAN]
    <3>1. \A b \in BOOLEAN : [nalu |-> a.nalu, whole |-> b]
                               \in [nalu : Nat, whole : BOOLEAN]
      BY <2>6
    <3>2. [nalu |-> a.nalu, whole |-> a.sound /\ a.to = calls[a.nalu].size]
            \in [nalu : Nat, whole : BOOLEAN]
      <4> DEFINE b == a.sound /\ a.to = calls[a.nalu].size
      <4>1. b \in BOOLEAN
        BY Zenon DEF b
      <4> HIDE DEF b
      <4>2. [nalu |-> a.nalu, whole |-> b] \in [nalu : Nat, whole : BOOLEAN]
        BY <3>1, <4>1
      <4> QED
        BY <4>2, Zenon DEF b
    <3>3. [nalu |-> p.nalu, whole |-> TRUE] \in [nalu : Nat, whole : BOOLEAN]
      BY <2>6
    <3>4. \/ got' = got \union {[nalu |-> p.nalu, whole |-> TRUE]}
          \/ got' = got \union
               {[nalu |-> a.nalu,
                 whole |-> a.sound /\ a.to = calls[a.nalu].size]}
          \/ got' = got
      BY <2>1, Zenon
    <3>5. got \subseteq [nalu : Nat, whole : BOOLEAN]
      BY DEF TypeOK
    <3> QED
      BY <3>2, <3>3, <3>4, <3>5, Zenon
  <2> QED
    BY <2>1, <2>5, <2>7 DEF TypeOK
<1> QED
  BY <1>1, <1>2

-----------------------------------------------------------------------------
(* What Emit keeps *)

(* A call of Send adds its NALU behind those that packets refer to. *)
LEMMA WellFormedStable ==
    ASSUME TypeOK, NEW p \in Packet, WellFormed(p),
           calls' = calls \/ \E n \in Nalu : calls' = Append(calls, n)
    PROVE  WellFormed(p)'
<1>1. calls \in Seq(Nalu) /\ p.nalu \in DOMAIN calls
  BY DEF TypeOK, WellFormed
<1>2. p.nalu \in DOMAIN calls' /\ calls'[p.nalu] = calls[p.nalu]
  BY <1>1
<1> QED
  BY <1>2, Zenon DEF WellFormed

(* A well-formed packet that follows the last one keeps the wire in order. *)
Last(p) == IF p.fu /\ ~p.e THEN rest.busy /\ p.nalu = Len(calls)
                           ELSE ~rest.busy => p.nalu = Len(calls)

(* A packet that follows the last one keeps the numbering and the cover. *)
LEMMA EmitKeeps ==
    ASSUME TypeOK, FragmentsWellFormed, FragmentsCover,
           NEW p \in Packet, NEW size \in Nat, Emit(p, size),
           calls' = calls \/ \E n \in Nalu : calls' = Append(calls, n),
           WellFormed(p)',
           wire # <<>> => Follows(wire[Len(wire)], p),
           Last(p)'
    PROVE  FragmentsWellFormed' /\ FragmentsCover'
<1>1. wire \in Seq(Packet) /\ wire' = Append(wire, p)
  BY DEF TypeOK, Emit
<1>2. /\ Len(wire) \in Nat /\ DOMAIN wire = 1 .. Len(wire)
      /\ Len(wire') = Len(wire) + 1 /\ DOMAIN wire' = 1 .. Len(wire) + 1
      /\ wire'[Len(wire) + 1] = p /\ wire' # <<>>
      /\ \A i \in 1 .. Len(wire) : wire'[i] = wire[i] /\ wire[i] \in Packet
  BY <1>1
<1>3. Len(wire) \in Nat
  BY <1>2
<1>4. FragmentsWellFormed'
  <2> SUFFICES ASSUME NEW i \in DOMAIN wire' PROVE WellFormed(wire[i])'
    BY DEF FragmentsWellFormed
  <2>1. CASE i \in 1 .. Len(wire)
    <3>1. PICK q \in Packet : q = wire[i]
      BY <1>2, <2>1
    <3>2. WellFormed(q)
      BY <1>2, <2>1, <3>1 DEF FragmentsWellFormed
    <3>3. WellFormed(q)'
      BY <3>2, WellFormedStable
    <3>4. q = wire'[i]
      BY <1>2, <2>1, <3>1
    <3> QED
      BY <3>3, <3>4, Zenon DEF WellFormed
  <2>2. CASE i = Len(wire) + 1
    <3>1. wire'[i] = p
      BY <1>2, <2>2
    <3> QED
      BY <3>1, Zenon DEF WellFormed
  <2>3. i \in 1 .. Len(wire) + 1
    BY <1>2
  <2> QED
    BY <1>3, <2>1, <2>2, <2>3
<1>5. FragmentsCover'
  <2>1. ASSUME NEW i \in 1 .. Len(wire)
        PROVE  Follows(wire'[i], wire'[i + 1])
    <3>1. CASE i = Len(wire)
      <4>1. wire # <<>>
        BY <1>1, <3>1
      <4>2. wire'[i] = wire[Len(wire)] /\ wire'[i + 1] = p
        BY <1>2, <3>1
      <4> QED
        BY <4>1, <4>2
    <3>2. CASE i # Len(wire)
      <4>1. i \in 1 .. Len(wire) - 1 /\ i + 1 \in 1 .. Len(wire)
        BY <1>3, <3>2
      <4>2. Follows(wire[i], wire[i + 1])
        BY <4>1 DEF FragmentsCover
      <4>3. wire'[i] = wire[i] /\ wire'[i + 1] = wire[i + 1]
        BY <1>2, <4>1
      <4> QED
        BY <4>2, <4>3
    <3> QED
      BY <3>1, <3>2
  <2>2. wire'[Len(wire')] = p /\ Len(wire') - 1 = Len(wire)
    BY <1>2, <1>3
  <2>3. IF p.fu /\ ~p.e THEN rest'.busy /\ p.nalu = Len(calls')
                        ELSE ~rest'.busy => p.nalu = Len(calls')
    BY DEF Last
  <2> QED
    BY <2>1, <2>2, <2>3 DEF FragmentsCover
<1> QED
  BY <1>4, <1>5

-----------------------------------------------------------------------------
(* What each action hands to Emit *)

(* The last packet when no loop is under way. *)
LEMMA Between ==
    ASSUME IInv, ~rest.busy, wire # <<>>
    PROVE  LET q == wire[Len(wire)] IN
           /\ ~(q.fu /\ ~q.e)
           /\ q.nalu = Len(calls)
           /\ seq = (q.seq + 1) % SeqMod
BY DEF IInv, FragmentsCover, Loop

(* A whole NALU, over TCP or UDP. *)
LEMMA WholeKeeps ==
    ASSUME IInv, TypeOK', ~rest.busy, NEW n \in Nalu, NEW length \in Nat,
           NEW size \in Nat, calls' = Append(calls, n),
           Whole(n, Len(calls'), length) \in Packet,
           Emit(Whole(n, Len(calls'), length), size),
           UNCHANGED <<tcp, rest>>
    PROVE  IInv'
<1>1. PICK p \in Packet : p = Whole(n, Len(calls'), length)
  OBVIOUS
<1>2. Emit(p, size)
  BY <1>1
<1>3. TypeOK /\ FragmentsWellFormed /\ FragmentsCover /\ calls \in Seq(Nalu)
      /\ wire \in Seq(Packet)
  BY DEF IInv, TypeOK
<1>4. Len(calls) \in Nat /\ Len(calls') = Len(calls) + 1
      /\ Len(calls') \in DOMAIN calls' /\ calls'[Len(calls')] = n
  BY <1>3
<1>5. /\ p.nalu = Len(calls') /\ p.from = 0 /\ p.to = n.size
      /\ p.seq = seq /\ p.fu = FALSE /\ p.marker = TRUE
  BY <1>1 DEF Whole
<1>6. WellFormed(p)'
  BY <1>4, <1>5 DEF WellFormed
<1>7. wire # <<>> => Follows(wire[Len(wire)], p)
  BY <1>4, <1>5, Between DEF Follows
<1>8. Last(p)'
  BY <1>5 DEF Last
<1>9. FragmentsWellFormed' /\ FragmentsCover'
  BY <1>2, <1>3, <1>6, <1>7, <1>8, EmitKeeps
<1>10. Loop'
  <2>1. wire' # <<>> /\ wire'[Len(wire')] = p /\ seq' = (p.seq + 1) % SeqMod
    BY <1>2, <1>3, <1>5 DEF Emit
  <2>2. rest' = rest /\ tcp' = tcp
    OBVIOUS
  <2> QED
    BY <2>1, <2>2 DEF Loop
<1> QED
  BY <1>9, <1>10 DEF IInv

(* A NALU over TCP is not cut. *)
LEMMA SendOverTcpKeeps ==
    ASSUME IInv, TypeOK', NEW n \in Nalu, SendOverTcp(n)
    PROVE  IInv'
<1>1. ~rest.busy
  BY DEF IInv, Loop, SendOverTcp
<1>2. seq \in 0 .. SeqMod - 1 /\ Append(calls, n) \in Seq(Nalu)
      /\ calls' = Append(calls, n)
  BY DEF IInv, TypeOK, SendOverTcp
<1>3. n.size \in Nat /\ Len(calls') \in Nat
  BY <1>2, NaluType
<1>4. (HeaderSize + n.size) % LengthMod \in Nat
      /\ FrameSize + HeaderSize + n.size \in Nat
  <2>1. HeaderSize + n.size \in Nat /\ FrameSize + HeaderSize + n.size \in Nat
    BY <1>3, Sizes
  <2>2. (HeaderSize + n.size) % LengthMod \in 0 .. LengthMod - 1
    BY <2>1, ModRange, WidthAssumption
  <2> QED
    BY <2>1, <2>2, WidthAssumption
<1>5. Whole(n, Len(calls'), (HeaderSize + n.size) % LengthMod) \in Packet
  BY <1>2, <1>3, WholeType
<1>6. /\ Emit(Whole(n, Len(calls'), (HeaderSize + n.size) % LengthMod),
              FrameSize + HeaderSize + n.size)
      /\ UNCHANGED <<tcp, rest>>
  BY DEF SendOverTcp
<1> QED
  BY <1>1, <1>2, <1>4, <1>5, <1>6, WholeKeeps

(* A NALU that fits is one packet. *)
LEMMA SendWholeKeeps ==
    ASSUME IInv, TypeOK', NEW n \in Nalu, SendWhole(n)
    PROVE  IInv'
<1>1. ~rest.busy
  BY DEF SendWhole
<1>2. seq \in 0 .. SeqMod - 1 /\ Append(calls, n) \in Seq(Nalu)
      /\ calls' = Append(calls, n)
  BY DEF IInv, TypeOK, SendWhole
<1>3. n.size \in Nat /\ Len(calls') \in Nat
  BY <1>2, NaluType
<1>4. HeaderSize + n.size \in Nat
  BY <1>3, Sizes
<1>5. Whole(n, Len(calls'), HeaderSize + n.size) \in Packet
  BY <1>2, <1>3, WholeType
<1>6. /\ Emit(Whole(n, Len(calls'), HeaderSize + n.size), HeaderSize + n.size)
      /\ UNCHANGED <<tcp, rest>>
  BY DEF SendWhole
<1> QED
  BY <1>1, <1>2, <1>4, <1>5, <1>6, WholeKeeps

(* The loop begins: no packet yet, but the whole NALU is left to send. *)
LEMMA StartFragmentsKeeps ==
    ASSUME IInv, TypeOK', NEW n \in Nalu, StartFragments(n)
    PROVE  IInv'
<1>1. /\ TypeOK /\ calls \in Seq(Nalu) /\ wire \in Seq(Packet)
      /\ calls' = Append(calls, n) /\ ~rest.busy /\ ~tcp
      /\ wire' = wire /\ seq' = seq /\ tcp' = tcp /\ n.size > MaxPayload
      /\ rest' = [busy |-> TRUE, left |-> n.size - 1, s |-> TRUE]
  BY DEF IInv, TypeOK, StartFragments
<1>2. /\ Len(calls) \in Nat /\ Len(calls') = Len(calls) + 1
      /\ calls' # <<>> /\ calls'[Len(calls')] = n
  BY <1>1
<1>3. rest'.busy = TRUE /\ rest'.left = n.size - 1 /\ rest'.s = TRUE
  BY <1>1
<1>4. n.size \in Nat /\ n.size > 1
  BY <1>1, NaluType, Sizes
<1>5. FragmentsWellFormed'
  <2> SUFFICES ASSUME NEW i \in DOMAIN wire' PROVE WellFormed(wire[i])'
    BY DEF FragmentsWellFormed
  <2>1. PICK q \in Packet : q = wire[i]
    BY <1>1
  <2>2. WellFormed(q)
    BY <1>1, <2>1 DEF IInv, FragmentsWellFormed
  <2>3. WellFormed(q)'
    BY <1>1, <2>2, WellFormedStable
  <2>4. q = wire'[i]
    BY <1>1, <2>1
  <2> QED
    BY <2>3, <2>4, Zenon DEF WellFormed
<1>6. FragmentsCover'
  <2>1. \A i \in 1 .. Len(wire') - 1 : Follows(wire'[i], wire'[i + 1])
    BY <1>1 DEF IInv, FragmentsCover
  <2>2. wire # <<>> => ~(wire[Len(wire)].fu /\ ~wire[Len(wire)].e)
    BY <1>1, Between
  <2> QED
    BY <1>1, <1>3, <2>1, <2>2 DEF FragmentsCover
<1>7. Loop'
  <2>1. wire = <<>> => calls = <<>>
    BY <1>1 DEF IInv, Loop
  <2>2. wire' = <<>> => Len(calls') = 1
    BY <1>1, <2>1
  <2>3. wire' # <<>> =>
          LET q == wire'[Len(wire')] IN
          /\ (q.fu => q.e) /\ Len(calls') = q.nalu + 1
          /\ seq' = (q.seq + 1) % SeqMod
    BY <1>1, <1>2, Between
  <2>4. rest'.left \in 1 .. n.size - 1
    BY <1>3, <1>4
  <2> QED
    BY <1>1, <1>2, <1>3, <2>2, <2>3, <2>4 DEF Loop
<1> QED
  BY <1>5, <1>6, <1>7 DEF IInv

(* One piece of the loop, of which `size` bytes go out: it begins where    *)
(* the last one ended, and reaches the end exactly if it is the last.      *)
LEMMA FragmentFollows ==
    ASSUME IInv, rest.busy, NEW size \in Nat, NEW last \in BOOLEAN,
           0 < size, size + FuHeadSize <= MaxPayload,
           last = TRUE => size = rest.left,
           last = FALSE => size < rest.left,
           NEW p \in Packet, p = Fragment(size, last), calls' = calls
    PROVE  /\ WellFormed(p)'
           /\ wire # <<>> => Follows(wire[Len(wire)], p)
           /\ p.nalu = Len(calls) /\ p.fu = TRUE /\ p.e = last /\ p.seq = seq
           /\ p.to = calls[Len(calls)].size - rest.left + size
<1> DEFINE n == calls[Len(calls)]
<1>1. /\ TypeOK /\ Loop
      /\ n.size \in Nat /\ rest.left \in Nat /\ 0 < rest.left
      /\ rest.left < n.size /\ Len(calls) \in DOMAIN calls
  BY InLoop DEF IInv
<1>2. /\ p.nalu = Len(calls) /\ p.from = n.size - rest.left
      /\ p.to = n.size - rest.left + size /\ p.seq = seq
      /\ p.fu = TRUE /\ p.s = rest.s /\ p.e = last /\ p.marker = last
  BY DEF Fragment
<1>3. rest.s <=> rest.left = n.size - 1
  BY <1>1 DEF Loop
<1>4. WellFormed(p)'
  <2>1. p.from < p.to /\ p.to - p.from + FuHeadSize <= MaxPayload
    <3>1. PICK from \in Nat : from = n.size - rest.left
      BY <1>1
    <3>2. p.from = from /\ p.to = from + size
      BY <1>2, <3>1
    <3> QED
      BY <3>2, Sizes
  <2>2. p.s <=> p.from = 1
    <3>1. n.size - rest.left = 1 <=> rest.left = n.size - 1
      BY <1>1
    <3> QED
      BY <1>2, <1>3, <3>1
  <2>3. p.e <=> p.to = n.size
    <3>1. CASE last = TRUE
      BY <1>1, <1>2, <3>1
    <3>2. CASE last = FALSE
      BY <1>1, <1>2, <3>2
    <3> QED
      BY <3>1, <3>2
  <2>4. p.marker <=> p.e
    BY <1>2
  <2>5. calls'[p.nalu].size = n.size /\ p.nalu \in DOMAIN calls'
    BY <1>1, <1>2
  <2> QED
    BY <1>2, <2>1, <2>2, <2>3, <2>4, <2>5 DEF WellFormed
<1>5. ASSUME wire # <<>> PROVE Follows(wire[Len(wire)], p)
  <2> DEFINE q == wire[Len(wire)]
  <2>1. p.seq = (q.seq + 1) % SeqMod
    BY <1>1, <1>2, <1>5 DEF Loop
  <2>2. CASE rest.s
    <3>1. (q.fu => q.e) /\ Len(calls) = q.nalu + 1
      BY <1>1, <1>5, <2>2 DEF Loop
    <3> QED
      BY <1>2, <2>1, <2>2, <3>1 DEF Follows
  <2>3. CASE ~rest.s
    <3>1. q.fu /\ ~q.e /\ q.nalu = Len(calls) /\ q.to = n.size - rest.left
      BY <1>1, <2>3 DEF Loop
    <3> QED
      BY <1>2, <2>1, <2>3, <3>1 DEF Follows
  <2> QED
    BY <2>2, <2>3
<1> QED
  BY <1>2, <1>4, <1>5

(* A fragment goes on where the last one ended. *)
LEMMA SendFragmentKeeps ==
    ASSUME IInv, TypeOK', SendFragment
    PROVE  IInv'
<1> DEFINE size == MaxPayload - FuHeadSize
           n == calls[Len(calls)]
<1>1. /\ rest.busy /\ More /\ calls' = calls /\ tcp' = tcp
      /\ Emit(Fragment(size, FALSE), HeaderSize + MaxPayload)
      /\ rest' = [busy |-> TRUE, left |-> rest.left - size, s |-> FALSE]
  BY DEF SendFragment
<1>2. /\ TypeOK /\ Loop /\ FragmentsWellFormed /\ FragmentsCover
      /\ calls # <<>> /\ n.size \in Nat /\ rest.left \in Nat
      /\ rest.left < n.size
  BY <1>1, InLoop DEF IInv
<1>3. size \in Nat /\ 0 < size /\ size + FuHeadSize <= MaxPayload
      /\ HeaderSize + MaxPayload \in Nat
  BY Sizes
<1>4. size < rest.left
  BY <1>1, <1>2, Sizes DEF More
<1>5. PICK p \in Packet : p = Fragment(size, FALSE)
  BY <1>2, <1>3, FragmentType
<1>6. Emit(p, HeaderSize + MaxPayload)
  BY <1>1, <1>5
<1> HIDE DEF size
<1>7. /\ WellFormed(p)'
      /\ wire # <<>> => Follows(wire[Len(wire)], p)
      /\ p.nalu = Len(calls) /\ p.fu = TRUE /\ p.e = FALSE /\ p.seq = seq
      /\ p.to = n.size - rest.left + size
  BY <1>1, <1>3, <1>4, <1>5, FragmentFollows
<1>8. /\ rest'.busy = TRUE /\ rest'.left = rest.left - size
      /\ rest'.s = FALSE
  BY <1>1
<1>9. Last(p)'
  BY <1>1, <1>7, <1>8 DEF Last
<1>10. FragmentsWellFormed' /\ FragmentsCover'
  BY <1>1, <1>2, <1>3, <1>6, <1>7, <1>9, EmitKeeps
<1>11. Loop'
  <2>1. wire \in Seq(Packet)
    BY <1>2 DEF TypeOK
  <2>2. wire' = Append(wire, p) /\ seq' = (seq + 1) % SeqMod
    BY <1>6 DEF Emit
  <2>3. wire' # <<>> /\ wire'[Len(wire')] = p
    BY <2>1, <2>2
  <2>4. p.seq = seq
    BY <1>7
  <2>5. wire' # <<>> /\ wire'[Len(wire')] = p /\ seq' = (p.seq + 1) % SeqMod
    BY <2>2, <2>3, <2>4
  <2>6. /\ rest'.left \in 1 .. n.size - 1
        /\ ~(rest'.left = n.size - 1)
        /\ p.to = n.size - rest'.left
    BY SMTT(40), <1>2, <1>3, <1>4, <1>7, <1>8
  <2>7. ~tcp
    BY <1>1, <1>2 DEF Loop
  <2> QED
    BY <1>1, <1>2, <1>7, <1>8, <2>5, <2>6, <2>7 DEF Loop
<1> QED
  BY <1>10, <1>11 DEF IInv

(* The last fragment ends the NALU. *)
LEMMA SendLastKeeps ==
    ASSUME IInv, TypeOK', SendLast
    PROVE  IInv'
<1> DEFINE n == calls[Len(calls)]
<1>1. /\ rest.busy /\ ~More /\ calls' = calls /\ tcp' = tcp
      /\ Emit(Fragment(rest.left, TRUE), HeaderSize + FuHeadSize + rest.left)
      /\ rest' = Idle
  BY DEF SendLast
<1>2. /\ TypeOK /\ FragmentsWellFormed /\ FragmentsCover
      /\ calls # <<>> /\ n.size \in Nat /\ rest.left \in Nat
      /\ 0 < rest.left /\ rest.left < n.size
  BY <1>1, InLoop DEF IInv
<1>3. rest.left + FuHeadSize <= MaxPayload
      /\ HeaderSize + FuHeadSize + rest.left \in Nat
  BY <1>1, <1>2, Sizes DEF More
<1>4. PICK p \in Packet : p = Fragment(rest.left, TRUE)
  BY <1>2, FragmentType
<1>5. PICK size \in Nat : size = HeaderSize + FuHeadSize + rest.left
  BY <1>3
<1>6. Emit(p, size)
  BY <1>1, <1>4, <1>5
<1>7. PICK piece \in Nat : piece = rest.left
  BY <1>2
<1>8. /\ WellFormed(p)'
      /\ wire # <<>> => Follows(wire[Len(wire)], p)
      /\ p.nalu = Len(calls) /\ p.e = TRUE /\ p.seq = seq
  BY <1>1, <1>2, <1>3, <1>4, <1>7, FragmentFollows
<1>9. rest'.busy = FALSE
  BY <1>1 DEF Idle
<1>10. Last(p)'
  BY <1>1, <1>8 DEF Last
<1>11. FragmentsWellFormed' /\ FragmentsCover'
  BY <1>1, <1>2, <1>6, <1>8, <1>10, EmitKeeps
<1>12. Loop'
  <2>1. wire \in Seq(Packet)
    BY <1>2 DEF TypeOK
  <2>2. wire' = Append(wire, p) /\ seq' = (seq + 1) % SeqMod
    BY <1>6 DEF Emit
  <2>3. wire' # <<>> /\ wire'[Len(wire')] = p
    BY <2>1, <2>2
  <2>4. p.seq = seq
    BY <1>8
  <2>5. wire' # <<>> /\ wire'[Len(wire')] = p /\ seq' = (p.seq + 1) % SeqMod
    BY <2>2, <2>3, <2>4
  <2> QED
    BY <1>9, <2>5 DEF Loop
<1> QED
  BY <1>11, <1>12 DEF IInv

(* The network and the client do not touch what the invariant is about. *)
LEMMA ClientKeeps ==
    ASSUME IInv, TypeOK', UNCHANGED <<tcp, seq, calls, rest, wire>>
    PROVE  IInv'
<1>1. FragmentsWellFormed'
  BY DEF IInv, FragmentsWellFormed, WellFormed
<1>2. FragmentsCover'
  BY DEF IInv, FragmentsCover
<1>3. Loop'
  BY DEF IInv, Loop
<1> QED
  BY <1>1, <1>2, <1>3 DEF IInv

-----------------------------------------------------------------------------
(* The calls a step of Send may make. *)
LEMMA SendIs ==
    ASSUME TypeOK, Send
    PROVE  \E n \in Nalu : SendOverTcp(n) \/ SendWhole(n) \/ StartFragments(n)
<1>1. PICK size \in Size, step \in {0, 1} :
        LET ts == IF calls = <<>> THEN 0 ELSE calls[Len(calls)].ts + step
            n == [size |-> size, ts |-> ts] IN
        SendOverTcp(n) \/ SendWhole(n) \/ StartFragments(n)
  BY DEF Send
<1>2. (IF calls = <<>> THEN 0 ELSE calls[Len(calls)].ts + step) \in Nat
  <2>1. calls \in Seq(Nalu)
    BY DEF TypeOK
  <2>2. CASE calls # <<>>
    <3>1. calls[Len(calls)] \in Nalu
      BY <2>1, <2>2
    <3>2. calls[Len(calls)].ts \in Nat
      BY <3>1, NaluType
    <3> QED
      BY <2>2, <3>2
  <2> QED
    BY <2>2
<1> QED
  BY <1>1, <1>2 DEF Nalu

(* The invariant holds before the first NALU, *)
LEMMA InvariantInit == Init => IInv
<1> SUFFICES ASSUME Init PROVE IInv
  OBVIOUS
<1>1. TypeOK
  BY TypeInit
<1>2. wire = <<>> /\ calls = <<>> /\ rest.busy = FALSE
  BY DEF Init, Idle
<1>3. FragmentsWellFormed /\ FragmentsCover /\ Loop
  BY <1>2 DEF FragmentsWellFormed, FragmentsCover, Loop
<1> QED
  BY <1>1, <1>3 DEF IInv

(* and after each step. *)
LEMMA InvariantStep == IInv /\ [Next]_vars => IInv'
<1> SUFFICES ASSUME IInv, [Next]_vars PROVE IInv'
  OBVIOUS
<1>1. CASE Send
  <2>4. PICK n \in Nalu : SendOverTcp(n) \/ SendWhole(n) \/ StartFragments(n)
    BY <1>1, SendIs DEF IInv
  <2>5. TypeOK'
    BY <2>4, SendType
  <2> QED
    BY <2>4, <2>5, SendOverTcpKeeps, SendWholeKeeps, StartFragmentsKeeps
<1>2. CASE SendFragment \/ SendLast
  <2>1. \E n \in Nalu : TRUE
    <3>1. rest.busy /\ TypeOK /\ Loop
      BY <1>2 DEF SendFragment, SendLast, IInv
    <3> QED
      BY <3>1, InLoop
  <2>2. TypeOK'
    BY <1>2, <2>1, SendType
  <2> QED
    BY <1>2, <2>2, SendFragmentKeeps, SendLastKeeps
<1>3. CASE Lose \/ Receive
  <2>1. TypeOK' /\ UNCHANGED <<tcp, seq, calls, rest, wire>>
    BY <1>3, ClientType DEF IInv
  <2> QED
    BY <2>1, ClientKeeps
<1>4. CASE UNCHANGED vars
  <2>1. TypeOK' /\ UNCHANGED <<tcp, seq, calls, rest, wire>>
    BY <1>4 DEF IInv, TypeOK, vars
  <2> QED
    BY <2>1, ClientKeeps
<1> QED
  BY <1>1, <1>2, <1>3, <1>4 DEF Next

(* The invariant of the sender holds for all sizes, widths and bounds.     *)
THEOREM Invariant == Spec => []IInv
<1>1. Init => IInv
  BY InvariantInit
<1>2. IInv /\ [Next]_vars => IInv'
  BY InvariantStep
<1> QED
  BY <1>1, <1>2, PTL DEF Spec

(* Type correctness: sequence numbers and counters keep to their width.    *)
THEOREM TypeCorrect == Spec => []TypeOK
<1>1. IInv => TypeOK
  BY DEF IInv
<1> QED
  BY <1>1, Invariant, PTL

(* No fragment exceeds the payload or is empty, and the S, E and marker    *)
(* bits are where they belong (h264_video_rtp_sink.cpp:172-224).           *)
THEOREM FragmentsAreWellFormed == Spec => []FragmentsWellFormed
<1>1. IInv => FragmentsWellFormed
  BY DEF IInv
<1> QED
  BY <1>1, Invariant, PTL

(* The fragments of a NALU cover it, in order, with consecutive numbers    *)
(* that wrap (h264_video_rtp_sink.cpp:178-204).                            *)
THEOREM FragmentsAreComplete == Spec => []FragmentsCover
<1>1. IInv => FragmentsCover
  BY DEF IInv
<1> QED
  BY <1>1, Invariant, PTL
-----------------------------------------------------------------------------
(* Lengths and counters *)

(* The length a receiver must be told. *)
TrueLength(p) == HeaderSize + (IF p.fu THEN FuHeadSize ELSE 0) + p.to - p.from

Announced(p) == (tcp => TrueLength(p) < LengthMod) => p.length = TrueLength(p)

(* What a step of the sender gives to the network: one packet, announced   *)
(* and counted as what it is, or none.                                     *)
Gives == \E p \in Packet : \E size \in Nat :
           Emit(p, size) /\ size = Octets(p) /\ Announced(p)

(* So does a NALU sent as it is, *)
LEMMA WholeGives ==
    ASSUME TypeOK, NEW n \in Nalu, NEW i \in Nat
    PROVE  /\ tcp /\ Emit(Whole(n, i, (HeaderSize + n.size) % LengthMod),
                          FrameSize + HeaderSize + n.size) => Gives
           /\ ~tcp /\ Emit(Whole(n, i, HeaderSize + n.size), HeaderSize + n.size)
                => Gives
<1>1. /\ n.size \in Nat /\ HeaderSize \in Nat /\ FrameSize \in Nat
      /\ LengthMod \in Nat \ {0} /\ seq \in 0 .. SeqMod - 1
  BY NaluType, Sizes, WidthAssumption DEF TypeOK
<1>2. CASE tcp /\ Emit(Whole(n, i, (HeaderSize + n.size) % LengthMod),
                       FrameSize + HeaderSize + n.size)
  <2>1. PICK p \in Packet : p = Whole(n, i, (HeaderSize + n.size) % LengthMod)
    BY <1>1, WholeType
  <2>2. /\ p.fu = FALSE /\ p.to = n.size /\ p.from = 0
        /\ p.length = (HeaderSize + n.size) % LengthMod
    BY <2>1 DEF Whole
  <2>3. TrueLength(p) = HeaderSize + n.size
    BY <1>1, <2>2 DEF TrueLength
  <2>4. HeaderSize + n.size < LengthMod
          => (HeaderSize + n.size) % LengthMod = HeaderSize + n.size
    BY <1>1
  <2>5. Announced(p)
    BY <1>2, <2>2, <2>3, <2>4 DEF Announced
  <2>6. FrameSize + HeaderSize + n.size = Octets(p)
    BY <1>2, <2>2 DEF Octets
  <2>7. FrameSize + HeaderSize + n.size \in Nat
    BY <1>1
  <2> QED
    BY <1>2, <2>1, <2>5, <2>6, <2>7 DEF Gives
<1>3. CASE ~tcp /\ Emit(Whole(n, i, HeaderSize + n.size), HeaderSize + n.size)
  <2>1. PICK p \in Packet : p = Whole(n, i, HeaderSize + n.size)
    BY <1>1, WholeType
  <2>2. /\ p.fu = FALSE /\ p.to = n.size /\ p.from = 0
        /\ p.length = HeaderSize + n.size
    BY <2>1 DEF Whole
  <2>3. TrueLength(p) = HeaderSize + n.size
    BY <1>1, <2>2 DEF TrueLength
  <2>4. Announced(p) /\ Octets(p) = HeaderSize + n.size
    BY <1>3, <2>2, <2>3 DEF Announced, Octets
  <2>5. HeaderSize + n.size \in Nat
    BY <1>1
  <2> QED
    BY <1>3, <2>1, <2>4, <2>5 DEF Gives
<1> QED
  BY <1>2, <1>3

(* A piece of the loop: its length is that of its bytes and both heads.    *)
LEMMA FragmentGives ==
    ASSUME IInv, rest.busy, NEW size \in Nat, NEW last \in BOOLEAN,
           Emit(Fragment(size, last), HeaderSize + FuHeadSize + size)
    PROVE  Gives
<1> DEFINE n == calls[Len(calls)]
<1>1. TypeOK /\ ~tcp
  BY DEF IInv, Loop
<1>2. /\ calls # <<>> /\ n.size \in Nat /\ rest.left \in Nat /\ rest.left < n.size
      /\ HeaderSize \in Nat /\ FuHeadSize \in Nat
  BY Sizes, InLoop DEF IInv
<1>3. PICK p \in Packet : p = Fragment(size, last)
  BY <1>1, <1>2, FragmentType
<1>4. /\ p.fu = TRUE /\ p.from = n.size - rest.left /\ p.to = p.from + size
      /\ p.length = HeaderSize + FuHeadSize + size
  BY <1>3 DEF Fragment
<1>5. p.from \in Nat
  BY DEF Packet
<1>6. TrueLength(p) = HeaderSize + FuHeadSize + size
  BY <1>2, <1>4, <1>5 DEF TrueLength
<1>7. Announced(p) /\ Octets(p) = HeaderSize + FuHeadSize + size
  BY <1>1, <1>4, <1>6 DEF Announced, Octets
<1>8. HeaderSize + FuHeadSize + size \in Nat
  BY <1>2
<1> QED
  BY <1>3, <1>7, <1>8 DEF Gives

(* and every step of the sender; the network counts nothing. *)
LEMMA StepGives ==
    ASSUME IInv, [Next]_vars
    PROVE  tcp' = tcp /\ (Gives \/ UNCHANGED <<wire, packets, octets>>)
<1>1. TypeOK /\ calls \in Seq(Nalu)
  BY DEF IInv, TypeOK
<1>2. CASE Send
  <2>1. PICK n \in Nalu : SendOverTcp(n) \/ SendWhole(n) \/ StartFragments(n)
    BY <1>1, <1>2, SendIs
  <2>2. Len(Append(calls, n)) \in Nat
    BY <1>1
  <2>3. CASE SendOverTcp(n)
    BY <1>1, <2>2, <2>3, WholeGives DEF SendOverTcp
  <2>4. CASE SendWhole(n)
    BY <1>1, <2>2, <2>4, WholeGives DEF SendWhole
  <2>5. CASE StartFragments(n)
    BY <2>5 DEF StartFragments
  <2> QED
    BY <2>1, <2>3, <2>4, <2>5
<1>3. CASE SendFragment
  <2>1. PICK size \in Nat : size = MaxPayload - FuHeadSize
    BY Sizes
  <2>2. HeaderSize + MaxPayload = HeaderSize + FuHeadSize + size
    BY <2>1, Sizes
  <2>3. Emit(Fragment(size, FALSE), HeaderSize + FuHeadSize + size) /\ rest.busy
    BY <1>3, <2>1, <2>2 DEF SendFragment
  <2>4. tcp' = tcp
    BY <1>3 DEF SendFragment
  <2> QED
    BY <2>3, <2>4, FragmentGives
<1>4. CASE SendLast
  <2>1. rest.left \in Nat
    BY <1>1 DEF TypeOK
  <2>2. /\ Emit(Fragment(rest.left, TRUE), HeaderSize + FuHeadSize + rest.left)
        /\ rest.busy /\ tcp' = tcp
    BY <1>4 DEF SendLast
  <2> QED
    BY <2>1, <2>2, FragmentGives
<1>5. CASE Lose \/ Receive
  BY <1>1, <1>5, ClientType
<1> QED
  BY <1>2, <1>3, <1>4, <1>5 DEF Next, vars

(* A datagram is announced with its true length, and so is a NALU that     *)
(* fits in the 16 bits of a frame's length (h264_video_rtp_sink.cpp:91).   *)
THEOREM LengthsAreTrue == Spec => []LengthsTrue
<1>1. LengthsTrue <=> \A i \in DOMAIN wire : Announced(wire[i])
  BY DEF LengthsTrue, Announced, TrueLength
<1>2. Init => LengthsTrue
  BY <1>1 DEF Init
<1>3. IInv /\ LengthsTrue /\ [Next]_vars => LengthsTrue'
  <2> SUFFICES ASSUME IInv, LengthsTrue, [Next]_vars PROVE LengthsTrue'
    OBVIOUS
  <2>1. tcp' = tcp /\ (Gives \/ wire' = wire)
    BY StepGives
  <2>2. CASE wire' = wire
    BY <2>1, <2>2 DEF LengthsTrue
  <2>3. CASE Gives
    <3>1. PICK p \in Packet : wire' = Append(wire, p) /\ Announced(p)
      BY <2>3 DEF Gives, Emit
    <3>2. wire \in Seq(Packet)
      BY DEF IInv, TypeOK
    <3>3. \A i \in DOMAIN wire' : Announced(wire'[i])
      <4>1. \A i \in DOMAIN wire' : wire'[i] = p \/ (i \in DOMAIN wire /\ wire'[i] = wire[i])
        BY <3>1, <3>2
      <4> QED
        BY <1>1, <3>1, <4>1
    <3> QED
      BY <2>1, <3>3 DEF LengthsTrue, Announced, TrueLength
  <2> QED
    BY <2>1, <2>2, <2>3
<1> QED
  BY <1>2, <1>3, Invariant, PTL DEF Spec

(* Total adds up what each packet counts.                                  *)
Counts == [i \in 1 .. Len(wire) |-> Octets(wire[i])]

TotalAdds == \E f \in [0 .. Len(wire) -> Nat] :
               Sums(Len(wire), Counts, f) /\ Total = f[Len(wire)]

(* There is such a row of sums, for any number of packets. *)
LEMMA TotalIs == TypeOK => TotalAdds
<1> SUFFICES ASSUME TypeOK PROVE TotalAdds
  OBVIOUS
<1> DEFINE n == Len(wire)
           Adds(f) == f = [i \in 0 .. n |-> IF i = 0 THEN 0
                                            ELSE f[i - 1] + Octets(wire[i])]
<1>1. n \in Nat /\ \A i \in 1 .. n : Counts[i] \in Nat
  <2>1. ASSUME NEW i \in 1 .. n PROVE Octets(wire[i]) \in Nat
    <3>1. PICK q \in Packet : q = wire[i]
      BY DEF TypeOK
    <3>2. q.to \in Nat /\ q.length \in Nat
      BY DEF Packet
    <3> QED
      BY <3>1, <3>2, Sizes DEF Octets
  <2>2. n \in Nat
    BY DEF TypeOK
  <2> QED
    BY <2>1, <2>2 DEF Counts
<1>2. \A f : Sums(n, Counts, f) <=> Adds(f)
  <2> TAKE f
  <2>1. \A i \in 0 .. n : i # 0 => Counts[i] = Octets(wire[i])
    BY <1>1 DEF Counts
  <2>2. [i \in 0 .. n |-> IF i = 0 THEN 0 ELSE f[i - 1] + Counts[i]]
          = [i \in 0 .. n |-> IF i = 0 THEN 0 ELSE f[i - 1] + Octets(wire[i])]
    BY <2>1
  <2> QED
    BY <2>2, Zenon DEF Sums
<1>3. Total = (CHOOSE f : Adds(f))[n]
  BY Zenon DEF Total
<1> HIDE DEF Adds
<1>4. PICK f \in [0 .. n -> Nat] : Sums(n, Counts, f)
  BY <1>1, SumsExist
<1>5. Adds(CHOOSE e : Adds(e))
  BY <1>2, <1>4, Zenon
<1>6. PICK e : e = (CHOOSE h : Adds(h)) /\ Sums(n, Counts, e)
  BY <1>2, <1>5, Zenon
<1>7. e[n] = f[n]
  <2>1. n <= n /\ \A i \in 1 .. n : Counts[i] = Counts[i]
    BY <1>1
  <2>2. SameAt(n, e, f)
    BY <1>1, <1>4, <1>6, <2>1, SumsAgree, Zenon
  <2> QED
    BY <2>2 DEF SameAt
<1>8. Total = f[n]
  BY <1>3, <1>6, <1>7, Zenon
<1> QED
  BY <1>4, <1>8 DEF TotalAdds

(* A packet more adds what it counts. *)
LEMMA TotalGrows ==
    ASSUME IInv, TypeOK', NEW p \in Packet, NEW size \in Nat, Emit(p, size),
           tcp' = tcp
    PROVE  Total \in Nat /\ Total' = Total + Octets(p)
<1> DEFINE n == Len(wire)
<1>1. wire \in Seq(Packet) /\ wire' = Append(wire, p) /\ TypeOK
  BY DEF IInv, TypeOK, Emit
<1>2. /\ n \in Nat /\ Len(wire') = n + 1 /\ wire'[n + 1] = p
      /\ \A i \in 1 .. n : wire'[i] = wire[i]
  BY <1>1
<1>3. \A q : Octets(q)' = Octets(q)
  BY DEF Octets
<1>4. PICK e \in [0 .. n -> Nat] : Sums(n, Counts, e) /\ Total = e[n]
  BY <1>1, TotalIs DEF TotalAdds
<1>5. PICK f \in [0 .. Len(wire') -> Nat] :
        Sums(Len(wire'), Counts', f) /\ Total' = f[Len(wire')]
  <2>1. TotalAdds'
    BY TotalIs, PTL
  <2> QED
    BY <2>1 DEF TotalAdds
<1>6. /\ \A i \in 1 .. n : Counts[i] = Counts'[i]
      /\ Counts'[n + 1] = Octets(p)
  BY <1>2, <1>3 DEF Counts
<1>9. PICK g, h : g = Counts /\ h = Counts'
  OBVIOUS
<1> HIDE DEF n
<1>7. e[n] = f[n]
  <2>1. Sums(n, g, e) /\ Sums(n + 1, h, f) /\ \A i \in 1 .. n : g[i] = h[i]
    BY <1>2, <1>4, <1>5, <1>6, <1>9
  <2> SUFFICES ASSUME NEW k \in Nat, NEW m \in Nat, k = n, m = n + 1
               PROVE  e[k] = f[k]
    BY <1>2
  <2>2. k <= m
    OBVIOUS
  <2>3. \A i \in 1 .. k : g[i] = h[i]
    BY <2>1
  <2>4. Sums(k, g, e)
    BY <2>1
  <2>5. Sums(m, h, f)
    BY <2>1
  <2>6. SameAt(k, e, f)
    BY <2>2, <2>3, <2>4, <2>5, SumsAgree, Zenon
  <2> QED
    BY <2>6 DEF SameAt
<1>8. f[n + 1] = f[n] + Octets(p)
  <2>1. Sums(n + 1, h, f) /\ h[n + 1] = Octets(p)
    BY <1>2, <1>5, <1>6, <1>9
  <2>2. n + 1 \in 0 .. n + 1 /\ n + 1 # 0 /\ (n + 1) - 1 = n
    BY <1>2
  <2>3. \A i \in 0 .. n + 1 : f[i] = IF i = 0 THEN 0 ELSE f[i - 1] + h[i]
    BY <2>1, Zenon DEF Sums
  <2>4. f[n + 1] = f[n] + h[n + 1]
    BY <2>2, <2>3
  <2> QED
    BY <2>1, <2>4
<1> QED
  BY <1>2, <1>4, <1>5, <1>7, <1>8

(* What the sender report tells is what was sent: packets_ counts packets  *)
(* and octets_ their bytes, in 32 bits (h264_video_rtp_sink.cpp:94-224).   *)
THEOREM ReportsAreTrue == Spec => []ReportsWhatWasSent
<1> USE WidthAssumption
<1>1. Init => ReportsWhatWasSent
  <2> SUFFICES ASSUME Init PROVE ReportsWhatWasSent
    OBVIOUS
  <2>1. wire = <<>> /\ packets = 0 /\ octets = 0 /\ Len(wire) = 0
    BY DEF Init
  <2>2. PICK f \in [0 .. Len(wire) -> Nat] :
          Sums(Len(wire), Counts, f) /\ Total = f[Len(wire)]
    BY TypeInit, TotalIs DEF TotalAdds
  <2>3. Total = 0
    <3>1. \A i \in 0 .. Len(wire) : f[i] = IF i = 0 THEN 0 ELSE f[i - 1] + Counts[i]
      BY <2>2, Zenon DEF Sums
    <3> QED
      BY <2>1, <2>2, <3>1
  <2>4. 0 % CountMod = 0
    OBVIOUS
  <2> QED
    BY <2>1, <2>3, <2>4 DEF ReportsWhatWasSent
<1>2. IInv /\ IInv' /\ ReportsWhatWasSent /\ [Next]_vars => ReportsWhatWasSent'
  <2> SUFFICES ASSUME IInv, IInv', ReportsWhatWasSent, [Next]_vars
               PROVE  ReportsWhatWasSent'
    OBVIOUS
  <2>1. tcp' = tcp /\ (Gives \/ UNCHANGED <<wire, packets, octets>>)
    BY StepGives
  <2>2. CASE UNCHANGED <<wire, packets, octets>>
    <3>1. Total' = Total
      BY <2>1, <2>2, Zenon DEF Total, Octets
    <3> QED
      BY <2>2, <3>1 DEF ReportsWhatWasSent
  <2>3. CASE Gives
    <3>1. PICK p \in Packet, size \in Nat : Emit(p, size) /\ size = Octets(p)
      BY <2>3 DEF Gives
    <3>2. Total \in Nat /\ Total' = Total + size
      BY <2>1, <3>1, TotalGrows DEF IInv
    <3>3. Len(wire) \in Nat /\ Len(wire') = Len(wire) + 1
      BY <3>1 DEF IInv, TypeOK, Emit
    <3>4. packets' = ((Len(wire) % CountMod) + 1) % CountMod
      BY <3>1 DEF ReportsWhatWasSent, Emit
    <3>5. octets' = ((Total % CountMod) + size) % CountMod
      BY <3>1 DEF ReportsWhatWasSent, Emit
    <3>6. packets' = (Len(wire) + 1) % CountMod
      BY <3>3, <3>4, RemainderOfSum
    <3>7. octets' = (Total + size) % CountMod
      BY <3>1, <3>2, <3>5, RemainderOfSum
    <3> QED
      BY <3>2, <3>3, <3>6, <3>7 DEF ReportsWhatWasSent
  <2> QED
    BY <2>1, <2>2, <2>3
<1> QED
  BY <1>1, <1>2, Invariant, PTL DEF Spec

-----------------------------------------------------------------------------
(* What the client assembles. *)

(* The fragment that the client took last. *)
TookLast(j) ==
    /\ wire[j].fu /\ ~wire[j].e
    /\ partial.seq = wire[j].seq
    /\ partial.nalu = wire[j].nalu /\ partial.to = wire[j].to

(* No datagram under way is as many as SeqMod packets away from the one    *)
(* that the client waits for, so that numbers tell them apart: it is       *)
(* neither that late nor that early.                                       *)
InWindow ==
    partial # Nothing =>
      \A j \in DOMAIN wire, i \in net :
        TookLast(j) => i - (j + 1) < SeqMod /\ (j + 1) - i < SeqMod

(* The client has the beginning of a NALU, up to the fragment taken last.  *)
PartialIsSound ==
    partial # Nothing => partial.sound /\ \E j \in DOMAIN wire : TookLast(j)

ClientInv == IInv /\ PartialIsSound /\ AssembledWhole

(* Numbers count the packets. *)
LEMMA NumbersCount ==
    ASSUME IInv, NEW j \in DOMAIN wire, NEW i \in DOMAIN wire, j <= i
    PROVE  wire[i].seq = (wire[j].seq + (i - j)) % SeqMod
<1>1. /\ wire \in Seq(Packet) /\ DOMAIN wire = 1 .. Len(wire) /\ Len(wire) \in Nat
      /\ j \in Nat /\ i \in Nat
  BY DEF IInv, TypeOK
<1>2. \A k \in DOMAIN wire : wire[k].seq \in 0 .. SeqMod - 1
  <2> SUFFICES ASSUME NEW k \in DOMAIN wire PROVE wire[k].seq \in 0 .. SeqMod - 1
    OBVIOUS
  <2>1. wire[k] \in Packet
    BY <1>1
  <2> QED
    BY <2>1 DEF Packet
<1> DEFINE s == wire[j].seq
           S == {n \in Nat : j + n <= Len(wire) =>
                               wire[j + n].seq = (s + n) % SeqMod}
<1>3. s \in Nat /\ s < SeqMod /\ SeqMod \in Nat \ {0}
  BY <1>2, WidthAssumption
<1>4. 0 \in S
  BY <1>1, <1>3
<1>5. ASSUME NEW n \in Nat, n \in S PROVE n + 1 \in S
  <2> SUFFICES ASSUME j + (n + 1) <= Len(wire)
               PROVE  wire[j + (n + 1)].seq = (s + (n + 1)) % SeqMod
    OBVIOUS
  <2>1. j + n \in 1 .. Len(wire) - 1 /\ (j + n) + 1 = j + (n + 1)
    BY <1>1
  <2>2. Follows(wire[j + n], wire[(j + n) + 1])
    BY <2>1 DEF IInv, FragmentsCover
  <2>3. wire[j + n].seq = (s + n) % SeqMod
    BY <1>1, <1>5, <2>1
  <2>4. wire[j + (n + 1)].seq = (((s + n) % SeqMod) + 1) % SeqMod
    BY <2>1, <2>2, <2>3 DEF Follows
  <2>5. s + n \in Nat /\ (s + n) + 1 = s + (n + 1)
    BY <1>3
  <2>6. (((s + n) % SeqMod) + 1) % SeqMod = ((s + n) + 1) % SeqMod
    BY <1>3, <2>5, RemainderOfSum
  <2> QED
    BY <2>4, <2>5, <2>6
<1>6. i - j \in Nat /\ j + (i - j) = i /\ i <= Len(wire)
  BY <1>1
<1> HIDE DEF S
<1>7. i - j \in S
  BY <1>4, <1>5, <1>6, InductionOverNat
<1> QED
  BY <1>6, <1>7 DEF S

(* Within the window, the packet with the next number is the next packet. *)
LEMMA NextInWindow ==
    ASSUME IInv, NEW j \in DOMAIN wire, NEW i \in DOMAIN wire,
           i - (j + 1) < SeqMod, (j + 1) - i < SeqMod,
           wire[i].seq = (wire[j].seq + 1) % SeqMod
    PROVE  i = j + 1
<1>1. /\ wire \in Seq(Packet) /\ i \in Nat /\ j \in Nat
      /\ SeqMod \in Nat \ {0}
  BY WidthAssumption DEF IInv, TypeOK
<1>2. \A k \in DOMAIN wire : wire[k].seq \in Nat /\ wire[k].seq < SeqMod
  <2> SUFFICES ASSUME NEW k \in DOMAIN wire
               PROVE  wire[k].seq \in Nat /\ wire[k].seq < SeqMod
    OBVIOUS
  <2>1. wire[k] \in Packet
    BY <1>1
  <2> QED
    BY <1>1, <2>1 DEF Packet
<1> DEFINE s == wire[j].seq
           z == wire[i].seq
<1>3. s \in Nat /\ z \in Nat /\ s < SeqMod /\ z < SeqMod
  BY <1>2
<1>4. z = (s + 1) % SeqMod
  OBVIOUS
<1>5. /\ j <= i => z = (s + (i - j)) % SeqMod
      /\ i <= j => s = (z + (j - i)) % SeqMod
  BY NumbersCount
<1> HIDE DEF s, z
<1>6. CASE j <= i
  <2>1. s + 1 \in Nat /\ s + (i - j) \in Nat
    BY <1>1, <1>3, <1>6
  <2>2. (s + 1) % SeqMod = (s + (i - j)) % SeqMod
    BY <1>4, <1>5, <1>6
  <2>3. /\ (s + 1) - (s + (i - j)) < SeqMod
        /\ (s + (i - j)) - (s + 1) < SeqMod
    BY <1>1, <1>3
  <2>4. s + 1 = s + (i - j)
    BY <1>1, <2>1, <2>2, <2>3, SameRemainder
  <2>5. i \in Int /\ j \in Int /\ s \in Int
    BY <1>1, <1>3
  <2> QED
    BY ONLY <2>4, <2>5
<1>7. CASE i < j
  <2> DEFINE d == j - i
  <2>1. d \in Nat /\ d + 1 < SeqMod /\ i <= j
    BY <1>1, <1>7
  <2> HIDE DEF d
  <2>2. z + d \in Nat /\ (z + d) + 1 = z + (d + 1) /\ z + (d + 1) \in Nat
    BY <1>3, <2>1
  <2>3. z = (((z + d) % SeqMod) + 1) % SeqMod
    <3>1. s = (z + d) % SeqMod
      BY <1>5, <2>1 DEF d
    <3> QED
      BY <1>4, <3>1, Zenon
  <2>4. z = (z + (d + 1)) % SeqMod
    <3>1. PICK e \in Nat : e = z + d
      BY <2>2
    <3>2. ((e % SeqMod) + 1) % SeqMod = (e + 1) % SeqMod
      BY <1>1, RemainderOfSum
    <3> QED
      BY <2>2, <2>3, <3>1, <3>2
  <2>5. z = z % SeqMod
    BY <1>1, <1>3
  <2>6. z - (z + (d + 1)) < SeqMod /\ (z + (d + 1)) - z < SeqMod
    BY <1>1, <1>3, <2>1
  <2>7. z = z + (d + 1)
    BY <1>1, <1>3, <2>2, <2>4, <2>5, <2>6, SameRemainder
  <2> QED
    BY <1>3, <2>1, <2>7
<1> QED
  BY <1>1, <1>6, <1>7

(* What is assembled with a datagram is the beginning of a NALU. *)
LEMMA AssembledIsSound ==
    ASSUME ClientInv, InWindow, NEW i \in net, wire[i].fu, Assembled(wire[i]) # Nothing
    PROVE  /\ Assembled(wire[i]).sound
           /\ Assembled(wire[i]).seq = wire[i].seq
           /\ Assembled(wire[i]).nalu = wire[i].nalu
           /\ Assembled(wire[i]).to = wire[i].to
<1> DEFINE p == wire[i]
<1>1. i \in DOMAIN wire /\ IInv /\ PartialIsSound
  BY DEF ClientInv, IInv, TypeOK
<1>2. CASE p.s
  <2>1. p.from = 1
    BY <1>1, <1>2 DEF IInv, FragmentsWellFormed, WellFormed
  <2> QED
    BY <1>2, <2>1 DEF Assembled
<1>3. CASE ~p.s
  <2>1. partial # Nothing /\ p.seq = (partial.seq + 1) % SeqMod
    BY <1>3 DEF Assembled
  <2>2. PICK j \in DOMAIN wire : TookLast(j)
    BY <1>1, <2>1 DEF PartialIsSound
  <2>3. partial.sound
    BY <1>1, <2>1 DEF PartialIsSound
  <2>4. i = j + 1
    <3>1. i - (j + 1) < SeqMod /\ (j + 1) - i < SeqMod
      BY <2>1, <2>2 DEF InWindow
    <3>2. wire[i].seq = (wire[j].seq + 1) % SeqMod
      BY <2>1, <2>2 DEF TookLast
    <3> QED
      BY <1>1, <3>1, <3>2, NextInWindow
  <2>5. j \in 1 .. Len(wire) - 1
    BY <1>1, <2>4 DEF IInv, TypeOK
  <2>6. Follows(wire[j], wire[j + 1])
    BY <1>1, <2>5 DEF IInv, FragmentsCover
  <2>7. p.nalu = partial.nalu /\ p.from = partial.to
    BY <2>2, <2>4, <2>6 DEF Follows, TookLast
  <2> QED
    BY <1>3, <2>1, <2>3, <2>7 DEF Assembled
<1> QED
  BY <1>2, <1>3

(* Receiving keeps what the client has sound. *)
LEMMA ReceiveKeeps ==
    ASSUME ClientInv, InWindow, Receive
    PROVE  PartialIsSound' /\ AssembledWhole'
<1>1. PICK i \in net :
        LET p == wire[i]
            a == Assembled(p) IN
        \/ /\ ~p.fu
           /\ got' = got \union {[nalu |-> p.nalu, whole |-> TRUE]}
           /\ partial' = Nothing
        \/ /\ p.fu /\ p.e /\ a # Nothing
           /\ got' = got \union
                {[nalu |-> a.nalu,
                  whole |-> a.sound /\ a.to = calls[a.nalu].size]}
           /\ partial' = Nothing
        \/ /\ p.fu /\ ~(p.e /\ a # Nothing)
           /\ partial' = a
           /\ UNCHANGED got
  BY Zenon DEF Receive
<1> DEFINE p == wire[i]
           a == Assembled(p)
<1>2. wire' = wire /\ i \in DOMAIN wire /\ AssembledWhole
  BY DEF Receive, ClientInv, IInv, TypeOK
<1>3. CASE ~p.fu
  <2>1. got' = got \union {[nalu |-> p.nalu, whole |-> TRUE]} /\ partial' = Nothing
    BY <1>1, <1>3, Zenon
  <2> QED
    BY <1>2, <2>1 DEF PartialIsSound, AssembledWhole
<1>4. CASE p.fu /\ p.e /\ a # Nothing
  <2>1. /\ got' = got \union {[nalu |-> a.nalu,
                               whole |-> a.sound /\ a.to = calls[a.nalu].size]}
        /\ partial' = Nothing
    BY <1>1, <1>4, Zenon
  <2>2. a.sound /\ a.nalu = p.nalu /\ a.to = p.to
    BY <1>4, AssembledIsSound
  <2>3. p.to = calls[p.nalu].size
    BY <1>2, <1>4 DEF ClientInv, IInv, FragmentsWellFormed, WellFormed
  <2>4. a.sound /\ a.to = calls[a.nalu].size
    BY <2>2, <2>3, Zenon
  <2>5. (a.sound /\ a.to = calls[a.nalu].size) = TRUE
    BY <2>4, Zenon
  <2> HIDE DEF a
  <2>6. got' = got \union {[nalu |-> a.nalu, whole |-> TRUE]}
    BY <2>1, <2>5, Zenon
  <2> QED
    BY <1>2, <2>1, <2>6 DEF PartialIsSound, AssembledWhole
<1>5. CASE p.fu /\ ~(p.e /\ a # Nothing)
  <2>1. partial' = a /\ got' = got
    BY <1>1, <1>5, Zenon
  <2>2. a # Nothing => a.sound /\ a.seq = p.seq /\ a.nalu = p.nalu /\ a.to = p.to
    BY <1>5, AssembledIsSound
  <2> HIDE DEF a
  <2>3. a # Nothing => partial'.sound /\ TookLast(i)'
    BY <1>2, <1>5, <2>1, <2>2 DEF TookLast
  <2> QED
    BY <1>2, <2>1, <2>3 DEF PartialIsSound, AssembledWhole
<1> QED
  BY <1>3, <1>4, <1>5

(* What is sent does not change what was received. *)
LEMMA OthersKeep ==
    ASSUME ClientInv, partial' = partial, got' = got,
           wire' = wire \/ \E p \in Packet : wire' = Append(wire, p)
    PROVE  PartialIsSound' /\ AssembledWhole'
<1>1. wire \in Seq(Packet) /\ PartialIsSound /\ AssembledWhole
  BY DEF ClientInv, IInv, TypeOK
<1>2. \A j \in DOMAIN wire : j \in DOMAIN wire' /\ wire'[j] = wire[j]
  BY <1>1
<1>3. \A j \in DOMAIN wire : TookLast(j) => TookLast(j)'
  BY <1>2 DEF TookLast
<1> QED
  BY <1>1, <1>2, <1>3 DEF PartialIsSound, AssembledWhole

(* Every step within the window keeps what the client has sound. *)
LEMMA ClientStep == ClientInv /\ InWindow /\ [Next]_vars => ClientInv'
<1> SUFFICES ASSUME ClientInv, InWindow, [Next]_vars PROVE ClientInv'
  OBVIOUS
<1>1. IInv /\ IInv'
  BY InvariantStep DEF ClientInv
<1>2. CASE Receive
  BY <1>1, <1>2, ReceiveKeeps DEF ClientInv
<1>3. CASE ~Receive
  <2>1. partial' = partial /\ got' = got
    BY <1>3 DEF Next, vars, Send, SendOverTcp, SendWhole, StartFragments,
                SendFragment, SendLast, Lose
  <2>2. wire' = wire \/ \E p \in Packet : wire' = Append(wire, p)
    <3>1. Gives \/ UNCHANGED <<wire, packets, octets>>
      BY <1>1, StepGives
    <3> QED
      BY <3>1 DEF Gives, Emit
  <2> QED
    BY <1>1, <2>1, <2>2, OthersKeep DEF ClientInv
<1> QED
  BY <1>2, <1>3

(* A client that goes by the sequence numbers and the S and E bits never   *)
(* takes a damaged NALU for a whole one, whatever is lost, duplicated or   *)
(* reordered within the window of the numbers                              *)
(* (h264_video_rtp_sink.cpp:75-149, rtp.h).                                *)
THEOREM NoDamagedNalu == Spec /\ []InWindow => []AssembledWhole
<1>1. Init => ClientInv
  BY InvariantInit DEF Init, ClientInv, PartialIsSound, AssembledWhole
<1>2. ClientInv => AssembledWhole
  BY DEF ClientInv
<1> QED
  BY <1>1, <1>2, ClientStep, PTL DEF Spec
=============================================================================
