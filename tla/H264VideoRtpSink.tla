-------------------------- MODULE H264VideoRtpSink --------------------------
(***************************************************************************)
(* How H264VideoRtpSink turns NALUs into RTP packets: one interleaved      *)
(* frame each over TCP; over UDP one datagram each, or FU-A fragments when *)
(* the NALU does not fit (media/h264_video_rtp_sink.cpp, Send of an        *)
(* AVPacket; the overload for raw data repeats it and has no caller).      *)
(*                                                                         *)
(* Bytes are counted, not represented: a packet carries the bytes from+1   *)
(* to `to` of a NALU.  The loop over fragments is one step per iteration,  *)
(* since every iteration hands a datagram to the network.  The network and *)
(* the client are external: datagrams are lost, duplicated and reordered,  *)
(* and the client assembles fragments as RFC 6184 has it.                  *)
(***************************************************************************)
EXTENDS Naturals, Sequences

CONSTANTS
    MaxPayload,  \* RTP_MAX_PAYLOAD_SIZE
    HeaderSize,  \* RTP_HEADER_SIZE
    FuHeadSize,  \* RTP_FU_A_HEAD_LEN
    FrameSize,   \* INTERLEAVED_FRAME_SIZE
    SeqMod,      \* 2^16: RTP sequence numbers wrap
    LengthMod,   \* 2^16: lengths that fit in an interleaved frame's head
    CountMod,    \* 2^32: packets_ and octets_ wrap
    InitSeq,     \* the values of rd() & 0xFF
    Size,        \* sizes of NALUs
    MaxNalus     \* bound: calls of Send

ASSUME SizeAssumption ==
    /\ MaxPayload \in Nat /\ HeaderSize \in Nat /\ FrameSize \in Nat
    /\ FuHeadSize \in Nat \ {0} /\ FuHeadSize < MaxPayload
    /\ Size \subseteq Nat
ASSUME WidthAssumption ==
    /\ SeqMod \in Nat \ {0} /\ LengthMod \in Nat \ {0}
    /\ CountMod \in Nat \ {0}
    /\ InitSeq \subseteq 0 .. SeqMod - 1
ASSUME NalusAssumption == MaxNalus \in Nat

VARIABLES
    tcp,      \* tcp_conn_ is set
    seq,      \* init_seq_
    packets,  \* packets_
    octets,   \* octets_
    calls,    \* the NALUs that Send was called with
    rest,     \* the loop over the fragments of the last one
    wire,     \* packets sent, in order
    net,      \* indices in `wire` of the datagrams in flight
    partial,  \* the client: the NALU it is assembling
    got       \* the client: the NALUs it has assembled

vars == <<tcp, seq, packets, octets, calls, rest, wire, net, partial, got>>

Nalu == [size : Size, ts : Nat]

(* An RTP packet.  `length` is the length its receiver is told: that of    *)
(* the datagram, or the one in the head of the interleaved frame.          *)
Packet == [nalu : Nat, from : Nat, to : Nat, ts : Nat,
           seq : 0 .. SeqMod - 1, length : Nat,
           fu : BOOLEAN, s : BOOLEAN, e : BOOLEAN, marker : BOOLEAN]

(* data_len, and the S bit of FU_A[1]; busy between Start and SendLast. *)
Idle == [busy |-> FALSE, left |-> 0, s |-> FALSE]

Nothing == [seq |-> 0, nalu |-> 0, to |-> 0, sound |-> FALSE]

Init ==
    /\ tcp \in BOOLEAN
    /\ seq \in InitSeq
    /\ packets = 0
    /\ octets = 0
    /\ calls = <<>>
    /\ rest = Idle
    /\ wire = <<>>
    /\ net = {}
    /\ partial = Nothing
    /\ got = {}

-----------------------------------------------------------------------------
(* Sending *)

(* Deviation: a sequence number that does not wrap. *)
EmitWide(p, size) ==
    /\ wire' = Append(wire, p)
    /\ net' = IF tcp THEN net ELSE net \union {Len(wire) + 1}
    /\ seq' = seq + 1
    /\ packets' = (packets + 1) % CountMod
    /\ octets' = (octets + size) % CountMod

(* The packet goes to the connection; init_seq_, packets_ and octets_ move *)
(* on.  `size` is what octets_ counts of it.                               *)
Emit(p, size) ==
    /\ wire' = Append(wire, p)
    /\ net' = IF tcp THEN net ELSE net \union {Len(wire) + 1}
    /\ seq' = (seq + 1) % SeqMod
    /\ packets' = (packets + 1) % CountMod
    /\ octets' = (octets + size) % CountMod

(* Send: the packet that carries the whole of NALU n, of call number i. *)
Whole(n, i, length) ==
    [nalu |-> i, from |-> 0, to |-> n.size, ts |-> n.ts,
     seq |-> seq, length |-> length,
     fu |-> FALSE, s |-> FALSE, e |-> FALSE, marker |-> TRUE]

(* Deviation: the length in the head leaves out the RTP header. *)
SendOverTcpBare(n) ==
    /\ tcp
    /\ calls' = Append(calls, n)
    /\ Emit(Whole(n, Len(calls'), n.size % LengthMod),
            FrameSize + HeaderSize + n.size)
    /\ UNCHANGED <<tcp, rest, partial, got>>

(* The length of the frame has 16 bits, whatever the size of the NALU. *)
SendOverTcp(n) ==
    /\ tcp
    /\ calls' = Append(calls, n)
    /\ Emit(Whole(n, Len(calls'), (HeaderSize + n.size) % LengthMod),
            FrameSize + HeaderSize + n.size)
    /\ UNCHANGED <<tcp, rest, partial, got>>

SendWhole(n) ==
    /\ ~tcp
    /\ ~rest.busy
    /\ n.size <= MaxPayload
    /\ calls' = Append(calls, n)
    /\ Emit(Whole(n, Len(calls'), HeaderSize + n.size), HeaderSize + n.size)
    /\ UNCHANGED <<tcp, rest, partial, got>>

(* The first byte of the NALU travels in the FU indicator and header. *)
StartFragments(n) ==
    /\ ~tcp
    /\ ~rest.busy
    /\ n.size > MaxPayload
    /\ calls' = Append(calls, n)
    /\ rest' = [busy |-> TRUE, left |-> n.size - 1, s |-> TRUE]
    /\ UNCHANGED <<tcp, seq, packets, octets, wire, net, partial, got>>

(* The next `size` bytes of the NALU, with the E bit and the marker set on *)
(* the last piece.                                                         *)
Fragment(size, last) ==
    LET n == calls[Len(calls)]
        from == n.size - rest.left IN
    [nalu |-> Len(calls), from |-> from, to |-> from + size, ts |-> n.ts,
     seq |-> seq, length |-> HeaderSize + FuHeadSize + size,
     fu |-> TRUE, s |-> rest.s, e |-> last, marker |-> last]

(* Deviations: the loop goes on when the rest just fits; it forgets the    *)
(* two bytes of the FU head.                                               *)
MoreWhenItFits == rest.left + FuHeadSize >= MaxPayload
MoreForgetsHead == rest.left > MaxPayload

More == rest.left + FuHeadSize > MaxPayload

(* Deviations: the S bit stays set; the cursor moves by a whole payload. *)
SendFragmentKeepsS ==
    LET size == MaxPayload - FuHeadSize IN
    /\ rest.busy
    /\ More
    /\ Emit(Fragment(size, FALSE), HeaderSize + MaxPayload)
    /\ rest' = [busy |-> TRUE, left |-> rest.left - size, s |-> TRUE]
    /\ UNCHANGED <<tcp, calls, partial, got>>

SendFragmentSkips ==
    LET size == MaxPayload - FuHeadSize IN
    /\ rest.busy
    /\ More
    /\ Emit(Fragment(size, FALSE), HeaderSize + MaxPayload)
    /\ rest' = [busy |-> TRUE, left |-> rest.left - MaxPayload, s |-> FALSE]
    /\ UNCHANGED <<tcp, calls, partial, got>>

SendFragment ==
    LET size == MaxPayload - FuHeadSize IN
    /\ rest.busy
    /\ More
    /\ Emit(Fragment(size, FALSE), HeaderSize + MaxPayload)
    /\ rest' = [busy |-> TRUE, left |-> rest.left - size, s |-> FALSE]
    /\ UNCHANGED <<tcp, calls, partial, got>>

(* Deviation: octets_ leaves out the FU head of the last piece. *)
SendLastCountsLess ==
    /\ rest.busy
    /\ ~More
    /\ Emit(Fragment(rest.left, TRUE), HeaderSize + rest.left)
    /\ rest' = Idle
    /\ UNCHANGED <<tcp, calls, partial, got>>

SendLast ==
    /\ rest.busy
    /\ ~More
    /\ Emit(Fragment(rest.left, TRUE), HeaderSize + FuHeadSize + rest.left)
    /\ rest' = Idle
    /\ UNCHANGED <<tcp, calls, partial, got>>

(* A call of Send: RtspStreamState gives the timestamp of the previous     *)
(* NALU, or a later one.                                                   *)
Send ==
    /\ Len(calls) < MaxNalus
    /\ \E size \in Size, step \in {0, 1} :
         LET ts == IF calls = <<>> THEN 0 ELSE calls[Len(calls)].ts + step
             n == [size |-> size, ts |-> ts] IN
         SendOverTcp(n) \/ SendWhole(n) \/ StartFragments(n)

-----------------------------------------------------------------------------
(* The network and the client of a UDP stream *)

Lose ==
    /\ \E i \in net : net' = net \ {i}
    /\ UNCHANGED <<tcp, seq, packets, octets, calls, rest, wire, partial, got>>

(* What the client has of a NALU once fragment p arrived: a new start, the *)
(* fragment with the next number, or nothing.                              *)
Assembled(p) ==
    IF p.s
    THEN [seq |-> p.seq, nalu |-> p.nalu, to |-> p.to, sound |-> p.from = 1]
    ELSE IF partial # Nothing /\ p.seq = (partial.seq + 1) % SeqMod
    THEN [seq |-> p.seq, nalu |-> p.nalu, to |-> p.to,
          sound |-> /\ partial.sound
                    /\ p.nalu = partial.nalu
                    /\ p.from = partial.to]
    ELSE Nothing

(* A datagram arrives; a copy of it may arrive again. *)
Receive ==
    \E i \in net :
      LET p == wire[i]
          a == Assembled(p) IN
      /\ net' \in {net, net \ {i}}
      /\ \/ /\ ~p.fu
            /\ got' = got \union {[nalu |-> p.nalu, whole |-> TRUE]}
            /\ partial' = Nothing
         \/ /\ p.fu /\ p.e /\ a # Nothing
            /\ got' = got \union
                 {[nalu |-> a.nalu,
                   whole |-> a.sound /\ a.to = calls[a.nalu].size]}
            /\ partial' = Nothing
         \/ /\ p.fu /\ ~(p.e /\ a # Nothing)
            /\ partial' = a
            /\ UNCHANGED got
      /\ UNCHANGED <<tcp, seq, packets, octets, calls, rest, wire>>

Next == Send \/ SendFragment \/ SendLast \/ Lose \/ Receive

Spec == Init /\ [][Next]_vars

-----------------------------------------------------------------------------
(* Properties *)

(* Type correctness: among others, sequence numbers keep to 16 bits. *)
TypeOK ==
    /\ tcp \in BOOLEAN
    /\ seq \in 0 .. SeqMod - 1
    /\ packets \in 0 .. CountMod - 1
    /\ octets \in 0 .. CountMod - 1
    /\ calls \in Seq(Nalu)
    /\ rest \in [busy : BOOLEAN, left : Nat, s : BOOLEAN]
    /\ wire \in Seq(Packet)
    /\ net \subseteq DOMAIN wire
    /\ partial \in [seq : 0 .. SeqMod - 1, nalu : Nat, to : Nat, sound : BOOLEAN]
    /\ got \subseteq [nalu : Nat, whole : BOOLEAN]

(* Every fragment fits the payload and carries something; S marks exactly  *)
(* the one that follows the NALU's first byte, E and the marker exactly    *)
(* the one that reaches its end; what is not a fragment is a whole NALU.   *)
WellFormed(p) ==
    LET size == calls[p.nalu].size IN
    /\ p.nalu \in DOMAIN calls
    /\ p.fu => /\ p.from < p.to
               /\ p.to - p.from + FuHeadSize <= MaxPayload
               /\ p.s <=> p.from = 1
               /\ p.e <=> p.to = size
               /\ p.marker <=> p.e
    /\ ~p.fu => p.from = 0 /\ p.to = size /\ p.marker

FragmentsWellFormed == \A i \in DOMAIN wire : WellFormed(wire[i])

(* Nothing is left out or sent twice, however long the loop runs: after a  *)
(* fragment without E comes the one that starts where it ended, after any  *)
(* other packet the beginning of the next NALU; numbers are consecutive.   *)
Follows(p, q) ==
    /\ q.seq = (p.seq + 1) % SeqMod
    /\ IF p.fu /\ ~p.e
       THEN q.fu /\ ~q.s /\ q.nalu = p.nalu /\ q.from = p.to
       ELSE q.nalu = p.nalu + 1 /\ (q.fu => q.s)

FragmentsCover ==
    /\ \A i \in 1 .. Len(wire) - 1 : Follows(wire[i], wire[i + 1])
    /\ wire # <<>> =>
         LET p == wire[Len(wire)] IN
         IF p.fu /\ ~p.e THEN rest.busy /\ p.nalu = Len(calls)
                         ELSE ~rest.busy => p.nalu = Len(calls)

(* The loop over the fragments of the last NALU, which FragmentsCover does *)
(* not see before its first datagram: something is left to send, S is set  *)
(* until the first piece, and the pieces sent end where the rest begins;   *)
(* and the number that the next packet will have.                          *)
Loop ==
    /\ tcp => ~rest.busy
    /\ wire # <<>> => seq = (wire[Len(wire)].seq + 1) % SeqMod
    /\ ~rest.busy /\ wire = <<>> => calls = <<>>
    /\ rest.busy =>
         /\ calls # <<>>
         /\ rest.left \in 1 .. calls[Len(calls)].size - 1
         /\ rest.s <=> rest.left = calls[Len(calls)].size - 1
         /\ rest.s /\ wire = <<>> => Len(calls) = 1
         /\ rest.s /\ wire # <<>> =>
              LET p == wire[Len(wire)] IN
              (p.fu => p.e) /\ Len(calls) = p.nalu + 1
         /\ ~rest.s =>
              LET p == wire[Len(wire)] IN
              /\ wire # <<>>
              /\ p.fu /\ ~p.e /\ p.nalu = Len(calls)
              /\ p.to = calls[Len(calls)].size - rest.left

(* The inductive invariant of the sender. *)
IInv == TypeOK /\ FragmentsWellFormed /\ FragmentsCover /\ Loop

(* Whatever the network loses, duplicates or reorders, a client that goes  *)
(* by the sequence numbers and the S and E bits never takes a damaged NALU *)
(* for a whole one (as long as fewer than SeqMod datagrams are under way,  *)
(* so that numbers tell them apart).                                       *)
AssembledWhole == \A g \in got : g.whole

(* A NALU that fits in the 16 bits of a frame's length is announced with   *)
(* its true length; a datagram always is.                                  *)
LengthsTrue ==
    \A i \in DOMAIN wire :
        LET p == wire[i]
            true == HeaderSize + (IF p.fu THEN FuHeadSize ELSE 0)
                      + p.to - p.from IN
        (tcp => true < LengthMod) => p.length = true

(* What the sender report tells of the stream is what was sent: octets_    *)
(* counts the packets with their headers, over TCP the frame heads too.    *)
Octets(p) == IF tcp THEN FrameSize + HeaderSize + p.to ELSE p.length

Total ==
    LET total[i \in 0 .. Len(wire)] ==
            IF i = 0 THEN 0 ELSE total[i - 1] + Octets(wire[i])
    IN total[Len(wire)]

ReportsWhatWasSent ==
    /\ packets = Len(wire) % CountMod
    /\ octets = Total % CountMod

-----------------------------------------------------------------------------
(* What comments of the code say and the code does not do. *)

(* "For video, the marker marks the end of a frame" (media/rtp.h,          *)
(* h264_video_rtp_sink.cpp:54), and "a frame may have several NALUs"       *)
(* (rtsp_stream_state.cpp:156), which share their timestamp.               *)
MarkerEndsFrame ==
    \A i \in 1 .. Len(wire) - 1 :
        wire[i].marker => wire[i + 1].ts # wire[i].ts
=============================================================================
