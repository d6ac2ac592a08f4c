-------------------------- MODULE RtspStreamState --------------------------
(***************************************************************************)
(* The life of RtspStreamState objects and of the PlayOnce closures that   *)
(* the event loop holds for them (rtsp/rtsp_stream_state.cpp).             *)
(*                                                                         *)
(* A closure binds the raw `this` of its stream, and nothing ever cancels  *)
(* it: a TEARDOWN or a disconnect destroys the object while closures for   *)
(* it may still be queued.  Memory is therefore modelled by address: the   *)
(* content of a block outlives the object in it (the destructor's stores   *)
(* are what a late closure reads), and a block that is free may be given   *)
(* to the next RtspStreamState or to any other allocation.                 *)
(*                                                                         *)
(* The loop is external: one thread, a FIFO of functors (QueueInLoop) and  *)
(* a queue of timers.  Every timer of the program has the same delay of    *)
(* 0.04 s, so timers expire in the order in which they were armed.         *)
(***************************************************************************)
EXTENDS Naturals, Sequences, FiniteSets, Functions

CONSTANTS
    Addr,        \* heap blocks large enough for one RtspStreamState
    File,        \* what each GetNextFrame call on the media file yields
    TsMod,       \* 2^32: RTP timestamps wrap
    TsDuration,  \* ts_duration_, the timestamp step of one frame
    RandomTs,    \* the values of rd() & 0xffffff
    MaxLives,    \* bound: objects constructed at one address
    MaxStarts    \* bound: Play calls at one address

(* The kinds of result of GetNextFrame: a NALU of type SPS, PPS or SEI,    *)
(* any other NALU, a NALU of length 0 (two start codes in a row), whose    *)
(* type byte is uninitialised memory, and a read that fails.               *)
Nalu == {"param", "slice", "empty", "bad"}

ASSUME FileAssumption == File \in Seq(Nalu)
ASSUME TimestampAssumption ==
    /\ TsMod \in Nat \ {0}
    /\ TsDuration \in 0 .. TsMod - 1
    /\ RandomTs \subseteq 0 .. TsMod - 1
    /\ RandomTs # {}
ASSUME BoundAssumption == MaxLives \in Nat /\ MaxStarts \in Nat

VARIABLES
    live,     \* addresses that hold a constructed stream
    stream,   \* content of each block, kept when the object is destroyed
    lives,    \* auxiliary: objects constructed so far at each address
    starts,   \* auxiliary: Play calls so far at each address
    pending,  \* functors queued in the loop
    timers,   \* armed timers, in order of expiry
    up        \* the process is running

vars == <<live, stream, lives, starts, pending, timers, up>>

(* A PlayOnce closure.  `life` is auxiliary: which object at this address  *)
(* the closure was made for.                                               *)
Task == [addr : Addr, life : Nat, update : BOOLEAN]

(* One call of rtp_sink_->Send; `life` is auxiliary, that of the closure.  *)
Frame == [nalu : Nalu, ts : 0 .. TsMod - 1, life : Nat]

(* playing_, whether frame_source_ points to one, its cursor, and          *)
(* last_rtp_ts_; and, auxiliary, what was sent, the Play calls of this     *)
(* object, and how many of its chains of closures ended with a BYE or      *)
(* silently.                                                               *)
Stream == [playing : BOOLEAN, source : BOOLEAN, pos : 0 .. Len(File),
           ts : 0 .. TsMod - 1, sent : Seq(Frame),
           plays : Nat, byes : Nat, stalls : Nat]

(* Deviation: a constructor that leaves playing_ as the block had it. *)
NewStreamPlaying == [playing |-> TRUE, source |-> TRUE, pos |-> 0, ts |-> 0,
                     sent |-> <<>>, plays |-> 0, byes |-> 0, stalls |-> 0]

NewStream == [playing |-> FALSE, source |-> TRUE, pos |-> 0, ts |-> 0,
              sent |-> <<>>, plays |-> 0, byes |-> 0, stalls |-> 0]

(* A block in which no stream was constructed yet; no closure points to it. *)
NoStream == [NewStream EXCEPT !.source = FALSE]

Init ==
    /\ live = {}
    /\ stream = [a \in Addr |-> NoStream]
    /\ lives = [a \in Addr |-> 0]
    /\ starts = [a \in Addr |-> 0]
    /\ pending = <<>>
    /\ timers = <<>>
    /\ up = TRUE

-----------------------------------------------------------------------------
(* Requests *)

Construct(a) ==
    /\ up
    /\ a \notin live
    /\ lives[a] < MaxLives
    /\ live' = live \union {a}
    /\ stream' = [stream EXCEPT ![a] = NewStream]
    /\ lives' = [lives EXCEPT ![a] = @ + 1]
    /\ UNCHANGED <<starts, pending, timers, up>>

(* RtspSession::Play: RtspStreamState::Play on every stream of a session,  *)
(* in the order q of its map.                                              *)
Play(q) ==
    /\ up
    /\ \A i \in DOMAIN q : q[i] \in live /\ starts[q[i]] < MaxStarts
    /\ stream' = [a \in Addr |->
                    IF a \in Range(q)
                    THEN [stream[a] EXCEPT !.playing = TRUE, !.plays = @ + 1]
                    ELSE stream[a]]
    /\ starts' = [a \in Addr |->
                    IF a \in Range(q) THEN starts[a] + 1 ELSE starts[a]]
    /\ pending' = pending \o
         [i \in DOMAIN q |-> [addr |-> q[i], life |-> lives[q[i]],
                              update |-> TRUE]]
    /\ UNCHANGED <<live, lives, timers, up>>

(* Injective sequences: a map holds each stream once. *)
Sessions(S) ==
    {q \in UNION {[1 .. n -> S] : n \in 1 .. Cardinality(S)} : IsInjective(q)}

(* Deviation: the compiler's own destructor, which resets no member. *)
ReleaseResetsNothing(S) ==
    /\ up
    /\ S \subseteq live
    /\ live' = live \ S
    /\ UNCHANGED <<stream, lives, starts, pending, timers, up>>

(* A session goes away, by TEARDOWN (StreamState::Teardown, then the       *)
(* destructors) or because its connection closed (destructors only).  The  *)
(* destructor resets frame_source_ and playing_ in the block; the closures *)
(* that are queued stay.                                                   *)
Release(S) ==
    /\ up
    /\ S \subseteq live
    /\ live' = live \ S
    /\ stream' = [a \in Addr |-> IF a \in S
                                 THEN [stream[a] EXCEPT !.playing = FALSE,
                                                        !.source = FALSE]
                                 ELSE stream[a]]
    /\ UNCHANGED <<lives, starts, pending, timers, up>>

-----------------------------------------------------------------------------
(* PlayOnce.  t is the closure being run, p and m are the functors and the *)
(* timers left once the loop has taken it out.                             *)

(* PlayOnce goes on, by what it reads at `this`: playing_ and              *)
(* frame_source_, whether or not an object still lives there.              *)
Active(t) == stream[t.addr].playing /\ stream[t.addr].source

(* last_rtp_ts_ on entry: 0 stands for "no timestamp chosen yet". *)
Base(s) == IF s.ts = 0 THEN RandomTs ELSE {s.ts}

Stamp(t, base) == IF t.update THEN (base + TsDuration) % TsMod ELSE base

Follow(t, update) ==
    [addr |-> t.addr, life |-> lives[t.addr], update |-> update]

(* Deviation: a closure that finds nothing to do is queued again. *)
CancelRetries(t, p, m) ==
    /\ ~Active(t)
    /\ pending' = Append(p, t)
    /\ timers' = m
    /\ UNCHANGED <<stream, up>>

(* The two early returns.  For a destroyed object they read what the       *)
(* destructor left in the block.                                           *)
Cancel(t, p, m) ==
    /\ ~Active(t)
    /\ pending' = p
    /\ timers' = m
    /\ UNCHANGED <<stream, up>>

(* The block of a destroyed object belongs to another allocation by now:   *)
(* its bytes are read as playing_ and frame_source_, and following that    *)
(* pointer ends the process (other values of the bytes amount to Cancel).  *)
ReadGarbage(t, p, m) ==
    /\ t.addr \notin live
    /\ up' = FALSE
    /\ pending' = p
    /\ timers' = m
    /\ UNCHANGED stream

HasFrame(s) == s.pos < Len(File) /\ File[s.pos + 1] # "bad"

(* Deviations: the timer is armed again after a failed read, and a cursor  *)
(* that moves past the end of the file.                                    *)
SendByeRearms(t, p, m) ==
    LET s == stream[t.addr] IN
    /\ Active(t)
    /\ ~HasFrame(s)
    /\ stream' = [stream EXCEPT ![t.addr].byes = @ + 1]
    /\ pending' = p
    /\ timers' = Append(m, Follow(t, TRUE))
    /\ UNCHANGED up

SendByePastEnd(t, p, m) ==
    LET s == stream[t.addr] IN
    /\ Active(t)
    /\ ~HasFrame(s)
    /\ stream' = [stream EXCEPT ![t.addr].pos = @ + 1, ![t.addr].byes = @ + 1]
    /\ pending' = p
    /\ timers' = m
    /\ UNCHANGED up

(* GetNextFrame fails: SR and BYE, and the chain of closures ends. *)
SendBye(t, p, m) ==
    LET s == stream[t.addr] IN
    /\ Active(t)
    /\ ~HasFrame(s)
    /\ \E base \in Base(s) :
         stream' = [stream EXCEPT
                      ![t.addr].ts = base,
                      ![t.addr].pos = IF @ < Len(File) THEN @ + 1 ELSE @,
                      ![t.addr].byes = @ + 1]
    /\ pending' = p
    /\ timers' = m
    /\ UNCHANGED up

(* One NALU goes to the sink; `stall` says that nothing is scheduled next. *)
Deliver(t, stall) ==
    LET s == stream[t.addr] IN
    \E base \in Base(s) :
      LET ts == Stamp(t, base) IN
      stream' = [stream EXCEPT
                   ![t.addr].ts = ts,
                   ![t.addr].pos = @ + 1,
                   ![t.addr].sent = Append(@, [nalu |-> File[s.pos + 1],
                                               ts |-> ts, life |-> t.life]),
                   ![t.addr].stalls = IF stall THEN @ + 1 ELSE @]

(* Deviations: nothing is scheduled after a parameter set, or after a      *)
(* slice; the NALU after a slice does not step the timestamp.              *)
SendSliceKeepsTime(t, p, m) ==
    LET s == stream[t.addr] IN
    /\ Active(t)
    /\ HasFrame(s)
    /\ File[s.pos + 1] = "slice"
    /\ Deliver(t, FALSE)
    /\ pending' = p
    /\ timers' = Append(m, Follow(t, FALSE))
    /\ UNCHANGED up

SendParamStops(t, p, m) ==
    LET s == stream[t.addr] IN
    /\ Active(t)
    /\ HasFrame(s)
    /\ File[s.pos + 1] \in {"param", "empty"}
    /\ Deliver(t, FALSE)
    /\ pending' = p
    /\ timers' = m
    /\ UNCHANGED up

SendSliceStops(t, p, m) ==
    LET s == stream[t.addr] IN
    /\ Active(t)
    /\ HasFrame(s)
    /\ File[s.pos + 1] = "slice"
    /\ Deliver(t, FALSE)
    /\ pending' = p
    /\ timers' = m
    /\ UNCHANGED up

(* SPS, PPS or SEI (an empty NALU may look like one): the next NALU of the *)
(* frame follows in the same iteration, with the same timestamp.           *)
SendParam(t, p, m) ==
    LET s == stream[t.addr] IN
    /\ Active(t)
    /\ HasFrame(s)
    /\ File[s.pos + 1] \in {"param", "empty"}
    /\ Deliver(t, FALSE)
    /\ pending' = Append(p, Follow(t, FALSE))
    /\ timers' = m
    /\ UNCHANGED up

(* Any other NALU ends its frame: the next one is due in 0.04 s. *)
SendSlice(t, p, m) ==
    LET s == stream[t.addr] IN
    /\ Active(t)
    /\ HasFrame(s)
    /\ File[s.pos + 1] = "slice"
    /\ Deliver(t, FALSE)
    /\ pending' = p
    /\ timers' = Append(m, Follow(t, TRUE))
    /\ UNCHANGED up

(* An empty NALU whose type byte is none of the three: packet.size > 0     *)
(* fails and nothing is scheduled.                                         *)
SendEmpty(t, p, m) ==
    LET s == stream[t.addr] IN
    /\ Active(t)
    /\ HasFrame(s)
    /\ File[s.pos + 1] = "empty"
    /\ Deliver(t, TRUE)
    /\ pending' = p
    /\ timers' = m
    /\ UNCHANGED up

PlayOnce(t, p, m) ==
    \/ Cancel(t, p, m)
    \/ ReadGarbage(t, p, m)
    \/ SendBye(t, p, m)
    \/ SendParam(t, p, m)
    \/ SendSlice(t, p, m)
    \/ SendEmpty(t, p, m)

RunFunctor ==
    /\ up
    /\ pending # <<>>
    /\ PlayOnce(Head(pending), Tail(pending), timers)
    /\ UNCHANGED <<live, lives, starts>>

FireTimer ==
    /\ up
    /\ timers # <<>>
    /\ PlayOnce(Head(timers), pending, Tail(timers))
    /\ UNCHANGED <<live, lives, starts>>

-----------------------------------------------------------------------------
Request ==
    \/ \E a \in Addr : Construct(a)
    \/ \E q \in Sessions(live) : Play(q)
    \/ \E S \in (SUBSET live) \ {{}} : Release(S)

Next == Request \/ RunFunctor \/ FireTimer

(* The loop runs as long as the process does; clients owe nothing. *)
Fairness == WF_vars(RunFunctor) /\ WF_vars(FireTimer)

Spec == Init /\ [][Next]_vars
FairSpec == Spec /\ Fairness

-----------------------------------------------------------------------------
(* Properties *)

(* Type correctness: among others, no frame is read past the end of the    *)
(* media file, and timestamps keep to 32 bits.                             *)
TypeOK ==
    /\ live \subseteq Addr
    /\ stream \in [Addr -> Stream]
    /\ lives \in [Addr -> Nat]
    /\ starts \in [Addr -> Nat]
    /\ pending \in Seq(Task)
    /\ timers \in Seq(Task)
    /\ up \in BOOLEAN

(* Closures queued for the block a, and those made for its current object. *)
ForBlock(a) == {t \in Task : t.addr = a}
ForCurrent(a) == {t \in Task : t.addr = a /\ t.life = lives[a]}

Matching(queue, M) == {i \in DOMAIN queue : queue[i] \in M}
Count(queue, M) == Cardinality(Matching(queue, M))

Queued(M) == Count(pending, M) + Count(timers, M)

(* While a block is free, the closures that still come for the stream that *)
(* was destroyed in it send nothing: no NALU, no BYE, and they do not move *)
(* the cursor of a file source that is gone                                *)
(* (rtsp_stream_state.cpp:29-33, 138-147).                                 *)
ReleasedIsSilent ==
    [][\A a \in Addr \ (live \union live') : stream'[a] = stream[a]]_vars

(* It rests on what the destructor leaves in the block. *)
FreeIsReset ==
    \A a \in Addr \ live : ~stream[a].playing /\ ~stream[a].source

(* A stream sends nothing before its own first Play, not even when a       *)
(* closure of an earlier object in its block runs: the constructor clears  *)
(* playing_ before any closure can see the new object.                     *)
SilentUntilPlayed ==
    \A a \in Addr : stream[a].plays = 0 =>
        stream[a].sent = <<>> /\ stream[a].byes = 0 /\ stream[a].stalls = 0

(* Every closure chain that a Play call of the current object started is   *)
(* still queued, or has ended with a BYE or with an empty NALU: PlayOnce   *)
(* loses none, whatever objects came and went at the address.              *)
NoLostChain ==
    \A a \in live :
        Queued(ForCurrent(a)) + stream[a].byes + stream[a].stalls
            >= stream[a].plays

(* PlayOnce never multiplies: over all objects that lived at an address,   *)
(* the chains queued and those that ended in the present object are no     *)
(* more than the Play calls made there.                                    *)
NoExtraChain ==
    \A a \in Addr :
        Queued(ForBlock(a)) + stream[a].byes + stream[a].stalls <= starts[a]

LiveHasSource == \A a \in live : stream[a].source

(* The inductive invariant: between its constructor and its destructor a   *)
(* stream that does not play was never played, so the chains that Cancel   *)
(* drops for a live stream are none of its own.                            *)
IdleIsFresh ==
    \A a \in live : ~stream[a].playing => stream[a].plays = 0

PlayingIsPlayed ==
    \A a \in Addr : stream[a].playing => stream[a].plays > 0

IInv ==
    /\ TypeOK
    /\ FreeIsReset
    /\ LiveHasSource
    /\ IdleIsFresh
    /\ PlayingIsPlayed
    /\ SilentUntilPlayed
    /\ NoLostChain
    /\ NoExtraChain

(* A stream with one chain, in a block used once, keeps the timeline the   *)
(* sink's comments describe: what follows a parameter set carries its      *)
(* timestamp, what follows a slice is one duration later.                  *)
(* (h264_video_rtp_sink.cpp:153, rtsp_stream_state.cpp:156)                *)
Timeline(s) ==
    \A i \in 1 .. Len(s.sent) - 1 :
        /\ s.sent[i].nalu = "param" => s.sent[i + 1].ts = s.sent[i].ts
        /\ s.sent[i].nalu = "slice" =>
             s.sent[i + 1].ts = s.sent[i].ts + TsDuration

SingleChainTimeline ==
    \A a \in Addr : starts[a] = 1 => Timeline(stream[a])

(* Every PLAY of a stream comes to an end: its chain of closures reaches   *)
(* the end of the file and says BYE, or meets a failing read or an empty   *)
(* NALU, unless the stream is released; none is left undriven.             *)
PlayingEnds ==
    \A a \in Addr : \A l \in 1 .. MaxLives, n \in 1 .. MaxStarts :
        (a \in live /\ lives[a] = l /\ stream[a].plays >= n)
          ~> \/ a \notin live \/ lives[a] # l
             \/ stream[a].byes + stream[a].stalls >= n
             \/ ~up

(* Closures for a destroyed stream drain, unless its block is reused. *)
StaleClosuresDrain ==
    \A a \in Addr :
        (a \notin live /\ Queued(ForBlock(a)) > 0)
          ~> (Queued(ForBlock(a)) = 0 \/ a \in live \/ ~up)

-----------------------------------------------------------------------------
(* What comments of the code say and the code does not do. *)

(* "IMPORTANT!!! In timer, this object might be released" followed by the  *)
(* cancelling return (rtsp_stream_state.cpp:143-147): a closure of a       *)
(* released object sends nothing.                                          *)
ReleasedIsCancelled ==
    \A a \in Addr : \A i \in DOMAIN stream[a].sent :
        stream[a].sent[i].life = lives[a]

(* "SPS and PPS are sent before an I frame, with the same timestamp"       *)
(* (h264_video_rtp_sink.cpp:153), with no condition on the requests.       *)
ParamSharesTimestamp ==
    \A a \in Addr :
        LET sent == stream[a].sent IN
        \A i \in 1 .. Len(sent) - 1 :
            sent[i].nalu = "param" => sent[i + 1].ts = sent[i].ts
=============================================================================
