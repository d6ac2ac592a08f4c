---------------------------- MODULE RtspFraming ----------------------------
(***************************************************************************)
(* How the bytes of a TCP connection become requests and interleaved       *)
(* frames (rtsp/rtsp_connection.cpp, OnMessage and ParseRequestHead), and  *)
(* how the RTCP packets of a frame are walked (rtsp_stream_state.cpp,      *)
(* ParseRTCP).  One read event is one step: it appends what arrived to the *)
(* buffer and calls OnMessage once.                                        *)
(*                                                                         *)
(* A message is a row of symbols that arrive whole: the texts of a request *)
(* and its line ends, the magic and the rest of the head of a frame, the   *)
(* words of its body.  A symbol cut in two is treated like one that did    *)
(* not arrive, or like garbage.                                            *)
(***************************************************************************)
EXTENDS Naturals, Sequences, FiniteSetsExt

CONSTANTS
    Requests,     \* what a client may ask
    Frames,       \* the interleaved frames it may send
    MaxMessages   \* bound on the messages of a connection

(* Words of four bytes: the header of an RTCP packet, or data. *)
Word == [pt : STRING, length : Nat]

(* A request has a method, and its Transport or Accept header may precede  *)
(* its CSeq.  The body of a frame has the words of a compound of packets.  *)
ASSUME RequestsAssumption ==
    Requests \subseteq [kind : {"request"}, method : STRING, early : BOOLEAN]
ASSUME FramesAssumption ==
    \A f \in Frames :
      /\ f.kind = "frame" /\ f.channel \in 0 .. 255
      /\ f.body \in Seq(Word) /\ f.body # <<>>

(* The body of a frame is a compound of packets: the first word of a packet *)
(* is its header, and the length there counts the words behind it.  What a  *)
(* length beyond the rest of the body does is a matter of RtspServer.       *)
Compound(f) ==
    /\ f.packets \in Seq([pt : STRING, words : Nat \ {0, 1}]) /\ f.packets # <<>>
    /\ \E at \in [1 .. Len(f.packets) + 1 -> 0 .. Len(f.body)] :
         /\ at[1] = 0 /\ at[Len(f.packets) + 1] = Len(f.body)
         /\ \A k \in DOMAIN f.packets :
              LET p == f.packets[k]
              IN /\ at[k + 1] = at[k] + p.words
                 /\ f.body[at[k] + 1] = [pt |-> p.pt, length |-> p.words - 1]

ASSUME CompoundAssumption == \A f \in Frames : Compound(f)

VARIABLES
    lockstep,   \* the client waits for the response to each request
    delivery,   \* how much of what was sent arrives with a read event
    sent,       \* the messages sent
    wire,       \* the symbols on their way
    buf,        \* those in the input buffer
    next,       \* next_type_ and next_ilframe_
    served,     \* the messages handled
    replies,    \* how many responses were sent
    closed      \* Shutdown was called: no response leaves any more

vars == <<lockstep, delivery, sent, wire, buf, next, served, replies, closed>>

NoFrame == [type |-> "none", channel |-> 0, length |-> 0]

(* The promise: nothing is lost if each half of a frame arrives on its own, *)
(* and only frames if the client also waits for responses.                 *)
care == CASE delivery = "halves" -> "none"
          [] delivery = "messages" /\ lockstep -> "frames"
          [] OTHER -> "any"

Service == INSTANCE MessageService
             WITH Kinds <- {"request", "frame"},
                  sent <- [i \in DOMAIN sent |-> sent[i].kind],
                  done <- [i \in DOMAIN served |-> served[i].msg]

-----------------------------------------------------------------------------
(* Messages as symbols *)

Part == {"line", "crlf", "cseq", "header", "magic", "rest", "word"}

Parts(msg) ==
    IF msg.kind = "frame"
    THEN [n \in 1 .. 2 + Len(msg.body) |->
            CASE n = 1 -> "magic" [] n = 2 -> "rest" [] OTHER -> "word"]
    ELSE IF msg.early
    THEN <<"line", "crlf", "header", "crlf", "cseq", "crlf", "crlf">>
    ELSE <<"line", "crlf", "cseq", "crlf", "header", "crlf", "crlf">>

(* A symbol has the number of its message and its place there. *)
SymbolOf(msg, i, n) == [msg |-> i, n |-> n, part |-> Parts(msg)[n]]

Symbols(msg, i) == [n \in DOMAIN Parts(msg) |-> SymbolOf(msg, i, n)]

Init ==
    /\ lockstep \in BOOLEAN
    /\ delivery \in {"any", "messages", "halves"}
    /\ sent = <<>> /\ wire = <<>> /\ buf = <<>>
    /\ next = NoFrame
    /\ served = <<>>
    /\ replies = 0 /\ closed = FALSE

-----------------------------------------------------------------------------
(* The client and the network *)

RequestsSent == Cardinality({i \in DOMAIN sent : sent[i].kind = "request"})

Send ==
    /\ Len(sent) < MaxMessages
    /\ \E msg \in Requests \union Frames :
         /\ msg.kind = "request" /\ lockstep => RequestsSent = replies
         /\ sent' = Append(sent, msg)
         /\ wire' = wire \o Symbols(msg, Len(sent) + 1)
    /\ UNCHANGED <<lockstep, delivery, buf, next, served, replies, closed>>

(* With "messages", each message arrives in one piece and on its own; with *)
(* "halves", so do the head and the body of a frame.                       *)
Arriving ==
    LET same(n) == wire[n].msg = wire[1].msg
        half(n) == (wire[n].part = "word") = (wire[1].part = "word")
    IN CASE delivery = "any" -> DOMAIN wire
         [] delivery = "messages" -> {Max({n \in DOMAIN wire : same(n)})}
         [] delivery = "halves" -> {Max({n \in DOMAIN wire : same(n) /\ half(n)})}

-----------------------------------------------------------------------------
(* OnMessage, with b in the buffer *)

Drop(b, n) == SubSeq(b, n + 1, Len(b))

Starts(b, part) == b # <<>> /\ b[1].part = part

(* Less than the head of a frame. *)
AwaitHead(b) ==
    /\ Starts(b, "magic")
    /\ Len(b) < 2
    /\ buf' = b
    /\ UNCHANGED <<next, served, replies, closed>>

(* ParseInterleavedFrameHead.  What lies behind the head stays. *)
FrameHead(b) ==
    /\ Starts(b, "magic")
    /\ Len(b) >= 2
    /\ next' = LET f == sent[b[2].msg]
               IN [type |-> "frame", channel |-> f.channel,
                   length |-> Len(f.body)]
    /\ buf' = Drop(b, 2)
    /\ UNCHANGED <<served, replies, closed>>

Awaits(b) == next.type = "frame" /\ ~Starts(b, "magic")

(* Deviation: the body waits for something behind it. *)
HasBodyTight(b) == Len(b) > next.length
HasBody(b) == Len(b) >= next.length

AwaitBody(b) ==
    /\ Awaits(b)
    /\ ~HasBody(b)
    /\ buf' = b
    /\ UNCHANGED <<next, served, replies, closed>>

(* Deviation: a packet is taken for a word longer than it is. *)
ParseRTCPLong(words) ==
    LET from[p \in Nat] ==
          IF p + 2 < Len(words)
          THEN <<words[p + 1].pt>> \o from[p + words[p + 1].length + 2]
          ELSE <<>>
    IN from[0]

(* The types of the packets that are looked at, of a compound: the loop    *)
(* goes on while more than 8 bytes are left.                               *)
ParseRTCP(words) ==
    LET from[p \in Nat] ==
          IF p + 2 < Len(words)
          THEN <<words[p + 1].pt>> \o from[p + words[p + 1].length + 1]
          ELSE <<>>
    IN from[0]

Handle(msg, channel, packets, header) ==
    served' = Append(served, [msg |-> msg, channel |-> channel,
                              packets |-> packets, header |-> header])

WordsOf(symbols) ==
    [i \in DOMAIN symbols |-> sent[symbols[i].msg].body[symbols[i].n - 2]]

(* Deviations: the body stays in the buffer; the next type is not reset. *)
FrameBodyStays(b) ==
    /\ Awaits(b)
    /\ HasBody(b)
    /\ Handle(b[1].msg, next.channel,
              ParseRTCP(WordsOf(SubSeq(b, 1, next.length))), 0)
    /\ buf' = b
    /\ next' = NoFrame
    /\ UNCHANGED <<replies, closed>>

FrameBodyNoReset(b) ==
    /\ Awaits(b)
    /\ HasBody(b)
    /\ Handle(b[1].msg, next.channel,
              ParseRTCP(WordsOf(SubSeq(b, 1, next.length))), 0)
    /\ buf' = Drop(b, next.length)
    /\ next' = [next EXCEPT !.type = "none"]
    /\ UNCHANGED <<replies, closed>>

(* ParseTcpInterleavedFrameBody for a channel of RTCP. *)
FrameBody(b) ==
    /\ Awaits(b)
    /\ HasBody(b)
    /\ Handle(b[1].msg, next.channel,
              ParseRTCP(WordsOf(SubSeq(b, 1, next.length))), 0)
    /\ buf' = Drop(b, next.length)
    /\ next' = NoFrame
    /\ UNCHANGED <<replies, closed>>

IsRequest(b) == next.type = "none" /\ ~Starts(b, "magic")

(* Line ends, and the complete lines that begin with a text. *)
Ends(b) == {i \in DOMAIN b : b[i].part = "crlf"}
Lines(b, text) ==
    {i \in DOMAIN b : /\ b[i].part = text
                      /\ i = 1 \/ i - 1 \in Ends(b)
                      /\ \E e \in Ends(b) : e > i}

(* sscanf looks for the request line behind any line ends, but only the    *)
(* first line is retrieved: if it was empty, the request line is a gap     *)
(* line.                                                                   *)
HasLine(b) ==
    /\ Ends(b) # {}
    /\ \E i \in DOMAIN b : b[i].part = "line" /\ \A j \in 1 .. i - 1 : j \in Ends(b)

Behind(b) == Drop(b, Min(Ends(b)))

(* No valid request line, or no CSeq: the connection is shut down.  Lines  *)
(* that were read in search of the CSeq are gone.                          *)
Refuse(b) ==
    /\ IsRequest(b)
    /\ \/ /\ ~HasLine(b)
          /\ buf' = b
       \/ /\ HasLine(b)
          /\ Lines(Behind(b), "cseq") = {}
          /\ buf' = Drop(b, Max(Ends(b)))
    /\ closed' = TRUE
    /\ UNCHANGED <<next, served, replies>>

(* Deviation: lines in front of the CSeq are not looked at. *)
HeaderBehindCSeq(b, method) ==
    LET own == {i \in Lines(b, "header") :
                  sent[b[i].msg].method = method /\ i > Min(Lines(b, "cseq"))}
    IN IF own = {} THEN 0 ELSE b[Max(own)].msg

(* The message of which the Transport or Accept header counts: the last    *)
(* one, in front of the CSeq or in any complete line behind it.            *)
Header(b, method) ==
    LET own == {i \in Lines(b, "header") : sent[b[i].msg].method = method}
    IN IF own = {} THEN 0 ELSE b[Max(own)].msg

(* A request is handled and answered, and whatever is left is discarded.   *)
Serve(b) ==
    /\ IsRequest(b)
    /\ HasLine(b)
    /\ Lines(Behind(b), "cseq") # {}
    /\ LET line == Min({i \in DOMAIN b : b[i].part = "line"})
           msg == b[line].msg
       IN Handle(msg, 0, <<>>, Header(Behind(b), sent[msg].method))
    /\ replies' = IF closed THEN replies ELSE replies + 1
    /\ buf' = <<>>
    /\ UNCHANGED <<next, closed>>

OnMessage(b) ==
    \/ AwaitHead(b) \/ FrameHead(b)
    \/ AwaitBody(b) \/ FrameBody(b)
    \/ Refuse(b) \/ Serve(b)

Read ==
    /\ wire # <<>>
    /\ \E n \in Arriving :
         /\ OnMessage(buf \o SubSeq(wire, 1, n))
         /\ wire' = Drop(wire, n)
    /\ UNCHANGED <<lockstep, delivery, sent>>

Next == Send \/ Read

Spec == Init /\ [][Next]_vars

(* What was sent arrives; a client owes nothing. *)
FairSpec == Spec /\ WF_vars(Read)
-----------------------------------------------------------------------------

(* Type correctness, and: a frame that was handled leaves no length. *)
SymbolType == [msg : DOMAIN sent, n : Nat \ {0}, part : Part]

Handled == [msg : DOMAIN sent, channel : 0 .. 255,
            packets : {<<>>} \union {ParseRTCP(f.body) : f \in Frames}, header : Nat]

TypeOK ==
    /\ lockstep \in BOOLEAN /\ delivery \in {"any", "messages", "halves"}
    /\ sent \in Seq(Requests \union Frames)
    /\ wire \in Seq(SymbolType) /\ buf \in Seq(SymbolType)
    /\ next \in [type : {"none", "frame"}, channel : 0 .. 255, length : Nat]
    /\ next.type = "none" => next = NoFrame
    /\ served \in Seq(Handled)
    /\ replies \in 0 .. RequestsSent
    /\ closed \in BOOLEAN

(* Each message is served at most once and in the order sent, however the  *)
(* stream is cut.  If clients wait and messages arrive whole, no request   *)
(* is lost; if halves arrive on their own, everything is served in the end.*)
ServesInOrder == Service!FairSpec

(* However the stream is cut: a frame is given with the channel of its own *)
(* head and with its own body, of which every packet is looked at but for  *)
(* a last one of 8 bytes.                                                  *)
FramesWhole ==
    \A i \in DOMAIN served :
      LET f == sent[served[i].msg]
          n == IF f.packets[Len(f.packets)].words = 2 THEN Len(f.packets) - 1
                                                      ELSE Len(f.packets)
      IN f.kind = "frame" =>
           /\ served[i].channel = f.channel
           /\ served[i].packets = [k \in 1 .. n |-> f.packets[k].pt]

(* A client that waits for responses never gets the headers of another of  *)
(* its requests applied, and if its requests arrive whole, its own are.    *)
OwnHeaders ==
    \A i \in DOMAIN served :
      LET own == served[i].msg
      IN sent[own].kind = "request" =>
           /\ lockstep => served[i].header \in {0, own}
           /\ care # "any" => served[i].header = own

(* What waits in a buffer, in pieces: a head, a body, a request.           *)
Pieces(b) ==
    {<<b[i].msg, IF b[i].part = "word" THEN "body" ELSE "start">> : i \in DOMAIN b}

Arrived == {i \in DOMAIN sent : sent[i].kind = "frame"}
             \ {wire[k].msg : k \in DOMAIN wire}

(* If halves of frames arrive on their own, nothing waits.  If messages    *)
(* arrive whole, no more pieces wait than frames have arrived.             *)
FewPieces ==
    care # "any" =>
      /\ ~closed
      /\ Cardinality(Pieces(buf)) <=
           IF delivery = "messages" THEN Cardinality(Arrived) ELSE 0

(* How far the connection falls behind if nothing is cut within a message  *)
(* and, where messages arrive whole, the client waits for responses.  A    *)
(* read event handles one piece, so each frame that comes with its head    *)
(* and body together leaves the connection one piece further behind: its   *)
(* own body waits, or a whole request behind it, until there is another    *)
(* read event.  Of requests no more than one waits, and the connection is  *)
(* not shut.                                                               *)
KeepsUp ==
    /\ FewPieces
    /\ care # "any" =>
         \A i, j \in DOMAIN buf :
           sent[buf[i].msg].kind = "request" /\ sent[buf[j].msg].kind = "request"
             => buf[i].msg = buf[j].msg
-----------------------------------------------------------------------------
(* The inductive invariant *)

Stream == buf \o wire

Symbol(i, n) == SymbolOf(sent[i], i, n)

Before(s, t) == s.msg < t.msg \/ (s.msg = t.msg /\ s.n < t.n)

(* What is left of the stream is sorted, and it is a rest of what was sent: *)
(* the rest of its first message, and all messages behind that.            *)
StreamIsRest ==
    /\ \A k \in DOMAIN Stream :
         LET s == Stream[k]
         IN /\ s.msg \in DOMAIN sent
            /\ s.n \in DOMAIN Parts(sent[s.msg])
            /\ s = Symbol(s.msg, s.n)
            /\ \A n \in s.n .. Len(Parts(sent[s.msg])) :
                 /\ k + n - s.n <= Len(Stream)
                 /\ Stream[k + n - s.n] = Symbol(s.msg, n)
            /\ \A i \in s.msg + 1 .. Len(sent) :
                 \E j \in DOMAIN Stream : Stream[j] = Symbol(i, 1)
    /\ \A j, k \in DOMAIN Stream : j < k => Before(Stream[j], Stream[k])

LastServed == IF served = <<>> THEN 0 ELSE served[Len(served)].msg

IsServed(i) == \E k \in DOMAIN served : served[k].msg = i

(* What was served does not come again, but for the rest of a request. *)
ServedIsPast ==
    /\ \A k \in DOMAIN served :
         served[k].msg <= LastServed
    /\ \A k \in DOMAIN Stream :
         LET s == Stream[k]
         IN \/ s.msg > LastServed
            \/ s.msg = LastServed /\ s.n > 1 /\ sent[s.msg].kind = "request"

(* Behind a head that was consumed comes the body, from its first word on. *)
BodyFollows ==
    IF next.type = "frame"
    THEN LET s == Stream[1]
         IN /\ Stream # <<>>
            /\ sent[s.msg].kind = "frame" /\ s.n = 3
            /\ next = [type |-> "frame", channel |-> sent[s.msg].channel,
                       length |-> Len(sent[s.msg].body)]
    ELSE next = NoFrame

(* A frame is handled with its own channel and body. *)
FramesOwn ==
    \A i \in DOMAIN served :
      LET f == sent[served[i].msg]
      IN f.kind = "frame" => /\ served[i].channel = f.channel
                             /\ served[i].packets = ParseRTCP(f.body)

ServedRequests == {i \in DOMAIN sent : sent[i].kind = "request" /\ IsServed(i)}

(* A client that waits sends a request after the others were served. *)
RequestsInTurn ==
    /\ replies <= Cardinality(ServedRequests)
    /\ lockstep => \A i, j \in DOMAIN sent :
                     i < j /\ sent[i].kind = "request" /\ sent[j].kind = "request"
                       => IsServed(i)

(* If messages arrive whole, the buffer and the wire begin with one, and    *)
(* the request of a client that waits is served or in the stream.          *)
WholeMessages ==
    delivery = "messages" =>
      /\ wire # <<>> => wire[1].n = 1
      /\ Stream # <<>> /\ next.type = "none" => Stream[1].n = 1
      /\ lockstep => \A i \in DOMAIN sent :
           sent[i].kind = "request" /\ i > LastServed =>
             \E j \in DOMAIN Stream : Stream[j] = Symbol(i, 1)

(* If halves do, nothing waits, and the next message is that in the stream. *)
HalvesInTurn ==
    delivery = "halves" =>
      /\ buf = <<>>
      /\ IF wire = <<>> THEN LastServed = Len(sent)
         ELSE wire[1].msg = LastServed + 1 /\ (next.type = "none" => wire[1].n = 1)

IInv ==
    /\ TypeOK
    /\ StreamIsRest
    /\ ServedIsPast
    /\ BodyFollows
    /\ FramesOwn
    /\ RequestsInTurn
    /\ WholeMessages
    /\ HalvesInTurn
    /\ OwnHeaders
    /\ FewPieces
=============================================================================
