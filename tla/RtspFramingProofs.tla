------------------------- MODULE RtspFramingProofs --------------------------
(***************************************************************************)
(* For all requests and frames, every number of messages and every cut of  *)
(* the stream: framing is one of the services MessageService allows.       *)
(***************************************************************************)
EXTENDS RtspFraming, Induction, FiniteSetTheorems, SequenceTheorems, TLAPS

(* A nonempty set of naturals has a least element, and one with a bound a greatest. *)
LEMMA LeastIs ==
    ASSUME NEW S \in SUBSET Nat, S # {}
    PROVE  Min(S) \in S /\ \A y \in S : Min(S) <= y
<1>1. PICK x \in S : \A y \in S : <<y, x>> \notin OpToRel(<, Nat)
  BY NatLessThanWellFounded, WFMin, Zenon
<1>2. ASSUME NEW y \in S PROVE x <= y
  <2>1. x \in Nat /\ y \in Nat
    OBVIOUS
  <2>2. OpToRel(<, Nat) = {p \in Nat \X Nat : p[1] < p[2]}
    BY DEF OpToRel
  <2>3. ~(y < x)
    BY <1>1, <2>1, <2>2, Zenon
  <2> QED
    BY <2>1, <2>3
<1> QED
  BY <1>2 DEF Min

(* A bounded set of naturals has a greatest element. *)
LEMMA GreatestIs ==
    ASSUME NEW S \in SUBSET Nat, S # {}, NEW n \in Nat, \A y \in S : y <= n
    PROVE  Max(S) \in S /\ \A y \in S : y <= Max(S)
<1> DEFINE Bounds == {m \in Nat : \A y \in S : y <= m}
           m == Min(Bounds)
<1>1. m \in Bounds /\ \A k \in Bounds : m <= k
  <2>1. Bounds \in SUBSET Nat /\ Bounds # {}
    OBVIOUS
  <2> HIDE DEF Bounds
  <2> QED
    BY <2>1, LeastIs
<1> HIDE DEF m
<1>2. m \in Nat /\ \A y \in S : y <= m
  BY <1>1
<1>3. m \in S
  <2>1. CASE m = 0
    <3>1. PICK y \in S : TRUE
      OBVIOUS
    <3>2. y \in Nat /\ y <= 0
      BY <1>2, <2>1
    <3>3. y = m
      BY <2>1, <3>2
    <3> QED
      BY <3>3
  <2>2. CASE m # 0
    <3>1. m - 1 \in Nat /\ ~(m <= m - 1)
      BY <1>2, <2>2
    <3>2. PICK y \in S : ~(y <= m - 1)
      BY <1>1, <3>1
    <3>3. y \in Nat /\ y <= m /\ m \in Nat
      BY <1>2
    <3>4. y = m
      BY <3>2, <3>3
    <3> QED
      BY <3>4
  <2> QED
    BY <2>1, <2>2
<1>4. \E x \in S : \A y \in S : x >= y
  BY <1>2, <1>3
<1>5. Max(S) \in S /\ \A y \in S : Max(S) >= y
  BY <1>4 DEF Max
<1> QED
  BY <1>5
-----------------------------------------------------------------------------
(* Messages *)

Message == Requests \union Frames

(* The symbols of a request: each of the texts and line ends has its place. *)
LEMMA RequestParts ==
    ASSUME NEW msg \in Message, msg.kind = "request"
    PROVE  /\ msg \in Requests /\ msg.early \in BOOLEAN /\ msg.method \in STRING
           /\ Parts(msg) \in Seq(Part) /\ Len(Parts(msg)) = 7
           /\ Parts(msg)[1] = "line"
           /\ \A n \in {2, 4, 6, 7} : Parts(msg)[n] = "crlf"
           /\ Parts(msg)[IF msg.early THEN 3 ELSE 5] = "header"
           /\ Parts(msg)[IF msg.early THEN 5 ELSE 3] = "cseq"
<1>1. msg \in Requests /\ msg.early \in BOOLEAN /\ msg.method \in STRING
  BY RequestsAssumption, FramesAssumption DEF Message
<1>2. CASE msg.early
  <2>1. Parts(msg) = <<"line", "crlf", "header", "crlf", "cseq", "crlf", "crlf">>
    BY <1>1, <1>2 DEF Parts
  <2> QED
    BY <1>1, <1>2, <2>1 DEF Part
<1>3. CASE ~msg.early
  <2>1. Parts(msg) = <<"line", "crlf", "cseq", "crlf", "header", "crlf", "crlf">>
    BY <1>1, <1>3 DEF Parts
  <2> QED
    BY <1>1, <1>3, <2>1 DEF Part
<1> QED
  BY <1>1, <1>2, <1>3

(* Those of a frame. *)
LEMMA FrameParts ==
    ASSUME NEW msg \in Message, msg.kind = "frame"
    PROVE  /\ msg \in Frames /\ msg.channel \in 0 .. 255
           /\ msg.body \in Seq(Word) /\ Len(msg.body) \in Nat \ {0}
           /\ Parts(msg) \in Seq(Part) /\ Len(Parts(msg)) = Len(msg.body) + 2
           /\ Parts(msg)[1] = "magic" /\ Parts(msg)[2] = "rest"
           /\ \A n \in 3 .. Len(msg.body) + 2 : Parts(msg)[n] = "word"
<1>1. /\ msg \in Frames /\ msg.channel \in 0 .. 255
      /\ msg.body \in Seq(Word) /\ msg.body # <<>>
  BY RequestsAssumption, FramesAssumption DEF Message
<1>2. Len(msg.body) \in Nat \ {0} /\ DOMAIN msg.body = 1 .. Len(msg.body)
  BY <1>1, EmptySeq, LenProperties
<1>3. Parts(msg) = [n \in 1 .. 2 + Len(msg.body) |->
                     CASE n = 1 -> "magic" [] n = 2 -> "rest" [] OTHER -> "word"]
  BY DEF Parts
<1>4. Parts(msg) \in Seq(Part) /\ Len(Parts(msg)) = 2 + Len(msg.body)
  <2>1. Parts(msg) \in [1 .. 2 + Len(msg.body) -> Part] /\ 2 + Len(msg.body) \in Nat
    BY <1>2, <1>3 DEF Part
  <2> QED
    BY <2>1, LenProperties, SeqDef
<1>5. /\ Parts(msg)[1] = "magic" /\ Parts(msg)[2] = "rest"
      /\ \A n \in 3 .. Len(msg.body) + 2 : Parts(msg)[n] = "word"
  BY <1>2, <1>3
<1> QED
  BY <1>1, <1>2, <1>4, <1>5

(* What both have in common: at least three parts. *)
LEMMA MessageParts ==
    ASSUME NEW msg \in Message
    PROVE  /\ msg.kind \in {"request", "frame"}
           /\ Parts(msg) \in Seq(Part) /\ Len(Parts(msg)) \in Nat
           /\ Len(Parts(msg)) >= 3
           /\ DOMAIN Parts(msg) = 1 .. Len(Parts(msg))
           /\ \A n \in 1 .. Len(Parts(msg)) : Parts(msg)[n] \in Part
<1>1. msg.kind \in {"request", "frame"}
  BY RequestsAssumption, FramesAssumption DEF Message
<1>2. /\ Parts(msg) \in Seq(Part) /\ Len(Parts(msg)) \in Nat
      /\ Len(Parts(msg)) >= 3
  BY <1>1, RequestParts, FrameParts
<1> QED
  BY <1>1, <1>2, LenProperties, ElementOfSeq

(* What the messages sent are. *)
LEMMA SentIs ==
    ASSUME TypeOK, NEW i \in DOMAIN sent
    PROVE  /\ sent[i] \in Message /\ i \in Nat \ {0} /\ i <= Len(sent)
           /\ Len(sent) \in Nat /\ DOMAIN sent = 1 .. Len(sent)
  BY LenProperties, ElementOfSeq DEF TypeOK, Message

(* The part of a symbol tells its place. *)
LEMMA PlaceOf ==
    ASSUME TypeOK, NEW i \in DOMAIN sent, NEW n \in DOMAIN Parts(sent[i])
    PROVE  LET part == Parts(sent[i])[n]
           IN /\ sent[i].kind = "frame" => /\ part = "magic" <=> n = 1
                                           /\ part = "word" <=> n >= 3
                                           /\ part = "rest" <=> n = 2
                                           /\ part \notin {"line", "crlf", "cseq", "header"}
              /\ sent[i].kind = "request" => /\ part = "line" <=> n = 1
                                             /\ part \notin {"magic", "word", "rest"}
<1>1. sent[i] \in Message
  BY SentIs
<1>2. n \in 1 .. Len(Parts(sent[i])) /\ Len(Parts(sent[i])) \in Nat
  BY <1>1, MessageParts
<1>3. CASE sent[i].kind = "frame"
  <2>1. n = 1 \/ n = 2 \/ n \in 3 .. Len(sent[i].body) + 2
    BY <1>1, <1>2, <1>3, FrameParts
  <2> QED
    BY <1>1, <1>3, <2>1, FrameParts
<1>4. CASE sent[i].kind = "request"
  <2>1. n \in 1 .. 7
    BY <1>1, <1>2, <1>4, RequestParts
  <2> QED
    BY <1>1, <1>4, <2>1, RequestParts
<1> QED
  BY <1>1, <1>3, <1>4, MessageParts
-----------------------------------------------------------------------------
(* The stream *)

(* The stream is the buffer and the wire, of symbols of messages sent. *)
LEMMA StreamIs ==
    ASSUME TypeOK
    PROVE  /\ Stream \in Seq(SymbolType) /\ Len(Stream) \in Nat
           /\ DOMAIN Stream = 1 .. Len(Stream)
           /\ Len(buf) \in Nat /\ Len(wire) \in Nat
           /\ Len(Stream) = Len(buf) + Len(wire)
           /\ \A k \in 1 .. Len(buf) : Stream[k] = buf[k]
           /\ \A k \in 1 .. Len(wire) : Stream[Len(buf) + k] = wire[k]
           /\ \A k \in 1 .. Len(Stream) :
                /\ Stream[k] \in SymbolType
                /\ Stream[k].msg \in Nat \ {0} /\ Stream[k].n \in Nat \ {0}
                /\ Stream[k].msg \in DOMAIN sent
<1>1. buf \in Seq(SymbolType) /\ wire \in Seq(SymbolType)
  BY DEF TypeOK
<1>2. Len(buf) \in Nat /\ Len(wire) \in Nat
  BY <1>1, LenProperties
<1>3. /\ Stream \in Seq(SymbolType) /\ Len(Stream) = Len(buf) + Len(wire)
      /\ \A k \in 1 .. Len(buf) + Len(wire) :
           Stream[k] = IF k <= Len(buf) THEN buf[k] ELSE wire[k - Len(buf)]
  BY <1>1, <1>2, ConcatProperties DEF Stream
<1>4. DOMAIN Stream = 1 .. Len(Stream) /\ Len(Stream) \in Nat
  BY <1>3, LenProperties
<1>5. ASSUME NEW k \in 1 .. Len(Stream)
      PROVE  /\ Stream[k] \in SymbolType
             /\ Stream[k].msg \in Nat \ {0} /\ Stream[k].n \in Nat \ {0}
             /\ Stream[k].msg \in DOMAIN sent
  <2>1. Stream[k] \in SymbolType
    BY <1>3, <1>4, ElementOfSeq
  <2>2. Stream[k].msg \in DOMAIN sent /\ Stream[k].n \in Nat \ {0}
    BY <2>1 DEF SymbolType
  <2> QED
    BY <2>1, <2>2, SentIs
<1>6. \A k \in 1 .. Len(wire) : Stream[Len(buf) + k] = wire[k]
  <2> TAKE k \in 1 .. Len(wire)
  <2>1. Len(buf) + k \in 1 .. Len(buf) + Len(wire) /\ ~(Len(buf) + k <= Len(buf))
        /\ Len(buf) + k - Len(buf) = k
    BY <1>2
  <2> QED
    BY <1>3, <2>1
<1>7. \A k \in 1 .. Len(buf) : Stream[k] = buf[k]
  BY <1>2, <1>3
<1> QED
  BY <1>2, <1>3, <1>4, <1>5, <1>6, <1>7

(* b is in the buffer after something arrived, and `rest` is on its way. *)
Arrives(b, rest) ==
    /\ b \in Seq(SymbolType) /\ rest \in Seq(SymbolType)
    /\ Len(b) \in Nat \ {0} /\ Len(rest) \in Nat
    /\ Len(b) + Len(rest) = Len(Stream)
    /\ \A k \in 1 .. Len(b) : b[k] = Stream[k]
    /\ \A k \in 1 .. Len(rest) : rest[k] = Stream[Len(b) + k]

(* What is left of a row without its first d symbols. *)
LEMMA DropIs ==
    ASSUME NEW S, NEW q \in Seq(S), NEW d \in 0 .. Len(q)
    PROVE  /\ Drop(q, d) \in Seq(S) /\ Len(Drop(q, d)) = Len(q) - d
           /\ \A k \in 1 .. Len(q) - d : Drop(q, d)[k] = q[k + d]
<1>1. Len(q) \in Nat /\ d \in Nat /\ d <= Len(q)
  BY LenProperties
<1>2. \A i \in d + 1 .. Len(q) : q[i] \in S
  BY <1>1, ElementOfSeq
<1>3. /\ SubSeq(q, d + 1, Len(q)) \in Seq(S)
      /\ Len(SubSeq(q, d + 1, Len(q))) =
           IF d + 1 <= Len(q) THEN Len(q) - (d + 1) + 1 ELSE 0
      /\ \A i \in 1 .. Len(q) - (d + 1) + 1 :
           SubSeq(q, d + 1, Len(q))[i] = q[d + 1 + i - 1]
  BY <1>1, <1>2, SubSeqProperties
<1>4. Len(Drop(q, d)) = Len(q) - d
  BY <1>1, <1>3 DEF Drop
<1>5. ASSUME NEW k \in 1 .. Len(q) - d PROVE Drop(q, d)[k] = q[k + d]
  <2>1. k \in 1 .. Len(q) - (d + 1) + 1 /\ d + 1 + k - 1 = k + d
    BY <1>1
  <2> QED
    BY <1>3, <2>1 DEF Drop
<1> QED
  BY <1>3, <1>4, <1>5 DEF Drop

(* A read event of n symbols hands b to OnMessage and leaves rest on the wire. *)
LEMMA ReadIs ==
    ASSUME TypeOK, NEW n \in DOMAIN wire
    PROVE  Arrives(buf \o SubSeq(wire, 1, n), Drop(wire, n))
<1> DEFINE got == SubSeq(wire, 1, n)
           b == buf \o got
           rest == Drop(wire, n)
<1>1. /\ buf \in Seq(SymbolType) /\ wire \in Seq(SymbolType)
      /\ Len(buf) \in Nat /\ Len(wire) \in Nat
      /\ n \in Nat /\ n >= 1 /\ n <= Len(wire) /\ DOMAIN wire = 1 .. Len(wire)
  BY LenProperties DEF TypeOK
<1>2. \A i \in 1 .. n : wire[i] \in SymbolType
  BY <1>1, ElementOfSeq
<1>3. /\ got \in Seq(SymbolType) /\ Len(got) = n
      /\ \A k \in 1 .. n : got[k] = wire[k]
  <2>1. /\ got \in Seq(SymbolType) /\ Len(got) = IF 1 <= n THEN n - 1 + 1 ELSE 0
        /\ \A i \in 1 .. n - 1 + 1 : got[i] = wire[1 + i - 1]
    BY <1>1, <1>2, SubSeqProperties
  <2>2. \A k \in 1 .. n : k \in 1 .. n - 1 + 1 /\ 1 + k - 1 = k
    BY <1>1
  <2> QED
    BY <1>1, <2>1, <2>2
<1>4. /\ rest \in Seq(SymbolType) /\ Len(rest) = Len(wire) - n
      /\ \A k \in 1 .. Len(wire) - n : rest[k] = wire[k + n]
  <2>1. n \in 0 .. Len(wire)
    BY <1>1
  <2> HIDE DEF rest
  <2>2. rest = Drop(wire, n)
    BY DEF rest
  <2> QED
    BY <1>1, <2>1, <2>2, DropIs
<1> HIDE DEF got, rest
<1>5. /\ b \in Seq(SymbolType) /\ Len(b) = Len(buf) + n
      /\ \A k \in 1 .. Len(buf) + n :
           b[k] = IF k <= Len(buf) THEN buf[k] ELSE got[k - Len(buf)]
  BY <1>1, <1>3, ConcatProperties
<1> HIDE DEF b
<1>6. ASSUME NEW k \in 1 .. Len(b) PROVE b[k] = Stream[k]
  <2>1. CASE k <= Len(buf)
    <3>1. k \in 1 .. Len(buf) /\ k \in 1 .. Len(buf) + n
      BY <1>1, <1>5, <2>1
    <3>2. b[k] = buf[k]
      BY <1>5, <2>1, <3>1
    <3> QED
      BY <3>1, <3>2, StreamIs
  <2>2. CASE k > Len(buf)
    <3>1. k - Len(buf) \in 1 .. n /\ k - Len(buf) \in 1 .. Len(wire)
          /\ Len(buf) + (k - Len(buf)) = k /\ ~(k <= Len(buf))
      BY <1>1, <1>5, <2>2
    <3>2. b[k] = wire[k - Len(buf)]
      BY <1>3, <1>5, <3>1
    <3> QED
      BY <3>1, <3>2, StreamIs
  <2> QED
    BY <1>1, <1>5, <2>1, <2>2
<1>7. ASSUME NEW k \in 1 .. Len(rest) PROVE rest[k] = Stream[Len(b) + k]
  <2>1. /\ k \in 1 .. Len(wire) - n /\ k + n \in 1 .. Len(wire)
        /\ Len(buf) + (k + n) = Len(b) + k
    BY <1>1, <1>4, <1>5
  <2> QED
    BY <1>4, <2>1, StreamIs
<1>8. Len(b) + Len(rest) = Len(Stream)
  BY <1>1, <1>4, <1>5, StreamIs
<1> QED
  BY <1>1, <1>4, <1>5, <1>6, <1>7, <1>8, SMTT(60) DEF Arrives, b, got, rest

(* What is left when OnMessage took d symbols. *)
Left(d) ==
    /\ Stream' \in Seq(SymbolType) /\ Len(Stream') = Len(Stream) - d
    /\ \A k \in 1 .. Len(Stream) - d : Stream'[k] = Stream[k + d]

(* If OnMessage keeps b without its first d symbols, so does the stream. *)
LEMMA LeftIs ==
    ASSUME TypeOK, NEW b, NEW rest, Arrives(b, rest), NEW d \in 0 .. Len(b),
           buf' = Drop(b, d), wire' = rest
    PROVE  /\ Left(d) /\ d \in Nat /\ d <= Len(Stream)
           /\ buf' \in Seq(SymbolType) /\ wire' \in Seq(SymbolType)
           /\ Len(buf') = Len(b) - d
           /\ \A k \in 1 .. Len(b) - d : buf'[k] = Stream[k + d]
<1>1. /\ b \in Seq(SymbolType) /\ rest \in Seq(SymbolType)
      /\ Len(b) \in Nat /\ Len(rest) \in Nat /\ d \in Nat /\ d <= Len(b)
      /\ Len(b) + Len(rest) = Len(Stream)
      /\ \A k \in 1 .. Len(b) : b[k] = Stream[k]
      /\ \A k \in 1 .. Len(rest) : rest[k] = Stream[Len(b) + k]
  BY DEF Arrives
<1>2. /\ buf' \in Seq(SymbolType) /\ Len(buf') = Len(b) - d
      /\ \A k \in 1 .. Len(b) - d : buf'[k] = b[k + d]
  BY <1>1, DropIs
<1>3. /\ Stream' \in Seq(SymbolType) /\ Len(Stream') = Len(buf') + Len(rest)
      /\ \A k \in 1 .. Len(buf') + Len(rest) :
           Stream'[k] = IF k <= Len(buf') THEN buf'[k] ELSE rest[k - Len(buf')]
  <2>1. Stream' = buf' \o rest
    BY DEF Stream
  <2> QED
    BY <1>1, <1>2, <2>1, ConcatProperties, SMTT(60)
<1>4. ASSUME NEW k \in 1 .. Len(Stream) - d PROVE Stream'[k] = Stream[k + d]
  <2>1. CASE k <= Len(b) - d
    <3>1. k \in 1 .. Len(b) - d /\ k + d \in 1 .. Len(b) /\ k <= Len(buf')
          /\ k \in 1 .. Len(buf') + Len(rest)
      BY <1>1, <1>2, <2>1
    <3> QED
      BY <1>1, <1>2, <1>3, <3>1
  <2>2. CASE k > Len(b) - d
    <3>1. /\ k - Len(buf') \in 1 .. Len(rest) /\ Len(b) + (k - Len(buf')) = k + d
          /\ ~(k <= Len(buf')) /\ k \in 1 .. Len(buf') + Len(rest)
      BY <1>1, <1>2, <2>2
    <3> QED
      BY <1>1, <1>3, <3>1
  <2> QED
    BY <1>1, <2>1, <2>2
<1>5. \A k \in 1 .. Len(b) - d : buf'[k] = Stream[k + d]
  <2> TAKE k \in 1 .. Len(b) - d
  <2>1. k + d \in 1 .. Len(b)
    BY <1>1
  <2> QED
    BY <1>1, <1>2, <2>1
<1> QED
  BY <1>1, <1>2, <1>3, <1>4, <1>5 DEF Left

(* What is left is still a rest of what was sent. *)
LEMMA RestStays ==
    ASSUME TypeOK, StreamIsRest, NEW d \in Nat, d <= Len(Stream), Left(d),
           sent' = sent
    PROVE  StreamIsRest'
<1>1. /\ Len(Stream) \in Nat /\ DOMAIN Stream = 1 .. Len(Stream)
      /\ Len(Stream') = Len(Stream) - d /\ DOMAIN Stream' = 1 .. Len(Stream) - d
      /\ \A k \in 1 .. Len(Stream) - d : Stream'[k] = Stream[k + d]
  BY StreamIs, LenProperties DEF Left
<1>2. \A i, n : Symbol(i, n)' = Symbol(i, n)
  BY DEF Symbol, SymbolOf
<1>3. ASSUME NEW k \in 1 .. Len(Stream) - d
      PROVE  LET s == Stream'[k]
             IN /\ s.msg \in DOMAIN sent
                /\ s.n \in DOMAIN Parts(sent[s.msg])
                /\ s = Symbol(s.msg, s.n)
                /\ \A n \in s.n .. Len(Parts(sent[s.msg])) :
                     /\ k + n - s.n <= Len(Stream')
                     /\ Stream'[k + n - s.n] = Symbol(s.msg, n)
                /\ \A i \in s.msg + 1 .. Len(sent) :
                     \E j \in DOMAIN Stream' : Stream'[j] = Symbol(i, 1)
  <2> DEFINE s == Stream[k + d]
  <2>1. k + d \in DOMAIN Stream /\ Stream'[k] = s /\ k \in Nat /\ k >= 1
    BY <1>1
  <2>2. /\ s.msg \in DOMAIN sent /\ s.msg \in Nat /\ s.n \in Nat
        /\ s.n \in DOMAIN Parts(sent[s.msg])
        /\ s = Symbol(s.msg, s.n)
        /\ \A n \in s.n .. Len(Parts(sent[s.msg])) :
             /\ (k + d) + n - s.n <= Len(Stream)
             /\ Stream[(k + d) + n - s.n] = Symbol(s.msg, n)
        /\ \A i \in s.msg + 1 .. Len(sent) :
             \E j \in DOMAIN Stream : Stream[j] = Symbol(i, 1)
    BY <2>1, StreamIs DEF StreamIsRest
  <2> HIDE DEF s
  <2>3. ASSUME NEW n \in s.n .. Len(Parts(sent[s.msg]))
        PROVE  /\ k + n - s.n <= Len(Stream')
               /\ Stream'[k + n - s.n] = Symbol(s.msg, n)
    <3>1. sent[s.msg] \in Message /\ Len(Parts(sent[s.msg])) \in Nat
      BY <2>2, SentIs, MessageParts
    <3>2. n \in Nat /\ n >= s.n
      BY <2>2, <3>1
    <3>3. /\ (k + d) + n - s.n <= Len(Stream)
          /\ Stream[(k + d) + n - s.n] = Symbol(s.msg, n)
      BY <2>2
    <3>4. /\ k + n - s.n \in 1 .. Len(Stream) - d
          /\ (k + n - s.n) + d = (k + d) + n - s.n
      <4> DEFINE l == Len(Stream)
                 m == s.n
      <4>1. l \in Nat /\ m \in Nat /\ n \in Nat /\ n >= m /\ k \in Nat /\ k >= 1
            /\ (k + d) + n - m <= l
        BY <1>1, <2>1, <2>2, <3>2, <3>3
      <4> HIDE DEF l, m
      <4>2. k + n - m \in 1 .. l - d /\ (k + n - m) + d = (k + d) + n - m
        BY <4>1
      <4> QED
        BY <4>2 DEF l, m
    <3>5. Stream'[k + n - s.n] = Stream[(k + n - s.n) + d]
      BY <1>1, <3>4
    <3>6. k + n - s.n <= Len(Stream')
      BY <1>1, <3>4
    <3> QED
      BY <3>3, <3>4, <3>5, <3>6
  <2>4. ASSUME NEW i \in s.msg + 1 .. Len(sent)
        PROVE  \E j \in DOMAIN Stream' : Stream'[j] = Symbol(i, 1)
    <3>1. PICK j \in DOMAIN Stream : Stream[j] = Symbol(i, 1)
      BY <2>2
    <3>2. Stream[j].msg = i /\ i > s.msg /\ i \in Nat /\ s.msg \in Nat
      <4>1. s.msg \in Nat /\ Len(sent) \in Nat
        BY <2>2, SentIs
      <4> QED
        BY <3>1, <4>1 DEF Symbol, SymbolOf
    <3>3. j > k + d
      <4>1. j # k + d
        BY <3>2 DEF s
      <4>2. ~(j < k + d)
        <5>1. SUFFICES ASSUME j < k + d PROVE FALSE
          OBVIOUS
        <5>2. Before(Stream[j], s)
          BY <2>1, <5>1 DEF StreamIsRest, s
        <5> QED
          BY <3>2, <5>2 DEF Before
      <4>3. j \in Nat /\ k + d \in Nat
        BY <1>1, <2>1
      <4> QED
        BY <4>1, <4>2, <4>3
    <3>4. j - d \in 1 .. Len(Stream) - d /\ (j - d) + d = j
      BY <1>1, <2>1, <3>3
    <3> QED
      BY <1>1, <3>1, <3>4
  <2> QED
    BY <2>1, <2>2, <2>3, <2>4 DEF s
<1>4. ASSUME NEW j \in 1 .. Len(Stream) - d, NEW k \in 1 .. Len(Stream) - d, j < k
      PROVE  Before(Stream'[j], Stream'[k])
  <2>1. j + d \in DOMAIN Stream /\ k + d \in DOMAIN Stream /\ j + d < k + d
    BY <1>1, <1>4
  <2> QED
    BY <1>1, <2>1 DEF StreamIsRest
<1> QED
  BY <1>1, <1>2, <1>3, <1>4 DEF StreamIsRest, Before

(* The client sends a message. *)
LEMMA SendIs ==
    ASSUME TypeOK, NEW msg \in Requests \union Frames,
           sent' = Append(sent, msg), buf' = buf,
           wire' = wire \o Symbols(msg, Len(sent) + 1)
    PROVE  /\ sent' \in Seq(Requests \union Frames)
           /\ Len(sent') = Len(sent) + 1 /\ DOMAIN sent' = 1 .. Len(sent) + 1
           /\ \A i \in DOMAIN sent : sent'[i] = sent[i]
           /\ sent'[Len(sent) + 1] = msg
           /\ wire' \in Seq(SymbolType') /\ buf' \in Seq(SymbolType')
           /\ Stream' \in Seq(SymbolType')
           /\ Len(Stream') = Len(Stream) + Len(Parts(msg))
           /\ \A k \in 1 .. Len(Stream) : Stream'[k] = Stream[k]
           /\ \A n \in 1 .. Len(Parts(msg)) :
                Stream'[Len(Stream) + n] = SymbolOf(msg, Len(sent) + 1, n)
           /\ \A i \in DOMAIN sent, n \in Nat : Symbol(i, n)' = Symbol(i, n)
           /\ wire = <<>> => wire'[1] = SymbolOf(msg, Len(sent) + 1, 1)
           /\ wire # <<>> => wire'[1] = wire[1]
           /\ wire' # <<>>
<1> DEFINE new == Symbols(msg, Len(sent) + 1)
<1>1. /\ sent \in Seq(Message) /\ msg \in Message /\ Len(sent) \in Nat
      /\ DOMAIN sent = 1 .. Len(sent)
      /\ sent' \in Seq(Message) /\ Len(sent') = Len(sent) + 1
      /\ DOMAIN sent' = 1 .. Len(sent) + 1
      /\ \A i \in DOMAIN sent : sent'[i] = sent[i]
      /\ sent'[Len(sent) + 1] = msg
  BY LenProperties, AppendProperties DEF TypeOK, Message
<1>2. SymbolType \subseteq SymbolType'
  BY <1>1 DEF SymbolType
<1>3. wire \in Seq(SymbolType') /\ buf \in Seq(SymbolType')
  <2>1. wire \in Seq(SymbolType) /\ buf \in Seq(SymbolType)
    BY DEF TypeOK
  <2> HIDE DEF TypeOK
  <2> QED
    BY <1>2, <2>1, SeqMonotonic
<1>4. /\ Parts(msg) \in Seq(Part) /\ Len(Parts(msg)) \in Nat /\ Len(Parts(msg)) >= 3
      /\ DOMAIN Parts(msg) = 1 .. Len(Parts(msg))
      /\ \A n \in 1 .. Len(Parts(msg)) : Parts(msg)[n] \in Part
  BY <1>1, MessageParts
<1>5. /\ new \in Seq(SymbolType') /\ Len(new) = Len(Parts(msg))
      /\ \A n \in 1 .. Len(Parts(msg)) : new[n] = SymbolOf(msg, Len(sent) + 1, n)
  <2>1. new = [n \in 1 .. Len(Parts(msg)) |-> SymbolOf(msg, Len(sent) + 1, n)]
    BY <1>4 DEF Symbols
  <2>2. new \in [1 .. Len(Parts(msg)) -> SymbolType']
    <3> SUFFICES ASSUME NEW n \in 1 .. Len(Parts(msg))
                 PROVE  SymbolOf(msg, Len(sent) + 1, n) \in SymbolType'
      BY <2>1
    <3>1. Len(sent) + 1 \in DOMAIN sent' /\ n \in Nat \ {0} /\ Parts(msg)[n] \in Part
      BY <1>1, <1>4
    <3> QED
      BY <3>1 DEF SymbolType, SymbolOf
  <2> HIDE DEF new
  <2>3. new \in Seq(SymbolType') /\ Len(new) = Len(Parts(msg))
    <3> DEFINE len == Len(Parts(msg))
               type == SymbolType'
    <3>1. len \in Nat /\ new \in [1 .. len -> type]
      BY <1>4, <2>2
    <3> HIDE DEF len, type
    <3>2. new \in Seq(type) /\ Len(new) = len
      BY <3>1, SeqDef, LenProperties
    <3> QED
      BY <3>2 DEF len, type
  <2>4. \A n \in 1 .. Len(Parts(msg)) : new[n] = SymbolOf(msg, Len(sent) + 1, n)
    BY <2>1
  <2> QED
    BY <2>3, <2>4
<1> HIDE DEF new
<1>6. Len(buf) \in Nat /\ Len(wire) \in Nat
  BY <1>3, LenProperties
<1>7. /\ wire' \in Seq(SymbolType') /\ Len(wire') = Len(wire) + Len(new)
      /\ \A k \in 1 .. Len(wire) + Len(new) :
           wire'[k] = IF k <= Len(wire) THEN wire[k] ELSE new[k - Len(wire)]
  BY <1>3, <1>5, ConcatProperties DEF new
<1>8. Stream' = Stream \o new
  <2>1. (buf \o wire) \o new = buf \o (wire \o new)
    <3> DEFINE type == SymbolType'
    <3>1. buf \in Seq(type) /\ wire \in Seq(type) /\ new \in Seq(type)
      BY <1>3, <1>5
    <3> HIDE DEF type
    <3> QED
      BY <3>1, ConcatAssociative, SMTT(60)
  <2>2. wire' = wire \o new
    BY DEF new
  <2>3. Stream' = buf' \o wire'
    BY DEF Stream
  <2>4. Stream = buf \o wire
    BY DEF Stream
  <2> QED
    BY <2>1, <2>2, <2>3, <2>4
<1>9. Stream \in Seq(SymbolType') /\ Len(Stream) \in Nat
  <2>1. Stream \in Seq(SymbolType')
    BY <1>3, ConcatProperties DEF Stream
  <2> QED
    BY <2>1, LenProperties
<1>10. /\ Stream' \in Seq(SymbolType') /\ Len(Stream') = Len(Stream) + Len(new)
       /\ \A k \in 1 .. Len(Stream) + Len(new) :
            Stream'[k] = IF k <= Len(Stream) THEN Stream[k] ELSE new[k - Len(Stream)]
  <2> DEFINE type == SymbolType'
  <2>1. Stream \in Seq(type) /\ new \in Seq(type) /\ Stream' = Stream \o new
    BY <1>5, <1>8, <1>9
  <2> HIDE DEF type
  <2> QED
    BY <2>1, ConcatProperties DEF type
<1>11. \A k \in 1 .. Len(Stream) : Stream'[k] = Stream[k]
  BY <1>4, <1>5, <1>9, <1>10
<1>12. \A n \in 1 .. Len(Parts(msg)) :
         Stream'[Len(Stream) + n] = SymbolOf(msg, Len(sent) + 1, n)
  <2> TAKE n \in 1 .. Len(Parts(msg))
  <2>1. /\ Len(Stream) + n \in 1 .. Len(Stream) + Len(new)
        /\ ~(Len(Stream) + n <= Len(Stream)) /\ Len(Stream) + n - Len(Stream) = n
    BY <1>4, <1>5, <1>9
  <2>2. Stream'[Len(Stream) + n] = new[n]
    BY <1>10, <2>1
  <2> QED
    BY <1>5, <2>2
<1>13. \A i \in DOMAIN sent, n \in Nat : Symbol(i, n)' = Symbol(i, n)
  BY <1>1 DEF Symbol, SymbolOf
<1>14. wire = <<>> => wire'[1] = SymbolOf(msg, Len(sent) + 1, 1)
  <2> SUFFICES ASSUME wire = <<>> PROVE wire'[1] = SymbolOf(msg, Len(sent) + 1, 1)
    OBVIOUS
  <2>1. Len(wire) = 0
    BY EmptySeq
  <2>2. 1 \in 1 .. Len(wire) + Len(new) /\ ~(1 <= Len(wire)) /\ 1 - Len(wire) = 1
    BY <1>4, <1>5, <2>1
  <2>3. wire'[1] = new[1]
    BY <1>7, <2>2
  <2> QED
    BY <1>4, <1>5, <2>3
<1>15. wire # <<>> => wire'[1] = wire[1]
  <2> SUFFICES ASSUME wire # <<>> PROVE wire'[1] = wire[1]
    OBVIOUS
  <2>1. Len(wire) >= 1
    BY <1>3, <1>6, EmptySeq
  <2>2. 1 \in 1 .. Len(wire) + Len(new) /\ 1 <= Len(wire)
    BY <1>4, <1>5, <1>6, <2>1
  <2> QED
    BY <1>7, <2>2
<1>16. wire' # <<>>
  BY <1>4, <1>5, <1>6, <1>7, EmptySeq
<1> QED
  BY <1>1, <1>3, <1>5, <1>7, <1>10, <1>11, <1>12, <1>13, <1>14, <1>15, <1>16
     DEF Message

(* A symbol of the stream, and what is left of its message behind it. *)
LEMMA SymbolIs ==
    ASSUME TypeOK, StreamIsRest, NEW k \in 1 .. Len(Stream)
    PROVE  LET i == Stream[k].msg
               m == Stream[k].n
           IN /\ i \in DOMAIN sent /\ i \in Nat \ {0} /\ sent[i] \in Message
              /\ m \in 1 .. Len(Parts(sent[i])) /\ m \in Nat \ {0}
              /\ Len(Parts(sent[i])) \in Nat
              /\ Stream[k] = Symbol(i, m) /\ Stream[k].part = Parts(sent[i])[m]
              /\ \A n \in m .. Len(Parts(sent[i])) :
                   /\ n \in Nat /\ k + n - m \in 1 .. Len(Stream)
                   /\ Stream[k + n - m] = Symbol(i, n)
<1> DEFINE i == Stream[k].msg
           m == Stream[k].n
<1>1. Len(Stream) \in Nat /\ DOMAIN Stream = 1 .. Len(Stream) /\ k \in Nat /\ k >= 1
  BY StreamIs
<1>2. /\ i \in DOMAIN sent /\ m \in DOMAIN Parts(sent[i]) /\ Stream[k] = Symbol(i, m)
      /\ \A n \in m .. Len(Parts(sent[i])) :
           k + n - m <= Len(Stream) /\ Stream[k + n - m] = Symbol(i, n)
  BY <1>1 DEF StreamIsRest
<1>3. i \in Nat \ {0} /\ sent[i] \in Message
  BY <1>2, SentIs
<1>4. m \in 1 .. Len(Parts(sent[i])) /\ Len(Parts(sent[i])) \in Nat
  BY <1>2, <1>3, MessageParts
<1>5. Stream[k].part = Parts(sent[i])[m]
  BY <1>2 DEF Symbol, SymbolOf
<1>6. ASSUME NEW n \in m .. Len(Parts(sent[i]))
      PROVE  /\ n \in Nat /\ k + n - m \in 1 .. Len(Stream)
             /\ Stream[k + n - m] = Symbol(i, n)
  <2>1. m \in Nat /\ n \in Nat /\ n >= m
    BY <1>4
  <2>2. k + n - m <= Len(Stream) /\ Stream[k + n - m] = Symbol(i, n)
    BY <1>2
  <2>3. k + n - m \in 1 .. Len(Stream)
    BY <1>1, <2>1, <2>2
  <2> QED
    BY <2>1, <2>2, <2>3
<1>7. m \in Nat \ {0}
  BY <1>4
<1> QED
  BY <1>2, <1>3, <1>4, <1>5, <1>6, <1>7

(* The stream is sorted: a symbol of a message has its place there. *)
LEMMA InOrder ==
    ASSUME TypeOK, StreamIsRest,
           NEW j \in 1 .. Len(Stream), NEW k \in 1 .. Len(Stream), j <= k
    PROVE  /\ Stream[j].msg <= Stream[k].msg
           /\ Stream[j].msg = Stream[k].msg => Stream[k].n = Stream[j].n + (k - j)
<1> DEFINE s == Stream[j]
           t == Stream[k]
<1> HIDE DEF Stream
<1>1. /\ s.msg \in Nat /\ s.n \in Nat /\ t.msg \in Nat /\ t.n \in Nat
      /\ j \in Nat /\ k \in Nat /\ DOMAIN Stream = 1 .. Len(Stream) /\ Len(Stream) \in Nat
  BY StreamIs
<1>2. s.msg <= t.msg /\ (s.msg = t.msg => s.n <= t.n)
  <2>1. j = k \/ Before(s, t)
    BY <1>1 DEF StreamIsRest
  <2> HIDE DEF s, t
  <2> QED
    BY <1>1, <2>1 DEF Before, s, t
<1>3. ASSUME s.msg = t.msg PROVE t.n = s.n + (k - j)
  <2> DEFINE i == s.msg
             p == j + t.n - s.n
  <2>1. t.n \in s.n .. Len(Parts(sent[i])) /\ t = Symbol(i, t.n)
    <3>1. t.n \in 1 .. Len(Parts(sent[i])) /\ Len(Parts(sent[i])) \in Nat /\ t = Symbol(i, t.n)
      BY <1>3, SymbolIs
    <3> HIDE DEF s, t, i
    <3> QED
      BY <1>1, <1>2, <1>3, <3>1
  <2>2. p \in 1 .. Len(Stream) /\ Stream[p] = Symbol(i, t.n)
    BY <2>1, SymbolIs
  <2>3. Stream[p].msg = t.msg /\ Stream[p].n = t.n
    BY <2>1, <2>2
  <2>4. ~Before(Stream[p], t) /\ ~Before(t, Stream[p])
    BY <1>1, <2>3 DEF Before
  <2>5. ~(p < k) /\ ~(k < p)
    BY <1>1, <2>2, <2>4 DEF StreamIsRest
  <2>6. p = k
    BY <1>1, <2>2, <2>5
  <2> QED
    BY <1>1, <2>6
<1> QED
  BY <1>2, <1>3
-----------------------------------------------------------------------------
(* What OnMessage finds *)

Framed ==
    /\ TypeOK
    /\ StreamIsRest
    /\ ServedIsPast
    /\ BodyFollows
    /\ FramesOwn
    /\ RequestsInTurn

(* The message the stream begins with. *)
First == Stream[1].msg

(* The messages served are messages that were sent. *)
LEMMA LastServedIs ==
    ASSUME TypeOK
    PROVE  /\ LastServed \in Nat /\ Len(served) \in Nat /\ DOMAIN served = 1 .. Len(served)
           /\ \A k \in DOMAIN served : /\ served[k].msg \in DOMAIN sent
                                       /\ served[k].msg \in Nat \ {0}
                                       /\ served[k] \in Handled
<1>1. served \in Seq(Handled)
  BY DEF TypeOK
<1>2. Len(served) \in Nat /\ DOMAIN served = 1 .. Len(served)
  BY <1>1, LenProperties
<1>3. ASSUME NEW k \in DOMAIN served
      PROVE  /\ served[k].msg \in DOMAIN sent /\ served[k].msg \in Nat \ {0}
             /\ served[k] \in Handled
  <2>1. served[k] \in Handled
    BY <1>1, <1>2, ElementOfSeq
  <2>2. served[k].msg \in DOMAIN sent
    BY <2>1 DEF Handled
  <2> QED
    BY <2>1, <2>2, SentIs
<1>4. served # <<>> => Len(served) \in DOMAIN served
  BY <1>1, <1>2, EmptySeq
<1> QED
  BY <1>2, <1>3, <1>4 DEF LastServed

(* What OnMessage gets is not empty and a front of the stream. *)
LEMMA ArrivesIs ==
    ASSUME TypeOK, NEW b, NEW rest, Arrives(b, rest)
    PROVE  /\ Len(b) \in Nat \ {0} /\ b # <<>> /\ DOMAIN b = 1 .. Len(b)
           /\ Len(Stream) \in Nat /\ Len(b) <= Len(Stream)
           /\ 1 \in DOMAIN b /\ b[1] = Stream[1]
           /\ \A k \in DOMAIN b : k \in 1 .. Len(Stream) /\ b[k] = Stream[k]
<1>1. /\ b \in Seq(SymbolType) /\ Len(b) \in Nat \ {0} /\ Len(rest) \in Nat
      /\ Len(b) + Len(rest) = Len(Stream)
      /\ \A k \in 1 .. Len(b) : b[k] = Stream[k]
  BY DEF Arrives
<1>2. DOMAIN b = 1 .. Len(b) /\ b # <<>>
  BY <1>1, LenProperties, EmptySeq
<1>3. Len(Stream) \in Nat
  BY StreamIs
<1> HIDE DEF Stream
<1>4. Len(b) <= Len(Stream) /\ 1 \in 1 .. Len(b)
  BY <1>1, <1>3
<1> QED
  BY <1>1, <1>2, <1>3, <1>4

(* The magic is that of a frame of which nothing was consumed. *)
LEMMA HeadIs ==
    ASSUME Framed, NEW b, NEW rest, Arrives(b, rest), Starts(b, "magic")
    PROVE  /\ First \in DOMAIN sent /\ sent[First] \in Message
           /\ sent[First].kind = "frame"
           /\ Stream[1].n = 1 /\ next = NoFrame /\ next.type = "none"
           /\ Len(Stream) >= 3
           /\ Stream[2] = Symbol(First, 2) /\ Stream[3] = Symbol(First, 3)
           /\ Len(b) >= 2 => b[2].msg = First
<1>1. TypeOK /\ StreamIsRest /\ BodyFollows
  BY DEF Framed
<1>2. /\ Len(b) \in Nat \ {0} /\ b[1] = Stream[1] /\ 1 \in 1 .. Len(Stream)
      /\ Len(Stream) \in Nat /\ \A k \in 1 .. Len(b) : b[k] = Stream[k]
  BY <1>1, ArrivesIs
<1> DEFINE i == First
           m == Stream[1].n
<1>3. /\ i \in DOMAIN sent /\ sent[i] \in Message
      /\ m \in 1 .. Len(Parts(sent[i])) /\ Parts(sent[i])[m] = "magic"
      /\ \A n \in m .. Len(Parts(sent[i])) :
           1 + n - m \in 1 .. Len(Stream) /\ Stream[1 + n - m] = Symbol(i, n)
  BY <1>1, <1>2, SymbolIs DEF Starts, First
<1>4. DOMAIN Parts(sent[i]) = 1 .. Len(Parts(sent[i])) /\ Len(Parts(sent[i])) >= 3
      /\ Len(Parts(sent[i])) \in Nat /\ sent[i].kind \in {"request", "frame"}
  BY <1>3, MessageParts
<1>5. sent[i].kind = "frame" /\ m = 1
  BY <1>1, <1>3, <1>4, PlaceOf
<1>6. next = NoFrame /\ next.type = "none"
  <2>1. next.type # "frame"
    BY <1>1, <1>5 DEF BodyFollows, First
  <2> QED
    BY <1>1, <2>1 DEF BodyFollows, NoFrame
<1>7. /\ 2 \in m .. Len(Parts(sent[i])) /\ 3 \in m .. Len(Parts(sent[i]))
      /\ 1 + 2 - m = 2 /\ 1 + 3 - m = 3
  BY <1>4, <1>5
<1>8. Stream[2] = Symbol(i, 2) /\ Stream[3] = Symbol(i, 3) /\ 3 \in 1 .. Len(Stream)
  BY <1>3, <1>7
<1>9. Len(b) >= 2 => b[2].msg = i
  <2> SUFFICES ASSUME Len(b) >= 2 PROVE b[2].msg = i
    OBVIOUS
  <2>1. b[2] = Stream[2]
    BY <1>2
  <2> QED
    BY <1>8, <2>1 DEF Symbol, SymbolOf
<1>10. Len(Stream) >= 3
  BY <1>2, <1>8
<1> QED
  BY <1>3, <1>5, <1>6, <1>8, <1>9, <1>10

(* Behind a head that was consumed comes the body. *)
LEMMA BodyIs ==
    ASSUME Framed, NEW b, NEW rest, Arrives(b, rest), next.type = "frame"
    PROVE  /\ First \in DOMAIN sent /\ sent[First] \in Message
           /\ sent[First].kind = "frame"
           /\ b[1].msg = First /\ Stream[1].n = 3 /\ ~Starts(b, "magic")
           /\ next.channel = sent[First].channel
           /\ next.length = Len(sent[First].body) /\ next.length \in Nat \ {0}
           /\ next.length <= Len(Stream)
           /\ \A k \in 1 .. next.length : Stream[k] = Symbol(First, k + 2)
           /\ \A k \in next.length + 1 .. Len(Stream) : Stream[k].msg > First
           /\ First > LastServed /\ LastServed \in Nat
<1> DEFINE i == First
           len == Len(sent[i].body)
<1>1. TypeOK /\ StreamIsRest /\ BodyFollows /\ ServedIsPast
  BY DEF Framed
<1>2. /\ Len(b) \in Nat \ {0} /\ b[1] = Stream[1] /\ 1 \in 1 .. Len(Stream)
      /\ Len(Stream) \in Nat /\ b # <<>>
  BY <1>1, ArrivesIs
<1>3. /\ sent[i].kind = "frame" /\ Stream[1].n = 3
      /\ next.channel = sent[i].channel /\ next.length = len
  BY <1>1 DEF BodyFollows, First
<1>4. /\ i \in DOMAIN sent /\ sent[i] \in Message /\ i \in Nat
      /\ 3 \in 1 .. Len(Parts(sent[i])) /\ Stream[1].part = Parts(sent[i])[3]
      /\ \A n \in 3 .. Len(Parts(sent[i])) :
           1 + n - 3 \in 1 .. Len(Stream) /\ Stream[1 + n - 3] = Symbol(i, n)
  <2> DEFINE m == Stream[1].n
  <2>1. /\ i \in DOMAIN sent /\ sent[i] \in Message /\ i \in Nat
        /\ m \in 1 .. Len(Parts(sent[i])) /\ Stream[1].part = Parts(sent[i])[m]
        /\ \A n \in m .. Len(Parts(sent[i])) :
             1 + n - m \in 1 .. Len(Stream) /\ Stream[1 + n - m] = Symbol(i, n)
    BY <1>1, <1>2, SymbolIs DEF First
  <2> QED
    BY <1>3, <2>1
<1>5. Len(Parts(sent[i])) = len + 2 /\ len \in Nat \ {0} /\ Parts(sent[i])[3] = "word"
  <2>1. /\ Len(Parts(sent[i])) = len + 2 /\ len \in Nat \ {0}
        /\ \A n \in 3 .. len + 2 : Parts(sent[i])[n] = "word"
    BY <1>3, <1>4, FrameParts
  <2>2. 3 \in 3 .. len + 2
    BY <2>1
  <2> QED
    BY <2>1, <2>2
<1>6. ~Starts(b, "magic") /\ b[1].msg = i
  BY <1>2, <1>4, <1>5 DEF Starts, First
<1>7. ASSUME NEW k \in 1 .. len PROVE Stream[k] = Symbol(i, k + 2) /\ k <= Len(Stream)
  <2>1. k + 2 \in 3 .. Len(Parts(sent[i])) /\ 1 + (k + 2) - 3 = k
    BY <1>5
  <2>2. k \in 1 .. Len(Stream) /\ Stream[k] = Symbol(i, k + 2)
    BY <1>4, <2>1
  <2> QED
    BY <1>2, <2>2
<1>8. len <= Len(Stream)
  <2>1. len \in 1 .. len
    BY <1>5
  <2> QED
    BY <1>7, <2>1
<1>9. ASSUME NEW k \in len + 1 .. Len(Stream) PROVE Stream[k].msg > i
  <2>1. k \in 1 .. Len(Stream) /\ 1 <= k /\ k \in Nat /\ k >= len + 1
    BY <1>2, <1>5
  <2>2. /\ i <= Stream[k].msg
        /\ i = Stream[k].msg => Stream[k].n = Stream[1].n + (k - 1)
    BY <1>1, <1>2, <2>1, InOrder DEF First
  <2>3. Stream[k].msg \in Nat
    BY <1>1, <2>1, StreamIs
  <2>4. ASSUME i = Stream[k].msg PROVE FALSE
    <3>1. Stream[k].n \in 1 .. len + 2
      BY <1>1, <1>5, <2>1, <2>4, SymbolIs
    <3>2. Stream[k].n = 3 + (k - 1)
      BY <1>3, <2>2, <2>4
    <3>3. 3 + (k - 1) > len + 2
      BY <1>5, <2>1
    <3> QED
      BY <1>5, <2>1, <3>1, <3>2, <3>3
  <2> QED
    BY <1>4, <2>2, <2>3, <2>4
<1>10. i > LastServed /\ LastServed \in Nat
  <2>1. LastServed \in Nat
    BY <1>1, LastServedIs
  <2>2. 1 \in DOMAIN Stream
    BY <1>1, <1>2, StreamIs
  <2>3. i > LastServed
    BY <1>1, <1>3, <2>2 DEF ServedIsPast, First
  <2> QED
    BY <2>1, <2>3
<1>11. next.length = len /\ next.channel = sent[i].channel /\ Stream[1].n = 3
  BY <1>3
<1> HIDE DEF Stream
<1> QED
  BY <1>3, <1>4, <1>5, <1>6, <1>7, <1>8, <1>9, <1>10, <1>11

(* If all of it is there, it is handled with the words of its own frame. *)
LEMMA WordsAre ==
    ASSUME Framed, NEW b, NEW rest, Arrives(b, rest), next.type = "frame",
           HasBody(b)
    PROVE  /\ WordsOf(SubSeq(b, 1, next.length)) = sent[First].body
           /\ next.length \in 1 .. Len(b)
<1> DEFINE i == First
           len == Len(sent[i].body)
           q == SubSeq(b, 1, len)
<1>1. /\ i \in DOMAIN sent /\ sent[i] \in Message /\ sent[i].kind = "frame"
      /\ next.length = len /\ len \in Nat \ {0}
      /\ \A k \in 1 .. len : Stream[k] = Symbol(i, k + 2)
  BY BodyIs
<1>2. /\ b \in Seq(SymbolType) /\ Len(b) \in Nat \ {0} /\ Len(b) >= len
      /\ \A k \in 1 .. Len(b) : b[k] = Stream[k]
  BY <1>1 DEF Arrives, HasBody
<1>3. len \in 1 .. Len(b)
  BY <1>1, <1>2
<1>4. sent[i].body \in Seq(Word) /\ DOMAIN sent[i].body = 1 .. len
  <2>1. sent[i].body \in Seq(Word)
    BY <1>1, FrameParts
  <2> QED
    BY <2>1, LenProperties
<1> HIDE DEF len
<1>5. \A k \in 1 .. len : b[k] \in SymbolType /\ b[k] = Symbol(i, k + 2)
  <2> TAKE k \in 1 .. len
  <2>1. k \in 1 .. Len(b)
    BY <1>1, <1>2
  <2> QED
    BY <1>1, <1>2, <2>1, ElementOfSeq
<1>6. /\ q \in Seq(SymbolType) /\ Len(q) = len
      /\ \A k \in 1 .. len : q[k] = Symbol(i, k + 2)
  <2>1. /\ q \in Seq(SymbolType) /\ Len(q) = IF 1 <= len THEN len - 1 + 1 ELSE 0
        /\ \A k \in 1 .. len - 1 + 1 : q[k] = b[1 + k - 1]
    BY <1>1, <1>5, SubSeqProperties
  <2>2. \A k \in 1 .. len : k \in 1 .. len - 1 + 1 /\ 1 + k - 1 = k
    BY <1>1
  <2> QED
    BY <1>1, <1>5, <2>1, <2>2
<1> HIDE DEF q
<1>7. DOMAIN q = 1 .. len
  BY <1>6, LenProperties
<1>8. WordsOf(q) = [k \in 1 .. len |-> sent[i].body[k]]
  <2>1. ASSUME NEW k \in 1 .. len
        PROVE  sent[q[k].msg].body[q[k].n - 2] = sent[i].body[k]
    <3>1. q[k].msg = i /\ q[k].n = k + 2
      BY <1>6 DEF Symbol, SymbolOf
    <3>2. (k + 2) - 2 = k
      BY <1>1
    <3> QED
      BY <3>1, <3>2
  <2> QED
    BY <1>7, <2>1 DEF WordsOf
<1>9. [k \in 1 .. len |-> sent[i].body[k]] = sent[i].body
  <2>1. sent[i].body \in [1 .. len -> Word]
    BY <1>4, LenProperties DEF len
  <2> QED
    BY <2>1
<1> QED
  BY <1>1, <1>3, <1>8, <1>9 DEF q
-----------------------------------------------------------------------------
(* One read event: b is in the buffer when OnMessage is called. *)

Arrival(b, rest) ==
    /\ Arrives(b, rest)
    /\ wire' = rest
    /\ UNCHANGED <<lockstep, delivery, sent>>

(* A read event keeps the types if what OnMessage sets has them. *)
LEMMA ReadType ==
    ASSUME TypeOK, NEW b, NEW rest, Arrival(b, rest),
           buf' \in Seq(SymbolType),
           next' \in [type : {"none", "frame"}, channel : 0 .. 255, length : Nat],
           next'.type = "none" => next' = NoFrame,
           served' \in Seq(Handled), replies' \in 0 .. RequestsSent, closed' \in BOOLEAN
    PROVE  TypeOK'
<1>1. SymbolType' = SymbolType /\ Handled' = Handled /\ RequestsSent' = RequestsSent
      /\ NoFrame' = NoFrame
  BY DEF Arrival, SymbolType, Handled, RequestsSent, NoFrame
<1>2. wire' \in Seq(SymbolType)
  BY DEF Arrival, Arrives
<1>3. /\ lockstep' \in BOOLEAN /\ delivery' \in {"any", "messages", "halves"}
      /\ sent' \in Seq(Requests \union Frames)
  BY DEF Arrival, TypeOK
<1> QED
  BY <1>1, <1>2, <1>3 DEF TypeOK

(* Nothing is served again because symbols were taken off. *)
LEMMA StaysPast ==
    ASSUME TypeOK, ServedIsPast, NEW d \in Nat, d <= Len(Stream), Left(d),
           sent' = sent, served' = served
    PROVE  ServedIsPast'
<1>1. /\ Len(Stream) \in Nat /\ DOMAIN Stream = 1 .. Len(Stream)
      /\ DOMAIN Stream' = 1 .. Len(Stream) - d
      /\ \A k \in 1 .. Len(Stream) - d : Stream'[k] = Stream[k + d]
  BY StreamIs, LenProperties DEF Left
<1>2. LastServed' = LastServed
  BY DEF LastServed
<1>3. ASSUME NEW k \in DOMAIN Stream'
      PROVE  \/ Stream'[k].msg > LastServed
             \/ /\ Stream'[k].msg = LastServed /\ Stream'[k].n > 1
                /\ sent[Stream'[k].msg].kind = "request"
  <2>1. k + d \in DOMAIN Stream /\ Stream'[k] = Stream[k + d]
    BY <1>1
  <2> QED
    BY <2>1 DEF ServedIsPast
<1>4. \A k \in DOMAIN served : served[k].msg <= LastServed
  BY DEF ServedIsPast
<1> QED
  BY <1>2, <1>3, <1>4 DEF ServedIsPast

(* A step that serves nothing keeps what is known of the messages served. *)
LEMMA ServedStays ==
    ASSUME FramesOwn, RequestsInTurn,
           sent' = sent, served' = served, lockstep' = lockstep, replies' = replies
    PROVE  FramesOwn' /\ RequestsInTurn'
<1>1. FramesOwn'
  BY DEF FramesOwn
<1>2. \A i : IsServed(i)' <=> IsServed(i)
  BY DEF IsServed
<1>3. ServedRequests' = ServedRequests
  BY <1>2 DEF ServedRequests
<1>4. RequestsInTurn'
  BY <1>2, <1>3 DEF RequestsInTurn
<1> QED
  BY <1>1, <1>4

(* Nothing is handled. *)
LEMMA WaitKeeps ==
    ASSUME Framed, NEW b, NEW rest, Arrival(b, rest), NEW d \in 0 .. Len(b),
           buf' = Drop(b, d), next' = next, d = 0 \/ next.type = "none",
           served' = served, replies' = replies, closed' \in BOOLEAN
    PROVE  Framed'
<1>1. /\ TypeOK /\ StreamIsRest /\ ServedIsPast /\ BodyFollows /\ FramesOwn
      /\ RequestsInTurn /\ Arrives(b, rest) /\ wire' = rest
      /\ sent' = sent /\ lockstep' = lockstep
  BY DEF Framed, Arrival
<1>2. Left(d) /\ d \in Nat /\ d <= Len(Stream) /\ buf' \in Seq(SymbolType)
  BY <1>1, LeftIs
<1>3. TypeOK'
  BY <1>1, <1>2, ReadType DEF TypeOK
<1>4. StreamIsRest' /\ ServedIsPast'
  BY <1>1, <1>2, RestStays, StaysPast
<1>5. FramesOwn' /\ RequestsInTurn'
  BY <1>1, ServedStays
<1>6. BodyFollows'
  <2>1. CASE next.type = "frame"
    <3>1. Stream # <<>> /\ d = 0 /\ Len(Stream) \in Nat
      BY <1>1, <2>1, StreamIs DEF BodyFollows
    <3>2. Len(Stream) >= 1
      BY <1>1, <3>1, StreamIs, EmptySeq
    <3>3. Stream'[1] = Stream[1] /\ Len(Stream') = Len(Stream)
      BY <1>2, <3>1, <3>2 DEF Left
    <3>4. Stream' # <<>>
      BY <3>2, <3>3, EmptySeq
    <3> QED
      BY <1>1, <2>1, <3>3, <3>4 DEF BodyFollows
  <2>2. CASE next.type # "frame"
    BY <1>1, <2>2 DEF BodyFollows, NoFrame
  <2> QED
    BY <2>1, <2>2
<1> QED
  BY <1>3, <1>4, <1>5, <1>6 DEF Framed

(* The head of a frame is consumed, and its body follows. *)
LEMMA FrameHeadKeeps ==
    ASSUME Framed, NEW b, NEW rest, Arrival(b, rest), FrameHead(b)
    PROVE  Framed'
<1>1. /\ TypeOK /\ StreamIsRest /\ ServedIsPast /\ BodyFollows /\ FramesOwn
      /\ RequestsInTurn /\ Arrives(b, rest) /\ wire' = rest
      /\ sent' = sent /\ lockstep' = lockstep
  BY DEF Framed, Arrival
<1>2. /\ Starts(b, "magic") /\ Len(b) >= 2 /\ buf' = Drop(b, 2)
      /\ served' = served /\ replies' = replies /\ closed' = closed
      /\ next' = [type |-> "frame", channel |-> sent[b[2].msg].channel,
                  length |-> Len(sent[b[2].msg].body)]
  BY DEF FrameHead
<1>3. /\ First \in DOMAIN sent /\ sent[First] \in Message /\ sent[First].kind = "frame"
      /\ Len(Stream) >= 3 /\ Stream[3] = Symbol(First, 3) /\ b[2].msg = First
  BY <1>1, <1>2, HeadIs
<1>4. 2 \in 0 .. Len(b) /\ Len(Stream) \in Nat
  BY <1>1, <1>2, ArrivesIs
<1>5. Left(2) /\ 2 <= Len(Stream) /\ buf' \in Seq(SymbolType)
  BY <1>1, <1>2, <1>4, LeftIs
<1>6. TypeOK'
  <2>1. sent[First].channel \in 0 .. 255 /\ Len(sent[First].body) \in Nat
    BY <1>3, FrameParts
  <2>2. /\ next' \in [type : {"none", "frame"}, channel : 0 .. 255, length : Nat]
        /\ next'.type # "none"
    BY <1>2, <1>3, <2>1
  <2>3. served' \in Seq(Handled) /\ replies' \in 0 .. RequestsSent /\ closed' \in BOOLEAN
    BY <1>1, <1>2 DEF TypeOK
  <2> QED
    BY <1>1, <1>5, <2>2, <2>3, ReadType
<1>7. StreamIsRest' /\ ServedIsPast'
  BY <1>1, <1>2, <1>5, RestStays, StaysPast
<1>8. FramesOwn' /\ RequestsInTurn'
  BY <1>1, <1>2, ServedStays
<1>9. BodyFollows'
  <2>1. Stream'[1] = Symbol(First, 3) /\ Len(Stream') \in Nat /\ Len(Stream') >= 1
    <3>1. 1 \in 1 .. Len(Stream) - 2 /\ 1 + 2 = 3
      BY <1>3, <1>4
    <3> QED
      BY <1>3, <1>4, <1>5, <3>1 DEF Left
  <2>2. Stream'[1].msg = First /\ Stream'[1].n = 3 /\ Stream' # <<>>
    BY <2>1, EmptySeq DEF Symbol, SymbolOf
  <2> QED
    BY <1>1, <1>2, <1>3, <2>2 DEF BodyFollows
<1> QED
  BY <1>6, <1>7, <1>8, <1>9 DEF Framed

(* What is handled was appended. *)
LEMMA HandleIs ==
    ASSUME TypeOK, NEW h \in Handled, served' = Append(served, h)
    PROVE  /\ served' \in Seq(Handled) /\ served' # <<>>
           /\ LastServed' = h.msg
           /\ DOMAIN served' = 1 .. Len(served) + 1 /\ Len(served) \in Nat
           /\ DOMAIN served = 1 .. Len(served)
           /\ \A k \in DOMAIN served : k \in DOMAIN served' /\ served'[k] = served[k]
           /\ served'[Len(served) + 1] = h /\ Len(served) + 1 \in DOMAIN served'
           /\ \A i : IsServed(i)' <=> IsServed(i) \/ i = h.msg
<1>1. /\ served \in Seq(Handled) /\ Len(served) \in Nat
      /\ DOMAIN served = 1 .. Len(served)
  BY LenProperties DEF TypeOK
<1>2. /\ served' \in Seq(Handled) /\ Len(served') = Len(served) + 1
      /\ \A k \in 1 .. Len(served) : served'[k] = served[k]
      /\ served'[Len(served) + 1] = h
  BY <1>1, AppendProperties
<1>3. DOMAIN served' = 1 .. Len(served) + 1
  BY <1>2, LenProperties
<1>4. served' # <<>>
  BY <1>1, <1>2, EmptySeq
<1>5. LastServed' = h.msg
  BY <1>2, <1>4 DEF LastServed
<1>6. Len(served) + 1 \in DOMAIN served' /\ \A k \in DOMAIN served : k \in DOMAIN served'
  BY <1>1, <1>3
<1>7. \A k \in DOMAIN served' : k \in DOMAIN served \/ k = Len(served) + 1
  BY <1>1, <1>3
<1>8. \A i : IsServed(i)' <=> IsServed(i) \/ i = h.msg
  BY <1>1, <1>2, <1>6, <1>7 DEF IsServed
<1> QED
  BY <1>1, <1>2, <1>3, <1>4, <1>5, <1>6, <1>8

(* The message served is past, and what is left of the stream comes later. *)
LEMMA HandledPast ==
    ASSUME TypeOK, ServedIsPast, NEW d \in Nat, d <= Len(Stream), Left(d), sent' = sent,
           NEW h \in Handled, served' = Append(served, h), h.msg > LastServed,
           \A k \in d + 1 .. Len(Stream) :
             LET s == Stream[k]
             IN \/ s.msg > h.msg
                \/ s.msg = h.msg /\ s.n > 1 /\ sent[s.msg].kind = "request"
    PROVE  ServedIsPast' /\ ~IsServed(h.msg)
<1>1. /\ Len(Stream) \in Nat /\ DOMAIN Stream = 1 .. Len(Stream)
      /\ DOMAIN Stream' = 1 .. Len(Stream) - d
      /\ \A k \in 1 .. Len(Stream) - d : Stream'[k] = Stream[k + d]
  BY StreamIs, LenProperties DEF Left
<1>2. /\ LastServed' = h.msg
      /\ DOMAIN served' = 1 .. Len(served) + 1 /\ Len(served) \in Nat
      /\ DOMAIN served = 1 .. Len(served)
      /\ \A k \in DOMAIN served : served'[k] = served[k]
      /\ served'[Len(served) + 1] = h
  BY HandleIs
<1>3. LastServed \in Nat /\ \A k \in DOMAIN served : served[k].msg \in Nat
  BY LastServedIs
<1>4. h.msg \in Nat
  BY SentIs DEF Handled
<1>5. \A k \in DOMAIN served : served[k].msg <= LastServed
  BY DEF ServedIsPast
<1>6. ASSUME NEW k \in DOMAIN served' PROVE served'[k].msg <= LastServed'
  <2>1. k \in DOMAIN served \/ k = Len(served) + 1
    BY <1>2
  <2>2. ASSUME k \in DOMAIN served PROVE served'[k].msg <= h.msg
    <3>1. served'[k].msg = served[k].msg /\ served[k].msg <= LastServed
          /\ served[k].msg \in Nat
      BY <1>2, <1>3, <1>5, <2>2
    <3> QED
      BY <1>3, <1>4, <3>1
  <2> QED
    BY <1>2, <1>4, <2>1, <2>2
<1>7. ASSUME NEW k \in DOMAIN Stream'
      PROVE  \/ Stream'[k].msg > h.msg
             \/ /\ Stream'[k].msg = h.msg /\ Stream'[k].n > 1
                /\ sent[Stream'[k].msg].kind = "request"
  <2>1. k + d \in d + 1 .. Len(Stream) /\ Stream'[k] = Stream[k + d]
    BY <1>1
  <2> QED
    BY <2>1
<1>8. ~IsServed(h.msg)
  BY <1>3, <1>4, <1>5 DEF IsServed
<1> QED
  BY <1>2, <1>6, <1>7, <1>8 DEF ServedIsPast

(* There is a request more that was served. *)
LEMMA Counts ==
    ASSUME TypeOK
    PROVE  /\ RequestsSent \in Nat
           /\ Cardinality(ServedRequests) \in Nat
           /\ Cardinality(ServedRequests) <= RequestsSent
           /\ Cardinality(ServedRequests) = RequestsSent =>
                \A i \in DOMAIN sent : sent[i].kind = "request" => IsServed(i)
           /\ \A i \in DOMAIN sent :
                sent[i].kind = "request" /\ ~IsServed(i) =>
                  /\ Cardinality(ServedRequests \union {i}) = Cardinality(ServedRequests) + 1
                  /\ Cardinality(ServedRequests) + 1 <= RequestsSent
<1> DEFINE R == {i \in DOMAIN sent : sent[i].kind = "request"}
<1>1. IsFiniteSet(DOMAIN sent)
  <2>1. Len(sent) \in Nat /\ DOMAIN sent = 1 .. Len(sent)
    BY LenProperties DEF TypeOK
  <2> QED
    BY <2>1, FS_Interval
<1>2. IsFiniteSet(R) /\ Cardinality(R) \in Nat
  BY <1>1, FS_Subset, FS_CardinalityType
<1>3. RequestsSent = Cardinality(R)
  BY DEF RequestsSent
<1>4. ServedRequests \in SUBSET R
  BY DEF ServedRequests
<1> HIDE DEF R
<1>5. /\ IsFiniteSet(ServedRequests) /\ Cardinality(ServedRequests) \in Nat
      /\ Cardinality(ServedRequests) <= Cardinality(R)
      /\ Cardinality(ServedRequests) = Cardinality(R) => R = ServedRequests
  BY <1>2, <1>4, FS_Subset, FS_CardinalityType
<1>6. ASSUME NEW i \in DOMAIN sent, sent[i].kind = "request", ~IsServed(i)
      PROVE  /\ Cardinality(ServedRequests \union {i}) = Cardinality(ServedRequests) + 1
             /\ Cardinality(ServedRequests) + 1 <= RequestsSent
  <2>1. i \notin ServedRequests /\ i \in R
    BY <1>6 DEF ServedRequests, R
  <2>2. /\ ServedRequests \union {i} \in SUBSET R
        /\ Cardinality(ServedRequests \union {i}) = Cardinality(ServedRequests) + 1
    BY <1>4, <1>5, <2>1, FS_AddElement
  <2>3. Cardinality(ServedRequests \union {i}) <= Cardinality(R)
    BY <1>2, <2>2, FS_Subset
  <2> QED
    BY <1>3, <2>2, <2>3
<1>7. ASSUME Cardinality(ServedRequests) = RequestsSent,
             NEW i \in DOMAIN sent, sent[i].kind = "request"
      PROVE  IsServed(i)
  BY <1>3, <1>5, <1>7 DEF ServedRequests, R
<1> QED
  BY <1>2, <1>3, <1>5, <1>6, <1>7

(* A body is handled with the channel of its head, and is past then. *)
LEMMA FrameBodyKeeps ==
    ASSUME Framed, NEW b, NEW rest, Arrival(b, rest), FrameBody(b)
    PROVE  /\ Framed' /\ served' # <<>> /\ LastServed' = First
           /\ LastServed < First /\ Left(next.length)
           /\ \A i : IsServed(i)' <=> IsServed(i) \/ i = First
<1> DEFINE len == next.length
           h == [msg |-> b[1].msg, channel |-> next.channel,
                 packets |-> ParseRTCP(WordsOf(SubSeq(b, 1, len))), header |-> 0]
<1>1. /\ TypeOK /\ StreamIsRest /\ ServedIsPast /\ BodyFollows /\ FramesOwn
      /\ RequestsInTurn /\ Arrives(b, rest) /\ wire' = rest
      /\ sent' = sent /\ lockstep' = lockstep
  BY DEF Framed, Arrival
<1>2. /\ next.type = "frame" /\ HasBody(b) /\ buf' = Drop(b, len)
      /\ served' = Append(served, h) /\ next' = NoFrame
      /\ replies' = replies /\ closed' = closed
  BY DEF FrameBody, Handle, Awaits
<1>3. /\ First \in DOMAIN sent /\ sent[First] \in Message /\ sent[First].kind = "frame"
      /\ b[1].msg = First /\ next.channel = sent[First].channel
      /\ len <= Len(Stream) /\ First > LastServed /\ LastServed \in Nat
      /\ \A k \in len + 1 .. Len(Stream) : Stream[k].msg > First
  BY <1>1, <1>2, BodyIs
<1>4. /\ WordsOf(SubSeq(b, 1, len)) = sent[First].body /\ len \in 1 .. Len(b)
      /\ Len(b) \in Nat
  BY <1>1, <1>2, WordsAre, ArrivesIs
<1>5. h = [msg |-> First, channel |-> sent[First].channel,
           packets |-> ParseRTCP(sent[First].body), header |-> 0]
  BY <1>3, <1>4
<1>6. h \in Handled
  <2>1. sent[First] \in Frames /\ sent[First].channel \in 0 .. 255
    BY <1>3, FrameParts
  <2> QED
    BY <1>3, <1>5, <2>1 DEF Handled
<1>7. len \in 0 .. Len(b) /\ len \in Nat
  BY <1>4
<1>8. Left(len) /\ buf' \in Seq(SymbolType)
  BY <1>1, <1>2, <1>7, LeftIs
<1>9. h.msg = First /\ h.channel = sent[First].channel
      /\ h.packets = ParseRTCP(sent[First].body)
  BY <1>5
<1> HIDE DEF h, len
<1>10. /\ served' \in Seq(Handled) /\ LastServed' = First /\ served' # <<>>
       /\ DOMAIN served' = 1 .. Len(served) + 1 /\ Len(served) \in Nat
       /\ DOMAIN served = 1 .. Len(served)
       /\ \A k \in DOMAIN served : served'[k] = served[k]
       /\ served'[Len(served) + 1] = h
       /\ \A i : IsServed(i)' <=> IsServed(i) \/ i = First
  BY <1>1, <1>2, <1>6, <1>9, HandleIs
<1>11. TypeOK'
  <2>1. /\ next' \in [type : {"none", "frame"}, channel : 0 .. 255, length : Nat]
        /\ next'.type = "none" => next' = NoFrame
    BY <1>2 DEF NoFrame
  <2>2. replies' \in 0 .. RequestsSent /\ closed' \in BOOLEAN
    BY <1>1, <1>2 DEF TypeOK
  <2>3. Arrival(b, rest)
    OBVIOUS
  <2> QED
    BY <1>1, <1>8, <1>10, <2>1, <2>2, <2>3, ReadType
<1>12. StreamIsRest'
  BY <1>1, <1>3, <1>7, <1>8, RestStays
<1>13. ServedIsPast' /\ ~IsServed(First)
  BY <1>1, <1>2, <1>3, <1>6, <1>7, <1>8, <1>9, HandledPast
<1>14. BodyFollows'
  BY <1>2 DEF BodyFollows, NoFrame
<1>15. FramesOwn'
  <2> SUFFICES ASSUME NEW k \in DOMAIN served', sent[served'[k].msg].kind = "frame"
               PROVE  /\ served'[k].channel = sent[served'[k].msg].channel
                      /\ served'[k].packets = ParseRTCP(sent[served'[k].msg].body)
    BY <1>1 DEF FramesOwn
  <2>1. k \in DOMAIN served \/ k = Len(served) + 1
    BY <1>10
  <2> QED
    BY <1>1, <1>9, <1>10, <2>1 DEF FramesOwn
<1>16. RequestsInTurn'
  <2>1. ServedRequests' = ServedRequests
    BY <1>1, <1>3, <1>10 DEF ServedRequests
  <2> QED
    BY <1>1, <1>2, <1>10, <2>1 DEF RequestsInTurn
<1> QED
  BY <1>3, <1>8, <1>10, <1>11, <1>12, <1>13, <1>14, <1>15, <1>16 DEF Framed, len
-----------------------------------------------------------------------------
(* A request is served. *)

LineOf(b) == Min({i \in DOMAIN b : b[i].part = "line"})

(* The first request line in b is that of a message not served yet. *)
LEMMA LineIs ==
    ASSUME Framed, NEW b, NEW rest, Arrives(b, rest), HasLine(b)
    PROVE  LET line == LineOf(b)
               msg == Stream[line].msg
           IN /\ line \in DOMAIN b /\ line \in 1 .. Len(Stream) /\ line \in Nat
              /\ b[line].msg = msg /\ Stream[line].n = 1
              /\ msg \in DOMAIN sent /\ sent[msg] \in Message
              /\ sent[msg].kind = "request" /\ msg > LastServed
              /\ \A k \in DOMAIN b : k < line => b[k].part = "crlf"
<1> DEFINE S == {i \in DOMAIN b : b[i].part = "line"}
           line == LineOf(b)
           msg == Stream[line].msg
<1>1. TypeOK /\ StreamIsRest /\ ServedIsPast
  BY DEF Framed
<1>2. /\ DOMAIN b = 1 .. Len(b) /\ Len(b) \in Nat
      /\ \A k \in DOMAIN b : k \in 1 .. Len(Stream) /\ b[k] = Stream[k]
      /\ DOMAIN Stream = 1 .. Len(Stream)
  BY <1>1, ArrivesIs, StreamIs
<1>3. PICK i \in DOMAIN b : b[i].part = "line" /\ \A j \in 1 .. i - 1 : j \in Ends(b)
  BY DEF HasLine
<1>4. line \in S /\ \A y \in S : line <= y
  <2>1. S \in SUBSET Nat /\ S # {}
    BY <1>2, <1>3
  <2>2. line = Min(S)
    BY DEF LineOf
  <2> HIDE DEF S, line
  <2> QED
    BY <2>1, <2>2, LeastIs
<1>5. /\ line \in DOMAIN b /\ line \in 1 .. Len(Stream) /\ line \in Nat
      /\ b[line] = Stream[line] /\ Stream[line].part = "line"
  BY <1>2, <1>4
<1> HIDE DEF line
<1>6. /\ msg \in DOMAIN sent /\ sent[msg] \in Message /\ msg \in Nat
      /\ Stream[line].n \in DOMAIN Parts(sent[msg])
      /\ Parts(sent[msg])[Stream[line].n] = "line"
  <2>1. /\ msg \in DOMAIN sent /\ sent[msg] \in Message /\ msg \in Nat
        /\ Stream[line].n \in 1 .. Len(Parts(sent[msg]))
        /\ Parts(sent[msg])[Stream[line].n] = "line"
    BY <1>1, <1>5, SymbolIs
  <2> QED
    BY <2>1, MessageParts
<1>7. sent[msg].kind = "request" /\ Stream[line].n = 1
  <2>1. sent[msg].kind \in {"request", "frame"}
    BY <1>6, MessageParts
  <2> QED
    BY <1>1, <1>6, <2>1, PlaceOf
<1>8. msg > LastServed
  <2>1. line \in DOMAIN Stream
    BY <1>2, <1>5
  <2>2. \/ msg > LastServed
        \/ msg = LastServed /\ Stream[line].n > 1
    BY <1>1, <2>1 DEF ServedIsPast
  <2> QED
    BY <1>7, <2>2
<1>9. ASSUME NEW k \in DOMAIN b, k < line PROVE b[k].part = "crlf"
  <2>1. line <= i /\ i \in Nat /\ k \in Nat /\ k >= 1
    BY <1>2, <1>3, <1>4
  <2>2. k \in 1 .. i - 1
    BY <1>5, <1>9, <2>1
  <2> QED
    BY <1>3, <2>2 DEF Ends
<1> QED
  BY <1>5, <1>6, <1>7, <1>8, <1>9 DEF line

OwnLines(q, method) ==
    {i \in Lines(q, "header") : sent[q[i].msg].method = method}

(* The header that counts is one of a complete line, if there is any. *)
LEMMA HeaderIs ==
    ASSUME NEW q \in Seq(SymbolType), TypeOK, NEW method
    PROVE  /\ Header(q, method) \in Nat
           /\ OwnLines(q, method) = {} => Header(q, method) = 0
           /\ OwnLines(q, method) # {} =>
                \E k \in OwnLines(q, method) : Header(q, method) = q[k].msg
<1> DEFINE own == OwnLines(q, method)
<1>1. /\ DOMAIN q = 1 .. Len(q) /\ Len(q) \in Nat
      /\ \A k \in 1 .. Len(q) : q[k] \in SymbolType
  BY LenProperties, ElementOfSeq
<1>2. own \in SUBSET DOMAIN q
  BY DEF Lines, OwnLines
<1>3. Header(q, method) = IF own = {} THEN 0 ELSE q[Max(own)].msg
  BY DEF Header, OwnLines
<1> HIDE DEF own
<1>4. ASSUME own # {} PROVE Max(own) \in own
  <2>1. own \in SUBSET Nat /\ \A y \in own : y <= Len(q)
    BY <1>1, <1>2
  <2> QED
    BY <1>1, <1>4, <2>1, GreatestIs
<1>5. \A k \in own : q[k].msg \in Nat
  <2> TAKE k \in own
  <2>1. q[k].msg \in DOMAIN sent
    BY <1>1, <1>2 DEF SymbolType
  <2> QED
    BY <2>1, SentIs
<1>6. CASE own = {}
  BY <1>3, <1>6 DEF own
<1>7. CASE own # {}
  <2>1. Max(own) \in own /\ Header(q, method) = q[Max(own)].msg
    BY <1>3, <1>4, <1>7
  <2>2. Header(q, method) \in Nat /\ \E k \in own : Header(q, method) = q[k].msg
    BY <1>5, <2>1
  <2> QED
    BY <1>7, <2>2 DEF own
<1> QED
  BY <1>6, <1>7

(* What lies behind the first line end. *)
LEMMA BehindIs ==
    ASSUME TypeOK, NEW b, NEW rest, Arrives(b, rest), Ends(b) # {}
    PROVE  LET e == Min(Ends(b))
           IN /\ e \in 1 .. Len(b) /\ e \in Nat /\ \A y \in Ends(b) : e <= y
              /\ Behind(b) \in Seq(SymbolType) /\ Len(Behind(b)) = Len(b) - e
              /\ DOMAIN Behind(b) = 1 .. Len(b) - e
              /\ \A k \in 1 .. Len(b) - e : Behind(b)[k] = Stream[k + e]
              /\ e \in DOMAIN b /\ b[e].part = "crlf"
<1> DEFINE e == Min(Ends(b))
<1>1. /\ b \in Seq(SymbolType) /\ DOMAIN b = 1 .. Len(b) /\ Len(b) \in Nat
      /\ \A k \in 1 .. Len(b) : b[k] = Stream[k]
  BY ArrivesIs DEF Arrives
<1>2. e \in Ends(b) /\ \A y \in Ends(b) : e <= y
  <2>1. Ends(b) \in SUBSET Nat
    BY <1>1 DEF Ends
  <2> QED
    BY <2>1, LeastIs
<1>3. e \in 1 .. Len(b) /\ e \in Nat /\ e \in DOMAIN b /\ b[e].part = "crlf"
  BY <1>1, <1>2 DEF Ends
<1>4. Behind(b) = Drop(b, e)
  BY DEF Behind
<1> HIDE DEF e
<1>5. e \in 0 .. Len(b)
  BY <1>1, <1>3
<1>6. /\ Behind(b) \in Seq(SymbolType) /\ Len(Behind(b)) = Len(b) - e
      /\ \A k \in 1 .. Len(b) - e : Behind(b)[k] = b[k + e]
  <2>1. /\ Drop(b, e) \in Seq(SymbolType) /\ Len(Drop(b, e)) = Len(b) - e
        /\ \A k \in 1 .. Len(b) - e : Drop(b, e)[k] = b[k + e]
    BY <1>1, <1>5, DropIs, Zenon
  <2> QED
    BY <1>4, <2>1
<1>7. DOMAIN Behind(b) = 1 .. Len(b) - e
  BY <1>6, LenProperties
<1>8. \A k \in 1 .. Len(b) - e : Behind(b)[k] = Stream[k + e]
  <2> TAKE k \in 1 .. Len(b) - e
  <2>1. k + e \in 1 .. Len(b)
    BY <1>1, <1>3
  <2> QED
    BY <1>1, <1>6, <2>1
<1> QED
  BY <1>2, <1>3, <1>6, <1>7, <1>8 DEF e

(* A request is served for the first time, and the buffer is empty then. *)
LEMMA ServeKeeps ==
    ASSUME Framed, NEW b, NEW rest, Arrival(b, rest), Serve(b)
    PROVE  LET msg == Stream[LineOf(b)].msg
           IN /\ Framed' /\ served' # <<>> /\ LastServed' = msg
              /\ LastServed < msg /\ buf' = <<>> /\ Left(Len(b)) /\ HasLine(b)
              /\ \A i : IsServed(i)' <=> IsServed(i) \/ i = msg
              /\ ~IsServed(msg)
              /\ served' = Append(served,
                   [msg |-> msg, channel |-> 0, packets |-> <<>>,
                    header |-> Header(Behind(b), sent[msg].method)])
              /\ [msg |-> msg, channel |-> 0, packets |-> <<>>,
                  header |-> Header(Behind(b), sent[msg].method)] \in Handled
<1> DEFINE msg == Stream[LineOf(b)].msg
           len == Len(b)
           h == [msg |-> msg, channel |-> 0, packets |-> <<>>,
                 header |-> Header(Behind(b), sent[msg].method)]
<1>1. /\ TypeOK /\ StreamIsRest /\ ServedIsPast /\ BodyFollows /\ FramesOwn
      /\ RequestsInTurn /\ Arrives(b, rest) /\ wire' = rest
      /\ sent' = sent /\ lockstep' = lockstep
  BY DEF Framed, Arrival
<1>2. /\ next.type = "none" /\ HasLine(b) /\ buf' = <<>>
      /\ served' = Append(served, [msg |-> b[LineOf(b)].msg, channel |-> 0, packets |-> <<>>,
                   header |-> Header(Behind(b), sent[b[LineOf(b)].msg].method)])
      /\ replies' = IF closed THEN replies ELSE replies + 1
      /\ next' = next /\ closed' = closed
  BY DEF Serve, Handle, IsRequest, LineOf
<1>3. /\ LineOf(b) \in DOMAIN b /\ LineOf(b) \in 1 .. Len(Stream) /\ LineOf(b) \in Nat
      /\ b[LineOf(b)].msg = msg /\ Stream[LineOf(b)].n = 1
      /\ msg \in DOMAIN sent /\ sent[msg] \in Message
      /\ sent[msg].kind = "request" /\ msg > LastServed
  BY <1>1, <1>2, LineIs
<1>4. /\ len \in Nat /\ len <= Len(Stream) /\ Len(Stream) \in Nat
      /\ DOMAIN b = 1 .. len /\ b \in Seq(SymbolType)
  BY <1>1, ArrivesIs DEF Arrives
<1>5. Left(len) /\ buf' \in Seq(SymbolType)
  <2>1. Drop(b, len) = <<>> /\ len \in 0 .. len
    BY <1>4, SubSeqEmpty DEF Drop
  <2> QED
    BY <1>1, <1>2, <2>1, LeftIs
<1>6. served' = Append(served, h)
  BY <1>2, <1>3
<1>7. h \in Handled
  <2>1. Ends(b) # {}
    BY <1>2 DEF HasLine
  <2>2. Behind(b) \in Seq(SymbolType)
    BY <1>1, <2>1, BehindIs
  <2>3. Header(Behind(b), sent[msg].method) \in Nat
    BY <1>1, <2>2, HeaderIs
  <2> QED
    BY <1>3, <2>3 DEF Handled
<1>8. h.msg = msg
  OBVIOUS
<1>9. ASSUME NEW k \in len + 1 .. Len(Stream)
      PROVE  \/ Stream[k].msg > msg
             \/ /\ Stream[k].msg = msg /\ Stream[k].n > 1
                /\ sent[Stream[k].msg].kind = "request"
  <2> DEFINE j == LineOf(b)
  <2>1. k \in 1 .. Len(Stream) /\ j <= k /\ j < k /\ k \in Nat /\ j \in Nat
    BY <1>3, <1>4
  <2>2. /\ msg <= Stream[k].msg
        /\ msg = Stream[k].msg => Stream[k].n = 1 + (k - j)
    BY <1>1, <1>3, <2>1, InOrder
  <2>3. Stream[k].msg \in Nat /\ msg \in Nat
    BY <1>1, <1>3, <2>1, StreamIs
  <2> HIDE DEF msg, j
  <2>4. CASE Stream[k].msg = msg
    <3>1. Stream[k].n > 1
      BY <2>1, <2>2, <2>4
    <3> QED
      BY <1>3, <2>4, <3>1
  <2>5. CASE Stream[k].msg # msg
    BY <2>2, <2>3, <2>5
  <2> QED
    BY <2>4, <2>5
<1> HIDE DEF h, msg, len
<1>10. /\ served' \in Seq(Handled) /\ LastServed' = msg /\ served' # <<>>
       /\ DOMAIN served' = 1 .. Len(served) + 1 /\ Len(served) \in Nat
       /\ DOMAIN served = 1 .. Len(served)
       /\ \A k \in DOMAIN served : served'[k] = served[k]
       /\ served'[Len(served) + 1] = h
       /\ \A i : IsServed(i)' <=> IsServed(i) \/ i = msg
  BY <1>1, <1>6, <1>7, <1>8, HandleIs
<1>11. ServedIsPast' /\ ~IsServed(msg)
  BY <1>1, <1>3, <1>4, <1>5, <1>6, <1>7, <1>8, <1>9, HandledPast
<1>12. StreamIsRest'
  BY <1>1, <1>4, <1>5, RestStays
<1>13. /\ Cardinality(ServedRequests) \in Nat /\ RequestsSent \in Nat /\ replies \in Nat
       /\ Cardinality(ServedRequests \union {msg}) = Cardinality(ServedRequests) + 1
       /\ Cardinality(ServedRequests) + 1 <= RequestsSent
       /\ replies <= Cardinality(ServedRequests)
  <2>1. replies \in Nat /\ replies <= Cardinality(ServedRequests)
    BY <1>1 DEF TypeOK, RequestsInTurn
  <2> QED
    BY <1>1, <1>3, <1>11, <2>1, Counts
<1>14. replies' \in Nat /\ replies' <= Cardinality(ServedRequests) + 1
  BY <1>2, <1>13
<1>15. TypeOK'
  <2>1. /\ next' \in [type : {"none", "frame"}, channel : 0 .. 255, length : Nat]
        /\ next'.type = "none" => next' = NoFrame
        /\ closed' \in BOOLEAN
    BY <1>1, <1>2 DEF TypeOK
  <2>2. replies' \in 0 .. RequestsSent
    BY <1>13, <1>14
  <2>3. Arrival(b, rest)
    OBVIOUS
  <2> QED
    BY <1>1, <1>5, <1>10, <2>1, <2>2, <2>3, ReadType
<1>16. BodyFollows'
  BY <1>1, <1>2 DEF BodyFollows, NoFrame
<1>17. FramesOwn'
  <2> SUFFICES ASSUME NEW k \in DOMAIN served', sent[served'[k].msg].kind = "frame"
               PROVE  /\ served'[k].channel = sent[served'[k].msg].channel
                      /\ served'[k].packets = ParseRTCP(sent[served'[k].msg].body)
    BY <1>1 DEF FramesOwn
  <2>1. k \in DOMAIN served \/ k = Len(served) + 1
    BY <1>10
  <2> QED
    BY <1>1, <1>3, <1>8, <1>10, <2>1 DEF FramesOwn
<1>18. RequestsInTurn'
  <2>1. ServedRequests' = ServedRequests \union {msg}
    BY <1>1, <1>3, <1>10 DEF ServedRequests
  <2> QED
    BY <1>1, <1>10, <1>13, <1>14, <2>1 DEF RequestsInTurn
<1>19. served' = Append(served, h) /\ h \in Handled /\ HasLine(b) /\ buf' = <<>>
       /\ LastServed < msg
  BY <1>2, <1>3, <1>6, <1>7
<1> QED
  BY <1>5, <1>10, <1>11, <1>12, <1>15, <1>16, <1>17, <1>18, <1>19
     DEF Framed, h, msg, len

(* A request that is refused leaves a rest of the stream. *)
LEMMA RefuseKeeps ==
    ASSUME Framed, NEW b, NEW rest, Arrival(b, rest), Refuse(b)
    PROVE  Framed'
<1>1. /\ next.type = "none" /\ next' = next /\ served' = served /\ replies' = replies
      /\ closed' \in BOOLEAN
  BY DEF Refuse, IsRequest
<1>2. TypeOK /\ Arrives(b, rest)
  BY DEF Framed, Arrival
<1>3. DOMAIN b = 1 .. Len(b) /\ Len(b) \in Nat /\ b \in Seq(SymbolType)
  BY <1>2, ArrivesIs DEF Arrives
<1>4. CASE buf' = b
  <2>1. Drop(b, 0) = b /\ 0 \in 0 .. Len(b)
    BY <1>3, SubSeqFull DEF Drop
  <2> QED
    BY <1>1, <1>4, <2>1, WaitKeeps
<1>5. CASE HasLine(b) /\ buf' = Drop(b, Max(Ends(b)))
  <2>1. Ends(b) # {} /\ Ends(b) \in SUBSET Nat /\ \A y \in Ends(b) : y <= Len(b)
    BY <1>3, <1>5 DEF HasLine, Ends
  <2>2. Max(Ends(b)) \in Ends(b)
    BY <1>3, <2>1, GreatestIs
  <2>3. Max(Ends(b)) \in 0 .. Len(b)
    BY <1>3, <2>2 DEF Ends
  <2> QED
    BY <1>1, <1>5, <2>3, WaitKeeps
<1> QED
  BY <1>4, <1>5 DEF Refuse

(* Waiting changes the buffer alone. *)
LEMMA AwaitKeeps ==
    ASSUME Framed, NEW b, NEW rest, Arrival(b, rest), AwaitHead(b) \/ AwaitBody(b)
    PROVE  Framed'
<1>1. /\ buf' = b /\ next' = next /\ served' = served /\ replies' = replies
      /\ closed' = closed
  BY DEF AwaitHead, AwaitBody
<1>2. closed' \in BOOLEAN
  BY <1>1 DEF Framed, TypeOK
<1>3. b \in Seq(SymbolType) /\ Len(b) \in Nat
  BY DEF Arrival, Arrives
<1>4. Drop(b, 0) = b /\ 0 \in 0 .. Len(b)
  BY <1>3, SubSeqFull DEF Drop
<1> QED
  BY <1>1, <1>2, <1>4, WaitKeeps

(* What a client sends is appended: nothing that is on its way changes. *)
LEMMA SendRest ==
    ASSUME TypeOK, StreamIsRest, NEW msg \in Requests \union Frames,
           sent' = Append(sent, msg), buf' = buf,
           wire' = wire \o Symbols(msg, Len(sent) + 1)
    PROVE  StreamIsRest'
<1> DEFINE L == Len(Stream)
           P == Len(Parts(msg))
           last == Len(sent) + 1
<1>1. /\ Len(sent') = last /\ DOMAIN sent' = 1 .. last
      /\ \A i \in DOMAIN sent : sent'[i] = sent[i]
      /\ sent'[last] = msg
      /\ Stream' \in Seq(SymbolType') /\ Len(Stream') = L + P
      /\ \A k \in 1 .. L : Stream'[k] = Stream[k]
      /\ \A n \in 1 .. P : Stream'[L + n] = SymbolOf(msg, last, n)
  BY SendIs
<1>2. L \in Nat /\ P \in Nat /\ P >= 3 /\ DOMAIN Parts(msg) = 1 .. P
  BY StreamIs, MessageParts DEF Message
<1>3. Len(sent) \in Nat /\ DOMAIN sent = 1 .. Len(sent) /\ last \in Nat
      /\ last = Len(sent) + 1
      /\ sent \in Seq(Requests \union Frames)
  BY LenProperties DEF TypeOK
<1>4. DOMAIN Stream' = 1 .. L + P
  <2> DEFINE type == SymbolType'
             st == Stream'
  <2>1. st \in Seq(type) /\ Len(st) = L + P
    BY <1>1
  <2> HIDE DEF type, st
  <2>2. DOMAIN st = 1 .. L + P
    BY <2>1, LenProperties
  <2> QED
    BY <2>2 DEF st
<1> HIDE DEF L, P, last
<1>5. \A k \in 1 .. L + P : k \in 1 .. L \/ \E n \in 1 .. P : k = L + n
  <2> TAKE k \in 1 .. L + P
  <2>1. CASE k <= L
    BY <1>2, <2>1
  <2>2. CASE k > L
    <3>1. k - L \in 1 .. P /\ k = L + (k - L)
      BY <1>2, <2>2
    <3> QED
      BY <3>1
  <2> QED
    BY <1>2, <2>1, <2>2
<1>6. ASSUME NEW k \in 1 .. L
      PROVE  /\ Stream[k].msg \in DOMAIN sent /\ Stream[k].msg \in Nat
             /\ Stream[k].msg < last /\ Stream[k].n \in Nat
  <2>1. Stream[k].msg \in DOMAIN sent /\ Stream[k].msg \in Nat /\ Stream[k].n \in Nat
    BY StreamIs DEF L
  <2> QED
    BY <1>3, <2>1
<1>7. ASSUME NEW k \in 1 .. L + P, NEW s, s = Stream'[k]
      PROVE  /\ s.msg \in DOMAIN sent'
             /\ s.n \in DOMAIN Parts(sent'[s.msg])
             /\ s = SymbolOf(sent'[s.msg], s.msg, s.n)
             /\ \A n \in s.n .. Len(Parts(sent'[s.msg])) :
                  /\ k + n - s.n <= L + P
                  /\ Stream'[k + n - s.n] = SymbolOf(sent'[s.msg], s.msg, n)
             /\ \A i \in s.msg + 1 .. last :
                  \E j \in 1 .. L + P : Stream'[j] = SymbolOf(sent'[i], i, 1)
  <2>1. CASE k \in 1 .. L
    <3> DEFINE i == s.msg
               m == s.n
    <3>1. /\ i \in DOMAIN sent /\ i \in Nat /\ sent[i] \in Message /\ m \in Nat
          /\ m \in 1 .. Len(Parts(sent[i])) /\ s = SymbolOf(sent[i], i, m)
          /\ \A n \in m .. Len(Parts(sent[i])) :
               /\ n \in Nat /\ k + n - m \in 1 .. L
               /\ Stream[k + n - m] = SymbolOf(sent[i], i, n)
      <4>1. s = Stream[k] /\ k \in 1 .. Len(Stream)
        BY <1>1, <1>7, <2>1 DEF L
      <4> QED
        <5>1. /\ i \in DOMAIN sent /\ i \in Nat /\ sent[i] \in Message /\ m \in Nat
              /\ m \in 1 .. Len(Parts(sent[i])) /\ s = Symbol(i, m)
              /\ \A n \in m .. Len(Parts(sent[i])) :
                   /\ n \in Nat /\ k + n - m \in 1 .. L
                   /\ Stream[k + n - m] = Symbol(i, n)
          BY <4>1, SymbolIs DEF L
        <5> QED
          BY <5>1 DEF Symbol
    <3>2. /\ i \in DOMAIN sent' /\ sent'[i] = sent[i]
          /\ m \in DOMAIN Parts(sent[i]) /\ s = SymbolOf(sent[i], i, m)
      BY <1>1, <1>3, <3>1, MessageParts
    <3>3. ASSUME NEW n \in m .. Len(Parts(sent[i]))
          PROVE  k + n - m <= L + P /\ Stream'[k + n - m] = SymbolOf(sent[i], i, n)
      <4>1. /\ n \in Nat /\ k + n - m \in 1 .. L
            /\ Stream[k + n - m] = SymbolOf(sent[i], i, n)
        BY <3>1
      <4>2. k + n - m <= L + P
        BY <1>2, <4>1
      <4> QED
        BY <1>1, <3>1, <4>1, <4>2
    <3>4. ASSUME NEW o \in i + 1 .. last
          PROVE  \E j \in 1 .. L + P : Stream'[j] = SymbolOf(sent'[o], o, 1)
      <4>1. o \in i + 1 .. Len(sent) \/ o = last
        BY <1>3, <3>1 DEF last
      <4>2. ASSUME o \in i + 1 .. Len(sent)
            PROVE  \E j \in 1 .. L + P : Stream'[j] = SymbolOf(sent'[o], o, 1)
        <5>1. s = Stream[k] /\ k \in DOMAIN Stream /\ DOMAIN Stream = 1 .. L
          BY <1>1, <1>7, <2>1, StreamIs DEF L
        <5>2. PICK j \in 1 .. L : Stream[j] = SymbolOf(sent[o], o, 1)
          BY <4>2, <5>1 DEF StreamIsRest, Symbol
        <5>3. o \in DOMAIN sent
          BY <1>3, <3>1, <4>2
        <5>4. Stream'[j] = SymbolOf(sent'[o], o, 1) /\ j \in 1 .. L + P
          BY <1>1, <1>2, <5>2, <5>3
        <5> QED
          BY <5>4
      <4>3. CASE o = last
        <5>1. SymbolOf(sent'[o], o, 1) = SymbolOf(msg, last, 1)
          BY <1>1, <4>3
        <5>2. 1 \in 1 .. P /\ L + 1 \in 1 .. L + P
          BY <1>2
        <5> QED
          BY <1>1, <5>1, <5>2
      <4> QED
        BY <4>1, <4>2, <4>3
    <3> QED
      BY <3>2, <3>3, <3>4
  <2>2. ASSUME NEW m \in 1 .. P, k = L + m
        PROVE  /\ s.msg = last /\ s.n = m
               /\ \A n \in m .. P :
                    k + n - m <= L + P /\ Stream'[k + n - m] = SymbolOf(msg, last, n)
    <3>1. s = SymbolOf(msg, last, m)
      BY <1>1, <1>7, <2>2
    <3>2. ASSUME NEW n \in m .. P
          PROVE  k + n - m <= L + P /\ Stream'[k + n - m] = SymbolOf(msg, last, n)
      <4>1. k + n - m = L + n /\ n \in 1 .. P /\ L + n <= L + P
        BY <1>2, <2>2
      <4> QED
        BY <1>1, <4>1
    <3> QED
      BY <3>1, <3>2 DEF SymbolOf
  <2>3. ASSUME NEW m \in 1 .. P, k = L + m
        PROVE  /\ s = SymbolOf(msg, last, m) /\ s.msg = last /\ s.n = m
               /\ last \in DOMAIN sent' /\ m \in DOMAIN Parts(msg)
               /\ last + 1 .. last = {}
    <3>1. s = SymbolOf(msg, last, m)
      BY <1>1, <1>7, <2>3
    <3>2. s.msg = last /\ s.n = m
      BY <3>1 DEF SymbolOf
    <3>3. last \in DOMAIN sent' /\ last + 1 .. last = {}
      BY <1>1, <1>3
    <3> QED
      BY <1>2, <3>1, <3>2, <3>3
  <2>4. ASSUME NEW m \in 1 .. P, k = L + m
        PROVE  /\ s.msg \in DOMAIN sent'
               /\ s.n \in DOMAIN Parts(sent'[s.msg])
               /\ s = SymbolOf(sent'[s.msg], s.msg, s.n)
               /\ \A n \in s.n .. Len(Parts(sent'[s.msg])) :
                    /\ k + n - s.n <= L + P
                    /\ Stream'[k + n - s.n] = SymbolOf(sent'[s.msg], s.msg, n)
               /\ s.msg + 1 .. last = {}
    <3>1. sent'[s.msg] = msg /\ s.msg = last /\ s.n = m
      BY <1>1, <2>3, <2>4
    <3>2. \A n \in m .. P :
            k + n - m <= L + P /\ Stream'[k + n - m] = SymbolOf(msg, last, n)
      BY <2>2, <2>4
    <3>3. s = SymbolOf(msg, last, m) /\ last \in DOMAIN sent' /\ m \in DOMAIN Parts(msg)
          /\ last + 1 .. last = {}
      BY <2>3, <2>4
    <3> QED
      BY <3>1, <3>2, <3>3 DEF P
  <2> QED
    BY <1>5, <2>1, <2>4
<1>8. ASSUME NEW j \in 1 .. L + P, NEW k \in 1 .. L + P, j < k
      PROVE  Before(Stream'[j], Stream'[k])
  <2>1. CASE j \in 1 .. L /\ k \in 1 .. L
    <3>1. Stream'[j] = Stream[j] /\ Stream'[k] = Stream[k] /\ DOMAIN Stream = 1 .. L
      BY <1>1, <2>1, StreamIs DEF L
    <3> QED
      BY <1>8, <2>1, <3>1 DEF StreamIsRest
  <2>2. ASSUME NEW n \in 1 .. P, k = L + n
        PROVE  Before(Stream'[j], Stream'[k])
    <3>1. Stream'[k].msg = last /\ Stream'[k].n = n
      <4>1. Stream'[k] = SymbolOf(msg, last, n)
        BY <1>1, <2>2
      <4> QED
        BY <4>1 DEF SymbolOf
    <3>2. CASE j \in 1 .. L
      BY <1>1, <1>6, <3>1, <3>2 DEF Before
    <3>3. ASSUME NEW m \in 1 .. P, j = L + m PROVE Before(Stream'[j], Stream'[k])
      <4>1. Stream'[j].msg = last /\ Stream'[j].n = m
        <5>1. Stream'[j] = SymbolOf(msg, last, m)
          BY <1>1, <3>3
        <5> QED
          BY <5>1 DEF SymbolOf
      <4>2. m < n
        BY <1>2, <1>8, <2>2, <3>3
      <4> QED
        BY <3>1, <4>1, <4>2 DEF Before
    <3> QED
      BY <1>5, <3>2, <3>3
  <2>3. ~(k \in 1 .. L /\ ~(j \in 1 .. L))
    BY <1>2, <1>8
  <2> QED
    BY <1>5, <2>1, <2>2, <2>3
<1>9. Len(Stream') = L + P /\ Len(sent') = last
  BY <1>1 DEF L, P, last
<1>10. ASSUME NEW k \in 1 .. L + P
       PROVE  LET s == Stream'[k]
              IN /\ s.msg \in DOMAIN sent'
                 /\ s.n \in DOMAIN Parts(sent'[s.msg])
                 /\ s = SymbolOf(sent'[s.msg], s.msg, s.n)
                 /\ \A n \in s.n .. Len(Parts(sent'[s.msg])) :
                      /\ k + n - s.n <= L + P
                      /\ Stream'[k + n - s.n] = SymbolOf(sent'[s.msg], s.msg, n)
                 /\ \A i \in s.msg + 1 .. last :
                      \E j \in 1 .. L + P : Stream'[j] = SymbolOf(sent'[i], i, 1)
  BY <1>7
<1> QED
  BY <1>4, <1>8, <1>9, <1>10, ZenonT(60) DEF StreamIsRest, Symbol, Before

(* What the client sends, as a step of the specification. *)
Sends(msg) ==
    /\ msg \in Requests \union Frames
    /\ msg.kind = "request" /\ lockstep => RequestsSent = replies
    /\ sent' = Append(sent, msg)
    /\ wire' = wire \o Symbols(msg, Len(sent) + 1)
    /\ UNCHANGED <<lockstep, delivery, buf, next, served, replies, closed>>

(* A client that waits sends its next request when all others are served. *)
LEMMA SendKeeps ==
    ASSUME Framed, NEW msg, Sends(msg)
    PROVE  Framed' /\ (\A i : IsServed(i)' <=> IsServed(i)) /\ LastServed' = LastServed
<1> DEFINE last == Len(sent) + 1
           L == Len(Stream)
           P == Len(Parts(msg))
<1>1. /\ TypeOK /\ StreamIsRest /\ ServedIsPast /\ BodyFollows /\ FramesOwn
      /\ RequestsInTurn
  BY DEF Framed
<1>2. /\ msg \in Requests \union Frames /\ sent' = Append(sent, msg) /\ buf' = buf
      /\ wire' = wire \o Symbols(msg, Len(sent) + 1)
      /\ lockstep' = lockstep /\ delivery' = delivery /\ next' = next
      /\ served' = served /\ replies' = replies /\ closed' = closed
      /\ msg.kind = "request" /\ lockstep => RequestsSent = replies
  BY DEF Sends
<1>3. /\ sent' \in Seq(Requests \union Frames)
      /\ DOMAIN sent' = 1 .. last
      /\ \A i \in DOMAIN sent : sent'[i] = sent[i]
      /\ sent'[last] = msg
      /\ wire' \in Seq(SymbolType') /\ buf' \in Seq(SymbolType')
      /\ Stream' \in Seq(SymbolType')
      /\ Len(Stream') = L + P
      /\ \A k \in 1 .. L : Stream'[k] = Stream[k]
      /\ \A n \in 1 .. P : Stream'[L + n] = SymbolOf(msg, last, n)
  BY <1>1, <1>2, SendIs
<1>4. /\ L \in Nat /\ P \in Nat /\ P >= 3 /\ msg.kind \in {"request", "frame"}
      /\ DOMAIN Stream = 1 .. L
  BY <1>1, <1>2, StreamIs, MessageParts DEF Message
<1>5. Len(sent) \in Nat /\ DOMAIN sent = 1 .. Len(sent) /\ last \in Nat
      /\ last = Len(sent) + 1
  BY <1>1, LenProperties DEF TypeOK
<1>6. DOMAIN Stream' = 1 .. L + P /\ Stream' # <<>>
  <2> DEFINE type == SymbolType'
             st == Stream'
  <2>1. st \in Seq(type) /\ Len(st) = L + P
    BY <1>3
  <2> HIDE DEF type, st, L, P
  <2>2. DOMAIN st = 1 .. L + P /\ st # <<>>
    BY <1>4, <2>1, LenProperties, EmptySeq
  <2> QED
    BY <2>2 DEF st
<1> HIDE DEF last, L, P
<1>7. DOMAIN sent \subseteq DOMAIN sent' /\ DOMAIN sent' = DOMAIN sent \union {last}
      /\ last \notin DOMAIN sent
  BY <1>3, <1>5
<1>8. LastServed' = LastServed /\ \A i : IsServed(i)' <=> IsServed(i)
  BY <1>2 DEF LastServed, IsServed
<1>9. /\ LastServed \in Nat /\ LastServed < last
      /\ \A k \in DOMAIN served : served[k].msg \in DOMAIN sent /\ served[k] \in Handled
      /\ served \in Seq(Handled)
  <2>1. /\ LastServed \in Nat /\ DOMAIN served = 1 .. Len(served) /\ Len(served) \in Nat
        /\ \A k \in DOMAIN served : /\ served[k].msg \in DOMAIN sent
                                    /\ served[k] \in Handled
    BY <1>1, LastServedIs
  <2>2. served \in Seq(Handled)
    BY <1>1 DEF TypeOK
  <2>3. LastServed = 0 \/ LastServed \in DOMAIN sent
    <3>1. served # <<>> => Len(served) \in DOMAIN served
      BY <2>1, <2>2, EmptySeq
    <3> QED
      BY <2>1, <3>1 DEF LastServed
  <2> QED
    BY <1>5, <2>1, <2>2, <2>3
<1>10. StreamIsRest'
  BY <1>1, <1>2, SendRest
<1>11. ServedIsPast'
  <2>1. \A k \in DOMAIN served' : served'[k].msg <= LastServed'
    BY <1>1, <1>2, <1>8 DEF ServedIsPast
  <2>2. ASSUME NEW k \in 1 .. L + P
        PROVE  \/ Stream'[k].msg > LastServed'
               \/ /\ Stream'[k].msg = LastServed' /\ Stream'[k].n > 1
                  /\ sent'[Stream'[k].msg].kind = "request"
    <3>1. CASE k \in 1 .. L
      <4>1. k \in DOMAIN Stream /\ Stream'[k] = Stream[k] /\ Stream[k].msg \in DOMAIN sent
        BY <1>1, <1>3, <1>4, <3>1, StreamIs
      <4> QED
        BY <1>1, <1>3, <1>8, <4>1 DEF ServedIsPast
    <3>2. CASE ~(k \in 1 .. L)
      <4>1. k - L \in 1 .. P /\ L + (k - L) = k
        BY <1>4, <3>2
      <4>2. Stream'[k] = SymbolOf(msg, last, k - L)
        BY <1>3, <4>1
      <4>3. Stream'[k].msg = last
        BY <4>2 DEF SymbolOf
      <4> QED
        BY <1>5, <1>8, <1>9, <4>3
    <3> QED
      BY <3>1, <3>2
  <2> QED
    BY <1>6, <2>1, <2>2 DEF ServedIsPast
<1>12. BodyFollows'
  <2>1. CASE next.type = "frame"
    <3>1. Stream # <<>>
      BY <1>1, <2>1 DEF BodyFollows
    <3>2. 1 \in 1 .. L
      BY <1>1, <1>4, <3>1, StreamIs, EmptySeq DEF L
    <3>3. Stream'[1] = Stream[1] /\ Stream[1].msg \in DOMAIN sent
      BY <1>1, <1>3, <3>2, StreamIs DEF L
    <3> QED
      BY <1>1, <1>2, <1>3, <1>6, <2>1, <3>3 DEF BodyFollows
  <2>2. CASE next.type # "frame"
    BY <1>1, <1>2, <2>2 DEF BodyFollows, NoFrame
  <2> QED
    BY <2>1, <2>2
<1>13. FramesOwn'
  BY <1>1, <1>2, <1>3, <1>9 DEF FramesOwn
<1>14. ServedRequests' = ServedRequests
  <2>1. ~IsServed(last)
    BY <1>7, <1>9 DEF IsServed
  <2> QED
    BY <1>3, <1>7, <1>8, <2>1 DEF ServedRequests
<1>15. /\ replies \in Nat /\ replies <= Cardinality(ServedRequests)
       /\ Cardinality(ServedRequests) \in Nat /\ RequestsSent \in Nat
       /\ Cardinality(ServedRequests) <= RequestsSent
       /\ Cardinality(ServedRequests) = RequestsSent =>
            \A i \in DOMAIN sent : sent[i].kind = "request" => IsServed(i)
  BY <1>1, Counts DEF TypeOK, RequestsInTurn
<1>16. RequestsInTurn'
  <2>1. ASSUME lockstep, NEW i \in DOMAIN sent', NEW j \in DOMAIN sent', i < j,
               sent'[i].kind = "request", sent'[j].kind = "request"
        PROVE  IsServed(i)
    <3>1. i \in DOMAIN sent /\ sent'[i] = sent[i]
      BY <1>3, <1>5, <1>7, <2>1
    <3>2. CASE j \in DOMAIN sent
      BY <1>1, <1>3, <2>1, <3>1, <3>2 DEF RequestsInTurn
    <3>3. CASE j = last
      <4>1. RequestsSent = replies
        BY <1>2, <1>3, <2>1, <3>3
      <4> QED
        BY <1>15, <2>1, <3>1, <4>1
    <3> QED
      BY <1>7, <3>2, <3>3
  <2> QED
    BY <1>2, <1>8, <1>14, <1>15, <2>1 DEF RequestsInTurn
<1>17. TypeOK'
  <2>1. RequestsSent <= RequestsSent' /\ RequestsSent' \in Nat
    <3> DEFINE R == {i \in DOMAIN sent : sent[i].kind = "request"}
               R2 == {i \in DOMAIN sent' : sent'[i].kind = "request"}
    <3>1. IsFiniteSet(DOMAIN sent')
      BY <1>3, <1>5, FS_Interval
    <3>2. R \in SUBSET R2 /\ R2 \in SUBSET DOMAIN sent'
      BY <1>3, <1>7
    <3> HIDE DEF R, R2
    <3>3. IsFiniteSet(R2) /\ Cardinality(R2) \in Nat /\ Cardinality(R) <= Cardinality(R2)
      BY <3>1, <3>2, FS_Subset, FS_CardinalityType
    <3>4. RequestsSent = Cardinality(R) /\ RequestsSent' = Cardinality(R2)
      BY DEF RequestsSent, R, R2
    <3> QED
      BY <3>3, <3>4
  <2>2. replies' \in 0 .. RequestsSent'
    BY <1>2, <1>15, <2>1
  <2>3. served' \in Seq(Handled')
    <3>1. Handled \subseteq Handled'
      BY <1>7 DEF Handled
    <3> QED
      BY <1>2, <1>9, <3>1, SeqMonotonic
  <2>4. /\ lockstep' \in BOOLEAN /\ delivery' \in {"any", "messages", "halves"}
        /\ next' \in [type : {"none", "frame"}, channel : 0 .. 255, length : Nat]
        /\ next'.type = "none" => next' = NoFrame'
        /\ closed' \in BOOLEAN
    BY <1>1, <1>2 DEF TypeOK, NoFrame
  <2> QED
    BY <1>3, <2>2, <2>3, <2>4 DEF TypeOK
<1> QED
  BY <1>8, <1>10, <1>11, <1>12, <1>13, <1>16, <1>17 DEF Framed
-----------------------------------------------------------------------------
(* Every step keeps what was framed. *)

(* How far a read event reaches, for each delivery. *)
LEMMA ArrivingIs ==
    ASSUME TypeOK, wire # <<>>, NEW n \in Arriving
    PROVE  /\ n \in DOMAIN wire
           /\ delivery = "messages" =>
                /\ wire[n].msg = wire[1].msg
                /\ \A k \in DOMAIN wire : wire[k].msg = wire[1].msg => k <= n
           /\ delivery = "halves" =>
                /\ wire[n].msg = wire[1].msg
                /\ wire[n].part = "word" <=> wire[1].part = "word"
                /\ \A k \in DOMAIN wire :
                     /\ wire[k].msg = wire[1].msg
                     /\ wire[k].part = "word" <=> wire[1].part = "word"
                     => k <= n
<1> DEFINE same == {k \in DOMAIN wire : wire[k].msg = wire[1].msg}
           half == {k \in DOMAIN wire : /\ wire[k].msg = wire[1].msg
                                        /\ (wire[k].part = "word") = (wire[1].part = "word")}
<1>1. wire \in Seq(SymbolType) /\ delivery \in {"any", "messages", "halves"}
  BY DEF TypeOK
<1>2. DOMAIN wire = 1 .. Len(wire) /\ Len(wire) \in Nat /\ 1 \in DOMAIN wire
  BY <1>1, LenProperties, EmptySeq
<1>3. \A S \in SUBSET DOMAIN wire :
        1 \in S => Max(S) \in S /\ \A y \in S : y <= Max(S)
  <2> TAKE S \in SUBSET DOMAIN wire
  <2> HAVE 1 \in S
  <2>1. S \in SUBSET Nat /\ S # {} /\ \A y \in S : y <= Len(wire)
    BY <1>2
  <2> QED
    BY <1>2, <2>1, GreatestIs
<1>4. CASE delivery = "any"
  BY <1>4 DEF Arriving
<1>5. CASE delivery = "messages"
  <2>1. n = Max(same)
    BY <1>5 DEF Arriving
  <2>2. n \in same /\ \A y \in same : y <= n
    BY <1>2, <1>3, <2>1
  <2> QED
    BY <1>5, <2>2
<1>6. CASE delivery = "halves"
  <2>1. n = Max(half)
    BY <1>6 DEF Arriving
  <2>2. n \in half /\ \A y \in half : y <= n
    BY <1>2, <1>3, <2>1
  <2> QED
    BY <1>6, <2>2
<1> QED
  BY <1>1, <1>4, <1>5, <1>6

(* Each branch of OnMessage keeps what is known of the stream. *)
LEMMA FramedRead ==
    ASSUME Framed, NEW b, NEW rest, Arrival(b, rest), OnMessage(b)
    PROVE  Framed'
<1>1. CASE AwaitHead(b) \/ AwaitBody(b)
  BY <1>1, AwaitKeeps
<1>2. CASE FrameHead(b)
  BY <1>2, FrameHeadKeeps
<1>3. CASE FrameBody(b)
  BY <1>3, FrameBodyKeeps
<1>4. CASE Refuse(b)
  BY <1>4, RefuseKeeps
<1>5. CASE Serve(b)
  BY <1>5, ServeKeeps
<1> QED
  BY <1>1, <1>2, <1>3, <1>4, <1>5 DEF OnMessage

(* A read event takes n symbols off the wire. *)
Takes(n) ==
    /\ wire # <<>> /\ n \in Arriving
    /\ OnMessage(buf \o SubSeq(wire, 1, n))
    /\ wire' = Drop(wire, n)
    /\ UNCHANGED <<lockstep, delivery, sent>>

(* What arrives is what OnMessage is called with. *)
LEMMA TakesIs ==
    ASSUME TypeOK, NEW n, Takes(n)
    PROVE  /\ n \in DOMAIN wire
           /\ Arrival(buf \o SubSeq(wire, 1, n), Drop(wire, n))
           /\ OnMessage(buf \o SubSeq(wire, 1, n))
<1>1. n \in DOMAIN wire
  BY ArrivingIs DEF Takes
<1>2. Arrives(buf \o SubSeq(wire, 1, n), Drop(wire, n))
  BY <1>1, ReadIs
<1> QED
  BY <1>1, <1>2 DEF Takes, Arrival

(* A step sends a message or takes symbols off the wire. *)
LEMMA NextIs ==
    ASSUME Next
    PROVE  (\E msg \in Requests \union Frames : Sends(msg)) \/ (\E n : Takes(n))
<1>1. ASSUME Send PROVE \E msg \in Requests \union Frames : Sends(msg)
  BY <1>1 DEF Send, Sends
<1>2. ASSUME Read PROVE \E n : Takes(n)
  BY <1>2 DEF Read, Takes
<1> QED
  BY <1>1, <1>2 DEF Next

(* Nothing is sent in the beginning. *)
LEMMA FramedInit == Init => Framed
<1> SUFFICES ASSUME Init PROVE Framed
  OBVIOUS
<1>1. /\ lockstep \in BOOLEAN /\ delivery \in {"any", "messages", "halves"}
      /\ sent = <<>> /\ wire = <<>> /\ buf = <<>> /\ next = NoFrame
      /\ served = <<>> /\ replies = 0 /\ closed = FALSE
  BY DEF Init
<1>2. DOMAIN sent = {} /\ DOMAIN served = {} /\ Stream = <<>> /\ DOMAIN Stream = {}
  <2>1. Stream = <<>>
    <3>1. <<>> \in Seq({}) /\ <<>> \o <<>> = <<>>
      BY EmptySeq, ConcatEmptySeq
    <3> QED
      BY <1>1, <3>1 DEF Stream
  <2>2. DOMAIN <<>> = {}
    OBVIOUS
  <2> QED
    BY <1>1, <2>1, <2>2
<1>3. /\ sent \in Seq(Requests \union Frames) /\ wire \in Seq(SymbolType)
      /\ buf \in Seq(SymbolType) /\ served \in Seq(Handled)
  BY <1>1, EmptySeq
<1>4. RequestsSent = 0 /\ ServedRequests = {}
  <2>1. {i \in DOMAIN sent : sent[i].kind = "request"} = {}
    BY <1>2
  <2>2. ServedRequests = {}
    BY <1>2 DEF ServedRequests
  <2> QED
    BY <2>1, <2>2, FS_EmptySet DEF RequestsSent
<1>5. TypeOK
  <2>1. replies \in 0 .. RequestsSent
    BY <1>1, <1>4
  <2>2. /\ next \in [type : {"none", "frame"}, channel : 0 .. 255, length : Nat]
        /\ next.type = "none" => next = NoFrame
    BY <1>1 DEF NoFrame
  <2> QED
    BY <1>1, <1>3, <2>1, <2>2 DEF TypeOK
<1>6. StreamIsRest /\ ServedIsPast /\ BodyFollows /\ FramesOwn
  BY <1>1, <1>2 DEF StreamIsRest, ServedIsPast, BodyFollows, FramesOwn, NoFrame
<1>7. RequestsInTurn
  BY <1>1, <1>2, <1>4, FS_EmptySet DEF RequestsInTurn
<1> QED
  BY <1>5, <1>6, <1>7 DEF Framed
-----------------------------------------------------------------------------
(* Messages that arrive whole *)

(* Where a message ends, the next one begins. *)
LEMMA NextMessage ==
    ASSUME TypeOK, StreamIsRest, NEW k \in 1 .. Len(Stream), k + 1 \in 1 .. Len(Stream),
           Stream[k + 1].msg # Stream[k].msg
    PROVE  Stream[k + 1].n = 1 /\ Stream[k + 1].msg = Stream[k].msg + 1
<1> DEFINE i == Stream[k].msg
           j == Stream[k + 1].msg
<1>1. /\ Len(Stream) \in Nat /\ DOMAIN Stream = 1 .. Len(Stream) /\ k \in Nat
      /\ i \in Nat /\ j \in Nat /\ j \in DOMAIN sent
      /\ Stream[k + 1].n \in Nat \ {0}
  BY StreamIs
<1>2. j <= Len(sent) /\ Len(sent) \in Nat
  BY <1>1, SentIs
<1>3. i < j
  <2>1. i <= j
    BY <1>1, InOrder
  <2> QED
    BY <1>1, <2>1
<1>4. ASSUME NEW o \in i + 1 .. Len(sent)
      PROVE  \E q \in 1 .. Len(Stream) : Stream[q] = Symbol(o, 1) /\ k + 1 <= q
  <2>1. PICK q \in 1 .. Len(Stream) : Stream[q] = Symbol(o, 1)
    BY <1>1 DEF StreamIsRest
  <2>2. Stream[q].msg = o /\ o > i /\ q \in Nat
    BY <1>1, <1>2, <2>1 DEF Symbol, SymbolOf
  <2>3. ASSUME q <= k PROVE FALSE
    <3>1. Stream[q].msg <= i
      BY <2>3, InOrder
    <3> QED
      BY <1>1, <1>2, <2>2, <3>1
  <2> QED
    BY <1>1, <2>1, <2>2, <2>3
<1>5. j = i + 1
  <2>1. i + 1 \in i + 1 .. Len(sent)
    BY <1>1, <1>2, <1>3
  <2>2. PICK q \in 1 .. Len(Stream) : Stream[q] = Symbol(i + 1, 1) /\ k + 1 <= q
    BY <1>4, <2>1
  <2>3. j <= Stream[q].msg /\ Stream[q].msg = i + 1
    BY <2>2, InOrder DEF Symbol, SymbolOf
  <2> QED
    BY <1>1, <1>3, <2>3
<1>6. Stream[k + 1].n = 1
  <2>1. j \in i + 1 .. Len(sent)
    BY <1>1, <1>2, <1>3
  <2>2. PICK q \in 1 .. Len(Stream) : Stream[q] = Symbol(j, 1) /\ k + 1 <= q
    BY <1>4, <2>1
  <2>3. Stream[q].msg = j /\ Stream[q].n = 1
    BY <2>2 DEF Symbol, SymbolOf
  <2>4. 1 = Stream[k + 1].n + (q - (k + 1))
    BY <2>2, <2>3, InOrder
  <2> QED
    BY <1>1, <2>2, <2>4
<1> QED
  BY <1>5, <1>6

(* The buffer ends where a message does. *)
Whole(b) == Len(b) < Len(Stream) => Stream[Len(b) + 1].n = 1

(* Then what began in it is there up to its end. *)
LEMMA WholeIs ==
    ASSUME TypeOK, StreamIsRest, NEW b, NEW rest, Arrives(b, rest), Whole(b),
           NEW p \in 1 .. Len(b), NEW m \in Nat, Stream[p].n = m,
           NEW i, Stream[p].msg = i
    PROVE  p + Len(Parts(sent[i])) - m <= Len(b)
<1>1. /\ Len(b) \in Nat /\ Len(Stream) \in Nat /\ Len(b) <= Len(Stream)
      /\ p \in 1 .. Len(Stream) /\ p \in Nat /\ p <= Len(b)
  BY ArrivesIs
<1> DEFINE len == Len(Parts(sent[i]))
           e == p + len - m
<1>2. /\ len \in Nat /\ m \in 1 .. len
      /\ \A n \in m .. len : p + n - m \in 1 .. Len(Stream) /\ Stream[p + n - m] = Symbol(i, n)
  <2> DEFINE j == Stream[p].msg
             o == Stream[p].n
  <2>1. /\ Len(Parts(sent[j])) \in Nat /\ o \in 1 .. Len(Parts(sent[j]))
        /\ \A n \in o .. Len(Parts(sent[j])) :
             p + n - o \in 1 .. Len(Stream) /\ Stream[p + n - o] = Symbol(j, n)
    <3>1. p \in 1 .. Len(Stream)
      BY <1>1
    <3> QED
      BY <3>1, SymbolIs
  <2>2. j = i /\ o = m
    OBVIOUS
  <2> HIDE DEF j, o
  <2> QED
    BY <2>1, <2>2
<1>3. len \in m .. len /\ e >= p /\ e \in Nat
  BY <1>1, <1>2
<1>4. e \in 1 .. Len(Stream) /\ Stream[e] = Symbol(i, len)
  BY <1>2, <1>3
<1>5. Stream[e].msg = i
  BY <1>4 DEF Symbol, SymbolOf
<1>6. ASSUME Len(b) < e PROVE FALSE
  <2> DEFINE f == Len(b) + 1
  <2>1. f \in 1 .. Len(Stream) /\ p <= f /\ f <= e /\ Len(b) < Len(Stream)
    BY <1>1, <1>4, <1>6
  <2>2. Stream[f].n = 1
    BY <2>1 DEF Whole
  <2>3. i <= Stream[f].msg /\ Stream[f].msg <= i
        /\ (i = Stream[f].msg => Stream[f].n = m + (f - p))
    BY <1>1, <1>4, <1>5, <2>1, InOrder
  <2>4. Stream[f].msg \in Nat /\ i \in Nat
    BY <1>1, <2>1, StreamIs
  <2>5. 1 = m + (f - p)
    BY <2>2, <2>3, <2>4
  <2> QED
    BY <1>1, <1>2, <2>5
<1> QED
  BY <1>1, <1>3, <1>6

(* A body that arrived whole is there up to its end. *)
LEMMA WholeBody ==
    ASSUME Framed, NEW b, NEW rest, Arrives(b, rest), Whole(b), next.type = "frame"
    PROVE  HasBody(b)
<1>1. /\ First \in DOMAIN sent /\ sent[First] \in Message /\ sent[First].kind = "frame"
      /\ Stream[1].n = 3 /\ next.length = Len(sent[First].body)
      /\ next.length \in Nat \ {0}
  BY BodyIs
<1>2. Len(Parts(sent[First])) = next.length + 2
  BY <1>1, FrameParts
<1>3. 1 \in 1 .. Len(b) /\ Len(b) \in Nat
  BY ArrivesIs DEF Framed
<1>4. 1 + Len(Parts(sent[First])) - 3 <= Len(b)
  BY <1>1, <1>3, WholeIs DEF First, Framed
<1>5. next.length <= Len(b)
  BY <1>1, <1>2, <1>4
<1> QED
  BY <1>1, <1>3, <1>5 DEF HasBody

(* A frame that arrived whole has a head. *)
LEMMA WholeFrame ==
    ASSUME Framed, NEW b, NEW rest, Arrives(b, rest), Whole(b), Starts(b, "magic")
    PROVE  Len(b) >= 2
<1>1. First \in DOMAIN sent /\ sent[First] \in Message /\ Stream[1].n = 1
  BY HeadIs
<1>2. Len(Parts(sent[First])) >= 3 /\ Len(Parts(sent[First])) \in Nat
  BY <1>1, MessageParts
<1>3. 1 \in 1 .. Len(b) /\ Len(b) \in Nat
  BY ArrivesIs DEF Framed
<1>4. 1 + Len(Parts(sent[First])) - 1 <= Len(b)
  BY <1>1, <1>3, WholeIs DEF First, Framed
<1> QED
  BY <1>2, <1>3, <1>4

(* A request that arrived whole is found, with its CSeq and its header. *)
LEMMA RequestWhole ==
    ASSUME Framed, NEW b, NEW rest, Arrives(b, rest), IsRequest(b), Whole(b),
           Stream[1].n = 1
    PROVE  /\ First \in DOMAIN sent /\ sent[First].kind = "request"
           /\ HasLine(b) /\ LineOf(b) = 1
           /\ Lines(Behind(b), "cseq") # {}
           /\ Header(Behind(b), sent[First].method) # 0
<1> DEFINE msg == sent[First]
           q == Behind(b)
<1>1. /\ TypeOK /\ StreamIsRest
      /\ Len(b) \in Nat \ {0} /\ b # <<>> /\ DOMAIN b = 1 .. Len(b)
      /\ 1 \in 1 .. Len(Stream) /\ 1 \in 1 .. Len(b)
      /\ \A k \in DOMAIN b : b[k] = Stream[k]
  BY ArrivesIs DEF Framed
<1>2. /\ First \in DOMAIN sent /\ msg \in Message /\ Len(Parts(msg)) \in Nat
      /\ Stream[1].part = Parts(msg)[1] /\ 1 \in DOMAIN Parts(msg)
      /\ \A n \in 1 .. Len(Parts(msg)) : Stream[1 + n - 1] = Symbol(First, n)
  <2> DEFINE i == Stream[1].msg
             m == Stream[1].n
  <2>1. /\ i \in DOMAIN sent /\ sent[i] \in Message /\ m \in 1 .. Len(Parts(sent[i]))
        /\ Len(Parts(sent[i])) \in Nat /\ Stream[1].part = Parts(sent[i])[m]
        /\ \A n \in m .. Len(Parts(sent[i])) : Stream[1 + n - m] = Symbol(i, n)
    BY <1>1, SymbolIs
  <2>2. DOMAIN Parts(sent[i]) = 1 .. Len(Parts(sent[i]))
    BY <2>1, MessageParts
  <2>3. m = 1 /\ i = First
    BY DEF First
  <2> HIDE DEF i, m
  <2> QED
    BY <2>1, <2>2, <2>3
<1>3. msg.kind = "request"
  <2>1. b[1].part # "magic"
    BY <1>1 DEF IsRequest, Starts
  <2>2. msg.kind = "frame" => Parts(msg)[1] = "magic"
    BY <1>1, <1>2, PlaceOf
  <2> QED
    BY <1>1, <1>2, <2>1, <2>2, MessageParts
<1>4. /\ msg.early \in BOOLEAN /\ Len(Parts(msg)) = 7
      /\ Parts(msg)[1] = "line" /\ Parts(msg)[2] = "crlf"
      /\ Parts(msg)[4] = "crlf" /\ Parts(msg)[6] = "crlf"
      /\ Parts(msg)[IF msg.early THEN 3 ELSE 5] = "header"
      /\ Parts(msg)[IF msg.early THEN 5 ELSE 3] = "cseq"
  BY <1>2, <1>3, RequestParts
<1>5. Len(b) >= 7
  <2>1. 1 + Len(Parts(sent[First])) - 1 <= Len(b)
    BY <1>1, WholeIs DEF First
  <2> QED
    BY <1>1, <1>4, <2>1
<1>6. ASSUME NEW n \in 1 .. 7
      PROVE  Stream[n].part = Parts(msg)[n] /\ Stream[n].msg = First /\ n \in DOMAIN b
  <2>1. n \in 1 .. Len(Parts(msg)) /\ 1 + n - 1 = n /\ n \in 1 .. Len(b)
    BY <1>1, <1>4, <1>5
  <2>2. Stream[n] = Symbol(First, n)
    BY <1>2, <2>1
  <2> QED
    BY <1>1, <2>1, <2>2 DEF Symbol, SymbolOf
<1> HIDE DEF msg, q
<1>7. 1 \in 1 .. 7 /\ 2 \in 1 .. 7 /\ 4 \in 1 .. 7 /\ 6 \in 1 .. 7
  OBVIOUS
<1>8. b[1].part = "line" /\ b[2].part = "crlf" /\ 2 \in Ends(b)
  BY <1>1, <1>4, <1>6, <1>7 DEF Ends
<1>9. HasLine(b)
  <2>1. 1 .. 1 - 1 = {}
    OBVIOUS
  <2> QED
    BY <1>1, <1>8, <2>1 DEF HasLine
<1>10. LineOf(b) = 1
  <2>1. /\ LineOf(b) \in DOMAIN b /\ LineOf(b) \in Nat
        /\ \A k \in DOMAIN b : k < LineOf(b) => b[k].part = "crlf"
    BY <1>9, LineIs
  <2>2. ~(1 < LineOf(b))
    BY <1>1, <1>8, <2>1
  <2> QED
    BY <1>1, <2>1, <2>2
<1>11. /\ q \in Seq(SymbolType) /\ DOMAIN q = 1 .. Len(b) - 2
       /\ \A k \in 1 .. Len(b) - 2 : q[k] = Stream[k + 2]
  <2> DEFINE e == Min(Ends(b))
  <2>1. /\ e \in Nat /\ e \in DOMAIN b /\ b[e].part = "crlf" /\ e <= 2
        /\ q \in Seq(SymbolType) /\ DOMAIN q = 1 .. Len(b) - e
        /\ \A k \in 1 .. Len(b) - e : q[k] = Stream[k + e]
    BY <1>1, <1>8, BehindIs DEF q
  <2> HIDE DEF e
  <2>2. e # 1
    BY <1>8, <2>1
  <2>3. e = 2
    BY <1>1, <2>1, <2>2
  <2> QED
    BY <2>1, <2>3
<1>12. /\ \A k \in 1 .. 5 : k \in DOMAIN q /\ q[k] = Stream[k + 2] /\ k + 2 \in 1 .. 7
  BY <1>1, <1>5, <1>11
<1>13. /\ q[2].part = "crlf" /\ q[4].part = "crlf"
       /\ q[IF msg.early THEN 1 ELSE 3].part = "header"
       /\ q[IF msg.early THEN 3 ELSE 1].part = "cseq"
       /\ q[1].msg = First /\ q[3].msg = First
       /\ 1 \in DOMAIN q /\ 3 \in DOMAIN q
  <2>1. /\ q[1] = Stream[3] /\ q[2] = Stream[4] /\ q[3] = Stream[5] /\ q[4] = Stream[6]
        /\ 1 \in DOMAIN q /\ 3 \in DOMAIN q
    BY <1>12
  <2>2. /\ Stream[3].part = Parts(msg)[3] /\ Stream[4].part = Parts(msg)[4]
        /\ Stream[5].part = Parts(msg)[5] /\ Stream[6].part = Parts(msg)[6]
        /\ Stream[3].msg = First /\ Stream[5].msg = First
    BY <1>6
  <2> QED
    BY <1>4, <2>1, <2>2
<1>14. 2 \in Ends(q) /\ 4 \in Ends(q)
  BY <1>12, <1>13 DEF Ends
<1>15. ASSUME NEW text, NEW k \in {1, 3}, q[k].part = text PROVE k \in Lines(q, text)
  <2>1. k = 1 \/ k - 1 = 2
    OBVIOUS
  <2>2. 4 > k
    OBVIOUS
  <2>3. k \in DOMAIN q
    BY <1>13
  <2> QED
    BY <1>14, <1>15, <2>1, <2>2, <2>3 DEF Lines
<1>16. Lines(q, "cseq") # {}
  BY <1>4, <1>13, <1>15
<1>17. Header(q, msg.method) # 0
  <2> DEFINE own == OwnLines(q, msg.method)
  <2>1. own # {}
    <3>1. PICK k \in {1, 3} : q[k].part = "header"
      BY <1>4, <1>13
    <3>2. k \in Lines(q, "header") /\ q[k].msg = First
      BY <1>13, <1>15, <3>1
    <3> QED
      BY <3>2 DEF msg, OwnLines
  <2>2. \E k \in own : Header(q, msg.method) = q[k].msg
    BY <1>1, <1>11, <2>1, HeaderIs
  <2>3. PICK k \in Lines(q, "header") : Header(q, msg.method) = q[k].msg
    BY <2>2 DEF OwnLines
  <2>4. k \in 1 .. Len(b) - 2 /\ k + 2 \in 1 .. Len(b)
    BY <1>1, <1>11 DEF Lines
  <2>5. q[k] = Stream[k + 2] /\ k + 2 \in 1 .. Len(Stream)
    BY <1>1, <1>11, <2>4, ArrivesIs
  <2>6. q[k].msg \in Nat \ {0}
    BY <1>1, <2>5, StreamIs
  <2> QED
    BY <2>3, <2>6
<1> QED
  BY <1>2, <1>3, <1>9, <1>10, <1>16, <1>17 DEF msg, q

(* The order of messages, and of halves, in what arrives. *)
CutWell(b) ==
    /\ delivery = "messages" =>
         /\ Whole(b)
         /\ next.type = "none" => Stream[1].n = 1
         /\ \A k \in Len(buf) + 1 .. Len(b) : Stream[k].msg = wire[1].msg
         /\ \A k \in Len(b) + 1 .. Len(Stream) : Stream[k].msg # wire[1].msg
    /\ delivery = "halves" =>
         /\ next.type = "none" => Stream[1].n = 1
         /\ \A k \in 1 .. Len(b) : Stream[k].msg = First
         /\ First = LastServed + 1
         /\ Starts(b, "magic") => Len(b) = 2
         /\ ~Starts(b, "magic") => Whole(b)

(* Messages and halves that arrive on their own are cut at their ends. *)
LEMMA CutIs ==
    ASSUME Framed, WholeMessages, HalvesInTurn, NEW n, Takes(n)
    PROVE  CutWell(buf \o SubSeq(wire, 1, n))
<1> DEFINE b == buf \o SubSeq(wire, 1, n)
           L == Len(buf)
<1>1. TypeOK /\ StreamIsRest /\ wire # <<>> /\ n \in Arriving
  BY DEF Framed, Takes
<1>2. n \in DOMAIN wire /\ Arrives(b, Drop(wire, n))
  BY <1>1, TakesIs DEF Arrival
<1>3. /\ Len(b) = L + n /\ L \in Nat /\ n \in Nat /\ n >= 1 /\ n <= Len(wire)
      /\ Len(wire) \in Nat /\ DOMAIN wire = 1 .. Len(wire)
      /\ Len(Stream) = L + Len(wire) /\ Len(Stream) \in Nat
      /\ \A k \in 1 .. Len(wire) : Stream[L + k] = wire[k]
      /\ wire \in Seq(SymbolType) /\ buf \in Seq(SymbolType)
  <2>1. /\ wire \in Seq(SymbolType) /\ buf \in Seq(SymbolType)
        /\ DOMAIN wire = 1 .. Len(wire) /\ Len(wire) \in Nat /\ L \in Nat
        /\ Len(Stream) = L + Len(wire) /\ Len(Stream) \in Nat
        /\ \A k \in 1 .. Len(wire) : Stream[L + k] = wire[k]
    BY <1>1, StreamIs, LenProperties DEF TypeOK
  <2>2. Len(Drop(wire, n)) = Len(wire) - n
    <3>1. n \in 0 .. Len(wire)
      BY <1>2, <2>1
    <3> QED
      BY <2>1, <3>1, DropIs, Zenon
  <2>3. Len(b) + Len(Drop(wire, n)) = Len(Stream) /\ Len(b) \in Nat
    BY <1>2 DEF Arrives
  <2>4. n \in Nat /\ n >= 1 /\ n <= Len(wire)
    BY <1>2, <2>1
  <2> HIDE DEF L, b
  <2>5. Len(b) = L + n
    BY <2>1, <2>2, <2>3, <2>4
  <2> QED
    BY <2>1, <2>4, <2>5
<1>4. b[1] = Stream[1] /\ b # <<>> /\ 1 \in 1 .. Len(Stream)
  BY <1>1, <1>2, ArrivesIs
<1> HIDE DEF b, L
<1>5. 1 \in 1 .. Len(wire) /\ L + 1 \in 1 .. Len(Stream) /\ L + n \in 1 .. Len(Stream)
      /\ Stream[L + 1] = wire[1] /\ Stream[L + n] = wire[n]
  BY <1>2, <1>3
<1>6. ASSUME NEW k \in L + 1 .. Len(Stream)
      PROVE  k \in 1 .. Len(Stream) /\ k \in Nat /\ k - L \in 1 .. Len(wire)
             /\ Stream[k] = wire[k - L]
  <2>1. k - L \in 1 .. Len(wire) /\ L + (k - L) = k /\ k \in 1 .. Len(Stream)
    BY <1>3
  <2> QED
    BY <1>3, <2>1
<1>7. ASSUME wire[n].msg = wire[1].msg, NEW k \in L + 1 .. Len(b)
      PROVE  Stream[k].msg = wire[1].msg
  <2>1. k \in 1 .. Len(Stream) /\ L + 1 <= k /\ k <= L + n
    BY <1>3
  <2>2. Stream[L + 1].msg <= Stream[k].msg /\ Stream[k].msg <= Stream[L + n].msg
    BY <1>1, <1>5, <2>1, InOrder
  <2>3. Stream[k].msg \in Nat /\ Stream[L + 1].msg \in Nat
    BY <1>1, <1>5, <2>1, StreamIs
  <2> QED
    BY <1>5, <1>7, <2>2, <2>3
<1>8. ASSUME Len(b) < Len(Stream), wire[n].msg = wire[1].msg,
             Stream[Len(b) + 1].msg # wire[1].msg
      PROVE  Stream[Len(b) + 1].n = 1
  <2>1. L + n + 1 \in 1 .. Len(Stream)
    BY <1>3, <1>8
  <2> QED
    BY <1>1, <1>3, <1>5, <1>8, <2>1, NextMessage
<1>9. CASE delivery = "messages"
  <2>1. /\ wire[n].msg = wire[1].msg
        /\ \A k \in DOMAIN wire : wire[k].msg = wire[1].msg => k <= n
    BY <1>1, <1>9, ArrivingIs
  <2>2. ASSUME NEW k \in Len(b) + 1 .. Len(Stream) PROVE Stream[k].msg # wire[1].msg
    <3>1. k \in L + 1 .. Len(Stream) /\ ~(k - L <= n)
      BY <1>3
    <3>2. Stream[k] = wire[k - L] /\ k - L \in DOMAIN wire
      BY <1>3, <1>6, <3>1
    <3> QED
      BY <2>1, <3>1, <3>2
  <2>3. Whole(b)
    <3> SUFFICES ASSUME Len(b) < Len(Stream) PROVE Stream[Len(b) + 1].n = 1
      BY DEF Whole
    <3>1. Len(b) + 1 \in Len(b) + 1 .. Len(Stream)
      BY <1>3
    <3> QED
      BY <1>8, <2>1, <2>2, <3>1
  <2>4. next.type = "none" => Stream[1].n = 1
    <3>1. Stream # <<>>
      BY <1>3, <1>4, EmptySeq
    <3> QED
      BY <1>9, <3>1 DEF WholeMessages
  <2>5. \A k \in L + 1 .. Len(b) : Stream[k].msg = wire[1].msg
    BY <1>7, <2>1
  <2> QED
    BY <1>9, <2>2, <2>3, <2>4, <2>5 DEF CutWell, b, L
<1>10. CASE delivery = "halves"
  <2>1. /\ wire[n].msg = wire[1].msg
        /\ wire[n].part = "word" <=> wire[1].part = "word"
        /\ \A k \in DOMAIN wire :
             /\ wire[k].msg = wire[1].msg
             /\ wire[k].part = "word" <=> wire[1].part = "word"
             => k <= n
    BY <1>1, <1>10, ArrivingIs
  <2>2. /\ L = 0 /\ First = LastServed + 1 /\ First = wire[1].msg
        /\ next.type = "none" => Stream[1].n = 1
    <3>1. L = 0
      BY <1>10, EmptySeq DEF HalvesInTurn, L
    <3>2. Stream[1] = wire[1]
      BY <1>5, <3>1
    <3> QED
      BY <1>1, <1>10, <3>1, <3>2 DEF HalvesInTurn, First
  <2>3. Len(b) = n /\ \A k \in 1 .. Len(Stream) : Stream[k] = wire[k] /\ k \in DOMAIN wire
    <3>1. Len(b) = n
      BY <1>3, <2>2
    <3>2. ASSUME NEW k \in 1 .. Len(Stream) PROVE Stream[k] = wire[k] /\ k \in DOMAIN wire
      <4>1. k \in 1 .. Len(wire) /\ L + k = k
        BY <1>3, <2>2
      <4> QED
        BY <1>3, <4>1
    <3> QED
      BY <3>1, <3>2
  <2>4. \A k \in 1 .. Len(b) : Stream[k].msg = First
    <3>1. L + 1 = 1
      BY <2>2
    <3> QED
      BY <1>7, <2>1, <2>2, <3>1
  <2> DEFINE msg == sent[First]
  <2>5. /\ First \in DOMAIN sent /\ msg \in Message /\ msg.kind \in {"request", "frame"}
        /\ Stream[1].n \in DOMAIN Parts(msg) /\ Stream[1].part = Parts(msg)[Stream[1].n]
        /\ Stream[1].n \in Nat
    BY <1>1, <1>4, SymbolIs, MessageParts DEF First
  <2>6. ASSUME NEW k \in 1 .. Len(Stream), Stream[k].msg = First
        PROVE  /\ Stream[k].n \in DOMAIN Parts(msg) /\ Stream[k].part = Parts(msg)[Stream[k].n]
               /\ Stream[k].n = Stream[1].n + (k - 1)
    <3>1. Stream[k].n \in DOMAIN Parts(msg) /\ Stream[k].part = Parts(msg)[Stream[k].n]
      BY <1>1, <2>5, <2>6, SymbolIs, MessageParts
    <3>2. 1 <= k
      BY <1>3
    <3> QED
      BY <1>1, <1>4, <2>6, <3>1, <3>2, InOrder DEF First
  <2>7. ASSUME ~Starts(b, "magic") PROVE Whole(b)
    <3> SUFFICES ASSUME Len(b) < Len(Stream) PROVE Stream[Len(b) + 1].n = 1
      BY DEF Whole
    <3> DEFINE k == Len(b) + 1
    <3>1. k \in 1 .. Len(Stream) /\ k \in DOMAIN wire /\ ~(k <= n) /\ Stream[k] = wire[k]
          /\ k \in Nat /\ k >= 1
      BY <1>3, <2>3
    <3>2. ASSUME Stream[k].msg = First
          PROVE  Stream[k].part = "word" <=> Stream[1].part = "word"
      <4>1. /\ Stream[k].n \in DOMAIN Parts(msg) /\ Stream[k].part = Parts(msg)[Stream[k].n]
            /\ Stream[k].n = Stream[1].n + (k - 1)
        BY <2>6, <3>1, <3>2
      <4>2. CASE msg.kind = "request"
        BY <1>1, <2>5, <4>1, <4>2, PlaceOf
      <4>3. CASE msg.kind = "frame"
        <5>1. Stream[1].part # "magic"
          BY <1>4, <2>7 DEF Starts
        <5>2. Stream[1].n # 1 /\ (Stream[1].part = "word" <=> Stream[1].n >= 3)
          BY <1>1, <2>5, <4>3, <5>1, PlaceOf
        <5>3. next.type = "frame"
          BY <1>1, <2>2, <5>2 DEF TypeOK
        <5>4. Stream[1].n = 3
          BY <5>3 DEF Framed, BodyFollows
        <5>5. Stream[k].n >= 3
          BY <3>1, <4>1, <5>4
        <5>6. Stream[k].part = "word"
          BY <1>1, <2>5, <4>1, <4>3, <5>5, PlaceOf
        <5> QED
          BY <5>2, <5>4, <5>6
      <4> QED
        BY <2>5, <4>2, <4>3
    <3>3. 1 \in DOMAIN wire /\ Stream[1] = wire[1]
      BY <1>4, <2>3
    <3>4. Stream[k].msg # First
      BY <2>1, <2>2, <3>1, <3>2, <3>3
    <3> QED
      BY <1>8, <2>1, <2>2, <3>4
  <2>8. ASSUME Starts(b, "magic") PROVE Len(b) = 2
    <3>1. /\ msg.kind = "frame" /\ Stream[1].n = 1 /\ Len(Stream) >= 3
          /\ Stream[2] = Symbol(First, 2)
      BY <1>2, <2>8, HeadIs
    <3>2. Stream[2].msg = First /\ Stream[2].n = 2 /\ 2 \in 1 .. Len(Stream)
      BY <1>3, <3>1 DEF Symbol, SymbolOf
    <3>3. Stream[1].part # "word" /\ Stream[2].part # "word"
      BY <1>1, <2>5, <2>6, <3>1, <3>2, PlaceOf
    <3>4. 2 <= n
      <4>1. 1 \in 1 .. Len(Stream)
        BY <1>4
      <4> QED
        BY <2>1, <2>2, <2>3, <3>2, <3>3, <4>1
    <3>5. ASSUME n >= 3 PROVE FALSE
      <4>1. n \in 1 .. Len(Stream) /\ n \in 1 .. Len(b) /\ 1 \in 1 .. Len(Stream)
        BY <1>3, <1>4, <2>2, <2>3
      <4>2. Stream[n].msg = First
        BY <2>4, <4>1
      <4>3. /\ Stream[n].n \in DOMAIN Parts(msg) /\ Stream[n].part = Parts(msg)[Stream[n].n]
            /\ Stream[n].n = 1 + (n - 1)
        BY <2>6, <3>1, <4>1, <4>2
      <4>4. Stream[n].n >= 3
        BY <1>3, <3>5, <4>3
      <4>5. Stream[n].part = "word"
        BY <1>1, <2>5, <3>1, <4>3, <4>4, PlaceOf
      <4> QED
        BY <2>1, <2>3, <3>3, <4>1, <4>5
    <3> QED
      BY <1>3, <2>3, <3>4, <3>5
  <2> QED
    BY <1>10, <2>2, <2>4, <2>7, <2>8 DEF CutWell, b
<1> QED
  BY <1>9, <1>10 DEF CutWell, b

(* Then nothing waits, and no request is refused. *)
LEMMA NothingWaits ==
    ASSUME Framed, NEW b, NEW rest, Arrives(b, rest), CutWell(b), delivery # "any"
    PROVE  /\ ~AwaitHead(b) /\ ~AwaitBody(b) /\ ~Refuse(b)
           /\ ~Starts(b, "magic") => Whole(b)
           /\ Serve(b) => /\ LineOf(b) = 1 /\ Header(Behind(b), sent[First].method) # 0
                          /\ sent[First].kind = "request"
<1>1. delivery \in {"messages", "halves"} /\ TypeOK
  BY DEF Framed, TypeOK
<1>2. ~Starts(b, "magic") => Whole(b)
  BY <1>1 DEF CutWell
<1>3. next.type = "none" => Stream[1].n = 1
  BY <1>1 DEF CutWell
<1>4. ~AwaitHead(b)
  <2> SUFFICES ASSUME Starts(b, "magic"), Len(b) < 2 PROVE FALSE
    BY DEF AwaitHead
  <2>1. CASE delivery = "messages"
    <3>1. Len(b) >= 2
      BY <2>1, WholeFrame DEF CutWell
    <3> QED
      BY <1>1, <3>1, ArrivesIs
  <2>2. CASE delivery = "halves"
    BY <2>2 DEF CutWell
  <2> QED
    BY <1>1, <2>1, <2>2
<1>5. ~AwaitBody(b)
  <2> SUFFICES ASSUME Awaits(b), ~HasBody(b) PROVE FALSE
    BY DEF AwaitBody
  <2> QED
    BY <1>2, WholeBody DEF Awaits
<1>6. ASSUME IsRequest(b)
      PROVE  /\ HasLine(b) /\ LineOf(b) = 1 /\ Lines(Behind(b), "cseq") # {}
             /\ Header(Behind(b), sent[First].method) # 0
             /\ sent[First].kind = "request"
  <2>1. Whole(b) /\ Stream[1].n = 1
    BY <1>2, <1>3, <1>6 DEF IsRequest
  <2> QED
    BY <1>6, <2>1, RequestWhole
<1>7. ~Refuse(b)
  BY <1>6 DEF Refuse
<1> QED
  BY <1>2, <1>4, <1>5, <1>6, <1>7 DEF Serve

(* What the stream and the wire begin with after a read event. *)
LEMMA FirstsAre ==
    ASSUME TypeOK, NEW b, NEW rest, Arrival(b, rest), NEW d \in Nat, d <= Len(Stream), Left(d)
    PROVE  /\ wire' # <<>> <=> Len(b) < Len(Stream)
           /\ wire' # <<>> => /\ wire'[1] = Stream[Len(b) + 1]
                              /\ Len(b) + 1 \in 1 .. Len(Stream)
           /\ Stream' # <<>> => /\ Stream'[1] = Stream[d + 1] /\ d < Len(Stream)
                                /\ d + 1 \in 1 .. Len(Stream)
<1>1. /\ Len(Stream) \in Nat /\ Len(b) \in Nat \ {0} /\ wire' = rest
      /\ rest \in Seq(SymbolType) /\ Len(rest) \in Nat /\ Len(b) + Len(rest) = Len(Stream)
      /\ \A k \in 1 .. Len(rest) : rest[k] = Stream[Len(b) + k]
  BY StreamIs DEF Arrival, Arrives
<1>2. /\ Stream' \in Seq(SymbolType) /\ Len(Stream') = Len(Stream) - d
      /\ \A k \in 1 .. Len(Stream) - d : Stream'[k] = Stream[k + d]
  BY DEF Left
<1>3. rest # <<>> <=> Len(rest) >= 1
  BY <1>1, EmptySeq
<1>4. wire' # <<>> <=> Len(b) < Len(Stream)
  BY <1>1, <1>3
<1>5. wire' # <<>> => wire'[1] = Stream[Len(b) + 1] /\ Len(b) + 1 \in 1 .. Len(Stream)
  BY <1>1, <1>3
<1>6. ASSUME Stream' # <<>>
      PROVE  Stream'[1] = Stream[d + 1] /\ d < Len(Stream) /\ d + 1 \in 1 .. Len(Stream)
  <2>1. Len(Stream') \in Nat \ {0}
    BY <1>2, <1>6, EmptySeq
  <2>2. d < Len(Stream) /\ 1 \in 1 .. Len(Stream) - d /\ d + 1 \in 1 .. Len(Stream)
    <3> DEFINE x == Len(Stream)
    <3>1. x \in Nat /\ x - d \in Nat \ {0}
      BY <1>1, <1>2, <2>1
    <3> HIDE DEF x
    <3>2. d < x /\ 1 \in 1 .. x - d /\ d + 1 \in 1 .. x
      BY <3>1
    <3> QED
      BY <3>2 DEF x
  <2>3. Stream'[1] = Stream[1 + d]
    BY <1>2, <2>2
  <2>4. 1 + d = d + 1
    OBVIOUS
  <2> QED
    BY <2>2, <2>3, <2>4
<1> QED
  BY <1>4, <1>5, <1>6

(* A request that is not taken off stays in the stream. *)
LEMMA StillThere ==
    ASSUME TypeOK, NEW d \in Nat, d <= Len(Stream), Left(d), sent' = sent,
           NEW i, NEW j \in 1 .. Len(Stream), j > d, Stream[j] = Symbol(i, 1)
    PROVE  \E k \in DOMAIN Stream' : Stream'[k] = Symbol(i, 1)'
<1>1. /\ Len(Stream) \in Nat /\ DOMAIN Stream' = 1 .. Len(Stream) - d
      /\ \A k \in 1 .. Len(Stream) - d : Stream'[k] = Stream[k + d]
  BY StreamIs, LenProperties DEF Left
<1>2. Symbol(i, 1)' = Symbol(i, 1)
  BY DEF Symbol, SymbolOf
<1>3. j - d \in 1 .. Len(Stream) - d /\ (j - d) + d = j
  BY <1>1
<1>4. Stream'[j - d] = Symbol(i, 1)'
  BY <1>1, <1>2, <1>3
<1> QED
  BY <1>1, <1>3, <1>4

(* After a read event of a message, the buffer and the wire begin with one. *)
LEMMA WholeFollows ==
    ASSUME Framed, WholeMessages, delivery = "messages",
           NEW b, NEW rest, Arrival(b, rest), CutWell(b), OnMessage(b)
    PROVE  WholeMessages'
<1>1. /\ TypeOK /\ StreamIsRest /\ RequestsInTurn /\ Arrives(b, rest) /\ wire' = rest
      /\ sent' = sent /\ lockstep' = lockstep /\ delivery' = delivery
  BY DEF Framed, Arrival
<1>2. /\ Len(b) \in Nat \ {0} /\ Len(Stream) \in Nat /\ Len(b) <= Len(Stream)
      /\ DOMAIN Stream = 1 .. Len(Stream)
  BY <1>1, ArrivesIs, StreamIs
<1>3. Whole(b) /\ (next.type = "none" => Stream[1].n = 1)
  BY DEF CutWell
<1> DEFINE There(i) == \E j \in 1 .. Len(Stream) : Stream[j] = Symbol(i, 1)
           Follows(last) == \A i \in DOMAIN sent :
             sent[i].kind = "request" /\ i > last =>
               \E k \in DOMAIN Stream' : Stream'[k] = Symbol(i, 1)'
<1>4. lockstep => \A i \in DOMAIN sent :
        sent[i].kind = "request" /\ i > LastServed => There(i)
  BY <1>2 DEF WholeMessages
<1>5. ASSUME NEW d \in Nat, d <= Len(Stream), Left(d),
             Stream' # <<>> /\ next'.type = "none" => Stream[d + 1].n = 1,
             NEW last, LastServed' = last, lockstep => Follows(last)
      PROVE  WholeMessages'
  <2>1. wire' # <<>> => wire'[1].n = 1
    BY <1>1, <1>3, <1>5, FirstsAre DEF Whole
  <2>2. Stream' # <<>> => Stream'[1] = Stream[d + 1]
    BY <1>1, <1>5, FirstsAre
  <2> QED
    BY <1>1, <1>5, <2>1, <2>2 DEF WholeMessages
<1>6. CASE FrameHead(b)
  <2>1. Starts(b, "magic") /\ Len(b) >= 2 /\ buf' = Drop(b, 2) /\ next'.type = "frame"
        /\ served' = served
    BY <1>6 DEF FrameHead
  <2>2. 2 \in 0 .. Len(b) /\ 2 \in Nat
    BY <1>2, <2>1
  <2>3. Left(2) /\ 2 <= Len(Stream)
    BY <1>1, <2>1, <2>2, LeftIs
  <2>4. LastServed' = LastServed
    BY <2>1 DEF LastServed
  <2>5. sent[First].kind = "frame" /\ Stream[1].msg = First /\ Stream[2].msg = First
    BY <1>1, <2>1, HeadIs DEF First, Symbol, SymbolOf
  <2>6. ASSUME lockstep PROVE Follows(LastServed)
    <3> SUFFICES ASSUME NEW i \in DOMAIN sent, sent[i].kind = "request", i > LastServed
                 PROVE  \E k \in DOMAIN Stream' : Stream'[k] = Symbol(i, 1)'
      OBVIOUS
    <3>1. PICK j \in 1 .. Len(Stream) : Stream[j] = Symbol(i, 1)
      BY <1>4, <2>6
    <3>2. Stream[j].msg = i
      BY <3>1 DEF Symbol, SymbolOf
    <3>3. j # 1 /\ j # 2
      BY <2>5, <3>2
    <3>4. j > 2
      BY <1>2, <3>3
    <3> QED
      BY <1>1, <2>2, <2>3, <3>1, <3>4, StillThere
  <2> HIDE DEF Follows
  <2> QED
    BY <1>5, <2>1, <2>2, <2>3, <2>4, <2>6
<1>7. CASE FrameBody(b)
  <2> DEFINE len == next.length
  <2>1. next.type = "frame"
    BY <1>7 DEF FrameBody, Awaits
  <2>2. /\ len \in Nat \ {0} /\ len <= Len(Stream) /\ sent[First].kind = "frame"
        /\ \A k \in 1 .. len : Stream[k] = Symbol(First, k + 2)
        /\ \A k \in len + 1 .. Len(Stream) : Stream[k].msg > First
        /\ First > LastServed /\ LastServed \in Nat /\ First \in DOMAIN sent
    BY <1>1, <2>1, BodyIs
  <2>3. Left(len) /\ LastServed' = First
    BY <1>7, FrameBodyKeeps
  <2>4. First \in Nat
    BY <1>1, <2>2, SentIs
  <2> HIDE DEF len
  <2>5. ASSUME NEW k \in 1 .. len PROVE Stream[k].msg = First
    <3>1. Stream[k] = Symbol(First, k + 2)
      BY <2>2
    <3>2. Symbol(First, k + 2).msg = First
      BY DEF Symbol, SymbolOf
    <3> QED
      BY <3>1, <3>2
  <2>6. ASSUME Stream' # <<>> PROVE Stream[len + 1].n = 1
    <3>1. len + 1 \in 1 .. Len(Stream) /\ len < Len(Stream)
      BY <1>1, <2>2, <2>3, <2>6, FirstsAre
    <3>2. len \in 1 .. len /\ len \in 1 .. Len(Stream) /\ len + 1 \in len + 1 .. Len(Stream)
      BY <1>2, <2>2, <3>1
    <3>3. Stream[len].msg = First /\ Stream[len + 1].msg > First
      BY <2>2, <2>5, <3>2
    <3>4. Stream[len + 1].msg # Stream[len].msg
      BY <2>4, <3>3
    <3> QED
      BY <1>1, <3>1, <3>2, <3>4, NextMessage
  <2>7. ASSUME lockstep PROVE Follows(First)
    <3> SUFFICES ASSUME NEW i \in DOMAIN sent, sent[i].kind = "request", i > First
                 PROVE  \E k \in DOMAIN Stream' : Stream'[k] = Symbol(i, 1)'
      OBVIOUS
    <3>1. i \in Nat
      BY <1>1, SentIs
    <3>2. i > LastServed
      BY <2>2, <2>4, <3>1
    <3>3. PICK j \in 1 .. Len(Stream) : Stream[j] = Symbol(i, 1)
      BY <1>4, <2>7, <3>2
    <3>4. Stream[j].msg = i
      BY <3>3 DEF Symbol, SymbolOf
    <3>5. ~(j \in 1 .. len)
      BY <2>2, <2>5, <3>4
    <3>6. j > len
      BY <1>2, <2>2, <3>5
    <3> QED
      BY <1>1, <2>2, <2>3, <3>3, <3>6, StillThere
  <2> HIDE DEF Follows
  <2> QED
    BY <1>5, <2>2, <2>3, <2>6, <2>7
<1>8. CASE Serve(b)
  <2> DEFINE msg == Stream[LineOf(b)].msg
  <2>1. /\ HasLine(b) /\ LastServed' = msg /\ ~IsServed(msg) /\ Left(Len(b))
    BY <1>8, ServeKeeps
  <2>2. msg \in DOMAIN sent /\ sent[msg].kind = "request"
    BY <1>1, <2>1, LineIs
  <2> HIDE DEF msg
  <2>3. ASSUME lockstep PROVE Follows(msg)
    BY <1>1, <2>1, <2>2, <2>3 DEF RequestsInTurn
  <2>4. ASSUME Stream' # <<>> PROVE Stream[Len(b) + 1].n = 1
    <3>1. Len(b) < Len(Stream)
      BY <1>1, <1>2, <2>1, <2>4, FirstsAre
    <3> QED
      BY <1>3, <3>1 DEF Whole
  <2> HIDE DEF Follows
  <2> QED
    BY <1>2, <1>5, <2>1, <2>3, <2>4
<1> QED
  BY <1>1, <1>6, <1>7, <1>8, NothingWaits DEF OnMessage

(* Halves that arrive on their own leave nothing behind. *)
LEMMA HalvesFollow ==
    ASSUME Framed, HalvesInTurn, delivery = "halves",
           NEW b, NEW rest, Arrival(b, rest), CutWell(b), OnMessage(b)
    PROVE  HalvesInTurn'
<1>1. /\ TypeOK /\ StreamIsRest /\ Arrives(b, rest) /\ wire' = rest
      /\ sent' = sent /\ delivery' = delivery
  BY DEF Framed, Arrival
<1>2. /\ Len(b) \in Nat \ {0} /\ Len(Stream) \in Nat /\ Len(b) <= Len(Stream)
      /\ DOMAIN Stream = 1 .. Len(Stream) /\ b \in Seq(SymbolType)
  BY <1>1, ArrivesIs, StreamIs DEF Arrives
<1>3. /\ \A k \in 1 .. Len(b) : Stream[k].msg = First
      /\ First = LastServed + 1
      /\ Starts(b, "magic") => Len(b) = 2
      /\ ~Starts(b, "magic") => Whole(b)
  BY DEF CutWell
<1>4. /\ First \in DOMAIN sent /\ First \in Nat /\ First <= Len(sent) /\ Len(sent) \in Nat
  <2>1. 1 \in 1 .. Len(Stream)
    BY <1>2
  <2>2. First \in DOMAIN sent
    BY <1>1, <2>1, SymbolIs DEF First
  <2> QED
    BY <1>1, <2>2, SentIs
<1>5. ASSUME NEW d \in Nat, d <= Len(Stream), Left(d)
      PROVE  /\ wire' # <<>> <=> Len(b) < Len(Stream)
             /\ wire' # <<>> => wire'[1] = Stream[Len(b) + 1]
  BY <1>1, <1>5, FirstsAre
<1>6. ASSUME NEW d \in 0 .. Len(b), d = Len(b), buf' = Drop(b, d)
      PROVE  buf' = <<>> /\ Left(d) /\ d \in Nat /\ d <= Len(Stream)
  <2>1. /\ Left(d) /\ d \in Nat /\ d <= Len(Stream) /\ buf' \in Seq(SymbolType)
        /\ Len(buf') = Len(b) - d
    BY <1>1, <1>6, LeftIs
  <2>2. Len(buf') = 0
    BY <1>2, <1>6, <2>1
  <2> QED
    BY <2>1, <2>2, EmptySeq
<1>7. ASSUME Whole(b), LastServed' = First, buf' = <<>>, Left(Len(b)) PROVE HalvesInTurn'
  <2>1. /\ wire' # <<>> <=> Len(b) < Len(Stream)
        /\ wire' # <<>> => wire'[1] = Stream[Len(b) + 1]
    BY <1>2, <1>5, <1>7
  <2>2. Len(b) \in 1 .. Len(b) /\ Len(b) \in 1 .. Len(Stream)
    BY <1>2
  <2>3. Stream[Len(b)].msg = First
    BY <1>3, <2>2
  <2>4. CASE Len(b) < Len(Stream)
    <3> DEFINE k == Len(b)
    <3>1. k + 1 \in 1 .. Len(Stream) /\ k <= k + 1 /\ k \in Nat
      BY <1>2, <2>4
    <3>2. Stream[k + 1].n = 1
      BY <1>7, <2>4 DEF Whole
    <3>3. ASSUME Stream[k + 1].msg = Stream[k].msg PROVE FALSE
      <4>1. Stream[k + 1].n = Stream[k].n + (k + 1 - k)
        BY <1>1, <2>2, <3>1, <3>3, InOrder
      <4>2. Stream[k].n \in Nat \ {0}
        BY <1>1, <2>2, SymbolIs
      <4> QED
        BY <3>1, <3>2, <4>1, <4>2
    <3>4. Stream[k + 1].msg = Stream[k].msg + 1
      BY <1>1, <2>2, <3>1, <3>3, NextMessage
    <3>5. wire' # <<>> /\ wire'[1].msg = First + 1 /\ wire'[1].n = 1
      BY <2>1, <2>3, <2>4, <3>2, <3>4
    <3> QED
      BY <1>7, <3>5 DEF HalvesInTurn
  <2>5. CASE ~(Len(b) < Len(Stream))
    <3>1. wire' = <<>> /\ Len(b) = Len(Stream)
      BY <1>2, <2>1, <2>5
    <3>2. ASSUME NEW i \in First + 1 .. Len(sent) PROVE FALSE
      <4>1. 1 \in DOMAIN Stream /\ i > First /\ i \in Nat
        BY <1>2, <1>4
      <4>2. PICK j \in DOMAIN Stream : Stream[j] = Symbol(i, 1)
        BY <1>1, <4>1 DEF StreamIsRest, First
      <4>3. Stream[j].msg = i
        BY <4>2 DEF Symbol, SymbolOf
      <4>4. j \in 1 .. Len(b)
        BY <1>2, <3>1
      <4> QED
        BY <1>3, <1>4, <4>1, <4>3, <4>4
    <3>3. ~(First + 1 \in First + 1 .. Len(sent))
      BY <3>2
    <3>4. First = Len(sent)
      BY <1>4, <3>3
    <3> QED
      BY <1>1, <1>7, <3>1, <3>4 DEF HalvesInTurn
  <2> QED
    BY <2>4, <2>5
<1>8. CASE FrameHead(b)
  <2>1. Starts(b, "magic") /\ buf' = Drop(b, 2) /\ next'.type = "frame" /\ served' = served
    BY <1>8 DEF FrameHead
  <2>2. Len(b) = 2
    BY <1>3, <2>1
  <2>3. buf' = <<>> /\ Left(2) /\ 2 <= Len(Stream)
    <3>1. 2 \in 0 .. Len(b) /\ 2 \in Nat
      BY <2>2
    <3> QED
      BY <1>6, <2>1, <2>2, <3>1
  <2>4. Len(Stream) >= 3 /\ Stream[3].msg = First
    BY <1>1, <2>1, HeadIs DEF Symbol, SymbolOf
  <2>5. wire' # <<>> /\ wire'[1] = Stream[Len(b) + 1]
    <3>1. Len(b) < Len(Stream)
      BY <1>2, <2>2, <2>4
    <3> QED
      BY <1>5, <2>3, <3>1
  <2>6. wire'[1].msg = First
    BY <2>2, <2>4, <2>5
  <2>7. LastServed' = LastServed
    BY <2>1 DEF LastServed
  <2> QED
    BY <1>3, <2>1, <2>3, <2>5, <2>6, <2>7 DEF HalvesInTurn
<1>9. CASE FrameBody(b)
  <2> DEFINE len == next.length
  <2>1. next.type = "frame" /\ HasBody(b) /\ ~Starts(b, "magic") /\ buf' = Drop(b, len)
    BY <1>9 DEF FrameBody, Awaits
  <2>2. /\ len \in Nat \ {0} /\ \A k \in len + 1 .. Len(Stream) : Stream[k].msg > First
    BY <1>1, <2>1, BodyIs
  <2>3. LastServed' = First
    BY <1>9, FrameBodyKeeps
  <2>4. Len(b) >= len
    BY <2>1 DEF HasBody
  <2> HIDE DEF len
  <2>5. ASSUME Len(b) > len PROVE FALSE
    <3>1. Len(b) \in len + 1 .. Len(Stream) /\ Len(b) \in 1 .. Len(b)
      BY <1>2, <2>2, <2>5
    <3> QED
      BY <1>3, <1>4, <2>2, <3>1
  <2>6. len = Len(b) /\ len \in 0 .. Len(b)
    BY <1>2, <2>2, <2>4, <2>5
  <2>7. buf' = <<>> /\ Left(len)
    BY <1>6, <2>1, <2>6 DEF len
  <2> QED
    BY <1>3, <1>7, <2>1, <2>3, <2>6, <2>7
<1>10. CASE Serve(b)
  <2>1. LineOf(b) = 1 /\ ~Starts(b, "magic")
    BY <1>1, <1>10, NothingWaits DEF Serve, IsRequest
  <2>2. LastServed' = Stream[LineOf(b)].msg /\ buf' = <<>> /\ Left(Len(b))
    BY <1>10, ServeKeeps
  <2>3. LastServed' = First
    BY <2>1, <2>2 DEF First
  <2> QED
    BY <1>3, <1>7, <2>1, <2>2, <2>3
<1> QED
  BY <1>1, <1>8, <1>9, <1>10, NothingWaits DEF OnMessage

(* What may be lost, for each delivery. *)
LEMMA CareIs ==
    /\ care # "any" => delivery = "halves" \/ (delivery = "messages" /\ lockstep)
    /\ care # "any" => delivery # "any"
    /\ delivery = "halves" => care = "none"
    /\ delivery = "messages" /\ lockstep => care = "frames"
    /\ care \in {"none", "frames", "any"}
  BY DEF care

(* The header that counts is that of the request, if its client waits. *)
LEMMA ServedHeader ==
    ASSUME Framed, NEW b, NEW rest, Arrival(b, rest), CutWell(b), Serve(b)
    PROVE  LET msg == Stream[LineOf(b)].msg
               header == Header(Behind(b), sent[msg].method)
           IN /\ lockstep => header \in {0, msg}
              /\ care # "any" => header = msg
<1> DEFINE msg == Stream[LineOf(b)].msg
           method == sent[msg].method
           q == Behind(b)
           own == OwnLines(q, method)
           e == Min(Ends(b))
           header == Header(q, method)
<1>1. /\ TypeOK /\ StreamIsRest /\ RequestsInTurn /\ Arrives(b, rest)
  BY DEF Framed, Arrival
<1>2. HasLine(b) /\ ~IsServed(msg)
  BY ServeKeeps
<1>3. /\ LineOf(b) \in DOMAIN b /\ LineOf(b) \in 1 .. Len(Stream) /\ LineOf(b) \in Nat
      /\ msg \in DOMAIN sent /\ sent[msg].kind = "request"
      /\ \A k \in DOMAIN b : k < LineOf(b) => b[k].part = "crlf"
  BY <1>1, <1>2, LineIs
<1>4. /\ DOMAIN b = 1 .. Len(b) /\ Len(b) \in Nat
      /\ \A k \in DOMAIN b : k \in 1 .. Len(Stream) /\ b[k] = Stream[k]
  BY <1>1, ArrivesIs
<1>5. /\ e \in Nat /\ e \in 1 .. Len(b) /\ q \in Seq(SymbolType)
      /\ DOMAIN q = 1 .. Len(b) - e
      /\ \A k \in 1 .. Len(b) - e : q[k] = Stream[k + e]
  BY <1>1, <1>2, BehindIs DEF HasLine
<1>6. /\ own = {} => header = 0
      /\ own # {} => \E k \in own : header = q[k].msg
  BY <1>1, <1>5, HeaderIs
<1> HIDE DEF q, e, header, method, msg
<1>7. ASSUME NEW k \in own
      PROVE  \E p \in 1 .. Len(b) :
               /\ q[k].msg = Stream[p].msg /\ Stream[p].msg \in DOMAIN sent
               /\ sent[Stream[p].msg].kind = "request" /\ msg <= Stream[p].msg
  <2>1. k \in 1 .. Len(b) - e /\ q[k].part = "header"
    BY <1>5 DEF Lines, OwnLines
  <2> DEFINE p == k + e
             i == Stream[p].msg
  <2>2. p \in 1 .. Len(b) /\ q[k] = Stream[p] /\ p \in Nat
    BY <1>4, <1>5, <2>1
  <2> HIDE DEF p
  <2>3. p \in 1 .. Len(Stream) /\ b[p] = Stream[p]
    BY <1>4, <2>2
  <2>4. /\ i \in DOMAIN sent /\ sent[i] \in Message
        /\ Stream[p].n \in DOMAIN Parts(sent[i])
        /\ Stream[p].part = Parts(sent[i])[Stream[p].n]
    BY <1>1, <2>3, SymbolIs, MessageParts
  <2>5. Stream[p].part = "header"
    BY <2>1, <2>2
  <2>6. sent[i].kind = "request"
    <3>1. sent[i].kind \in {"request", "frame"}
      BY <2>4, MessageParts
    <3>2. ASSUME sent[i].kind = "frame" PROVE Stream[p].part # "header"
      BY <1>1, <2>4, <3>2, PlaceOf
    <3> QED
      BY <2>5, <3>1, <3>2
  <2>7. ASSUME p < LineOf(b) PROVE FALSE
    <3>1. p \in DOMAIN b /\ b[p].part = "header"
      BY <1>4, <2>2, <2>3, <2>5
    <3>2. b[p].part = "crlf"
      BY <1>3, <2>7, <3>1
    <3> QED
      BY <3>1, <3>2
  <2>8. LineOf(b) <= p
    BY <1>3, <2>2, <2>7
  <2>9. msg <= i
    BY <1>1, <1>3, <2>3, <2>8, InOrder DEF msg
  <2> QED
    BY <2>2, <2>4, <2>6, <2>9
<1>8. ASSUME lockstep PROVE header \in {0, msg}
  <2>1. CASE own = {}
    BY <1>6, <2>1
  <2>2. CASE own # {}
    <3>1. PICK k \in own : header = q[k].msg
      BY <1>6, <2>2
    <3>2. PICK p \in 1 .. Len(b) :
            /\ q[k].msg = Stream[p].msg /\ Stream[p].msg \in DOMAIN sent
            /\ sent[Stream[p].msg].kind = "request" /\ msg <= Stream[p].msg
      BY <1>7
    <3>3. header \in DOMAIN sent /\ sent[header].kind = "request" /\ msg <= header
      BY <3>1, <3>2
    <3>4. ~(msg < header)
      BY <1>1, <1>2, <1>3, <1>8, <3>3 DEF RequestsInTurn
    <3>5. header \in Nat /\ msg \in Nat
      BY <1>1, <1>3, <3>3, SentIs
    <3>6. header = msg
      BY <3>3, <3>4, <3>5
    <3> QED
      BY <3>6
  <2> QED
    BY <2>1, <2>2
<1>9. ASSUME care # "any" PROVE header = msg
  <2>1. delivery # "any" /\ (delivery = "halves" \/ lockstep)
    BY <1>9, CareIs
  <2>2. LineOf(b) = 1 /\ Header(Behind(b), sent[First].method) # 0
    BY <1>1, <2>1, NothingWaits
  <2>3. msg = First
    BY <2>2 DEF msg, First
  <2>4. header # 0
    BY <2>2, <2>3 DEF header, method, q
  <2>5. CASE lockstep
    BY <1>8, <2>4, <2>5
  <2>6. CASE delivery = "halves"
    <3>1. PICK k \in own : header = q[k].msg
      BY <1>6, <2>4
    <3>2. PICK p \in 1 .. Len(b) : q[k].msg = Stream[p].msg
      BY <1>7
    <3>3. Stream[p].msg = First
      BY <2>6 DEF CutWell
    <3> QED
      BY <2>3, <3>1, <3>2, <3>3
  <2> QED
    BY <2>1, <2>5, <2>6
<1> QED
  BY <1>8, <1>9 DEF msg, header, method, q

(* What is kept of a frame that was handled has its type. *)
LEMMA HandledByBody ==
    ASSUME Framed, NEW b, NEW rest, Arrival(b, rest), FrameBody(b)
    PROVE  [msg |-> b[1].msg, channel |-> next.channel,
            packets |-> ParseRTCP(WordsOf(SubSeq(b, 1, next.length))), header |-> 0]
             \in Handled
<1> DEFINE h == [msg |-> b[1].msg, channel |-> next.channel,
                 packets |-> ParseRTCP(WordsOf(SubSeq(b, 1, next.length))), header |-> 0]
<1>1. served' = Append(served, h)
  BY DEF FrameBody, Handle
<1>2. TypeOK /\ sent' = sent
  BY DEF Framed, Arrival
<1>3. TypeOK'
  BY FrameBodyKeeps DEF Framed
<1>4. served' \in Seq(Handled)' /\ served \in Seq(Handled)
  BY <1>2, <1>3 DEF TypeOK
<1>5. Handled' = Handled
  BY <1>2 DEF Handled
<1> HIDE DEF h
<1>6. served' \in Seq(Handled) /\ Len(served) \in Nat
  BY <1>4, <1>5, LenProperties
<1>7. Len(served) + 1 \in 1 .. Len(served') /\ served'[Len(served) + 1] = h
  BY <1>1, <1>6, AppendProperties, <1>4
<1>8. served'[Len(served) + 1] \in Handled
  BY <1>6, <1>7, ElementOfSeq
<1> QED
  BY <1>7, <1>8 DEF h

(* Headers are applied to their own request. *)
LEMMA HeadersFollow ==
    ASSUME Framed, OwnHeaders,
           NEW b, NEW rest, Arrival(b, rest), CutWell(b), OnMessage(b)
    PROVE  OwnHeaders'
<1> DEFINE Own(s) == sent[s.msg].kind = "request" =>
                       /\ lockstep => s.header \in {0, s.msg}
                       /\ care # "any" => s.header = s.msg
<1>1. /\ TypeOK /\ Arrives(b, rest) /\ sent' = sent /\ lockstep' = lockstep
      /\ delivery' = delivery
  BY DEF Framed, Arrival
<1>2. care' = care
  BY <1>1 DEF care
<1>3. \A k \in DOMAIN served : Own(served[k])
  BY DEF OwnHeaders
<1>4. OwnHeaders' <=> \A k \in DOMAIN served' : Own(served'[k])
  BY <1>1, <1>2 DEF OwnHeaders
<1> HIDE DEF Own
<1>5. ASSUME NEW h \in Handled, served' = Append(served, h), Own(h)
      PROVE  OwnHeaders'
  <2>1. served \in Seq(Handled)
    BY <1>1 DEF TypeOK
  <2>2. ASSUME NEW k \in DOMAIN served' PROVE Own(served'[k])
    <3>1. served'[k] = h \/ (k \in DOMAIN served /\ served'[k] = served[k])
      BY <1>5, <2>1
    <3> QED
      BY <1>3, <1>5, <3>1
  <2> QED
    BY <1>4, <2>2
<1>6. CASE served' = served
  BY <1>3, <1>4, <1>6
<1>7. CASE FrameBody(b)
  <2> DEFINE h == [msg |-> b[1].msg, channel |-> next.channel,
                   packets |-> ParseRTCP(WordsOf(SubSeq(b, 1, next.length))), header |-> 0]
  <2>1. next.type = "frame" /\ served' = Append(served, h)
    BY <1>7 DEF FrameBody, Handle, Awaits
  <2>2. sent[First].kind = "frame" /\ b[1].msg = First
    BY <1>1, <2>1, BodyIs
  <2>3. Own(h)
    BY <2>2 DEF Own
  <2>4. h \in Handled
    BY <1>7, HandledByBody
  <2> QED
    BY <1>5, <2>1, <2>3, <2>4
<1>8. CASE Serve(b)
  <2> DEFINE msg == Stream[LineOf(b)].msg
             h == [msg |-> msg, channel |-> 0, packets |-> <<>>,
                   header |-> Header(Behind(b), sent[msg].method)]
  <2>1. served' = Append(served, h) /\ h \in Handled
    BY <1>8, ServeKeeps
  <2>2. Own(h)
    <3>1. /\ lockstep => Header(Behind(b), sent[msg].method) \in {0, msg}
          /\ care # "any" => Header(Behind(b), sent[msg].method) = msg
      BY <1>8, ServedHeader
    <3> HIDE DEF msg
    <3> QED
      BY <3>1 DEF Own
  <2> HIDE DEF h
  <2> QED
    BY <1>5, <2>1, <2>2
<1> QED
  BY <1>6, <1>7, <1>8 DEF OnMessage, AwaitHead, AwaitBody, FrameHead, Refuse

(* Only so many halves can wait. *)
LEMMA HalvesFinite ==
    ASSUME NEW S, NEW q \in Seq(S)
    PROVE  IsFiniteSet(Pieces(q)) /\ Cardinality(Pieces(q)) \in Nat
<1> DEFINE half(i) == <<q[i].msg, IF q[i].part = "word" THEN "body" ELSE "start">>
           f == [i \in DOMAIN q |-> half(i)]
<1>1. IsFiniteSet(DOMAIN q)
  <2>1. Len(q) \in Nat /\ DOMAIN q = 1 .. Len(q)
    BY LenProperties
  <2> QED
    BY <2>1, FS_Interval
<1>2. f \in Surjection(DOMAIN q, Pieces(q))
  BY DEF Surjection, Pieces
<1>3. IsFiniteSet(Pieces(q))
  BY <1>1, <1>2, FS_Surjection
<1> QED
  BY <1>3, FS_CardinalityType

(* At most two halves come, and one goes. *)
LEMMA Exchange ==
    ASSUME NEW H, IsFiniteSet(H), NEW c, NEW d, NEW x, NEW G,
           G \subseteq H \union {c, d}, x \in H \union {c, d}, x \notin G
    PROVE  /\ Cardinality(G) <= Cardinality(H) + 1
           /\ c = d => Cardinality(G) <= Cardinality(H)
<1>1. Cardinality(H) \in Nat
  BY FS_CardinalityType
<1>2. ASSUME NEW T, IsFiniteSet(T), NEW y
      PROVE  /\ IsFiniteSet(T \union {y}) /\ Cardinality(T \union {y}) \in Nat
             /\ Cardinality(T) \in Nat
             /\ Cardinality(T \union {y}) <= Cardinality(T) + 1
  <2>1. /\ IsFiniteSet(T \union {y})
        /\ Cardinality(T \union {y}) = Cardinality(T)
             \/ Cardinality(T \union {y}) = Cardinality(T) + 1
    BY <1>2, FS_AddElement
  <2>2. Cardinality(T) \in Nat /\ Cardinality(T \union {y}) \in Nat
    BY <1>2, <2>1, FS_CardinalityType
  <2> QED
    BY <2>1, <2>2
<1> DEFINE One == H \union {c}
           Two == One \union {d}
<1>3. /\ IsFiniteSet(One) /\ Cardinality(One) \in Nat
      /\ Cardinality(One) <= Cardinality(H) + 1
      /\ IsFiniteSet(Two) /\ Cardinality(Two) \in Nat
      /\ Cardinality(Two) <= Cardinality(One) + 1
  BY <1>2
<1>4. Two = H \union {c, d} /\ (c = d => Two = One)
  OBVIOUS
<1> HIDE DEF One, Two
<1>5. /\ G \subseteq Two \ {x} /\ IsFiniteSet(Two \ {x})
      /\ Cardinality(Two \ {x}) = Cardinality(Two) - 1
  <2>1. x \in Two /\ G \subseteq Two \ {x}
    BY <1>4
  <2> QED
    BY <1>3, <2>1, FS_RemoveElement
<1>6. Cardinality(G) <= Cardinality(Two) - 1 /\ Cardinality(G) \in Nat
  BY <1>5, FS_Subset, FS_CardinalityType
<1>7. c = d => Cardinality(Two) = Cardinality(One)
  BY <1>4
<1> DEFINE g == Cardinality(G)
           h == Cardinality(H)
           one == Cardinality(One)
           two == Cardinality(Two)
<1>8. /\ g \in Nat /\ h \in Nat /\ one \in Nat /\ two \in Nat
      /\ one <= h + 1 /\ two <= one + 1 /\ g <= two - 1 /\ (c = d => two = one)
  BY <1>1, <1>3, <1>6, <1>7
<1> HIDE DEF g, h, one, two
<1>9. g <= h + 1 /\ (c = d => g <= h)
  BY <1>8
<1> QED
  BY <1>9 DEF g, h

Half(s) == <<s.msg, IF s.part = "word" THEN "body" ELSE "start">>

(* The halves that wait are those of the symbols in the buffer. *)
LEMMA HalvesAre ==
    ASSUME NEW q, NEW h
    PROVE  h \in Pieces(q) <=> \E k \in DOMAIN q : h = Half(q[k])
  BY DEF Pieces, Half

(* A read event takes away a half, and a frame that arrives brings two. *)
LEMMA HalvesOf ==
    ASSUME Framed, NEW b, NEW rest, Arrival(b, rest), wire # <<>>,
           Len(buf) <= Len(b), CutWell(b), delivery = "messages",
           FrameHead(b) \/ FrameBody(b)
    PROVE  LET m == wire[1].msg
               c == <<m, "start">>
               d == IF sent[m].kind = "frame" THEN <<m, "body">> ELSE c
               x == Half(b[1])
           IN /\ m \in DOMAIN sent
              /\ Pieces(buf') \subseteq Pieces(buf) \union {c, d}
              /\ x \in Pieces(buf) \union {c, d}
              /\ x \notin Pieces(buf')
<1> DEFINE m == wire[1].msg
           c == <<m, "start">>
           d == IF sent[m].kind = "frame" THEN <<m, "body">> ELSE c
           x == Half(b[1])
<1>1. TypeOK /\ StreamIsRest /\ Arrives(b, rest) /\ wire' = rest
  BY DEF Framed, Arrival
<1>2. /\ Len(b) \in Nat \ {0} /\ DOMAIN b = 1 .. Len(b) /\ 1 \in DOMAIN b
      /\ b \in Seq(SymbolType) /\ b[1] = Stream[1] /\ 1 \in 1 .. Len(Stream)
      /\ \A k \in DOMAIN b : k \in 1 .. Len(Stream) /\ b[k] = Stream[k]
  BY <1>1, ArrivesIs DEF Arrives
<1>3. /\ Len(buf) \in Nat /\ DOMAIN buf = 1 .. Len(buf)
      /\ \A k \in 1 .. Len(buf) : Stream[k] = buf[k]
      /\ \A k \in 1 .. Len(wire) : Stream[Len(buf) + k] = wire[k]
      /\ 1 \in 1 .. Len(wire) /\ Len(buf) + 1 \in 1 .. Len(Stream)
  <2>1. wire \in Seq(SymbolType) /\ Len(wire) \in Nat \ {0}
    BY <1>1, EmptySeq DEF TypeOK
  <2>2. 1 \in 1 .. Len(wire)
    BY <2>1
  <2> QED
    BY <1>1, <2>1, <2>2, StreamIs, LenProperties DEF TypeOK
<1>4. m \in DOMAIN sent /\ sent[m] \in Message /\ sent[m].kind \in {"request", "frame"}
  <2>1. Stream[Len(buf) + 1] = wire[1]
    BY <1>3
  <2> QED
    BY <1>1, <1>3, <2>1, SymbolIs, MessageParts
<1>5. ASSUME NEW k \in DOMAIN b PROVE Half(b[k]) \in Pieces(buf) \union {c, d}
  <2>1. CASE k <= Len(buf)
    <3>1. k \in DOMAIN buf /\ b[k] = buf[k]
      BY <1>2, <1>3, <2>1
    <3> QED
      BY <3>1, HalvesAre
  <2>2. CASE ~(k <= Len(buf))
    <3>1. k \in Len(buf) + 1 .. Len(b)
      BY <1>2, <1>3, <2>2
    <3>2. Stream[k].msg = m /\ b[k] = Stream[k] /\ k \in 1 .. Len(Stream)
      BY <1>2, <3>1 DEF CutWell
    <3>3. CASE sent[m].kind = "frame"
      BY <3>2, <3>3 DEF Half
    <3>4. CASE sent[m].kind = "request"
      <4>1. /\ Stream[k].n \in DOMAIN Parts(sent[m])
            /\ Stream[k].part = Parts(sent[m])[Stream[k].n]
        BY <1>1, <1>4, <3>2, SymbolIs, MessageParts
      <4>2. Stream[k].part # "word"
        BY <1>1, <1>4, <3>4, <4>1, PlaceOf
      <4> QED
        BY <3>2, <4>2 DEF Half
    <3> QED
      BY <1>4, <3>3, <3>4
  <2> QED
    BY <2>1, <2>2
<1> HIDE DEF c, d
<1>6. ASSUME NEW e \in 0 .. Len(b), buf' = Drop(b, e),
             \A k \in DOMAIN b : k > e => Half(b[k]) # x
      PROVE  /\ Pieces(buf') \subseteq Pieces(buf) \union {c, d}
             /\ x \notin Pieces(buf')
  <2>1. /\ buf' \in Seq(SymbolType) /\ DOMAIN buf' = 1 .. Len(b) - e
        /\ \A k \in 1 .. Len(b) - e : buf'[k] = b[k + e]
    <3>1. /\ Drop(b, e) \in Seq(SymbolType) /\ Len(Drop(b, e)) = Len(b) - e
          /\ \A k \in 1 .. Len(b) - e : Drop(b, e)[k] = b[k + e]
      BY <1>2, DropIs, ZenonT(60)
    <3> QED
      BY <1>6, <3>1, LenProperties
  <2>2. ASSUME NEW k \in DOMAIN buf'
        PROVE  Half(buf'[k]) \in Pieces(buf) \union {c, d} /\ Half(buf'[k]) # x
    <3>1. k + e \in DOMAIN b /\ k + e > e /\ buf'[k] = b[k + e]
      BY <1>2, <2>1
    <3> QED
      BY <1>5, <1>6, <3>1
  <2> HIDE DEF x
  <2> QED
    BY <2>2, HalvesAre
<1>7. x \in Pieces(buf) \union {c, d}
  BY <1>2, <1>5
<1>8. First \in DOMAIN sent /\ First \in Nat
  BY <1>1, <1>2, SymbolIs DEF First
<1>9. CASE FrameHead(b)
  <2>1. Starts(b, "magic") /\ Len(b) >= 2 /\ buf' = Drop(b, 2)
    BY <1>9 DEF FrameHead
  <2>2. sent[First].kind = "frame" /\ Stream[1].n = 1
    BY <1>1, <2>1, HeadIs
  <2>3. x = <<First, "start">>
    BY <1>2, <2>1 DEF Half, First, Starts
  <2>4. ASSUME NEW k \in DOMAIN b, k > 2, Stream[k].msg = First
        PROVE  Stream[k].part = "word"
    <3>1. /\ Stream[k].n \in DOMAIN Parts(sent[First]) /\ k \in 1 .. Len(Stream)
          /\ Stream[k].part = Parts(sent[First])[Stream[k].n]
      BY <1>1, <1>2, <2>4, SymbolIs, MessageParts
    <3>2. Stream[k].n = Stream[1].n + (k - 1) /\ k \in Nat
      <4>1. 1 <= k /\ k \in Nat
        BY <1>2
      <4>2. Stream[1].msg = Stream[k].msg
        BY <2>4 DEF First
      <4> QED
        BY <1>1, <1>2, <3>1, <4>1, <4>2, InOrder
    <3>3. Stream[k].n >= 3
      BY <2>2, <2>4, <3>2
    <3> QED
      BY <1>1, <1>8, <2>2, <3>1, <3>3, PlaceOf
  <2>5. \A k \in DOMAIN b : k > 2 => Half(b[k]) # x
    BY <1>2, <2>3, <2>4 DEF Half
  <2>6. 2 \in 0 .. Len(b)
    BY <1>2, <2>1
  <2> QED
    BY <1>4, <1>6, <1>7, <2>1, <2>5, <2>6 DEF c, d
<1>10. CASE FrameBody(b)
  <2> DEFINE len == next.length
  <2>1. next.type = "frame" /\ HasBody(b) /\ buf' = Drop(b, len)
    BY <1>10 DEF FrameBody, Awaits
  <2>2. /\ len \in Nat \ {0}
        /\ \A k \in len + 1 .. Len(Stream) : Stream[k].msg > First
    BY <1>1, <2>1, BodyIs
  <2>3. Len(b) >= len
    BY <2>1 DEF HasBody
  <2> HIDE DEF len
  <2>4. len \in 0 .. Len(b)
    BY <1>2, <2>2, <2>3
  <2>5. x[1] = First
    BY <1>2 DEF Half, First
  <2>6. ASSUME NEW k \in DOMAIN b, k > len PROVE Half(b[k]) # x
    <3>1. k \in len + 1 .. Len(Stream) /\ b[k] = Stream[k]
      <4>1. k \in 1 .. Len(Stream) /\ b[k] = Stream[k]
        BY <1>2
      <4> QED
        BY <2>2, <2>6, <4>1
    <3>2. Stream[k].msg > First
      BY <2>2, <3>1
    <3>3. Half(b[k])[1] # First
      BY <1>8, <3>1, <3>2 DEF Half
    <3> QED
      BY <2>5, <3>3
  <2> QED
    BY <1>4, <1>6, <1>7, <2>1, <2>4, <2>6 DEF c, d
<1> QED
  BY <1>9, <1>10

(* The frames that arrived, with the one that arrives now. *)
LEMMA ArrivedIs ==
    ASSUME Framed, NEW b, NEW rest, Arrival(b, rest), wire # <<>>,
           Len(buf) <= Len(b), CutWell(b), delivery = "messages"
    PROVE  /\ Cardinality(Arrived) \in Nat /\ Cardinality(Arrived') \in Nat
           /\ Cardinality(Arrived) <= Cardinality(Arrived')
           /\ sent[wire[1].msg].kind = "frame" /\ wire[1].msg \in DOMAIN sent =>
                Cardinality(Arrived) + 1 <= Cardinality(Arrived')
<1> DEFINE m == wire[1].msg
           after == {i \in DOMAIN sent : sent[i].kind = "frame"}
                      \ {rest[k].msg : k \in DOMAIN rest}
<1>1. /\ TypeOK /\ StreamIsRest /\ Arrives(b, rest) /\ wire' = rest /\ sent' = sent
  BY DEF Framed, Arrival
<1>2. /\ Len(b) \in Nat \ {0} /\ Len(rest) \in Nat /\ rest \in Seq(SymbolType)
      /\ DOMAIN rest = 1 .. Len(rest) /\ Len(b) + Len(rest) = Len(Stream)
      /\ \A k \in 1 .. Len(rest) : rest[k] = Stream[Len(b) + k]
      /\ Len(Stream) = Len(buf) + Len(wire) /\ Len(buf) \in Nat /\ Len(wire) \in Nat \ {0}
      /\ DOMAIN wire = 1 .. Len(wire)
      /\ \A k \in 1 .. Len(wire) : Stream[Len(buf) + k] = wire[k]
  BY <1>1, StreamIs, LenProperties, EmptySeq DEF Arrives, TypeOK
<1>3. Arrived' = after
  BY <1>1 DEF Arrived
<1>4. ASSUME NEW k \in DOMAIN rest PROVE rest[k].msg # m
  <2>1. Len(b) + k \in Len(b) + 1 .. Len(Stream) /\ rest[k] = Stream[Len(b) + k]
    BY <1>2
  <2> QED
    BY <2>1 DEF CutWell
<1>5. ASSUME NEW k \in DOMAIN rest PROVE \E j \in DOMAIN wire : wire[j].msg = rest[k].msg
  <2> DEFINE j == Len(b) + k - Len(buf)
  <2>1. CASE j \in 1 .. Len(wire)
    <3>1. Len(buf) + j = Len(b) + k
      BY <1>2
    <3>2. wire[j] = rest[k]
      BY <1>2, <2>1, <3>1
    <3> QED
      BY <1>2, <2>1, <3>2
  <2>2. j \in 1 .. Len(wire)
    BY <1>2
  <2> QED
    BY <2>1, <2>2
<1>6. Arrived \subseteq after
  BY <1>5 DEF Arrived
<1>7. m \in DOMAIN sent /\ sent[m].kind = "frame" => m \in after /\ m \notin Arrived
  <2>1. 1 \in DOMAIN wire
    BY <1>2
  <2> QED
    BY <1>4, <2>1 DEF Arrived
<1>8. IsFiniteSet(after)
  <2>1. Len(sent) \in Nat /\ DOMAIN sent = 1 .. Len(sent)
    BY <1>1, LenProperties DEF TypeOK
  <2>2. IsFiniteSet(DOMAIN sent)
    BY <2>1, FS_Interval
  <2>3. after \in SUBSET DOMAIN sent
    OBVIOUS
  <2> HIDE DEF after
  <2> QED
    BY <2>2, <2>3, FS_Subset
<1> HIDE DEF after, m
<1>9. /\ IsFiniteSet(Arrived) /\ Cardinality(Arrived) \in Nat
      /\ Cardinality(after) \in Nat /\ Cardinality(Arrived) <= Cardinality(after)
  BY <1>6, <1>8, FS_Subset, FS_CardinalityType
<1>10. ASSUME m \in after, m \notin Arrived
       PROVE  Cardinality(Arrived) + 1 <= Cardinality(after)
  <2>1. Arrived \union {m} \in SUBSET after
    BY <1>6, <1>10
  <2>2. Cardinality(Arrived \union {m}) = Cardinality(Arrived) + 1
    BY <1>9, <1>10, FS_AddElement
  <2>3. Cardinality(Arrived \union {m}) <= Cardinality(after)
    BY <1>8, <2>1, FS_Subset
  <2> QED
    BY <2>2, <2>3
<1> QED
  BY <1>3, <1>7, <1>9, <1>10 DEF m

(* The buffer grows by a half at most, and only when a frame arrives. *)
LEMMA KeepsFollows ==
    ASSUME Framed, FewPieces, HalvesInTurn',
           NEW b, NEW rest, Arrival(b, rest), wire # <<>>, Len(buf) <= Len(b),
           CutWell(b), OnMessage(b)
    PROVE  FewPieces'
<1>1. /\ TypeOK /\ Arrives(b, rest)
      /\ sent' = sent /\ lockstep' = lockstep /\ delivery' = delivery
  BY DEF Framed, Arrival
<1>2. care' = care
  BY <1>1 DEF care
<1> SUFFICES ASSUME care # "any"
             PROVE  /\ ~closed'
                    /\ Cardinality(Pieces(buf')) <=
                         IF delivery = "messages" THEN Cardinality(Arrived') ELSE 0
  BY <1>1, <1>2 DEF FewPieces, Pieces
<1>3. ~closed /\ delivery # "any" /\ delivery \in {"messages", "halves"}
  BY <1>1, CareIs DEF FewPieces, TypeOK
<1>4. FrameHead(b) \/ FrameBody(b) \/ Serve(b)
  BY <1>1, <1>3, NothingWaits DEF OnMessage
<1>5. ~closed'
  BY <1>3, <1>4 DEF FrameHead, FrameBody, Serve
<1>6. ASSUME buf' = <<>> PROVE Cardinality(Pieces(buf')) = 0
  <2>1. Pieces(buf') = {}
    BY <1>6 DEF Pieces
  <2> QED
    BY <2>1, FS_EmptySet
<1>7. CASE delivery = "halves"
  <2>1. buf' = <<>>
    BY <1>1, <1>7 DEF HalvesInTurn
  <2> QED
    BY <1>5, <1>6, <1>7, <2>1
<1>8. CASE delivery = "messages"
  <2>1. /\ Cardinality(Arrived) \in Nat /\ Cardinality(Arrived') \in Nat
        /\ Cardinality(Arrived) <= Cardinality(Arrived')
        /\ sent[wire[1].msg].kind = "frame" /\ wire[1].msg \in DOMAIN sent =>
             Cardinality(Arrived) + 1 <= Cardinality(Arrived')
    BY <1>8, ArrivedIs
  <2>2. CASE Serve(b)
    <3>1. buf' = <<>>
      BY <2>2 DEF Serve
    <3>2. Cardinality(Pieces(buf')) = 0
      BY <1>6, <3>1
    <3> QED
      BY <1>5, <1>8, <2>1, <3>2
  <2>3. CASE FrameHead(b) \/ FrameBody(b)
    <3> DEFINE m == wire[1].msg
               c == <<m, "start">>
               d == IF sent[m].kind = "frame" THEN <<m, "body">> ELSE c
               H == Pieces(buf)
               G == Pieces(buf')
    <3>1. /\ m \in DOMAIN sent
          /\ G \subseteq H \union {c, d}
          /\ Half(b[1]) \in H \union {c, d} /\ Half(b[1]) \notin G
      BY <1>8, <2>3, HalvesOf
    <3>2. IsFiniteSet(H) /\ Cardinality(H) \in Nat
      BY <1>1, HalvesFinite DEF TypeOK
    <3>3. Cardinality(H) <= Cardinality(Arrived)
      BY <1>8 DEF FewPieces
    <3>4. sent[m].kind # "frame" => c = d
      OBVIOUS
    <3> HIDE DEF c, d, H, G
    <3>5. /\ Cardinality(G) <= Cardinality(H) + 1
          /\ c = d => Cardinality(G) <= Cardinality(H)
      BY <3>1, <3>2, Exchange
    <3>6. G \in SUBSET (H \union {c, d}) /\ IsFiniteSet(H \union {c, d})
      <4>1. H \union {c, d} = (H \union {c}) \union {d}
        OBVIOUS
      <4>2. IsFiniteSet(H \union {c})
        BY <3>2, FS_AddElement
      <4> QED
        BY <3>1, <4>1, <4>2, FS_AddElement
    <3>7. Cardinality(G) \in Nat
      <4>1. IsFiniteSet(G)
        BY <3>6, FS_Subset
      <4> QED
        BY <4>1, FS_CardinalityType
    <3>8. Cardinality(G) <= Cardinality(Arrived')
      <4>1. CASE sent[m].kind = "frame"
        BY <2>1, <3>1, <3>2, <3>3, <3>5, <3>7, <4>1
      <4>2. CASE sent[m].kind # "frame"
        BY <2>1, <3>2, <3>3, <3>4, <3>5, <3>7, <4>2
      <4> QED
        BY <4>1, <4>2
    <3> QED
      BY <1>5, <1>8, <3>8 DEF G
  <2> QED
    BY <1>4, <2>2, <2>3
<1> QED
  BY <1>3, <1>7, <1>8
-----------------------------------------------------------------------------
(* Sending *)

(* A message that is sent begins behind those that are on their way. *)
LEMMA SendWhole ==
    ASSUME Framed, WholeMessages, HalvesInTurn, NEW msg, Sends(msg)
    PROVE  WholeMessages' /\ HalvesInTurn'
<1> DEFINE last == Len(sent) + 1
           L == Len(Stream)
           P == Len(Parts(msg))
<1>1. TypeOK /\ LastServed' = LastServed
  BY SendKeeps DEF Framed
<1>2. /\ msg \in Requests \union Frames /\ sent' = Append(sent, msg) /\ buf' = buf
      /\ wire' = wire \o Symbols(msg, Len(sent) + 1)
      /\ lockstep' = lockstep /\ delivery' = delivery /\ next' = next
  BY DEF Sends
<1>3. /\ Len(sent') = last /\ DOMAIN sent' = 1 .. last /\ Len(sent) \in Nat
      /\ DOMAIN sent = 1 .. Len(sent)
      /\ \A i \in DOMAIN sent : sent'[i] = sent[i]
      /\ sent'[last] = msg
      /\ Stream' \in Seq(SymbolType') /\ Len(Stream') = L + P
      /\ wire' \in Seq(SymbolType')
      /\ \A k \in 1 .. L : Stream'[k] = Stream[k]
      /\ \A n \in 1 .. P : Stream'[L + n] = SymbolOf(msg, last, n)
      /\ \A i \in DOMAIN sent, n \in Nat : Symbol(i, n)' = Symbol(i, n)
      /\ wire = <<>> => wire'[1] = SymbolOf(msg, last, 1)
      /\ wire # <<>> => wire'[1] = wire[1]
  BY <1>1, <1>2, SendIs, LenProperties DEF TypeOK
<1>4. P \in Nat /\ P >= 3 /\ L \in Nat /\ DOMAIN Stream = 1 .. L
      /\ DOMAIN Stream' = 1 .. L + P /\ wire \in Seq(SymbolType) /\ Stream \in Seq(SymbolType)
  <2>1. P \in Nat /\ P >= 3
    BY <1>2, MessageParts DEF Message
  <2> QED
    BY <1>1, <1>3, <2>1, StreamIs, LenProperties DEF TypeOK
<1>5. SymbolOf(msg, last, 1).n = 1 /\ SymbolOf(msg, last, 1).msg = last
  BY DEF SymbolOf
<1>6. \A i : Symbol(i, 1)' = SymbolOf(sent'[i], i, 1)
  BY DEF Symbol
<1>7. wire' # <<>>
  BY <1>1, <1>2, SendIs
<1> HIDE DEF L, P, last
<1>9. ASSUME Stream = <<>> PROVE Stream'[1] = SymbolOf(msg, last, 1)
  <2>1. L = 0
    BY <1>9 DEF L
  <2>2. L + 1 = 1 /\ 1 \in 1 .. P
    BY <1>4, <2>1
  <2>3. Stream'[L + 1] = SymbolOf(msg, last, 1)
    BY <1>3, <2>2
  <2> QED
    BY <2>2, <2>3
<1>10. ASSUME Stream # <<>> PROVE Stream'[1] = Stream[1]
  <2>1. L \in Nat \ {0}
    BY <1>4, <1>10, EmptySeq DEF L
  <2>2. 1 \in 1 .. L
    BY <2>1
  <2> QED
    BY <1>3, <2>2
<1>11. ASSUME delivery = "messages" PROVE WholeMessages'
  <2>1. wire' # <<>> => wire'[1].n = 1
    BY <1>3, <1>5, <1>11 DEF WholeMessages
  <2>2. Stream' # <<>> /\ next'.type = "none" => Stream'[1].n = 1
    BY <1>2, <1>5, <1>9, <1>10, <1>11 DEF WholeMessages
  <2>3. ASSUME lockstep, NEW i \in DOMAIN sent', sent'[i].kind = "request", i > LastServed
        PROVE  \E j \in DOMAIN Stream' : Stream'[j] = Symbol(i, 1)'
    <3>1. CASE i \in DOMAIN sent
      <4>1. sent[i].kind = "request" /\ Symbol(i, 1)' = Symbol(i, 1)
        <5>1. 1 \in Nat
          OBVIOUS
        <5> QED
          BY <1>3, <2>3, <3>1, <5>1
      <4>2. PICK j \in DOMAIN Stream : Stream[j] = Symbol(i, 1)
        BY <1>11, <2>3, <3>1, <4>1 DEF WholeMessages
      <4>3. j \in DOMAIN Stream' /\ Stream'[j] = Stream[j]
        BY <1>3, <1>4
      <4> QED
        BY <4>1, <4>2, <4>3
    <3>2. CASE i \notin DOMAIN sent
      <4>1. i = last
        BY <1>3, <2>3, <3>2 DEF last
      <4>2. Symbol(i, 1)' = SymbolOf(msg, last, 1)
        BY <1>3, <1>6, <4>1
      <4>3. L + 1 \in DOMAIN Stream' /\ 1 \in 1 .. P
        BY <1>4
      <4>4. Stream'[L + 1] = SymbolOf(msg, last, 1)
        BY <1>3, <4>3
      <4> QED
        BY <4>2, <4>3, <4>4
    <3> QED
      BY <3>1, <3>2
  <2> QED
    BY <1>1, <1>2, <2>1, <2>2, <2>3 DEF WholeMessages
<1>12. ASSUME delivery = "halves" PROVE HalvesInTurn'
  <2>1. buf' = <<>>
    BY <1>2, <1>12 DEF HalvesInTurn
  <2>2. wire'[1].msg = LastServed + 1 /\ (next.type = "none" => wire'[1].n = 1)
    BY <1>3, <1>5, <1>12 DEF HalvesInTurn, last
  <2> QED
    BY <1>1, <1>2, <1>7, <2>1, <2>2 DEF HalvesInTurn
<1> QED
  BY <1>2, <1>11, <1>12 DEF WholeMessages, HalvesInTurn

(* Sending takes neither a header nor a half away. *)
LEMMA SendHeaders ==
    ASSUME Framed, OwnHeaders, FewPieces, NEW msg, Sends(msg)
    PROVE  OwnHeaders' /\ FewPieces'
<1>1. TypeOK
  BY DEF Framed
<1>2. /\ msg \in Requests \union Frames /\ sent' = Append(sent, msg) /\ buf' = buf
      /\ wire' = wire \o Symbols(msg, Len(sent) + 1)
      /\ lockstep' = lockstep /\ delivery' = delivery /\ next' = next
      /\ served' = served /\ closed' = closed
  BY DEF Sends
<1>3. /\ Len(sent) \in Nat /\ DOMAIN sent = 1 .. Len(sent) /\ DOMAIN sent' = 1 .. Len(sent) + 1
      /\ \A i \in DOMAIN sent : sent'[i] = sent[i]
  BY <1>1, <1>2, SendIs, LenProperties DEF TypeOK
<1>4. care' = care
  BY <1>2 DEF care
<1>5. OwnHeaders'
  <2>1. \A k \in DOMAIN served : sent'[served[k].msg] = sent[served[k].msg]
    BY <1>1, <1>3, LastServedIs
  <2> QED
    BY <1>2, <1>4, <2>1 DEF OwnHeaders
<1>6. Arrived \subseteq Arrived'
  <2> SUFFICES ASSUME NEW i \in DOMAIN sent, sent[i].kind = "frame",
                      NEW k \in DOMAIN wire', wire'[k].msg = i
               PROVE  \E j \in DOMAIN wire : wire[j].msg = i
    <3>1. DOMAIN sent \subseteq DOMAIN sent'
      BY <1>3
    <3> QED
      BY <1>3, <3>1 DEF Arrived
  <2>1. Symbols(msg, Len(sent) + 1) = [n \in 1 .. Len(Parts(msg)) |-> SymbolOf(msg, Len(sent) + 1, n)]
        /\ Len(Parts(msg)) \in Nat
    BY <1>2, MessageParts DEF Symbols, Message
  <2> DEFINE new == [n \in 1 .. Len(Parts(msg)) |-> SymbolOf(msg, Len(sent) + 1, n)]
  <2>2. wire \in Seq(SymbolType) /\ Len(wire) \in Nat /\ DOMAIN wire = 1 .. Len(wire)
    BY <1>1, LenProperties DEF TypeOK
  <2>3. \A n \in 1 .. Len(Parts(msg)) : new[n].msg = Len(sent) + 1
    BY DEF SymbolOf
  <2>4. new \in Seq({SymbolOf(msg, Len(sent) + 1, n) : n \in Nat}) /\ Len(new) = Len(Parts(msg))
    BY <2>1
  <2> HIDE DEF new
  <2>5. wire' = wire \o new
    BY <1>2, <2>1 DEF new
  <2>6. /\ k \in 1 .. Len(wire) + Len(new)
        /\ wire'[k] = IF k <= Len(wire) THEN wire[k] ELSE new[k - Len(wire)]
    BY <2>2, <2>4, <2>5
  <2>7. CASE k <= Len(wire)
    <3>1. k \in DOMAIN wire /\ wire'[k] = wire[k]
      BY <2>2, <2>4, <2>6, <2>7
    <3> QED
      BY <3>1
  <2>8. CASE ~(k <= Len(wire))
    <3>1. k - Len(wire) \in 1 .. Len(Parts(msg)) /\ wire'[k] = new[k - Len(wire)]
      BY <2>1, <2>2, <2>4, <2>6, <2>8
    <3>2. i = Len(sent) + 1
      BY <2>3, <3>1
    <3> QED
      BY <1>3, <3>2
  <2> QED
    BY <2>7, <2>8
<1>7. Cardinality(Arrived) <= Cardinality(Arrived')
  <2>1. IsFiniteSet(DOMAIN sent')
    BY <1>3, FS_Interval
  <2>2. Arrived' \in SUBSET DOMAIN sent'
    BY DEF Arrived
  <2>3. IsFiniteSet(Arrived')
    BY <2>1, <2>2, FS_Subset
  <2> QED
    BY <1>6, <2>3, FS_Subset
<1>8. /\ Cardinality(Pieces(buf)) \in Nat /\ Cardinality(Arrived) \in Nat
      /\ Cardinality(Arrived') \in Nat
  <2>1. Cardinality(Pieces(buf)) \in Nat
    BY <1>1, HalvesFinite DEF TypeOK
  <2>2. IsFiniteSet(DOMAIN sent')
    BY <1>3, FS_Interval
  <2>3. Arrived' \in SUBSET DOMAIN sent'
    BY DEF Arrived
  <2>4. IsFiniteSet(Arrived')
    BY <2>2, <2>3, FS_Subset
  <2>5. IsFiniteSet(Arrived)
    BY <1>6, <2>4, FS_Subset
  <2> QED
    BY <2>1, <2>4, <2>5, FS_CardinalityType
<1>9. Pieces(buf)' = Pieces(buf)
  BY <1>2 DEF Pieces
<1>10. FewPieces'
  BY <1>2, <1>4, <1>7, <1>8, <1>9 DEF FewPieces
<1> QED
  BY <1>5, <1>10
-----------------------------------------------------------------------------
(* The inductive invariant *)

(* The invariant holds in the beginning, *)
LEMMA IInvInit == Init => IInv
<1> SUFFICES ASSUME Init PROVE IInv
  OBVIOUS
<1>1. Framed
  BY FramedInit
<1>2. sent = <<>> /\ wire = <<>> /\ buf = <<>> /\ served = <<>> /\ closed = FALSE
  BY DEF Init
<1>3. DOMAIN sent = {} /\ DOMAIN served = {} /\ Stream = <<>>
  <2>1. <<>> \in Seq({}) /\ <<>> \o <<>> = <<>> /\ DOMAIN <<>> = {}
    BY EmptySeq, ConcatEmptySeq
  <2> QED
    BY <1>2, <2>1 DEF Stream
<1>4. WholeMessages
  BY <1>2, <1>3 DEF WholeMessages
<1>5. HalvesInTurn
  <2>1. Len(sent) = 0 /\ LastServed = 0
    BY <1>2 DEF LastServed
  <2> QED
    BY <1>2, <2>1 DEF HalvesInTurn
<1>6. OwnHeaders
  BY <1>3 DEF OwnHeaders
<1>7. FewPieces
  <2>1. Pieces(buf) = {} /\ Arrived = {}
    BY <1>2, <1>3 DEF Pieces, Arrived
  <2> QED
    BY <1>2, <2>1, FS_EmptySet DEF FewPieces
<1> QED
  BY <1>1, <1>4, <1>5, <1>6, <1>7 DEF IInv, Framed

(* after each read event, *)
LEMMA IInvRead ==
    ASSUME IInv, NEW n, Takes(n)
    PROVE  IInv'
<1> DEFINE b == buf \o SubSeq(wire, 1, n)
           rest == Drop(wire, n)
<1>1. Framed /\ WholeMessages /\ HalvesInTurn /\ OwnHeaders /\ FewPieces /\ TypeOK
  BY DEF IInv, Framed
<1>2. CutWell(b)
  BY <1>1, CutIs
<1>3. Arrival(b, rest) /\ OnMessage(b) /\ wire # <<>>
  BY <1>1, TakesIs DEF Takes
<1> HIDE DEF b, rest
<1>4. Len(buf) <= Len(b)
  <2>1. n \in DOMAIN wire /\ Len(buf) \in Nat /\ Len(wire) \in Nat
        /\ DOMAIN wire = 1 .. Len(wire) /\ wire \in Seq(SymbolType) /\ buf \in Seq(SymbolType)
    BY <1>1, TakesIs, StreamIs, LenProperties DEF TypeOK
  <2>2. Len(rest) = Len(wire) - n /\ n \in Nat /\ n <= Len(wire)
    <3>1. n \in 0 .. Len(wire) /\ n \in Nat /\ n <= Len(wire)
      BY <2>1
    <3>2. Len(Drop(wire, n)) = Len(wire) - n
      BY <2>1, <3>1, DropIs, Zenon
    <3> QED
      BY <3>1, <3>2 DEF rest
  <2>3. Len(b) + Len(rest) = Len(Stream) /\ Len(b) \in Nat
    BY <1>3 DEF Arrival, Arrives
  <2>4. Len(Stream) = Len(buf) + Len(wire)
    BY <1>1, StreamIs, Zenon
  <2> QED
    BY <2>1, <2>2, <2>3, <2>4
<1>5. Framed'
  BY <1>1, <1>3, FramedRead
<1>6. delivery' = delivery
  BY <1>3 DEF Arrival
<1>7. WholeMessages'
  <2>1. CASE delivery = "messages"
    BY <1>1, <1>2, <1>3, <2>1, WholeFollows
  <2>2. CASE delivery # "messages"
    BY <1>6, <2>2 DEF WholeMessages
  <2> QED
    BY <2>1, <2>2
<1>8. HalvesInTurn'
  <2>1. CASE delivery = "halves"
    BY <1>1, <1>2, <1>3, <2>1, HalvesFollow
  <2>2. CASE delivery # "halves"
    BY <1>6, <2>2 DEF HalvesInTurn
  <2> QED
    BY <2>1, <2>2
<1>9. OwnHeaders'
  BY <1>1, <1>2, <1>3, HeadersFollow
<1>10. FewPieces'
  BY <1>1, <1>2, <1>3, <1>4, <1>8, KeepsFollows
<1> QED
  BY <1>5, <1>7, <1>8, <1>9, <1>10 DEF IInv, Framed

(* when nothing happens, *)
LEMMA IInvStutter ==
    ASSUME IInv, UNCHANGED vars
    PROVE  IInv'
<1>1. /\ lockstep' = lockstep /\ delivery' = delivery /\ sent' = sent /\ wire' = wire
      /\ buf' = buf /\ next' = next /\ served' = served /\ replies' = replies
      /\ closed' = closed
  BY DEF vars
<1>2. Stream' = Stream /\ LastServed' = LastServed /\ care' = care /\ Arrived' = Arrived
      /\ Pieces(buf)' = Pieces(buf) /\ RequestsSent' = RequestsSent
      /\ SymbolType' = SymbolType /\ Handled' = Handled /\ NoFrame' = NoFrame
  BY <1>1 DEF Stream, LastServed, care, Arrived, Pieces, RequestsSent, SymbolType, Handled,
              NoFrame
<1>3. \A i : IsServed(i)' <=> IsServed(i)
  BY <1>1 DEF IsServed
<1>4. \A i, n : Symbol(i, n)' = Symbol(i, n)
  BY <1>1 DEF Symbol
<1>5. ServedRequests' = ServedRequests
  BY <1>1, <1>3 DEF ServedRequests
<1>6. TypeOK'
  BY <1>1, <1>2 DEF IInv, TypeOK
<1>7. StreamIsRest'
  BY <1>1, <1>2, <1>4 DEF IInv, StreamIsRest
<1>8. ServedIsPast' /\ FramesOwn' /\ OwnHeaders'
  BY <1>1, <1>2 DEF IInv, ServedIsPast, FramesOwn, OwnHeaders
<1>9. BodyFollows'
  BY <1>1, <1>2 DEF IInv, BodyFollows
<1>10. RequestsInTurn'
  BY <1>1, <1>3, <1>5 DEF IInv, RequestsInTurn
<1>11. WholeMessages' /\ HalvesInTurn'
  BY <1>1, <1>2, <1>4 DEF IInv, WholeMessages, HalvesInTurn
<1>12. FewPieces'
  BY <1>1, <1>2 DEF IInv, FewPieces
<1> QED
  BY <1>6, <1>7, <1>8, <1>9, <1>10, <1>11, <1>12 DEF IInv

(* and so after each step. *)
LEMMA IInvNext == IInv /\ [Next]_vars => IInv'
<1> SUFFICES ASSUME IInv, [Next]_vars PROVE IInv'
  OBVIOUS
<1>1. ASSUME NEW msg \in Requests \union Frames, Sends(msg) PROVE IInv'
  <2>1. Framed /\ WholeMessages /\ HalvesInTurn /\ OwnHeaders /\ FewPieces
    BY DEF IInv, Framed
  <2>2. Framed' /\ WholeMessages' /\ HalvesInTurn' /\ OwnHeaders' /\ FewPieces'
    BY <1>1, <2>1, SendKeeps, SendWhole, SendHeaders
  <2> QED
    BY <2>2 DEF IInv, Framed
<1>2. CASE Next
  BY <1>1, <1>2, NextIs, IInvRead
<1>3. CASE UNCHANGED vars
  BY <1>3, IInvStutter
<1> QED
  BY <1>2, <1>3

(* However the stream is cut and whatever the client sends: the invariant  *)
(* of the parser holds.                                                    *)
THEOREM Invariant == Spec => []IInv
<1>1. Init => IInv
  BY IInvInit
<1>2. IInv /\ [Next]_vars => IInv'
  BY IInvNext
<1> QED
  BY <1>1, <1>2, PTL DEF Spec

(* Types are kept: next_ilframe_ is reset with next_type_. *)
THEOREM TypeCorrect == Spec => []TypeOK
<1>1. IInv => TypeOK
  BY DEF IInv
<1> QED
  BY <1>1, Invariant, PTL

(* A client that waits for responses gets its own headers applied, or none. *)
THEOREM HeadersAreOwn == Spec => []OwnHeaders
<1>1. IInv => OwnHeaders
  BY DEF IInv
<1> QED
  BY <1>1, Invariant, PTL

(* A client that waits has no more than one request in the buffer: the    *)
(* stream is beyond what was served, and earlier requests were served.     *)
LEMMA OneRequestWaits ==
    ASSUME IInv, care # "any",
           NEW i \in DOMAIN buf, NEW j \in DOMAIN buf,
           sent[buf[i].msg].kind = "request", sent[buf[j].msg].kind = "request"
    PROVE  buf[i].msg = buf[j].msg
<1>1. TypeOK /\ StreamIsRest /\ ServedIsPast
  BY DEF IInv
<1>2. buf = <<>> => FALSE
  OBVIOUS
<1>3. delivery = "messages" /\ lockstep
  BY <1>2, CareIs DEF IInv, HalvesInTurn
<1>4. /\ i \in 1 .. Len(buf) /\ j \in 1 .. Len(buf)
      /\ i \in 1 .. Len(Stream) /\ j \in 1 .. Len(Stream) /\ 1 \in 1 .. Len(Stream)
      /\ 1 <= i /\ 1 <= j
      /\ Stream[i] = buf[i] /\ Stream[j] = buf[j]
      /\ DOMAIN Stream = 1 .. Len(Stream)
  <2>1. DOMAIN buf = 1 .. Len(buf)
    BY <1>1, LenProperties DEF TypeOK
  <2> QED
    BY <1>1, <2>1, StreamIs
<1>5. Stream # <<>>
  <2>1. Stream \in Seq(SymbolType)
    BY <1>1, StreamIs
  <2> QED
    BY <1>4, <2>1, EmptySeq
<1>6. Stream[1].msg > LastServed
  <2>1. \/ Stream[1].msg > LastServed
        \/ Stream[1].n > 1 /\ sent[Stream[1].msg].kind = "request"
    BY <1>1, <1>4 DEF ServedIsPast
  <2>2. CASE next.type = "none"
    <3>1. Stream[1].n = 1
      BY <1>3, <1>5, <2>2 DEF IInv, WholeMessages
    <3> QED
      BY <2>1, <3>1
  <2>3. CASE next.type # "none"
    <3>1. next.type = "frame"
      BY <1>1, <2>3 DEF TypeOK
    <3>2. sent[Stream[1].msg].kind = "frame"
      BY <3>1 DEF IInv, BodyFollows
    <3> QED
      BY <2>1, <3>2
  <2> QED
    BY <2>2, <2>3
<1>7. ASSUME NEW k \in 1 .. Len(Stream), 1 <= k PROVE ~IsServed(Stream[k].msg)
  <2>1. /\ Stream[1].msg <= Stream[k].msg /\ Stream[1].msg \in Nat
        /\ Stream[k].msg \in Nat /\ LastServed \in Nat
    BY <1>1, <1>4, <1>7, InOrder, StreamIs, LastServedIs
  <2>2. \A d \in DOMAIN served : served[d].msg <= LastServed
    BY <1>1 DEF ServedIsPast
  <2> QED
    BY <1>6, <2>1, <2>2 DEF IsServed
<1>8. /\ \A p, q \in DOMAIN sent :
            p < q /\ sent[p].kind = "request" /\ sent[q].kind = "request" => IsServed(p)
  BY <1>3 DEF IInv, RequestsInTurn
<1>9. /\ Stream[i].msg \in Nat /\ Stream[j].msg \in Nat
      /\ Stream[i].msg \in DOMAIN sent /\ Stream[j].msg \in DOMAIN sent
  BY <1>1, <1>4, StreamIs
<1>10. ~(Stream[i].msg < Stream[j].msg) /\ ~(Stream[j].msg < Stream[i].msg)
  BY <1>4, <1>7, <1>8, <1>9
<1>11. Stream[i].msg = Stream[j].msg
  BY ONLY <1>9, <1>10
<1> QED
  BY <1>4, <1>11

(* A connection to a client that waits falls behind by no more than one    *)
(* piece for each frame that arrived with its head and body together, and  *)
(* of requests no more than one waits.                                     *)
THEOREM KeepsUpWithFrames == Spec => []KeepsUp
<1>1. IInv => KeepsUp
  <2> SUFFICES ASSUME IInv PROVE KeepsUp
    OBVIOUS
  <2> QED
    BY OneRequestWaits, Zenon DEF IInv, KeepsUp
<1> QED
  BY <1>1, Invariant, PTL

(* A frame is handled with the channel of its own head and its own body.   *)
THEOREM FramesKeepTheirBody == Spec => []FramesOwn
<1>1. IInv => FramesOwn
  BY DEF IInv
<1> QED
  BY <1>1, Invariant, PTL
-----------------------------------------------------------------------------
(* What the connection promises *)

SentKinds == [i \in DOMAIN sent |-> sent[i].kind]
ServedMessages == [i \in DOMAIN served |-> served[i].msg]

(* A function on 1 .. n is a sequence. *)
LEMMA FunctionIsSeq ==
    ASSUME NEW S, NEW n \in Nat, NEW f \in [1 .. n -> S]
    PROVE  f \in Seq(S) /\ Len(f) = n
<1>1. f \in Seq(S)
  BY SeqDef
<1>2. DOMAIN f = 1 .. n
  OBVIOUS
<1>3. DOMAIN f = 1 .. Len(f) /\ Len(f) \in Nat
  BY <1>1, LenProperties
<1>4. Len(f) = n
  BY <1>2, <1>3
<1> QED
  BY <1>1, <1>4

(* A sequence that has one element more is the other with it appended. *)
LEMMA AppendIs ==
    ASSUME NEW S, NEW q \in Seq(S), NEW p \in Seq(S), NEW x \in S,
           Len(p) = Len(q) + 1, \A k \in 1 .. Len(q) : p[k] = q[k],
           p[Len(q) + 1] = x
    PROVE  p = Append(q, x)
<1>1. /\ Append(q, x) \in Seq(S) /\ Len(Append(q, x)) = Len(q) + 1 /\ Len(q) \in Nat
      /\ \A k \in 1 .. Len(q) : Append(q, x)[k] = q[k]
      /\ Append(q, x)[Len(q) + 1] = x
  BY AppendProperties, LenProperties
<1>2. ASSUME NEW k \in 1 .. Len(p) PROVE p[k] = Append(q, x)[k]
  <2>1. k \in 1 .. Len(q) \/ k = Len(q) + 1
    BY <1>1
  <2> QED
    BY <1>1, <2>1
<1> QED
  BY <1>1, <1>2, SeqEqual

(* What the service sees of the messages sent and served. *)
LEMMA MapsAre ==
    ASSUME TypeOK
    PROVE  /\ SentKinds \in Seq({"request", "frame"}) /\ Len(SentKinds) = Len(sent)
           /\ ServedMessages \in Seq(Nat) /\ Len(ServedMessages) = Len(served)
           /\ LastServed = IF ServedMessages = <<>> THEN 0
                           ELSE ServedMessages[Len(ServedMessages)]
<1>1. /\ sent \in Seq(Message) /\ Len(sent) \in Nat /\ DOMAIN sent = 1 .. Len(sent)
      /\ served \in Seq(Handled)
  BY LenProperties DEF TypeOK, Message
<1>2. /\ Len(served) \in Nat /\ DOMAIN served = 1 .. Len(served)
      /\ \A k \in DOMAIN served : served[k].msg \in Nat
  BY LastServedIs
<1>3. \A i \in DOMAIN sent : sent[i].kind \in {"request", "frame"}
  BY SentIs, MessageParts
<1>4. SentKinds \in Seq({"request", "frame"}) /\ Len(SentKinds) = Len(sent)
  <2>1. SentKinds \in [1 .. Len(sent) -> {"request", "frame"}]
    BY <1>1, <1>3 DEF SentKinds
  <2> QED
    BY <1>1, <2>1, FunctionIsSeq
<1>5. ServedMessages \in Seq(Nat) /\ Len(ServedMessages) = Len(served)
  <2>1. ServedMessages \in [1 .. Len(served) -> Nat]
    BY <1>2 DEF ServedMessages
  <2> QED
    BY <1>2, <2>1, FunctionIsSeq
<1>6. ServedMessages = <<>> <=> served = <<>>
  BY <1>1, <1>5, EmptySeq
<1>7. served # <<>> => ServedMessages[Len(served)] = served[Len(served)].msg
  <2>1. served # <<>> => Len(served) \in DOMAIN served
    BY <1>1, <1>2, EmptySeq
  <2> QED
    BY <2>1 DEF ServedMessages
<1> QED
  BY <1>4, <1>5, <1>6, <1>7 DEF LastServed

(* The service begins empty. *)
LEMMA ServiceInit == Init => Service!Init
<1> SUFFICES ASSUME Init PROVE Service!Init
  OBVIOUS
<1>1. TypeOK
  BY FramedInit DEF Framed
<1>2. Len(sent) = 0 /\ Len(served) = 0
  BY DEF Init
<1>3. SentKinds = <<>> /\ ServedMessages = <<>>
  BY <1>1, <1>2, MapsAre, EmptySeq
<1> QED
  BY <1>3, CareIs DEF Service!Init, Service!Care, SentKinds, ServedMessages

(* A client that sends a message sends it to the service. *)
LEMMA SendImplements ==
    ASSUME TypeOK, TypeOK', NEW msg, Sends(msg)
    PROVE  Service!Send
<1>1. /\ msg \in Message /\ sent' = Append(sent, msg) /\ served' = served /\ care' = care
  BY DEF Sends, Message, care
<1>2. msg.kind \in {"request", "frame"}
  BY <1>1, MessageParts
<1>4. /\ Len(sent) \in Nat /\ DOMAIN sent = 1 .. Len(sent)
      /\ DOMAIN sent' = 1 .. Len(sent) + 1 /\ Len(sent') = Len(sent) + 1
      /\ \A i \in 1 .. Len(sent) : sent'[i] = sent[i]
      /\ sent'[Len(sent) + 1] = msg /\ sent' \in Seq(Message)
  BY <1>1, LenProperties, AppendProperties DEF TypeOK, Message
<1>5. SentKinds' = [i \in DOMAIN sent' |-> sent'[i].kind]
  BY DEF SentKinds
<1>6. SentKinds = [i \in DOMAIN sent |-> sent[i].kind]
  BY DEF SentKinds
<1>3. /\ SentKinds \in Seq({"request", "frame"}) /\ Len(SentKinds) = Len(sent)
      /\ SentKinds' \in Seq({"request", "frame"}) /\ Len(SentKinds') = Len(sent) + 1
  <2>1. SentKinds \in Seq({"request", "frame"}) /\ Len(SentKinds) = Len(sent)
    BY MapsAre
  <2> DEFINE f == [i \in 1 .. Len(sent) + 1 |-> sent'[i].kind]
  <2>2. \A i \in 1 .. Len(sent) + 1 : sent'[i].kind \in {"request", "frame"}
    <3> TAKE i \in 1 .. Len(sent) + 1
    <3>1. sent'[i] \in Message
      BY <1>4, ElementOfSeq
    <3> QED
      BY <3>1, MessageParts
  <2>3. f \in [1 .. Len(sent) + 1 -> {"request", "frame"}]
    BY <2>2
  <2>4. SentKinds' = f
    BY <1>4, <1>5
  <2> HIDE DEF f
  <2>5. f \in Seq({"request", "frame"}) /\ Len(f) = Len(sent) + 1
    BY <1>4, <2>3, FunctionIsSeq
  <2> QED
    BY <2>1, <2>4, <2>5
<1>7. /\ \A k \in 1 .. Len(SentKinds) : SentKinds'[k] = SentKinds[k]
      /\ SentKinds'[Len(SentKinds) + 1] = msg.kind
  BY <1>3, <1>4, <1>5, <1>6
<1>8. SentKinds' = Append(SentKinds, msg.kind)
  <2> DEFINE p == SentKinds'
  <2>1. p \in Seq({"request", "frame"}) /\ Len(p) = Len(SentKinds) + 1
        /\ (\A k \in 1 .. Len(SentKinds) : p[k] = SentKinds[k])
        /\ p[Len(SentKinds) + 1] = msg.kind
    BY <1>3, <1>4, <1>7
  <2> HIDE DEF p
  <2>2. p = Append(SentKinds, msg.kind)
    BY <1>2, <1>3, <2>1, AppendIs
  <2> QED
    BY <2>2 DEF p
<1>9. ServedMessages' = ServedMessages
  BY <1>1 DEF ServedMessages
<1> QED
  BY <1>1, <1>2, <1>8, <1>9 DEF Service!Send, SentKinds, ServedMessages

(* One more message is served, and what is passed over may be lost. *)
LEMMA ServeImplements ==
    ASSUME Framed, NEW b, NEW rest, Arrival(b, rest), WholeMessages, CutWell(b),
           NEW h \in Handled, served' = Append(served, h), h.msg > LastServed,
           care # "any" => h.msg = First
    PROVE  Service!Serve
<1>1. /\ TypeOK /\ StreamIsRest /\ Arrives(b, rest) /\ sent' = sent /\ care' = care
  BY DEF Framed, Arrival, care
<1>2. /\ ServedMessages \in Seq(Nat) /\ Len(ServedMessages) = Len(served)
      /\ LastServed = IF ServedMessages = <<>> THEN 0 ELSE ServedMessages[Len(ServedMessages)]
      /\ SentKinds \in Seq({"request", "frame"}) /\ Len(SentKinds) = Len(sent)
  BY <1>1, MapsAre
<1>3. /\ h.msg \in DOMAIN sent /\ h.msg \in Nat /\ h.msg <= Len(sent) /\ Len(sent) \in Nat
      /\ LastServed \in Nat /\ DOMAIN sent = 1 .. Len(sent)
  <2>1. h.msg \in DOMAIN sent
    BY DEF Handled
  <2> QED
    BY <1>1, <2>1, SentIs, LastServedIs
<1>4. h.msg \in LastServed + 1 .. Len(SentKinds)
  BY <1>2, <1>3
<1>5. ASSUME NEW j \in LastServed + 1 .. h.msg - 1
      PROVE  care = "any" \/ (care = "frames" /\ SentKinds[j] = "frame")
  <2>1. j \in DOMAIN sent /\ j > LastServed /\ j < h.msg /\ j \in Nat
    BY <1>3
  <2>2. sent[j].kind \in {"request", "frame"} /\ SentKinds[j] = sent[j].kind
    <3>1. sent[j] \in Message
      BY <1>1, <2>1, SentIs
    <3> QED
      BY <2>1, <3>1, MessageParts DEF SentKinds
  <2>3. ASSUME care # "any", delivery = "halves" PROVE FALSE
    BY <1>3, <2>1, <2>3 DEF CutWell
  <2>4. ASSUME care # "any", delivery = "messages", lockstep, sent[j].kind = "request"
        PROVE  FALSE
    <3>1. PICK k \in DOMAIN Stream : Stream[k] = Symbol(j, 1)
      BY <2>1, <2>4 DEF WholeMessages
    <3>2. Stream[k].msg = j
      BY <3>1 DEF Symbol, SymbolOf
    <3>3. k \in 1 .. Len(Stream) /\ 1 \in 1 .. Len(Stream) /\ 1 <= k
      BY <1>1, <3>1, StreamIs
    <3>4. First <= j
      BY <1>1, <3>2, <3>3, InOrder DEF First
    <3> QED
      BY <1>3, <2>1, <2>4, <3>4
  <2>5. care # "any" => delivery = "halves" \/ (delivery = "messages" /\ lockstep)
    BY CareIs
  <2>6. delivery = "messages" /\ lockstep => care = "frames"
    BY CareIs
  <2> QED
    BY <2>2, <2>3, <2>4, <2>5, <2>6
<1>6. ServedMessages' = Append(ServedMessages, h.msg)
  <2>1. /\ Len(served) \in Nat /\ DOMAIN served = 1 .. Len(served)
        /\ served \in Seq(Handled)
        /\ \A k \in DOMAIN served : served[k].msg \in Nat
    BY <1>1, LastServedIs DEF TypeOK
  <2>2. /\ DOMAIN served' = 1 .. Len(served) + 1
        /\ \A k \in 1 .. Len(served) : served'[k] = served[k]
        /\ served'[Len(served) + 1] = h
    <3>1. /\ served' \in Seq(Handled) /\ Len(served') = Len(served) + 1
          /\ \A k \in 1 .. Len(served) : served'[k] = served[k]
          /\ served'[Len(served) + 1] = h
      BY <2>1, AppendProperties
    <3> QED
      BY <3>1, LenProperties
  <2> DEFINE p == [k \in 1 .. Len(served) + 1 |-> served'[k].msg]
  <2>3. ServedMessages' = p
    BY <2>2 DEF ServedMessages
  <2>4. \A k \in 1 .. Len(served) + 1 : served'[k].msg \in Nat
    <3> TAKE k \in 1 .. Len(served) + 1
    <3>1. k \in 1 .. Len(served) \/ k = Len(served) + 1
      BY <2>1
    <3> QED
      BY <1>3, <2>1, <2>2, <3>1
  <2>5. p \in [1 .. Len(served) + 1 -> Nat]
    BY <2>4
  <2>6. /\ \A k \in 1 .. Len(served) : p[k] = ServedMessages[k]
        /\ p[Len(served) + 1] = h.msg
    BY <2>1, <2>2 DEF ServedMessages
  <2> HIDE DEF p
  <2>7. p \in Seq(Nat) /\ Len(p) = Len(served) + 1
    BY <2>1, <2>5, FunctionIsSeq
  <2>8. p = Append(ServedMessages, h.msg)
    BY <1>2, <1>3, <2>6, <2>7, AppendIs
  <2> QED
    BY <2>3, <2>8
<1>7. Service!Last = LastServed
  BY <1>2 DEF Service!Last, ServedMessages
<1>8. SentKinds' = SentKinds
  BY <1>1 DEF SentKinds
<1>9. \A j \in LastServed + 1 .. h.msg - 1 : Service!MayLose(j)
  BY <1>5 DEF Service!MayLose, SentKinds
<1> QED
  BY <1>1, <1>4, <1>6, <1>7, <1>8, <1>9 DEF Service!Serve, SentKinds, ServedMessages

(* A read event serves one message, or the service does not see it. *)
LEMMA ReadImplements ==
    ASSUME IInv, NEW n, Takes(n)
    PROVE  Service!Serve \/ UNCHANGED Service!vars
<1> DEFINE b == buf \o SubSeq(wire, 1, n)
           rest == Drop(wire, n)
<1>1. Framed /\ WholeMessages /\ HalvesInTurn /\ TypeOK
  BY DEF IInv, Framed
<1>2. CutWell(b)
  BY <1>1, CutIs
<1>3. Arrival(b, rest) /\ OnMessage(b)
  BY <1>1, TakesIs
<1> HIDE DEF b, rest
<1>4. Arrives(b, rest) /\ sent' = sent /\ care' = care
  BY <1>3 DEF Arrival, care
<1>5. CASE served' = served
  BY <1>4, <1>5 DEF Service!vars
<1>6. CASE FrameBody(b)
  <2> DEFINE h == [msg |-> b[1].msg, channel |-> next.channel,
                   packets |-> ParseRTCP(WordsOf(SubSeq(b, 1, next.length))), header |-> 0]
  <2>1. next.type = "frame" /\ served' = Append(served, h)
    BY <1>6 DEF FrameBody, Handle, Awaits
  <2>2. b[1].msg = First /\ First > LastServed
    BY <1>1, <1>4, <2>1, BodyIs
  <2>3. h \in Handled
    BY <1>1, <1>3, <1>6, <2>1, HandledByBody
  <2>4. h.msg = First
    BY <2>2
  <2> HIDE DEF h
  <2> QED
    BY <1>1, <1>2, <1>3, <2>1, <2>2, <2>3, <2>4, ServeImplements
<1>7. CASE Serve(b)
  <2> DEFINE msg == Stream[LineOf(b)].msg
             h == [msg |-> msg, channel |-> 0, packets |-> <<>>,
                   header |-> Header(Behind(b), sent[msg].method)]
  <2>1. served' = Append(served, h) /\ h \in Handled /\ HasLine(b)
    BY <1>1, <1>3, <1>7, ServeKeeps
  <2>2. msg > LastServed
    BY <1>1, <1>4, <2>1, LineIs
  <2>3. ASSUME care # "any" PROVE msg = First
    <3>1. LineOf(b) = 1
      BY <1>1, <1>2, <1>4, <1>7, <2>3, CareIs, NothingWaits
    <3> QED
      BY <3>1 DEF First
  <2>4. h.msg = msg
    OBVIOUS
  <2> HIDE DEF h
  <2> QED
    BY <1>1, <1>2, <1>3, <2>1, <2>2, <2>3, <2>4, ServeImplements
<1> QED
  BY <1>3, <1>5, <1>6, <1>7 DEF OnMessage, AwaitHead, AwaitBody, FrameHead, Refuse

(* Each message is served at most once and in the order sent; if clients    *)
(* wait and messages arrive whole, no request is passed over, and if halves *)
(* arrive on their own, nothing is.                                         *)
THEOREM Implements == Spec => Service!Spec
<1>1. Init => Service!Init
  BY ServiceInit
<1>2. IInv /\ IInv' /\ [Next]_vars => [Service!Next]_(Service!vars)
  <2> SUFFICES ASSUME IInv, IInv', [Next]_vars PROVE Service!Next \/ UNCHANGED Service!vars
    OBVIOUS
  <2>1. ASSUME NEW msg \in Requests \union Frames, Sends(msg) PROVE Service!Send
    BY <2>1, SendImplements DEF IInv
  <2>2. CASE Next
    BY <2>1, <2>2, NextIs, ReadImplements DEF Service!Next
  <2>3. CASE UNCHANGED vars
    BY <2>3 DEF vars, Service!vars, care
  <2> QED
    BY <2>2, <2>3
<1> QED
  BY <1>1, <1>2, Invariant, PTL DEF Spec, Service!Spec
-----------------------------------------------------------------------------
(* The walk over the packets of a frame *)

(* g[p] are the types of the packets that the walk looks at from word p on. *)
WalkAt(words, g, p) ==
    IF p + 2 < Len(words)
    THEN <<words[p + 1].pt>> \o g[p + words[p + 1].length + 1]
    ELSE <<>>
Walks(words, g) == g = [p \in Nat |-> WalkAt(words, g, p)]

(* g is right where at most d words are left. *)
WalksFrom(words, d, g) ==
    \A p \in Nat : Len(words) <= p + d => g[p] = WalkAt(words, g, p)

(* Where more than two words are left there is a header, and the walk goes *)
(* on behind it.                                                           *)
LEMMA WalkGoesOn ==
    ASSUME NEW words \in Seq(Word), NEW p \in Nat, p + 2 < Len(words)
    PROVE  /\ words[p + 1].pt \in STRING
           /\ p + words[p + 1].length + 1 \in Nat
           /\ p < p + words[p + 1].length + 1
<1>1. Len(words) \in Nat /\ p + 1 \in 1 .. Len(words)
  BY LenProperties
<1>2. words[p + 1] \in Word
  BY <1>1, ElementOfSeq
<1>3. words[p + 1].pt \in STRING /\ words[p + 1].length \in Nat
  BY <1>2 DEF Word
<1> QED
  BY <1>3

(* What is put in front is of the same kind. *)
LEMMA ConsTyped ==
    ASSUME NEW S, NEW x \in S, NEW q \in Seq(S)
    PROVE  <<x>> \o q \in Seq(S)
<1>1. <<x>> \in Seq(S)
  OBVIOUS
<1> QED
  BY <1>1, ConcatProperties

(* Every step goes forward, so the walk ends, whatever the lengths say.    *)
LEMMA WalkExists ==
    ASSUME NEW words \in Seq(Word)
    PROVE  \E g \in [Nat -> Seq(STRING)] : Walks(words, g)
<1> DEFINE L == Len(words)
           S == {d \in Nat : \E g \in [Nat -> Seq(STRING)] : WalksFrom(words, d, g)}
<1>1. L \in Nat
  BY LenProperties
<1>2. 0 \in S
  <2> DEFINE g == [p \in Nat |-> <<>>]
  <2>1. g \in [Nat -> Seq(STRING)]
    BY EmptySeq
  <2>2. \A p \in Nat : L <= p + 0 => g[p] = <<>> /\ ~(p + 2 < L)
    BY <1>1
  <2>3. WalksFrom(words, 0, g)
    BY <2>2 DEF WalkAt, WalksFrom
  <2> QED
    BY <2>1, <2>3
<1>3. ASSUME NEW d \in Nat, d \in S PROVE d + 1 \in S
  <2>1. PICK g \in [Nat -> Seq(STRING)] : WalksFrom(words, d, g)
    BY <1>3
  <2> DEFINE h == [p \in Nat |-> IF L <= p + d THEN g[p] ELSE WalkAt(words, g, p)]
  <2>2. ASSUME NEW p \in Nat PROVE WalkAt(words, g, p) \in Seq(STRING)
    <3>1. CASE p + 2 < L
      <4>1. PICK x \in STRING, n \in Nat :
              x = words[p + 1].pt /\ n = p + words[p + 1].length + 1
        BY <3>1, WalkGoesOn
      <4>2. PICK q \in Seq(STRING) : q = g[n]
        OBVIOUS
      <4>3. <<x>> \o q \in Seq(STRING)
        BY ConsTyped
      <4> QED
        BY <3>1, <4>1, <4>2, <4>3 DEF WalkAt
    <3>2. CASE ~(p + 2 < L)
      BY <3>2, EmptySeq DEF WalkAt
    <3> QED
      BY <3>1, <3>2
  <2>3. h \in [Nat -> Seq(STRING)]
    BY <2>2
  <2>4. ASSUME NEW p \in Nat, L <= p + (d + 1) PROVE h[p] = WalkAt(words, g, p)
    BY <2>1 DEF WalksFrom
  <2>5. ASSUME NEW p \in Nat, L <= p + (d + 1) PROVE WalkAt(words, h, p) = WalkAt(words, g, p)
    <3>1. CASE p + 2 < L
      <4>1. PICK n \in Nat : n = p + words[p + 1].length + 1 /\ p < n
        BY <3>1, WalkGoesOn
      <4>2. L <= n + d
        <5>1. p < n /\ L <= p + (d + 1) /\ L \in Nat /\ n \in Nat
          BY <1>1, <2>5, <4>1
        <5> QED
          BY ONLY <5>1, p \in Nat, d \in Nat
      <4>3. h[n] = g[n]
        BY <4>2
      <4> QED
        BY <4>1, <4>3 DEF WalkAt
    <3>2. CASE ~(p + 2 < L)
      BY <3>2 DEF WalkAt
    <3> QED
      BY <3>1, <3>2
  <2> HIDE DEF h
  <2>6. WalksFrom(words, d + 1, h)
    BY <2>4, <2>5 DEF WalksFrom
  <2> QED
    BY <2>3, <2>6
<1> HIDE DEF S
<1>4. L \in S
  BY <1>1, <1>2, <1>3, InductionOverNat
<1>5. PICK g \in [Nat -> Seq(STRING)] : WalksFrom(words, L, g)
  BY <1>4 DEF S
<1>6. \A p \in Nat : g[p] = WalkAt(words, g, p)
  BY <1>1, <1>5 DEF WalksFrom
<1>7. g = [p \in Nat |-> g[p]]
  OBVIOUS
<1>8. Walks(words, g)
  BY <1>6, <1>7 DEF Walks
<1> QED
  BY <1>8

(* ParseRTCP is that walk from the first word. *)
LEMMA ParseIs ==
    ASSUME NEW words \in Seq(Word)
    PROVE  \E g : Walks(words, g) /\ ParseRTCP(words) = g[0]
<1> DEFINE from == CHOOSE g : Walks(words, g)
<1>1. Walks(words, from)
  BY WalkExists
<1>2. ParseRTCP(words) = from[0]
  BY Zenon DEF ParseRTCP, Walks, WalkAt
<1> QED
  BY <1>1, <1>2

(* How many packets of a frame are looked at. *)
LookedAt(f) == IF f.packets[Len(f.packets)].words = 2 THEN Len(f.packets) - 1
                                                      ELSE Len(f.packets)

(* A sequence that has one element more in front. *)
LEMMA ConsIs ==
    ASSUME NEW S, NEW q \in Seq(S), NEW p \in Seq(S), NEW x \in S,
           Len(p) = Len(q) + 1, \A j \in 1 .. Len(q) : p[j + 1] = q[j],
           p[1] = x
    PROVE  <<x>> \o q = p
<1>1. <<x>> \in Seq(S) /\ Len(<<x>>) = 1 /\ <<x>>[1] = x /\ Len(q) \in Nat
  BY LenProperties
<1>2. /\ <<x>> \o q \in Seq(S) /\ Len(<<x>> \o q) = 1 + Len(q)
      /\ \A i \in 1 .. 1 + Len(q) : (<<x>> \o q)[i] = IF i <= 1 THEN <<x>>[i] ELSE q[i - 1]
  BY <1>1, ConcatProperties
<1>3. ASSUME NEW i \in 1 .. Len(p) PROVE p[i] = (<<x>> \o q)[i]
  <2>1. CASE i = 1
    BY <1>1, <1>2, <2>1
  <2>2. CASE i # 1
    <3>1. PICK j \in 1 .. Len(q) : i = j + 1
      BY <1>1, <2>2
    <3> QED
      BY <1>1, <1>2, <3>1
  <2> QED
    BY <2>1, <2>2
<1> QED
  BY <1>1, <1>2, <1>3, SeqEqual

(* The types of d packets, from the k-th on, and that the walk from the    *)
(* place of the k-th finds them.                                           *)
Types(f, k, d) == [j \in 1 .. d |-> f.packets[k + (j - 1)].pt]
Finds(f, at, g, k, d) ==
    /\ d > 0 => at[k] + 2 < Len(f.body)
    /\ g[at[k]] = Types(f, k, d)

(* They are the type of the first of them and those of the others. *)
LEMMA TypesAre ==
    ASSUME NEW f, NEW k \in Nat, NEW d \in Nat,
           \A j \in k .. k + d : f.packets[j].pt \in STRING
    PROVE  Types(f, k, d + 1) = <<f.packets[k].pt>> \o Types(f, k + 1, d)
<1> DEFINE e == d + 1
<1>1. \A j \in 1 .. d : Types(f, k + 1, d)[j] = f.packets[(k + 1) + (j - 1)].pt
  BY DEF Types
<1>2. \A j \in 1 .. e : Types(f, k, e)[j] = f.packets[k + (j - 1)].pt
  BY DEF Types
<1>3. \A j \in 1 .. d : (k + 1) + (j - 1) = k + j /\ k + j \in k .. k + d
  OBVIOUS
<1>4. \A j \in 1 .. e : k + (j - 1) \in k .. k + d
  OBVIOUS
<1>5. Types(f, k + 1, d) \in [1 .. d -> STRING]
  BY <1>3 DEF Types
<1>6. Types(f, k, e) \in [1 .. e -> STRING]
  BY <1>4 DEF Types
<1>7. e \in Nat
  OBVIOUS
<1>8. \A j \in 1 .. d : Types(f, k, e)[j + 1] = Types(f, k + 1, d)[j]
  <2> TAKE j \in 1 .. d
  <2>1. j + 1 \in 1 .. e /\ k + ((j + 1) - 1) = k + j
    OBVIOUS
  <2> QED
    BY <1>1, <1>2, <1>3, <2>1
<1>9. Types(f, k, e)[1] = f.packets[k].pt
  <2>1. 1 \in 1 .. e /\ k + (1 - 1) = k
    OBVIOUS
  <2> QED
    BY <1>2, <2>1
<1>10. f.packets[k].pt \in STRING
  OBVIOUS
<1> DEFINE p == Types(f, k, e)
           q == Types(f, k + 1, d)
<1> HIDE DEF e
<1>11. q \in Seq(STRING) /\ Len(q) = d /\ p \in Seq(STRING) /\ Len(p) = e
  BY <1>5, <1>6, <1>7, FunctionIsSeq
<1> HIDE DEF p, q
<1>12. Len(p) = Len(q) + 1
  BY <1>11 DEF e
<1>13. p[1] = f.packets[k].pt /\ \A j \in 1 .. Len(q) : p[j + 1] = q[j]
  BY <1>8, <1>9, <1>11 DEF p, q
<1>14. <<f.packets[k].pt>> \o q = p
  BY <1>10, <1>11, <1>12, <1>13, ConsIs
<1> QED
  BY <1>14 DEF p, q, e

(* Of a compound, every packet is looked at but for a last one of 8 bytes. *)
LEMMA CompoundIsWalked ==
    ASSUME NEW f, Compound(f), f.body \in Seq(Word)
    PROVE  ParseRTCP(f.body) = [k \in 1 .. LookedAt(f) |-> f.packets[k].pt]
<1> DEFINE n == Len(f.packets)
           L == Len(f.body)
           m == LookedAt(f)
           Packet == [pt : STRING, words : Nat \ {0, 1}]
<1>1. /\ f.packets \in Seq(Packet) /\ n \in Nat \ {0} /\ L \in Nat
      /\ DOMAIN f.packets = 1 .. n
  BY LenProperties, EmptySeq DEF Compound
<1>2. ASSUME NEW k \in 1 .. n
      PROVE  f.packets[k].pt \in STRING /\ f.packets[k].words \in Nat \ {0, 1}
  <2> HIDE DEF Packet
  <2>1. f.packets[k] \in Packet
    BY <1>1, ElementOfSeq
  <2> QED
    BY <2>1 DEF Packet
<1>3. PICK at \in [1 .. n + 1 -> 0 .. L] :
        /\ at[1] = 0 /\ at[n + 1] = L
        /\ \A k \in 1 .. n :
             /\ at[k + 1] = at[k] + f.packets[k].words
             /\ f.body[at[k] + 1] = [pt |-> f.packets[k].pt,
                                     length |-> f.packets[k].words - 1]
  BY <1>1, Zenon DEF Compound
<1>4. /\ m \in 0 .. n
      /\ \/ m = n - 1 /\ f.packets[n].words = 2
         \/ m = n /\ f.packets[n].words > 2
  BY <1>1, <1>2 DEF LookedAt
<1>5. PICK g : Walks(f.body, g) /\ ParseRTCP(f.body) = g[0]
  BY ParseIs
<1>6. \A p \in Nat : g[p] = WalkAt(f.body, g, p)
  BY <1>5, Zenon DEF Walks
<1> HIDE DEF n, m, Packet
<1> DEFINE S == {d \in Nat : d <= m =>
                   \A k \in 1 .. n + 1 : k + d = m + 1 => Finds(f, at, g, k, d)}
<1>7. 0 \in S
  <2> SUFFICES ASSUME NEW k \in 1 .. n + 1, k + 0 = m + 1
               PROVE  Finds(f, at, g, k, 0)
    OBVIOUS
  <2>1. at[k] \in Nat /\ ~(at[k] + 2 < L)
    <3>1. k = m + 1 /\ n \in 1 .. n
      BY <1>1, <1>4
    <3>2. CASE m = n
      BY <1>1, <1>3, <3>1, <3>2
    <3>3. CASE m # n
      <4>1. k = n /\ f.packets[n].words = 2
        BY <1>1, <1>4, <3>1, <3>3
      <4>2. at[n + 1] = at[n] + f.packets[n].words
        BY <1>3, <3>1
      <4>3. n \in 1 .. n + 1 /\ at[n] \in Nat
        BY <1>1
      <4> QED
        BY <1>3, <4>1, <4>2, <4>3
    <3> QED
      BY <3>2, <3>3
  <2>2. g[at[k]] = <<>>
    BY <1>6, <2>1 DEF WalkAt
  <2>3. Types(f, k, 0) = <<>>
    BY DEF Types
  <2> QED
    BY <2>2, <2>3 DEF Finds
<1>8. ASSUME NEW d \in Nat, d \in S PROVE d + 1 \in S
  <2> SUFFICES ASSUME d + 1 <= m, NEW k \in 1 .. n + 1, k + (d + 1) = m + 1
               PROVE  Finds(f, at, g, k, d + 1)
    OBVIOUS
  <2>1. k \in 1 .. n /\ k + 1 \in 1 .. n + 1 /\ (k + 1) + d = m + 1 /\ d <= m
    BY <1>1, <1>4
  <2>2. Finds(f, at, g, k + 1, d)
    BY <1>8, <2>1
  <2>3. PICK x \in STRING, w \in Nat \ {0, 1} :
          x = f.packets[k].pt /\ w = f.packets[k].words
    BY <1>2, <2>1
  <2>4. /\ at[k] \in Nat /\ at[k + 1] = at[k] + w /\ at[k + 1] \in 0 .. L
        /\ f.body[at[k] + 1] = [pt |-> x, length |-> w - 1]
    BY <1>3, <2>1, <2>3
  <2>5. at[k] + 2 < L
    <3>1. CASE d > 0
      <4>1. at[k + 1] + 2 < L
        BY <2>2, <3>1 DEF Finds
      <4> QED
        <5>1. at[k] < at[k + 1]
          BY <2>4
        <5>2. L \in Nat /\ at[k + 1] \in Nat
          BY <1>1, <2>4
        <5> HIDE DEF L
        <5> QED
          BY ONLY <2>4, <4>1, <5>1, <5>2
    <3>2. CASE d = 0
      <4>1. k = m
        BY <1>1, <1>4, <3>2
      <4>2. CASE m = n
        <5>1. w > 2 /\ at[k + 1] = L
          BY <1>1, <1>3, <1>4, <2>3, <4>1, <4>2
        <5> QED
          BY <1>1, <2>4, <5>1
      <4>3. CASE m # n
        <5>1. k + 1 = n /\ f.packets[n].words = 2 /\ n \in 1 .. n
          BY <1>1, <1>4, <4>1, <4>3
        <5>2. at[n + 1] = at[n] + 2
          BY <1>3, <5>1
        <5> QED
          BY <1>1, <1>3, <2>4, <5>1, <5>2
      <4> QED
        BY <4>2, <4>3
    <3> QED
      BY <3>1, <3>2
  <2>6. g[at[k]] = <<x>> \o g[at[k + 1]]
    <3>1. g[at[k]] = <<f.body[at[k] + 1].pt>> \o g[at[k] + f.body[at[k] + 1].length + 1]
      BY <1>6, <2>4, <2>5 DEF WalkAt
    <3>2. f.body[at[k] + 1].pt = x /\ f.body[at[k] + 1].length = w - 1
      BY <2>4
    <3>3. at[k] + (w - 1) + 1 = at[k + 1]
      BY <2>4
    <3> QED
      BY <3>1, <3>2, <3>3
  <2>7. Types(f, k, d + 1) = <<x>> \o Types(f, k + 1, d)
    <3>1. k \in Nat /\ \A j \in k .. k + d : j \in 1 .. n
      BY <1>1, <1>4, <2>1
    <3>2. \A j \in k .. k + d : f.packets[j].pt \in STRING
      BY <1>2, <3>1
    <3> QED
      BY <2>3, <3>1, <3>2, TypesAre
  <2>8. g[at[k + 1]] = Types(f, k + 1, d)
    BY <2>2 DEF Finds
  <2> QED
    BY <2>5, <2>6, <2>7, <2>8 DEF Finds
<1> HIDE DEF S
<1>9. m \in Nat /\ m \in S
  <2>1. m \in Nat
    BY <1>1, <1>4
  <2> QED
    BY <1>7, <1>8, <2>1, InductionOverNat
<1>10. Finds(f, at, g, 1, m)
  BY <1>1, <1>9 DEF S
<1>11. g[0] = Types(f, 1, m)
  BY <1>3, <1>10 DEF Finds
<1>12. Types(f, 1, m) = [k \in 1 .. m |-> f.packets[k].pt]
  <2>1. \A j \in 1 .. m : 1 + (j - 1) = j
    BY <1>9
  <2> QED
    BY <2>1 DEF Types
<1> QED
  BY <1>5, <1>11, <1>12 DEF m

(* However the stream is cut, a frame is handled with the channel of its   *)
(* own head, and every packet of its own body is looked at, but for a last *)
(* one of 8 bytes (rtsp_connection.cpp:97, rtsp_stream_state.cpp:63-92).    *)
THEOREM FramesAreWhole == Spec => []FramesWhole
<1>1. IInv => FramesWhole
  <2> SUFFICES ASSUME IInv PROVE FramesWhole
    OBVIOUS
  <2>1. TypeOK /\ FramesOwn
    BY DEF IInv
  <2>2. ASSUME NEW i \in DOMAIN served, sent[served[i].msg].kind = "frame"
        PROVE  LET f == sent[served[i].msg]
               IN /\ served[i].channel = f.channel
                  /\ served[i].packets = [k \in 1 .. LookedAt(f) |-> f.packets[k].pt]
    <3>1. PICK f : f = sent[served[i].msg]
      OBVIOUS
    <3>2. served[i].msg \in DOMAIN sent
      BY <2>1, LastServedIs
    <3>3. f \in Message /\ f.kind = "frame"
      BY <2>1, <2>2, <3>1, <3>2, SentIs
    <3>4. f \in Frames
      BY <3>3, RequestsAssumption DEF Message
    <3>5. Compound(f) /\ f.body \in Seq(Word)
      BY <3>4, FramesAssumption, CompoundAssumption
    <3>6. /\ served[i].channel = f.channel
          /\ served[i].packets = ParseRTCP(f.body)
      BY <2>1, <2>2, <3>1 DEF FramesOwn
    <3>7. served[i].packets = [k \in 1 .. LookedAt(f) |-> f.packets[k].pt]
      BY <3>5, <3>6, CompoundIsWalked
    <3> QED
      BY <3>1, <3>6, <3>7
  <2> QED
    BY <2>2 DEF FramesWhole, LookedAt
<1> QED
  BY <1>1, Invariant, PTL
=============================================================================
