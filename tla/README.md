# A TLA+ model of muduo_rtspserver

An RTSP server on one event loop: it accepts TCP connections, answers OPTIONS,
DESCRIBE, SETUP, PLAY and TEARDOWN, and streams H.264 files as RTP, interleaved
in the TCP connection or over UDP. What is hard about it is not the syntax of
the protocol but what happens between two callbacks of the loop: closures that
outlive the object they were made for, requests in an order nobody expected,
sessions that own streams in two maps, fragments on a network that loses them,
and start codes and messages that are cut in two by chunks and read events.

Five parts are modelled and model-checked: streams, the server with its
connections and sessions, the RTP packetiser, the reader of H.264 files, and
the framing of messages. Theorems are proved about each of them: every invariant
that the runs check is also proved, for all values of the constants. Line numbers
are those of the sources in `rtsp/` and `media/`.

## 1. Inventory

| Component | State | Operations | Talks to | Correct when |
|---|---|---|---|---|
| `RtspStreamState` | `playing_`, `frame_source_` (a file cursor), `last_rtp_ts_`; closures on `PlayOnce` in the loop | constructor, `Play`, `PlayOnce`, destructor | event loop (`QueueInLoop`, `RunAfter`), sink, source | every PLAY is driven until the file ends; nothing is sent for a stream that is gone; NALUs of a frame share a timestamp |
| `RtspSession` | `states_` (stream by track), `binding_states_` (stream by channel or port, 8-bit keys), session id | `Setup` (TCP, UDP), `Play`, `Teardown`, `ParseTcpInterleavedFrameBody` | owns streams | streams live exactly as long as a session holds them |
| `RtspConnection` | `active_media_session_`, `media_session_name_`, `rtsp_session_`, `next_type_` | one handler per method, interleaved frames | owns the session; asks the server for media sessions | a request ends the process, or is about another media session than its client thinks, only where that client could have known |
| `RtspServer` | `connections_`, `sessions_` | accept, disconnect, lookup | owns connections | closing a connection releases all it held |
| `H264VideoRtpSink` | `init_seq_`, `packets_`, `octets_` | `Send`: interleaved frame, datagram, FU-A fragments | TCP connection or UDP socket | fragments cover the NALU, numbers are consecutive, lengths are true |
| `H264FileSource` | file position | `GetNextFrame` | file | splits the file at its start codes, wherever the chunks of 10000 bytes end |
| Framing: `OnMessage`, `ParseRequestHead` | the input buffer | one message per read event | connection | no request lost or misread, however the bytes arrive |
| RTCP (`rtcp.cpp`, `ParseRTCP`) | none | parse, serialise | stream | the packets of a compound are looked at once each |
| `MediaSession`, subsessions | fixed before the loop runs | lookup by track, SDP | connection | |
| tinymuduo | (submodule, not in the tree) loop, sockets | | everything | external: modelled from its use |

**Hard behaviours.** (a) `PlayOnce` closures bind a raw `this` and are never
cancelled; TEARDOWN and disconnect free the object while they are queued.
(b) PLAY may come twice; SETUP may be repeated, precede DESCRIBE or name another
media session. (c) NALUs of a frame go through the functor queue, frames through
timers, requests through the poller: any order between them is possible.
(d) Widths: 16-bit sequence numbers and frame lengths, 32-bit timestamps whose 0
means "unset", 8-bit keys for ports. (e) Datagrams are lost, duplicated and
reordered. (f) A file is read in chunks, and start codes are compared past the
end of a chunk. (g) A read event handles one message, however many or few bytes
arrived. `PROJECT.json` lists each at its line ("hazards"), with the property
that covers it or why none does.

## 2. Modules

| Module | Models | Composition |
|---|---|---|
| `RtspStreamState` | streams, the memory they live in, their closures, the loop's two queues | |
| `RtspServer` | server, connections and sessions | `S == INSTANCE RtspStreamState` over the same variables |
| `H264VideoRtpSink` | the packetiser, the network, a receiver | |
| `NaluSplit` | the abstract reader: the NALUs of a byte string, one per call | |
| `NaluReader` | `GetNextFrame` over chunks | `Split == INSTANCE NaluSplit` with a refinement mapping |
| `MessageService` | what a connection promises to serve | |
| `RtspFraming` | read events, the input buffer, requests, frames, the RTCP walk | `Service == INSTANCE MessageService` with a refinement mapping |
| `MC...` | constants for TLC | extend the module they name |
| `...Proofs` | theorems about `RtspStreamState`, `RtspServer`, `H264VideoRtpSink`, `NaluReader`, `RtspFraming` | extend the module they name; that of the server also has `Streams == INSTANCE RtspStreamStateProofs` |
| `Induction`, `Remainders` | lemmas about numbers: induction over sets of naturals, sums, division with remainder | used by the proofs |

**RtspStreamState.** `Addr` are heap blocks: `stream[a]` is what the block
contains, `live` says which blocks hold a constructed object. A destroyed object
leaves its fields behind (the build is `-g -O0`, so the destructor's stores are
there to be read), and the next object may be given the same block. If the block
went to some other allocation, what a late closure reads is garbage: undefined
behaviour, modelled as the choice between ending the process (`ReadGarbage`) and
doing nothing (`Cancel`). `pending` and `timers` are the loop's functors and
timers; a closure (`Task`) carries the block, and the auxiliary `life` says which
object of the block it was made for. `PlayOnce` has one action per way through
the function: `Cancel` (138-147), `SendBye` (157-159), `SendParam` (181-185),
`SendSlice` (186-189), `SendEmpty` (an empty NALU, whose type byte is
uninitialised memory, 186). What `GetNextFrame` yields is the constant `File`;
reading starts at the beginning for every object, as every subsession opens the
file anew.

**RtspServer.** A request is one action, since the handler runs from
`OnMessage` to its response on the loop's only thread. `Options`, `Describe`, the
five `Setup...` actions (in the order of the handler: the two asserts, the 404s, the
transports that are refused, the null subsession, the two transports that are
accepted), `Play`, `Teardown`, `UseWithoutSession` (the three places that
dereference `rtsp_session_` unchecked), `FrameHead`, `FrameBody`, `WalkLeavesBody`
(the walk of `ParseRTCP` meets a length that goes beyond the rest and reads on until
it faults; it needs the body of a frame on a channel bound for RTCP, or a datagram to
a stream with ports), `OtherMethod`, `Accept`, `Disconnect`. A SETUP builds one
stream and inserts it into two maps of which either may keep its old entry (`Bound`);
a stream that neither took is gone before the response.

Clients may send any request at any time. SETUP has the URL of any track of any
media session, of none that exists, and the one that names no track (`None`): the
assert of rtsp_connection.cpp:342 wants the name of the active media session and a
slash, so the URL of the media session itself, which OPTIONS and DESCRIBE take, ends
the process (`SetupAsserts`). An assert or a null dereference sets `fault`, which
records what ended the process, whose request it was and for which media session;
nothing happens afterwards. Two more variables are history: `client` is what the
client of a connection knows (the media sessions its URLs named, the one that the
last OPTIONS or DESCRIBE was answered OK for, the one it has a session of), and
`resp` is the last response of the server, if it was OK. The properties say of faults
and responses what such a client could know, and leave open what it asks for.

**H264VideoRtpSink.** Bytes are counted: a packet carries the bytes `from`+1 to
`to` of a NALU. Over UDP every iteration of the fragment loop is a step
(`StartFragments`, `SendFragment`, `SendLast`), so datagrams arrive, get lost
and overtake each other while the loop runs. The client assembles by the
sequence numbers and the S and E bits.

**NaluReader.** One step per `fread`: `Open` and `Refuse` (the checks on the
first chunk, 48-74), `Refill` (no start code in the chunk: the last three bytes
are taken back, the rest is appended, 93-122), `ReturnFound` and `ReturnLast`
(125-148). `called` says whether `PlayOnce` calls again after the last result:
it does after a NALU that is not empty (rtsp_stream_state.cpp:181-189), while a
call that returns false ends the chain with BYE (157-159), and after an empty
NALU none may be scheduled. Another PLAY may call even so: `Call` needs no
`called`. A byte is 0, 1 or 2, where 2 stands for every other value. `buf` is
what was read and the three bytes behind it, since a comparison at the last byte
read looks at them: bytes of the previous chunk where the chunk is shorter than
the buffer, else any byte of `behind` (never written). `NaluSplit` is told in
the same variables without chunks: `Deliver` gives the NALU from behind a start
code to the next one. Where `behind` may hold parts of a start code (`tears`), a
NALU may also end in front of a 0 that is no start code, and `Abandon` stands
for a call that returns false.

**RtspFraming.** A message is a row of symbols that arrive whole: the texts and
line ends of a request, the magic, the rest of the head and the words of a
frame. `Read` appends what arrived and calls `OnMessage` once, which takes one
of its six ways: `AwaitHead` (78-84), `FrameHead` (86-89), `AwaitBody` (92),
`FrameBody` (97-103, with the walk of `ParseRTCP`), `Refuse` (112-116) and
`Serve` (118-136, which discards the rest of the buffer). A client waits for
responses or does not (`lockstep`), and a read event brings any amount of bytes,
one message, or half a frame (`delivery`). `MessageService` says what is kept in
each case: messages are always served at most once and in order; nothing is lost
where halves of frames arrive on their own, and only frames where messages
arrive whole and the client waits. There a piece may wait for each frame that
arrived, a head, a body or a whole request, until the connection has another
read event (`KeepsUp`): a request sent right behind a frame is not answered by
the event that brings it. What a request does once it is served is in
`RtspServer`.

Operators named "Deviation" in comments are variants of the definition that
follows them, each with a plausible bug; no behaviour uses them. They are there
to see that a property fails when the code is wrong.

## 3. Runs

TLC, 2 workers. All runs say `CHECK_DEADLOCK FALSE`: the bounds stop the models,
and so does the end of the process after a fault.

| Run | Instance | Shows |
|---|---|---|
| `StreamState` | 2 blocks, each used by 2 objects and played twice; file: parameter set, two slices, failed read, empty NALU | `NoLostChain`, `NoExtraChain`: closures are neither lost nor multiplied; `ReleasedIsSilent`, `SilentUntilPlayed`; `SingleChainTimeline`; the invariant `IInv` of the proofs; `PlayingEnds`: every PLAY's chain reaches a BYE or an empty NALU, or the stream is released; `StaleClosuresDrain` |
| `ServerAnyClient` | 1 connection, any requests; 2 media sessions with 1 and 2 tracks; channels 256 and 2, ports 256 and 512 (equal low bytes) | `StreamsOwned`: streams exist exactly while a session holds them; `FaultsAreProvoked`: what ends the process is in the requests of one client, against what it was answered; `ServesNamed`: no response is about a media session that no URL of the connection named; `ImplementsStreams`: the server implements RtspStreamState; the invariant `IInv` of the proofs |
| `ServerTwoConns` | 2 connections, each one track, repeated SETUPs, disconnects | no shared streams; `PlayingIsReachable` by TEARDOWN; `MediaOnlyForSession`; `PlaysEnd`: whatever the other client asks, and while the body of a frame never comes, every PLAY comes to its end and stale closures drain, unless the process ends |
| `Reader` | chunks of 8 bytes; files of a start code, 0 to 4 bytes, every string of 6 and a last byte, in front of clean memory; files up to 10 bytes in front of memory of 0 and 1; NALU buffers of 5 bytes, of which 2 are kept free | `ReadsAsSplit`: the reader implements `NaluSplit`, and as long as NALUs are not empty the next one comes; `TakenTileFile`: no byte is lost or repeated; `DataFitsRoom`; `CallsReturn`; `IInv` |
| `Framing` | 3 messages of 3 requests and 2 frames, every mode of client and delivery, every cut | `ServesInOrder`: framing implements `MessageService`; `FramesWhole`: a frame keeps its channel and body, and its packets are walked; `OwnHeaders`: a request is handled with its own headers; `KeepsUp`: how much may wait in the buffer; the invariant `IInv` of the proofs |
| `Sink` | TCP and UDP, 2 NALUs of 6 sizes around the boundaries of a payload of 5; sequence numbers modulo 8 that wrap within a NALU | `FragmentsWellFormed`, `FragmentsCover`, `AssembledWhole`, `LengthsTrue`, `ReportsWhatWasSent` |

Six runs end in a violation that TLC finds; each refutes something a comment or
an assertion of the code says:

| Run | Refuted | What happens |
|---|---|---|
| `StreamReuse` | `ReleasedIsCancelled` | SETUP, PLAY, TEARDOWN, and a SETUP and PLAY that get the same block before the old closure runs: it passes both checks of `PlayOnce` and drives the new stream |
| `StreamReplay` | `ParamSharesTimestamp` | a second PLAY starts a second chain; the slice after a parameter set is sent by the other chain, one duration later |
| `ServerDescribe` | `ServesRequested` | an OPTIONS of one media session, then a DESCRIBE of another: line 267 of rtsp_connection.cpp ignores the URL, and the description is that of the first |
| `ServerSetupFirst` | `SetupHasActiveMedia` | SETUP as the first request fails the assert of rtsp_connection.cpp:340 |
| `ReaderCut` | `EndsAtStartCode` | a NALU has two zeros at the end of a chunk, the byte behind the chunk happens to be 1: the NALU is cut there, and the next call finds no start code |
| `SinkMarker` | `MarkerEndsFrame` | the marker is set on a parameter set and on the slice of the same frame |

**Bounds.** Two objects per block are enough for a stale closure to meet a
successor, and a third only repeats it; two PLAYs give two chains in one object,
and a chain of the old object beside one of the new. The file has each way through
`PlayOnce`: a parameter set and the slice of its frame, a second slice one duration
later, a read that fails and an empty NALU, which the chain of a second PLAY reaches.
In the server, two tracks in one of two media sessions reach every early return of
SETUP, and its two asserts with every kind of URL; `MaxStarts` is 1, since what a
second PLAY does to a stream is in `StreamState`. Ports and
channels are chosen to collide modulo 256. In the sink a payload of 5 with a head
of 2 has three bytes a fragment: the sizes are an empty NALU, the largest that
fits, one byte more, a last piece that is full, and NALUs of three pieces.
`AssembledWhole` needs fewer datagrams under way than there are sequence numbers
(6 and 8; 65536 in the code): with fewer numbers it fails, as the hypothesis
`InWindow` of its theorem says. `SingleChainTimeline` is checked away from the wrap
of timestamps (`FileFitsTimestamps` of its theorem): at the wrap, the sentinel of
rtsp_stream_state.cpp:149 breaks it.

In the reader, six free bytes hold every pair of start codes, and 0 to 4 bytes in
front put them at every place relative to the ends of the first two chunks; the
chunk is the smallest that always adds to a NALU (`ChunkAssumption`). In framing,
three messages are one that is cut, one that is affected by it, and one that
shows whether the connection recovers.

**Fairness.** Weak fairness of `RunFunctor` and `FireTimer`: the loop runs as
long as the process does and takes functors and timers in order in every
iteration. In `NaluReader`, weak fairness of `Continue`, the steps within a
call, which waits for nothing, and of `Call` as long as `called` says that the
closure of `PlayOnce` is scheduled again: nobody owes a call after a read that
failed or an empty NALU. In `RtspFraming`, of `Read`: what was sent arrives.
Nothing is assumed of clients or of UDP. The properties allow the process to end
(`~up`), as reading a freed block may end it.

**Symmetry.** Blocks are interchangeable; symmetry is used in runs of invariants
and of action properties only.

## 4. Proofs

Checked by TLAPS for every value of the constants under the named assumptions of
the modules (file contents, widths and sizes are natural numbers, payloads are
larger than the FU head, the media sessions and ports are there before the loop
runs). One of them restricts what clients send: the body of a frame is a compound of
packets of two words or more (`CompoundAssumption` of `RtspFraming`). Two theorems
have a hypothesis of their own, which the code does not ensure and without which TLC
finds the property violated: `FileFitsTimestamps` and `InWindow`, explained below.

*RtspStreamStateProofs.* `Invariant` shows `IInv`, which joins the type
correctness, `SilentUntilPlayed`, `NoLostChain` and `NoExtraChain` with what
they need: a live stream has its source (`LiveHasSource`), and one that does not
play was never played (`IdleIsFresh`: so what `Cancel` drops for a live object
is a stale closure, which `NoLostChain` does not count), and one that plays was
played (`PlayingIsPlayed`, for `SilentUntilPlayed`). `PlayOnce` does not know
whether an object lives where it reads: that a late closure sends nothing in a
free block (`ReleasedStaysSilent`, about steps) rests on what the destructor
left there (`FreeIsReset`). The chains are counted over two queues, so the proof
first says how `Count` changes when a closure is appended, taken or a batch is
concatenated (`CountAppend`, `CountTail`, `CountConcat`); `PlayOnceEffect` then
sums up the branches of `PlayOnce` as "at most one closure goes on, and if none
does, a BYE or a stall is counted", and `PlayOnceChains` does the arithmetic
once for functors and timers. `PlayBatch` is the PLAY of a session with several
tracks. The other properties follow from `Invariant`.

`OneChainKeepsTime` proves `SingleChainTimeline`. Its invariant (`Timed`) is about
the closure that is waiting: whether it will step the timestamp tells which NALU
was sent last, so the next one gets the right time (`InTime`); that there is one
such closure only comes from `NoExtraChain`. A timestamp that wraps to 0 counts as
unset and is replaced by a random one (line 149): `FileFitsTimestamps` says that no
file is so long that it does, from any first timestamp.

*RtspServerProofs.* The proof has five stages. First ownership: `SessionsSound`
says of one session that it keeps a stream under one track only and is empty or
has one, `StreamsOwned` that streams exist exactly while one session holds them;
the two are inductive together (`OwnedNext`), with a lemma for what a session
gains (`OwnedGain`: the two maps may keep their old entries, and then the new
stream is gone again) and one for what it loses. Second, with `Owned` every
handler is a step of `RtspStreamState` or none that it sees (`StepImplements`):
a handler releases only what is live, plays only what it holds and makes streams
in free blocks. `StreamsRefine` is that refinement (`ImplementsStreams`). Third,
what is proved of streams is transferred: `Streams!Invariant` speaks of an
instance of the proofs' module, `SameSpec` and `SameInvariant` say that it is
the same specification and the same invariant, and `StreamsKeepTheirPromises`
concludes that the server keeps `S!IInv` and `S!ReleasedIsSilent`. Nothing about
closures is proved twice. Fourth, what needs both: `PlayingStreamsAreReachable`
(a stream that plays is in `states_` of the session of an open connection: SETUP
replaces no entry, TEARDOWN and disconnect release what they forget),
`MediaForSessionsOnly` (what `PlayOnce` sends is sent for such a stream, since
`Cancel` is all that a stale closure of a block does that is not playing), and
`TypeCorrect`.

The last stage is about clients. `ClientsInformed` relates what a client was answered
to what its connection has: the media session of the last OK is the active one, a
session is of the media session it was first set up for, and both were named. Every
handler keeps it (`RequestInforms`), and with it a response is about what was named
(`ResponsesAreNamed`), whatever the URL of a DESCRIBE. A handler that ends the process
changes nothing else, so what its client knew is still to be seen (`CrashProvoked`),
and none runs after it: `EveryFaultIsProvoked` goes through the handlers that may.
`Invariant` puts all of it together.

*H264VideoRtpSinkProofs.* `IInv` adds to `FragmentsWellFormed` and
`FragmentsCover` the invariant of the loop over fragments (`Loop`): while it runs
something is left to send, S is set until the first piece, and the pieces sent
end where the rest begins. `EmitKeeps` reduces each way of sending to two facts
about the new packet: it is well formed, and it follows the last one.
`FragmentFollows` proves both for a fragment. `FragmentsAreWellFormed` and
`FragmentsAreComplete` hold for every payload size, NALU size and modulus.

`Gives` says the same of what a packet announces and what is counted for it: a step
sends one packet, with its true length if that fits, and adds its size to `octets_`.
`LengthsAreTrue` follows packet by packet. `ReportsAreTrue` compares a counter that
is reduced in each step with a sum that is not (`RemainderOfSum` of `Remainders`); the
sum is a recursive function, of which `SumsExist` and `SumsAgree` of `Induction` say
that it exists and does not change when a packet is appended.

`NoDamagedNalu` is about the receiver. What it holds of a NALU ends where a fragment
that was sent ends (`PartialIsSound`), and a datagram that has the next number is
the next packet, for two packets with one number are at least `SeqMod` apart.
`InWindow` is what this needs of the network: no datagram under way is `SeqMod` or
more packets away from the one the client waits for. Otherwise a late fragment of
another NALU may take the place of a lost one, and TLC finds that with 2 and 3
numbers. Loss, duplication and any order within the window do no harm.

*NaluReaderProofs.* `IInv` says where a call stands in the file: what was appended
to the NALU ends where the buffer begins (`BufferMeetsData`), no start code was
passed over (`NothingMissed`), and `feof` tells whether the buffer ends with the
file (`EofIsTrue`), which is what makes a comparison past the buffer harmless or
not. Two cases need care: a chunk that adds nothing leaves `data` empty, which the
code takes for "first chunk" (`ChunkAssumption` rules it out), and a file that
ends exactly with a chunk, whose next chunk has the three reread bytes only
(`RefillStep`). `NoneBefore` relates matches in the buffer to start codes in the
file; `LastByte` and `Torn` say what a match that runs past the buffer implies.
`Invariant` gives `NothingLostOrRepeated` (`TakenTileFile`), and with `EndsWell`
and `OnlyTorn` every step is one of `NaluSplit` or a stutter (`Refinement`), for
every file that does not end in 0, every chunk size and every content of the
memory behind the buffer.

`NalusFit` proves `DataFitsRoom`: `AVPacket` doubles its buffer until the data
fits behind the free prefix. The loop is a recursive function on sizes, so the
proof first has to show that there is one: the sizes it can reach are the
doublings of the first (`Doublings`), which pass every bound (`DoublingsPass`),
so there is a first one that is enough (`FirstEnough`), and stepping to it by
doubling is what the loop does (`FirstEnoughIs`, `DoubledIsEnough`). A buffer of
size 0 would be doubled for ever: the code starts with one that is not
(`RoomAssumption`).

*RtspFramingProofs.* What a read event finds depends on how the bytes were cut,
so `IInv` is about the stream, buffer and wire together. For any cut: it is a
sorted rest of what was sent (`StreamIsRest`), what was served does not come
again (`ServedIsPast`), behind a consumed head comes its body (`BodyFollows`),
frames were handled with their own body (`FramesOwn`), and a client that waits
sends in turn (`RequestsInTurn`). These are inductive by themselves (`Framed`):
each way through `OnMessage` drops a prefix of the stream (`RestStays`). For
whole messages and halves, `WholeMessages` and `HalvesInTurn` say where the
stream begins; `CutIs` turns that into what the buffer holds when `OnMessage`
runs, and `NothingWaits` rules out `AwaitHead`, `AwaitBody` and `Refuse`.
`OwnHeaders` then follows from the lines a served request has in the buffer
(`ServedHeader`), and `FewPieces`, the first part of `KeepsUp`, from counting: a
read event that adds the two pieces of a frame takes one away (`Exchange`,
`ArrivedIs`). That at most one request waits follows from `RequestsInTurn`: a
client that waits has one request that was not served (`OneRequestWaits`).
`Implements` maps `Send` to that of `MessageService`, `FrameBody` and `Serve` to
its service of a message, and the rest to stuttering. All of it holds for any
requests, frames, number of messages and cuts.

`FramesAreWhole` adds what the walk of `ParseRTCP` finds in a body, which is a
compound of packets of two words or more (`CompoundAssumption`). Every step of
the walk goes forward, whatever the lengths say, so it ends and the recursive
function exists (`WalkExists`); from the place of each packet on, it finds the
types of that packet and of those behind it, from the last to the first
(`CompoundIsWalked`), but for a last one of 8 bytes, since the loop asks for
more than 8 (line 56).

*Recursive functions.* The library's induction theorems cannot be instantiated by
the provers, as they take a predicate. `InductionOverNat` says it of a set, which they
can: a set that has 0 and with n also n + 1 has every natural. That a recursive
function exists, and what it computes, is then provable from `f = [x \in S |-> ...]`,
and that is how the sums, the doubling and the walk above are done.

*Only model-checked:* liveness (`PlayingEnds`, `StaleClosuresDrain`,
`PlaysEnd`, `CallsReturn`, the fairness in `ReadsAsSplit` and
`ServesInOrder`), which is out of the prover's reach. Of the last two, the safety
part is proved (`Refinement`, `Implements`).

## 5. Not modelled

The texts of requests and responses, SDP and RTCP contents: `ParseRTCP` hands
packets to `Deserialize` and discards the result. With a length larger than what
is left of the body, its `left_size` wraps and the walk goes on behind the body;
that this may end the process is modelled (`WalkLeavesBody`), what it reads
there is not, and no property forbids it. A failing `fseek`, which regular files
do not have. The overloads of `Send` for raw data, which have no caller. Failing
sockets and back pressure, which belong to the framework; its send calls are
taken to succeed, and its loop to be the single thread that `main.cpp` starts. A
client's session id, which the code never reads. Of the UDP receiving side
(`OnUdpRtcpMessage`), only the walk that leaves its datagram; any other datagram
changes no state. Nor is it a property that a header of a pipelined request must
not be applied to the one in front of it: `OwnHeaders` is about clients that
wait or whose messages arrive whole, and the model does the rest as the code
does.

## 6. Plan

`RtspServer` over `RtspFraming`: the requests a connection handles taken from the
bytes that arrive, with the frames a playing client sends between them. What joins
them is that a request of `RtspServer` is a message that `MessageService` serves.
