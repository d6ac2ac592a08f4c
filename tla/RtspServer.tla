----------------------------- MODULE RtspServer -----------------------------
(***************************************************************************)
(* RtspServer, its RtspConnections and their RtspSessions                  *)
(* (rtsp/rtsp_server.cpp, rtsp_connection.cpp, rtsp_session.cpp), over the *)
(* streams of RtspStreamState.  A request is one action: the server is a   *)
(* single thread, and a handler runs from OnMessage to its response.       *)
(* How bytes become requests is left to the framing: here a request has a  *)
(* method, the media and track of its URL and, for SETUP, its transport.   *)
(*                                                                         *)
(* Clients may send any request at any time.                               *)
(***************************************************************************)
EXTENDS Naturals, Sequences, FiniteSets, Functions

CONSTANTS
    Conn,      \* TCP connections
    Media,     \* names of the media sessions added to the server, no slash in them
    Tracks,    \* the subsessions of each media session, by number
    Unknown,   \* a name in a URL that is no media session
    Transport, \* what the Transport header of a SETUP may ask for
    UdpPort,   \* even ports that the server may bind for RTP
    Addr, File, TsMod, TsDuration, RandomTs, MaxLives, MaxStarts

None == "none"

ASSUME MediaAssumption ==
    /\ Tracks \in [Media -> SUBSET Nat]
    /\ Unknown \notin Media
    /\ None \notin Media
ASSUME TransportAssumption ==
    /\ Transport \subseteq
         [proto : {"tcp", "udp", "malformed"}, rtp : Nat, rtcp : Nat]
    /\ UdpPort \subseteq Nat

VARIABLES
    open,     \* connections that have an RtspConnection
    active,   \* active_media_session_ and media_session_name_
    session,  \* rtsp_session_
    frame,    \* channel of an interleaved frame whose body is awaited
    client,   \* what the client of a connection asked and was answered
    resp,     \* the last response of the server, if it was OK
    fault,    \* what ended the process
    live, stream, lives, starts, pending, timers, up

connVars == <<open, active, session, frame, client, resp, fault>>
streamVars == <<live, stream, lives, starts, pending, timers, up>>
vars == <<open, active, session, frame, client, resp, fault,
          live, stream, lives, starts, pending, timers, up>>

S == INSTANCE RtspStreamState

(* Those of RtspStreamState. *)
ASSUME StreamAssumption ==
    /\ File \in Seq(S!Nalu)
    /\ TsMod \in Nat \ {0}
    /\ TsDuration \in 0 .. TsMod - 1
    /\ RandomTs \subseteq 0 .. TsMod - 1
    /\ RandomTs # {}
    /\ MaxLives \in Nat /\ MaxStarts \in Nat

Track == UNION {Tracks[m] : m \in Media}

(* states_ and binding_states_: streams by track, and by the low byte of a *)
(* channel or a local port (std::map<uint8_t, ...>), those in `rtcp` for    *)
(* RTCP.  `ports` are the local RTP ports of its UDP streams.               *)
NoSession == [media |-> None, states |-> <<>>, binding |-> <<>>, rtcp |-> {},
              ports |-> {}]

(* Deviation: a key as wide as a port. *)
KeyWide(n) == n
Key(n) == n % 256

HasSession(c) == session[c].media # None

(* std::map::insert leaves an existing entry as it is. *)
Insert(f, k, v) ==
    IF k \in DOMAIN f THEN f
    ELSE [x \in DOMAIN f \union {k} |-> IF x = k THEN v ELSE f[x]]

(* An OK response: the connection, the media session that the URL named,   *)
(* where the handler looks at it, and the one that the response is about.  *)
NoResponse == [conn |-> None, url |-> None, media |-> None]

(* History of a connection, as its client sees it: the media sessions that *)
(* its URLs named, the one that the last OPTIONS or DESCRIBE was answered  *)
(* OK for, and the one that its session is of.                             *)
NewClient == [named |-> {}, served |-> None, session |-> None]

NoFault == [why |-> None, conn |-> None, media |-> None]

(* The streams that a session keeps alive. *)
Held(s) == Range(s.states) \union Range(s.binding)

Init ==
    /\ open = {}
    /\ active = [c \in Conn |-> None]
    /\ session = [c \in Conn |-> NoSession]
    /\ frame = [c \in Conn |-> None]
    /\ client = [c \in Conn |-> NewClient]
    /\ resp = NoResponse
    /\ fault = NoFault
    /\ S!Init

(* Deviation: the loop does not go on while the body of a frame is awaited. *)
RunningAwaitsBody == up /\ fault = NoFault /\ \A c \in Conn : frame[c] = None

Running == up /\ fault = NoFault

(* A connection takes a request unless it awaits the body of a frame. *)
Ready(c) == Running /\ c \in open /\ frame[c] = None

-----------------------------------------------------------------------------
(* Requests and responses *)

Name(c, m) ==
    client' = [client EXCEPT ![c].named = @ \union ({m} \intersect Media)]

NameServed(c, m, media) ==
    client' = [client EXCEPT ![c].named = @ \union ({m} \intersect Media),
                             ![c].served = media]

Reply(c, url, media) == resp' = [conn |-> c, url |-> url, media |-> media]

(* NotAcceptable, UnsupportedMediaType, NotFound, UnsupportedTransport; or *)
(* no response at all.                                                     *)
Refuse == resp' = NoResponse

-----------------------------------------------------------------------------
(* RtspServer *)

(* OnBeforeReading: a connection of this name is new. *)
Accept(c) ==
    /\ Running
    /\ c \notin open
    /\ open' = open \union {c}
    /\ UNCHANGED <<active, session, frame, client, resp, fault, streamVars>>

(* OnConnection, not connected: the RtspConnection and all it holds go.    *)
(* (A head that does not parse shuts the connection down, which leads      *)
(* here.)                                                                  *)
Disconnect(c) ==
    /\ Running
    /\ c \in open
    /\ open' = open \ {c}
    /\ active' = [active EXCEPT ![c] = None]
    /\ session' = [session EXCEPT ![c] = NoSession]
    /\ frame' = [frame EXCEPT ![c] = None]
    /\ Refuse
    /\ client' = [client EXCEPT ![c] = NewClient]
    /\ IF HasSession(c) THEN S!Release(Held(session[c]))
                        ELSE UNCHANGED streamVars
    /\ UNCHANGED fault

-----------------------------------------------------------------------------
(* OPTIONS and DESCRIBE *)

Options(c, m) ==
    /\ Ready(c)
    /\ \/ /\ m \in Media
          /\ active' = [active EXCEPT ![c] = m]
          /\ Reply(c, m, m)
          /\ NameServed(c, m, m)
       \/ /\ m \notin Media
          /\ Refuse
          /\ Name(c, m)
          /\ UNCHANGED active
    /\ UNCHANGED <<open, session, frame, fault, streamVars>>

(* Deviations: a DESCRIBE that looks its media up but does not record it;  *)
(* one that falls back on any media session when the name is unknown.      *)
DescribeForgets(c, m, sdp) ==
    /\ Ready(c)
    /\ sdp /\ m \in Media
    /\ Reply(c, m, m)
    /\ NameServed(c, m, m)
    /\ UNCHANGED <<open, active, session, frame, fault, streamVars>>

DescribeFallsBack(c, m, sdp) ==
    /\ Ready(c)
    /\ sdp
    /\ \E x \in Media :
         /\ m \in Media => x = m
         /\ active' = [active EXCEPT ![c] = IF @ = None THEN x ELSE @]
    /\ Reply(c, m, active'[c])
    /\ NameServed(c, m, active'[c])
    /\ UNCHANGED <<open, session, frame, fault, streamVars>>

(* The URL counts only while no media session is active; sdp says that the *)
(* Accept header is application/sdp.                                       *)
Describe(c, m, sdp) ==
    /\ Ready(c)
    /\ active' = [active EXCEPT ![c] = IF @ = None /\ m \in Media THEN m ELSE @]
    /\ \/ /\ ~sdp
          /\ Refuse
          /\ Name(c, m)
       \/ /\ sdp /\ active'[c] = None
          /\ Refuse
          /\ Name(c, m)
       \/ /\ sdp /\ active'[c] # None
          /\ Reply(c, m, active'[c])
          /\ NameServed(c, m, active'[c])
    /\ UNCHANGED <<open, session, frame, fault, streamVars>>

-----------------------------------------------------------------------------
(* SETUP *)

Crash(why, c, media) ==
    /\ fault' = [why |-> why, conn |-> c, media |-> media]
    /\ UNCHANGED <<open, active, session, frame, client, resp, streamVars>>

(* The two asserts: a media session is active, and the URL starts with its *)
(* name and a slash.  A URL that names no track, whatever else it has, is  *)
(* the m None.                                                             *)
SetupAsserts(c, m) ==
    /\ Ready(c)
    /\ active[c] \in {None} \union (Media \ {m})
    /\ IF active[c] = None THEN Crash("no active media", c, None)
                           ELSE Crash("other media", c, m)

SetupNotFound(c, m, t) ==
    /\ Ready(c)
    /\ active[c] = m
    /\ t \notin Tracks[m]
    /\ Refuse
    /\ UNCHANGED <<open, active, session, frame, client, fault, streamVars>>

(* No Transport header, an unknown one, or one without both numbers. *)
SetupUnsupported(c, m, t, o) ==
    /\ Ready(c)
    /\ active[c] = m
    /\ t \in Tracks[m]
    /\ o.proto = "malformed"
    /\ Refuse
    /\ UNCHANGED <<open, active, session, frame, client, fault, streamVars>>

(* rtsp_session_, created for the active media session if there is none. *)
SessionOf(c) ==
    IF HasSession(c) THEN session[c] ELSE [NoSession EXCEPT !.media = active[c]]

(* The channels of the request, or the pair of ports with which the loop   *)
(* that draws and binds them ends: ports of streams in use do not bind.    *)
FreePorts == UdpPort \ UNION {session[c].ports : c \in Conn}
Numbers(o) ==
    IF o.proto = "tcp" THEN {<<o.rtp, o.rtcp>>}
                       ELSE {<<p, p + 1>> : p \in FreePorts}

(* RtspSession::Setup when the session belongs to another media session,   *)
(* one without this track: GetSubsession returns null and is dereferenced. *)
SetupForeign(c, m, t, o) ==
    /\ Ready(c)
    /\ active[c] = m
    /\ t \in Tracks[m]
    /\ o.proto # "malformed"
    /\ t \notin Tracks[SessionOf(c).media]
    /\ Crash("no subsession", c, m)

(* The keys for RTCP after a binding of n: the insertion for RTP is first. *)
NewRtcp(s, n) ==
    s.rtcp \union ({Key(n[2])} \ (DOMAIN s.binding \union {Key(n[1])}))

(* Deviations: the new stream replaces the one of its track; a session     *)
(* that has a stream uses it for every track.                              *)
BoundReplaces(s, t, a, n) ==
    [s EXCEPT !.states = [x \in DOMAIN @ \union {t} |->
                            IF x = t THEN a ELSE @[x]],
              !.binding = Insert(Insert(@, Key(n[1]), a), Key(n[2]), a),
              !.rtcp = NewRtcp(s, n)]

BoundShares(s, t, a, n) ==
    LET b == IF s.states = <<>> THEN a ELSE CHOOSE x \in Range(s.states) : TRUE
    IN [s EXCEPT !.states = Insert(@, t, b),
                 !.binding = Insert(Insert(@, Key(n[1]), b), Key(n[2]), b),
                 !.rtcp = NewRtcp(s, n)]

(* states_ and binding_states_ after RtspSession::Setup made stream a.     *)
Bound(s, t, a, n) ==
    [s EXCEPT !.states = Insert(@, t, a),
              !.binding = Insert(Insert(@, Key(n[1]), a), Key(n[2]), a),
              !.rtcp = NewRtcp(s, n)]

(* A stream that neither map took is destroyed before the response, and    *)
(* its ports are closed.                                                   *)
SetupStream(c, m, t, o) ==
    /\ Ready(c)
    /\ active[c] = m
    /\ t \in Tracks[m]
    /\ o.proto # "malformed"
    /\ t \in Tracks[SessionOf(c).media]
    /\ \E n \in Numbers(o), a \in Addr \ live :
         LET s == Bound(SessionOf(c), t, a, n)
             bound == IF o.proto = "udp" THEN {n[1]} ELSE {} IN
         IF a \in Held(s)
         THEN /\ session' = [session EXCEPT
                               ![c] = [s EXCEPT !.ports = @ \union bound]]
              /\ S!Construct(a)
         ELSE /\ session' = [session EXCEPT ![c] = s]
              /\ UNCHANGED streamVars
    /\ Reply(c, m, SessionOf(c).media)
    /\ client' = [client EXCEPT ![c].session = IF @ = None THEN m ELSE @]
    /\ UNCHANGED <<open, active, frame, fault>>

-----------------------------------------------------------------------------
(* PLAY, TEARDOWN and the others *)

(* states_ is a std::map: its streams in the order of their tracks. *)
InOrder(D) ==
    CHOOSE s \in [1 .. Cardinality(D) -> D] :
        \A i, j \in 1 .. Cardinality(D) : i < j => s[i] < s[j]

Play(c) ==
    /\ Ready(c)
    /\ HasSession(c)
    /\ LET tracks == InOrder(DOMAIN session[c].states) IN
       S!Play([i \in DOMAIN tracks |-> session[c].states[tracks[i]]])
    /\ Reply(c, None, session[c].media)
    /\ UNCHANGED <<open, active, session, frame, client, fault>>

(* Deviation: a TEARDOWN that keeps the session it tore down. *)
TeardownKeepsSession(c) ==
    /\ Ready(c)
    /\ HasSession(c)
    /\ S!Release(Held(session[c]))
    /\ Reply(c, None, session[c].media)
    /\ client' = [client EXCEPT ![c].session = None]
    /\ UNCHANGED <<open, active, session, frame, fault>>

Teardown(c) ==
    /\ Ready(c)
    /\ HasSession(c)
    /\ S!Release(Held(session[c]))
    /\ session' = [session EXCEPT ![c] = NoSession]
    /\ Reply(c, None, session[c].media)
    /\ client' = [client EXCEPT ![c].session = None]
    /\ UNCHANGED <<open, active, frame, fault>>

(* PLAY, TEARDOWN or the body of an interleaved frame with no              *)
(* rtsp_session_: the null pointer is dereferenced.                        *)
UseWithoutSession(c) ==
    /\ Running
    /\ c \in open
    /\ ~HasSession(c)
    /\ Crash("no session", c, None)

(* A method that OnMessage does not dispatch is not answered. *)
OtherMethod(c) ==
    /\ Ready(c)
    /\ Refuse
    /\ UNCHANGED <<open, active, session, frame, client, fault, streamVars>>

(* A '$' head, also in the place of a body: no request is parsed until a   *)
(* body has arrived.                                                       *)
FrameHead(c) ==
    /\ Running
    /\ c \in open
    /\ frame' = [frame EXCEPT ![c] = "body"]
    /\ UNCHANGED <<open, active, session, client, resp, fault, streamVars>>

(* ParseTcpInterleavedFrameBody: on a channel that is not bound, or is     *)
(* bound for RTP, nothing happens, and a walk over packets whose lengths   *)
(* fit the body only reads.                                                *)
FrameBody(c) ==
    /\ Running
    /\ c \in open
    /\ frame[c] # None
    /\ HasSession(c)
    /\ frame' = [frame EXCEPT ![c] = None]
    /\ UNCHANGED <<open, active, session, client, resp, fault, streamVars>>

(* The walk over the RTCP packets of a frame, or of a datagram to a stream *)
(* with ports, in which the length of a packet goes beyond the rest: what  *)
(* is left wraps, and the walk reads on until it faults.                   *)
WalkLeavesBody(c) ==
    /\ Running
    /\ c \in open
    /\ \/ frame[c] # None /\ session[c].rtcp # {}
       \/ session[c].ports # {}
    /\ Crash("lengths", c, None)

-----------------------------------------------------------------------------
(* The event loop runs a closure of a stream. *)
LoopFunctor == Running /\ S!RunFunctor /\ UNCHANGED connVars
LoopTimer == Running /\ S!FireTimer /\ UNCHANGED connVars

Request(c) ==
    \/ Accept(c)
    \/ Disconnect(c)
    \/ \E m \in Media \union {Unknown} :
         \/ Options(c, m)
         \/ \E sdp \in BOOLEAN : Describe(c, m, sdp)
    \/ \E m \in Media \union {Unknown, None} : SetupAsserts(c, m)
    \/ \E m \in Media, t \in Track \union {Unknown} : SetupNotFound(c, m, t)
    \/ \E m \in Media, t \in Track, o \in Transport :
         \/ SetupUnsupported(c, m, t, o)
         \/ SetupForeign(c, m, t, o)
         \/ SetupStream(c, m, t, o)
    \/ Play(c)
    \/ Teardown(c)
    \/ UseWithoutSession(c)
    \/ OtherMethod(c)
    \/ FrameHead(c)
    \/ FrameBody(c)
    \/ WalkLeavesBody(c)

Next == LoopFunctor \/ LoopTimer \/ \E c \in Conn : Request(c)

(* The loop runs as long as the process does; clients owe nothing. *)
Spec == Init /\ [][Next]_vars
FairSpec == Spec /\ WF_vars(LoopFunctor) /\ WF_vars(LoopTimer)

-----------------------------------------------------------------------------
(* Properties *)

(* Type correctness, and what belongs to a connection that is closed. *)
TypeOK ==
    /\ S!TypeOK
    /\ open \subseteq Conn
    /\ active \in [Conn -> Media \union {None}]
    /\ \A c \in Conn :
         /\ session[c].media \in Media \union {None}
         /\ Range(session[c].states) \subseteq Addr
         /\ DOMAIN session[c].states \subseteq Track
         /\ Range(session[c].binding) \subseteq Addr
         /\ DOMAIN session[c].binding \subseteq 0 .. 255
         /\ session[c].rtcp \subseteq 0 .. 255
         /\ session[c].ports \subseteq UdpPort
         /\ c \notin open => session[c] = NoSession /\ active[c] = None
    /\ frame \in [Conn -> {None, "body"}]
    /\ client \in [Conn -> [named : SUBSET Media, served : Media \union {None},
                            session : Media \union {None}]]
    /\ resp = NoResponse \/ resp.conn \in Conn
    /\ fault = NoFault \/ fault.conn \in Conn

(* Ownership: a stream is constructed exactly as long as a session holds   *)
(* it, and no two sessions hold the same one; nothing leaks when a request *)
(* repeats a SETUP, a session is torn down or a connection closes.         *)
StreamsOwned ==
    /\ live = UNION {Held(session[c]) : c \in Conn}
    /\ \A c, d \in Conn :
         c # d => Held(session[c]) \intersect Held(session[d]) = {}

(* TEARDOWN reaches every stream that plays: it is in states_ of the       *)
(* session of an open connection, whatever was set up before or since.     *)
PlayingIsReachable ==
    \A a \in Addr : stream[a].playing =>
        \E c \in open : a \in Range(session[c].states)

(* No media for a client that is gone: a NALU goes out only for a stream   *)
(* that the session of an open connection has in states_, and only after a *)
(* PLAY was sent on that session.                                          *)
MediaOnlyForSession ==
    [][\A a \in Addr : Len(stream'[a].sent) > Len(stream[a].sent) =>
          \E c \in open : a \in Range(session[c].states)
                          /\ stream[a].plays > 0]_vars

(* What ends the process is in the requests of one client: by what it      *)
(* named and was answered OK, it could have known.  No assert fails for a  *)
(* client that sets up a track of the media session it was last answered   *)
(* OK for, RtspSession misses a subsession only for one that had set up    *)
(* another media session, and rtsp_session_ only for one that set up none  *)
(* since its last TEARDOWN.                                                *)
(* (rtsp_connection.cpp:97, 340, 342, 511, 535; rtsp_session.cpp:84)       *)
FaultsAreProvoked ==
    fault # NoFault =>
      LET by == client[fault.conn]
      IN /\ fault.why = "no active media" => by.served = None
         /\ fault.why = "other media" => fault.media \notin Media \intersect {by.served}
         /\ fault.why = "no subsession" => by.session \notin {None, fault.media}
         /\ fault.why = "no session" => by.session = None

(* No response is about a media session that no URL of this connection     *)
(* named (rtsp_connection.cpp:267, 374).                                   *)
ServesNamed ==
    resp # NoResponse => resp.media \in client[resp.conn].named

(* The inductive invariant.  A session is empty or has a stream, which it  *)
(* keeps under one track; a stream has one owner.                          *)
SessionsSound ==
    /\ DOMAIN session = Conn
    /\ \A c \in Conn :
         LET s == session[c]
         IN /\ DOMAIN s = DOMAIN NoSession
            /\ IF HasSession(c) THEN DOMAIN s.states # {} ELSE s = NoSession
            /\ IsFiniteSet(DOMAIN s.states)
            /\ DOMAIN s.states \subseteq Track
            /\ IsInjective(s.states)
            /\ c \notin open => s = NoSession

Owned == SessionsSound /\ StreamsOwned /\ IsFiniteSet(live)

(* What a client may take from the responses it got: the media session of  *)
(* the last OPTIONS or DESCRIBE answered OK is active, and its session is  *)
(* of the one it was first set up for.                                     *)
ClientsInformed ==
    \A c \in Conn :
      /\ c \notin open => client[c] = NewClient
      /\ active[c] # None => active[c] \in client[c].named
      /\ client[c].served # None => active[c] = client[c].served
      /\ client[c].session = session[c].media
      /\ HasSession(c) => session[c].media \in client[c].named

IInv ==
    /\ TypeOK
    /\ S!IInv
    /\ Owned
    /\ PlayingIsReachable
    /\ ClientsInformed
    /\ FaultsAreProvoked
    /\ ServesNamed

(* The streams of the server are those of RtspStreamState: whatever the    *)
(* handlers do, they construct, play and destroy streams only as it says.  *)
ImplementsStreams == S!Spec

(* Every PLAY comes to its end, and the closures of destroyed streams      *)
(* drain, whatever other clients ask: no request and no frame whose body   *)
(* never comes keeps the loop from them, unless the process ends.          *)
PlaysEnd == [](fault = NoFault) => S!PlayingEnds /\ S!StaleClosuresDrain

-----------------------------------------------------------------------------
(* What assertions of the code say and clients can refute. *)

(* assert(!media_session_name_.empty()) (rtsp_connection.cpp:340). *)
SetupHasActiveMedia == fault.why # "no active media"

(* A media session is what the path of the URL stands for                  *)
(* (media_session.h:13): an OPTIONS, DESCRIBE or SETUP answered OK speaks  *)
(* of the one that its URL named.                                          *)
ServesRequested ==
    resp.url # None => resp.media = resp.url
=============================================================================
