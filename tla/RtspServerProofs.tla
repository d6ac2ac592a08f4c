-------------------------- MODULE RtspServerProofs --------------------------
(***************************************************************************)
(* For any connections, media sessions, transports and ports: the server   *)
(* uses its streams as RtspStreamState says, so that what is proved of     *)
(* streams holds of those of the server, and sessions own them.            *)
(***************************************************************************)
EXTENDS RtspServer, Induction, TLAPS

Streams == INSTANCE RtspStreamStateProofs

-----------------------------------------------------------------------------
(* The maps of a session *)

(* std::map::insert adds a value unless there is one, and keeps the others. *)
LEMMA InsertIs ==
    ASSUME NEW f, NEW k, NEW v
    PROVE  /\ DOMAIN Insert(f, k, v) = DOMAIN f \union {k}
           /\ Range(f) \subseteq Range(Insert(f, k, v))
           /\ Range(Insert(f, k, v)) \subseteq Range(f) \union {v}
           /\ IsInjective(f) /\ v \notin Range(f) => IsInjective(Insert(f, k, v))
<1>1. CASE k \in DOMAIN f
  BY <1>1 DEF Insert
<1>2. CASE k \notin DOMAIN f
  <2>1. /\ DOMAIN Insert(f, k, v) = DOMAIN f \union {k}
        /\ \A x \in DOMAIN f : Insert(f, k, v)[x] = f[x]
        /\ Insert(f, k, v)[k] = v
    BY <1>2 DEF Insert
  <2> QED
    BY <1>2, <2>1 DEF Range, IsInjective
<1> QED
  BY <1>1, <1>2

(* No session holds a stream. *)
LEMMA NoSessionIs ==
    /\ DOMAIN NoSession.states = {}
    /\ Held(NoSession) = {}
    /\ NoSession.media = None
    /\ NoSession.rtcp = {}
    /\ NoSession.ports = {}
    /\ IsInjective(NoSession.states)
    /\ IsFiniteSet(DOMAIN NoSession.states)
<1>1. NoSession.states = <<>> /\ NoSession.binding = <<>>
  BY DEF NoSession
<1>2. DOMAIN NoSession.states = {} /\ DOMAIN NoSession.binding = {}
  BY <1>1
<1> QED
  BY <1>2, FS_EmptySet DEF NoSession, Held, Range, IsInjective

(* A session that was set up for a track: what it held it holds, with the  *)
(* new stream or without.                                                  *)
LEMMA BoundIs ==
    ASSUME NEW s, DOMAIN s = DOMAIN NoSession, NEW t, NEW a, NEW n,
           a \notin Held(s), IsInjective(s.states), IsFiniteSet(DOMAIN s.states)
    PROVE  LET b == Bound(s, t, a, n)
           IN /\ DOMAIN b = DOMAIN NoSession
              /\ b.media = s.media /\ b.ports = s.ports
              /\ DOMAIN b.states = DOMAIN s.states \union {t}
              /\ Range(s.states) \subseteq Range(b.states)
              /\ Range(b.states) \subseteq Range(s.states) \union {a}
              /\ Range(b.binding) \subseteq Range(s.binding) \union {a}
              /\ DOMAIN b.binding = DOMAIN s.binding \union {Key(n[1]), Key(n[2])}
              /\ b.rtcp \subseteq s.rtcp \union {Key(n[2])}
              /\ IsInjective(b.states)
              /\ IsFiniteSet(DOMAIN b.states)
              /\ Held(b) = IF a \in Held(b) THEN Held(s) \union {a} ELSE Held(s)
<1> DEFINE b == Bound(s, t, a, n)
           first == Insert(s.binding, Key(n[1]), a)
<1>1. DOMAIN NoSession = {"media", "states", "binding", "rtcp", "ports"}
  BY DEF NoSession
<1>2. /\ DOMAIN b = DOMAIN NoSession
      /\ b.media = s.media /\ b.ports = s.ports
      /\ b.states = Insert(s.states, t, a)
      /\ b.binding = Insert(first, Key(n[2]), a)
      /\ b.rtcp = NewRtcp(s, n)
  BY <1>1 DEF Bound
<1> HIDE DEF b
<1>3. a \notin Range(s.states)
  BY DEF Held
<1>4. /\ DOMAIN b.states = DOMAIN s.states \union {t}
      /\ Range(s.states) \subseteq Range(b.states)
      /\ Range(b.states) \subseteq Range(s.states) \union {a}
      /\ IsInjective(b.states)
  <2>1. LET i == Insert(s.states, t, a)
        IN /\ DOMAIN i = DOMAIN s.states \union {t}
           /\ Range(s.states) \subseteq Range(i)
           /\ Range(i) \subseteq Range(s.states) \union {a}
           /\ IsInjective(i)
    BY <1>3, InsertIs, Zenon
  <2> QED
    BY <1>2, <2>1, Zenon
<1>5. /\ DOMAIN first = DOMAIN s.binding \union {Key(n[1])}
      /\ Range(s.binding) \subseteq Range(first)
      /\ Range(first) \subseteq Range(s.binding) \union {a}
  BY InsertIs
<1> HIDE DEF first
<1>6. /\ DOMAIN b.binding = DOMAIN first \union {Key(n[2])}
      /\ Range(first) \subseteq Range(b.binding)
      /\ Range(b.binding) \subseteq Range(first) \union {a}
  <2>1. LET i == Insert(first, Key(n[2]), a)
        IN /\ DOMAIN i = DOMAIN first \union {Key(n[2])}
           /\ Range(first) \subseteq Range(i)
           /\ Range(i) \subseteq Range(first) \union {a}
    <3> DEFINE k == Key(n[2])
    <3> HIDE DEF k
    <3>1. LET i == Insert(first, k, a)
          IN /\ DOMAIN i = DOMAIN first \union {k}
             /\ Range(first) \subseteq Range(i)
             /\ Range(i) \subseteq Range(first) \union {a}
      BY InsertIs
    <3> QED
      BY <3>1 DEF k
  <2>2. b.binding = Insert(first, Key(n[2]), a)
    BY <1>2
  <2> QED
    BY <2>1, <2>2
<1>7. IsFiniteSet(DOMAIN b.states)
  BY <1>4, FS_AddElement
<1>8. Held(b) = IF a \in Held(b) THEN Held(s) \union {a} ELSE Held(s)
  <2>1. Held(s) \subseteq Held(b) /\ Held(b) \subseteq Held(s) \union {a}
    BY <1>4, <1>5, <1>6 DEF Held
  <2> QED
    BY <2>1
<1>9. /\ Range(b.binding) \subseteq Range(s.binding) \union {a}
      /\ DOMAIN b.binding = DOMAIN s.binding \union {Key(n[1]), Key(n[2])}
  BY <1>5, <1>6
<1>10. b.rtcp \subseteq s.rtcp \union {Key(n[2])}
  BY <1>2 DEF NewRtcp
<1> QED
  BY <1>2, <1>4, <1>7, <1>8, <1>9, <1>10 DEF b
-----------------------------------------------------------------------------
(* Ownership *)

(* The record that is the state of one connection's session. *)
Sound(s, free) ==
    /\ DOMAIN s = DOMAIN NoSession
    /\ IF s.media # None THEN DOMAIN s.states # {} ELSE s = NoSession
    /\ IsFiniteSet(DOMAIN s.states)
    /\ DOMAIN s.states \subseteq Track
    /\ IsInjective(s.states)
    /\ free => s = NoSession

(* The sessions are sound, each for itself. *)
LEMMA SoundIs ==
    SessionsSound <=> /\ DOMAIN session = Conn
                      /\ \A c \in Conn : Sound(session[c], c \notin open)
  BY DEF SessionsSound, Sound, HasSession

(* What exists is what some session holds. *)
LEMMA LiveIs ==
    (live = UNION {Held(session[c]) : c \in Conn})
      <=> (\A a : a \in live <=> \E c \in Conn : a \in Held(session[c]))
  OBVIOUS

(* A session that goes takes its streams with it, and no others. *)
LEMMA OwnedDrop ==
    ASSUME Owned, NEW c \in Conn,
           session' = [session EXCEPT ![c] = NoSession],
           live' = live \ Held(session[c]),
           open \ {c} \subseteq open'
    PROVE  Owned'
<1>1. DOMAIN session = Conn /\ \A d \in Conn : Sound(session[d], d \notin open)
  BY SoundIs DEF Owned
<1>2. /\ DOMAIN session' = Conn
      /\ \A d \in Conn : session'[d] = IF d = c THEN NoSession ELSE session[d]
  BY <1>1
<1>3. SessionsSound'
  <2>1. \A d \in Conn : Sound(session'[d], d \notin open')
    <3>1. Sound(NoSession, TRUE) /\ Sound(NoSession, FALSE)
      BY NoSessionIs DEF Sound
    <3> QED
      BY <1>1, <1>2, <3>1 DEF Sound
  <2> QED
    BY <1>2, <2>1 DEF SessionsSound, Sound, HasSession
<1>4. StreamsOwned'
  <2>1. \A a : a \in live <=> \E d \in Conn : a \in Held(session[d])
    BY LiveIs DEF Owned, StreamsOwned
  <2>2. \A d, e \in Conn : d # e => Held(session[d]) \intersect Held(session[e]) = {}
    BY DEF Owned, StreamsOwned
  <2>3. \A d \in Conn : Held(session'[d]) = IF d = c THEN {} ELSE Held(session[d])
    BY <1>2, NoSessionIs
  <2>4. \A a : a \in live' <=> \E d \in Conn : a \in Held(session'[d])
    BY <2>1, <2>2, <2>3
  <2>5. live' = UNION {Held(session'[d]) : d \in Conn}
    BY <2>4
  <2>6. \A d, e \in Conn : d # e => Held(session'[d]) \intersect Held(session'[e]) = {}
    BY <2>2, <2>3
  <2> QED
    BY <2>5, <2>6 DEF StreamsOwned, Held
<1>5. IsFiniteSet(live')
  BY FS_Subset DEF Owned
<1> QED
  BY <1>3, <1>4, <1>5 DEF Owned

(* A session takes a new stream, or leaves everything as it is. *)
LEMMA OwnedGain ==
    ASSUME Owned, NEW c \in Conn, c \in open, NEW s, NEW a, a \notin live,
           Sound(s, FALSE), UNCHANGED open,
           session' = [session EXCEPT ![c] = s],
           \/ Held(s) = Held(session[c]) \union {a} /\ live' = live \union {a}
           \/ Held(s) = Held(session[c]) /\ live' = live
    PROVE  Owned'
<1>1. DOMAIN session = Conn /\ \A d \in Conn : Sound(session[d], d \notin open)
  BY SoundIs DEF Owned
<1>2. /\ DOMAIN session' = Conn
      /\ \A d \in Conn : session'[d] = IF d = c THEN s ELSE session[d]
  BY <1>1
<1>3. SessionsSound'
  <2>1. \A d \in Conn : Sound(session'[d], d \notin open')
    BY <1>1, <1>2 DEF Sound
  <2> QED
    BY <1>2, <2>1 DEF SessionsSound, Sound, HasSession
<1>4. StreamsOwned'
  <2>1. \A x : x \in live <=> \E d \in Conn : x \in Held(session[d])
    BY LiveIs DEF Owned, StreamsOwned
  <2>2. \A d, e \in Conn : d # e => Held(session[d]) \intersect Held(session[e]) = {}
    BY DEF Owned, StreamsOwned
  <2>3. \A d \in Conn : Held(session'[d]) = IF d = c THEN Held(s) ELSE Held(session[d])
    BY <1>2
  <2>4. \A x : x \in live' <=> \E d \in Conn : x \in Held(session'[d])
    BY <2>1, <2>2, <2>3
  <2>5. live' = UNION {Held(session'[d]) : d \in Conn}
    BY <2>4
  <2>6. \A d \in Conn : a \notin Held(session[d])
    BY <2>1
  <2>7. \A d, e \in Conn : d # e => Held(session'[d]) \intersect Held(session'[e]) = {}
    BY <2>2, <2>3, <2>6
  <2> QED
    BY <2>5, <2>7 DEF StreamsOwned, Held
<1>5. IsFiniteSet(live')
  BY FS_AddElement DEF Owned
<1> QED
  BY <1>3, <1>4, <1>5 DEF Owned

(* A step that keeps sessions and streams keeps ownership. *)
LEMMA OwnedSame ==
    ASSUME Owned, UNCHANGED <<session, live>>, open \subseteq open'
    PROVE  Owned'
<1>1. session' = session /\ live' = live
  OBVIOUS
<1>2. SessionsSound'
  BY <1>1 DEF Owned, SessionsSound, HasSession
<1>3. StreamsOwned'
  BY <1>1 DEF Owned, StreamsOwned, Held
<1> QED
  BY <1>1, <1>2, <1>3 DEF Owned

(* The session a SETUP works on holds what the connection's session holds. *)
LEMMA SessionOfIs ==
    ASSUME Owned, NEW c \in Conn, active[c] \in Media
    PROVE  LET s == SessionOf(c)
           IN /\ DOMAIN s = DOMAIN NoSession
              /\ s.media # None
              /\ s.media = IF HasSession(c) THEN session[c].media ELSE active[c]
              /\ s.states = session[c].states
              /\ s.binding = session[c].binding
              /\ s.rtcp = session[c].rtcp
              /\ s.ports = session[c].ports
              /\ Held(s) = Held(session[c])
              /\ IsFiniteSet(DOMAIN s.states)
              /\ DOMAIN s.states \subseteq Track
              /\ IsInjective(s.states)
<1> DEFINE s == SessionOf(c)
<1>1. Sound(session[c], c \notin open)
  BY SoundIs DEF Owned
<1>2. active[c] # None
  BY MediaAssumption
<1>3. CASE HasSession(c)
  <2>1. s = session[c]
    BY <1>3 DEF SessionOf
  <2> QED
    BY <1>1, <1>3, <2>1 DEF Sound, HasSession
<1>4. CASE ~HasSession(c)
  <2>1. session[c] = NoSession
    BY <1>1, <1>4 DEF Sound, HasSession
  <2>2. s = [NoSession EXCEPT !.media = active[c]]
    BY <1>4 DEF SessionOf
  <2>3. /\ DOMAIN s = DOMAIN NoSession
        /\ s.media = active[c]
        /\ s.states = NoSession.states
        /\ s.binding = NoSession.binding
        /\ s.rtcp = NoSession.rtcp
        /\ s.ports = NoSession.ports
    BY <2>2 DEF NoSession
  <2>4. Held(s) = Held(NoSession)
    BY <2>3 DEF Held
  <2> HIDE DEF s
  <2>5. DOMAIN s.states = {} /\ IsFiniteSet(DOMAIN s.states) /\ IsInjective(s.states)
    BY <2>3, NoSessionIs
  <2> QED
    BY <1>2, <1>4, <2>1, <2>3, <2>4, <2>5 DEF s
<1> QED
  BY <1>3, <1>4

(* The two outcomes of a SETUP that is accepted: the new stream is held,   *)
(* or it is destroyed and the session is as before but for its creation.   *)
Takes(c, o, a, n, s) ==
    /\ a \in Addr \ live /\ n \in Numbers(o)
    /\ Sound(s, FALSE)
    /\ session' = [session EXCEPT ![c] = s]
    /\ s.media = SessionOf(c).media
    /\ Range(session[c].states) \subseteq Range(s.states)
    /\ DOMAIN s.binding = DOMAIN session[c].binding \union {Key(n[1]), Key(n[2])}
    /\ s.rtcp \subseteq session[c].rtcp \union {Key(n[2])}
    /\ \/ s.ports = session[c].ports
       \/ o.proto = "udp" /\ s.ports = session[c].ports \union {n[1]}
    /\ \/ Held(s) = Held(session[c]) \union {a} /\ S!Construct(a)
       \/ Held(s) = Held(session[c]) /\ UNCHANGED streamVars

(* One of them is what a SETUP does.                                       *)
LEMMA SetupIs ==
    ASSUME Owned, NEW c \in Conn, NEW m \in Media, NEW t \in Track,
           NEW o \in Transport, SetupStream(c, m, t, o)
    PROVE  \E a, n, s : Takes(c, o, a, n, s)
<1> DEFINE old == SessionOf(c)
<1>1. active[c] \in Media /\ active[c] = m
  BY DEF SetupStream
<1>2. /\ DOMAIN old = DOMAIN NoSession
      /\ old.media # None
      /\ old.states = session[c].states
      /\ old.binding = session[c].binding
      /\ old.rtcp = session[c].rtcp
      /\ old.ports = session[c].ports
      /\ Held(old) = Held(session[c])
      /\ IsFiniteSet(DOMAIN old.states)
      /\ DOMAIN old.states \subseteq Track
      /\ IsInjective(old.states)
  BY <1>1, SessionOfIs
<1>3. PICK n \in Numbers(o), a \in Addr \ live :
        LET b == Bound(old, t, a, n)
            bound == IF o.proto = "udp" THEN {n[1]} ELSE {} IN
        IF a \in Held(b)
        THEN /\ session' = [session EXCEPT ![c] = [b EXCEPT !.ports = @ \union bound]]
             /\ S!Construct(a)
        ELSE /\ session' = [session EXCEPT ![c] = b]
             /\ UNCHANGED streamVars
  BY DEF SetupStream
<1> DEFINE b == Bound(old, t, a, n)
           bound == IF o.proto = "udp" THEN {n[1]} ELSE {}
           p == [b EXCEPT !.ports = @ \union bound]
<1> HIDE DEF old
<1>4. a \notin Held(old)
  BY <1>2, LiveIs DEF Owned, StreamsOwned
<1>5. /\ DOMAIN b = DOMAIN NoSession
      /\ b.media = old.media /\ b.ports = old.ports
      /\ DOMAIN b.states = DOMAIN old.states \union {t}
      /\ Range(old.states) \subseteq Range(b.states)
      /\ DOMAIN b.binding = DOMAIN old.binding \union {Key(n[1]), Key(n[2])}
      /\ b.rtcp \subseteq old.rtcp \union {Key(n[2])}
      /\ IsInjective(b.states)
      /\ IsFiniteSet(DOMAIN b.states)
      /\ Held(b) = IF a \in Held(b) THEN Held(old) \union {a} ELSE Held(old)
  BY <1>2, <1>4, BoundIs
<1> HIDE DEF b
<1>6. DOMAIN b = {"media", "states", "binding", "rtcp", "ports"}
  BY <1>5 DEF NoSession
<1>7. /\ DOMAIN p = DOMAIN b
      /\ p.media = b.media /\ p.states = b.states /\ p.binding = b.binding
      /\ p.rtcp = b.rtcp
      /\ p.ports = b.ports \union bound
      /\ Held(p) = Held(b)
  BY <1>6 DEF Held
<1> HIDE DEF p
<1>8. Sound(b, FALSE) /\ Sound(p, FALSE)
  BY <1>2, <1>5, <1>7 DEF Sound
<1>9. CASE a \in Held(b)
  <2>1. session' = [session EXCEPT ![c] = p] /\ S!Construct(a)
    BY <1>3, <1>9 DEF b, p
  <2>2. p.ports = old.ports \/ (o.proto = "udp" /\ p.ports = old.ports \union {n[1]})
    BY <1>5, <1>7
  <2>3. Held(p) = Held(old) \union {a}
    BY <1>5, <1>7, <1>9
  <2> QED
    BY <1>2, <1>5, <1>7, <1>8, <2>1, <2>2, <2>3 DEF old, Takes
<1>10. CASE a \notin Held(b)
  <2>1. session' = [session EXCEPT ![c] = b] /\ UNCHANGED streamVars
    BY <1>3, <1>10 DEF b
  <2>2. Held(b) = Held(old)
    BY <1>5, <1>10
  <2> QED
    BY <1>2, <1>5, <1>8, <2>1, <2>2 DEF old, Takes
<1> QED
  BY <1>9, <1>10
-----------------------------------------------------------------------------
(* What handlers do to streams *)

(* The keys of a map that is finite, in their order. *)
LEMMA InOrderIs ==
    ASSUME NEW D \in SUBSET Nat, IsFiniteSet(D)
    PROVE  /\ InOrder(D) \in [1 .. Cardinality(D) -> D]
           /\ IsInjective(InOrder(D))
<1> DEFINE n == Cardinality(D)
           Ordered(s) == \A i, j \in 1 .. n : i < j => s[i] < s[j]
           s == InOrder(D)
<1>1. \E r \in [1 .. n -> D] : Ordered(r)
  BY OrderExists
<1>2. s \in [1 .. n -> D] /\ Ordered(s)
  BY <1>1 DEF InOrder
<1> HIDE DEF s
<1>3. \A i, j \in 1 .. n : s[i] = s[j] => i = j
  <2> TAKE i, j \in 1 .. n
  <2>1. i \in Nat /\ j \in Nat
    OBVIOUS
  <2>4. s[i] \in Nat /\ s[j] \in Nat
    BY <1>2
  <2>2. i < j => s[i] < s[j]
    BY <1>2
  <2>3. j < i => s[j] < s[i]
    BY <1>2
  <2> QED
    BY <2>1, <2>2, <2>3, <2>4
<1> QED
  BY <1>2, <1>3 DEF IsInjective, s

(* A PLAY goes to every stream of states_ once, in the order of the tracks. *)
LEMMA PlayIs ==
    ASSUME Owned, NEW c \in Conn, Play(c)
    PROVE  \E q \in S!Sessions(live) :
             S!Play(q) /\ Range(q) \subseteq Range(session[c].states)
<1> DEFINE states == session[c].states
           n == Cardinality(DOMAIN states)
           tracks == InOrder(DOMAIN states)
           q == [i \in DOMAIN tracks |-> states[tracks[i]]]
<1>1. Sound(session[c], c \notin open)
  BY SoundIs DEF Owned
<1>2. HasSession(c) /\ S!Play(q)
  BY DEF Play
<1>3. DOMAIN states \in SUBSET Nat
  <2>1. Track \subseteq Nat
    BY MediaAssumption DEF Track
  <2> QED
    BY <1>1, <2>1 DEF Sound
<1>4. IsFiniteSet(DOMAIN states) /\ IsInjective(states) /\ DOMAIN states # {}
  BY <1>1, <1>2 DEF Sound, HasSession
<1>5. tracks \in [1 .. n -> DOMAIN states] /\ IsInjective(tracks)
  BY <1>3, <1>4, InOrderIs
<1> HIDE DEF tracks
<1>6. /\ DOMAIN q = 1 .. n
      /\ \A i \in 1 .. n : q[i] = states[tracks[i]] /\ tracks[i] \in DOMAIN states
  BY <1>5
<1>7. IsInjective(q)
  BY <1>4, <1>5, <1>6 DEF IsInjective
<1>8. Range(q) \subseteq Range(states)
  BY <1>6 DEF Range
<1>9. Range(states) \subseteq live
  <2>1. Range(states) \subseteq Held(session[c])
    BY DEF Held
  <2> QED
    BY <2>1, LiveIs DEF Owned, StreamsOwned
<1>10. q \in [1 .. n -> live]
  BY <1>6, <1>9 DEF Range
<1>11. n \in 1 .. Cardinality(live)
  <2>1. IsFiniteSet(live) /\ Cardinality(live) \in Nat
    BY FS_CardinalityType DEF Owned
  <2>2. n \in Nat /\ n # 0
    BY <1>4, FS_CardinalityType, FS_EmptySet
  <2> DEFINE f == [x \in DOMAIN states |-> states[x]]
  <2>3. f \in Injection(DOMAIN states, live)
    BY <1>4, <1>9 DEF Injection, IsInjective, Range
  <2>4. n <= Cardinality(live)
    BY <2>1, <2>3, FS_Injection
  <2> QED
    BY <2>1, <2>2, <2>4
<1>12. Cardinality(live) = S!Cardinality(live)
  BY Zenon DEF Cardinality, S!Cardinality
<1> HIDE DEF q, n
<1>13. q \in S!Sessions(live)
  BY <1>7, <1>10, <1>11, <1>12 DEF S!Sessions, S!IsInjective, IsInjective
<1> QED
  BY <1>2, <1>8, <1>13 DEF q

(* TEARDOWN and disconnect destroy what the session holds, if anything. *)
Gone(c) ==
    /\ session' = [session EXCEPT ![c] = NoSession]
    /\ open \ {c} \subseteq open'
    /\ \/ Held(session[c]) = {} /\ UNCHANGED streamVars
       \/ /\ Held(session[c]) \in (SUBSET live) \ {{}}
          /\ S!Release(Held(session[c]))

(* So it is, whichever of the two.                                         *)
LEMMA GoneIs ==
    ASSUME Owned, NEW c \in Conn, Disconnect(c) \/ Teardown(c)
    PROVE  Gone(c)
<1>1. Sound(session[c], c \notin open)
  BY SoundIs DEF Owned
<1>2. Held(session[c]) \subseteq live
  BY LiveIs DEF Owned, StreamsOwned
<1>3. CASE HasSession(c)
  <2>1. S!Release(Held(session[c]))
    BY <1>3 DEF Disconnect, Teardown
  <2>2. Held(session[c]) # {}
    BY <1>1, <1>3 DEF Sound, HasSession, Held, Range
  <2>3. session' = [session EXCEPT ![c] = NoSession] /\ open \ {c} \subseteq open'
    BY DEF Disconnect, Teardown
  <2> QED
    BY <1>2, <2>1, <2>2, <2>3 DEF Gone
<1>4. CASE ~HasSession(c)
  <2>1. Disconnect(c)
    BY <1>4 DEF Teardown
  <2>2. /\ UNCHANGED streamVars
        /\ session' = [session EXCEPT ![c] = NoSession]
        /\ open \ {c} \subseteq open'
    BY <1>4, <2>1 DEF Disconnect
  <2>3. session[c] = NoSession
    BY <1>1, <1>4 DEF Sound, HasSession
  <2> QED
    BY <2>2, <2>3, NoSessionIs DEF Gone
<1> QED
  BY <1>3, <1>4

(* All other requests leave sessions and streams alone. *)
Quiet == UNCHANGED <<session, streamVars>> /\ open \subseteq open'

(* A request is quiet, or one of four.                                     *)
LEMMA RequestIs ==
    ASSUME NEW c \in Conn, Request(c)
    PROVE  \/ Quiet
           \/ Disconnect(c) \/ Teardown(c)
           \/ Play(c)
           \/ \E m \in Media, t \in Track, o \in Transport : SetupStream(c, m, t, o)
<1>1. CASE Accept(c)
  BY <1>1 DEF Accept, Quiet
<1>2. CASE \/ \E m \in Media \union {Unknown} :
                \/ Options(c, m)
                \/ \E sdp \in BOOLEAN : Describe(c, m, sdp)
           \/ \E m \in Media \union {Unknown, None} : SetupAsserts(c, m)
  BY <1>2 DEF Options, Describe, SetupAsserts, Crash, Quiet
<1>3. CASE \E m \in Media, t \in Track \union {Unknown} : SetupNotFound(c, m, t)
  BY <1>3 DEF SetupNotFound, Quiet
<1>4. CASE \E m \in Media, t \in Track, o \in Transport :
             SetupUnsupported(c, m, t, o) \/ SetupForeign(c, m, t, o)
  BY <1>4 DEF SetupUnsupported, SetupForeign, Crash, Quiet
<1>5. CASE \/ UseWithoutSession(c) \/ OtherMethod(c)
           \/ FrameHead(c) \/ FrameBody(c) \/ WalkLeavesBody(c)
  BY <1>5 DEF UseWithoutSession, OtherMethod, FrameHead, FrameBody, WalkLeavesBody,
     Crash, Quiet
<1> QED
  BY <1>1, <1>2, <1>3, <1>4, <1>5 DEF Request

(* Nothing exists and nothing is held in the beginning. *)
LEMMA OwnedInit == Init => Owned
<1> SUFFICES ASSUME Init PROVE Owned
  OBVIOUS
<1>1. live = {} /\ session = [c \in Conn |-> NoSession]
  BY DEF Init, S!Init
<1>2. \A c \in Conn : session[c] = NoSession
  BY <1>1
<1>3. SessionsSound
  BY <1>1, <1>2, NoSessionIs DEF SessionsSound, HasSession
<1>4. StreamsOwned
  BY <1>1, <1>2, NoSessionIs DEF StreamsOwned
<1> QED
  BY <1>1, <1>3, <1>4, FS_EmptySet DEF Owned

(* Ownership is inductive, with the soundness of sessions. *)
LEMMA OwnedNext == Owned /\ [Next]_vars => Owned'
<1> SUFFICES ASSUME Owned, [Next]_vars PROVE Owned'
  OBVIOUS
<1>1. CASE UNCHANGED vars
  BY <1>1, OwnedSame DEF vars
<1>2. CASE LoopFunctor \/ LoopTimer
  <2>1. UNCHANGED <<session, live>> /\ open \subseteq open'
    BY <1>2 DEF LoopFunctor, LoopTimer, connVars, S!RunFunctor, S!FireTimer
  <2> QED
    BY <2>1, OwnedSame
<1>3. ASSUME NEW c \in Conn, Request(c) PROVE Owned'
  <2>1. CASE Quiet
    BY <2>1, OwnedSame DEF Quiet, streamVars
  <2>2. CASE Disconnect(c) \/ Teardown(c)
    <3>1. Gone(c)
      BY <2>2, GoneIs
    <3>2. live' = live \ Held(session[c])
      BY <3>1 DEF Gone, streamVars, S!Release
    <3> QED
      BY <3>1, <3>2, OwnedDrop DEF Gone
  <2>3. CASE Play(c)
    <3>1. UNCHANGED <<session, live>> /\ open \subseteq open'
      BY <2>3, Zenon DEF Play, S!Play
    <3> QED
      BY <3>1, OwnedSame
  <2>4. ASSUME NEW m \in Media, NEW t \in Track, NEW o \in Transport,
               SetupStream(c, m, t, o)
        PROVE  Owned'
    <3>1. PICK a, n, s : Takes(c, o, a, n, s)
      BY <2>4, SetupIs
    <3>2. c \in open /\ UNCHANGED open
      BY <2>4 DEF SetupStream, Ready
    <3>3. \/ Held(s) = Held(session[c]) \union {a} /\ live' = live \union {a}
          \/ Held(s) = Held(session[c]) /\ live' = live
      BY <3>1 DEF Takes, streamVars, S!Construct
    <3> QED
      BY <3>1, <3>2, <3>3, OwnedGain DEF Takes
  <2> QED
    BY <1>3, <2>1, <2>2, <2>3, <2>4, RequestIs
<1> QED
  BY <1>1, <1>2, <1>3 DEF Next

(* Ownership, whatever clients send: a stream exists exactly as long as a  *)
(* session holds it, and only one does (rtsp_session.h:67, 68).            *)
THEOREM StreamsAreOwned == Spec => []StreamsOwned
<1>1. Owned => StreamsOwned
  BY DEF Owned
<1> QED
  BY <1>1, OwnedInit, OwnedNext, PTL DEF Spec
-----------------------------------------------------------------------------
(* The streams of the server are those of RtspStreamState *)

(* A step of the server is one of the streams, or none they see. *)
LEMMA StepImplements == Owned /\ [Next]_vars => [S!Next]_(S!vars)
<1> SUFFICES ASSUME Owned, [Next]_vars PROVE S!Next \/ UNCHANGED streamVars
  BY DEF S!vars, streamVars
<1>1. CASE UNCHANGED vars
  BY <1>1 DEF vars, streamVars
<1>2. CASE LoopFunctor \/ LoopTimer
  BY <1>2 DEF LoopFunctor, LoopTimer, S!Next
<1>3. ASSUME NEW c \in Conn, Request(c) PROVE S!Next \/ UNCHANGED streamVars
  <2>1. CASE Quiet
    BY <2>1 DEF Quiet
  <2>2. CASE Disconnect(c) \/ Teardown(c)
    <3>1. Gone(c)
      BY <2>2, GoneIs
    <3> QED
      BY <3>1 DEF Gone, S!Next, S!Request
  <2>3. CASE Play(c)
    <3>1. PICK q \in S!Sessions(live) : S!Play(q)
      BY <2>3, PlayIs
    <3> QED
      BY <3>1 DEF S!Next, S!Request
  <2>4. ASSUME NEW m \in Media, NEW t \in Track, NEW o \in Transport,
               SetupStream(c, m, t, o)
        PROVE  S!Next \/ UNCHANGED streamVars
    <3>1. PICK a, n, s : Takes(c, o, a, n, s)
      BY <2>4, SetupIs
    <3> QED
      BY <3>1 DEF Takes, S!Next, S!Request
  <2> QED
    BY <1>3, <2>1, <2>2, <2>3, <2>4, RequestIs
<1> QED
  BY <1>1, <1>2, <1>3 DEF Next

(* Whatever the handlers do, they construct, play and destroy streams only *)
(* as RtspStreamState says (rtsp_session.cpp, rtsp_connection.cpp).        *)
THEOREM StreamsRefine == Spec => ImplementsStreams
<1>1. Init => S!Init
  BY DEF Init
<1> QED
  BY <1>1, OwnedInit, OwnedNext, StepImplements, PTL DEF Spec, ImplementsStreams, S!Spec

(* The module of the proofs about streams speaks of the same specification *)
(* and the same invariant.                                                 *)
LEMMA SameLoop ==
    /\ S!RunFunctor <=> Streams!RunFunctor
    /\ S!FireTimer <=> Streams!FireTimer
<1>1. S!RunFunctor <=> Streams!RunFunctor
  BY Zenon DEF S!RunFunctor, Streams!RunFunctor, S!PlayOnce, S!Cancel, S!ReadGarbage, S!SendBye,
     S!SendParam, S!SendSlice, S!SendEmpty, S!HasFrame, S!Active, S!Deliver, S!Follow,
     S!Stamp, S!Base, Streams!PlayOnce, Streams!Cancel, Streams!ReadGarbage,
     Streams!SendBye, Streams!SendParam, Streams!SendSlice, Streams!SendEmpty,
     Streams!HasFrame, Streams!Active, Streams!Deliver, Streams!Follow,
     Streams!Stamp, Streams!Base
<1>2. S!FireTimer <=> Streams!FireTimer
  BY Zenon DEF S!FireTimer, Streams!FireTimer, S!PlayOnce, S!Cancel, S!ReadGarbage, S!SendBye,
     S!SendParam, S!SendSlice, S!SendEmpty, S!HasFrame, S!Active, S!Deliver, S!Follow,
     S!Stamp, S!Base, Streams!PlayOnce, Streams!Cancel, Streams!ReadGarbage,
     Streams!SendBye, Streams!SendParam, Streams!SendSlice, Streams!SendEmpty,
     Streams!HasFrame, Streams!Active, Streams!Deliver, Streams!Follow,
     Streams!Stamp, Streams!Base
<1> QED
  BY <1>1, <1>2

(* So are the specifications, *)
LEMMA SameSpec == S!Spec <=> Streams!Spec
<1>1. S!Init <=> Streams!Init
  BY Zenon DEF S!Init, Streams!Init, S!NoStream, Streams!NoStream, S!NewStream,
     Streams!NewStream
<1>2. S!Request <=> Streams!Request
  BY Zenon DEF S!Request, S!Construct, S!NewStream, S!Sessions, S!Play, S!Release,
     S!Range, S!IsInjective, S!Cardinality, Streams!Request, Streams!Construct,
     Streams!NewStream, Streams!Sessions, Streams!Play, Streams!Release,
     Streams!Range, Streams!IsInjective, Streams!Cardinality
<1>3. [S!Next]_(S!vars) <=> [Streams!Next]_(Streams!vars)
  BY <1>2, SameLoop DEF S!Next, Streams!Next, S!vars, Streams!vars
<1> QED
  BY <1>1, <1>3, PTL DEF S!Spec, Streams!Spec

(* the types, *)
LEMMA SameType == S!TypeOK <=> Streams!TypeOK
  BY Zenon DEF S!TypeOK, S!Stream, S!Task, S!Frame, S!Nalu, Streams!TypeOK,
     Streams!Stream, Streams!Task, Streams!Frame, Streams!Nalu

(* and the invariants. *)
LEMMA SameInvariant == S!IInv <=> Streams!IInv
<1>1. \A M : S!Queued(M) = Streams!Queued(M)
  BY Zenon DEF S!Queued, S!Count, S!Matching, S!Cardinality, Streams!Queued,
     Streams!Count, Streams!Matching, Streams!Cardinality
<1>2. \A a : /\ S!ForBlock(a) = Streams!ForBlock(a)
             /\ S!ForCurrent(a) = Streams!ForCurrent(a)
  BY Zenon DEF S!ForBlock, S!ForCurrent, S!Task, Streams!ForBlock,
     Streams!ForCurrent, Streams!Task
<1>3. S!NoLostChain /\ S!NoExtraChain <=> Streams!NoLostChain /\ Streams!NoExtraChain
  BY <1>1, <1>2, Zenon DEF S!NoLostChain, S!NoExtraChain, Streams!NoLostChain,
     Streams!NoExtraChain
<1> QED
  BY <1>3, SameType, Zenon DEF S!IInv, S!FreeIsReset, S!LiveHasSource, S!IdleIsFresh,
     S!PlayingIsPlayed, S!SilentUntilPlayed, Streams!IInv, Streams!FreeIsReset,
     Streams!LiveHasSource, Streams!IdleIsFresh, Streams!PlayingIsPlayed,
     Streams!SilentUntilPlayed

(* So is the promise about steps.                                          *)
LEMMA SameSilence == S!ReleasedIsSilent <=> Streams!ReleasedIsSilent
  BY PTL DEF S!ReleasedIsSilent, Streams!ReleasedIsSilent, S!vars, Streams!vars

(* What is proved of streams holds of those of the server: nothing is sent *)
(* before PLAY nor for a stream that is gone, and chains of closures are   *)
(* neither lost nor multiplied (rtsp_stream_state.cpp:27-34, 136-191).     *)
THEOREM StreamsKeepTheirPromises == Spec => []S!IInv /\ S!ReleasedIsSilent
<1>1. Streams!Spec => []Streams!IInv /\ Streams!ReleasedIsSilent
  BY StreamAssumption, Streams!Invariant, Streams!ReleasedStaysSilent, PTL
     DEF S!Nalu, Streams!Nalu
<1> QED
  BY <1>1, StreamsRefine, SameSpec, SameInvariant, SameSilence, PTL
     DEF ImplementsStreams
-----------------------------------------------------------------------------
(* Type correctness *)

Client == [named : SUBSET Media, served : Media \union {None},
           session : Media \union {None}]

(* What TypeOK says of connections and does not follow from ownership. *)
SessionTyped(s) ==
    /\ s.media \in Media \union {None}
    /\ DOMAIN s.binding \subseteq 0 .. 255
    /\ s.rtcp \subseteq 0 .. 255
    /\ s.ports \subseteq UdpPort

SessionsTyped == \A c \in Conn : SessionTyped(session[c])

ConnectionsTyped ==
    /\ open \subseteq Conn
    /\ active \in [Conn -> Media \union {None}]
    /\ \A c \in Conn : c \notin open => active[c] = None
    /\ frame \in [Conn -> {None, "body"}]
    /\ client \in [Conn -> Client]
    /\ resp = NoResponse \/ resp.conn \in Conn
    /\ fault = NoFault \/ fault.conn \in Conn

(* The rest of the types follows from ownership. *)
LEMMA TypeIs == S!IInv /\ Owned /\ SessionsTyped /\ ConnectionsTyped => TypeOK
<1> SUFFICES ASSUME S!IInv, Owned, SessionsTyped, ConnectionsTyped PROVE TypeOK
  OBVIOUS
<1>1. S!TypeOK /\ live \subseteq Addr
  BY DEF S!IInv, S!TypeOK
<1>2. \A c \in Conn : Sound(session[c], c \notin open) /\ Held(session[c]) \subseteq live
  BY SoundIs, LiveIs DEF Owned, StreamsOwned
<1>3. ASSUME NEW c \in Conn
      PROVE  /\ session[c].media \in Media \union {None}
             /\ Range(session[c].states) \subseteq Addr
             /\ DOMAIN session[c].states \subseteq Track
             /\ Range(session[c].binding) \subseteq Addr
             /\ DOMAIN session[c].binding \subseteq 0 .. 255
             /\ session[c].rtcp \subseteq 0 .. 255
             /\ session[c].ports \subseteq UdpPort
             /\ c \notin open => session[c] = NoSession /\ active[c] = None
  BY <1>1, <1>2 DEF Sound, Held, SessionsTyped, SessionTyped, ConnectionsTyped
<1> QED
  BY <1>1, <1>3, Zenon DEF TypeOK, ConnectionsTyped, Client

(* A low byte is one, and a port of UDP is one that the server may bind. *)
LEMMA NumbersAre ==
    ASSUME NEW o \in Transport, NEW n \in Numbers(o)
    PROVE  /\ Key(n[1]) \in 0 .. 255 /\ Key(n[2]) \in 0 .. 255
           /\ o.proto = "udp" => n[1] \in UdpPort
<1>1. o.rtp \in Nat /\ o.rtcp \in Nat /\ UdpPort \subseteq Nat
  BY TransportAssumption
<1>2. FreePorts \subseteq UdpPort
  BY DEF FreePorts
<1>3. n[1] \in Nat /\ n[2] \in Nat
  BY <1>1, <1>2 DEF Numbers
<1>4. \A k \in Nat : Key(k) \in 0 .. 255
  BY DEF Key
<1>5. o.proto = "udp" => n[1] \in UdpPort
  BY <1>2 DEF Numbers
<1> QED
  BY <1>3, <1>4, <1>5

(* Types of sessions are inductive, *)
LEMMA SessionsTypedNext ==
    Owned /\ SessionsTyped /\ ConnectionsTyped /\ [Next]_vars => SessionsTyped'
<1> SUFFICES ASSUME Owned, SessionsTyped, ConnectionsTyped, [Next]_vars
             PROVE  SessionsTyped'
  OBVIOUS
<1>1. CASE UNCHANGED session
  BY <1>1 DEF SessionsTyped
<1>2. ASSUME NEW c \in Conn, NEW s, SessionTyped(s),
             session' = [session EXCEPT ![c] = s]
      PROVE  SessionsTyped'
  <2>1. DOMAIN session = Conn
    BY DEF Owned, SessionsSound
  <2>2. \A d \in Conn : session'[d] = IF d = c THEN s ELSE session[d]
    BY <1>2, <2>1
  <2> QED
    BY <1>2, <2>2 DEF SessionsTyped
<1>3. CASE UNCHANGED vars \/ LoopFunctor \/ LoopTimer
  BY <1>1, <1>3 DEF vars, LoopFunctor, LoopTimer, connVars
<1>4. ASSUME NEW c \in Conn, Request(c) PROVE SessionsTyped'
  <2>1. CASE Quiet \/ Play(c)
    BY <1>1, <2>1 DEF Quiet, Play
  <2>2. CASE Disconnect(c) \/ Teardown(c)
    <3>1. SessionTyped(NoSession)
      BY NoSessionIs DEF SessionTyped, NoSession
    <3> QED
      BY <1>2, <2>2, <3>1, GoneIs DEF Gone
  <2>3. ASSUME NEW m \in Media, NEW t \in Track, NEW o \in Transport,
               SetupStream(c, m, t, o)
        PROVE  SessionsTyped'
    <3>1. PICK a, n, s : Takes(c, o, a, n, s)
      BY <2>3, SetupIs
    <3>2. SessionTyped(session[c])
      BY DEF SessionsTyped
    <3>3. active[c] \in Media
      BY <2>3 DEF SetupStream
    <3>4. SessionOf(c).media \in Media \union {None}
      BY <3>2, <3>3, SessionOfIs DEF SessionTyped
    <3>6. /\ Key(n[1]) \in 0 .. 255 /\ Key(n[2]) \in 0 .. 255
          /\ o.proto = "udp" => n[1] \in UdpPort
      BY <3>1, NumbersAre, Zenon DEF Takes
    <3>7. /\ DOMAIN session[c].binding \subseteq 0 .. 255
          /\ session[c].rtcp \subseteq 0 .. 255
          /\ session[c].ports \subseteq UdpPort
      BY <3>2 DEF SessionTyped
    <3>5. SessionTyped(s)
      BY <3>1, <3>4, <3>6, <3>7 DEF Takes, SessionTyped
    <3> QED
      BY <1>2, <3>1, <3>5 DEF Takes
  <2> QED
    BY <1>4, <2>1, <2>2, <2>3, RequestIs
<1> QED
  BY <1>3, <1>4 DEF Next

(* A response, and the end of the process, are of a connection. *)
LEMMA RecordsAre ==
    ASSUME NEW c \in Conn, NEW x, NEW y
    PROVE  /\ Reply(c, x, y) => resp'.conn \in Conn
           /\ Refuse => resp' = NoResponse
           /\ Crash(x, c, y) =>
                /\ fault'.conn \in Conn
                /\ UNCHANGED <<open, active, session, frame, client, resp>>
<1>1. Reply(c, x, y) => resp'.conn \in Conn
  BY DEF Reply
<1>2. Refuse => resp' = NoResponse
  BY Zenon DEF Refuse
<1>3. Crash(x, c, y) =>
        /\ fault'.conn \in Conn
        /\ UNCHANGED <<open, active, session, frame, client, resp>>
  BY DEF Crash
<1> QED
  BY <1>1, <1>2, <1>3, Zenon

(* What a client learns has its type. *)
LEMMA LearnIs ==
    ASSUME ConnectionsTyped, NEW c \in Conn, NEW m, NEW media \in Media \union {None}
    PROVE  /\ Name(c, m) => client' \in [Conn -> Client]
           /\ NameServed(c, m, media) => client' \in [Conn -> Client]
           /\ client' = [client EXCEPT ![c].session = media]
                => client' \in [Conn -> Client]
<1>1. client \in [Conn -> Client]
  BY DEF ConnectionsTyped
<1>2. client[c].named \union ({m} \intersect Media) \in SUBSET Media
  BY <1>1 DEF Client
<1>3. CASE Name(c, m)
  BY <1>1, <1>2, <1>3 DEF Name, Client
<1>4. CASE NameServed(c, m, media)
  BY <1>1, <1>2, <1>4 DEF NameServed, Client
<1>5. CASE client' = [client EXCEPT ![c].session = media]
  BY <1>1, <1>5 DEF Client
<1> QED
  BY <1>3, <1>4, <1>5

(* and so are those of connections. *)
LEMMA ConnectionsTypedNext ==
    Owned /\ SessionsTyped /\ ConnectionsTyped /\ [Next]_vars => ConnectionsTyped'
<1> SUFFICES ASSUME Owned, SessionsTyped, ConnectionsTyped, [Next]_vars
             PROVE  ConnectionsTyped'
  OBVIOUS
<1>1. CASE UNCHANGED connVars
  BY <1>1 DEF ConnectionsTyped, connVars
<1>2. CASE UNCHANGED vars \/ LoopFunctor \/ LoopTimer
  BY <1>1, <1>2 DEF vars, LoopFunctor, LoopTimer, connVars
<1> DEFINE Answered(c) == resp' = NoResponse \/ resp'.conn \in Conn
<1>3. ASSUME NEW c \in Conn, c \in open, UNCHANGED <<open, fault>>,
             active' = active \/ \E m \in Media : active' = [active EXCEPT ![c] = m],
             frame' = frame \/ \E f \in {None, "body"} : frame' = [frame EXCEPT ![c] = f],
             client' \in [Conn -> Client], resp' = resp \/ Answered(c)
      PROVE  ConnectionsTyped'
  BY <1>3 DEF ConnectionsTyped
<1>4. ASSUME NEW c \in Conn, NEW why, NEW media, Crash(why, c, media)
      PROVE  ConnectionsTyped'
  <2>1. fault'.conn \in Conn /\ UNCHANGED <<open, active, frame, client, resp>>
    BY <1>4, RecordsAre
  <2> QED
    BY <2>1 DEF ConnectionsTyped
<1>5. client \in [Conn -> Client]
  BY DEF ConnectionsTyped
<1>6. ASSUME NEW c \in Conn, Accept(c) PROVE ConnectionsTyped'
  BY <1>6 DEF Accept, ConnectionsTyped
<1>7. ASSUME NEW c \in Conn, Disconnect(c) PROVE ConnectionsTyped'
  <2>1. NewClient \in Client
    BY DEF NewClient, Client
  <2> QED
    BY <1>7, <2>1 DEF Disconnect, Refuse, ConnectionsTyped
<1>8. ASSUME NEW c \in Conn, OtherMethod(c) \/ FrameHead(c) \/ FrameBody(c)
      PROVE  ConnectionsTyped'
  <2>1. /\ c \in open /\ UNCHANGED <<open, fault, active, client>>
        /\ frame' = frame \/ \E f \in {None, "body"} : frame' = [frame EXCEPT ![c] = f]
        /\ resp' = resp \/ resp' = NoResponse
    BY <1>8 DEF OtherMethod, FrameHead, FrameBody, Ready, Refuse
  <2> QED
    BY <1>3, <1>5, <2>1
<1>9. ASSUME NEW c \in Conn, NEW m \in Media \union {Unknown}, Options(c, m)
      PROVE  ConnectionsTyped'
  <2>1. c \in open /\ UNCHANGED <<open, frame, fault>>
    BY <1>9 DEF Options, Ready
  <2>2. CASE m \in Media
    <3>1. /\ active' = [active EXCEPT ![c] = m]
          /\ Reply(c, m, m) /\ NameServed(c, m, m)
      BY <1>9, <2>2 DEF Options
    <3> QED
      BY <1>3, <2>1, <2>2, <3>1, LearnIs, RecordsAre
  <2>3. CASE m \notin Media
    <3>1. active' = active /\ Refuse /\ Name(c, m)
      BY <1>9, <2>3 DEF Options
    <3>2. client' \in [Conn -> Client]
      BY <3>1, LearnIs
    <3> QED
      BY <1>3, <2>1, <3>1, <3>2, RecordsAre
  <2> QED
    BY <2>2, <2>3
<1>10. ASSUME NEW c \in Conn, NEW m \in Media \union {Unknown}, NEW sdp \in BOOLEAN,
              Describe(c, m, sdp)
       PROVE  ConnectionsTyped'
  <2>1. /\ c \in open /\ UNCHANGED <<open, frame, fault>>
        /\ active' = [active EXCEPT ![c] = IF @ = None /\ m \in Media THEN m ELSE @]
        /\ \/ Refuse /\ Name(c, m)
           \/ Reply(c, m, active'[c]) /\ NameServed(c, m, active'[c])
    BY <1>10 DEF Describe, Ready
  <2>2. active \in [Conn -> Media \union {None}]
    BY DEF ConnectionsTyped
  <2>3. /\ active' = active \/ \E x \in Media : active' = [active EXCEPT ![c] = x]
        /\ active'[c] \in Media \union {None}
    BY <2>1, <2>2
  <2>4. client' \in [Conn -> Client]
    BY <2>1, <2>3, LearnIs
  <2>5. Answered(c)
    BY <2>1, RecordsAre
  <2> QED
    BY <1>3, <2>1, <2>3, <2>4, <2>5
<1>11. ASSUME NEW c \in Conn, NEW m \in Media, NEW t, NEW o,
              SetupNotFound(c, m, t) \/ SetupUnsupported(c, m, t, o)
       PROVE  ConnectionsTyped'
  <2>1. c \in open /\ UNCHANGED <<open, active, frame, fault, client>> /\ Refuse
    BY <1>11 DEF SetupNotFound, SetupUnsupported, Ready
  <2> QED
    BY <1>3, <1>5, <2>1, RecordsAre
<1>12. ASSUME NEW c \in Conn, NEW m \in Media, NEW t, NEW o, SetupStream(c, m, t, o)
       PROVE  ConnectionsTyped'
  <2>1. /\ c \in open /\ UNCHANGED <<open, active, frame, fault>>
        /\ Reply(c, m, SessionOf(c).media)
        /\ client' = [client EXCEPT ![c].session = IF @ = None THEN m ELSE @]
    BY <1>12 DEF SetupStream, Ready
  <2>2. client[c].session \in Media \union {None}
    BY <1>5 DEF Client
  <2>3. \E media \in Media \union {None} :
          client' = [client EXCEPT ![c].session = media]
    BY <2>1, <2>2
  <2>4. client' \in [Conn -> Client]
    BY <2>3, LearnIs
  <2> QED
    BY <1>3, <2>1, <2>4, RecordsAre
<1>13. ASSUME NEW c \in Conn, Play(c) PROVE ConnectionsTyped'
  <2>1. /\ c \in open /\ UNCHANGED <<open, active, frame, fault, client>>
        /\ Reply(c, None, session[c].media)
    BY <1>13 DEF Play, Ready
  <2> QED
    BY <1>3, <1>5, <2>1, RecordsAre
<1>14. ASSUME NEW c \in Conn, Teardown(c) PROVE ConnectionsTyped'
  <2>1. /\ c \in open /\ UNCHANGED <<open, active, frame, fault>>
        /\ Reply(c, None, session[c].media)
        /\ client' = [client EXCEPT ![c].session = None]
    BY <1>14 DEF Teardown, Ready
  <2>2. client' \in [Conn -> Client]
    BY <2>1, LearnIs
  <2> QED
    BY <1>3, <2>1, <2>2, RecordsAre
<1>15. ASSUME NEW c \in Conn, NEW m, NEW t, NEW o,
              \/ SetupAsserts(c, m) \/ SetupForeign(c, m, t, o)
              \/ UseWithoutSession(c) \/ WalkLeavesBody(c)
       PROVE  ConnectionsTyped'
  <2>1. \E why, media : Crash(why, c, media)
    BY <1>15, Zenon DEF SetupAsserts, SetupForeign, UseWithoutSession, WalkLeavesBody
  <2> QED
    BY <1>4, <2>1
<1> QED
  BY <1>2, <1>6, <1>7, <1>8, <1>9, <1>10, <1>11, <1>12, <1>13, <1>14, <1>15
     DEF Next, Request

(* A closed connection has nothing. *)
LEMMA TypedInit == Init => SessionsTyped /\ ConnectionsTyped
<1> SUFFICES ASSUME Init PROVE SessionsTyped /\ ConnectionsTyped
  OBVIOUS
<1>1. SessionTyped(NoSession)
  BY NoSessionIs DEF SessionTyped, NoSession
<1> QED
  BY <1>1 DEF Init, SessionsTyped, ConnectionsTyped, Client, NewClient
-----------------------------------------------------------------------------
(* Streams that play *)

(* The loop changes streams that exist and play, and not whether they play. *)
LEMMA LoopIs ==
    ASSUME S!IInv, LoopFunctor \/ LoopTimer
    PROVE  /\ UNCHANGED <<open, session, live>>
           /\ \A a \in Addr :
                /\ stream'[a].playing = stream[a].playing
                /\ stream'[a] # stream[a] => a \in live /\ stream[a].playing
<1>1. Streams!TypeOK /\ Streams!FreeIsReset
  BY SameInvariant DEF Streams!IInv
<1>2. Streams!RunFunctor \/ Streams!FireTimer
  BY SameLoop DEF LoopFunctor, LoopTimer
<1>3. \A a \in Addr :
        /\ stream'[a].playing = stream[a].playing
        /\ stream'[a] # stream[a] => a \in live /\ stream[a].playing
  BY <1>1, <1>2, StreamAssumption, Streams!LoopEffect DEF S!Nalu, Streams!Nalu
<1>4. UNCHANGED <<open, session, live>>
  BY DEF LoopFunctor, LoopTimer, connVars, S!RunFunctor, S!FireTimer
<1> QED
  BY <1>3, <1>4

(* A stream that plays stays in states_ of its session, until both go. *)
LEMMA ReachableNext ==
    S!IInv /\ Owned /\ PlayingIsReachable /\ [Next]_vars => PlayingIsReachable'
<1> SUFFICES ASSUME S!IInv, Owned, PlayingIsReachable, [Next]_vars,
                    NEW a \in Addr, stream'[a].playing
             PROVE  \E c \in open' : a \in Range(session'[c].states)
  BY DEF PlayingIsReachable, Range
<1>1. S!TypeOK /\ stream \in [Addr -> S!Stream]
  BY DEF S!IInv, S!TypeOK
<1>2. stream[a].playing => \E c \in open : a \in Range(session[c].states)
  BY DEF PlayingIsReachable
<1>3. CASE /\ stream'[a].playing = stream[a].playing
           /\ session' = session /\ open \subseteq open'
  BY <1>2, <1>3
<1>4. CASE UNCHANGED vars
  BY <1>3, <1>4 DEF vars
<1>5. CASE LoopFunctor \/ LoopTimer
  BY <1>1, <1>3, <1>5, LoopIs
<1>6. ASSUME NEW c \in Conn, Request(c)
      PROVE  \E d \in open' : a \in Range(session'[d].states)
  <2>1. CASE Quiet
    BY <1>3, <2>1 DEF Quiet, streamVars
  <2>2. CASE Disconnect(c) \/ Teardown(c)
    <3>1. Gone(c)
      BY <2>2, GoneIs
    <3>2. stream[a].playing /\ a \notin Held(session[c])
      BY <1>1, <3>1 DEF Gone, S!Release, streamVars, S!Stream
    <3>3. PICK d \in open : a \in Range(session[d].states)
      BY <1>2, <3>2
    <3>4. d # c
      BY <3>2, <3>3 DEF Held
    <3>5. session'[d] = session[d] /\ d \in open'
      BY <3>1, <3>3, <3>4 DEF Gone, Owned, SessionsSound
    <3> QED
      BY <3>3, <3>5
  <2>3. CASE Play(c)
    <3>1. c \in open /\ UNCHANGED <<open, session>>
      BY <2>3 DEF Play, Ready
    <3>2. PICK q \in S!Sessions(live) :
            S!Play(q) /\ Range(q) \subseteq Range(session[c].states)
      BY <2>3, PlayIs
    <3>3. a \in Range(q) \/ stream'[a] = stream[a]
      BY <3>2 DEF S!Play, S!Range, Range
    <3> QED
      BY <1>2, <3>1, <3>2, <3>3
  <2>4. ASSUME NEW m \in Media, NEW t \in Track, NEW o \in Transport,
               SetupStream(c, m, t, o)
        PROVE  \E d \in open' : a \in Range(session'[d].states)
    <3>1. PICK b, n, s : Takes(c, o, b, n, s)
      BY <2>4, SetupIs
    <3>2. c \in open /\ UNCHANGED open
      BY <2>4 DEF SetupStream, Ready
    <3>3. stream[a].playing
      <4>1. CASE S!Construct(b)
        BY <1>1, <4>1 DEF S!Construct, S!NewStream
      <4>2. CASE UNCHANGED streamVars
        BY <4>2 DEF streamVars
      <4> QED
        BY <3>1, <4>1, <4>2 DEF Takes
    <3>4. PICK d \in open : a \in Range(session[d].states)
      BY <1>2, <3>3
    <3>5. Range(session[c].states) \subseteq Range(s.states)
      BY <3>1 DEF Takes
    <3>6. session'[d] = session[d] \/ (d = c /\ session'[d] = s)
      BY <3>1 DEF Takes, Owned, SessionsSound
    <3> QED
      BY <3>2, <3>4, <3>5, <3>6
  <2> QED
    BY <1>6, <2>1, <2>2, <2>3, <2>4, RequestIs
<1> QED
  BY <1>4, <1>5, <1>6 DEF Next

(* TEARDOWN reaches every stream that plays: it is in states_ of the       *)
(* session of an open connection, whatever requests came before            *)
(* (rtsp_session.cpp:103-118).                                             *)
THEOREM PlayingStreamsAreReachable == Spec => []PlayingIsReachable
<1>1. Init => PlayingIsReachable
  <2> SUFFICES ASSUME Init PROVE PlayingIsReachable
    OBVIOUS
  <2>1. stream = [a \in Addr |-> S!NoStream]
    BY DEF Init, S!Init
  <2> QED
    BY <2>1 DEF PlayingIsReachable, S!NoStream, S!NewStream
<1>2. Spec => [](S!IInv /\ Owned)
  BY StreamsKeepTheirPromises, OwnedInit, OwnedNext, PTL DEF Spec
<1> QED
  BY <1>1, <1>2, ReachableNext, PTL DEF Spec

(* Sessions refer to media sessions, tracks, low bytes and ports that the  *)
(* server has, whatever clients ask for, and a closed connection leaves    *)
(* nothing behind.                                                         *)
THEOREM TypeCorrect == Spec => []TypeOK
<1>1. Spec => [](S!IInv /\ Owned)
  BY StreamsKeepTheirPromises, OwnedInit, OwnedNext, PTL DEF Spec
<1>2. SessionsTyped /\ ConnectionsTyped /\ Owned /\ [Next]_vars
        => (SessionsTyped /\ ConnectionsTyped)'
  BY SessionsTypedNext, ConnectionsTypedNext
<1> QED
  BY <1>1, <1>2, TypedInit, TypeIs, PTL DEF Spec

(* A step that makes a stream send more is one of the loop, for a stream   *)
(* that plays.                                                             *)
LEMMA SendingIs ==
    ASSUME S!IInv, Owned, [Next]_vars, NEW a \in Addr,
           Len(stream'[a].sent) > Len(stream[a].sent)
    PROVE  stream[a].playing
<1>1. S!TypeOK /\ stream \in [Addr -> S!Stream]
  BY DEF S!IInv, S!TypeOK
<1>2. Len(stream[a].sent) \in Nat
  BY <1>1 DEF S!Stream
<1>3. CASE LoopFunctor \/ LoopTimer
  <2>1. stream'[a] # stream[a]
    BY <1>2
  <2> QED
    BY <1>1, <1>3, <2>1, LoopIs
<1>4. CASE stream'[a].sent = stream[a].sent
  BY <1>2, <1>4
<1>5. CASE S!Construct(a)
  <2>1. stream'[a].sent = <<>>
    BY <1>1, <1>5 DEF S!Construct, S!NewStream
  <2> QED
    BY <1>2, <2>1
<1>6. CASE UNCHANGED streamVars
  BY <1>4, <1>6 DEF streamVars
<1>7. ASSUME NEW c \in Conn, Request(c) PROVE stream[a].playing
  <2>1. CASE Quiet
    BY <1>6, <2>1 DEF Quiet, streamVars
  <2>2. CASE Disconnect(c) \/ Teardown(c)
    <3>1. Gone(c)
      BY <2>2, GoneIs
    <3>2. stream'[a].sent = stream[a].sent
      BY <1>1, <3>1 DEF Gone, S!Release, streamVars, S!Stream
    <3> QED
      BY <1>4, <3>2
  <2>3. CASE Play(c)
    <3>1. PICK q \in S!Sessions(live) : S!Play(q)
      BY <2>3, PlayIs
    <3> DEFINE s == stream[a]
    <3>3. stream'[a] = s \/ stream'[a] = [s EXCEPT !.playing = TRUE, !.plays = @ + 1]
      BY <3>1, Zenon DEF S!Play
    <3>4. s \in S!Stream
      BY <1>1
    <3> HIDE DEF s
    <3>5. stream'[a].sent = s.sent
      BY <3>3, <3>4 DEF S!Stream
    <3>2. stream'[a].sent = stream[a].sent
      BY <3>5 DEF s
    <3> QED
      BY <1>4, <3>2
  <2>4. ASSUME NEW m \in Media, NEW t \in Track, NEW o \in Transport,
               SetupStream(c, m, t, o)
        PROVE  stream[a].playing
    <3>1. PICK b, n, s : Takes(c, o, b, n, s)
      BY <2>4, SetupIs
    <3>2. S!Construct(b) \/ UNCHANGED streamVars
      BY <3>1 DEF Takes
    <3>3. S!Construct(b) /\ a # b => stream'[a] = stream[a]
      BY <1>1 DEF S!Construct
    <3> QED
      BY <1>4, <1>5, <1>6, <3>2, <3>3
  <2> QED
    BY <1>7, <2>1, <2>2, <2>3, <2>4, RequestIs
<1> QED
  BY <1>3, <1>6, <1>7 DEF Next, vars, streamVars

(* No media for a client that is gone: a NALU goes out only for a stream   *)
(* in states_ of the session of an open connection, after a PLAY on that   *)
(* session (rtsp_stream_state.cpp:143-147).                                *)
THEOREM MediaForSessionsOnly == Spec => MediaOnlyForSession
<1> DEFINE Sends == \A a \in Addr : Len(stream'[a].sent) > Len(stream[a].sent) =>
                      \E c \in open : a \in Range(session[c].states)
                                      /\ stream[a].plays > 0
<1>1. Spec => [](S!IInv /\ Owned /\ PlayingIsReachable)
  BY StreamsKeepTheirPromises, PlayingStreamsAreReachable, OwnedInit, OwnedNext, PTL
     DEF Spec
<1>2. S!IInv /\ Owned /\ PlayingIsReachable /\ [Next]_vars => [Sends]_vars
  <2> SUFFICES ASSUME S!IInv, Owned, PlayingIsReachable, [Next]_vars,
                      NEW a \in Addr, Len(stream'[a].sent) > Len(stream[a].sent)
               PROVE  \E c \in open : a \in Range(session[c].states)
                                      /\ stream[a].plays > 0
    OBVIOUS
  <2>1. stream[a].playing
    BY SendingIs
  <2>2. stream[a].plays > 0
    BY <2>1 DEF S!IInv, S!PlayingIsPlayed
  <2>3. \E c \in open : a \in Range(session[c].states)
    BY <2>1 DEF PlayingIsReachable
  <2> QED
    BY <2>2, <2>3
<1> QED
  BY <1>1, <1>2, PTL DEF Spec, MediaOnlyForSession
-----------------------------------------------------------------------------
(* What clients know *)

(* What ClientsInformed says of one connection. *)
Informed(c) ==
    /\ c \notin open => client[c] = NewClient
    /\ active[c] # None => active[c] \in client[c].named
    /\ client[c].served # None => active[c] = client[c].served
    /\ client[c].session = session[c].media
    /\ HasSession(c) => session[c].media \in client[c].named

(* What connections, clients and sessions are, in every step below. *)
Typed == Owned /\ SessionsTyped /\ ConnectionsTyped

(* A request leaves the client right about its connection, and an OK       *)
(* response is about a media session that it named.                        *)
Informs(c) == Informed(c)'
Answers == ServesNamed'

(* ClientsInformed says it of each.                                        *)
LEMMA InformedIs == ClientsInformed <=> \A c \in Conn : Informed(c)
  BY Zenon DEF ClientsInformed, Informed

(* The functions of the state, by connection. *)
LEMMA FunctionsAre ==
    ASSUME Typed
    PROVE  /\ active \in [Conn -> Media \union {None}]
           /\ client \in [Conn -> Client]
           /\ DOMAIN session = Conn
           /\ \A c \in Conn : DOMAIN client[c] = {"named", "served", "session"}
  BY DEF Typed, Owned, SessionsSound, ConnectionsTyped, Client

(* A request of one connection leaves the others as they were. *)
Others(c) ==
    \A d \in Conn \ {c} :
      /\ d \in open' <=> d \in open
      /\ active'[d] = active[d]
      /\ session'[d] = session[d]
      /\ client'[d] = client[d]

(* If the client of one connection is right, all are. *)
LEMMA OneInformed ==
    ASSUME ClientsInformed, NEW c \in Conn, Others(c), Informs(c)
    PROVE  ClientsInformed'
<1>1. ASSUME NEW d \in Conn PROVE Informed(d)'
  <2>1. CASE d = c
    BY <2>1 DEF Informs
  <2>2. CASE d # c
    <3>1. Informed(d)
      BY InformedIs
    <3>2. /\ d \in open' <=> d \in open
          /\ active'[d] = active[d] /\ session'[d] = session[d]
          /\ client'[d] = client[d]
      BY <2>2 DEF Others
    <3> QED
      BY <3>1, <3>2, Zenon DEF Informed, HasSession
  <2> QED
    BY <2>1, <2>2
<1> QED
  BY <1>1, Zenon DEF ClientsInformed, Informed

(* A handler that ends the process changes nothing else. *)
Stopped == UNCHANGED <<open, active, session, frame, client, resp, streamVars>>

(* Those are the handlers that may.                                        *)
LEMMA CrashIs ==
    ASSUME NEW c
    PROVE  /\ \A m : SetupAsserts(c, m) => Stopped
           /\ \A m, t, o : SetupForeign(c, m, t, o) => Stopped
           /\ UseWithoutSession(c) => Stopped
           /\ WalkLeavesBody(c) => Stopped
  BY Zenon DEF SetupAsserts, SetupForeign, UseWithoutSession, WalkLeavesBody, Crash,
     Stopped

(* A handler touches its own connection alone. *)
LEMMA OthersIs ==
    ASSUME Typed, NEW c \in Conn, Request(c)
    PROVE  Others(c)
<1>1. /\ active \in [Conn -> Media \union {None}]
      /\ client \in [Conn -> Client]
      /\ DOMAIN session = Conn
  BY FunctionsAre
<1>2. CASE \E m \in Media, t \in Track, o \in Transport : SetupStream(c, m, t, o)
  <2>1. PICK m \in Media, t \in Track, o \in Transport : SetupStream(c, m, t, o)
    BY <1>2
  <2>2. \E s : session' = [session EXCEPT ![c] = s]
    <3>1. PICK a, n, s : Takes(c, o, a, n, s)
      BY <2>1, SetupIs DEF Typed
    <3> QED
      BY <3>1 DEF Takes
  <2> QED
    BY <1>1, <2>1, <2>2 DEF SetupStream, Others
<1>3. CASE Accept(c) \/ Disconnect(c) \/ OtherMethod(c) \/ FrameHead(c) \/ FrameBody(c)
  BY <1>1, <1>3 DEF Accept, Disconnect, OtherMethod, FrameHead, FrameBody, Others
<1>4. CASE \E m \in Media \union {Unknown} :
             \/ Options(c, m)
             \/ \E sdp \in BOOLEAN : Describe(c, m, sdp)
  BY <1>1, <1>4 DEF Options, Describe, Name, NameServed, Others
<1>5. CASE Stopped
  BY <1>5 DEF Stopped, Others
<1>6. CASE \E m \in Media, t \in Track \union {Unknown} : SetupNotFound(c, m, t)
  BY <1>6 DEF SetupNotFound, Others
<1>7. CASE \E m \in Media, t \in Track, o \in Transport : SetupUnsupported(c, m, t, o)
  BY <1>7 DEF SetupUnsupported, Others
<1>8. CASE Play(c) \/ Teardown(c)
  BY <1>1, <1>8 DEF Play, Teardown, Others
<1> QED
  BY <1>2, <1>3, <1>4, <1>5, <1>6, <1>7, <1>8, CrashIs DEF Request

(* An OK response about a media session that is named from now on.         *)
LEMMA ReplyNames ==
    ASSUME NEW c, NEW url, NEW media, Reply(c, url, media),
           media \in client'[c].named
    PROVE  Answers
<1>1. resp'.conn = c /\ resp'.media = media
  BY DEF Reply
<1> QED
  BY <1>1 DEF Answers, ServesNamed

(* Any other outcome of a request, after which no less is named.           *)
LEMMA RefuseNames == Refuse => Answers
  BY Zenon DEF Refuse, Answers, ServesNamed

(* So it is when the last response stays the last.                         *)
LEMMA SameNames == ServesNamed /\ resp' = resp /\ client' = client => Answers
  BY Zenon DEF Answers, ServesNamed

(* What a client named and was answered OK for. *)
LEMMA NameIs ==
    ASSUME Typed, NEW c \in Conn, NEW m, NEW media
    PROVE  /\ Name(c, m) =>
                /\ client'[c].named = client[c].named \union ({m} \intersect Media)
                /\ client'[c].served = client[c].served
                /\ client'[c].session = client[c].session
           /\ NameServed(c, m, media) =>
                /\ client'[c].named = client[c].named \union ({m} \intersect Media)
                /\ client'[c].served = media
                /\ client'[c].session = client[c].session
<1>1. DOMAIN client = Conn /\ DOMAIN client[c] = {"named", "served", "session"}
  BY FunctionsAre
<1>2. CASE Name(c, m)
  BY <1>1, <1>2 DEF Name, NameServed
<1>3. CASE NameServed(c, m, media)
  BY <1>1, <1>3 DEF Name, NameServed
<1>4. CASE ~Name(c, m) /\ ~NameServed(c, m, media)
  BY <1>4
<1> QED
  BY <1>2, <1>3, <1>4

(* A media session that is active and named, whether it was so before or   *)
(* the URL named it.                                                       *)
LEMMA AskInforms ==
    ASSUME Typed, ClientsInformed, NEW c \in Conn, NEW m, NEW media,
           c \in open, open' = open, session' = session,
           media = None \/ media = active'[c],
           active'[c] = active[c] \/ (active'[c] = m /\ m \in Media),
           \/ Name(c, m) /\ (active'[c] = active[c] \/ active[c] = None)
           \/ NameServed(c, m, media)
    PROVE  Informs(c)
<1>1. Informed(c)
  BY InformedIs
<1>2. /\ client'[c].named = client[c].named \union ({m} \intersect Media)
      /\ client'[c].session = client[c].session
  BY NameIs
<1>3. client'[c].served # None => active'[c] = client'[c].served
  <2>1. CASE NameServed(c, m, media)
    BY <2>1, NameIs
  <2>2. CASE Name(c, m) /\ (active'[c] = active[c] \/ active[c] = None)
    <3>1. client'[c].served = client[c].served
      BY <2>2, NameIs
    <3> QED
      BY <1>1, <2>2, <3>1 DEF Informed
  <2> QED
    BY <2>1, <2>2
<1>4. active'[c] # None => active'[c] \in client'[c].named
  BY <1>1, <1>2 DEF Informed
<1>5. HasSession(c)' => session'[c].media \in client'[c].named
  BY <1>1, <1>2 DEF Informed, HasSession
<1>6. client'[c].session = session'[c].media
  BY <1>1, <1>2 DEF Informed
<1> QED
  BY <1>3, <1>4, <1>5, <1>6, Zenon DEF Informs, Informed

(* OPTIONS makes the media of its URL active, *)
LEMMA OptionsInforms ==
    ASSUME Typed, ClientsInformed, NEW c \in Conn,
           NEW m \in Media \union {Unknown}, Options(c, m)
    PROVE  Informs(c) /\ Answers
<1>1. c \in open /\ open' = open /\ session' = session
  BY DEF Options, Ready
<1>2. active \in [Conn -> Media \union {None}]
  BY FunctionsAre
<1>3. CASE m \in Media
  <2>1. /\ active' = [active EXCEPT ![c] = m]
        /\ Reply(c, m, m) /\ NameServed(c, m, m)
    BY <1>3 DEF Options
  <2>2. active'[c] = m
    BY <1>2, <2>1
  <2>3. m \in client'[c].named
    BY <1>3, <2>1, NameIs
  <2> QED
    BY <1>1, <1>3, <2>1, <2>2, <2>3, AskInforms, ReplyNames
<1>4. CASE m \notin Media
  <2>1. active' = active /\ Refuse /\ Name(c, m)
    BY <1>4 DEF Options
  <2> QED
    BY <1>1, <2>1, AskInforms, RefuseNames
<1> QED
  BY <1>3, <1>4

(* DESCRIBE does if none is, and is about the one that is active.          *)
LEMMA DescribeInforms ==
    ASSUME Typed, ClientsInformed, NEW c \in Conn,
           NEW m \in Media \union {Unknown}, NEW sdp \in BOOLEAN, Describe(c, m, sdp)
    PROVE  Informs(c) /\ Answers
<1>1. c \in open /\ open' = open /\ session' = session
  BY DEF Describe, Ready
<1>2. active \in [Conn -> Media \union {None}]
  BY FunctionsAre
<1>3. active' = [active EXCEPT ![c] = IF @ = None /\ m \in Media THEN m ELSE @]
  BY DEF Describe
<1>4. \/ active'[c] = active[c]
      \/ active'[c] = m /\ m \in Media /\ active[c] = None
  BY <1>2, <1>3
<1>5. CASE Refuse /\ Name(c, m)
  BY <1>1, <1>4, <1>5, AskInforms, RefuseNames
<1>6. CASE /\ active'[c] # None
           /\ Reply(c, m, active'[c]) /\ NameServed(c, m, active'[c])
  <2>1. Informs(c)
    BY <1>1, <1>4, <1>6, AskInforms
  <2>2. active'[c] \in client'[c].named
    BY <1>6, <2>1 DEF Informs, Informed
  <2> QED
    BY <1>6, <2>1, <2>2, ReplyNames
<1> QED
  BY <1>5, <1>6 DEF Describe

(* SETUP makes a session of the active media session, or uses the one that *)
(* there is.                                                               *)
LEMMA SetupInforms ==
    ASSUME Typed, ClientsInformed, NEW c \in Conn, NEW m \in Media,
           NEW t \in Track, NEW o \in Transport, SetupStream(c, m, t, o)
    PROVE  Informs(c) /\ Answers
<1>1. /\ c \in open /\ open' = open /\ active' = active /\ active[c] = m
      /\ Reply(c, m, SessionOf(c).media)
      /\ client' = [client EXCEPT ![c].session = IF @ = None THEN m ELSE @]
  BY DEF SetupStream, Ready
<1>2. Informed(c) /\ m # None
  BY InformedIs, MediaAssumption
<1>3. DOMAIN client = Conn /\ DOMAIN client[c] = {"named", "served", "session"}
  BY FunctionsAre
<1>4. /\ client'[c].named = client[c].named /\ client'[c].served = client[c].served
      /\ client'[c].session = IF client[c].session = None THEN m
                              ELSE client[c].session
  BY <1>1, <1>3
<1>5. SessionOf(c).media = IF HasSession(c) THEN session[c].media ELSE m
  BY <1>1, SessionOfIs DEF Typed
<1>6. session'[c].media = SessionOf(c).media
  <2>1. PICK a, n, s : Takes(c, o, a, n, s)
    BY SetupIs DEF Typed
  <2> QED
    BY <2>1 DEF Takes, Typed, Owned, SessionsSound
<1>7. client[c].session = session[c].media
  BY <1>2 DEF Informed
<1>8. client'[c].session = session'[c].media
  BY <1>4, <1>5, <1>6, <1>7 DEF HasSession
<1>9. SessionOf(c).media \in client'[c].named
  BY <1>1, <1>2, <1>4, <1>5 DEF Informed
<1>10. Informs(c)
  BY <1>1, <1>2, <1>4, <1>6, <1>8, <1>9, Zenon DEF Informs, Informed
<1> QED
  BY <1>1, <1>9, <1>10, ReplyNames

(* What a session is used for leaves the client as it was, *)
LEMMA PlayInforms ==
    ASSUME Typed, ClientsInformed, NEW c \in Conn, Play(c)
    PROVE  Informs(c) /\ Answers
<1>1. /\ open' = open /\ active' = active /\ session' = session /\ client' = client
      /\ HasSession(c) /\ Reply(c, None, session[c].media)
  BY DEF Play
<1>2. Informed(c)
  BY InformedIs
<1>3. session[c].media \in client'[c].named
  BY <1>1, <1>2 DEF Informed
<1>4. Informs(c)
  BY <1>1, <1>2, Zenon DEF Informs, Informed, HasSession
<1> QED
  BY <1>1, <1>3, <1>4, ReplyNames

(* and TEARDOWN takes the session from both.                               *)
LEMMA TeardownInforms ==
    ASSUME Typed, ClientsInformed, NEW c \in Conn, Teardown(c)
    PROVE  Informs(c) /\ Answers
<1>1. /\ open' = open /\ active' = active /\ c \in open /\ HasSession(c)
      /\ session' = [session EXCEPT ![c] = NoSession]
      /\ Reply(c, None, session[c].media)
      /\ client' = [client EXCEPT ![c].session = None]
  BY DEF Teardown, Ready
<1>2. Informed(c)
  BY InformedIs
<1>3. /\ DOMAIN client = Conn /\ DOMAIN client[c] = {"named", "served", "session"}
      /\ DOMAIN session = Conn
  BY FunctionsAre
<1>4. /\ client'[c].named = client[c].named /\ client'[c].served = client[c].served
      /\ client'[c].session = None
  BY <1>1, <1>3
<1>5. session'[c].media = None
  BY <1>1, <1>3, NoSessionIs
<1>6. session[c].media \in client'[c].named
  BY <1>1, <1>2, <1>4 DEF Informed
<1>7. ~HasSession(c)'
  BY <1>5 DEF HasSession
<1>8. Informs(c)
  BY <1>1, <1>2, <1>4, <1>5, <1>7, Zenon DEF Informs, Informed
<1> QED
  BY <1>1, <1>6, <1>8, ReplyNames

(* Requests that only answer, or do not even. *)
LEMMA AnswerInforms ==
    ASSUME ClientsInformed, ServesNamed, NEW c \in Conn, c \in open,
           open' = open, active' = active, session' = session, client' = client,
           resp' = resp \/ Refuse
    PROVE  Informs(c) /\ Answers
<1>1. Informed(c)
  BY InformedIs
<1>2. Informs(c)
  BY <1>1, Zenon DEF Informs, Informed, HasSession
<1> QED
  BY <1>2, RefuseNames, SameNames

(* A connection that opens or closes has nothing. *)
LEMMA NewInforms ==
    ASSUME Typed, ClientsInformed, ServesNamed, NEW c \in Conn,
           Accept(c) \/ Disconnect(c)
    PROVE  Informs(c) /\ Answers
<1>1. /\ active \in [Conn -> Media \union {None}]
      /\ client \in [Conn -> Client] /\ DOMAIN session = Conn
  BY FunctionsAre
<1>2. Informed(c)
  BY InformedIs
<1>3. CASE Accept(c)
  <2>1. c \notin open /\ UNCHANGED <<active, session, client, resp>>
    BY <1>3 DEF Accept
  <2>2. client[c] = NewClient
    BY <1>2, <2>1 DEF Informed
  <2>3. Informs(c)
    BY <1>2, <2>1, <2>2, Zenon DEF Informs, Informed, HasSession
  <2> QED
    BY <2>1, <2>3, SameNames
<1>4. CASE Disconnect(c)
  <2>1. /\ active'[c] = None /\ session'[c] = NoSession
        /\ client'[c] = NewClient /\ Refuse
    BY <1>1, <1>4 DEF Disconnect
  <2>2. session'[c].media = None /\ ~HasSession(c)'
    BY <2>1, NoSessionIs DEF HasSession
  <2>3. client'[c].served = None /\ client'[c].session = None
    BY <2>1 DEF NewClient
  <2>4. Informs(c)
    BY <2>1, <2>2, <2>3, Zenon DEF Informs, Informed
  <2> QED
    BY <2>1, <2>4, RefuseNames
<1> QED
  BY <1>3, <1>4

(* After a request all clients are right, and its response is about what   *)
(* was named.                                                              *)
LEMMA RequestInforms ==
    ASSUME Typed, ClientsInformed, ServesNamed, NEW c \in Conn, Request(c)
    PROVE  ClientsInformed' /\ ServesNamed'
<1>1. Others(c)
  BY OthersIs
<1>2. CASE Stopped
  <2>1. UNCHANGED <<open, active, session, client, resp>>
    BY <1>2 DEF Stopped
  <2> QED
    BY <2>1, Zenon DEF ClientsInformed, ServesNamed, HasSession
<1>3. CASE Informs(c) /\ Answers
  BY <1>1, <1>3, OneInformed DEF Answers
<1>4. CASE Accept(c) \/ Disconnect(c)
  BY <1>3, <1>4, NewInforms
<1>5. CASE \E m \in Media \union {Unknown} :
             Options(c, m) \/ \E sdp \in BOOLEAN : Describe(c, m, sdp)
  BY <1>3, <1>5, OptionsInforms, DescribeInforms
<1>6. CASE \/ \E m \in Media, t \in Track \union {Unknown} : SetupNotFound(c, m, t)
           \/ \E m \in Media, t \in Track, o \in Transport : SetupUnsupported(c, m, t, o)
           \/ OtherMethod(c) \/ FrameHead(c) \/ FrameBody(c)
  <2>1. /\ c \in open /\ open' = open /\ active' = active
        /\ session' = session /\ client' = client /\ (resp' = resp \/ Refuse)
    BY <1>6 DEF SetupNotFound, SetupUnsupported, OtherMethod, FrameHead, FrameBody, Ready
  <2> QED
    BY <1>3, <2>1, AnswerInforms
<1>7. CASE \E m \in Media, t \in Track, o \in Transport : SetupStream(c, m, t, o)
  BY <1>3, <1>7, SetupInforms
<1>8. CASE Play(c) \/ Teardown(c)
  BY <1>3, <1>8, PlayInforms, TeardownInforms
<1> QED
  BY <1>2, <1>4, <1>5, <1>6, <1>7, <1>8, CrashIs DEF Request

(* So it is after every step, *)
LEMMA InformedNext ==
    Typed /\ ClientsInformed /\ ServesNamed /\ [Next]_vars
      => ClientsInformed' /\ ServesNamed'
<1> SUFFICES ASSUME Typed, ClientsInformed, ServesNamed, [Next]_vars
             PROVE  ClientsInformed' /\ ServesNamed'
  OBVIOUS
<1>1. CASE UNCHANGED connVars
  <2>1. UNCHANGED <<open, active, session, client, resp>>
    BY <1>1 DEF connVars
  <2> QED
    BY <2>1, Zenon DEF ClientsInformed, ServesNamed, HasSession
<1>2. CASE UNCHANGED vars \/ LoopFunctor \/ LoopTimer
  BY <1>1, <1>2 DEF vars, connVars, LoopFunctor, LoopTimer
<1>3. ASSUME NEW c \in Conn, Request(c) PROVE ClientsInformed' /\ ServesNamed'
  BY <1>3, RequestInforms
<1> QED
  BY <1>2, <1>3 DEF Next

(* as it was before the first. *)
LEMMA InformedInit == Init => ClientsInformed /\ ServesNamed
<1> SUFFICES ASSUME Init PROVE ClientsInformed /\ ServesNamed
  OBVIOUS
<1>1. \A c \in Conn : active[c] = None /\ session[c] = NoSession /\ client[c] = NewClient
  BY DEF Init
<1>2. NewClient.served = None /\ NewClient.session = None
  BY DEF NewClient
<1>3. NoSession.media = None
  BY NoSessionIs
<1>4. ASSUME NEW c \in Conn PROVE Informed(c)
  <2>1. client[c] = NewClient /\ active[c] = None /\ session[c].media = None
    BY <1>1, <1>3
  <2>2. client[c].served = None /\ client[c].session = None /\ ~HasSession(c)
    BY <1>2, <2>1 DEF HasSession
  <2> QED
    BY <2>1, <2>2, Zenon DEF Informed
<1>5. ClientsInformed
  BY <1>4, InformedIs
<1>6. resp = NoResponse
  BY DEF Init
<1> QED
  BY <1>5, <1>6, Zenon DEF ServesNamed
-----------------------------------------------------------------------------
(* What ends the process *)

(* What FaultsAreProvoked says of a fault, before it is one. *)
Provoked(why, c, media) ==
    /\ why = "no active media" => client[c].served = None
    /\ why = "other media" => media \notin Media \intersect {client[c].served}
    /\ why = "no subsession" => client[c].session \notin {None, media}
    /\ why = "no session" => client[c].session = None

(* The handler that ends the process leaves the client as it was. *)
LEMMA CrashProvoked ==
    ASSUME NEW why, NEW c, NEW media, Crash(why, c, media), Provoked(why, c, media)
    PROVE  FaultsAreProvoked'
<1>1. client' = client
  BY DEF Crash
<1>2. fault'.why = why /\ fault'.conn = c /\ fault'.media = media
  BY DEF Crash
<1> QED
  BY <1>1, <1>2, Zenon DEF Provoked, FaultsAreProvoked

(* A client that was answered OK for the media session of its URL meets    *)
(* neither assertion of SETUP, *)
LEMMA SetupAssertsProvoked ==
    ASSUME Typed, ClientsInformed, NEW c \in Conn, NEW m, SetupAsserts(c, m)
    PROVE  FaultsAreProvoked'
<1>1. Informed(c) /\ client \in [Conn -> Client]
  BY InformedIs, FunctionsAre
<1>2. client[c].served # None => active[c] = client[c].served
  BY <1>1 DEF Informed
<1>3. CASE active[c] = None
  <2>1. Crash("no active media", c, None)
    BY <1>3, Zenon DEF SetupAsserts
  <2>2. client[c].served = None
    BY <1>2, <1>3
  <2>3. Provoked("no active media", c, None)
    BY <2>2, Zenon DEF Provoked
  <2> QED
    BY <2>1, <2>3, CrashProvoked, Zenon
<1>4. CASE active[c] # None
  <2>1. Crash("other media", c, m)
    BY <1>4, Zenon DEF SetupAsserts
  <2>2. active[c] # m
    BY <1>4, Zenon DEF SetupAsserts
  <2>3. m \notin Media \intersect {client[c].served}
    BY <1>2, <2>2, MediaAssumption
  <2>4. Provoked("other media", c, m)
    BY <2>3, Zenon DEF Provoked
  <2> QED
    BY <2>1, <2>4, CrashProvoked, Zenon
<1> QED
  BY <1>3, <1>4

(* RtspSession has the track unless its media session is another one, *)
LEMMA SetupForeignProvoked ==
    ASSUME Typed, ClientsInformed, NEW c \in Conn, NEW m \in Media, NEW t, NEW o,
           SetupForeign(c, m, t, o)
    PROVE  FaultsAreProvoked'
<1>1. /\ active[c] = m /\ t \in Tracks[m] /\ t \notin Tracks[SessionOf(c).media]
      /\ Crash("no subsession", c, m)
  BY Zenon DEF SetupForeign
<1>2. SessionOf(c).media = IF HasSession(c) THEN session[c].media ELSE m
  <2>1. active[c] = m
    BY <1>1, Zenon
  <2> HIDE <1>1
  <2> QED
    BY <2>1, SessionOfIs DEF Typed
<1>3. SessionOf(c).media # m
  BY <1>1, Zenon
<1>4. client[c].session = session[c].media
  BY InformedIs, Zenon DEF Informed
<1>5. client[c].session \notin {None, m}
  BY <1>2, <1>3, <1>4, Zenon DEF HasSession
<1>6. Provoked("no subsession", c, m)
  BY <1>5, Zenon DEF Provoked
<1> QED
  BY <1>1, <1>6, CrashProvoked, Zenon

(* and rtsp_session_ is there after its SETUP and before its TEARDOWN.     *)
LEMMA UseProvoked ==
    ASSUME ClientsInformed, NEW c \in Conn, UseWithoutSession(c)
    PROVE  FaultsAreProvoked'
<1>1. client[c].session = session[c].media
  BY InformedIs, Zenon DEF Informed
<1>2. Crash("no session", c, None) /\ session[c].media = None
  BY Zenon DEF UseWithoutSession, HasSession
<1>3. Provoked("no session", c, None)
  BY <1>1, <1>2, Zenon DEF Provoked
<1> QED
  BY <1>2, <1>3, CrashProvoked, Zenon

(* A walk that leaves its body says nothing of the client. *)
LEMMA WalkProvoked ==
    ASSUME NEW c, WalkLeavesBody(c)
    PROVE  FaultsAreProvoked'
<1>1. Crash("lengths", c, None)
  BY Zenon DEF WalkLeavesBody
<1>2. Provoked("lengths", c, None)
  BY Zenon DEF Provoked
<1> QED
  BY <1>1, <1>2, CrashProvoked, Zenon

(* No other handler ends the process, and none runs after one did. *)
LEMMA ProvokedNext ==
    Typed /\ ClientsInformed /\ FaultsAreProvoked /\ [Next]_vars => FaultsAreProvoked'
<1> SUFFICES ASSUME Typed, ClientsInformed, FaultsAreProvoked, [Next]_vars
             PROVE  FaultsAreProvoked'
  OBVIOUS
<1>1. CASE UNCHANGED vars
  <2>1. fault' = fault /\ client' = client
    BY <1>1 DEF vars
  <2> QED
    BY <2>1, Zenon DEF FaultsAreProvoked
<1>2. ASSUME fault = NoFault, fault' = fault PROVE FaultsAreProvoked'
  BY <1>2, Zenon DEF FaultsAreProvoked
<1>3. CASE LoopFunctor \/ LoopTimer
  <2>1. fault = NoFault /\ fault' = fault
    BY <1>3 DEF LoopFunctor, LoopTimer, Running, connVars
  <2> QED
    BY <1>2, <2>1
<1>4. ASSUME NEW c \in Conn, Request(c) PROVE FaultsAreProvoked'
  <2>1. CASE \E m \in Media \union {Unknown, None} : SetupAsserts(c, m)
    BY <2>1, SetupAssertsProvoked
  <2>2. CASE \E m \in Media, t \in Track, o \in Transport : SetupForeign(c, m, t, o)
    BY <2>2, SetupForeignProvoked
  <2>3. CASE UseWithoutSession(c) \/ WalkLeavesBody(c)
    BY <2>3, UseProvoked, WalkProvoked
  <2>4. CASE Accept(c) \/ Disconnect(c) \/ OtherMethod(c) \/ FrameHead(c) \/ FrameBody(c)
    <3>1. fault = NoFault /\ fault' = fault
      BY <2>4 DEF Accept, Disconnect, OtherMethod, FrameHead, FrameBody, Ready, Running
    <3> QED
      BY <1>2, <3>1
  <2>5. CASE \E m \in Media \union {Unknown} :
               Options(c, m) \/ \E sdp \in BOOLEAN : Describe(c, m, sdp)
    <3>1. fault = NoFault /\ fault' = fault
      BY <2>5 DEF Options, Describe, Ready, Running
    <3> QED
      BY <1>2, <3>1
  <2>6. CASE \/ \E m \in Media, t \in Track \union {Unknown} : SetupNotFound(c, m, t)
             \/ \E m \in Media, t \in Track, o \in Transport :
                  SetupUnsupported(c, m, t, o) \/ SetupStream(c, m, t, o)
    <3>1. fault = NoFault /\ fault' = fault
      BY <2>6 DEF SetupNotFound, SetupUnsupported, SetupStream, Ready, Running
    <3> QED
      BY <1>2, <3>1
  <2>7. CASE Play(c) \/ Teardown(c)
    <3>1. fault = NoFault /\ fault' = fault
      BY <2>7 DEF Play, Teardown, Ready, Running
    <3> QED
      BY <1>2, <3>1
  <2> QED
    BY <1>4, <2>1, <2>2, <2>3, <2>4, <2>5, <2>6, <2>7 DEF Request
<1> QED
  BY <1>1, <1>3, <1>4 DEF Next

(* All that holds of clients, with the types it needs. *)
LEMMA ClientsAre ==
    Spec => [](ClientsInformed /\ ServesNamed /\ FaultsAreProvoked)
<1>1. Typed /\ ClientsInformed /\ ServesNamed /\ FaultsAreProvoked /\ [Next]_vars
        => (Typed /\ ClientsInformed /\ ServesNamed /\ FaultsAreProvoked)'
  BY OwnedNext, SessionsTypedNext, ConnectionsTypedNext, InformedNext, ProvokedNext
     DEF Typed
<1>2. Init => Typed /\ ClientsInformed /\ ServesNamed /\ FaultsAreProvoked
  <2>1. Init => FaultsAreProvoked
    BY Zenon DEF Init, FaultsAreProvoked
  <2> QED
    BY <2>1, OwnedInit, TypedInit, InformedInit DEF Typed
<1> QED
  BY <1>1, <1>2, PTL DEF Spec

(* A request that ends the process at an assertion or a null pointer is    *)
(* one of a client that could have known: by what it named and was         *)
(* answered OK, it is not the next thing to ask for                        *)
(* (rtsp_connection.cpp:97, 340, 342, 511, 535; rtsp_session.cpp:84).      *)
THEOREM EveryFaultIsProvoked == Spec => []FaultsAreProvoked
  BY ClientsAre, PTL

(* No response is about a media session that no URL of its connection      *)
(* named, though DESCRIBE answers with the active one whatever its URL     *)
(* (rtsp_connection.cpp:267, 374).                                         *)
THEOREM ResponsesAreNamed == Spec => []ServesNamed
  BY ClientsAre, PTL

(* All that the runs check of the server at once, with the invariant that  *)
(* makes it inductive.                                                     *)
THEOREM Invariant == Spec => []IInv
<1>1. Spec => [](TypeOK /\ S!IInv /\ Owned /\ PlayingIsReachable)
  BY TypeCorrect, StreamsKeepTheirPromises, OwnedInit, OwnedNext,
     PlayingStreamsAreReachable, PTL DEF Spec
<1>2. TypeOK /\ S!IInv /\ Owned /\ PlayingIsReachable /\ ClientsInformed
        /\ ServesNamed /\ FaultsAreProvoked => IInv
  BY DEF IInv
<1> QED
  BY <1>1, <1>2, ClientsAre, PTL
=============================================================================
