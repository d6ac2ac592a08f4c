---------------------------- MODULE MCRtspServer ----------------------------
(* Instances of RtspServer for TLC. *)
EXTENDS RtspServer, TLC

CONSTANTS c1, c2, m1, m2, a1, a2

(* Nothing tells the addresses apart.  No run with this symmetry checks a  *)
(* liveness property.                                                      *)
MCSymmetry == Permutations({a1, a2})

MCOneConn == {c1}
MCTwoConns == {c1, c2}
MCTwoAddrs == {a1, a2}
MCOneMedia == {m1}
MCTwoMedia == {m1, m2}

(* One media session of one track, and two of which the second has a track *)
(* more than the first.                                                    *)
MCOneTrack == [m \in {m1} |-> {0}]
MCUnevenTracks == [m \in {m1, m2} |-> IF m = m1 THEN {0} ELSE {0, 1}]

(* A channel above 255, which collides with the low byte of a port; UDP; a *)
(* transport that is missing or malformed.                                 *)
MCTcp == {[proto |-> "tcp", rtp |-> 0, rtcp |-> 1]}
MCAllTransports ==
    {[proto |-> "tcp", rtp |-> 256, rtcp |-> 2],
     [proto |-> "udp", rtp |-> 0, rtcp |-> 0],
     [proto |-> "malformed", rtp |-> 0, rtcp |-> 0]}
(* Two ports of which the low bytes are equal. *)
MCUdpPort == {256, 512}

MCFile == <<"param", "slice">>
MCShortFile == <<"slice">>
MCRandomTs == {5}
=============================================================================
