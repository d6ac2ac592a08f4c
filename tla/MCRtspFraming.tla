--------------------------- MODULE MCRtspFraming ----------------------------
(* Instances of RtspFraming for TLC. *)
EXTENDS RtspFraming

MCRequests ==
    {[kind |-> "request", method |-> "SETUP", early |-> e] : e \in BOOLEAN}
      \union {[kind |-> "request", method |-> "DESCRIBE", early |-> FALSE]}

(* A frame with packets of so many words, of which the first one is the    *)
(* header: its length does not count itself.                               *)
Frame(channel, packets) ==
    LET packet(p) == <<[pt |-> p.pt, length |-> p.words - 1]>>
                     \o [i \in 1 .. p.words - 1 |-> [pt |-> "data", length |-> 0]]
        upTo[i \in 0 .. Len(packets)] ==
            IF i = 0 THEN <<>> ELSE upTo[i - 1] \o packet(packets[i])
    IN [kind |-> "frame", channel |-> channel, packets |-> packets,
        body |-> upTo[Len(packets)]]

(* A report without blocks is as short as a packet can be. *)
Report == [pt |-> "RR", words |-> 2]
MCFrames == {Frame(1, <<Report>>),
             Frame(3, <<Report, [pt |-> "SDES", words |-> 3]>>)}
=============================================================================
