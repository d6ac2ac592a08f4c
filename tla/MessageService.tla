--------------------------- MODULE MessageService ---------------------------
(***************************************************************************)
(* What a connection promises to do with the messages of its client        *)
(* (rtsp/rtsp_connection.cpp, OnMessage): each is served at most once, in  *)
(* the order sent.  What else it keeps depends on how messages arrive.     *)
(***************************************************************************)
EXTENDS Naturals, Sequences

CONSTANT Kinds    \* of messages; "frame" is that of interleaved frames

VARIABLES
    care,   \* what may be lost: "none", "frames" or "any"
    sent,   \* the kinds of the messages sent
    done    \* the numbers of the messages served

vars == <<care, sent, done>>

Care == {"none", "frames", "any"}

Init == care \in Care /\ sent = <<>> /\ done = <<>>

Send ==
    /\ \E k \in Kinds : sent' = Append(sent, k)
    /\ UNCHANGED <<care, done>>

Last == IF done = <<>> THEN 0 ELSE done[Len(done)]

MayLose(i) == care = "any" \/ (care = "frames" /\ sent[i] = "frame")

Serve ==
    /\ \E i \in Last + 1 .. Len(sent) :
         /\ \A j \in Last + 1 .. i - 1 : MayLose(j)
         /\ done' = Append(done, i)
    /\ UNCHANGED <<care, sent>>

Next == Send \/ Serve

Spec == Init /\ [][Next]_vars

(* Where nothing may be lost, nothing is left waiting either. *)
FairSpec == Spec /\ WF_vars(Serve /\ care = "none")
=============================================================================
