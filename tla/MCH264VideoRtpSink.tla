------------------------- MODULE MCH264VideoRtpSink -------------------------
(* Instances of H264VideoRtpSink for TLC. *)
EXTENDS H264VideoRtpSink

(* With a payload of 5: an empty NALU, the largest that needs no fragments, *)
(* the smallest that does, one whose last piece is full, and two of three   *)
(* pieces, the last of which no longer fits the length of a frame.          *)
MCSize == {0, 5, 6, 7, 9, 10}
MCFewSizes == {5, 10}

(* The second packet of a stream has the highest number: it wraps. *)
MCInitSeq == {6}
=============================================================================
