------------------------- MODULE MCRtspStreamState -------------------------
(* Instances of RtspStreamState for TLC. *)
EXTENDS RtspStreamState

CONSTANTS a1, a2

MCAddr == {a1, a2}
MCOneAddr == {a1}

(* A parameter set, its slice, a second frame: the shape of an H.264 file. *)
MCFile == <<"param", "slice", "slice">>

(* The same with a read that fails further on, and with two start codes in *)
(* a row at the end.                                                       *)
MCFileWithGaps == <<"param", "slice", "slice", "bad", "empty">>

MCRandomTs == {1, 5}
MCOneRandomTs == {5}

=============================================================================
