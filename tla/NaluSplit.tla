----------------------------- MODULE NaluSplit ------------------------------
(***************************************************************************)
(* What a reader of H.264 files promises: the NALUs of a byte stream, one  *)
(* per call, each from behind its start code to the next start code or the *)
(* end of the file (media/h264_file_source.cpp, GetNextFrame).  A reader   *)
(* that tears NALUs may end one in front of any byte 0, also a 0 within a  *)
(* start code, but it still loses and repeats nothing.                     *)
(***************************************************************************)
EXTENDS Naturals, Sequences

VARIABLES
    file,   \* the bytes of the file
    tears,  \* NALUs may be torn
    next,   \* how many bytes were consumed
    nalus,  \* the NALUs delivered
    called  \* after the last result the reader is called again

vars == <<file, tears, next, nalus, called>>

(* 0 and 1 make up start codes; 2 stands for every other byte. *)
Byte == 0 .. 2

(* Bytes s[p+1], s[p+2], ... are a start code of three or of four bytes. *)
ThreeAt(s, p) == p + 3 <= Len(s) /\ s[p+1] = 0 /\ s[p+2] = 0 /\ s[p+3] = 1
FourAt(s, p) == p + 4 <= Len(s) /\ s[p+1] = 0 /\ ThreeAt(s, p + 1)
CodeAt(s, p) == ThreeAt(s, p) \/ FourAt(s, p)
CodeLength(s, p) == IF ThreeAt(s, p) THEN 3 ELSE 4

Init ==
    /\ file \in Seq(Byte)
    /\ tears \in BOOLEAN
    /\ next = 0
    /\ nalus = <<>>
    /\ called = FALSE

(* The NALU behind the start code at `next`. *)
Deliver ==
    /\ CodeAt(file, next)
    /\ LET first == next + CodeLength(file, next)
       IN \E cut \in first .. Len(file) :
            /\ \A p \in first .. cut - 1 :
                 CodeAt(file, p) => tears /\ \A i \in p + 1 .. cut + 1 : file[i] = 0
            /\ \/ cut = Len(file)
               \/ CodeAt(file, cut)
               \/ tears /\ file[cut + 1] = 0
            /\ nalus' = Append(nalus, SubSeq(file, first + 1, cut))
            /\ next' = cut
            /\ called' = (cut > first)
    /\ UNCHANGED <<file, tears>>

(* Nothing is promised where the file does not go on with a start code. *)
Abandon ==
    /\ ~CodeAt(file, next)
    /\ next' \in next .. Len(file)
    /\ called' = FALSE
    /\ UNCHANGED <<file, tears, nalus>>

Next == Deliver \/ Abandon

Spec == Init /\ [][Next]_vars

(* The next NALU comes as long as they are not empty. *)
FairSpec == Spec /\ WF_vars(called /\ Next)
=============================================================================
