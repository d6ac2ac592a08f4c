----------------------------- MODULE NaluReader -----------------------------
(***************************************************************************)
(* How H264FileSource reads NALUs from a file in chunks                    *)
(* (media/h264_file_source.cpp, GetNextFrame and GetNextNALU, and          *)
(* H264Nalu::AppendData of media/av_packet.cpp).  One step per fread: a    *)
(* call opens with the first chunk, goes on to the next chunk as often as  *)
(* no start code is found, and returns.                                    *)
(*                                                                         *)
(* A start code is looked for at every byte read, so the comparison runs   *)
(* up to three bytes past the last one.  What it finds there is data of    *)
(* the previous chunk, or memory that was never written, which may hold    *)
(* any byte of `behind`.                                                   *)
(***************************************************************************)
EXTENDS Integers, Sequences

CONSTANTS
    Inputs,    \* the files that may be read, with the bytes of `behind`
    Chunk,     \* data_buf_len
    Prepend,   \* kBufPrependSize
    Room       \* buffersize, the first size of the buffer of a NALU

(* A first chunk without another start code must add to the NALU: an empty *)
(* NALU stands for "first chunk" in the code.  10000 bytes always do.      *)
ASSUME ChunkAssumption == Chunk \in Nat /\ Chunk > 7
ASSUME RoomAssumption == Prepend \in Nat /\ Room \in Nat /\ Prepend < Room

VARIABLES
    file,     \* the bytes of the file
    behind,   \* what memory may hold that was never written
    pos,      \* its position
    eof,      \* feof(file_)
    begin,    \* the position where the current or the next call begins
    reading,  \* a call has passed its first fread
    buf,      \* data_buf up to pdata_end and the three bytes behind
    cursor,   \* pdata - data_buf
    code,     \* statcode_length
    data,     \* the bytes of the NALU so far
    room,     \* max_size of the NALU
    taken,    \* the NALUs returned, with the bytes of the file they stand for
    refused,  \* some call returned false
    called    \* the result of the last call has PlayOnce call again

vars == <<file, behind, pos, eof, begin, reading, buf, cursor, code, data,
          room, taken, refused, called>>

(* The abstract reader: mid-call it is still where the call began.  It     *)
(* tears NALUs where a byte behind the buffer may be part of a start code. *)
Split == INSTANCE NaluSplit
           WITH tears <- behind # {2}, next <- begin,
                nalus <- [i \in DOMAIN taken |-> taken[i].data]

Byte == Split!Byte

(* No file ends in 0: a NALU ends in a stop bit.  Only then do bytes of an *)
(* earlier chunk behind the last one not matter.                           *)
ASSUME InputsAssumption ==
    \A in \in Inputs :
      /\ in.file \in Seq(Byte)
      /\ in.behind \subseteq Byte /\ in.behind # {}
      /\ in.file # <<>> => in.file[Len(in.file)] # 0

(* pdata_end - data_buf *)
end == Len(buf) - 3

Init ==
    /\ \E in \in Inputs : file = in.file /\ behind = in.behind
    /\ pos = 0 /\ eof = FALSE /\ begin = 0
    /\ reading = FALSE
    /\ buf = <<>> /\ cursor = 0 /\ code = 0 /\ data = <<>> /\ room = Room
    /\ taken = <<>> /\ refused = FALSE /\ called = FALSE

(* What an fread of a chunk at position p gets. *)
Read(p) == SubSeq(file, p + 1, IF p + Chunk <= Len(file) THEN p + Chunk
                                                          ELSE Len(file))
(* Deviation: feof is never true. *)
FreadNoEof(p, past) ==
    /\ buf' = Read(p) \o past
    /\ pos' = p + Len(Read(p))
    /\ eof' = FALSE

(* It goes to a buffer with `past` behind it.  A short count sets the      *)
(* end-of-file indicator.                                                  *)
Fread(p, past) ==
    /\ buf' = Read(p) \o past
    /\ pos' = p + Len(Read(p))
    /\ eof' = (Len(Read(p)) < Chunk)

Match3(b, p) == b[p+1] = 0 /\ b[p+2] = 0 /\ b[p+3] = 1
Match4(b, p) == b[p+1] = 0 /\ b[p+2] = 0 /\ b[p+3] = 0 /\ b[p+4] = 1

(* The checks on the first bytes read: l.51 to 74. *)
Opens(chunk) == \/ Len(chunk) >= 3 /\ Match3(chunk, 0)
                \/ Len(chunk) >= 4 /\ Match4(chunk, 0)

(* GetNextFrame is called: the first chunk begins with a start code. *)
Open ==
    /\ ~reading
    /\ Opens(Read(pos))
    /\ \E past \in [1 .. 3 -> behind] : Fread(pos, past)
    /\ code' = IF Match3(buf', 0) THEN 3 ELSE 4
    /\ cursor' = code'
    /\ data' = <<>>
    /\ room' = Room
    /\ reading' = TRUE
    /\ UNCHANGED <<file, behind, begin, taken, refused, called>>

(* GetNextFrame is called and returns false; what it read stays consumed.  *)
(* PlayOnce says BYE and schedules nothing.                                *)
Refuse ==
    /\ ~reading
    /\ ~Opens(Read(pos))
    /\ pos' = pos + Len(Read(pos))
    /\ eof' = (Len(Read(pos)) < Chunk)
    /\ begin' = pos'
    /\ refused' = TRUE /\ called' = FALSE
    /\ UNCHANGED <<file, behind, reading, buf, cursor, code, data, room, taken>>

(* Deviation: the bytes kept free are not counted. *)
AppendDataTight(bytes) ==
    /\ data' = data \o bytes
    /\ room' = IF room >= Len(data) + Len(bytes) THEN room ELSE 2 * room

(* AppendData: the buffer doubles until the bytes fit behind the prefix. *)
Doubled(size, need) ==
    LET Grown[r \in Nat] == IF r - Prepend >= need THEN r ELSE Grown[2 * r]
    IN Grown[size]

AppendData(bytes) ==
    /\ data' = data \o bytes
    /\ room' = Doubled(room, Len(data) + Len(bytes))

(* Deviation: the start code is left out of every chunk. *)
FreshAlwaysSkips(stop) == SubSeq(buf, code + 1, stop)

(* The bytes of the chunk before `stop`; those of the first chunk begin    *)
(* behind the start code.                                                  *)
Fresh(stop) == SubSeq(buf, (IF data = <<>> THEN code ELSE 0) + 1, stop)

(* Deviation: only the short start code is looked for. *)
FoundShort == {p \in cursor .. end - 1 : Match3(buf, p)}

Found == {p \in cursor .. end - 1 : Match4(buf, p) \/ Match3(buf, p)}

(* Deviation: the next chunk is read from behind the last three bytes. *)
RefillSkips ==
    /\ reading
    /\ Found = {} /\ ~eof
    /\ AppendData(Fresh(end - 3))
    /\ \E garbage \in [1 .. 3 -> behind] : Fread(pos, garbage)
    /\ cursor' = 0
    /\ UNCHANGED <<file, behind, begin, reading, code, taken, refused, called>>

(* No start code in the chunk and more of the file behind it: the last     *)
(* three bytes are read again with the next chunk.  The bytes behind that  *)
(* are those of this chunk while the buffer reaches.                       *)
Refill ==
    /\ reading
    /\ Found = {} /\ ~eof
    /\ AppendData(Fresh(end - 3))
    /\ \E garbage \in [1 .. 3 -> behind] :
         LET n == Len(Read(pos - 3))
         IN Fread(pos - 3, [i \in 1 .. 3 |-> IF n + i <= Chunk
                                              THEN buf[n + i] ELSE garbage[i]])
    /\ cursor' = 0
    /\ UNCHANGED <<file, behind, begin, reading, code, taken, refused, called>>

(* Deviation: the file is set back from the wrong place. *)
ReturnLong(stop) ==
    /\ AppendData(Fresh(stop))
    /\ pos' = pos + stop
    /\ eof' = FALSE
    /\ begin' = pos'
    /\ taken' = Append(taken, [from |-> begin, code |-> code, data |-> data',
                               to |-> pos'])
    /\ reading' = FALSE /\ called' = (data' # <<>>)
    /\ buf' = <<>> /\ cursor' = 0
    /\ UNCHANGED <<file, behind, code, refused>>

(* The NALU ends at `stop`, and the file is set back to there.  After any  *)
(* NALU that is not empty PlayOnce schedules the next call; after an empty *)
(* one it may not, by a type byte that was never written.                  *)
Return(stop) ==
    /\ AppendData(Fresh(stop))
    /\ pos' = pos + stop - end
    /\ eof' = FALSE
    /\ begin' = pos'
    /\ taken' = Append(taken, [from |-> begin, code |-> code, data |-> data',
                               to |-> pos'])
    /\ reading' = FALSE /\ called' = (data' # <<>>)
    /\ buf' = <<>> /\ cursor' = 0
    /\ UNCHANGED <<file, behind, code, refused>>

(* A start code was found, the first one in the chunk. *)
ReturnFound ==
    /\ reading
    /\ \E p \in Found : (\A q \in Found : p <= q) /\ Return(p)

(* The file ended. *)
ReturnLast ==
    /\ reading
    /\ Found = {} /\ eof
    /\ Return(end)

(* What a caller begins, and what a call goes on with by itself. *)
Call == Open \/ Refuse
Continue == Refill \/ ReturnFound \/ ReturnLast

GetNextFrame == Call \/ Continue

Next == GetNextFrame

Spec == Init /\ [][Next]_vars

(* A call runs to its end without waiting for anything, and another one    *)
(* follows where PlayOnce schedules it and its stream goes on playing.     *)
(* Nobody owes a call after one that returned false or an empty NALU, nor  *)
(* the first one.                                                          *)
FairSpec == Spec /\ WF_vars(Continue) /\ WF_vars(called /\ Call)
-----------------------------------------------------------------------------

(* Type correctness: among others, the file's position stays in the file,  *)
(* and the cursor in the buffer.                                           *)
BytesOK ==
    /\ file \in Seq(Byte) /\ behind \subseteq Byte
    /\ pos \in 0 .. Len(file) /\ begin \in 0 .. Len(file)
    /\ eof \in BOOLEAN /\ reading \in BOOLEAN
    /\ refused \in BOOLEAN /\ called \in BOOLEAN
    /\ buf \in Seq(Byte) /\ cursor \in Nat
    /\ code \in {0, 3, 4}
    /\ data \in Seq(Byte)
    /\ taken \in Seq([from : Nat, code : {3, 4}, data : Seq(Byte), to : Nat])

TypeOK == BytesOK /\ room \in Nat

(* Whatever lies behind the buffer, and wherever chunks end: what was      *)
(* returned covers the file from its start without a gap or an overlap,    *)
(* and a NALU is exactly the bytes between its start code and its end.     *)
(* Each chunk but the first rereads three bytes that were not yet added.   *)
TakenIsFile ==
    \A i \in DOMAIN taken :
      LET t == taken[i]
      IN /\ t.data = SubSeq(file, t.from + t.code + 1, t.to)
         /\ t.from + t.code <= t.to

TakenIsContiguous ==
    ~refused =>
      /\ \A i \in DOMAIN taken :
           taken[i].from = IF i = 1 THEN 0 ELSE taken[i-1].to
      /\ begin = IF taken = <<>> THEN 0 ELSE taken[Len(taken)].to

TakenTileFile == TakenIsFile /\ TakenIsContiguous

(* Where the first byte of the buffer is in the file. *)
Base == pos - end

(* Mid-call, what the NALU has and what the buffer holds meet in the file: *)
(* the bytes to come continue those appended.                              *)
BufferMeetsData ==
    reading =>
      /\ end \in 3 .. Chunk
      /\ begin <= Base
      /\ \A i \in 1 .. end : buf[i] = file[Base + i]
      /\ data = SubSeq(file, begin + code + 1, Base)
      /\ IF data = <<>> THEN Base = begin /\ cursor = code /\ code <= end
                       ELSE cursor = 0 /\ begin + code < Base

(* No start code was passed over: the bytes already left behind have none. *)
NothingMissed ==
    reading =>
      /\ Split!CodeAt(file, begin)
      /\ code = Split!CodeLength(file, begin)
      /\ \A p \in begin + code .. Base + cursor - 1 : ~Split!CodeAt(file, p)

(* feof says that the buffer ends with the file; if not, the buffer is     *)
(* full, and behind it is memory that was never written.                   *)
EofIsTrue ==
    reading =>
      IF eof THEN pos = Len(file)
             ELSE end = Chunk /\ \A i \in 1 .. 3 : buf[end + i] \in behind

(* The inductive invariant. *)
IInv ==
    /\ BytesOK
    /\ file # <<>> => file[Len(file)] # 0
    /\ ~reading => pos = begin
    /\ BufferMeetsData
    /\ NothingMissed
    /\ EofIsTrue
    /\ TakenTileFile

(* The bytes of a NALU fit its buffer behind the bytes kept free for the   *)
(* heads of RTP and of interleaved frames, through every doubling.         *)
DataFitsRoom == Prepend + Len(data) <= room

(* Every call returns: each chunk goes further into the file. *)
CallsReturn == reading ~> ~reading

(* The reader is the abstract one: the NALUs of the file, one per call,    *)
(* torn only in front of a 0 and only where memory behind the buffer may   *)
(* look like a part of a start code.  After each NALU but an empty one the *)
(* next follows, until the file is read (rtsp_stream_state.cpp:181-189).   *)
ReadsAsSplit == Split!FairSpec

(* l.125: "Here, we have found another start code".  So the file has one   *)
(* where a NALU was cut, or ends there.                                    *)
EndsAtStartCode ==
    \A i \in DOMAIN taken :
      taken[i].to = Len(file) \/ Split!CodeAt(file, taken[i].to)
=============================================================================
