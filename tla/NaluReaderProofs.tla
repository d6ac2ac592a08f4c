-------------------------- MODULE NaluReaderProofs --------------------------
(***************************************************************************)
(* For every file, every length of chunk above 7 and whatever lies behind  *)
(* the buffer: the reader loses and repeats no byte of the file, and its   *)
(* steps are those of NaluSplit.                                           *)
(***************************************************************************)
EXTENDS NaluReader, Induction, SequenceTheorems, TLAPS

(* The bytes of a chunk are those of the file. *)
LEMMA ReadIs ==
    ASSUME file \in Seq(Byte), NEW p \in 0 .. Len(file)
    PROVE  /\ Read(p) \in Seq(Byte)
           /\ Len(Read(p)) = IF p + Chunk <= Len(file) THEN Chunk
                                                       ELSE Len(file) - p
           /\ \A i \in 1 .. Len(Read(p)) : Read(p)[i] = file[p + i]
<1> DEFINE q == IF p + Chunk <= Len(file) THEN p + Chunk ELSE Len(file)
<1>1. /\ Len(file) \in Nat /\ Chunk \in Nat /\ Chunk > 7
      /\ q \in Int /\ q >= p /\ q <= Len(file)
      /\ p + 1 \in Int
  BY LenProperties, ChunkAssumption
<1>2. \A i \in p + 1 .. q : file[i] \in Byte
  BY <1>1, ElementOfSeq
<1>3. Read(p) = SubSeq(file, p + 1, q)
  BY DEF Read
<1> HIDE DEF q
<1>4. /\ SubSeq(file, p + 1, q) \in Seq(Byte)
      /\ Len(SubSeq(file, p + 1, q)) = IF p + 1 <= q THEN q - (p + 1) + 1 ELSE 0
      /\ \A i \in 1 .. q - (p + 1) + 1 :
           SubSeq(file, p + 1, q)[i] = file[p + 1 + i - 1]
  BY <1>1, <1>2, SubSeqProperties
<1>5. Len(Read(p)) = q - p
  BY <1>1, <1>3, <1>4
<1>6. ASSUME NEW i \in 1 .. Len(Read(p)) PROVE Read(p)[i] = file[p + i]
  <2>1. i \in 1 .. q - (p + 1) + 1 /\ p + 1 + i - 1 = p + i
    BY <1>1, <1>5, <1>6
  <2> QED
    BY <1>3, <1>4, <2>1
<1> QED
  BY <1>1, <1>3, <1>4, <1>5, <1>6 DEF q

(* The buffer after an fread: the chunk, and the three bytes behind it. *)
LEMMA FreadIs ==
    ASSUME file \in Seq(Byte), NEW p \in 0 .. Len(file),
           NEW past \in [1 .. 3 -> Byte], Fread(p, past)
    PROVE  /\ Len(Read(p)) \in 0 .. Chunk /\ Len(Read(p)) <= Len(file) - p
           /\ buf' \in Seq(Byte)
           /\ Len(buf') = Len(Read(p)) + 3
           /\ \A i \in 1 .. Len(Read(p)) : buf'[i] = file[p + i]
           /\ \A i \in 1 .. 3 : buf'[Len(Read(p)) + i] = past[i]
           /\ pos' = p + Len(Read(p))
           /\ eof' = (Len(Read(p)) < Chunk)
           /\ Len(Read(p)) < Chunk => p + Len(Read(p)) = Len(file)
<1> DEFINE n == Len(Read(p))
<1>1. /\ Read(p) \in Seq(Byte)
      /\ n = IF p + Chunk <= Len(file) THEN Chunk ELSE Len(file) - p
      /\ \A i \in 1 .. n : Read(p)[i] = file[p + i]
  BY ReadIs
<1>2. past \in Seq(Byte) /\ Len(past) = 3
  <2>1. 3 \in Nat /\ past \in [1 .. 3 -> Byte]
    OBVIOUS
  <2>2. \A i \in 1 .. 3 : past[i] \in Byte
    BY <2>1
  <2>3. past = [i \in 1 .. 3 |-> past[i]]
    BY <2>1
  <2> QED
    BY <2>1, <2>2, <2>3, IsASeq, LenProperties
<1>3. Len(file) \in Nat /\ Chunk \in Nat
  BY LenProperties, ChunkAssumption
<1> DEFINE b == Read(p) \o past
<1>4. buf' = b /\ pos' = p + n /\ eof' = (n < Chunk)
  BY DEF Fread
<1>5. /\ b \in Seq(Byte)
      /\ Len(b) = n + Len(past)
      /\ \A i \in 1 .. n + Len(past) :
           b[i] = IF i <= n THEN Read(p)[i] ELSE past[i - n]
  BY <1>1, <1>2, ConcatProperties
<1>6. n \in Nat /\ n <= Chunk /\ n <= Len(file) - p
      /\ (n < Chunk => p + n = Len(file))
  BY <1>1, <1>3
<1> HIDE DEF n, b
<1>7. ASSUME NEW i \in 1 .. n PROVE b[i] = file[p + i]
  <2>1. i \in 1 .. n + Len(past) /\ i <= n
    BY <1>2, <1>6
  <2> QED
    BY <1>1, <1>5, <2>1 DEF n
<1>8. ASSUME NEW i \in 1 .. 3 PROVE b[n + i] = past[i]
  <2> DEFINE j == n + i
  <2>1. j \in 1 .. n + Len(past) /\ ~(j <= n) /\ j - n = i
    BY <1>2, <1>6
  <2> HIDE DEF j
  <2>2. b[j] = past[j - n]
    BY <1>5, <2>1
  <2>3. b[j] = past[i]
    BY <2>1, <2>2, Zenon
  <2> QED
    BY <2>3 DEF j
<1>9. /\ n \in 0 .. Chunk /\ n <= Len(file) - p
      /\ buf' \in Seq(Byte) /\ Len(buf') = n + 3
      /\ pos' = p + n
      /\ eof' = (n < Chunk)
      /\ n < Chunk => p + n = Len(file)
  BY <1>2, <1>3, <1>4, <1>5, <1>6
<1>10. /\ \A i \in 1 .. n : buf'[i] = file[p + i]
       /\ \A i \in 1 .. 3 : buf'[n + i] = past[i]
  BY <1>4, <1>7, <1>8
<1> QED
  BY <1>9, <1>10 DEF n

(* Bytes of the buffer that were read, as bytes of the file. *)
LEMMA FreshIs ==
    ASSUME IInv, reading, NEW stop \in 0 .. end,
           (IF data = <<>> THEN code ELSE 0) <= stop
    PROVE  /\ Fresh(stop) \in Seq(Byte)
           /\ data \o Fresh(stop) \in Seq(Byte)
           /\ data \o Fresh(stop)
                = SubSeq(file, begin + code + 1, Base + stop)
           /\ begin + code <= Base + stop
           /\ Base + stop \in 0 .. Len(file)
           /\ (stop > (IF data = <<>> THEN code ELSE 0))
                 => data \o Fresh(stop) # <<>>
<1> DEFINE k == IF data = <<>> THEN code ELSE 0
<1>1. /\ file \in Seq(Byte) /\ buf \in Seq(Byte) /\ data \in Seq(Byte)
      /\ begin \in Nat /\ pos \in Nat /\ pos <= Len(file)
      /\ code \in Nat /\ Len(file) \in Nat /\ Len(buf) \in Nat
      /\ Len(data) \in Nat
  BY LenProperties DEF IInv, BytesOK
<1>2. /\ end \in Nat /\ end <= Chunk /\ Base \in Nat /\ pos = Base + end
      /\ end + 3 = Len(buf) /\ begin <= Base /\ end >= 3
      /\ \A i \in 1 .. end : buf[i] = file[Base + i]
      /\ data = SubSeq(file, begin + code + 1, Base)
      /\ IF data = <<>> THEN Base = begin ELSE begin + code < Base
  BY <1>1, ChunkAssumption, SMTT(40) DEF IInv, BufferMeetsData, Base, end
<1>3. /\ k \in Nat /\ k <= stop /\ stop \in Nat /\ stop <= end
  <2>1. stop \in Nat /\ stop <= end
    BY <1>2
  <2>2. k \in Nat
    BY <1>1
  <2> QED
    BY <2>1, <2>2
<1>4. /\ begin + code <= Base + k /\ begin + code \in Nat
      /\ data # <<>> => k = 0
      /\ data = <<>> => Base + k = begin + code
  <2>1. CASE data = <<>>
    <3>1. k = code /\ Base = begin
      BY <1>2, <2>1
    <3>2. begin \in Nat /\ code \in Nat /\ Base \in Nat
      BY <1>1, <1>2
    <3> HIDE DEF k
    <3> QED
      BY ONLY <2>1, <3>1, <3>2
  <2>2. CASE data # <<>>
    <3>1. k = 0 /\ begin + code < Base
      BY <1>2, <2>2
    <3>2. begin \in Nat /\ code \in Nat /\ Base \in Nat
      BY <1>1, <1>2
    <3> HIDE DEF k
    <3> QED
      BY ONLY <2>2, <3>1, <3>2
  <2> QED
    BY <2>1, <2>2
<1> HIDE DEF k
<1>5. /\ Fresh(stop) = SubSeq(buf, k + 1, stop)
  BY DEF Fresh, k
<1>6. /\ SubSeq(buf, k + 1, stop) \in Seq(Byte)
      /\ Len(SubSeq(buf, k + 1, stop)) = stop - k
      /\ \A i \in 1 .. stop - k : SubSeq(buf, k + 1, stop)[i] = buf[k + i]
  <2>1. ASSUME NEW i \in k + 1 .. stop PROVE buf[i] \in Byte
    <3>1. i \in 1 .. Len(buf)
      BY <1>1, <1>2, <1>3
    <3> QED
      BY <1>1, <3>1, ElementOfSeq
  <2>2. /\ SubSeq(buf, k + 1, stop) \in Seq(Byte)
        /\ Len(SubSeq(buf, k + 1, stop)) =
             IF k + 1 <= stop THEN stop - (k + 1) + 1 ELSE 0
        /\ \A i \in 1 .. stop - (k + 1) + 1 :
             SubSeq(buf, k + 1, stop)[i] = buf[k + 1 + i - 1]
    BY <1>3, <2>1, SubSeqProperties
  <2>3. ASSUME NEW i \in 1 .. stop - k
        PROVE  SubSeq(buf, k + 1, stop)[i] = buf[k + i]
    <3>1. i \in 1 .. stop - (k + 1) + 1 /\ k + 1 + i - 1 = k + i
      BY <1>3
    <3> QED
      BY <2>2, <3>1
  <2> QED
    BY <1>3, <2>2, <2>3
<1>7. SubSeq(file, Base + k + 1, Base + stop) = SubSeq(buf, k + 1, stop)
  <2> DEFINE f == SubSeq(file, Base + k + 1, Base + stop)
             b == SubSeq(buf, k + 1, stop)
  <2>1. \A i \in Base + k + 1 .. Base + stop : file[i] \in Byte
    BY <1>1, <1>2, <1>3, ElementOfSeq, SMTT(40)
  <2>2. /\ f \in Seq(Byte)
        /\ Len(f) = IF Base + k + 1 <= Base + stop
                    THEN Base + stop - (Base + k + 1) + 1 ELSE 0
        /\ \A i \in 1 .. Base + stop - (Base + k + 1) + 1 :
             f[i] = file[Base + k + 1 + i - 1]
    BY <1>2, <1>3, <2>1, SubSeqProperties
  <2>3. Len(f) = stop - k
    BY <1>2, <1>3, <2>2
  <2>4. ASSUME NEW i \in 1 .. stop - k PROVE f[i] = b[i]
    <3>1. /\ i \in 1 .. Base + stop - (Base + k + 1) + 1
          /\ Base + k + 1 + i - 1 = Base + (k + i)
          /\ k + i \in 1 .. end
      BY <1>2, <1>3
    <3>2. f[i] = file[Base + (k + i)]
      BY <2>2, <3>1
    <3>3. b[i] = buf[k + i]
      BY <1>6
    <3> QED
      BY <1>2, <3>1, <3>2, <3>3
  <2> HIDE DEF f, b
  <2>5. b \in Seq(Byte) /\ Len(b) = stop - k
    BY <1>6 DEF b
  <2>6. f = b
    BY <2>2, <2>3, <2>4, <2>5, SeqEqual
  <2> QED
    BY <2>6 DEF f, b
<1>8. data \o Fresh(stop) = SubSeq(file, begin + code + 1, Base + stop)
  <2>1. CASE data = <<>>
    <3>1. data \o Fresh(stop) = Fresh(stop)
      BY <1>5, <1>6, <2>1, ConcatEmptySeq
    <3> QED
      BY <1>4, <1>5, <1>7, <2>1, <3>1
  <2>2. CASE data # <<>>
    <3>1. /\ begin + code + 1 \in 1 .. Len(file) + 1
          /\ Base \in begin + code + 1 - 1 .. Len(file)
          /\ Base + stop \in Base .. Len(file)
          /\ k = 0
      BY <1>1, <1>2, <1>3, <1>4, <2>2
    <3>2. SubSeq(file, begin + code + 1, Base) \o SubSeq(file, Base + 1, Base + stop)
            = SubSeq(file, begin + code + 1, Base + stop)
      BY <1>1, <3>1, ConcatAdjacentSubSeq
    <3>3. Base + k + 1 = Base + 1
      BY <1>2, <3>1
    <3> QED
      BY <1>2, <1>5, <1>7, <3>2, <3>3
  <2> QED
    BY <2>1, <2>2
<1>9. data \o Fresh(stop) \in Seq(Byte)
  BY <1>1, <1>5, <1>6, ConcatProperties
<1>10. ASSUME stop > k PROVE data \o Fresh(stop) # <<>>
  <2>1. Len(data \o Fresh(stop)) = Len(data) + (stop - k)
    BY <1>1, <1>5, <1>6, ConcatProperties
  <2>2. Len(data \o Fresh(stop)) > 0
    BY <1>1, <1>3, <1>10, <2>1
  <2> QED
    BY <2>2, EmptySeq
<1>11. /\ Fresh(stop) \in Seq(Byte)
       /\ begin + code <= Base + stop
       /\ Base + stop \in 0 .. Len(file)
  <2>1. Fresh(stop) \in Seq(Byte)
    BY <1>5, <1>6
  <2>2. begin + code <= Base + stop
    BY <1>2, <1>3, <1>4
  <2>3. Base + stop \in 0 .. Len(file)
    BY <1>1, <1>2, <1>3
  <2> QED
    BY <2>1, <2>2, <2>3
<1> QED
  BY <1>8, <1>9, <1>10, <1>11 DEF k

(* Where numbers of a call in progress lie. *)
LEMMA MidCall ==
    ASSUME IInv, reading
    PROVE  /\ Len(file) \in Nat /\ Len(buf) \in Nat /\ Chunk \in Nat
           /\ pos \in Nat /\ pos <= Len(file) /\ begin \in Nat
           /\ end \in Nat /\ end >= 3 /\ end <= Chunk /\ end + 3 = Len(buf)
           /\ Base \in Nat /\ Base + end = pos /\ begin <= Base
           /\ code \in {3, 4} /\ cursor \in Nat
<1>1. /\ file \in Seq(Byte) /\ buf \in Seq(Byte)
      /\ begin \in Nat /\ pos \in Nat /\ pos <= Len(file)
      /\ Len(file) \in Nat /\ Len(buf) \in Nat /\ cursor \in Nat
      /\ Chunk \in Nat
  BY LenProperties, ChunkAssumption DEF IInv, BytesOK
<1>2. end \in 3 .. Chunk /\ begin <= Base
  BY DEF IInv, BufferMeetsData
<1>3. code \in {3, 4}
  BY DEF IInv, NothingMissed, Split!CodeLength
<1>4. end + 3 = Len(buf) /\ Base = pos - end
  BY <1>1 DEF end, Base
<1> QED
  BY <1>1, <1>2, <1>3, <1>4

(* A start code of the buffer that lies in what was read is one of the     *)
(* file, and the other way round.                                          *)
LEMMA CodeInBuffer ==
    ASSUME IInv, reading, NEW q \in 0 .. end
    PROVE  /\ q + 3 <= end => (Match3(buf, q) <=> Split!ThreeAt(file, Base + q))
           /\ q + 4 <= end => (Match4(buf, q) <=> Split!FourAt(file, Base + q))
<1>1. /\ Len(file) \in Nat /\ end \in Nat /\ Base \in Nat /\ q \in Nat
      /\ Base + end <= Len(file)
  BY MidCall
<1>2. \A i \in 1 .. end : buf[i] = file[Base + i]
  BY DEF IInv, BufferMeetsData
<1>3. ASSUME NEW d \in 1 .. 4, q + d <= end
      PROVE  buf[q + d] = file[Base + q + d]
  <2>1. q + d \in 1 .. end /\ Base + (q + d) = Base + q + d
    BY <1>1, <1>3
  <2> QED
    BY <1>2, <2>1
<1>4. ASSUME q + 3 <= end
      PROVE  Match3(buf, q) <=> Split!ThreeAt(file, Base + q)
  <2>1. /\ buf[q + 1] = file[Base + q + 1] /\ buf[q + 2] = file[Base + q + 2]
        /\ buf[q + 3] = file[Base + q + 3]
    BY <1>1, <1>3, <1>4
  <2>2. Base + q + 3 <= Len(file)
    BY <1>1, <1>4
  <2> QED
    BY <2>1, <2>2 DEF Match3, Split!ThreeAt
<1>5. ASSUME q + 4 <= end
      PROVE  Match4(buf, q) <=> Split!FourAt(file, Base + q)
  <2>1. /\ buf[q + 1] = file[Base + q + 1] /\ buf[q + 2] = file[Base + q + 2]
        /\ buf[q + 3] = file[Base + q + 3] /\ buf[q + 4] = file[Base + q + 4]
    BY <1>1, <1>3, <1>5
  <2>2. /\ Base + q + 4 <= Len(file) /\ Base + q + 1 + 3 <= Len(file)
        /\ Base + q + 1 + 1 = Base + q + 2 /\ Base + q + 1 + 2 = Base + q + 3
        /\ Base + q + 1 + 3 = Base + q + 4
    BY <1>1, <1>5
  <2> QED
    BY <2>1, <2>2 DEF Match4, Split!FourAt, Split!ThreeAt
<1> QED
  BY <1>4, <1>5

(* GetNextFrame begins: the start code it checks is one of the file. *)
LEMMA OpenStep ==
    ASSUME IInv, Open
    PROVE  IInv'
<1> DEFINE n == Len(Read(pos))
<1>1. /\ ~reading /\ reading' /\ Opens(Read(pos)) /\ pos = begin
      /\ file \in Seq(Byte) /\ pos \in 0 .. Len(file) /\ behind \subseteq Byte
      /\ code' = (IF Match3(buf', 0) THEN 3 ELSE 4) /\ cursor' = code'
      /\ data' = <<>>
      /\ UNCHANGED <<file, behind, begin, taken, refused, called>>
      /\ Len(file) \in Nat /\ Chunk \in Nat /\ Chunk > 7 /\ pos \in Nat
  BY LenProperties, ChunkAssumption DEF IInv, BytesOK, Open
<1>2. PICK past \in [1 .. 3 -> behind] : Fread(pos, past)
  BY DEF Open
<1>3. past \in [1 .. 3 -> Byte]
  BY <1>1
<1>4. /\ n \in 0 .. Chunk /\ n <= Len(file) - pos
      /\ buf' \in Seq(Byte)
      /\ Len(buf') = n + 3
      /\ \A i \in 1 .. n : buf'[i] = file[pos + i]
      /\ \A i \in 1 .. 3 : buf'[n + i] = past[i]
      /\ pos' = pos + n
      /\ eof' = (n < Chunk)
      /\ n < Chunk => pos + n = Len(file)
  BY <1>1, <1>2, <1>3, FreadIs
<1>5. \A i \in 1 .. n : Read(pos)[i] = file[pos + i]
  BY <1>1, ReadIs
<1>6. \/ n >= 3 /\ Match3(Read(pos), 0)
      \/ n >= 4 /\ Match4(Read(pos), 0)
  BY <1>1 DEF Opens
<1> HIDE DEF n
<1>7. n \in Nat /\ n >= 3 /\ n <= Chunk /\ n <= Len(file) - pos
  BY <1>1, <1>4, <1>6
<1>8. /\ \A d \in 1 .. 3 : buf'[d] = file[pos + d] /\ Read(pos)[d] = file[pos + d]
      /\ n >= 4 => buf'[4] = file[pos + 4] /\ Read(pos)[4] = file[pos + 4]
  <2>1. /\ \A d \in 1 .. 3 : d \in 1 .. n
        /\ n >= 4 => 4 \in 1 .. n
    BY ONLY <1>7
  <2> QED
    BY <1>4, <1>5, <2>1
<1>9. Match3(buf', 0) <=> Split!ThreeAt(file, pos)
  BY <1>1, <1>7, <1>8 DEF Match3, Split!ThreeAt
<1>10. \/ Split!ThreeAt(file, pos)
       \/ n >= 4 /\ Split!FourAt(file, pos)
  <2>1. CASE Match3(Read(pos), 0)
    BY <1>1, <1>7, <1>8, <2>1 DEF Match3, Split!ThreeAt
  <2>2. CASE n >= 4 /\ Match4(Read(pos), 0)
    <3>1. /\ file[pos + 1] = 0 /\ file[pos + 2] = 0 /\ file[pos + 3] = 0
          /\ file[pos + 4] = 1
      BY <1>8, <2>2 DEF Match4
    <3>2. /\ pos + 4 <= Len(file) /\ pos + 1 + 1 = pos + 2
          /\ pos + 1 + 2 = pos + 3 /\ pos + 1 + 3 = pos + 4
      BY <1>1, <1>7, <2>2
    <3> QED
      BY <2>2, <3>1, <3>2 DEF Split!FourAt, Split!ThreeAt
  <2> QED
    BY <1>6, <2>1, <2>2
<1>11. code' \in {3, 4} /\ code' <= n /\ code' = Split!CodeLength(file, begin)
       /\ Split!CodeAt(file, begin)
  BY <1>1, <1>7, <1>9, <1>10 DEF Split!CodeLength, Split!CodeAt
<1>12. end' = n /\ Base' = begin /\ begin \in Nat
  <2>1. end' = n
    BY <1>4, <1>7 DEF end
  <2>2. Base' = pos' - end'
    BY DEF Base
  <2>3. pos' = pos + n /\ pos = begin /\ pos \in Nat /\ n \in Nat
    BY <1>1, <1>4, <1>7
  <2> QED
    BY ONLY <2>1, <2>2, <2>3
<1>13. BytesOK'
  <2>1. pos' \in 0 .. Len(file)
    <3>1. pos' = pos + n /\ pos \in Nat /\ Len(file) \in Nat
      BY <1>1, <1>4
    <3> QED
      BY ONLY <1>7, <3>1
  <2>2. reading' \in BOOLEAN /\ eof' \in BOOLEAN
    BY <1>4 DEF Open
  <2> QED
    BY <1>1, <1>4, <1>11, <2>1, <2>2 DEF IInv, BytesOK
<1>14. BufferMeetsData'
  <2>1. SubSeq(file', begin' + code' + 1, Base') = <<>>
    <3>1. begin + code' + 1 > begin
      BY <1>11, <1>12
    <3>2. SubSeq(file, begin + code' + 1, begin) = <<>>
      BY <1>11, <1>12, <3>1, SubSeqProperties
    <3> QED
      BY <1>1, <1>12, <3>2
  <2>2. /\ end' \in 3 .. Chunk /\ begin' <= Base' /\ Base' = begin'
        /\ code' <= end'
    BY <1>1, <1>7, <1>11, <1>12
  <2>3. \A i \in 1 .. end' : buf'[i] = file'[Base' + i]
    BY <1>1, <1>4, <1>12
  <2> QED
    BY <1>1, <2>1, <2>2, <2>3 DEF BufferMeetsData
<1>15. NothingMissed'
  <2>1. begin' + code' .. Base' + cursor' - 1 = {}
    BY <1>1, <1>11, <1>12
  <2> QED
    BY <1>1, <1>11, <2>1 DEF NothingMissed
<1>16. EofIsTrue'
  <2>1. CASE n < Chunk
    BY <1>1, <1>4, <2>1 DEF EofIsTrue
  <2>2. CASE ~(n < Chunk)
    <3>1. end' = Chunk
      BY <1>1, <1>7, <1>12, <2>2
    <3>2. \A i \in 1 .. 3 : buf'[end' + i] \in behind'
      BY <1>1, <1>2, <1>4, <1>12
    <3> QED
      BY <1>4, <2>2, <3>1, <3>2 DEF EofIsTrue
  <2> QED
    BY <2>1, <2>2
<1>17. TakenTileFile'
  BY <1>1 DEF IInv, TakenTileFile, TakenIsFile, TakenIsContiguous
<1> QED
  BY <1>1, <1>13, <1>14, <1>15, <1>16, <1>17 DEF IInv

(* GetNextFrame returns false. *)
LEMMA RefuseStep ==
    ASSUME IInv, Refuse
    PROVE  IInv'
<1>1. /\ ~reading /\ ~reading' /\ pos' = pos + Len(Read(pos)) /\ begin' = pos'
      /\ eof' = (Len(Read(pos)) < Chunk) /\ refused' /\ called' = FALSE
      /\ UNCHANGED <<file, behind, reading, buf, cursor, code, data, taken>>
      /\ file \in Seq(Byte) /\ pos \in 0 .. Len(file)
      /\ Len(file) \in Nat /\ Chunk \in Nat
  BY LenProperties, ChunkAssumption DEF IInv, BytesOK, Refuse
<1>2. pos' \in 0 .. Len(file)
  <2>1. Len(Read(pos)) = IF pos + Chunk <= Len(file) THEN Chunk
                                                     ELSE Len(file) - pos
    BY <1>1, ReadIs
  <2> QED
    BY <1>1, <2>1
<1>3. BytesOK'
  <2>1. eof' \in BOOLEAN /\ refused' \in BOOLEAN
    BY DEF Refuse
  <2>2. called' \in BOOLEAN
    BY <1>1
  <2> QED
    BY <1>1, <1>2, <2>1, <2>2 DEF IInv, BytesOK
<1>4. TakenTileFile'
  BY <1>1 DEF IInv, TakenTileFile, TakenIsFile, TakenIsContiguous
<1> QED
  BY <1>1, <1>3, <1>4 DEF IInv, BufferMeetsData, NothingMissed, EofIsTrue

(* No start code begins in the chunk before `stop` and lies in what was    *)
(* read, if none was found there.                                          *)
LEMMA NoneBefore ==
    ASSUME IInv, reading, NEW stop \in 0 .. end,
           \A q \in Found : stop <= q,
           NEW p \in begin + code .. Base + stop - 1, Split!CodeAt(file, p)
    PROVE  /\ p - Base \in cursor .. stop - 1
           /\ p - Base \notin Found
           /\ \/ Split!ThreeAt(file, p) /\ p - Base + 3 > end
              \/ Split!FourAt(file, p) /\ p - Base + 4 > end
<1> DEFINE q == p - Base
<1>1. /\ Base \in Nat /\ cursor \in Nat /\ end \in Nat /\ begin \in Nat
      /\ code \in Nat /\ stop \in Nat /\ stop <= end /\ p \in Int
      /\ begin + code <= p /\ p <= Base + stop - 1
  BY MidCall, SMTT(30)
<1>2. ~(p \in begin + code .. Base + cursor - 1)
  BY DEF IInv, NothingMissed
<1>3. /\ q \in cursor .. stop - 1 /\ q \in 0 .. end
      /\ q \in cursor .. end - 1 /\ Base + q = p
  BY <1>1, <1>2
<1>4. q \notin Found
  BY <1>1, <1>3
<1>5. ~Match3(buf, q) /\ ~Match4(buf, q)
  BY <1>3, <1>4 DEF Found
<1>6. /\ q + 3 <= end => (Match3(buf, q) <=> Split!ThreeAt(file, Base + q))
      /\ q + 4 <= end => (Match4(buf, q) <=> Split!FourAt(file, Base + q))
  BY <1>3, CodeInBuffer
<1> HIDE DEF q
<1>7. /\ Split!ThreeAt(file, p) => ~(q + 3 <= end)
      /\ Split!FourAt(file, p) => ~(q + 4 <= end)
  BY <1>3, <1>5, <1>6
<1>8. q + 3 \in Int /\ q + 4 \in Int /\ end \in Int
  BY <1>1, <1>3
<1>9. \/ Split!ThreeAt(file, p) /\ q + 3 > end
      \/ Split!FourAt(file, p) /\ q + 4 > end
  BY <1>7, <1>8 DEF Split!CodeAt
<1> QED
  BY <1>3, <1>4, <1>9 DEF q

(* The next chunk rereads the last three bytes of this one. *)
LEMMA RefillStep ==
    ASSUME IInv, Refill
    PROVE  IInv'
<1> DEFINE n == Len(Read(pos - 3))
           stop == end - 3
<1>1. /\ reading /\ reading' /\ Found = {} /\ ~eof /\ cursor' = 0
      /\ data' = data \o Fresh(stop)
      /\ UNCHANGED <<file, behind, begin, code, taken, refused, called>>
  BY Zenon DEF Refill, AppendData
<1>2. /\ Len(file) \in Nat /\ Len(buf) \in Nat /\ Chunk \in Nat
      /\ pos \in Nat /\ pos <= Len(file) /\ begin \in Nat
      /\ end \in Nat /\ end + 3 = Len(buf)
      /\ Base \in Nat /\ Base + end = pos /\ begin <= Base
      /\ code \in {3, 4} /\ cursor \in Nat /\ code \in Nat
  BY <1>1, MidCall, SMTT(30)
<1>3. end = Chunk /\ Chunk > 7
  BY <1>1, ChunkAssumption DEF IInv, EofIsTrue
<1>4. file \in Seq(Byte) /\ behind \subseteq Byte /\ buf \in Seq(Byte)
  BY DEF IInv, BytesOK
<1>5. /\ stop \in Nat /\ stop \in 0 .. end /\ stop > 4
      /\ pos - 3 \in 0 .. Len(file) /\ Base + stop = pos - 3
  BY ONLY <1>2, <1>3
<1> DEFINE k == IF data = <<>> THEN code ELSE 0
<1>6. k <= stop /\ stop > k
  BY ONLY <1>2, <1>5
<1>7. /\ data \o Fresh(stop) \in Seq(Byte)
      /\ data \o Fresh(stop) = SubSeq(file, begin + code + 1, Base + stop)
      /\ data \o Fresh(stop) # <<>>
  <2> HIDE DEF stop
  <2> QED
    BY <1>1, <1>5, <1>6, FreshIs
<1>8. PICK past \in [1 .. 3 -> Byte] :
        /\ Fread(pos - 3, past)
        /\ n = Chunk => \A i \in 1 .. 3 : past[i] \in behind
  <2>1. PICK garbage \in [1 .. 3 -> behind] :
          Fread(pos - 3, [i \in 1 .. 3 |-> IF n + i <= Chunk THEN buf[n + i]
                                                             ELSE garbage[i]])
    BY DEF Refill
  <2> DEFINE past == [i \in 1 .. 3 |-> IF n + i <= Chunk THEN buf[n + i]
                                                         ELSE garbage[i]]
  <2>2. n \in Nat
    <3>1. n = IF pos - 3 + Chunk <= Len(file) THEN Chunk
                                              ELSE Len(file) - (pos - 3)
      BY <1>4, <1>5, ReadIs
    <3> HIDE DEF n
    <3> QED
      BY <1>2, <1>5, <3>1
  <2> HIDE DEF n
  <2>3. ASSUME NEW i \in 1 .. 3, n + i <= Chunk PROVE buf[n + i] \in Byte
    <3>1. n + i \in 1 .. Len(buf)
      BY <1>2, <1>3, <2>2, <2>3
    <3> QED
      BY <1>4, <3>1, ElementOfSeq
  <2>4. past \in [1 .. 3 -> Byte]
    BY <1>4, <2>3
  <2>5. n = Chunk => \A i \in 1 .. 3 : past[i] \in behind
    <3>1. n = Chunk => \A i \in 1 .. 3 : ~(n + i <= Chunk)
      BY <1>2, <2>2
    <3> QED
      BY <3>1
  <2> HIDE DEF past
  <2>6. Fread(pos - 3, past)
    BY <2>1 DEF past
  <2> QED
    BY <2>4, <2>5, <2>6
<1>9. /\ n \in 0 .. Chunk /\ n <= Len(file) - (pos - 3)
      /\ buf' \in Seq(Byte)
      /\ Len(buf') = n + 3
      /\ \A i \in 1 .. n : buf'[i] = file[pos - 3 + i]
      /\ \A i \in 1 .. 3 : buf'[n + i] = past[i]
      /\ pos' = pos - 3 + n
      /\ eof' = (n < Chunk)
      /\ n < Chunk => pos - 3 + n = Len(file)
  BY <1>4, <1>5, <1>8, FreadIs
<1> HIDE DEF n
<1>10. n \in Nat /\ n <= Chunk /\ n >= 3
  <2>1. n \in 0 .. Chunk /\ (n < Chunk => pos - 3 + n = Len(file))
    BY <1>9
  <2> QED
    BY ONLY <1>2, <1>3, <2>1
<1>11. end' = n /\ Base' = Base + stop /\ pos' \in 0 .. Len(file)
  <2>1. end' = n
    BY <1>9, <1>10 DEF end
  <2>2. Base' = pos' - end'
    BY DEF Base
  <2>3. pos' = pos - 3 + n /\ n <= Len(file) - (pos - 3)
    BY <1>9
  <2> HIDE DEF stop
  <2> QED
    BY ONLY <1>2, <1>5, <1>10, <2>1, <2>2, <2>3
<1>12. BytesOK'
  <2>1. eof' \in BOOLEAN /\ cursor' \in Nat /\ reading' \in BOOLEAN
    BY <1>1, <1>9
  <2>2. data' \in Seq(Byte)
    BY <1>1, <1>7
  <2> QED
    BY <1>1, <1>9, <1>11, <2>1, <2>2 DEF IInv, BytesOK
<1>13. BufferMeetsData'
  <2> HIDE DEF stop
  <2>1. end' \in 3 .. Chunk
    BY <1>2, <1>10, <1>11
  <2>2. begin' <= Base'
    BY <1>1, <1>2, <1>5, <1>11
  <2>3. \A i \in 1 .. end' : buf'[i] = file'[Base' + i]
    BY <1>1, <1>5, <1>9, <1>11
  <2>4. data' = SubSeq(file', begin' + code' + 1, Base') /\ data' # <<>>
    BY <1>1, <1>7, <1>11
  <2>5. begin' + code' < Base'
    <3>1. data = <<>> => Base = begin
      BY <1>1 DEF IInv, BufferMeetsData
    <3>2. data # <<>> => begin + code < Base
      BY <1>1 DEF IInv, BufferMeetsData
    <3>3. begin + code < Base + stop
      BY <1>2, <1>5, <3>1, <3>2
    <3> QED
      BY <1>1, <1>11, <3>3
  <2> QED
    BY <1>1, <2>1, <2>2, <2>3, <2>4, <2>5 DEF BufferMeetsData
<1>14. NothingMissed'
  <2> HIDE DEF stop
  <2>1. ASSUME NEW p \in begin' + code' .. Base' + cursor' - 1,
               Split!CodeAt(file, p)
        PROVE  FALSE
    <3>1. p \in begin + code .. Base + stop - 1
      BY <1>1, <1>2, <1>5, <1>11
    <3>2. \A q \in Found : stop <= q
      BY <1>1
    <3>3. /\ p - Base \in cursor .. stop - 1
          /\ p - Base + 3 > end \/ p - Base + 4 > end
      BY <1>1, <1>5, <2>1, <3>1, <3>2, NoneBefore
    <3>4. p - Base <= end - 3 - 1
      BY <1>2, <1>5, <3>3 DEF stop
    <3>5. p - Base \in Int
      BY <1>2, <3>1
    <3> QED
      BY ONLY <1>2, <3>3, <3>4, <3>5
  <2> QED
    BY <1>1, <2>1 DEF IInv, NothingMissed
<1>15. EofIsTrue'
  <2>1. CASE n < Chunk
    BY <1>1, <1>9, <2>1 DEF EofIsTrue
  <2>2. CASE ~(n < Chunk)
    <3>1. end' = Chunk /\ n = Chunk
      BY <1>2, <1>10, <1>11, <2>2
    <3>2. \A i \in 1 .. 3 : buf'[end' + i] \in behind'
      BY <1>1, <1>8, <1>9, <1>11, <3>1
    <3> QED
      BY <1>9, <2>2, <3>1, <3>2 DEF EofIsTrue
  <2> QED
    BY <2>1, <2>2
<1>16. TakenTileFile'
  BY <1>1 DEF IInv, TakenTileFile, TakenIsFile, TakenIsContiguous
<1> QED
  BY <1>1, <1>12, <1>13, <1>14, <1>15, <1>16 DEF IInv

(* Where a call that returns ends its NALU. *)
LEMMA StopIs ==
    ASSUME IInv, ReturnFound \/ ReturnLast
    PROVE  \E stop \in 0 .. end :
             /\ reading /\ Return(stop)
             /\ (IF data = <<>> THEN code ELSE 0) <= stop
             /\ \A q \in Found : stop <= q
             /\ stop \in Found \/ (eof /\ stop = end)
<1>1. reading
  BY DEF ReturnFound, ReturnLast
<1>2. /\ end \in Nat /\ end >= 3 /\ cursor \in Nat
  BY <1>1, MidCall
<1>3. IF data = <<>> THEN cursor = code /\ code <= end ELSE cursor = 0
  BY <1>1 DEF IInv, BufferMeetsData
<1>4. CASE ReturnFound
  <2>1. PICK p \in Found : (\A q \in Found : p <= q) /\ Return(p)
    BY <1>4 DEF ReturnFound
  <2>2. p \in cursor .. end - 1
    BY DEF Found
  <2>3. p \in 0 .. end /\ cursor <= p
    BY <1>2, <2>2
  <2>4. (IF data = <<>> THEN code ELSE 0) <= p
    <3>1. CASE data = <<>>
      <4>1. code <= p
        BY <1>3, <2>3, <3>1
      <4> QED
        BY <3>1, <4>1, Zenon
    <3>2. CASE data # <<>>
      <4>1. 0 <= p
        BY <2>3
      <4> QED
        BY <3>2, <4>1, Zenon
    <3> QED
      BY <3>1, <3>2
  <2> QED
    BY <1>1, <2>1, <2>3, <2>4
<1>5. CASE ReturnLast
  <2>1. Found = {} /\ eof /\ Return(end)
    BY <1>5 DEF ReturnLast
  <2>2. end \in 0 .. end
    BY <1>2
  <2>3. (IF data = <<>> THEN code ELSE 0) <= end
    BY <1>2, <1>3
  <2> QED
    BY <1>1, <2>1, <2>2, <2>3
<1> QED
  BY <1>4, <1>5

(* A call returns a NALU, and the file goes on where the NALU ended. *)
LEMMA ReturnStep ==
    ASSUME IInv, ReturnFound \/ ReturnLast
    PROVE  IInv'
<1>1. PICK stop \in 0 .. end :
        /\ reading /\ Return(stop)
        /\ (IF data = <<>> THEN code ELSE 0) <= stop
  BY StopIs
<1> DEFINE t == [from |-> begin, code |-> code, data |-> data', to |-> pos']
<1>2. /\ data' = data \o Fresh(stop)
      /\ pos' = pos + stop - end /\ eof' = FALSE /\ begin' = pos'
      /\ taken' = Append(taken, t)
      /\ reading' = FALSE /\ buf' = <<>> /\ cursor' = 0
      /\ called' = (data' # <<>>)
      /\ UNCHANGED <<file, behind, code, refused>>
  BY <1>1, Zenon DEF Return, AppendData
<1>3. /\ Len(file) \in Nat /\ begin \in Nat /\ end \in Nat /\ pos \in Nat
      /\ Base \in Nat /\ Base + end = pos /\ code \in {3, 4}
  BY <1>1, MidCall, SMTT(30)
<1>4. /\ data \o Fresh(stop) \in Seq(Byte)
      /\ data \o Fresh(stop) = SubSeq(file, begin + code + 1, Base + stop)
      /\ begin + code <= Base + stop
      /\ Base + stop \in 0 .. Len(file)
  BY <1>1, FreshIs
<1>5. pos' = Base + stop
  <2>1. stop \in Nat
    BY <1>3
  <2> QED
    BY ONLY <1>2, <1>3, <2>1
<1>6. /\ t \in [from : Nat, code : {3, 4}, data : Seq(Byte), to : Nat]
      /\ t.data = SubSeq(file, t.from + t.code + 1, t.to)
      /\ t.from + t.code <= t.to /\ t.from = begin /\ t.to = pos'
  <2>1. data' \in Seq(Byte) /\ pos' \in Nat
    BY <1>2, <1>4, <1>5
  <2>2. data' = SubSeq(file, begin + code + 1, pos') /\ begin + code <= pos'
    BY <1>2, <1>4, <1>5
  <2> QED
    BY <1>3, <2>1, <2>2
<1> HIDE DEF t
<1>7. /\ taken \in Seq([from : Nat, code : {3, 4}, data : Seq(Byte), to : Nat])
      /\ Len(taken) \in Nat
  BY LenProperties DEF IInv, BytesOK
<1>8. /\ taken' \in Seq([from : Nat, code : {3, 4}, data : Seq(Byte), to : Nat])
      /\ Len(taken') = Len(taken) + 1
      /\ \A i \in 1 .. Len(taken) : taken'[i] = taken[i]
      /\ taken'[Len(taken) + 1] = t
  BY <1>2, <1>6, <1>7, AppendProperties
<1>9. /\ DOMAIN taken = 1 .. Len(taken) /\ DOMAIN taken' = 1 .. Len(taken')
  BY <1>7, <1>8, LenProperties
<1>10. BytesOK'
  <2>1. buf' \in Seq(Byte) /\ cursor' \in Nat /\ eof' \in BOOLEAN
        /\ reading' \in BOOLEAN /\ called' \in BOOLEAN
    BY <1>2, EmptySeq
  <2>2. pos' \in 0 .. Len(file') /\ begin' \in 0 .. Len(file')
    BY <1>2, <1>4, <1>5
  <2>3. data' \in Seq(Byte)
    BY <1>2, <1>4
  <2> QED
    BY <1>2, <1>8, <2>1, <2>2, <2>3 DEF IInv, BytesOK
<1>11. TakenIsFile'
  <2> SUFFICES ASSUME NEW i \in DOMAIN taken'
               PROVE  /\ taken'[i].data = SubSeq(file, taken'[i].from
                                                        + taken'[i].code + 1,
                                                       taken'[i].to)
                      /\ taken'[i].from + taken'[i].code <= taken'[i].to
    BY <1>2 DEF TakenIsFile
  <2>1. CASE i \in 1 .. Len(taken)
    <3>1. taken'[i] = taken[i] /\ i \in DOMAIN taken
      BY <1>8, <1>9, <2>1
    <3>2. /\ taken[i].data = SubSeq(file, taken[i].from + taken[i].code + 1,
                                    taken[i].to)
          /\ taken[i].from + taken[i].code <= taken[i].to
      BY <3>1 DEF IInv, TakenTileFile, TakenIsFile
    <3> QED
      BY <3>1, <3>2
  <2>2. CASE i = Len(taken) + 1
    BY <1>6, <1>8, <2>2
  <2>3. i \in 1 .. Len(taken) + 1
    BY <1>8, <1>9
  <2>4. i \in 1 .. Len(taken) \/ i = Len(taken) + 1
    BY ONLY <1>7, <2>3
  <2> QED
    BY <2>1, <2>2, <2>4
<1>12. TakenIsContiguous'
  <2> SUFFICES ASSUME ~refused
               PROVE  /\ \A i \in DOMAIN taken' :
                           taken'[i].from = IF i = 1 THEN 0 ELSE taken'[i-1].to
                      /\ begin' = IF taken' = <<>> THEN 0
                                                  ELSE taken'[Len(taken')].to
    BY <1>2 DEF TakenIsContiguous
  <2>1. /\ \A i \in DOMAIN taken :
             taken[i].from = IF i = 1 THEN 0 ELSE taken[i-1].to
        /\ begin = IF taken = <<>> THEN 0 ELSE taken[Len(taken)].to
    BY DEF IInv, TakenTileFile, TakenIsContiguous
  <2>2. ASSUME NEW i \in DOMAIN taken'
        PROVE  taken'[i].from = IF i = 1 THEN 0 ELSE taken'[i-1].to
    <3>1. CASE i \in 1 .. Len(taken)
      <4>1. taken'[i] = taken[i] /\ i \in DOMAIN taken
        BY <1>8, <1>9, <3>1
      <4>2. i # 1 => taken'[i-1] = taken[i-1]
        <5>1. i # 1 => i - 1 \in 1 .. Len(taken)
          BY <1>7, <3>1, SMTT(40)
        <5> QED
          BY <1>8, <5>1
      <4> QED
        BY <2>1, <4>1, <4>2
    <3>2. CASE i = Len(taken) + 1
      <4>1. taken'[i].from = begin
        BY <1>6, <1>8, <3>2
      <4>2. CASE taken = <<>>
        <5>1. i = 1
          BY <3>2, <4>2
        <5> QED
          BY <2>1, <4>1, <4>2, <5>1
      <4>3. CASE taken # <<>>
        <5>1. Len(taken) # 0
          BY <1>7, <4>3, EmptySeq
        <5>2. i # 1 /\ i - 1 = Len(taken) /\ Len(taken) \in 1 .. Len(taken)
          BY <1>7, <3>2, <5>1
        <5>3. taken'[i-1] = taken[Len(taken)]
          BY <1>8, <5>2
        <5> QED
          BY <2>1, <4>1, <4>3, <5>2, <5>3
      <4> QED
        BY <4>2, <4>3
    <3>3. i \in 1 .. Len(taken) + 1
      BY <1>8, <1>9
    <3>4. i \in 1 .. Len(taken) \/ i = Len(taken) + 1
      BY ONLY <1>7, <3>3
    <3> QED
      BY <3>1, <3>2, <3>4
  <2>3. taken' # <<>>
    <3>1. Len(taken') # 0
      BY <1>7, <1>8
    <3> QED
      BY <3>1, EmptySeq
  <2>4. taken'[Len(taken')].to = pos'
    BY <1>6, <1>8
  <2> QED
    BY <1>2, <2>2, <2>3, <2>4
<1> QED
  <2>1. file' # <<>> => file'[Len(file')] # 0
    BY <1>2 DEF IInv
  <2>2. ~reading' /\ pos' = begin'
    BY <1>2
  <2>3. BufferMeetsData' /\ NothingMissed' /\ EofIsTrue'
    BY <2>2 DEF BufferMeetsData, NothingMissed, EofIsTrue
  <2> QED
    BY <1>10, <1>11, <1>12, <2>1, <2>2, <2>3 DEF IInv, TakenTileFile

(* The invariant holds before the first call, *)
LEMMA Initially == Init => IInv
<1> SUFFICES ASSUME Init PROVE IInv
  OBVIOUS
<1>1. PICK in \in Inputs : file = in.file /\ behind = in.behind
  BY DEF Init
<1>2. /\ file \in Seq(Byte) /\ behind \subseteq Byte
      /\ file # <<>> => file[Len(file)] # 0
  BY <1>1, InputsAssumption
<1>3. Len(file) \in Nat
  BY <1>2, LenProperties
<1>4. BytesOK
  <2>1. /\ buf \in Seq(Byte) /\ data \in Seq(Byte)
        /\ taken \in Seq([from : Nat, code : {3, 4}, data : Seq(Byte), to : Nat])
    BY EmptySeq, Zenon DEF Init
  <2>2. /\ pos \in 0 .. Len(file) /\ begin \in 0 .. Len(file)
        /\ cursor \in Nat /\ code \in {0, 3, 4}
    <3>1. /\ pos = 0 /\ begin = 0 /\ cursor = 0 /\ code = 0
      BY DEF Init
    <3> QED
      BY ONLY <1>3, <3>1
  <2>3. /\ eof \in BOOLEAN /\ reading \in BOOLEAN
        /\ refused \in BOOLEAN /\ called \in BOOLEAN
    BY Zenon DEF Init
  <2> QED
    BY <1>2, <2>1, <2>2, <2>3, Zenon DEF BytesOK
<1>5. TakenTileFile
  <2>1. DOMAIN taken = {} /\ taken = <<>> /\ begin = 0
    BY DEF Init
  <2> QED
    BY <2>1 DEF TakenTileFile, TakenIsFile, TakenIsContiguous
<1>6. ~reading /\ pos = begin
  BY DEF Init
<1>7. BufferMeetsData /\ NothingMissed /\ EofIsTrue
  BY <1>6, Zenon DEF BufferMeetsData, NothingMissed, EofIsTrue
<1> QED
  BY <1>2, <1>4, <1>5, <1>6, <1>7, Zenon DEF IInv

(* and after each step. *)
LEMMA StepPreserves == IInv /\ [Next]_vars => IInv'
<1> SUFFICES ASSUME IInv, [Next]_vars PROVE IInv'
  OBVIOUS
<1>1. CASE Open
  BY <1>1, OpenStep
<1>2. CASE Refuse
  BY <1>2, RefuseStep
<1>3. CASE Refill
  BY <1>3, RefillStep
<1>4. CASE ReturnFound \/ ReturnLast
  BY <1>4, ReturnStep
<1>5. CASE UNCHANGED vars
  BY <1>5 DEF vars, IInv, BytesOK, BufferMeetsData, NothingMissed, EofIsTrue,
     TakenTileFile, TakenIsFile, TakenIsContiguous, end, Base
<1> QED
  BY <1>1, <1>2, <1>3, <1>4, <1>5 DEF Next, GetNextFrame, Call, Continue

(* The buffer always holds the bytes that continue those appended, and no  *)
(* start code was passed over (GetNextNALU of h264_file_source.cpp).       *)
THEOREM Invariant == Spec => []IInv
BY Initially, StepPreserves, PTL DEF Spec

(* The NALUs returned are the bytes of the file behind their start codes,  *)
(* without a gap or an overlap, wherever chunks end and whatever lies      *)
(* behind the buffer.                                                      *)
THEOREM NothingLostOrRepeated == Spec => []TakenTileFile
<1>1. IInv => TakenTileFile
  BY DEF IInv
<1> QED
  BY Invariant, <1>1, PTL

-----------------------------------------------------------------------------
(* The steps of the reader as steps of NaluSplit. *)

(* The bytes behind the buffer that are not those of any other byte. *)
LEMMA Torn ==
    ASSUME IInv, reading, ~eof, NEW i \in 1 .. 3, buf[end + i] # 2
    PROVE  behind # {2}
<1>1. buf[end + i] \in behind
  BY DEF IInv, EofIsTrue
<1> QED
  BY <1>1

(* The last byte read is none of a start code if the file ends there. *)
LEMMA LastByte ==
    ASSUME IInv, reading, eof
    PROVE  buf[end] # 0 /\ Base + end = Len(file)
<1>1. /\ end \in Nat /\ end >= 3 /\ Base + end = pos /\ Base \in Nat
      /\ pos = Len(file) /\ Len(file) \in Nat
  BY MidCall, SMTT(30) DEF IInv, EofIsTrue
<1>2. buf[end] = file[Base + end]
  <2>1. end \in 1 .. end
    BY <1>1
  <2> QED
    BY <2>1 DEF IInv, BufferMeetsData
<1>3. file # <<>>
  <2>1. Len(file) # 0
    BY <1>1
  <2> QED
    BY <2>1
<1>4. file[Len(file)] # 0
  BY <1>3 DEF IInv
<1> QED
  BY <1>1, <1>2, <1>4

(* A NALU ends with the file, at a start code of it, or torn. *)
LEMMA EndsWell ==
    ASSUME IInv, reading, NEW stop \in 0 .. end,
           stop \in Found \/ (eof /\ stop = end)
    PROVE  \/ Base + stop = Len(file)
           \/ Split!CodeAt(file, Base + stop)
           \/ behind # {2} /\ file[Base + stop + 1] = 0
<1>1. /\ end \in Nat /\ Base \in Nat /\ stop \in Nat /\ stop <= end
      /\ cursor \in Nat
  BY MidCall
<1>2. CASE eof /\ stop = end
  BY <1>2, LastByte
<1>3. CASE stop \in Found
  <2>1. stop \in cursor .. end - 1 /\ (Match3(buf, stop) \/ Match4(buf, stop))
    BY <1>3 DEF Found
  <2>2. stop + 1 \in 1 .. end /\ Base + (stop + 1) = Base + stop + 1
    BY <1>1, <2>1
  <2>3. buf[stop + 1] = 0
    BY <2>1 DEF Match3, Match4
  <2>4. file[Base + stop + 1] = 0
    BY <2>2, <2>3 DEF IInv, BufferMeetsData
  <2>5. CASE Match3(buf, stop) /\ stop + 3 <= end
    BY <2>5, CodeInBuffer DEF Split!CodeAt
  <2>6. CASE Match4(buf, stop) /\ stop + 4 <= end
    BY <2>6, CodeInBuffer DEF Split!CodeAt
  <2>7. CASE Match3(buf, stop) /\ stop + 3 > end
    <3>1. /\ buf[stop + 1] = 0 /\ buf[stop + 2] = 0 /\ buf[stop + 3] = 1
      BY <2>7 DEF Match3
    <3>2. end = stop + 1 \/ end = stop + 2
      BY <1>1, <2>1, <2>7
    <3>3. ~eof
      BY <3>1, <3>2, LastByte
    <3>4. \E i \in 1 .. 3 : end + i = stop + 3
      BY <1>1, <3>2
    <3>5. behind # {2}
      BY <3>1, <3>3, <3>4, Torn
    <3> QED
      BY <2>4, <3>5
  <2>8. CASE Match4(buf, stop) /\ stop + 4 > end
    <3>1. /\ buf[stop + 1] = 0 /\ buf[stop + 2] = 0 /\ buf[stop + 3] = 0
          /\ buf[stop + 4] = 1
      BY <2>8 DEF Match4
    <3>2. end = stop + 1 \/ end = stop + 2 \/ end = stop + 3
      BY <1>1, <2>1, <2>8
    <3>3. ~eof
      BY <3>1, <3>2, LastByte
    <3>4. \E i \in 1 .. 3 : end + i = stop + 4
      BY <1>1, <3>2
    <3>5. behind # {2}
      BY <3>1, <3>3, <3>4, Torn
    <3> QED
      BY <2>4, <3>5
  <2>9. stop + 3 \in Int /\ stop + 4 \in Int /\ end \in Int
    BY <1>1
  <2>10. /\ stop + 3 <= end \/ stop + 3 > end
         /\ stop + 4 <= end \/ stop + 4 > end
    BY ONLY <2>9
  <2> QED
    BY <2>1, <2>5, <2>6, <2>7, <2>8, <2>10
<1> QED
  BY <1>2, <1>3

(* A start code within a NALU is torn at its last zeros. *)
LEMMA OnlyTorn ==
    ASSUME IInv, reading, NEW stop \in 0 .. end,
           \A q \in Found : stop <= q,
           stop \in Found \/ (eof /\ stop = end),
           NEW p \in begin + code .. Base + stop - 1, Split!CodeAt(file, p)
    PROVE  /\ behind # {2}
           /\ \A i \in p + 1 .. Base + stop + 1 : file[i] = 0
<1> DEFINE q == p - Base
<1>1. /\ end \in Nat /\ Base \in Nat /\ stop \in Nat /\ stop <= end
      /\ cursor \in Nat
  BY MidCall
<1>2. /\ q \in cursor .. stop - 1
      /\ \/ Split!ThreeAt(file, p) /\ q + 3 > end
         \/ Split!FourAt(file, p) /\ q + 4 > end
  BY NoneBefore
<1>3. q \in Nat /\ q < stop /\ p = Base + q
  <2>1. p \in Int
    OBVIOUS
  <2> QED
    BY <1>1, <1>2, <2>1
<1> HIDE DEF q
<1>4. /\ Split!ThreeAt(file, p) => p + 3 <= Len(file)
      /\ Split!FourAt(file, p) => p + 4 <= Len(file)
  BY DEF Split!ThreeAt, Split!FourAt
<1>5. ~eof
  <2>1. SUFFICES ASSUME eof PROVE FALSE
    OBVIOUS
  <2>2. Base + end = Len(file)
    BY <2>1, LastByte
  <2>3. \/ q + 3 > end /\ Base + q + 3 <= Base + end
        \/ q + 4 > end /\ Base + q + 4 <= Base + end
    BY <1>2, <1>3, <1>4, <2>2
  <2> QED
    BY ONLY <1>1, <1>3, <2>3
<1>6. stop \in Found
  BY <1>5
<1>7. stop \in cursor .. end - 1 /\ (Match3(buf, stop) \/ Match4(buf, stop))
  BY <1>6 DEF Found
<1>8. stop + 1 <= end /\ q + 4 > end
  BY <1>1, <1>2, <1>3, <1>7
<1>9. behind # {2}
  <2>1. buf[stop + 3] # 2
    BY <1>7 DEF Match3, Match4
  <2>2. \E i \in 1 .. 3 : end + i = stop + 3
    <3>1. stop + 3 - end \in 1 .. 3 /\ end + (stop + 3 - end) = stop + 3
      BY <1>1, <1>3, <1>8
    <3> QED
      BY <3>1
  <2> QED
    BY <1>5, <2>1, <2>2, Torn
<1>10. ASSUME NEW i \in p + 1 .. Base + stop + 1 PROVE file[i] = 0
  <2>1. CASE Split!ThreeAt(file, p) /\ q + 3 > end
    <3>1. i = p + 1 \/ i = p + 2
      BY <1>1, <1>3, <1>8, <1>10, <2>1
    <3> QED
      BY <2>1, <3>1 DEF Split!ThreeAt
  <2>2. CASE Split!FourAt(file, p) /\ q + 4 > end
    <3>1. i = p + 1 \/ i = p + 2 \/ i = p + 3
      BY <1>1, <1>3, <1>8, <1>10, <2>2
    <3>2. p + 1 + 1 = p + 2 /\ p + 1 + 2 = p + 3
      BY <1>1, <1>3
    <3>3. file[p + 1] = 0 /\ file[p + 1 + 1] = 0 /\ file[p + 1 + 2] = 0
      BY <2>2 DEF Split!FourAt, Split!ThreeAt
    <3> QED
      BY <3>1, <3>2, <3>3
  <2> QED
    BY <1>2, <2>1, <2>2
<1> QED
  BY <1>9, <1>10

(* Nothing is split in the beginning. *)
LEMMA InitRefines == Init => Split!Init
<1> SUFFICES ASSUME Init PROVE Split!Init
  OBVIOUS
<1>1. PICK in \in Inputs : file = in.file /\ behind = in.behind
  BY DEF Init
<1>2. file \in Seq(Byte)
  BY <1>1, InputsAssumption
<1>3. taken = <<>> /\ begin = 0 /\ called = FALSE
  BY DEF Init
<1>4. [i \in DOMAIN taken |-> taken[i].data] = <<>>
  BY <1>3
<1> QED
  BY <1>2, <1>3, <1>4 DEF Split!Init, Byte

(* The abstract reader delivers the NALU that the call returns. *)
LEMMA ReturnRefines ==
    ASSUME IInv, ReturnFound \/ ReturnLast
    PROVE  Split!Deliver
<1>1. PICK stop \in 0 .. end :
        /\ reading /\ Return(stop)
        /\ (IF data = <<>> THEN code ELSE 0) <= stop
        /\ \A q \in Found : stop <= q
        /\ stop \in Found \/ (eof /\ stop = end)
  BY StopIs
<1> DEFINE t == [from |-> begin, code |-> code, data |-> data', to |-> pos']
           cut == Base + stop
           first == begin + Split!CodeLength(file, begin)
           nalus == [i \in DOMAIN taken |-> taken[i].data]
           nalusNext == [i \in DOMAIN taken' |-> taken'[i].data]
<1>2. /\ data' = data \o Fresh(stop)
      /\ pos' = pos + stop - end /\ begin' = pos'
      /\ taken' = Append(taken, t)
      /\ called' = (data' # <<>>)
      /\ UNCHANGED <<file, behind>>
  BY <1>1, Zenon DEF Return, AppendData
<1>3. /\ Len(file) \in Nat /\ begin \in Nat /\ end \in Nat /\ pos \in Nat
      /\ Base \in Nat /\ Base + end = pos /\ code \in {3, 4} /\ stop \in Nat
  BY <1>1, MidCall, SMTT(30)
<1>4. /\ data' = SubSeq(file, begin + code + 1, cut)
      /\ begin + code <= cut /\ cut \in 0 .. Len(file)
  BY <1>1, <1>2, FreshIs
<1>5. code = Split!CodeLength(file, begin) /\ Split!CodeAt(file, begin)
  BY <1>1 DEF IInv, NothingMissed
<1>6. cut \in first .. Len(file)
  BY <1>3, <1>4, <1>5
<1>7. ASSUME NEW p \in begin + code .. cut - 1, Split!CodeAt(file, p)
      PROVE  behind # {2} /\ \A i \in p + 1 .. cut + 1 : file[i] = 0
  <2>1. p \in begin + code .. Base + stop - 1
    <3>1. (Base + stop) - 1 = Base + stop - 1
      BY <1>3
    <3> QED
      BY <3>1
  <2>2. \A i \in p + 1 .. Base + stop + 1 : file[i] = 0
    BY <1>1, <1>7, <2>1, OnlyTorn
  <2>3. behind # {2}
    BY <1>1, <1>7, <2>1, OnlyTorn
  <2> QED
    BY <2>2, <2>3
<1>8. \/ cut = Len(file)
      \/ Split!CodeAt(file, cut)
      \/ behind # {2} /\ file[cut + 1] = 0
  BY <1>1, EndsWell
<1>9. begin' = cut
  BY ONLY <1>2, <1>3
<1>10. nalusNext = Append(nalus, data')
  <2>1. /\ taken \in Seq([from : Nat, code : {3, 4}, data : Seq(Byte), to : Nat])
        /\ Len(taken) \in Nat
    BY LenProperties DEF IInv, BytesOK
  <2>2. t \in [from : Nat, code : {3, 4}, data : Seq(Byte), to : Nat]
    <3>1. data' \in Seq(Byte) /\ pos' \in Nat
      <4>1. data \o Fresh(stop) \in Seq(Byte)
        BY <1>1, FreshIs
      <4> QED
        BY <1>2, <1>4, <1>9, <4>1
    <3> QED
      BY <1>3, <3>1
  <2>3. t.data = data'
    OBVIOUS
  <2> HIDE DEF t
  <2>4. /\ Len(taken') = Len(taken) + 1
        /\ \A i \in 1 .. Len(taken) : taken'[i] = taken[i]
        /\ taken'[Len(taken) + 1] = t
        /\ DOMAIN taken' = 1 .. Len(taken) + 1
    BY <1>2, <2>1, <2>2, AppendProperties, LenProperties
  <2>5. DOMAIN taken = 1 .. Len(taken)
    BY <2>1, LenProperties
  <2>6. ASSUME NEW i \in 1 .. Len(taken) PROVE taken[i].data \in Seq(Byte)
    <3>1. taken[i] \in [from : Nat, code : {3, 4}, data : Seq(Byte), to : Nat]
      BY <2>1, ElementOfSeq
    <3> QED
      BY <3>1
  <2>7. nalus \in Seq(Seq(Byte)) /\ Len(nalus) = Len(taken)
    <3>1. nalus = [i \in 1 .. Len(taken) |-> taken[i].data]
      BY <2>5
    <3> DEFINE m == [i \in 1 .. Len(taken) |-> taken[i].data]
    <3>2. m \in Seq(Seq(Byte)) /\ Len(m) = Len(taken)
      BY <2>1, <2>6, IsASeq, LenProperties
    <3> QED
      BY <3>1, <3>2, Zenon
  <2>8. data' \in Seq(Byte)
    BY <2>2, <2>3
  <2> DEFINE a == Append(nalus, data')
  <2>9. /\ Len(a) = Len(taken) + 1 /\ DOMAIN a = 1 .. Len(taken) + 1
        /\ \A i \in 1 .. Len(taken) : a[i] = nalus[i]
        /\ a[Len(taken) + 1] = data' /\ a \in Seq(Seq(Byte))
    <3> HIDE DEF nalus
    <3> QED
      BY <2>7, <2>8, AppendProperties, LenProperties
  <2>10. ASSUME NEW i \in 1 .. Len(taken) + 1 PROVE taken'[i].data = a[i]
    <3>1. CASE i \in 1 .. Len(taken)
      BY <2>4, <2>5, <2>9, <3>1
    <3>2. CASE i = Len(taken) + 1
      BY <2>3, <2>4, <2>9, <3>2
    <3> QED
      BY ONLY <2>1, <2>10, <3>1, <3>2
  <2>11. a = [i \in 1 .. Len(taken) + 1 |-> a[i]]
    <3> HIDE DEF a
    <3> QED
      BY <2>9, LenProperties
  <2> HIDE DEF a
  <2>12. nalusNext = a
    BY <2>4, <2>10, <2>11
  <2> QED
    BY <2>12 DEF a
<1>11. data' = SubSeq(file, first + 1, cut)
  BY <1>4, <1>5
<1>12. (behind # {2})' = (behind # {2}) /\ file' = file
  BY <1>2
<1>13. Split!CodeAt(file, begin) /\ first = begin + code
  BY <1>5
<1> HIDE DEF cut, nalus, nalusNext
<1>14. called' = (cut > first)
  <2>1. /\ file \in Seq(Byte) /\ first \in Nat /\ cut \in 0 .. Len(file)
        /\ Len(file) \in Nat /\ first <= cut
    BY <1>3, <1>4, <1>5, <1>6 DEF IInv, BytesOK
  <2> HIDE DEF first
  <2>2. CASE cut > first
    <3>1. first + 1 \in 1 .. Len(file) /\ first + 1 <= cut
      BY <2>1, <2>2
    <3>2. Len(SubSeq(file, first + 1, cut)) = cut - (first + 1) + 1
      BY <2>1, <3>1, SubSeqProperties
    <3>3. Len(data') # 0
      BY ONLY <1>11, <2>1, <2>2, <3>2
    <3>4. data' # <<>>
      BY <3>3, EmptySeq
    <3> QED
      BY <1>2, <2>2, <3>4
  <2>3. CASE cut = first
    <3>1. SubSeq(file, first + 1, cut) = <<>>
      BY <2>1, <2>3, SubSeqProperties
    <3>2. ~(cut > first)
      BY ONLY <2>1, <2>3
    <3> QED
      BY <1>2, <1>11, <3>1, <3>2
  <2> QED
    BY ONLY <2>1, <2>2, <2>3
<1> QED
  BY <1>6, <1>7, <1>8, <1>9, <1>10, <1>11, <1>12, <1>13, <1>14
  DEF Split!Deliver, nalus, nalusNext

(* A call returns false only where the file has no start code. *)
LEMMA RefuseRefines ==
    ASSUME IInv, Refuse
    PROVE  Split!Abandon
<1> DEFINE n == Len(Read(pos))
<1>1. /\ ~Opens(Read(pos)) /\ begin' = pos + n /\ pos = begin
      /\ UNCHANGED <<file, behind, taken>> /\ called' = FALSE
      /\ file \in Seq(Byte) /\ begin \in 0 .. Len(file)
      /\ Len(file) \in Nat /\ Chunk \in Nat /\ Chunk > 7
  BY LenProperties, ChunkAssumption DEF IInv, BytesOK, Refuse
<1>2. /\ n = IF begin + Chunk <= Len(file) THEN Chunk ELSE Len(file) - begin
      /\ \A i \in 1 .. n : Read(pos)[i] = file[begin + i]
  BY <1>1, ReadIs
<1> HIDE DEF n
<1>3. n \in Nat /\ n <= Len(file) - begin /\ begin \in Nat
  BY <1>1, <1>2
<1>4. ~Split!CodeAt(file, begin)
  <2>1. ASSUME Split!ThreeAt(file, begin) PROVE FALSE
    <3>1. n >= 3
      BY <1>1, <1>2, <1>3, <2>1 DEF Split!ThreeAt
    <3>2. \A d \in 1 .. 3 : Read(pos)[d] = file[begin + d]
      BY <1>2, <1>3, <3>1
    <3> QED
      BY <1>1, <2>1, <3>1, <3>2, SMTT(40) DEF Opens, Match3, Split!ThreeAt, n
  <2>2. ASSUME Split!FourAt(file, begin) PROVE FALSE
    <3>1. n >= 4
      BY <1>1, <1>2, <1>3, <2>2 DEF Split!FourAt
    <3>2. \A d \in 1 .. 4 : Read(pos)[d] = file[begin + d]
      BY <1>2, <1>3, <3>1
    <3>3. /\ begin + 1 + 1 = begin + 2 /\ begin + 1 + 2 = begin + 3
          /\ begin + 1 + 3 = begin + 4
      BY <1>3
    <3> QED
      BY <1>1, <2>2, <3>1, <3>2, <3>3, SMTT(40)
      DEF Opens, Match4, Split!FourAt, Split!ThreeAt, n
  <2> QED
    BY <2>1, <2>2 DEF Split!CodeAt
<1>5. begin' \in begin .. Len(file)
  BY <1>1, <1>3
<1> QED
  BY <1>1, <1>4, <1>5 DEF Split!Abandon

(* The reader is the abstract one that splits a file into its NALUs; it    *)
(* tears them only where a byte behind the buffer may look like a part of  *)
(* a start code, and never within bytes other than 0.                      *)
THEOREM Refinement == Spec => Split!Spec
<1>1. IInv /\ [Next]_vars => [Split!Next]_(Split!vars)
  <2> SUFFICES ASSUME IInv, [Next]_vars PROVE [Split!Next]_(Split!vars)
    OBVIOUS
  <2>1. CASE Open \/ Refill \/ UNCHANGED vars
    BY <2>1 DEF Open, Refill, vars, Split!vars
  <2>2. CASE Refuse
    BY <2>2, RefuseRefines DEF Split!Next
  <2>3. CASE ReturnFound \/ ReturnLast
    BY <2>3, ReturnRefines DEF Split!Next
  <2> QED
    BY <2>1, <2>2, <2>3 DEF Next, GetNextFrame, Call, Continue
<1> QED
  BY <1>1, InitRefines, Invariant, PTL DEF Spec, Split!Spec

-----------------------------------------------------------------------------
(* The buffer of a NALU is large enough. *)

(* The numbers that doubling r arrives at. *)
Doublings(r) ==
    {v \in Nat : \A S \in SUBSET Nat :
                   r \in S /\ (\A x \in S : 2 * x \in S) => v \in S}

(* A set with r that is closed under doubling has them all. *)
LEMMA DoublingsWithin ==
    ASSUME NEW r, NEW S \in SUBSET Nat, r \in S, \A x \in S : 2 * x \in S
    PROVE  Doublings(r) \subseteq S
BY DEF Doublings

(* They are r and the doublings of its double. *)
LEMMA DoublingsAre ==
    ASSUME NEW r \in Nat
    PROVE  /\ Doublings(r) = {r} \cup Doublings(2 * r)
           /\ \A x \in Doublings(r) : 2 * x \in Doublings(r)
           /\ Doublings(r) \in SUBSET Nat
<1>1. ASSUME NEW d \in Nat
      PROVE  /\ d \in Doublings(d) /\ Doublings(d) \in SUBSET Nat
             /\ \A x \in Doublings(d) : 2 * x \in Doublings(d)
  <2>1. ASSUME NEW x \in Doublings(d) PROVE 2 * x \in Doublings(d)
    <3>1. x \in Nat /\ 2 * x \in Nat
      BY DEF Doublings
    <3> QED
      BY <3>1 DEF Doublings
  <2> QED
    BY <2>1 DEF Doublings
<1>2. 2 * r \in Nat
  OBVIOUS
<1>3. 2 * r \in Doublings(r)
  BY <1>1
<1>4. Doublings(2 * r) \subseteq Doublings(r)
  BY <1>1, <1>2, <1>3, DoublingsWithin
<1> DEFINE S == {r} \cup Doublings(2 * r)
<1>5. S \in SUBSET Nat /\ r \in S /\ \A x \in S : 2 * x \in S
  <2>1. 2 * r \in S
    BY <1>1, <1>2
  <2> QED
    BY <1>1, <1>2, <2>1
<1>6. Doublings(r) \subseteq S
  <2> HIDE DEF S
  <2> QED
    BY <1>5, DoublingsWithin
<1> QED
  BY <1>1, <1>4, <1>6

(* They pass every bound, unless r is 0. *)
LEMMA DoublingsPass ==
    ASSUME NEW r \in Nat, r > 0, NEW b \in Nat
    PROVE  \E v \in Doublings(r) : v >= b
<1> DEFINE S == {n \in Nat : \E v \in Doublings(r) : v >= n}
<1>1. \A v \in Doublings(r) : v > 0
  <2> DEFINE P == {n \in Nat : n > 0}
  <2>1. P \in SUBSET Nat /\ r \in P /\ \A x \in P : 2 * x \in P
    OBVIOUS
  <2>2. Doublings(r) \subseteq P
    <3> HIDE DEF P
    <3> QED
      BY <2>1, DoublingsWithin
  <2> QED
    BY <2>2
<1>2. 0 \in S
  BY DoublingsAre
<1>3. ASSUME NEW n \in Nat, n \in S PROVE n + 1 \in S
  <2>1. PICK v \in Doublings(r) : v >= n
    BY <1>3
  <2>2. v \in Nat /\ v > 0 /\ 2 * v \in Doublings(r)
    BY <1>1, DoublingsAre
  <2>3. 2 * v >= n + 1
    BY <2>1, <2>2
  <2> QED
    BY <2>2, <2>3
<1> HIDE DEF S
<1>4. b \in S
  BY <1>2, <1>3, InductionOverNat
<1> QED
  BY <1>4 DEF S

(* The first doubling of r that leaves `need` bytes behind the prefix. *)
Enough(r, need) == {v \in Doublings(r) : v - Prepend >= need}
IsFirst(E, v) == v \in E /\ \A w \in E : v <= w
First(E) == CHOOSE v : IsFirst(E, v)
FirstEnough(r, need) == First(Enough(r, need))

(* It is found by the loop: r if that is enough, else from 2r on. *)
LEMMA FirstEnoughIs ==
    ASSUME NEW r \in Nat, NEW need \in Nat
    PROVE  FirstEnough(r, need) =
             IF r - Prepend >= need THEN r ELSE FirstEnough(2 * r, need)
<1>1. Doublings(r) = {r} \cup Doublings(2 * r)
  BY DoublingsAre
<1>2. CASE r - Prepend >= need
  <2>1. r \in Enough(r, need)
    BY <1>1, <1>2 DEF Enough
  <2>2. \A w \in Enough(r, need) : w \in Nat /\ r <= w
    <3> DEFINE P == {n \in Nat : r <= n}
    <3>1. P \in SUBSET Nat /\ r \in P /\ \A x \in P : 2 * x \in P
      OBVIOUS
    <3>2. Doublings(r) \subseteq P
      <4> HIDE DEF P
      <4> QED
        BY <3>1, DoublingsWithin
    <3> QED
      BY <3>2 DEF Enough
  <2>3. IsFirst(Enough(r, need), r) /\ \A v : IsFirst(Enough(r, need), v) => v = r
    <3>1. IsFirst(Enough(r, need), r)
      BY <2>1, <2>2 DEF IsFirst
    <3>2. ASSUME NEW v, IsFirst(Enough(r, need), v) PROVE v = r
      <4>1. v \in Nat /\ r <= v /\ v <= r
        BY <2>1, <2>2, <3>2 DEF IsFirst
      <4> QED
        BY <4>1
    <3> QED
      BY <3>1, <3>2
  <2>4. IsFirst(Enough(r, need), FirstEnough(r, need))
    <3>1. \E v : IsFirst(Enough(r, need), v)
      BY <2>3, Zenon
    <3>2. IsFirst(Enough(r, need), CHOOSE v : IsFirst(Enough(r, need), v))
      BY <3>1, Zenon
    <3> QED
      BY <3>2, Zenon DEF FirstEnough, First
  <2>5. FirstEnough(r, need) = r
    BY <2>3, <2>4, Zenon
  <2> QED
    BY <1>2, <2>5
<1>3. CASE ~(r - Prepend >= need)
  <2>1. Enough(r, need) = Enough(2 * r, need)
    BY <1>1, <1>3 DEF Enough
  <2> QED
    BY <1>3, <2>1 DEF FirstEnough
<1> QED
  BY <1>2, <1>3

(* The loop in AppendData ends with a buffer that is large enough. *)
LEMMA DoubledIsEnough ==
    ASSUME NEW r \in Nat, r > 0, NEW need \in Nat
    PROVE  /\ Doubled(r, need) \in Nat /\ Doubled(r, need) > 0
           /\ Prepend + need <= Doubled(r, need)
<1> DEFINE Is(f) == f = [q \in Nat |-> IF q - Prepend >= need THEN q
                                       ELSE f[2 * q]]
           g == [q \in Nat |-> FirstEnough(q, need)]
           f == CHOOSE h : Is(h)
           Done == f[r] \in Nat /\ f[r] > 0 /\ f[r] - Prepend >= need
           S == {q \in Nat : q > 0 /\ (f[q] = f[r] \/ Done)}
<1>1. Is(g)
  <2>1. \A q \in Nat : 2 * q \in Nat
    OBVIOUS
  <2>2. \A q \in Nat : g[q] = FirstEnough(q, need)
    OBVIOUS
  <2>3. \A q \in Nat : FirstEnough(q, need) =
                       IF q - Prepend >= need THEN q ELSE g[2 * q]
    BY <2>1, <2>2, FirstEnoughIs
  <2> QED
    BY <2>3
<1>2. Doubled(r, need) = f[r]
  BY Zenon DEF Doubled
<1>3. Is(f)
  <2> HIDE DEF Is, g
  <2> QED
    BY <1>1, Zenon
<1> HIDE DEF Is, f, g
<1>4. \A q \in Nat : f[q] = IF q - Prepend >= need THEN q ELSE f[2 * q]
  BY <1>3 DEF Is
<1>5. S \in SUBSET Nat /\ r \in S /\ \A q \in S : 2 * q \in S
  <2>1. ASSUME NEW q \in S PROVE 2 * q \in S
    <3>1. q \in Nat /\ 2 * q \in Nat /\ 2 * q > 0
      OBVIOUS
    <3>2. CASE q - Prepend >= need
      BY <1>4, <3>1, <3>2
    <3>3. CASE ~(q - Prepend >= need)
      BY <1>4, <3>1, <3>3
    <3> QED
      BY <3>2, <3>3
  <2> QED
    BY <2>1
<1>6. PICK v \in Doublings(r) : v - Prepend >= need
  <2>1. Prepend + need \in Nat
    BY RoomAssumption
  <2>2. PICK v \in Doublings(r) : v >= Prepend + need
    BY <2>1, DoublingsPass
  <2>3. v \in Nat /\ v - Prepend >= need
    BY <2>2, RoomAssumption, DoublingsAre
  <2> QED
    BY <2>2, <2>3, DoublingsAre
<1>7. v \in S /\ v \in Nat /\ v > 0
  <2>1. v \in S
    <3> HIDE DEF S
    <3> QED
      BY <1>5, DoublingsWithin
  <2> QED
    BY <2>1
<1>8. Done
  <2>1. f[v] = v /\ v - Prepend >= need
    BY <1>4, <1>6, <1>7
  <2>2. f[v] = f[r] \/ Done
    BY <1>7
  <2> QED
    BY <1>7, <2>1, <2>2
<1>9. f[r] \in Nat /\ f[r] > 0 /\ f[r] - Prepend >= need
  BY <1>8
<1>10. Prepend + need <= f[r]
  BY <1>9, RoomAssumption
<1> QED
  BY <1>2, <1>9, <1>10, Zenon

(* A NALU fits its buffer: the room it has is an inductive invariant. *)
RoomOK == room \in Nat /\ room > 0 /\ DataFitsRoom

(* What a call appends fits. *)
LEMMA AppendFits ==
    ASSUME RoomOK, NEW bytes \in Seq(Byte), data \in Seq(Byte), AppendData(bytes)
    PROVE  RoomOK'
<1>1. Len(data) \in Nat /\ Len(bytes) \in Nat
  BY LenProperties
<1>2. data' = data \o bytes /\ room' = Doubled(room, Len(data) + Len(bytes))
  BY Zenon DEF AppendData
<1>3. Len(data') = Len(data) + Len(bytes)
  BY <1>2, ConcatProperties
<1>4. room \in Nat /\ room > 0
  BY DEF RoomOK
<1>5. Len(data) + Len(bytes) \in Nat
  BY <1>1
<1>6. room' \in Nat /\ room' > 0 /\ Prepend + (Len(data) + Len(bytes)) <= room'
  BY <1>2, <1>4, <1>5, DoubledIsEnough
<1> QED
  BY <1>3, <1>6 DEF RoomOK, DataFitsRoom

(* Each step leaves a NALU that fits its buffer. *)
LEMMA RoomKept == IInv /\ RoomOK /\ [Next]_vars => RoomOK'
<1> SUFFICES ASSUME IInv, RoomOK, [Next]_vars PROVE RoomOK'
  OBVIOUS
<1>1. CASE Open
  <2>1. data' = <<>> /\ room' = Room
    BY <1>1, Zenon DEF Open
  <2> QED
    BY <2>1, RoomAssumption DEF RoomOK, DataFitsRoom
<1>2. CASE Refuse \/ UNCHANGED vars
  BY <1>2 DEF Refuse, vars, RoomOK, DataFitsRoom
<1>3. CASE Refill
  <2>1. reading /\ ~eof /\ AppendData(Fresh(end - 3))
    BY <1>3, Zenon DEF Refill
  <2>2. end = Chunk
    BY <2>1 DEF IInv, EofIsTrue
  <2>3. end - 3 \in 0 .. end /\ end - 3 >= 4 /\ code \in {3, 4}
    BY <2>1, <2>2, MidCall, ChunkAssumption
  <2>4. (IF data = <<>> THEN code ELSE 0) <= end - 3
    BY <2>3
  <2>5. Fresh(end - 3) \in Seq(Byte)
    BY <2>1, <2>3, <2>4, FreshIs
  <2>6. data \in Seq(Byte)
    BY DEF IInv, BytesOK
  <2> QED
    BY <2>1, <2>5, <2>6, AppendFits
<1>4. CASE ReturnFound \/ ReturnLast
  <2>1. PICK stop \in 0 .. end :
          /\ reading /\ Return(stop)
          /\ (IF data = <<>> THEN code ELSE 0) <= stop
    BY <1>4, StopIs
  <2>2. AppendData(Fresh(stop))
    BY <2>1, Zenon DEF Return
  <2>3. Fresh(stop) \in Seq(Byte)
    BY <2>1, FreshIs
  <2>4. data \in Seq(Byte)
    BY DEF IInv, BytesOK
  <2> QED
    BY <2>2, <2>3, <2>4, AppendFits
<1> QED
  BY <1>1, <1>2, <1>3, <1>4 DEF Next, GetNextFrame, Call, Continue

(* The buffer is there, and empty, before the first call. *)
LEMMA RoomAtFirst == Init => RoomOK
<1>1. Init => data = <<>> /\ room = Room
  BY Zenon DEF Init
<1> QED
  BY <1>1, RoomAssumption DEF RoomOK, DataFitsRoom

(* So it is in every state: what a NALU holds fits its buffer. *)
LEMMA RoomInvariant == Spec => []RoomOK
BY Invariant, RoomAtFirst, RoomKept, PTL DEF Spec

(* The loop that doubles the buffer of a NALU leaves room for its bytes    *)
(* behind the prefix, for every first size, prefix and length of a NALU.   *)
THEOREM NalusFit == Spec => []DataFitsRoom
<1>1. RoomOK => DataFitsRoom
  BY DEF RoomOK
<1> QED
  BY RoomInvariant, <1>1, PTL

(* The position stays in the file, and the cursor in the buffer. *)
THEOREM TypeCorrect == Spec => []TypeOK
<1>1. IInv /\ RoomOK => TypeOK
  BY DEF IInv, RoomOK, TypeOK
<1> QED
  BY Invariant, RoomInvariant, <1>1, PTL
=============================================================================
