---------------------------- MODULE MCNaluReader ----------------------------
(* Instances of NaluReader for TLC. *)
EXTENDS NaluReader

Strings(n) == [1 .. n -> Byte]
Codes == {<<0, 0, 1>>, <<0, 0, 0, 1>>}
Fill(n) == [i \in 1 .. n |-> 2]

(* Every string of six bytes, so every pair of start codes, at every place *)
(* relative to the ends of chunks of eight bytes that overlap by three.    *)
CleanInputs == {[file |-> c \o Fill(k) \o s \o t \o <<2>>, behind |-> {2}] :
                  c \in Codes, k \in 0 .. 4, s \in Strings(3), t \in Strings(3)}

(* Files with and without a start code, and some of two chunks, in front *)
(* of memory that holds anything.                                        *)
ShortFiles == UNION {Strings(n) : n \in 0 .. 3} \union
              {c \o Fill(k) \o s : c \in Codes, k \in 0 .. 3, s \in Strings(3)}
DirtyInputs == {[file |-> f, behind |-> {0, 1}] :
                  f \in {g \in ShortFiles : g = <<>> \/ g[Len(g)] # 0}}

MCInputs == CleanInputs \union DirtyInputs

(* One NALU with the bytes 0, 0, 3 at the end of the first chunk, as H.264 *)
(* writes two zeros within a NALU.                                         *)
MCEscaped == {[file |-> <<0, 0, 1, 2, 2, 2, 0, 0, 2, 2>>, behind |-> {1}]}
=============================================================================
