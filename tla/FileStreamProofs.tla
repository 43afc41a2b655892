-------------------------- MODULE FileStreamProofs --------------------------
(***************************************************************************)
(* Framing, order and completeness of a file on its way through FileStream *)
(* for every size of the files, buffers, packets and queues.               *)
(*                                                                         *)
(* What is on the way is one line of packets, the one written first in     *)
(* front: the bytes on the recipient's side, its queue at the server, the  *)
(* bytes on the server's side and wbuf.  A step lengthens the line, shortens *)
(* it or moves the border between two of its parts.                        *)
(***************************************************************************)
EXTENDS FileStream, Integers, FiniteSets, SequenceTheorems, FiniteSetTheorems,
        FunctionTheorems, TLAPS

(***************************************************************************)
(* Sequences                                                               *)
(***************************************************************************)
LEMMA ConcatAt ==
  ASSUME NEW S, NEW q \in Seq(S), NEW o \in Seq(S)
  PROVE  /\ q \o o \in Seq(S)
         /\ Len(q \o o) = Len(q) + Len(o)
         /\ DOMAIN (q \o o) = 1 .. Len(q) + Len(o)
         /\ \A i \in DOMAIN q : (q \o o)[i] = q[i]
         /\ \A i \in DOMAIN o : (q \o o)[Len(q) + i] = o[i]
         /\ \A i \in DOMAIN (q \o o) : i \in DOMAIN q \/ i - Len(q) \in DOMAIN o
         /\ \A i \in DOMAIN o : Len(q) + i \in DOMAIN (q \o o)
         /\ \A i \in DOMAIN q : i \in DOMAIN (q \o o)
  OBVIOUS

LEMMA SubSeqAt ==
  ASSUME NEW S, NEW q \in Seq(S), NEW n \in 0 .. Len(q)
  PROVE  /\ SubSeq(q, 1, n) \in Seq(S) /\ Len(SubSeq(q, 1, n)) = n
         /\ \A i \in 1 .. n : SubSeq(q, 1, n)[i] = q[i]
         /\ SubSeq(q, n + 1, Len(q)) \in Seq(S) /\ Len(SubSeq(q, n + 1, Len(q))) = Len(q) - n
         /\ \A i \in 1 .. Len(q) - n : SubSeq(q, n + 1, Len(q))[i] = q[n + i]
  OBVIOUS

LEMMA SplitSeq ==
  ASSUME NEW S, NEW s \in Seq(S), NEW n \in 1 .. Len(s)
  PROVE  /\ SubSeq(s, 1, n) \in Seq(S) /\ Len(SubSeq(s, 1, n)) = n
         /\ SubSeq(s, n + 1, Len(s)) \in Seq(S)
         /\ s = SubSeq(s, 1, n) \o SubSeq(s, n + 1, Len(s))
<1> DEFINE first == SubSeq(s, 1, n)
           rest == SubSeq(s, n + 1, Len(s))
<1>0. n \in 0 .. Len(s) /\ n \in Nat /\ Len(s) - n \in Nat
  OBVIOUS
<1>1. /\ first \in Seq(S) /\ Len(first) = n
      /\ \A i \in 1 .. n : first[i] = s[i]
      /\ rest \in Seq(S) /\ Len(rest) = Len(s) - n
      /\ \A i \in 1 .. Len(s) - n : rest[i] = s[n + i]
  BY <1>0, SubSeqAt
<1> HIDE DEF first, rest
<1>2. /\ first \o rest \in Seq(S) /\ Len(first \o rest) = Len(s)
      /\ \A i \in 1 .. n : (first \o rest)[i] = first[i]
      /\ \A i \in 1 .. Len(s) - n : (first \o rest)[n + i] = rest[i]
  <2>1. first \in Seq(S) /\ rest \in Seq(S) /\ DOMAIN first = 1 .. n
        /\ DOMAIN rest = 1 .. Len(s) - n
    BY <1>1
  <2>2. /\ first \o rest \in Seq(S) /\ Len(first \o rest) = Len(first) + Len(rest)
        /\ \A i \in DOMAIN first : (first \o rest)[i] = first[i]
        /\ \A i \in DOMAIN rest : (first \o rest)[Len(first) + i] = rest[i]
    BY <2>1, ConcatAt
  <2> QED BY <1>0, <1>1, <2>1, <2>2
<1>3. ASSUME NEW i \in 1 .. Len(s) PROVE (first \o rest)[i] = s[i]
  <2>1. CASE i <= n
    <3>1. i \in 1 .. n
      BY <2>1
    <3> QED BY <1>1, <1>2, <3>1
  <2>2. CASE i > n
    <3> DEFINE j == i - n
    <3>1. j \in 1 .. Len(s) - n /\ n + j = i
      BY <1>0, <2>2
    <3> HIDE DEF j
    <3>2. (first \o rest)[n + j] = rest[j] /\ rest[j] = s[n + j]
      BY <1>1, <1>2, <3>1
    <3> QED BY <3>1, <3>2
  <2>3. i <= n \/ i > n
    BY <1>0
  <2> QED BY <2>1, <2>2, <2>3, Zenon
<1>4. s = first \o rest
  BY <1>2, <1>3, SeqEqual
<1> QED BY <1>1, <1>4 DEF first, rest

LEMMA SplitAt ==
  ASSUME NEW S, NEW a \in Seq(S), NEW first \in Seq(S), NEW rest \in Seq(S)
  PROVE  /\ a \o first \in Seq(S) /\ Len(a \o first) = Len(a) + Len(first)
         /\ a \o (first \o rest) = (a \o first) \o rest
         /\ Len(a \o (first \o rest)) = Len(a \o first) + Len(rest)
         /\ Len(rest) \in Nat /\ Len(a) \in Nat
         /\ \A i \in 1 .. Len(a \o first) : (a \o first)[i] = (a \o (first \o rest))[i]
<1>1. a \o first \in Seq(S) /\ Len(a \o first) = Len(a) + Len(first)
  BY ConcatAt
<1>2. a \o (first \o rest) = (a \o first) \o rest
  BY ConcatAssociative
<1> DEFINE b == a \o first
<1>3. b \in Seq(S) /\ DOMAIN b = 1 .. Len(b)
  BY <1>1
<1> HIDE DEF b
<1>4. Len(b \o rest) = Len(b) + Len(rest) /\ \A i \in 1 .. Len(b) : (b \o rest)[i] = b[i]
  BY <1>3, ConcatAt
<1> QED BY <1>1, <1>2, <1>4 DEF b

LEMMA MinOf ==
  ASSUME NEW a \in Nat, NEW b \in Nat
  PROVE  /\ Min({a, b}) \in Nat /\ Min({a, b}) \in {a, b}
         /\ Min({a, b}) <= a /\ Min({a, b}) <= b
<1>1. \E x \in {a, b} : \A y \in {a, b} : x =< y
  <2>1. CASE a <= b
    BY <2>1
  <2>2. CASE b <= a
    BY <2>2
  <2> QED BY <2>1, <2>2
<1> QED BY <1>1 DEF Min

(***************************************************************************)
(* Types                                                                   *)
(***************************************************************************)
Types == {"DATA", "COMPLETE", "CANCEL", "OK"}
Pkt == [type : Types, t_id : Nat, bytes : Seq(Nat \X Nat)]
Byte == Pkt \X Nat
Frame == [bytes : Seq(Byte), size : Nat]
Size(p) == Hdr + BodySize(p)

LEMMA SizeType ==
  ASSUME NEW p \in Pkt
  PROVE  BodySize(p) \in Nat /\ Size(p) \in Nat \ {0} /\ Size(p) = Hdr + BodySize(p) /\ Size(p) >= Hdr
<1>1. p.type \in Types
  BY DEF Pkt
<1> QED BY <1>1, SizesAssumption DEF BodySize, Size, Types

\* Every byte of a stream is in a packet that is there from its first byte to
\* its last.
InPacket(all, j, k) ==
    LET at == j - all[j][2] + k
    IN  at \in DOMAIN all /\ all[at] = <<all[j][1], k>>
Packed(all) ==
    \A j \in DOMAIN all :
        /\ all[j][2] \in 1 .. Size(all[j][1])
        /\ \A k \in 1 .. Size(all[j][1]) : InPacket(all, j, k)

LEMMA BytesOf ==
  ASSUME NEW p \in Pkt
  PROVE  /\ Bytes(p) \in Seq(Byte) /\ Len(Bytes(p)) = Size(p)
         /\ \A i \in 1 .. Size(p) : Bytes(p)[i] = <<p, i>>
         /\ Bytes(p) # << >>
         /\ Packed(Bytes(p))
<1> DEFINE n == Size(p)
<1>0. n \in Nat \ {0}
  BY SizeType
<1>1. Bytes(p) = [i \in 1 .. n |-> <<p, i>>]
  BY DEF Bytes, Size
<1> HIDE DEF n
<1>2. Bytes(p) \in Seq(Byte) /\ Len(Bytes(p)) = n /\ DOMAIN Bytes(p) = 1 .. n
  BY <1>0, <1>1 DEF Byte
<1>3. \A i \in 1 .. n : Bytes(p)[i] = <<p, i>>
  BY <1>1
<1>4. Packed(Bytes(p))
  <2> SUFFICES ASSUME NEW j \in 1 .. n, NEW k \in 1 .. n
               PROVE  j \in 1 .. n /\ k \in DOMAIN Bytes(p) /\ Bytes(p)[k] = <<p, k>>
    <3>1. \A j \in 1 .. n : Bytes(p)[j][1] = p /\ Bytes(p)[j][2] = j
      BY <1>3
    <3>2. \A j, k \in 1 .. n : j - j + k = k
      BY <1>0
    <3> QED BY <1>2, <3>1, <3>2 DEF Packed, InPacket, n
  <2> QED BY <1>2, <1>3
<1> QED BY <1>0, <1>2, <1>3, <1>4 DEF n

LEMMA PackedEmpty == Packed(<< >>)
  BY DEF Packed

LEMMA PackedConcat ==
  ASSUME NEW a \in Seq(Byte), NEW b \in Seq(Byte), Packed(a), Packed(b)
  PROVE  Packed(a \o b)
<1> DEFINE c == a \o b
<1>0. /\ c \in Seq(Byte) /\ Len(c) = Len(a) + Len(b) /\ DOMAIN c = 1 .. Len(a) + Len(b)
      /\ \A i \in DOMAIN a : c[i] = a[i] /\ i \in DOMAIN c
      /\ \A i \in DOMAIN b : c[Len(a) + i] = b[i] /\ Len(a) + i \in DOMAIN c
      /\ \A i \in DOMAIN c : i \in DOMAIN a \/ i - Len(a) \in DOMAIN b
  BY ConcatAt
<1> HIDE DEF c
<1> SUFFICES ASSUME NEW j \in DOMAIN c
             PROVE  /\ c[j][2] \in 1 .. Size(c[j][1])
                    /\ \A k \in 1 .. Size(c[j][1]) : InPacket(c, j, k)
  BY DEF Packed, c
<1>1. CASE j \in DOMAIN a
  <2>1. c[j] = a[j]
    BY <1>0, <1>1
  <2>2. a[j][2] \in 1 .. Size(a[j][1])
    BY <1>1 DEF Packed
  <2>3. ASSUME NEW k \in 1 .. Size(a[j][1]) PROVE InPacket(c, j, k)
    <3>1. InPacket(a, j, k)
      BY <1>1 DEF Packed
    <3> QED BY <1>0, <2>1, <3>1 DEF InPacket
  <2> QED BY <2>1, <2>2, <2>3
<1>2. CASE j - Len(a) \in DOMAIN b
  <2> DEFINE i == j - Len(a)
  <2>1. i \in DOMAIN b /\ j = Len(a) + i /\ i \in Int /\ c[j] = b[i]
    BY <1>0, <1>2
  <2> HIDE DEF i
  <2>2. b[i][2] \in 1 .. Size(b[i][1])
    BY <2>1 DEF Packed
  <2>3. ASSUME NEW k \in 1 .. Size(b[i][1]) PROVE InPacket(c, j, k)
    <3>1. InPacket(b, i, k)
      BY <2>1 DEF Packed
    <3>2. j - b[i][2] + k = Len(a) + (i - b[i][2] + k)
      BY <2>1, <2>2
    <3> QED BY <1>0, <2>1, <3>1, <3>2 DEF InPacket
  <2> QED BY <2>1, <2>2, <2>3
<1> QED BY <1>0, <1>1, <1>2

\* The first packet of a stream, and what is behind it.
LEMMA PackedHead ==
  ASSUME NEW all \in Seq(Byte), Packed(all), all # << >>,
         NEW p, p = Head(all)[1]
  PROVE  /\ p \in Pkt
         /\ Size(p) \in 1 .. Len(all)
         /\ \A i \in 1 .. Size(p) : all[i] = <<p, i>>
<1>1. all[1] \in Byte /\ 1 \in DOMAIN all /\ p = all[1][1] /\ p \in Pkt
  BY DEF Byte
<1>2. Size(p) \in Nat \ {0}
  BY <1>1, SizeType
<1>3. all[1][2] \in 1 .. Size(p) /\ \A k \in 1 .. Size(p) : InPacket(all, 1, k)
  BY <1>1 DEF Packed
<1>4. all[1][2] = 1
  <2>1. InPacket(all, 1, 1)
    BY <1>2, <1>3
  <2>2. 1 - all[1][2] + 1 \in DOMAIN all
    BY <2>1 DEF InPacket
  <2> QED BY <1>2, <1>3, <2>2
<1>5. ASSUME NEW k \in 1 .. Size(p) PROVE k \in DOMAIN all /\ all[k] = <<p, k>>
  <2>1. InPacket(all, 1, k)
    BY <1>3
  <2> QED BY <1>1, <1>2, <1>4, <2>1 DEF InPacket
<1>6. Size(p) \in DOMAIN all
  BY <1>2, <1>5
<1> QED BY <1>1, <1>5, <1>6

LEMMA PackedBehind ==
  ASSUME NEW p \in Pkt, NEW a \in Seq(Byte), NEW b \in Seq(Byte), Packed(a \o b),
         Len(a) = Size(p), \A i \in 1 .. Size(p) : a[i] = <<p, i>>
  PROVE  Packed(b)
<1> DEFINE n == Len(a)
           c == a \o b
<1>1. n \in Nat \ {0} /\ n = Size(p)
  BY SizeType
<1>2. /\ DOMAIN c = 1 .. n + Len(b)
      /\ \A i \in DOMAIN a : c[i] = a[i]
      /\ \A i \in DOMAIN b : c[n + i] = b[i] /\ n + i \in DOMAIN c
      /\ \A i \in DOMAIN c : i \in DOMAIN a \/ i - n \in DOMAIN b
  BY ONLY a \in Seq(Byte), b \in Seq(Byte), ConcatAt
<1>3. DOMAIN a = 1 .. n
  OBVIOUS
<1> HIDE DEF n
<1>4. Packed(c) /\ \A i \in 1 .. n : c[i] = <<p, i>>
  BY <1>1, <1>2, <1>3
<1> HIDE DEF c
<1> SUFFICES ASSUME NEW j \in DOMAIN b
             PROVE  /\ b[j][2] \in 1 .. Size(b[j][1])
                    /\ \A k \in 1 .. Size(b[j][1]) : InPacket(b, j, k)
  BY DEF Packed
<1> DEFINE q == b[j][1]
           i == b[j][2]
           m == n + j
<1>5. q \in Pkt /\ i \in Nat /\ j \in 1 .. Len(b) /\ Size(q) \in Nat
  BY SizeType DEF Byte
<1>6. m \in DOMAIN c /\ c[m] = b[j]
  BY <1>2
<1> HIDE DEF m
<1>7. i \in 1 .. Size(q) /\ \A k \in 1 .. Size(q) : InPacket(c, m, k)
  BY <1>4, <1>6 DEF Packed
<1>8. \A k \in 1 .. Size(q) : m - i + k \in DOMAIN c /\ c[m - i + k] = <<q, k>>
  BY <1>6, <1>7 DEF InPacket
<1> HIDE DEF q, i
\* The packet of a byte behind p does not begin inside p.
<1>9. j - i >= 0
  <2> SUFFICES ASSUME j - i < 0 PROVE FALSE
    BY <1>5
  <2> DEFINE k == i - j
  <2>1. k \in 1 .. Size(q) /\ m - i + k = n /\ k < Size(q) /\ n \in 1 .. n
    BY <1>1, <1>5, <1>7 DEF m
  <2> HIDE DEF k
  <2>2. c[n] = <<q, k>> /\ c[n] = <<p, n>>
    BY <1>4, <1>8, <2>1
  <2>3. q = p /\ k = n
    BY <2>2
  <2> QED BY <1>1, <2>1, <2>3
<1>10. ASSUME NEW k \in 1 .. Size(q) PROVE j - i + k \in DOMAIN b /\ b[j - i + k] = <<q, k>>
  <2> DEFINE h == j - i + k
  <2>1. m - i + k = n + h /\ h > 0 /\ h \in Int
    <3>1. n \in Int /\ j \in Int /\ i \in Int /\ k \in Int /\ k >= 1
      BY <1>1, <1>5
    <3> QED BY <1>9, <3>1 DEF m
  <2> HIDE DEF h
  <2>2. n + h \in DOMAIN c /\ c[n + h] = <<q, k>>
    BY <1>8, <2>1
  <2>3. h \in DOMAIN b
    BY <1>1, <1>2, <2>1, <2>2
  <2>4. b[h] = <<q, k>>
    BY <1>2, <2>2, <2>3
  <2> QED BY <2>3, <2>4 DEF h
<1> QED BY <1>7, <1>10 DEF q, i, InPacket

(***************************************************************************)
(* Frames                                                                  *)
(***************************************************************************)

\* f and the stream behind it are whole packets, and f is a part of the first.
FrameInv(f, stream) ==
    /\ f \in Frame /\ stream \in Seq(Byte)
    /\ Packed(f.bytes \o stream)
    /\ f.bytes = << >> => f.size = 0
    /\ f.bytes # << >> =>
         LET p == Head(f.bytes)[1]
         IN  /\ Len(f.bytes) < Size(p)
             /\ f.size = IF Len(f.bytes) >= Hdr THEN BodySize(p) ELSE 0

LEMMA FrameStarts ==
  /\ NoFrame \in Frame /\ NoFrame.bytes = << >>
  /\ FrameInv(NoFrame, << >>)
<1>1. NoFrame \in Frame /\ NoFrame.bytes = << >> /\ NoFrame.size = 0
  BY DEF NoFrame, Frame
<1>2. << >> \o << >> = << >> /\ << >> \in Seq(Byte)
  OBVIOUS
<1> QED BY <1>1, <1>2, PackedEmpty DEF FrameInv

LEMMA FirstPacket ==
  ASSUME NEW f, NEW stream, FrameInv(f, stream), f.bytes \o stream # << >>,
         NEW p, p = Head(f.bytes \o stream)[1]
  PROVE  /\ p \in Pkt /\ Size(p) \in 1 .. Len(f.bytes \o stream)
         /\ \A i \in 1 .. Size(p) : (f.bytes \o stream)[i] = <<p, i>>
         /\ Len(f.bytes) < Size(p)
         /\ f.size = IF Len(f.bytes) >= Hdr THEN BodySize(p) ELSE 0
<1> DEFINE a == f.bytes
           all == a \o stream
<1>1. a \in Seq(Byte) /\ stream \in Seq(Byte) /\ Packed(all)
  BY DEF FrameInv, Frame
<1>2. all \in Seq(Byte) /\ \A i \in DOMAIN a : all[i] = a[i]
  BY <1>1, ConcatAt
<1>3. all # << >> /\ p = Head(all)[1]
  OBVIOUS
<1>4. /\ p \in Pkt /\ Size(p) \in 1 .. Len(all)
      /\ \A i \in 1 .. Size(p) : all[i] = <<p, i>>
  <2> HIDE DEF all
  <2> QED BY <1>1, <1>2, <1>3, PackedHead
<1>5. CASE a = << >>
  <2>1. Len(a) = 0 /\ Hdr \in Nat \ {0} /\ f.size = 0
    BY <1>5, SizesAssumption DEF FrameInv
  <2>2. Size(p) \in Nat \ {0}
    BY <1>4, SizeType
  <2>3. Len(f.bytes) = 0 /\ ~(Len(f.bytes) >= Hdr)
    BY <2>1
  <2>4. Len(f.bytes) < Size(p)
    BY ONLY <2>2, <2>3
  <2>5. f.size = IF Len(f.bytes) >= Hdr THEN BodySize(p) ELSE 0
    BY ONLY <2>1, <2>3
  <2> QED BY <1>4, <2>4, <2>5, Zenon
<1>6. CASE a # << >>
  <2>1. Head(a) = Head(all)
    BY <1>1, <1>2, <1>6
  <2> QED BY <1>3, <1>4, <1>6, <2>1 DEF FrameInv
<1> QED BY <1>5, <1>6

\* What the two readers rely on.
LEMMA FrameInStep ==
  ASSUME NEW f, NEW stream, FrameInv(f, stream) PROVE InStep(f, stream)
<1> DEFINE all == f.bytes \o stream
           p == Head(all)[1]
<1> SUFFICES ASSUME all # << >>
             PROVE  /\ Len(f.bytes) < Hdr + BodySize(p) /\ IsPrefix(Bytes(p), all)
                    /\ f.size = IF Len(f.bytes) >= Hdr THEN BodySize(p) ELSE 0
  BY DEF InStep
<1>1. /\ p \in Pkt /\ Size(p) \in 1 .. Len(all)
      /\ \A i \in 1 .. Size(p) : all[i] = <<p, i>>
      /\ Len(f.bytes) < Size(p)
      /\ f.size = IF Len(f.bytes) >= Hdr THEN BodySize(p) ELSE 0
  BY FirstPacket
<1>2. all \in Seq(Byte)
  BY ConcatAt DEF FrameInv, Frame
<1> HIDE DEF p, all
<1>3. IsPrefix(Bytes(p), all)
  <2> DEFINE n == Size(p)
             c == Bytes(p)
  <2>1. c \in Seq(Byte) /\ Len(c) = n /\ n \in 0 .. Len(all) /\ n \in 0 .. Len(c)
    BY <1>1, BytesOf
  <2>2. \A i \in 1 .. n : c[i] = all[i]
    BY <1>1, BytesOf
  <2> HIDE DEF n, c
  <2>3. /\ SubSeq(c, 1, n) \in Seq(Byte) /\ Len(SubSeq(c, 1, n)) = n
        /\ \A i \in 1 .. n : SubSeq(c, 1, n)[i] = c[i]
    BY <2>1, SubSeqAt
  <2>4. /\ SubSeq(all, 1, n) \in Seq(Byte) /\ Len(SubSeq(all, 1, n)) = n
        /\ \A i \in 1 .. n : SubSeq(all, 1, n)[i] = all[i]
    BY <1>2, <2>1, SubSeqAt
  <2>5. SubSeq(c, 1, n) = SubSeq(all, 1, n)
    BY <2>2, <2>3, <2>4, SeqEqual
  <2> QED BY <1>2, <2>1, <2>5 DEF IsPrefix, c
<1> QED BY <1>1, <1>3 DEF Size

LEMMA FrameGrows ==
  ASSUME NEW f, NEW stream, FrameInv(f, stream), NEW more \in Seq(Byte), Packed(more)
  PROVE  FrameInv(f, stream \o more)
<1>1. f.bytes \in Seq(Byte) /\ stream \in Seq(Byte) /\ f.bytes \o stream \in Seq(Byte)
  BY ConcatAt DEF FrameInv, Frame
<1>2. f.bytes \o (stream \o more) = (f.bytes \o stream) \o more
  <2> DEFINE a == f.bytes
  <2>1. a \in Seq(Byte) /\ stream \in Seq(Byte)
    BY <1>1
  <2> HIDE DEF a
  <2>2. a \o (stream \o more) = (a \o stream) \o more
    BY <2>1, ConcatAssociative
  <2> QED BY <2>2 DEF a
<1>3. Packed(f.bytes \o (stream \o more)) /\ stream \o more \in Seq(Byte)
  BY <1>1, <1>2, PackedConcat, ConcatAt DEF FrameInv
<1> QED BY <1>3 DEF FrameInv

\* One SSL_read: the bytes are the same, and a whole packet is the first one.
LEMMA ReadStep ==
  ASSUME NEW f, NEW stream, FrameInv(f, stream), stream # << >>,
         NEW n \in 1 .. Min({Len(stream), Asked(f)})
  PROVE  LET g    == Read(f, stream, n)
             rest == SubSeq(stream, n + 1, Len(stream))
         IN  /\ ~Whole(g) => FrameInv(g, rest) /\ g.bytes \o rest = f.bytes \o stream
             /\ Whole(g) => /\ Packet(g) \in Pkt /\ FrameInv(NoFrame, rest)
                            /\ f.bytes \o stream = Bytes(Packet(g)) \o rest
<1> DEFINE a == f.bytes
           all == a \o stream
           p == Head(all)[1]
           first == SubSeq(stream, 1, n)
           rest == SubSeq(stream, n + 1, Len(stream))
           b == a \o first
           g == Read(f, stream, n)
<1>1. a \in Seq(Byte) /\ stream \in Seq(Byte) /\ Len(stream) # 0 /\ Packed(all) /\ f \in Frame
  BY EmptySeq DEF FrameInv, Frame
<1>2. all # << >>
  <2> HIDE DEF a
  <2> QED BY <1>1, ConcatAt
<1>3. /\ p \in Pkt
      /\ \A i \in 1 .. Size(p) : all[i] = <<p, i>>
  BY <1>2, FirstPacket
<1>4. /\ Len(a) < Size(p)
      /\ f.size = IF Len(a) >= Hdr THEN BodySize(p) ELSE 0
  BY <1>2, FirstPacket
<1> DEFINE la == Len(a)
           lb == Len(b)
           size == Size(p)
           body == BodySize(p)
<1>5. body \in Nat /\ Hdr \in Nat \ {0} /\ size = Hdr + body /\ la \in Nat
  <2>1. la \in Nat
    BY <1>1
  <2> HIDE DEF a, p, la
  <2>2. body \in Nat /\ size = Hdr + body
    BY <1>3, SizeType
  <2> QED BY <2>1, <2>2, SizesAssumption
<1>6. n \in 1 .. Len(stream) /\ n <= Hdr + f.size - la
  <2> HIDE DEF a, p, body, la
  <2>1. Asked(f) = Hdr + f.size - la
    BY DEF Asked, la, a
  <2>2. Hdr + f.size - la \in Nat
    <3>1. f.size = (IF la >= Hdr THEN body ELSE 0) /\ la < Hdr + body
      BY <1>4, <1>5 DEF la, body, size
    <3> QED BY ONLY <3>1, <1>5
  <2>3. Len(stream) \in Nat
    BY <1>1
  <2> QED BY <2>1, <2>2, <2>3, MinOf
<1>7. /\ first \in Seq(Byte) /\ Len(first) = n /\ rest \in Seq(Byte)
      /\ stream = first \o rest
  BY <1>1, <1>6, SplitSeq
<1> HIDE DEF a, first, rest
<1>8. /\ b \in Seq(Byte) /\ lb = la + n
      /\ all = b \o rest
      /\ \A i \in 1 .. lb : b[i] = all[i]
  <2>1. a \in Seq(Byte) /\ first \in Seq(Byte) /\ rest \in Seq(Byte)
    BY <1>1, <1>7
  <2>2. /\ a \o first \in Seq(Byte) /\ Len(a \o first) = Len(a) + Len(first)
        /\ a \o (first \o rest) = (a \o first) \o rest
        /\ \A i \in 1 .. Len(a \o first) : (a \o first)[i] = (a \o (first \o rest))[i]
    <3> DEFINE S == Byte
    <3>1. a \in Seq(S) /\ first \in Seq(S) /\ rest \in Seq(S)
      BY <2>1
    <3> HIDE DEF S
    <3>2. a \o first \in Seq(S) /\ Len(a \o first) = Len(a) + Len(first)
      BY ONLY <3>1, SplitAt
    <3>3. a \o (first \o rest) = (a \o first) \o rest
      BY ONLY <3>1, SplitAt
    <3>4. \A i \in 1 .. Len(a \o first) : (a \o first)[i] = (a \o (first \o rest))[i]
      BY ONLY <3>1, SplitAt
    <3> QED BY <3>2, <3>3, <3>4 DEF S
  <2>3. all = a \o (first \o rest)
    BY <1>7
  <2> HIDE DEF all
  <2> QED BY <1>7, <2>2, <2>3
<1> HIDE DEF b, all
<1>9. 1 \in 1 .. lb /\ lb \in Nat /\ n \in Nat \ {0}
  BY <1>5, <1>6, <1>8
<1>10. b # << >> /\ Head(b) = b[1] /\ Head(b) = Head(all)
  <2>1. b # << >> /\ Head(b) = b[1]
    BY <1>8, <1>9
  <2>2. Head(all) = all[1]
    BY <1>2
  <2> QED BY <1>8, <1>9, <2>1, <2>2
<1>11. g = [bytes |-> b, size |-> IF lb = Hdr THEN body ELSE f.size]
  BY <1>10 DEF Read, Extend, a, first, b
<1> HIDE DEF p, g
<1>12. /\ lb <= size
       /\ (IF lb = Hdr THEN body ELSE f.size) = (IF lb >= Hdr THEN body ELSE 0)
       /\ Hdr + (IF lb >= Hdr THEN body ELSE 0) - lb = 0 <=> lb = size
  <2>1. f.size = (IF la >= Hdr THEN body ELSE 0) /\ la < size /\ lb = la + n
    BY <1>4, <1>8
  <2> HIDE DEF la, lb, body, size
  <2> QED BY ONLY <1>5, <1>6, <1>9, <2>1
<1>13. /\ g.bytes = b /\ g \in Frame
       /\ g.size = IF lb >= Hdr THEN body ELSE 0
  <2>1. g.bytes = b /\ g.size = IF lb >= Hdr THEN body ELSE 0
    BY <1>11, <1>12
  <2>2. g.size \in Nat
    BY <1>5, <2>1
  <2> QED BY <1>8, <1>11, <2>1, <2>2 DEF Frame
<1>14. Whole(g) <=> lb = size
  BY <1>12, <1>13 DEF Whole, Asked
<1>15. ASSUME ~Whole(g) PROVE FrameInv(g, rest)
  <2>1. lb < size
    <3> HIDE DEF lb, size
    <3>1. lb # size
      BY <1>14, <1>15
    <3> QED BY <1>5, <1>9, <1>12, <3>1
  <2>2. Head(b)[1] = p
    BY <1>10 DEF p
  <2> QED BY <1>1, <1>7, <1>8, <1>10, <1>13, <2>1, <2>2 DEF FrameInv
<1>16. ASSUME Whole(g)
       PROVE  Packet(g) = p /\ b = Bytes(p) /\ FrameInv(NoFrame, rest)
  <2>1. Packet(g) = p
    BY <1>10, <1>13 DEF Packet, p
  <2>2. Len(b) = Size(p) /\ \A i \in 1 .. Size(p) : b[i] = <<p, i>>
    BY <1>3, <1>8, <1>14, <1>16
  <2>3. b = Bytes(p)
    <3> DEFINE c == Bytes(p)
    <3>1. c \in Seq(Byte) /\ Len(c) = Size(p) /\ \A i \in 1 .. Size(p) : c[i] = <<p, i>>
      BY <1>3, BytesOf
    <3> HIDE DEF c
    <3>2. Len(b) = Len(c) /\ \A i \in 1 .. Len(b) : b[i] = c[i]
      BY <2>2, <3>1
    <3>3. b = c
      BY <1>8, <3>1, <3>2, SeqEqual
    <3> QED BY <3>3 DEF c
  <2>4. Packed(rest)
    BY <1>1, <1>3, <1>7, <1>8, <2>2, PackedBehind
  <2>5. << >> \o rest = rest
    BY <1>7
  <2> QED BY <1>7, <2>1, <2>3, <2>4, <2>5, FrameStarts DEF FrameInv, NoFrame
<1>17. /\ ~Whole(g) => FrameInv(g, rest) /\ g.bytes \o rest = a \o stream
       /\ Whole(g) => /\ Packet(g) \in Pkt /\ FrameInv(NoFrame, rest)
                      /\ a \o stream = Bytes(Packet(g)) \o rest
  <2>1. all = a \o stream
    BY DEF all
  <2> QED BY <1>3, <1>8, <1>13, <1>15, <1>16, <2>1
<1> QED BY <1>17 DEF a, rest, g

(***************************************************************************)
(* Types, the host's File_Manager, and the two streams                     *)
(***************************************************************************)
TypeInv ==
    /\ hosting \in Nat /\ fpos \in Nat /\ buf_len \in Nat /\ buf_cnt \in Nat
    /\ buf \in [1 .. BufferSize -> Nat \X Nat]
    /\ wbuf \in Pkt /\ unsent \in BOOLEAN /\ want \in BOOLEAN
    /\ pc \in {"check", "poll"}
    /\ rows \in SUBSET Transfer /\ relay \in Seq(Pkt) /\ serverUp \in BOOLEAN
    /\ recv \in [Transfer -> {"EMPTY", "ACTIVE", "COMPLETE", "CANCEL"}]
    /\ out \in [Transfer -> Seq(Nat \X Nat)]
    /\ started \in 0 .. Len(FileSize) /\ missed \in BOOLEAN

\* The bytes of the host's file that are in packets.
Reach == fpos - buf_len

\* What is left in the buffer is the file's, from Reach on.
BufferInv ==
    /\ hosting \in {0, started}
    /\ hosting # 0 =>
         /\ fpos <= FileSize[hosting] /\ buf_len <= fpos
         /\ buf_cnt + buf_len <= BufferSize
         /\ \A i \in 1 .. buf_len : buf[buf_cnt + i] = <<hosting, Reach + i>>

\* A packet still in wbuf when the next turn begins was missed, and the server
\* knows of no transfer that has not been started.
LoopInv ==
    /\ pc = "check" /\ unsent => missed
    /\ rows \subseteq 1 .. started

Streams == FrameInv(inFrame, toServer) /\ FrameInv(rbuf, toClient)

HostInv == TypeInv /\ BufferInv /\ LoopInv /\ Streams

\* A packet of the host: the end of its transfer, or a part of its file.
From(p) == IF p.type = "DATA" THEN p.bytes[1][2] ELSE FileSize[p.t_id] + 1
Sound(p) ==
    /\ p.type \in {"DATA", "COMPLETE"} => p.t_id \in Transfer
    /\ p.type = "DATA" =>
         /\ Len(p.bytes) >= 1
         /\ From(p) >= 1 /\ From(p) + Len(p.bytes) <= FileSize[p.t_id] + 1
         /\ \A i \in 1 .. Len(p.bytes) : p.bytes[i] = <<p.t_id, From(p) + i - 1>>

LEMMA SizesKnown ==
  /\ Transfer = 1 .. Len(FileSize) /\ Len(FileSize) \in Nat
  /\ \A k \in Transfer : FileSize[k] \in Nat \ {0}
  /\ BufferSize \in Nat \ {0} /\ DataBytes \in Nat \ {0}
  BY SizesAssumption DEF Transfer

LEMMA HostInvInit == Init => HostInv
<1> SUFFICES ASSUME Init PROVE HostInv
  OBVIOUS
<1>1. TypeInv
  <2>1. Notice \in Pkt
    BY DEF Notice, Pkt, Types
  <2>2. [i \in 1 .. BufferSize |-> <<0, i>>] \in [1 .. BufferSize -> Nat \X Nat]
    OBVIOUS
  <2>3. /\ [k \in Transfer |-> "EMPTY"] \in [Transfer -> {"EMPTY", "ACTIVE", "COMPLETE", "CANCEL"}]
        /\ [k \in Transfer |-> << >>] \in [Transfer -> Seq(Nat \X Nat)]
    OBVIOUS
  <2>4. started \in 0 .. Len(FileSize) /\ relay \in Seq(Pkt)
    BY SizesKnown DEF Init
  <2> QED BY <2>1, <2>2, <2>3, <2>4 DEF Init, TypeInv
<1>2. BufferInv /\ LoopInv
  BY DEF Init, BufferInv, LoopInv
<1>3. Streams
  BY FrameStarts DEF Init, Streams
<1> QED BY <1>1, <1>2, <1>3 DEF HostInv

\* The packet read_from_file makes is the part of the file that follows what
\* has been sent.
LEMMA SendDataMakes ==
  ASSUME HostInv, SendData
  PROVE  /\ hosting # 0 /\ hosting = started /\ hosting \in Transfer
         /\ wbuf' \in Pkt /\ Sound(wbuf')
         /\ wbuf'.type = "DATA" /\ wbuf'.t_id = hosting
         /\ From(wbuf') = Reach + 1 /\ Reach' = Reach + Len(wbuf'.bytes)
         /\ Reach \in Nat /\ Reach' <= FileSize[hosting]
         /\ fpos' \in Nat /\ buf_len' \in Nat /\ buf_cnt' \in Nat
         /\ buf' \in [1 .. BufferSize -> Nat \X Nat]
         /\ BufferInv'
<1> DEFINE n     == IF buf_len = 0 THEN Readable ELSE 0
           bytes == [i \in 1 .. BufferSize |->
                       IF i <= n THEN File(hosting)[fpos + i] ELSE buf[i]]
           left  == buf_len + n
           from  == IF buf_len = 0 THEN 0 ELSE buf_cnt
           send  == Min({left, DataBytes})
           part  == SubSeq(bytes, from + 1, from + send)
           size  == FileSize[hosting]
<1>1. /\ hosting # 0 /\ left > 0
      /\ Convert(Data(hosting, part))
      /\ buf' = bytes /\ fpos' = fpos + n
      /\ buf_len' = left - send /\ buf_cnt' = from + send
      /\ hosting' = hosting
  BY DEF SendData
<1>2. /\ hosting = started /\ hosting \in Transfer
      /\ fpos \in Nat /\ buf_len \in Nat /\ buf_cnt \in Nat
      /\ buf \in [1 .. BufferSize -> Nat \X Nat]
      /\ fpos <= size /\ buf_len <= fpos /\ buf_cnt + buf_len <= BufferSize
      /\ \A i \in 1 .. buf_len : buf[buf_cnt + i] = <<hosting, Reach + i>>
      /\ size \in Nat \ {0} /\ BufferSize \in Nat \ {0} /\ DataBytes \in Nat \ {0}
      /\ hosting \in Nat
  <2>1. started \in 0 .. Len(FileSize) /\ hosting = started
    BY <1>1 DEF HostInv, TypeInv, BufferInv
  <2>2. hosting \in Transfer
    BY <1>1, <2>1, SizesKnown
  <2>3. size \in Nat \ {0} /\ BufferSize \in Nat \ {0} /\ DataBytes \in Nat \ {0}
    BY <2>2, SizesKnown
  <2> QED BY <1>1, <2>1, <2>2, <2>3 DEF HostInv, TypeInv, BufferInv
<1>3. Readable \in Nat /\ Readable <= BufferSize /\ Readable <= size - fpos
  <2>1. size - fpos \in Nat
    BY <1>2
  <2> QED BY <1>2, <2>1, MinOf DEF Readable
<1>4. /\ n \in Nat /\ left \in Nat \ {0} /\ from \in Nat
      /\ from + left <= BufferSize /\ fpos + n <= size /\ left <= fpos + n
      /\ n = 0 \/ (buf_len = 0 /\ from = 0 /\ left = n)
      /\ Reach = fpos + n - left /\ Reach \in Nat
  BY <1>1, <1>2, <1>3 DEF Reach
<1>n. \A i \in 1 .. BufferSize : bytes[i] = IF i <= n THEN File(hosting)[fpos + i] ELSE buf[i]
  OBVIOUS
<1>f. \A i \in 1 .. size : File(hosting)[i] = <<hosting, i>>
  BY DEF File
<1>i. n = 0 => left = buf_len /\ from = buf_cnt
  BY <1>1, <1>2, <1>4
<1>b. DOMAIN bytes = 1 .. BufferSize /\ bytes = [i \in 1 .. BufferSize |-> bytes[i]]
  OBVIOUS
<1> HIDE DEF n, left, from, bytes, size
<1>5. /\ bytes \in [1 .. BufferSize -> Nat \X Nat]
      /\ \A i \in 1 .. left : bytes[from + i] = <<hosting, Reach + i>>
  <2>1. \A i \in 1 .. n : fpos + i \in 1 .. size
    BY ONLY <1>2, <1>4
  <2>2. \A i \in 1 .. n : File(hosting)[fpos + i] = <<hosting, fpos + i>>
    BY <1>f, <2>1
  <2>3. ASSUME NEW i \in 1 .. BufferSize PROVE bytes[i] \in Nat \X Nat
    <3>1. CASE i <= n
      <4>1. i \in 1 .. n
        BY <1>4, <3>1
      <4>2. bytes[i] = <<hosting, fpos + i>> /\ fpos + i \in Nat
        BY <1>2, <1>n, <2>2, <3>1, <4>1
      <4> QED BY <1>2, <4>2
    <3>2. CASE ~(i <= n)
      BY <1>2, <1>n, <3>2
    <3> QED BY <3>1, <3>2
  <2>4. ASSUME NEW i \in 1 .. left PROVE bytes[from + i] = <<hosting, Reach + i>>
    <3> DEFINE j == from + i
    <3>1. j \in 1 .. BufferSize
      BY ONLY <1>2, <1>4, i \in 1 .. left
    <3>2. CASE n = 0
      <4>1. i \in 1 .. buf_len /\ j = buf_cnt + i /\ ~(j <= n)
        BY <1>2, <1>i, <3>1, <3>2
      <4> HIDE DEF j
      <4>2. bytes[j] = buf[j]
        BY <1>n, <3>1, <4>1
      <4> QED BY <1>2, <4>1, <4>2 DEF j
    <3>3. CASE n # 0
      <4>1. from = 0 /\ left = n /\ Reach = fpos /\ i \in 1 .. n /\ j = i /\ i <= n
        BY <1>2, <1>4, <3>3
      <4>2. i \in 1 .. BufferSize
        BY <3>1, <4>1
      <4>3. bytes[i] = File(hosting)[fpos + i]
        BY <1>n, <4>1, <4>2
      <4> HIDE DEF j
      <4> QED BY <2>2, <4>1, <4>3 DEF j
    <3> QED BY <3>2, <3>3
  <2> QED BY <1>b, <2>3, <2>4
<1>6. send \in Nat /\ send >= 1 /\ send <= left
  <2>1. left \in Nat \ {0} /\ DataBytes \in Nat \ {0}
    BY <1>2, <1>4
  <2>2. send \in Nat /\ send \in {left, DataBytes} /\ send <= left
    BY <2>1, MinOf
  <2> HIDE DEF send
  <2> QED BY <2>1, <2>2
<1> HIDE DEF send
<1>7. /\ part \in Seq(Nat \X Nat) /\ Len(part) = send
      /\ \A i \in 1 .. send : part[i] = <<hosting, Reach + i>>
  <2> DEFINE lo == from + 1
             hi == from + send
  <2>1. \A i \in lo .. hi : i \in 1 .. BufferSize
    BY ONLY <1>2, <1>4, <1>6
  <2>2. \A i \in lo .. hi : bytes[i] \in Nat \X Nat
    BY <1>5, <2>1
  <2>3. /\ lo \in Int /\ hi \in Int /\ lo <= hi /\ hi - lo + 1 = send
        /\ \A i \in 1 .. send : lo + i - 1 = from + i /\ i \in 1 .. left
    BY ONLY <1>4, <1>6
  <2>4. part = SubSeq(bytes, lo, hi)
    OBVIOUS
  <2> HIDE DEF lo, hi, part
  <2>5. /\ part \in Seq(Nat \X Nat)
        /\ Len(part) = IF lo <= hi THEN hi - lo + 1 ELSE 0
        /\ \A i \in 1 .. hi - lo + 1 : part[i] = bytes[lo + i - 1]
    BY <2>2, <2>3, <2>4, SubSeqProperties
  <2> QED BY <1>5, <2>3, <2>5
<1> HIDE DEF part
<1>8. /\ wbuf' = Data(hosting, part) /\ wbuf' \in Pkt
      /\ wbuf'.type = "DATA" /\ wbuf'.t_id = hosting /\ wbuf'.bytes = part
  <2>1. wbuf' = Data(hosting, part)
    BY <1>1 DEF Convert
  <2> QED BY <1>2, <1>7, <2>1 DEF Data, Pkt, Types
<1>9. Reach' = Reach + send /\ Reach + send <= size
  <2>1. Reach' = fpos' - buf_len'
    BY DEF Reach
  <2> QED BY ONLY <1>1, <1>2, <1>4, <1>6, <2>1
<1>10. From(wbuf') = Reach + 1
  <2>1. part[1] = <<hosting, Reach + 1>>
    BY <1>6, <1>7
  <2> QED BY <1>8, <2>1 DEF From
<1>11. Sound(wbuf')
  <2> SUFFICES /\ Len(part) >= 1
               /\ Reach + 1 >= 1 /\ Reach + 1 + Len(part) <= size + 1
               /\ \A i \in 1 .. Len(part) : part[i] = <<hosting, Reach + 1 + i - 1>>
    BY <1>2, <1>8, <1>10 DEF Sound, size
  <2>1. \A i \in 1 .. send : Reach + 1 + i - 1 = Reach + i
    BY <1>4
  <2>2. \A i \in 1 .. send : part[i] = <<hosting, Reach + 1 + i - 1>>
    BY <1>7, <2>1
  <2> QED BY <1>2, <1>4, <1>6, <1>7, <1>9, <2>2
<1>12. fpos' \in Nat /\ buf_len' \in Nat /\ buf_cnt' \in Nat
  BY <1>1, <1>2, <1>4, <1>6
<1>13. BufferInv'
  <2>1. fpos' <= size /\ buf_len' <= fpos' /\ buf_cnt' + buf_len' <= BufferSize
    BY <1>1, <1>2, <1>4, <1>6
  <2>2. ASSUME NEW i \in 1 .. buf_len' PROVE buf'[buf_cnt' + i] = <<hosting, Reach' + i>>
    <3>1. send + i \in 1 .. left /\ buf_cnt' + i = from + (send + i)
          /\ Reach' + i = Reach + (send + i)
      BY <1>1, <1>4, <1>6, <1>9, <1>12
    <3> QED BY <1>1, <1>5, <3>1
  <2>3. started' = started
    BY <1>1 DEF Convert, countVars
  <2> QED BY <1>1, <1>2, <2>1, <2>2, <2>3 DEF BufferInv, size
<1> QED BY <1>1, <1>2, <1>4, <1>5, <1>7, <1>8, <1>9, <1>10, <1>11, <1>12, <1>13 DEF size

LEMMA SendDataKeeps == HostInv /\ SendData => HostInv'
<1> SUFFICES ASSUME HostInv, SendData PROVE HostInv'
  OBVIOUS
<1>0. /\ pc = "check" /\ pc' = "poll" /\ unsent' = TRUE /\ want' = TRUE
      /\ UNCHANGED <<toServer, serverVars, toClient, clientVars, countVars, missed>>
      /\ hosting' = hosting
  BY DEF SendData, Convert
<1>1. TypeInv'
  BY <1>0, SendDataMakes DEF HostInv, TypeInv, serverVars, clientVars, countVars
<1>2. BufferInv' /\ LoopInv' /\ Streams'
  BY <1>0, SendDataMakes DEF HostInv, LoopInv, Streams, serverVars, clientVars, countVars
<1> QED BY <1>1, <1>2 DEF HostInv

LEMMA SendEndMakes ==
  ASSUME HostInv, NEW type \in {"COMPLETE", "CANCEL"}, SendEnd(type)
  PROVE  /\ hosting # 0 /\ hosting = started /\ hosting \in Transfer
         /\ wbuf' \in Pkt /\ Sound(wbuf')
         /\ wbuf'.type = type /\ wbuf'.t_id = hosting
         /\ type = "COMPLETE" => Reach = FileSize[hosting]
<1>1. /\ hosting # 0 /\ wbuf' = State(type, hosting)
      /\ type = "COMPLETE" => buf_len = 0 /\ Readable = 0
  BY DEF SendEnd, Convert
<1>2. hosting = started /\ hosting \in Transfer /\ hosting \in Nat /\ fpos \in Nat
      /\ fpos <= FileSize[hosting]
  <2>1. started \in 0 .. Len(FileSize) /\ hosting = started
    BY <1>1 DEF HostInv, TypeInv, BufferInv
  <2> QED BY <1>1, <2>1, SizesKnown DEF HostInv, TypeInv, BufferInv
<1>3. /\ wbuf' \in Pkt /\ wbuf'.type = type /\ wbuf'.t_id = hosting
  BY <1>1, <1>2 DEF State, Pkt, Types
<1>4. Sound(wbuf')
  BY <1>2, <1>3 DEF Sound
<1>5. ASSUME type = "COMPLETE" PROVE Reach = FileSize[hosting]
  <2> DEFINE size == FileSize[hosting]
  <2>1. size \in Nat /\ BufferSize \in Nat \ {0} /\ size - fpos \in Nat
    BY <1>2, SizesKnown
  <2>2. Min({BufferSize, size - fpos}) = 0 /\ buf_len = 0
    BY <1>1, <1>5 DEF Readable
  <2> HIDE DEF size
  <2>3. size - fpos = 0
    BY <2>1, <2>2, MinOf
  <2>4. size = fpos
    BY ONLY <1>2, <2>1, <2>3
  <2> QED BY <1>2, <2>2, <2>4 DEF Reach, size
<1> QED BY <1>1, <1>2, <1>3, <1>4, <1>5

LEMMA SendEndKeeps ==
  ASSUME HostInv, NEW type \in {"COMPLETE", "CANCEL"}, SendEnd(type) PROVE HostInv'
<1>0. /\ pc = "check" /\ pc' = "poll" /\ unsent' = TRUE /\ want' = TRUE
      /\ UNCHANGED <<toServer, serverVars, toClient, clientVars, countVars, missed>>
      /\ hosting' = 0 /\ UNCHANGED <<fpos, buf, buf_len, buf_cnt>>
  BY DEF SendEnd, Convert
<1>1. TypeInv'
  BY <1>0, SendEndMakes DEF HostInv, TypeInv, serverVars, clientVars, countVars
<1>2. BufferInv' /\ LoopInv' /\ Streams'
  BY <1>0 DEF HostInv, BufferInv, LoopInv, Streams, serverVars, clientVars, countVars
<1> QED BY <1>1, <1>2 DEF HostInv

LEMMA AgreeKeeps == HostInv /\ Agree => HostInv'
<1> SUFFICES ASSUME HostInv, Agree PROVE HostInv'
  OBVIOUS
<1>1. /\ started' = started + 1 /\ started + 1 \in Transfer /\ started \in Nat
      /\ started < Len(FileSize)
  BY SizesKnown DEF Agree, HostInv, TypeInv
<1>2. TypeInv'
  <2>1. rows' \in SUBSET Transfer /\ recv' \in [Transfer -> {"EMPTY", "ACTIVE", "COMPLETE", "CANCEL"}]
    BY <1>1 DEF Agree, HostInv, TypeInv
  <2>2. started' \in 0 .. Len(FileSize) /\ hosting' \in Nat
    BY <1>1, SizesKnown DEF Agree
  <2> QED BY <2>1, <2>2 DEF Agree, HostInv, TypeInv, loopVars
<1>3. BufferInv'
  <2>1. FileSize[started + 1] \in Nat /\ BufferSize \in Nat
    BY <1>1, SizesKnown
  <2> QED BY <1>1, <2>1 DEF Agree, BufferInv
<1>4. LoopInv'
  <2>1. rows' \subseteq 1 .. started'
    BY <1>1 DEF Agree, HostInv, LoopInv
  <2> QED BY <2>1 DEF Agree, HostInv, LoopInv, loopVars
<1>5. Streams'
  BY DEF Agree, HostInv, Streams
<1> QED BY <1>2, <1>3, <1>4, <1>5 DEF HostInv

LEMMA TurnKeeps == HostInv /\ (WaitWork \/ NoWork \/ PollOther) => HostInv'
<1> SUFFICES ASSUME HostInv, WaitWork \/ NoWork \/ PollOther PROVE HostInv'
  OBVIOUS
<1>0. /\ UNCHANGED <<wbuf, fileVars, toServer, serverVars, toClient, clientVars, countVars>>
      /\ pc' \in {"check", "poll"} /\ unsent' \in BOOLEAN /\ want' \in BOOLEAN /\ missed' \in BOOLEAN
  BY DEF WaitWork, NoWork, PollOther, HostInv, TypeInv
<1>1. TypeInv' /\ Streams'
  BY <1>0 DEF HostInv, TypeInv, Streams, fileVars, serverVars, clientVars, countVars
<1>2. BufferInv'
  BY <1>0 DEF HostInv, BufferInv, Reach, fileVars, countVars
<1>3. LoopInv'
  <2>1. pc' = "check" /\ unsent' => missed'
    BY DEF WaitWork, NoWork, PollOther
  <2> QED BY <1>0, <2>1 DEF HostInv, LoopInv, serverVars, countVars
<1> QED BY <1>1, <1>2, <1>3 DEF HostInv

LEMMA PollWritesKeeps == HostInv /\ PollWrites => HostInv'
<1> SUFFICES ASSUME HostInv, PollWrites PROVE HostInv'
  OBVIOUS
<1>0. /\ UNCHANGED <<wbuf, want, fileVars, serverVars, toClient, clientVars, countVars, missed>>
      /\ pc' = "check" /\ unsent' = FALSE
      /\ toServer' = toServer \o (IF unsent THEN Bytes(wbuf) ELSE << >>)
  BY DEF PollWrites
<1>1. TypeInv' /\ BufferInv' /\ LoopInv'
  <2>1. TypeInv'
    BY <1>0 DEF HostInv, TypeInv, fileVars, serverVars, clientVars, countVars
  <2>2. BufferInv' /\ LoopInv'
    BY <1>0 DEF HostInv, BufferInv, LoopInv, Reach, fileVars, serverVars, countVars
  <2> QED BY <2>1, <2>2
<1>2. Streams'
  <2> DEFINE more == IF unsent THEN Bytes(wbuf) ELSE << >>
  <2>1. more \in Seq(Byte) /\ Packed(more)
    BY BytesOf, PackedEmpty DEF HostInv, TypeInv
  <2> HIDE DEF more
  <2>2. FrameInv(inFrame, toServer \o more)
    BY <2>1, FrameGrows DEF HostInv, Streams
  <2>3. toServer' = toServer \o more /\ inFrame' = inFrame /\ rbuf' = rbuf /\ toClient' = toClient
    BY <1>0 DEF more, serverVars, clientVars
  <2> QED BY <2>2, <2>3 DEF HostInv, Streams
<1> QED BY <1>1, <1>2 DEF HostInv

LEMMA SetToSeqIn == ASSUME NEW S, IsFiniteSet(S) PROVE SetToSeq(S) \in [1 .. Cardinality(S) -> S]
<1>1. PICK f : f \in Bijection(1 .. Cardinality(S), S)
  BY FS_CardinalityType DEF ExistsBijection
<1>2. f \in [1 .. Cardinality(S) -> S] /\ IsInjective(f)
  BY <1>1 DEF Bijection, Injection
<1> QED BY <1>2 DEF SetToSeq

\* What enqueue leaves in the recipient's queue.
LEMMA EnqueueKeeps ==
  ASSUME TypeInv, NEW ps \in Seq(Pkt), Enqueue(ps)
  PROVE  /\ relay' \in Seq(Pkt) /\ serverUp' \in BOOLEAN
         /\ \/ relay' = relay \o ps /\ serverUp' = serverUp
            \/ relay' = relay /\ serverUp' = FALSE
<1>1. \/ relay' = relay \o ps /\ serverUp' = serverUp
      \/ relay' = relay /\ serverUp' = FALSE
  BY DEF Enqueue
<1>2. relay \in Seq(Pkt) /\ relay \o ps \in Seq(Pkt) /\ serverUp \in BOOLEAN
  BY DEF TypeInv
<1> QED BY <1>1, <1>2

LEMMA OnePacket == ASSUME NEW p \in Pkt, NEW b PROVE (IF b THEN <<p>> ELSE << >>) \in Seq(Pkt)
  OBVIOUS

\* A turn of the server's loop over decrypt_data.
LEMMA ServerReadsStep ==
  ASSUME HostInv, ServerReads
  PROVE  /\ FrameInv(inFrame', toServer') /\ rows' \subseteq rows
         /\ relay' \in Seq(Pkt) /\ serverUp' \in BOOLEAN
         /\ \/ /\ inFrame'.bytes \o toServer' = inFrame.bytes \o toServer
               /\ UNCHANGED <<rows, relay, serverUp>>
            \/ \E p \in Pkt :
                  /\ inFrame'.bytes = << >>
                  /\ inFrame.bytes \o toServer = Bytes(p) \o toServer'
                  /\ Forward(p)
<1>1. PICK n \in 1 .. Min({Len(toServer), Asked(inFrame)}) :
        LET f == Read(inFrame, toServer, n)
        IN  /\ toServer' = SubSeq(toServer, n + 1, Len(toServer))
            /\ IF Whole(f)
               THEN Forward(Packet(f)) /\ inFrame' = NoFrame
               ELSE inFrame' = f /\ UNCHANGED <<rows, relay, serverUp>>
  BY DEF ServerReads
<1> DEFINE g == Read(inFrame, toServer, n)
           rest == SubSeq(toServer, n + 1, Len(toServer))
<1>2. FrameInv(inFrame, toServer) /\ toServer # << >> /\ TypeInv
  BY DEF HostInv, Streams, ServerReads
<1>3. /\ ~Whole(g) => FrameInv(g, rest) /\ g.bytes \o rest = inFrame.bytes \o toServer
      /\ Whole(g) => /\ Packet(g) \in Pkt /\ FrameInv(NoFrame, rest)
                     /\ inFrame.bytes \o toServer = Bytes(Packet(g)) \o rest
  BY <1>2, ReadStep
<1>4. /\ toServer' = rest
      /\ Whole(g) => Forward(Packet(g)) /\ inFrame' = NoFrame
      /\ ~Whole(g) => inFrame' = g /\ UNCHANGED <<rows, relay, serverUp>>
  BY <1>1
<1> HIDE DEF g, rest
<1>5. CASE ~Whole(g)
  BY <1>2, <1>3, <1>4, <1>5 DEF TypeInv
<1>6. CASE Whole(g)
  <2> DEFINE p == Packet(g)
  <2>1. p \in Pkt /\ Forward(p) /\ inFrame' = NoFrame /\ FrameInv(NoFrame, rest)
        /\ inFrame.bytes \o toServer = Bytes(p) \o rest
    BY <1>3, <1>4, <1>6
  <2> HIDE DEF p
  <2>2. relay' \in Seq(Pkt) /\ serverUp' \in BOOLEAN /\ rows' \subseteq rows
    <3>1. Enqueue(IF p.t_id \in rows THEN <<p>> ELSE << >>) /\ rows' \subseteq rows
      BY <2>1 DEF Forward
    <3> QED BY <1>2, <2>1, <3>1, OnePacket, EnqueueKeeps
  <2> QED BY <1>4, <2>1, <2>2, FrameStarts
<1> QED BY <1>5, <1>6

LEMMA ServerReadsKeeps == HostInv /\ ServerReads => HostInv'
<1> SUFFICES ASSUME HostInv, ServerReads PROVE HostInv'
  OBVIOUS
<1>0. UNCHANGED <<fileVars, loopVars, toClient, clientVars, countVars, missed>>
  BY DEF ServerReads
<1>1. TypeInv'
  BY <1>0, ServerReadsStep DEF HostInv, TypeInv, fileVars, loopVars, clientVars, countVars
<1>2. BufferInv' /\ LoopInv'
  BY <1>0, ServerReadsStep DEF HostInv, BufferInv, LoopInv, Reach, fileVars, loopVars, countVars
<1>3. Streams'
  BY <1>0, ServerReadsStep DEF HostInv, Streams, clientVars
<1> QED BY <1>1, <1>2, <1>3 DEF HostInv

LEMMA ServerWritesKeeps == HostInv /\ ServerWrites => HostInv'
<1> SUFFICES ASSUME HostInv, ServerWrites PROVE HostInv'
  OBVIOUS
<1>0. /\ UNCHANGED <<fileVars, loopVars, toServer, inFrame, rows, serverUp, clientVars, countVars, missed>>
      /\ relay # << >> /\ relay \in Seq(Pkt)
      /\ relay' = Tail(relay) /\ toClient' = toClient \o Bytes(Head(relay))
  BY DEF ServerWrites, HostInv, TypeInv
<1>1. Head(relay) \in Pkt /\ Tail(relay) \in Seq(Pkt)
  BY <1>0
<1>2. TypeInv' /\ BufferInv' /\ LoopInv'
  <2>1. TypeInv'
    BY <1>0, <1>1 DEF HostInv, TypeInv, fileVars, loopVars, clientVars, countVars
  <2>2. BufferInv' /\ LoopInv'
    BY <1>0 DEF HostInv, BufferInv, LoopInv, Reach, fileVars, loopVars, countVars
  <2> QED BY <2>1, <2>2
<1>3. Streams'
  <2>1. FrameInv(rbuf, toClient \o Bytes(Head(relay)))
    BY <1>1, BytesOf, FrameGrows DEF HostInv, Streams
  <2> QED BY <1>0, <2>1 DEF HostInv, Streams, clientVars
<1> QED BY <1>2, <1>3 DEF HostInv

LEMMA ServerNoticeKeeps == HostInv /\ ServerNotice => HostInv'
<1> SUFFICES ASSUME HostInv, ServerNotice PROVE HostInv'
  OBVIOUS
<1>0. /\ UNCHANGED <<fileVars, loopVars, toServer, inFrame, rows, toClient, clientVars, started, missed>>
      /\ Enqueue(<<Notice>>) /\ TypeInv
  BY DEF ServerNotice, HostInv
<1>1. relay' \in Seq(Pkt) /\ serverUp' \in BOOLEAN
  <2>1. <<Notice>> \in Seq(Pkt)
    BY DEF Notice, Pkt, Types
  <2> QED BY <1>0, <2>1, EnqueueKeeps
<1>2. TypeInv'
  BY <1>0, <1>1 DEF TypeInv, fileVars, loopVars, clientVars
<1>3. BufferInv' /\ LoopInv' /\ Streams'
  BY <1>0 DEF HostInv, BufferInv, LoopInv, Streams, Reach, fileVars, loopVars, clientVars
<1> QED BY <1>2, <1>3 DEF HostInv

\* close_client's CANCELs.
Cancels == [i \in 1 .. Cardinality(rows) |-> State("CANCEL", SetToSeq(rows)[i])]

LEMMA CancelsAre ==
  ASSUME TypeInv
  PROVE  /\ Cancels \in Seq(Pkt)
         /\ \A i \in DOMAIN Cancels : Cancels[i].type = "CANCEL"
<1>1. IsFiniteSet(rows)
  <2>1. IsFiniteSet(1 .. Len(FileSize)) /\ rows \subseteq 1 .. Len(FileSize)
    BY SizesKnown, FS_Interval DEF TypeInv
  <2> QED BY <2>1, FS_Subset
<1> DEFINE n == Cardinality(rows)
<1>2. n \in Nat /\ SetToSeq(rows) \in [1 .. n -> rows] /\ rows \subseteq Nat
  BY <1>1, SetToSeqIn, FS_CardinalityType, SizesKnown DEF TypeInv
<1> HIDE DEF n
<1>3. ASSUME NEW i \in 1 .. n PROVE State("CANCEL", SetToSeq(rows)[i]) \in Pkt
  <2>1. SetToSeq(rows)[i] \in Nat
    BY <1>2
  <2> QED BY <2>1 DEF State, Pkt, Types
<1>4. Cancels = [i \in 1 .. n |-> State("CANCEL", SetToSeq(rows)[i])]
  BY DEF Cancels, n
<1>5. Cancels \in Seq(Pkt)
  BY <1>2, <1>3, <1>4
<1>6. \A i \in DOMAIN Cancels : Cancels[i].type = "CANCEL"
  BY <1>4 DEF State
<1> QED BY <1>5, <1>6

LEMMA ReconnectKeeps == HostInv /\ Reconnect => HostInv'
<1> SUFFICES ASSUME HostInv, Reconnect PROVE HostInv'
  OBVIOUS
<1>0. /\ UNCHANGED <<buf, wbuf, toClient, clientVars, started, missed>>
      /\ hosting' = 0 /\ unsent' = FALSE /\ want' = FALSE
      /\ buf_len' = 0 /\ buf_cnt' = 0 /\ fpos' = 0 /\ pc' = "check"
      /\ toServer' = << >> /\ inFrame' = NoFrame /\ rows' = {}
      /\ Enqueue(Cancels) /\ TypeInv
  BY DEF Reconnect, HostInv, Cancels
<1>1. relay' \in Seq(Pkt) /\ serverUp' \in BOOLEAN
  BY <1>0, CancelsAre, EnqueueKeeps
<1>2. TypeInv'
  BY <1>0, <1>1 DEF TypeInv, clientVars
<1>3. BufferInv' /\ LoopInv'
  BY <1>0 DEF HostInv, BufferInv, LoopInv
<1>4. Streams'
  BY <1>0, FrameStarts DEF HostInv, Streams, clientVars
<1> QED BY <1>2, <1>3, <1>4 DEF HostInv

\* A turn of the recipient's loop of read_data.
LEMMA ClientReadsStep ==
  ASSUME HostInv, ClientReads
  PROVE  /\ FrameInv(rbuf', toClient')
         /\ \/ /\ rbuf'.bytes \o toClient' = rbuf.bytes \o toClient
               /\ UNCHANGED <<recv, out>>
            \/ \E p \in Pkt :
                  /\ rbuf'.bytes = << >>
                  /\ rbuf.bytes \o toClient = Bytes(p) \o toClient'
                  /\ Analize(p)
<1>1. PICK n \in 1 .. Min({Len(toClient), Asked(rbuf)}) :
        LET f == Read(rbuf, toClient, n)
        IN  /\ toClient' = SubSeq(toClient, n + 1, Len(toClient))
            /\ IF Whole(f) THEN Analize(Packet(f)) /\ rbuf' = NoFrame
                           ELSE rbuf' = f /\ UNCHANGED <<recv, out>>
  BY DEF ClientReads
<1> DEFINE g == Read(rbuf, toClient, n)
           rest == SubSeq(toClient, n + 1, Len(toClient))
<1>2. FrameInv(rbuf, toClient) /\ toClient # << >>
  BY DEF HostInv, Streams, ClientReads
<1>3. /\ ~Whole(g) => FrameInv(g, rest) /\ g.bytes \o rest = rbuf.bytes \o toClient
      /\ Whole(g) => /\ Packet(g) \in Pkt /\ FrameInv(NoFrame, rest)
                     /\ rbuf.bytes \o toClient = Bytes(Packet(g)) \o rest
  BY <1>2, ReadStep
<1>4. /\ toClient' = rest
      /\ Whole(g) => Analize(Packet(g)) /\ rbuf' = NoFrame
      /\ ~Whole(g) => rbuf' = g /\ UNCHANGED <<recv, out>>
  BY <1>1
<1> HIDE DEF g, rest
<1> QED BY <1>3, <1>4, FrameStarts

\* What a packet does to the recipient's row.
LEMMA AnalizeStep ==
  ASSUME TypeInv, NEW p \in Pkt, Analize(p)
  PROVE  LET k == p.t_id
         IN  \/ /\ p.type = "OK" \/ recv[k] # "ACTIVE"
                /\ recv' = recv /\ out' = out
             \/ /\ p.type = "DATA" /\ recv[k] = "ACTIVE"
                /\ recv' = recv /\ out' = [out EXCEPT ![k] = @ \o p.bytes]
             \/ /\ p.type \in {"COMPLETE", "CANCEL"} /\ recv[k] = "ACTIVE"
                /\ recv' = [recv EXCEPT ![k] = p.type] /\ out' = out
<1>1. p.type \in Types
  BY DEF Pkt
<1>2. CASE p.type = "OK" \/ recv[p.t_id] # "ACTIVE"
  BY <1>2 DEF Analize
<1>3. CASE ~(p.type = "OK" \/ recv[p.t_id] # "ACTIVE")
  <2>1. IF p.type = "DATA" THEN write_work(p) /\ UNCHANGED recv
        ELSE recv' = [recv EXCEPT ![p.t_id] = p.type] /\ UNCHANGED out
    BY <1>3 DEF Analize
  <2> QED BY <1>1, <1>3, <2>1 DEF Types, write_work
<1> QED BY <1>2, <1>3

LEMMA AnalizeTypes ==
  ASSUME TypeInv, NEW p \in Pkt, Analize(p)
  PROVE  /\ recv' \in [Transfer -> {"EMPTY", "ACTIVE", "COMPLETE", "CANCEL"}]
         /\ out' \in [Transfer -> Seq(Nat \X Nat)]
<1> DEFINE k == p.t_id
<1>0. /\ recv \in [Transfer -> {"EMPTY", "ACTIVE", "COMPLETE", "CANCEL"}]
      /\ out \in [Transfer -> Seq(Nat \X Nat)] /\ p.bytes \in Seq(Nat \X Nat)
  BY DEF TypeInv, Pkt
<1>1. CASE recv' = recv /\ out' = out
  BY <1>0, <1>1
<1>2. CASE recv' = recv /\ out' = [out EXCEPT ![k] = @ \o p.bytes]
  <2>1. k \in Transfer => out[k] \o p.bytes \in Seq(Nat \X Nat)
    BY <1>0
  <2> QED BY <1>0, <1>2, <2>1
<1>3. CASE p.type \in {"COMPLETE", "CANCEL"} /\ recv' = [recv EXCEPT ![k] = p.type] /\ out' = out
  BY <1>0, <1>3
<1> QED BY <1>1, <1>2, <1>3, AnalizeStep

LEMMA ClientReadsKeeps == HostInv /\ ClientReads => HostInv'
<1> SUFFICES ASSUME HostInv, ClientReads PROVE HostInv'
  OBVIOUS
<1>0. UNCHANGED <<fileVars, loopVars, toServer, serverVars, countVars, missed>>
  BY DEF ClientReads
<1>1. /\ recv' \in [Transfer -> {"EMPTY", "ACTIVE", "COMPLETE", "CANCEL"}]
      /\ out' \in [Transfer -> Seq(Nat \X Nat)]
  BY ClientReadsStep, AnalizeTypes DEF HostInv, TypeInv
<1>2. TypeInv'
  BY <1>0, <1>1 DEF HostInv, TypeInv, fileVars, loopVars, serverVars, countVars
<1>3. BufferInv' /\ LoopInv'
  BY <1>0 DEF HostInv, BufferInv, LoopInv, Reach, fileVars, loopVars, serverVars, countVars
<1>4. Streams'
  BY <1>0, ClientReadsStep DEF HostInv, Streams, serverVars
<1> QED BY <1>2, <1>3, <1>4 DEF HostInv

LEMMA HostInvStep == HostInv /\ [Next]_vars => HostInv'
<1> SUFFICES ASSUME HostInv, [Next]_vars PROVE HostInv'
  OBVIOUS
<1>1. CASE Agree
  BY <1>1, AgreeKeeps
<1>2. CASE HostLoop
  BY <1>2, SendDataKeeps, SendEndKeeps, TurnKeeps, PollWritesKeeps DEF HostLoop
<1>3. CASE ServerReads \/ ServerWrites \/ ServerNotice \/ Reconnect
  BY <1>3, ServerReadsKeeps, ServerWritesKeeps, ServerNoticeKeeps, ReconnectKeeps
<1>4. CASE ClientReads
  BY <1>4, ClientReadsKeeps
<1>5. CASE UNCHANGED vars
  BY <1>5 DEF HostInv, TypeInv, BufferInv, LoopInv, Streams, Reach, vars, fileVars,
              loopVars, serverVars, clientVars, countVars
<1> QED BY <1>1, <1>2, <1>3, <1>4, <1>5 DEF Next

LEMMA HostInvAlways == Spec => []HostInv
<1> QED BY HostInvInit, HostInvStep, PTL DEF Spec

\* decrypt_data of the server and read_data of the recipient find every header
\* where one was written, whatever SSL_read returns, for every size of the
\* packets, buffers and files and any number of broken connections.
THEOREM FramesAreFound == Spec => []Framed
<1>1. HostInv => Framed
  BY FrameInStep DEF HostInv, Streams, Framed
<1> QED BY <1>1, HostInvAlways, PTL

(***************************************************************************)
(* The line of packets                                                     *)
(***************************************************************************)

\* A packet is where its first byte is.
Occurs(p, L) == \E i \in DOMAIN L : L[i] = <<p, 1>>
Before(p, q, L) == \E i, j \in DOMAIN L : i < j /\ L[i] = <<p, 1>> /\ L[j] = <<q, 1>>
Mark(q) == [i \in 1 .. Len(q) |-> <<q[i], 1>>]

LEMMA OccursEmpty == \A p, q : ~Occurs(p, << >>) /\ ~Before(p, q, << >>)
  BY DEF Occurs, Before

LEMMA OccursConcat ==
  ASSUME NEW a \in Seq(Byte), NEW b \in Seq(Byte)
  PROVE  /\ a \o b \in Seq(Byte)
         /\ \A p : Occurs(p, a \o b) <=> Occurs(p, a) \/ Occurs(p, b)
         /\ \A p, q : Before(p, q, a \o b) <=>
              Before(p, q, a) \/ Before(p, q, b) \/ (Occurs(p, a) /\ Occurs(q, b))
<1> DEFINE c == a \o b
<1>0. /\ c \in Seq(Byte)
      /\ \A i \in DOMAIN a : c[i] = a[i] /\ i \in DOMAIN c
      /\ \A i \in DOMAIN b : c[Len(a) + i] = b[i] /\ Len(a) + i \in DOMAIN c
      /\ \A i \in DOMAIN c : i \in DOMAIN a \/ i - Len(a) \in DOMAIN b
  BY ConcatAt
<1>1. DOMAIN a = 1 .. Len(a) /\ DOMAIN b = 1 .. Len(b) /\ Len(a) \in Nat /\ DOMAIN c \subseteq Nat
  BY <1>0
<1> HIDE DEF c
<1>2. ASSUME NEW i \in DOMAIN c, i \notin DOMAIN a
      PROVE  /\ i - Len(a) \in DOMAIN b /\ b[i - Len(a)] = c[i]
             /\ \A h \in DOMAIN a : h < i
  <2> DEFINE j == i - Len(a)
  <2>1. j \in DOMAIN b /\ Len(a) + j = i
    BY <1>0, <1>1, <1>2
  <2> HIDE DEF j
  <2>2. c[i] = b[j]
    BY <1>0, <2>1
  <2>3. \A h \in DOMAIN a : h < i
    BY <1>1, <2>1
  <2> QED BY <2>1, <2>2, <2>3 DEF j
<1>3. ASSUME NEW p PROVE Occurs(p, c) <=> Occurs(p, a) \/ Occurs(p, b)
  <2>1. Occurs(p, c) => Occurs(p, a) \/ Occurs(p, b)
    BY <1>0, <1>2 DEF Occurs
  <2>2. Occurs(p, a) => Occurs(p, c)
    BY <1>0 DEF Occurs
  <2>3. Occurs(p, b) => Occurs(p, c)
    BY <1>0 DEF Occurs
  <2> QED BY <2>1, <2>2, <2>3
<1>4. ASSUME NEW p, NEW q
      PROVE  Before(p, q, c) <=>
               Before(p, q, a) \/ Before(p, q, b) \/ (Occurs(p, a) /\ Occurs(q, b))
  <2>1. ASSUME Before(p, q, c)
        PROVE  Before(p, q, a) \/ Before(p, q, b) \/ (Occurs(p, a) /\ Occurs(q, b))
    <3>1. PICK i \in DOMAIN c, j \in DOMAIN c : i < j /\ c[i] = <<p, 1>> /\ c[j] = <<q, 1>>
      BY <2>1 DEF Before
    <3>2. CASE i \in DOMAIN a /\ j \in DOMAIN a
      BY <1>0, <3>1, <3>2 DEF Before
    <3>3. CASE i \in DOMAIN a /\ j \notin DOMAIN a
      <4>1. b[j - Len(a)] = <<q, 1>> /\ j - Len(a) \in DOMAIN b
        BY <1>2, <3>1, <3>3
      <4>2. Occurs(q, b)
        BY <4>1 DEF Occurs
      <4>3. Occurs(p, a)
        BY <1>0, <3>1, <3>3 DEF Occurs
      <4> QED BY <4>2, <4>3
    <3>4. CASE i \notin DOMAIN a
      <4>1. j \notin DOMAIN a
        <5>1. i \in Nat /\ j \in Nat /\ ~(i \in 1 .. Len(a)) /\ i >= 1
          BY <1>0, <1>1, <3>1, <3>4
        <5> QED BY <1>1, <3>1, <5>1
      <4>2. /\ b[i - Len(a)] = <<p, 1>> /\ i - Len(a) \in DOMAIN b
            /\ b[j - Len(a)] = <<q, 1>> /\ j - Len(a) \in DOMAIN b
        BY <1>2, <3>1, <3>4, <4>1
      <4>3. i - Len(a) < j - Len(a)
        BY <1>1, <3>1
      <4> QED BY <4>2, <4>3 DEF Before
    <3> QED BY <3>2, <3>3, <3>4
  <2>2. Before(p, q, a) => Before(p, q, c)
    BY <1>0 DEF Before
  <2>3. ASSUME Before(p, q, b) PROVE Before(p, q, c)
    <3>1. PICK i \in DOMAIN b, j \in DOMAIN b : i < j /\ b[i] = <<p, 1>> /\ b[j] = <<q, 1>>
      BY <2>3 DEF Before
    <3>2. Len(a) + i < Len(a) + j
      BY <1>1, <3>1
    <3>3. /\ Len(a) + i \in DOMAIN c /\ c[Len(a) + i] = <<p, 1>>
          /\ Len(a) + j \in DOMAIN c /\ c[Len(a) + j] = <<q, 1>>
      BY <1>0, <3>1
    <3> QED BY <3>2, <3>3 DEF Before
  <2>4. ASSUME Occurs(p, a), Occurs(q, b) PROVE Before(p, q, c)
    <3>1. PICK i \in DOMAIN a : a[i] = <<p, 1>>
      BY <2>4 DEF Occurs
    <3>2. PICK j \in DOMAIN b : b[j] = <<q, 1>>
      BY <2>4 DEF Occurs
    <3>3. i < Len(a) + j
      BY <1>1, <3>1, <3>2
    <3>4. /\ i \in DOMAIN c /\ c[i] = <<p, 1>>
          /\ Len(a) + j \in DOMAIN c /\ c[Len(a) + j] = <<q, 1>>
      BY <1>0, <3>1, <3>2
    <3> QED BY <3>3, <3>4 DEF Before
  <2> QED BY <2>1, <2>2, <2>3, <2>4
<1> QED BY <1>0, <1>3, <1>4 DEF c

LEMMA OccursOne ==
  ASSUME NEW p
  PROVE  /\ \A q : Occurs(q, << <<p, 1>> >>) <=> q = p
         /\ \A q, r : ~Before(q, r, << <<p, 1>> >>)
<1> DEFINE L == << <<p, 1>> >>
<1>1. DOMAIN L = {1} /\ L[1] = <<p, 1>>
  OBVIOUS
<1> HIDE DEF L
<1>2. \A q : Occurs(q, L) <=> q = p
  BY <1>1 DEF Occurs
<1>3. \A q, r : ~Before(q, r, L)
  BY <1>1 DEF Before
<1> QED BY <1>2, <1>3 DEF L

LEMMA OccursBytes ==
  ASSUME NEW p \in Pkt
  PROVE  /\ \A q : Occurs(q, Bytes(p)) <=> q = p
         /\ \A q, r : ~Before(q, r, Bytes(p))
<1> DEFINE L == Bytes(p)
           n == Size(p)
<1>1. L \in Seq(Byte) /\ Len(L) = n /\ n \in Nat \ {0} /\ \A i \in 1 .. n : L[i] = <<p, i>>
  BY BytesOf, SizeType
<1> HIDE DEF L, n
<1>2. DOMAIN L = 1 .. n /\ 1 \in 1 .. n
  BY <1>1
<1>3. \A q, i : i \in DOMAIN L /\ L[i] = <<q, 1>> => i = 1 /\ q = p
  BY <1>1, <1>2
<1>4. \A q : Occurs(q, L) <=> q = p
  BY <1>1, <1>2, <1>3 DEF Occurs
<1>5. \A q, r : ~Before(q, r, L)
  BY <1>3 DEF Before
<1> QED BY <1>4, <1>5 DEF L

LEMMA MarkConcat ==
  ASSUME NEW q \in Seq(Pkt), NEW o \in Seq(Pkt)
  PROVE  /\ Mark(q) \in Seq(Byte) /\ Mark(o) \in Seq(Byte)
         /\ Mark(q \o o) = Mark(q) \o Mark(o)
<1>1. /\ Mark(q) \in Seq(Byte) /\ Len(Mark(q)) = Len(q)
      /\ Mark(o) \in Seq(Byte) /\ Len(Mark(o)) = Len(o)
  BY DEF Mark, Byte
<1>2. q \o o \in Seq(Pkt) /\ Len(q \o o) = Len(q) + Len(o)
  OBVIOUS
<1>3. Mark(q \o o) \in Seq(Byte) /\ Len(Mark(q \o o)) = Len(q) + Len(o)
  BY <1>2 DEF Mark, Byte
<1>4. Mark(q) \o Mark(o) \in Seq(Byte) /\ Len(Mark(q) \o Mark(o)) = Len(q) + Len(o)
  BY <1>1
<1>5. ASSUME NEW i \in 1 .. Len(q) + Len(o) PROVE Mark(q \o o)[i] = (Mark(q) \o Mark(o))[i]
  BY <1>1, <1>2 DEF Mark
<1> QED BY <1>1, <1>3, <1>4, <1>5, SeqEqual

LEMMA MarkOne == \A p : Mark(<<p>>) = << <<p, 1>> >>
  BY DEF Mark

LEMMA MarkEmpty == Mark(<< >>) = << >>
  BY DEF Mark

NearClient == rbuf.bytes \o toClient
NearServer == inFrame.bytes \o toServer
Waiting == IF unsent THEN << <<wbuf, 1>> >> ELSE << >>

\* The packets the server has forwarded, and those and the rest.
Sent == NearClient \o Mark(relay)
Line == (NearClient \o Mark(relay)) \o (NearServer \o Waiting)

\* The packets of transfers, from the host; the server's own are left out.
HostPkt == {p \in Pkt : p.type \in {"DATA", "COMPLETE"}}

\* What a step does to a line of packets L; the line is then M.
Same(M, L) ==
    \A p, q \in HostPkt :
        (Occurs(p, M) <=> Occurs(p, L)) /\ (Before(p, q, M) <=> Before(p, q, L))
Inside(M, L) ==
    \A p, q \in HostPkt :
        (Occurs(p, M) => Occurs(p, L)) /\ (Before(p, q, M) => Before(p, q, L))
AddsLast(M, L, p) ==
    \A q, r \in HostPkt :
        /\ Occurs(q, M) <=> Occurs(q, L) \/ q = p
        /\ Before(q, r, M) <=> Before(q, r, L) \/ (Occurs(q, L) /\ r = p)
TakesFirst(M, L, p) ==
    \A q, r \in HostPkt :
        /\ Occurs(q, L) <=> Occurs(q, M) \/ q = p
        /\ Before(q, r, L) <=> Before(q, r, M) \/ (q = p /\ Occurs(r, M))

\* L is made of a and b, or of a, b, c and d.
TwoParts(L, a, b) ==
    /\ \A p : Occurs(p, L) <=> Occurs(p, a) \/ Occurs(p, b)
    /\ \A p, q : Before(p, q, L) <=>
         Before(p, q, a) \/ Before(p, q, b) \/ (Occurs(p, a) /\ Occurs(q, b))
FourParts(L, a, b, c, d) ==
    /\ \A p : Occurs(p, L) <=> Occurs(p, a) \/ Occurs(p, b) \/ Occurs(p, c) \/ Occurs(p, d)
    /\ \A p, q : Before(p, q, L) <=>
         \/ Before(p, q, a) \/ Before(p, q, b) \/ Before(p, q, c) \/ Before(p, q, d)
         \/ Occurs(p, a) /\ (Occurs(q, b) \/ Occurs(q, c) \/ Occurs(q, d))
         \/ Occurs(p, b) /\ (Occurs(q, c) \/ Occurs(q, d))
         \/ Occurs(p, c) /\ Occurs(q, d)

LEMMA LineParts ==
  ASSUME NEW a \in Seq(Byte), NEW b \in Seq(Byte), NEW c \in Seq(Byte), NEW d \in Seq(Byte)
  PROVE  TwoParts(a \o b, a, b) /\ FourParts((a \o b) \o (c \o d), a, b, c, d)
<1>1. a \o b \in Seq(Byte) /\ c \o d \in Seq(Byte)
  BY OccursConcat
<1>2. \A p : Occurs(p, a \o b) <=> Occurs(p, a) \/ Occurs(p, b)
  BY OccursConcat
<1>3. \A p, q : Before(p, q, a \o b) <=>
        Before(p, q, a) \/ Before(p, q, b) \/ (Occurs(p, a) /\ Occurs(q, b))
  BY OccursConcat
<1>4. /\ \A p : Occurs(p, c \o d) <=> Occurs(p, c) \/ Occurs(p, d)
      /\ \A p, q : Before(p, q, c \o d) <=>
           Before(p, q, c) \/ Before(p, q, d) \/ (Occurs(p, c) /\ Occurs(q, d))
  BY OccursConcat
<1> DEFINE s == a \o b
           t == c \o d
<1>5. /\ \A p : Occurs(p, s \o t) <=> Occurs(p, s) \/ Occurs(p, t)
      /\ \A p, q : Before(p, q, s \o t) <=>
           Before(p, q, s) \/ Before(p, q, t) \/ (Occurs(p, s) /\ Occurs(q, t))
  <2> HIDE DEF s, t
  <2>1. s \in Seq(Byte) /\ t \in Seq(Byte)
    BY <1>1 DEF s, t
  <2> QED BY <2>1, OccursConcat
<1> QED BY <1>2, <1>3, <1>4, <1>5 DEF TwoParts, FourParts

LEMMA PartsTyped ==
  HostInv => /\ NearClient \in Seq(Byte) /\ Mark(relay) \in Seq(Byte)
             /\ NearServer \in Seq(Byte) /\ Waiting \in Seq(Byte)
             /\ relay \in Seq(Pkt) /\ wbuf \in Pkt /\ unsent \in BOOLEAN
<1> SUFFICES ASSUME HostInv
             PROVE  /\ NearClient \in Seq(Byte) /\ Mark(relay) \in Seq(Byte)
                    /\ NearServer \in Seq(Byte) /\ Waiting \in Seq(Byte)
                    /\ relay \in Seq(Pkt) /\ wbuf \in Pkt /\ unsent \in BOOLEAN
  OBVIOUS
<1>1. rbuf.bytes \in Seq(Byte) /\ toClient \in Seq(Byte) /\ inFrame.bytes \in Seq(Byte) /\ toServer \in Seq(Byte)
  BY DEF HostInv, Streams, FrameInv, Frame
<1>2. NearClient \in Seq(Byte) /\ NearServer \in Seq(Byte)
  BY <1>1 DEF NearClient, NearServer
<1>3. relay \in Seq(Pkt) /\ wbuf \in Pkt /\ unsent \in BOOLEAN
  BY DEF HostInv, TypeInv
<1>4. Mark(relay) \in Seq(Byte)
  BY <1>3, MarkConcat
<1>5. Waiting \in Seq(Byte)
  BY <1>3 DEF Waiting, Byte
<1> QED BY <1>2, <1>3, <1>4, <1>5

\* Nothing on the way is moved.
LEMMA PartsKept ==
  ASSUME UNCHANGED <<rbuf, toClient, relay, inFrame, toServer, wbuf, unsent>>
  PROVE  Same(Sent', Sent) /\ Same(Line', Line)
<1>1. Sent' = Sent /\ Line' = Line
  BY DEF Sent, Line, NearClient, NearServer, Waiting
<1> QED BY <1>1 DEF Same

LEMMA ConvertLine ==
  ASSUME HostInv, NEW p \in Pkt, Convert(p)
  PROVE  /\ Same(Sent', Sent)
         /\ \/ AddsLast(Line', Line, p)
            \/ missed' /\ \E base : Inside(base, Line) /\ AddsLast(Line', base, p)
<1> DEFINE a == NearClient
           b == Mark(relay)
           c == NearServer
           d == Waiting
           one == << <<p, 1>> >>
           base == (a \o b) \o (c \o << >>)
<1>0. a \in Seq(Byte) /\ b \in Seq(Byte) /\ c \in Seq(Byte) /\ d \in Seq(Byte) /\ << >> \in Seq(Byte)
  BY PartsTyped
<1>1. /\ Sent = a \o b /\ Line = (a \o b) \o (c \o d)
      /\ Sent' = a \o b /\ Line' = (a \o b) \o (c \o one)
      /\ ~unsent => d = << >>
      /\ wbuf' = p /\ pc = "check" /\ missed' = missed
  BY DEF Convert, Sent, Line, NearClient, NearServer, Waiting, serverVars, clientVars
<1>2. one \in Seq(Byte)
  BY DEF Byte
<1> HIDE DEF a, b, c, d, one, base
<1>3. Same(Sent', Sent)
  BY <1>1 DEF Same
<1>4. /\ \A q : Occurs(q, one) <=> q = p
      /\ \A q, r : ~Before(q, r, one)
  BY OccursOne DEF one
<1>5. AddsLast(Line', base, p)
  <2>1. FourParts(base, a, b, c, << >>)
    BY <1>0, LineParts DEF base
  <2>2. FourParts(Line', a, b, c, one)
    BY <1>0, <1>1, <1>2, LineParts
  <2> QED BY <1>4, <2>1, <2>2, OccursEmpty DEF AddsLast, FourParts
<1>6. CASE unsent
  <2>1. missed'
    BY <1>1, <1>6 DEF HostInv, LoopInv
  <2>2. FourParts(base, a, b, c, << >>) /\ FourParts(Line, a, b, c, d)
    BY <1>0, <1>1, LineParts DEF base
  <2>3. Inside(base, Line)
    BY <2>2, OccursEmpty DEF FourParts, Inside
  <2> QED BY <1>3, <1>5, <2>1, <2>3
<1>7. CASE ~unsent
  <2>1. base = Line
    BY <1>1, <1>7 DEF base
  <2> QED BY <1>3, <1>5, <2>1
<1> QED BY <1>6, <1>7

LEMMA WaitWorkLine ==
  ASSUME HostInv, WaitWork
  PROVE  /\ Same(Sent', Sent)
         /\ Same(Line', Line) \/ (missed' /\ Inside(Line', Line))
<1> DEFINE a == NearClient
           b == Mark(relay)
           c == NearServer
           d == Waiting
<1>0. a \in Seq(Byte) /\ b \in Seq(Byte) /\ c \in Seq(Byte) /\ d \in Seq(Byte) /\ << >> \in Seq(Byte)
  BY PartsTyped
<1>1. /\ Sent = a \o b /\ Line = (a \o b) \o (c \o d)
      /\ Sent' = a \o b /\ Line' = (a \o b) \o (c \o << >>)
      /\ ~unsent => d = << >>
      /\ pc = "check" /\ missed' = missed
  BY DEF WaitWork, Sent, Line, NearClient, NearServer, Waiting, serverVars, clientVars
<1> HIDE DEF a, b, c, d
<1>2. Same(Sent', Sent)
  BY <1>1 DEF Same
<1>3. CASE unsent
  <2>1. missed'
    BY <1>1, <1>3 DEF HostInv, LoopInv
  <2>2. FourParts(Line', a, b, c, << >>) /\ FourParts(Line, a, b, c, d)
    BY <1>0, <1>1, LineParts
  <2>3. Inside(Line', Line)
    BY <2>2, OccursEmpty DEF FourParts, Inside
  <2> QED BY <1>2, <2>1, <2>3
<1>4. CASE ~unsent
  BY <1>1, <1>2, <1>4 DEF Same
<1> QED BY <1>3, <1>4

LEMMA PollWritesLine ==
  ASSUME HostInv, PollWrites PROVE Same(Sent', Sent) /\ Same(Line', Line)
<1> DEFINE a == NearClient
           b == Mark(relay)
           c == NearServer
           d == Waiting
           more == IF unsent THEN Bytes(wbuf) ELSE << >>
<1>0. a \in Seq(Byte) /\ b \in Seq(Byte) /\ c \in Seq(Byte) /\ d \in Seq(Byte) /\ << >> \in Seq(Byte)
  BY PartsTyped
<1>1. /\ Sent = a \o b /\ Line = (a \o b) \o (c \o d) /\ Sent' = a \o b
      /\ Line' = (a \o b) \o ((inFrame.bytes \o (toServer \o more)) \o << >>)
  BY DEF PollWrites, Sent, Line, NearClient, NearServer, Waiting, serverVars, clientVars
<1>2. /\ more \in Seq(Byte) /\ inFrame.bytes \in Seq(Byte) /\ toServer \in Seq(Byte)
      /\ c = inFrame.bytes \o toServer
  BY PartsTyped, BytesOf DEF HostInv, Streams, FrameInv, Frame, NearServer
<1>3. /\ \A p : Occurs(p, more) <=> Occurs(p, d)
      /\ \A p, q : ~Before(p, q, more) /\ ~Before(p, q, d)
  <2>1. CASE unsent
    BY <2>1, PartsTyped, OccursOne, OccursBytes DEF Waiting
  <2>2. CASE ~unsent
    BY <2>2, OccursEmpty DEF Waiting
  <2> QED BY <2>1, <2>2
<1> DEFINE f == inFrame.bytes
<1>4. f \in Seq(Byte) /\ c = f \o toServer
  BY <1>2
<1> HIDE DEF a, b, c, d, more, f
<1>5. f \o (toServer \o more) = c \o more
  <2>1. (f \o toServer) \o more = f \o (toServer \o more)
    BY <1>2, <1>4, ConcatAssociative
  <2> QED BY <1>4, <2>1
<1>6. Line' = (a \o b) \o ((c \o more) \o << >>)
  BY <1>1, <1>5 DEF f
<1>7. (c \o more) \in Seq(Byte) /\ (c \o more) \o << >> = c \o more
  BY <1>0, <1>2
<1>8. Line' = (a \o b) \o (c \o more)
  BY <1>6, <1>7
<1>9. Same(Line', Line)
  <2>1. FourParts(Line', a, b, c, more)
    BY <1>0, <1>2, <1>8, LineParts
  <2>2. FourParts(Line, a, b, c, d)
    BY <1>0, <1>1, LineParts
  <2> QED BY <1>3, <2>1, <2>2 DEF Same, FourParts
<1> QED BY <1>1, <1>9 DEF Same

LEMMA ServerWritesLine ==
  ASSUME HostInv, ServerWrites PROVE Same(Sent', Sent) /\ Same(Line', Line)
<1> DEFINE a == NearClient
           b == Mark(relay)
           c == NearServer
           d == Waiting
           p == Head(relay)
           one == << <<p, 1>> >>
           rest == Mark(Tail(relay))
           more == Bytes(p)
           e == rbuf.bytes
<1>0. a \in Seq(Byte) /\ b \in Seq(Byte) /\ c \in Seq(Byte) /\ d \in Seq(Byte)
  BY PartsTyped
<1>1. relay # << >> /\ relay \in Seq(Pkt) /\ p \in Pkt /\ Tail(relay) \in Seq(Pkt)
  BY PartsTyped DEF ServerWrites
<1>2. /\ relay' = Tail(relay)
      /\ toClient' = toClient \o more
      /\ rbuf' = rbuf /\ NearServer' = c /\ Waiting' = d
  BY DEF ServerWrites, clientVars, loopVars, NearServer, Waiting
<1>3. more \in Seq(Byte) /\ e \in Seq(Byte) /\ toClient \in Seq(Byte) /\ a = e \o toClient
  BY <1>1, BytesOf DEF HostInv, Streams, FrameInv, Frame, NearClient
<1>4. b = one \o rest /\ one \in Seq(Byte) /\ rest \in Seq(Byte)
  <2>1. relay = <<p>> \o Tail(relay) /\ <<p>> \in Seq(Pkt)
    BY <1>1
  <2>2. Mark(<<p>> \o Tail(relay)) = Mark(<<p>>) \o Mark(Tail(relay))
        /\ Mark(<<p>>) \in Seq(Byte) /\ Mark(Tail(relay)) \in Seq(Byte)
    BY <1>1, <2>1, MarkConcat
  <2> QED BY <2>1, <2>2, MarkOne
<1>5. NearClient' = a \o more
  <2>1. NearClient' = e \o (toClient \o more)
    BY <1>2 DEF NearClient
  <2> HIDE DEF e, more, a
  <2>2. (e \o toClient) \o more = e \o (toClient \o more)
    BY <1>3, ConcatAssociative
  <2> QED BY <1>3, <2>1, <2>2
<1>6. /\ Sent = a \o b /\ Line = (a \o b) \o (c \o d)
      /\ Sent' = (a \o more) \o rest /\ Line' = ((a \o more) \o rest) \o (c \o d)
  BY <1>2, <1>5 DEF Sent, Line
<1>7. /\ \A q : (Occurs(q, more) <=> q = p) /\ (Occurs(q, one) <=> q = p)
      /\ \A q, r : ~Before(q, r, more) /\ ~Before(q, r, one)
  BY <1>1, OccursOne, OccursBytes
<1> HIDE DEF a, b, c, d, p, one, rest, more, e
<1>8. TwoParts(b, one, rest) /\ TwoParts(a \o more, a, more)
  BY <1>0, <1>3, <1>4, LineParts
<1>9. a \o more \in Seq(Byte)
  BY <1>0, <1>3
<1>10. /\ TwoParts(Sent, a, b) /\ FourParts(Line, a, b, c, d)
       /\ TwoParts(Sent', a \o more, rest) /\ FourParts(Line', a \o more, rest, c, d)
  BY <1>0, <1>4, <1>6, <1>9, LineParts
<1>11. Same(Sent', Sent)
  BY <1>7, <1>8, <1>10 DEF Same, TwoParts
<1>12. Same(Line', Line)
  BY <1>7, <1>8, <1>10 DEF Same, TwoParts, FourParts
<1> QED BY <1>11, <1>12

\* Packets of the server's own leave the line as it is.
LEMMA OwnPackets ==
  ASSUME HostInv, NEW ps \in Seq(Pkt), \A i \in DOMAIN ps : ps[i] \notin HostPkt
  PROVE  /\ Mark(ps) \in Seq(Byte)
         /\ \A q \in HostPkt : ~Occurs(q, Mark(ps))
         /\ \A q, r \in HostPkt : ~Before(q, r, Mark(ps))
<1>1. Mark(ps) \in Seq(Byte)
  BY MarkConcat
<1>2. \A i \in DOMAIN Mark(ps) : i \in DOMAIN ps /\ Mark(ps)[i] = <<ps[i], 1>>
  BY DEF Mark
<1>3. \A q \in HostPkt : ~Occurs(q, Mark(ps))
  BY <1>2 DEF Occurs
<1>4. \A q, r \in HostPkt : ~Before(q, r, Mark(ps))
  BY <1>2 DEF Before
<1> QED BY <1>1, <1>3, <1>4

LEMMA OwnEnqueue ==
  ASSUME HostInv, NEW ps \in Seq(Pkt), \A i \in DOMAIN ps : ps[i] \notin HostPkt,
         Enqueue(ps), UNCHANGED <<rbuf, toClient>>
  PROVE  /\ Same(Sent', Sent)
         /\ NearClient' = NearClient
         /\ \E more \in Seq(Byte) :
               /\ Mark(relay') = Mark(relay) \o more
               /\ \A q \in HostPkt : ~Occurs(q, more)
               /\ \A q, r \in HostPkt : ~Before(q, r, more)
<1>0. /\ NearClient \in Seq(Byte) /\ Mark(relay) \in Seq(Byte) /\ relay \in Seq(Pkt)
      /\ NearClient' = NearClient
  BY PartsTyped DEF NearClient
<1>1. PICK more \in Seq(Byte) :
        /\ Mark(relay') = Mark(relay) \o more
        /\ \A q \in HostPkt : ~Occurs(q, more)
        /\ \A q, r \in HostPkt : ~Before(q, r, more)
  <2>1. CASE relay' = relay \o ps
    <3>1. Mark(relay') = Mark(relay) \o Mark(ps)
      BY <1>0, <2>1, MarkConcat
    <3> QED BY <3>1, OwnPackets
  <2>2. CASE relay' = relay
    <3>1. Mark(relay') = Mark(relay) \o << >> /\ << >> \in Seq(Byte)
      BY <1>0, <2>2
    <3> QED BY <3>1, OccursEmpty
  <2> QED BY <2>1, <2>2, EnqueueKeeps DEF HostInv
<1> DEFINE a == NearClient
           b == Mark(relay)
<1>2. Sent = a \o b /\ Sent' = a \o (b \o more)
  BY <1>0, <1>1 DEF Sent
<1>3. a \in Seq(Byte) /\ b \in Seq(Byte)
  BY <1>0
<1> HIDE DEF a, b
<1>4. b \o more \in Seq(Byte)
  BY <1>3
<1>5. TwoParts(b \o more, b, more) /\ TwoParts(Sent, a, b) /\ TwoParts(Sent', a, b \o more)
  BY <1>2, <1>3, <1>4, LineParts
<1>6. Same(Sent', Sent)
  BY <1>1, <1>5 DEF Same, TwoParts
<1> QED BY <1>0, <1>1, <1>6

LEMMA ServerNoticeLine ==
  ASSUME HostInv, ServerNotice PROVE Same(Sent', Sent) /\ Same(Line', Line)
<1> DEFINE a == NearClient
           b == Mark(relay)
           c == NearServer
           d == Waiting
<1>1. <<Notice>> \in Seq(Pkt) /\ \A i \in DOMAIN <<Notice>> : <<Notice>>[i] \notin HostPkt
  BY DEF Notice, Pkt, Types, HostPkt
<1>2. /\ Enqueue(<<Notice>>) /\ UNCHANGED <<rbuf, toClient>>
      /\ NearServer' = c /\ Waiting' = d
  BY DEF ServerNotice, clientVars, loopVars, NearServer, Waiting
<1>3. Same(Sent', Sent) /\ NearClient' = a
  BY <1>1, <1>2, OwnEnqueue
<1>4. PICK more \in Seq(Byte) :
        /\ Mark(relay') = b \o more
        /\ \A q \in HostPkt : ~Occurs(q, more)
        /\ \A q, r \in HostPkt : ~Before(q, r, more)
  BY <1>1, <1>2, OwnEnqueue
<1>5. a \in Seq(Byte) /\ b \in Seq(Byte) /\ c \in Seq(Byte) /\ d \in Seq(Byte)
  BY PartsTyped
<1>6. Line = (a \o b) \o (c \o d) /\ Line' = (a \o (b \o more)) \o (c \o d)
  BY <1>2, <1>3, <1>4 DEF Line
<1> HIDE DEF a, b, c, d
<1>7. b \o more \in Seq(Byte)
  BY <1>5
<1>8. /\ TwoParts(b \o more, b, more)
      /\ FourParts(Line, a, b, c, d) /\ FourParts(Line', a, b \o more, c, d)
  BY <1>5, <1>6, <1>7, LineParts
<1>9. Same(Line', Line)
  BY <1>4, <1>8 DEF Same, TwoParts, FourParts
<1> QED BY <1>3, <1>9

LEMMA ReconnectLine ==
  ASSUME HostInv, Reconnect PROVE Same(Sent', Sent) /\ Inside(Line', Line)
<1> DEFINE a == NearClient
           b == Mark(relay)
           c == NearServer
           d == Waiting
<1>1. Cancels \in Seq(Pkt) /\ \A i \in DOMAIN Cancels : Cancels[i] \notin HostPkt
  BY CancelsAre DEF HostInv, HostPkt
<1>2. /\ Enqueue(Cancels) /\ UNCHANGED <<rbuf, toClient>>
      /\ NearServer' = << >> /\ Waiting' = << >>
  BY DEF Reconnect, Cancels, clientVars, NearServer, Waiting, NoFrame
<1>3. Same(Sent', Sent) /\ NearClient' = a
  BY <1>1, <1>2, OwnEnqueue
<1>4. PICK more \in Seq(Byte) :
        /\ Mark(relay') = b \o more
        /\ \A q \in HostPkt : ~Occurs(q, more)
        /\ \A q, r \in HostPkt : ~Before(q, r, more)
  BY <1>1, <1>2, OwnEnqueue
<1>5. a \in Seq(Byte) /\ b \in Seq(Byte) /\ c \in Seq(Byte) /\ d \in Seq(Byte) /\ << >> \in Seq(Byte)
  BY PartsTyped
<1>6. /\ Line = (a \o b) \o (c \o d)
      /\ Line' = (a \o (b \o more)) \o (<< >> \o << >>)
  BY <1>2, <1>3, <1>4 DEF Line
<1> HIDE DEF a, b, c, d
<1>7. b \o more \in Seq(Byte)
  BY <1>5
<1>8. TwoParts(b \o more, b, more) /\ FourParts(Line, a, b, c, d)
  BY <1>5, <1>6, <1>7, LineParts
<1>9. FourParts(Line', a, b \o more, << >>, << >>)
  BY <1>5, <1>6, <1>7, LineParts
<1>10. Inside(Line', Line)
  BY <1>4, <1>8, <1>9, OccursEmpty DEF Inside, TwoParts, FourParts
<1> QED BY <1>3, <1>10

\* packet_data and packet_complete move the packet into the recipient's queue,
\* behind all that is there; or it is dropped, when its transfer is not in the
\* tables or the queue is full.
LEMMA ServerReadsLine ==
  ASSUME HostInv, ServerReads
  PROVE  \/ Same(Sent', Sent) /\ Same(Line', Line)
         \/ \E p \in HostPkt :
               /\ serverUp /\ p.t_id \in rows /\ Occurs(p, Line)
               /\ AddsLast(Sent', Sent, p) /\ Same(Line', Line)
               /\ \A q \in HostPkt :
                    Before(q, p, Line) => Occurs(q, Sent) \/ Before(p, p, Line)
         \/ \E p \in HostPkt :
               /\ serverUp' => p.t_id \notin rows
               /\ Same(Sent', Sent) /\ Inside(Line', Line)
               /\ \A q, r \in HostPkt : q # p /\ r # p =>
                    /\ Occurs(q, Line) => Occurs(q, Line')
                    /\ Before(q, r, Line) => Before(q, r, Line')
<1> DEFINE a == NearClient
           b == Mark(relay)
           c == NearServer
           d == Waiting
<1>0. a \in Seq(Byte) /\ b \in Seq(Byte) /\ c \in Seq(Byte) /\ d \in Seq(Byte) /\ relay \in Seq(Pkt)
  BY PartsTyped
<1>1. /\ NearClient' = a /\ Waiting' = d
      /\ Sent = a \o b /\ Line = (a \o b) \o (c \o d)
  BY DEF ServerReads, NearClient, Waiting, clientVars, loopVars, Sent, Line
<1>2. CASE /\ inFrame'.bytes \o toServer' = inFrame.bytes \o toServer
           /\ UNCHANGED <<rows, relay, serverUp>>
  <2>1. NearServer' = NearServer /\ relay' = relay
    BY <1>2 DEF NearServer
  <2>2. Sent' = Sent /\ Line' = Line
    BY <1>1, <2>1 DEF Sent, Line
  <2> QED BY <2>2 DEF Same
<1>3. ASSUME NEW p \in Pkt, inFrame'.bytes = << >>,
             inFrame.bytes \o toServer = Bytes(p) \o toServer', Forward(p)
      PROVE  \/ Same(Sent', Sent) /\ Same(Line', Line)
             \/ p \in HostPkt /\ serverUp /\ p.t_id \in rows /\ Occurs(p, Line)
                /\ AddsLast(Sent', Sent, p) /\ Same(Line', Line)
                /\ \A q \in HostPkt :
                     Before(q, p, Line) => Occurs(q, Sent) \/ Before(p, p, Line)
             \/ p \in HostPkt /\ (serverUp' => p.t_id \notin rows)
                /\ Same(Sent', Sent) /\ Inside(Line', Line)
                /\ \A q, r \in HostPkt : q # p /\ r # p =>
                     /\ Occurs(q, Line) => Occurs(q, Line')
                     /\ Before(q, r, Line) => Before(q, r, Line')
  <2> DEFINE e == Bytes(p)
             f == toServer'
  <2>1. /\ e \in Seq(Byte) /\ f \in Seq(Byte) /\ c = e \o f
        /\ NearServer' = f
    <3>1. f \in Seq(Byte)
      BY ServerReadsStep DEF FrameInv
    <3>2. NearServer' = << >> \o f
      BY <1>3 DEF NearServer
    <3> QED BY <1>3, <3>1, <3>2, BytesOf DEF NearServer
  <2>2. /\ \A q : Occurs(q, e) <=> q = p
        /\ \A q, r : ~Before(q, r, e)
    BY OccursBytes
  <2>3. Enqueue(IF p.t_id \in rows THEN <<p>> ELSE << >>)
    BY <1>3 DEF Forward
  <2>4. \/ p.t_id \in rows /\ relay' = relay \o <<p>>
        \/ relay' = relay /\ (serverUp' => p.t_id \notin rows)
    <3>1. CASE p.t_id \in rows
      <4>1. Enqueue(<<p>>)
        BY <2>3, <3>1
      <4> QED BY <3>1, <4>1 DEF Enqueue
    <3>2. CASE p.t_id \notin rows
      <4>1. Enqueue(<< >>) /\ relay \o << >> = relay
        BY <1>0, <2>3, <3>2
      <4> QED BY <3>2, <4>1 DEF Enqueue
    <3> QED BY <3>1, <3>2
  <2>5. serverUp
    BY DEF ServerReads
  <2>6. Sent' = a \o Mark(relay') /\ Line' = (a \o Mark(relay')) \o (f \o d)
    BY <1>1, <2>1 DEF Sent, Line
  <2> HIDE DEF a, b, c, d, e, f
  <2>7. TwoParts(c, e, f) /\ TwoParts(Sent, a, b) /\ FourParts(Line, a, b, c, d)
    BY <1>0, <1>1, <2>1, LineParts
  <2>8. CASE p.t_id \in rows /\ relay' = relay \o <<p>>
    <3> DEFINE one == << <<p, 1>> >>
    <3>1. Mark(relay') = b \o one /\ one \in Seq(Byte)
      <4>1. <<p>> \in Seq(Pkt)
        BY <1>3
      <4>2. Mark(relay \o <<p>>) = Mark(relay) \o Mark(<<p>>) /\ Mark(<<p>>) \in Seq(Byte)
        BY <1>0, <4>1, MarkConcat
      <4> QED BY <2>8, <4>2, MarkOne DEF b
    <3>2. /\ \A q : Occurs(q, one) <=> q = p
          /\ \A q, r : ~Before(q, r, one)
      BY OccursOne
    <3> HIDE DEF one
    <3>3. b \o one \in Seq(Byte)
      BY <1>0, <3>1
    <3>4. /\ TwoParts(b \o one, b, one) /\ TwoParts(Sent', a, b \o one)
          /\ FourParts(Line', a, b \o one, f, d)
      BY <1>0, <2>1, <2>6, <3>1, <3>3, LineParts
    <3>5. Same(Line', Line)
      BY <2>2, <2>7, <3>2, <3>4 DEF Same, TwoParts, FourParts
    <3>6. AddsLast(Sent', Sent, p)
      BY <2>7, <3>2, <3>4 DEF AddsLast, TwoParts
    <3>7. Occurs(p, Line)
      BY <2>2, <2>7 DEF TwoParts, FourParts
    <3>8. ASSUME NEW q \in HostPkt, Before(q, p, Line) PROVE Occurs(q, Sent) \/ Before(p, p, Line)
      <4>1. \/ Before(q, p, a) \/ Before(q, p, b) \/ Occurs(q, a) \/ Occurs(q, b)
            \/ Before(q, p, c) \/ Before(q, p, d) \/ (Occurs(q, c) /\ Occurs(p, d))
        BY <2>7, <3>8 DEF FourParts
      <4>2. Before(q, p, a) => Occurs(q, a)
        BY DEF Before, Occurs
      <4>3. Before(q, p, b) => Occurs(q, b)
        BY DEF Before, Occurs
      <4>4. Before(q, p, c) => Occurs(p, f)
        <5>1. Before(q, p, f) => Occurs(p, f)
          BY DEF Before, Occurs
        <5> QED BY <2>2, <2>7, <5>1 DEF TwoParts
      <4>5. Before(q, p, d) => Occurs(p, d)
        BY DEF Before, Occurs
      <4>6. Occurs(p, f) \/ Occurs(p, d) => Before(p, p, Line)
        BY <2>2, <2>7 DEF TwoParts, FourParts
      <4>7. Occurs(q, a) \/ Occurs(q, b) => Occurs(q, Sent)
        BY <2>7 DEF TwoParts
      <4> QED BY <4>1, <4>2, <4>3, <4>4, <4>5, <4>6, <4>7
    <3>9. CASE p \in HostPkt
      BY <2>5, <2>8, <3>5, <3>6, <3>7, <3>8, <3>9
    <3>10. CASE p \notin HostPkt
      BY <3>5, <3>6, <3>10 DEF AddsLast, Same
    <3> QED BY <3>9, <3>10
  <2>9. CASE relay' = relay /\ (serverUp' => p.t_id \notin rows)
    <3>1. Mark(relay') = b
      BY <2>9 DEF b
    <3>2. Sent' = Sent /\ FourParts(Line', a, b, f, d)
      BY <1>0, <1>1, <2>1, <2>6, <3>1, LineParts
    <3>3. Same(Sent', Sent)
      BY <3>2 DEF Same
    <3>4. Inside(Line', Line)
      BY <2>2, <2>7, <3>2 DEF Inside, TwoParts, FourParts
    <3>5. ASSUME NEW q, NEW r, q # p, r # p
          PROVE  /\ Occurs(q, Line) => Occurs(q, Line')
                 /\ Before(q, r, Line) => Before(q, r, Line')
      BY <2>2, <2>7, <3>2, <3>5 DEF TwoParts, FourParts
    <3>6. CASE p \in HostPkt
      BY <2>9, <3>3, <3>4, <3>5, <3>6
    <3>7. CASE p \notin HostPkt
      <4>1. Same(Line', Line)
        BY <3>4, <3>5, <3>7 DEF Same, Inside
      <4> QED BY <3>3, <4>1
    <3> QED BY <3>6, <3>7
  <2> QED BY <2>4, <2>8, <2>9
<1> QED BY <1>2, <1>3, ServerReadsStep

\* recv_data and recv_complete act on the first packet of the line.
LEMMA ClientReadsLine ==
  ASSUME HostInv, ClientReads
  PROVE  \/ Same(Sent', Sent) /\ Same(Line', Line) /\ UNCHANGED <<recv, out>>
         \/ \E p \in Pkt \ HostPkt : Same(Sent', Sent) /\ Same(Line', Line) /\ Analize(p)
         \/ \E p \in HostPkt :
               TakesFirst(Sent', Sent, p) /\ TakesFirst(Line', Line, p) /\ Analize(p)
<1> DEFINE a == NearClient
           b == Mark(relay)
           c == NearServer
           d == Waiting
<1>0. a \in Seq(Byte) /\ b \in Seq(Byte) /\ c \in Seq(Byte) /\ d \in Seq(Byte)
  BY PartsTyped
<1>1. /\ Mark(relay') = b /\ NearServer' = c /\ Waiting' = d
      /\ Sent = a \o b /\ Line = (a \o b) \o (c \o d)
  BY DEF ClientReads, NearServer, Waiting, serverVars, loopVars, Sent, Line
<1>2. CASE rbuf'.bytes \o toClient' = rbuf.bytes \o toClient /\ UNCHANGED <<recv, out>>
  <2>1. NearClient' = NearClient
    BY <1>2 DEF NearClient
  <2>2. Sent' = Sent /\ Line' = Line
    BY <1>1, <2>1 DEF Sent, Line
  <2> QED BY <1>2, <2>2 DEF Same
<1>3. ASSUME NEW p \in Pkt, rbuf'.bytes = << >>,
             rbuf.bytes \o toClient = Bytes(p) \o toClient', Analize(p)
      PROVE  \/ p \notin HostPkt /\ Same(Sent', Sent) /\ Same(Line', Line)
             \/ p \in HostPkt /\ TakesFirst(Sent', Sent, p) /\ TakesFirst(Line', Line, p)
  <2> DEFINE e == Bytes(p)
             f == toClient'
  <2>1. /\ e \in Seq(Byte) /\ f \in Seq(Byte) /\ a = e \o f
        /\ NearClient' = f
    <3>1. f \in Seq(Byte)
      BY ClientReadsStep DEF FrameInv
    <3>2. NearClient' = << >> \o f
      BY <1>3 DEF NearClient
    <3> QED BY <1>3, <3>1, <3>2, BytesOf DEF NearClient
  <2>2. /\ \A q : Occurs(q, e) <=> q = p
        /\ \A q, r : ~Before(q, r, e)
    BY OccursBytes
  <2>3. Sent' = f \o b /\ Line' = (f \o b) \o (c \o d)
    BY <1>1, <2>1 DEF Sent, Line
  <2> HIDE DEF a, b, c, d, e, f
  <2>4. /\ TwoParts(a, e, f) /\ TwoParts(Sent, a, b) /\ FourParts(Line, a, b, c, d)
        /\ TwoParts(Sent', f, b) /\ FourParts(Line', f, b, c, d)
    BY <1>0, <1>1, <2>1, <2>3, LineParts
  <2>5. \A q, r : /\ Occurs(q, Sent) <=> Occurs(q, Sent') \/ q = p
                  /\ Before(q, r, Sent) <=> Before(q, r, Sent') \/ (q = p /\ Occurs(r, Sent'))
    BY <2>2, <2>4 DEF TwoParts
  <2>6. \A q, r : /\ Occurs(q, Line) <=> Occurs(q, Line') \/ q = p
                  /\ Before(q, r, Line) <=> Before(q, r, Line') \/ (q = p /\ Occurs(r, Line'))
    BY <2>2, <2>4 DEF TwoParts, FourParts
  <2> QED BY <2>5, <2>6 DEF TakesFirst, Same
<1> QED BY <1>2, <1>3, ClientReadsStep

(***************************************************************************)
(* Order                                                                   *)
(***************************************************************************)
End(p) == From(p) + Len(p.bytes)

\* The packets of a transfer are in the order of its file, and its end is last.
Ordered ==
    /\ \A p \in HostPkt : Occurs(p, Line) => Sound(p) /\ p.t_id <= started
    /\ \A p, q \in HostPkt :
         Before(p, q, Line) /\ p.t_id = q.t_id => p.type = "DATA" /\ End(p) <= From(q)
    /\ \A p \in HostPkt :
         Occurs(p, Line) /\ p.t_id = hosting => p.type = "DATA" /\ End(p) <= Reach + 1

\* What is written comes before what is on the way and what is still to be sent.
Written ==
    \A k \in Transfer :
        /\ \A i \in 1 .. Len(out[k]) :
              /\ out[k][i][1] = k
              /\ hosting = k => out[k][i][2] <= Reach
              /\ \A p \in HostPkt : Occurs(p, Line) /\ p.t_id = k => out[k][i][2] < From(p)
        /\ \A i, j \in 1 .. Len(out[k]) : i < j => out[k][i][2] < out[k][j][2]
        /\ k > started => recv[k] = "EMPTY" /\ out[k] = << >>

LEMMA SoundNumbers ==
  ASSUME NEW p \in HostPkt, Sound(p)
  PROVE  /\ p.t_id \in Transfer /\ p.t_id \in Nat \ {0}
         /\ From(p) \in Nat \ {0} /\ From(p) <= FileSize[p.t_id] + 1
         /\ p.type # "DATA" => From(p) = FileSize[p.t_id] + 1
         /\ p.type = "DATA" =>
              /\ Len(p.bytes) \in Nat \ {0} /\ End(p) = From(p) + Len(p.bytes) /\ End(p) \in Nat
              /\ End(p) <= FileSize[p.t_id] + 1
              /\ \A i \in 1 .. Len(p.bytes) : p.bytes[i] = <<p.t_id, From(p) + i - 1>>
<1>1. /\ p.type \in {"DATA", "COMPLETE"} /\ p.t_id \in Transfer
      /\ p.bytes \in Seq(Nat \X Nat)
  BY DEF HostPkt, Pkt, Sound
<1>2. FileSize[p.t_id] \in Nat \ {0} /\ p.t_id \in Nat \ {0}
  BY <1>1, SizesKnown
<1>3. CASE p.type # "DATA"
  BY <1>1, <1>2, <1>3 DEF From
<1>4. CASE p.type = "DATA"
  <2> DEFINE b == p.bytes
             size == FileSize[p.t_id]
  <2>1. /\ Len(b) >= 1 /\ From(p) >= 1 /\ From(p) + Len(b) <= size + 1
        /\ \A i \in 1 .. Len(b) : b[i] = <<p.t_id, From(p) + i - 1>>
        /\ Len(b) \in Nat /\ From(p) = b[1][2]
    BY <1>1, <1>4 DEF Sound, From
  <2>2. From(p) \in Nat
    <3>1. b[1] \in Nat \X Nat
      BY <1>1, <2>1
    <3> QED BY <2>1, <3>1
  <2> HIDE DEF b, size
  <2>3. From(p) \in Nat \ {0} /\ Len(b) \in Nat \ {0} /\ From(p) <= size + 1
    BY <1>2, <2>1, <2>2 DEF size
  <2>4. End(p) = From(p) + Len(b)
    BY DEF End, b
  <2>5. End(p) \in Nat /\ End(p) <= size + 1
    BY ONLY <2>1, <2>3, <2>4
  <2>6. From(p) \in Nat \ {0} /\ From(p) <= FileSize[p.t_id] + 1 /\ Len(p.bytes) \in Nat \ {0}
        /\ End(p) = From(p) + Len(p.bytes) /\ End(p) <= FileSize[p.t_id] + 1
        /\ \A i \in 1 .. Len(p.bytes) : p.bytes[i] = <<p.t_id, From(p) + i - 1>>
    BY <2>1, <2>3, <2>4, <2>5, Zenon DEF b, size
  <2> QED BY <1>1, <1>2, <1>4, <2>5, <2>6, Zenon
<1> QED BY <1>3, <1>4

LEMMA SentInLine ==
  ASSUME HostInv
  PROVE  \A p, q \in HostPkt :
           (Occurs(p, Sent) => Occurs(p, Line)) /\ (Before(p, q, Sent) => Before(p, q, Line))
<1> DEFINE a == NearClient
           b == Mark(relay)
           c == NearServer
           d == Waiting
<1>1. a \in Seq(Byte) /\ b \in Seq(Byte) /\ c \in Seq(Byte) /\ d \in Seq(Byte)
  BY PartsTyped
<1>2. Sent = a \o b /\ Line = (a \o b) \o (c \o d)
  BY DEF Sent, Line
<1> HIDE DEF a, b, c, d
<1>3. TwoParts(Sent, a, b) /\ FourParts(Line, a, b, c, d)
  BY <1>1, <1>2, LineParts
<1> QED BY <1>3 DEF TwoParts, FourParts

LEMMA InsideTransitive ==
  ASSUME NEW L, NEW M, NEW N, Inside(N, M), Inside(M, L) PROVE Inside(N, L)
  BY DEF Inside

LEMMA SameInside ==
  ASSUME NEW L, NEW M, Same(M, L) PROVE Inside(M, L)
  BY DEF Inside, Same

\* Steps that only shorten the line.
LEMMA ShorterOrdered ==
  ASSUME HostInv, Ordered, Inside(Line', Line), UNCHANGED started,
         hosting' = 0 \/ (hosting' = hosting /\ Reach' = Reach)
  PROVE  Ordered'
<1>1. ASSUME NEW p \in HostPkt, Occurs(p, Line')
      PROVE  /\ Sound(p) /\ p.t_id <= started'
             /\ p.t_id = hosting' => p.type = "DATA" /\ End(p) <= Reach' + 1
  <2>1. Occurs(p, Line)
    BY <1>1 DEF Inside
  <2>2. Sound(p) /\ p.t_id <= started
    BY <2>1 DEF Ordered
  <2>3. p.t_id # 0
    BY <2>2, SoundNumbers
  <2> QED BY <2>1, <2>2, <2>3 DEF Ordered
<1>2. ASSUME NEW p \in HostPkt, NEW q \in HostPkt, Before(p, q, Line'), p.t_id = q.t_id
      PROVE  p.type = "DATA" /\ End(p) <= From(q)
  BY <1>2 DEF Inside, Ordered
<1> QED BY <1>1, <1>2 DEF Ordered

LEMMA ShorterKeeps ==
  ASSUME HostInv, Ordered, Written, Inside(Line', Line),
         UNCHANGED <<recv, out, started>>,
         hosting' = 0 \/ (hosting' = hosting /\ Reach' = Reach)
  PROVE  Ordered' /\ Written'
<1>1. Ordered'
  BY ShorterOrdered
<1>2. Written'
  <2> SUFFICES ASSUME NEW k \in Transfer
               PROVE  /\ \A i \in 1 .. Len(out[k]) :
                           /\ out[k][i][1] = k
                           /\ hosting' = k => out[k][i][2] <= Reach'
                           /\ \A p \in HostPkt :
                                Occurs(p, Line') /\ p.t_id = k => out[k][i][2] < From(p)
                      /\ \A i, j \in 1 .. Len(out[k]) : i < j => out[k][i][2] < out[k][j][2]
                      /\ k > started => recv[k] = "EMPTY" /\ out[k] = << >>
    BY DEF Written
  <2>1. k # 0
    BY SizesKnown
  <2> QED BY <2>1 DEF Written, Inside
<1> QED BY <1>1, <1>2

\* The host's next packet of its file, or the end of it.
LEMMA PutKeeps ==
  ASSUME HostInv, Ordered, Written,
         NEW base, Inside(base, Line), NEW p \in HostPkt, AddsLast(Line', base, p), Sound(p),
         p.t_id = hosting, hosting = started, hosting # 0, From(p) = Reach + 1, Reach \in Nat,
         UNCHANGED <<recv, out, started>>,
         \/ hosting' = 0
         \/ hosting' = hosting /\ p.type = "DATA" /\ Reach' \in Nat /\ Reach' + 1 = End(p)
  PROVE  Ordered' /\ Written'
<1>0. /\ From(p) \in Nat \ {0} /\ p.t_id \in Nat \ {0} /\ started \in Nat
      /\ p.type = "DATA" => End(p) \in Nat /\ End(p) > From(p)
  <2>1. started \in Nat
    BY DEF HostInv, TypeInv
  <2>2. /\ From(p) \in Nat \ {0} /\ p.t_id \in Nat \ {0}
        /\ p.type = "DATA" => /\ Len(p.bytes) \in Nat \ {0} /\ End(p) = From(p) + Len(p.bytes)
                              /\ End(p) \in Nat
    BY SoundNumbers
  <2>3. p.type = "DATA" => End(p) > From(p)
    BY ONLY <2>2
  <2> QED BY <2>1, <2>2, <2>3
<1>1. ASSUME NEW q \in HostPkt, Occurs(q, Line')
      PROVE  q = p \/ Occurs(q, Line)
  BY <1>1 DEF AddsLast, Inside
<1>2. ASSUME NEW q \in HostPkt, NEW r \in HostPkt, Before(q, r, Line')
      PROVE  Before(q, r, Line) \/ (Occurs(q, Line) /\ r = p)
  BY <1>2 DEF AddsLast, Inside
<1>3. ASSUME NEW q \in HostPkt, Occurs(q, Line)
      PROVE  /\ Sound(q) /\ q.t_id <= started /\ q.t_id # 0
             /\ q.t_id = hosting => q.type = "DATA" /\ End(q) <= Reach + 1 /\ End(q) \in Nat
  <2>1. Sound(q) /\ q.t_id <= started
    BY <1>3 DEF Ordered
  <2> QED BY <1>3, <2>1, SoundNumbers DEF Ordered
<1>4. Ordered'
  <2>1. ASSUME NEW q \in HostPkt, Occurs(q, Line')
        PROVE  /\ Sound(q) /\ q.t_id <= started'
               /\ q.t_id = hosting' => q.type = "DATA" /\ End(q) <= Reach' + 1
    <3>1. CASE q = p
      BY <1>0, <3>1
    <3>2. CASE Occurs(q, Line)
      <4>1. hosting' = hosting => Reach + 1 <= Reach' + 1
        BY <1>0
      <4>2. ASSUME q.t_id = hosting' PROVE q.type = "DATA" /\ End(q) <= Reach' + 1
        <5>1. hosting' = hosting /\ q.t_id = hosting /\ Reach' + 1 = End(p) /\ End(p) \in Nat
          BY <1>0, <1>3, <3>2, <4>2
        <5>2. q.type = "DATA" /\ End(q) <= Reach + 1 /\ End(q) \in Nat
          BY <1>3, <3>2, <5>1
        <5> QED BY <1>0, <4>1, <5>1, <5>2
      <4> QED BY <1>3, <3>2, <4>2
    <3> QED BY <1>1, <2>1, <3>1, <3>2
  <2>2. ASSUME NEW q \in HostPkt, NEW r \in HostPkt, Before(q, r, Line'), q.t_id = r.t_id
        PROVE  q.type = "DATA" /\ End(q) <= From(r)
    <3>1. CASE Before(q, r, Line)
      BY <2>2, <3>1 DEF Ordered
    <3>2. CASE Occurs(q, Line) /\ r = p
      BY <1>3, <2>2, <3>2
    <3> QED BY <1>2, <2>2, <3>1, <3>2
  <2> QED BY <2>1, <2>2 DEF Ordered
<1>5. Written'
  <2> SUFFICES ASSUME NEW k \in Transfer
               PROVE  /\ \A i \in 1 .. Len(out[k]) :
                           /\ out[k][i][1] = k
                           /\ hosting' = k => out[k][i][2] <= Reach'
                           /\ \A q \in HostPkt :
                                Occurs(q, Line') /\ q.t_id = k => out[k][i][2] < From(q)
                      /\ \A i, j \in 1 .. Len(out[k]) : i < j => out[k][i][2] < out[k][j][2]
                      /\ k > started => recv[k] = "EMPTY" /\ out[k] = << >>
    BY DEF Written
  <2>1. k # 0 /\ out[k] \in Seq(Nat \X Nat)
    <3>1. out \in [Transfer -> Seq(Nat \X Nat)]
      BY DEF HostInv, TypeInv
    <3> QED BY <3>1, SizesKnown
  <2>2. ASSUME NEW i \in 1 .. Len(out[k])
        PROVE  /\ out[k][i][1] = k
               /\ hosting' = k => out[k][i][2] <= Reach'
               /\ \A q \in HostPkt : Occurs(q, Line') /\ q.t_id = k => out[k][i][2] < From(q)
    <3>1. /\ out[k][i][1] = k /\ out[k][i][2] \in Nat
          /\ hosting = k => out[k][i][2] <= Reach
          /\ \A q \in HostPkt : Occurs(q, Line) /\ q.t_id = k => out[k][i][2] < From(q)
      <4>1. out[k][i] \in Nat \X Nat
        BY <2>1
      <4> QED BY <4>1 DEF Written
    <3>2. ASSUME hosting' = k PROVE out[k][i][2] <= Reach'
      <4>1. hosting = k /\ Reach' + 1 = End(p) /\ End(p) > Reach + 1 /\ End(p) \in Nat
        BY <1>0, <2>1, <3>2
      <4>2. Reach' \in Nat
        BY <2>1, <3>2
      <4>3. Reach' >= Reach /\ Reach \in Nat
        BY <4>1, <4>2
      <4> QED BY <3>1, <4>1, <4>2, <4>3
    <3>3. ASSUME NEW q \in HostPkt, Occurs(q, Line'), q.t_id = k PROVE out[k][i][2] < From(q)
      <4>1. CASE q = p
        BY <1>0, <3>1, <3>3, <4>1
      <4> QED BY <1>1, <3>1, <3>3, <4>1
    <3> QED BY <3>1, <3>2, <3>3
  <2> QED BY <2>2 DEF Written
<1> QED BY <1>4, <1>5

\* The recipient has taken the first packet of the line.
LEMMA TakeInside ==
  ASSUME NEW L, NEW M, NEW p \in HostPkt, TakesFirst(M, L, p)
  PROVE  Inside(M, L) /\ Occurs(p, L) /\ \A q \in HostPkt : Occurs(q, M) => Before(p, q, L)
  BY DEF TakesFirst, Inside

LEMMA TakeKeeps ==
  ASSUME HostInv, Ordered, Written, NEW p \in HostPkt, TakesFirst(Line', Line, p), Analize(p),
         UNCHANGED <<hosting, fpos, buf_len, started>>
  PROVE  Ordered' /\ Written'
<1> DEFINE t == p.t_id
<1>0. /\ Inside(Line', Line) /\ Occurs(p, Line)
      /\ \A q \in HostPkt : Occurs(q, Line') => Before(p, q, Line)
  BY TakeInside
<1>1. Reach' = Reach
  BY DEF Reach
<1>2. Ordered'
  BY <1>0, <1>1, ShorterOrdered
<1>3. /\ Sound(p) /\ t <= started /\ t \in Transfer
      /\ t = hosting => p.type = "DATA" /\ End(p) <= Reach + 1
      /\ \A q \in HostPkt : Occurs(q, Line') /\ q.t_id = t => End(p) <= From(q) /\ p.type = "DATA"
      /\ \A q \in HostPkt : Occurs(q, Line') => Sound(q)
  <2>1. Sound(p) /\ t <= started
    BY <1>0 DEF Ordered
  <2> QED BY <1>0, <2>1, SoundNumbers DEF Ordered, Inside
<1>4. /\ recv \in [Transfer -> {"EMPTY", "ACTIVE", "COMPLETE", "CANCEL"}]
      /\ out \in [Transfer -> Seq(Nat \X Nat)] /\ started \in Nat
      /\ p.bytes \in Seq(Nat \X Nat) /\ fpos \in Nat /\ buf_len \in Nat
  BY DEF HostInv, TypeInv, HostPkt, Pkt
<1> DEFINE Good(k, o, r) ==
        /\ \A i \in 1 .. Len(o) :
              /\ o[i][1] = k
              /\ hosting = k => o[i][2] <= Reach
              /\ \A q \in HostPkt : Occurs(q, Line') /\ q.t_id = k => o[i][2] < From(q)
        /\ \A i, j \in 1 .. Len(o) : i < j => o[i][2] < o[j][2]
        /\ k > started => r = "EMPTY" /\ o = << >>
<1>5. ASSUME NEW k \in Transfer PROVE Good(k, out[k], recv[k])
  BY <1>0 DEF Written, Inside
<1>6. ASSUME NEW k \in Transfer, out'[k] = out[k], recv'[k] = recv[k] \/ k = t
      PROVE  Good(k, out'[k], recv'[k])
  <2>1. k = t => ~(k > started)
    BY <1>3, <1>4, SizesKnown
  <2> QED BY <1>5, <1>6, <2>1
<1>7. CASE /\ p.type = "DATA" /\ recv[t] = "ACTIVE"
           /\ recv' = recv /\ out' = [out EXCEPT ![t] = @ \o p.bytes]
  <2> DEFINE o == out[t]
             b == p.bytes
             n == Len(o)
  <2>1. /\ \A k \in Transfer : k # t => out'[k] = out[k]
        /\ out'[t] = o \o b /\ recv' = recv
    BY <1>3, <1>4, <1>7
  <2>2. /\ o \in Seq(Nat \X Nat) /\ b \in Seq(Nat \X Nat) /\ n \in Nat
        /\ Len(b) \in Nat \ {0} /\ From(p) \in Nat \ {0} /\ End(p) = From(p) + Len(b)
        /\ \A i \in 1 .. Len(b) : b[i] = <<t, From(p) + i - 1>>
    BY <1>3, <1>4, <1>7, SoundNumbers
  <2>3. Good(t, o, recv[t])
    BY <1>3, <1>5
  <2>4. \A i \in 1 .. n : o[i][2] < From(p) /\ o[i][2] \in Nat
    <3>1. \A i \in 1 .. n : o[i] \in Nat \X Nat
      BY <2>2
    <3>2. \A i \in 1 .. n : o[i][2] < From(p)
      BY <1>0, <1>3 DEF Written
    <3> QED BY <3>1, <3>2
  <2> DEFINE w == o \o b
  <2>5. /\ Len(w) = n + Len(b)
        /\ \A i \in 1 .. n : w[i] = o[i]
        /\ \A i \in 1 .. Len(b) : w[n + i] = b[i]
    <3> HIDE DEF o, b
    <3>1. DOMAIN o = 1 .. n /\ DOMAIN b = 1 .. Len(b)
      BY <2>2
    <3>2. /\ Len(o \o b) = Len(o) + Len(b)
          /\ \A i \in DOMAIN o : (o \o b)[i] = o[i]
          /\ \A i \in DOMAIN b : (o \o b)[Len(o) + i] = b[i]
      <4> DEFINE S == Nat \X Nat
      <4>1. o \in Seq(S) /\ b \in Seq(S)
        BY <2>2
      <4> HIDE DEF S
      <4> QED BY ONLY <4>1, ConcatAt
    <3> QED BY <3>1, <3>2
  <2> HIDE DEF w
  <2>6. ASSUME NEW i \in 1 .. Len(b) PROVE w[n + i][1] = t /\ w[n + i][2] = From(p) + i - 1
    <3>1. w[n + i] = b[i] /\ b[i] = <<t, From(p) + i - 1>>
      BY <2>2, <2>5
    <3> QED BY <3>1
  <2> HIDE DEF o, b, n
  <2>7. ASSUME NEW i \in 1 .. Len(w)
        PROVE  \/ i \in 1 .. n /\ w[i] = o[i] /\ w[i][2] \in Nat
               \/ /\ i > n /\ w[i][1] = t /\ w[i][2] = From(p) + (i - n) - 1
                  /\ i - n \in 1 .. Len(b)
    <3>1. CASE i <= n
      <4>1. i \in 1 .. n
        BY <2>2, <3>1
      <4> QED BY <2>4, <2>5, <4>1
    <3>2. CASE i > n
      <4> DEFINE h == i - n
      <4>1. h \in 1 .. Len(b) /\ n + h = i
        BY <2>2, <2>5, <3>2
      <4> HIDE DEF h
      <4>2. w[n + h][1] = t /\ w[n + h][2] = From(p) + h - 1
        BY <2>6, <4>1
      <4> QED BY <3>2, <4>1, <4>2 DEF h
    <3>3. i \in Nat /\ (i <= n \/ i > n)
      BY <2>2, <2>5
    <3> QED BY <3>1, <3>2, <3>3
  <2>8. ASSUME NEW i \in 1 .. Len(w)
        PROVE  /\ w[i][1] = t
               /\ hosting = t => w[i][2] <= Reach
               /\ \A q \in HostPkt : Occurs(q, Line') /\ q.t_id = t => w[i][2] < From(q)
    <3>1. CASE i \in 1 .. n /\ w[i] = o[i]
      BY <2>3, <3>1 DEF n
    <3>2. CASE i > n /\ w[i][1] = t /\ w[i][2] = From(p) + (i - n) - 1 /\ i - n \in 1 .. Len(b)
      <4>1. w[i][2] < End(p) /\ w[i][2] \in Nat /\ End(p) \in Nat
        <5> DEFINE x == w[i][2]
                   e == End(p)
                   h == i - n
        <5>1. x = From(p) + h - 1 /\ h \in 1 .. Len(b) /\ e = From(p) + Len(b)
              /\ From(p) \in Nat \ {0} /\ Len(b) \in Nat \ {0}
          BY <2>2, <3>2
        <5> HIDE DEF x, e, h
        <5>2. x < e /\ x \in Nat /\ e \in Nat
          BY ONLY <5>1
        <5> QED BY <5>2 DEF x, e
      <4>2. hosting = t => w[i][2] <= Reach
        <5>1. Reach \in Int
          BY <1>4 DEF Reach
        <5> QED BY <1>3, <4>1, <5>1
      <4>3. ASSUME NEW q \in HostPkt, Occurs(q, Line'), q.t_id = t PROVE w[i][2] < From(q)
        <5>1. End(p) <= From(q) /\ From(q) \in Nat
          BY <1>3, <4>3, SoundNumbers
        <5> QED BY <4>1, <5>1
      <4> QED BY <3>2, <4>2, <4>3
    <3> QED BY <2>7, <3>1, <3>2
  <2>9. ASSUME NEW i \in 1 .. Len(w), NEW j \in 1 .. Len(w), i < j
        PROVE  w[i][2] < w[j][2]
    <3>1. CASE j \in 1 .. n /\ w[j] = o[j]
      <4>1. i \in 1 .. n /\ w[i] = o[i]
        BY <2>2, <2>7, <2>9, <3>1
      <4> QED BY <2>3, <2>9, <3>1, <4>1 DEF n
    <3>2. CASE j > n /\ w[j][2] = From(p) + (j - n) - 1 /\ j - n \in 1 .. Len(b)
      <4>1. CASE i \in 1 .. n /\ w[i] = o[i]
        <5>1. w[i][2] < From(p) /\ w[i][2] \in Nat
          BY <2>4, <4>1
        <5> DEFINE x == w[i][2]
                   y == w[j][2]
                   h == j - n
        <5>2. x < From(p) /\ x \in Nat /\ y = From(p) + h - 1 /\ h \in 1 .. Len(b)
              /\ From(p) \in Nat \ {0} /\ Len(b) \in Nat \ {0}
          BY <2>2, <3>2, <5>1
        <5> HIDE DEF x, y, h
        <5>3. x < y
          BY ONLY <5>2
        <5> QED BY <5>3 DEF x, y
      <4>2. CASE i > n /\ w[i][2] = From(p) + (i - n) - 1 /\ i - n \in 1 .. Len(b)
        BY <2>2, <2>9, <3>2, <4>2
      <4> QED BY <2>7, <4>1, <4>2
    <3> QED BY <2>7, <3>1, <3>2
  <2>10. Good(t, w, recv[t])
    <3>1. ~(t > started)
      BY <1>3, <1>4, SizesKnown
    <3> QED BY <2>8, <2>9, <3>1
  <2>11. \A k \in Transfer : Good(k, out'[k], recv'[k])
    <3> HIDE DEF Good
    <3>1. ASSUME NEW k \in Transfer, k # t PROVE Good(k, out'[k], recv'[k])
      BY <1>6, <2>1, <3>1
    <3>2. Good(t, out'[t], recv'[t])
      BY <2>1, <2>10 DEF w
    <3> QED BY <3>1, <3>2
  <2> QED BY <1>1, <1>2, <2>11 DEF Written
<1>8. CASE out' = out /\ \A k \in Transfer : recv'[k] = recv[k] \/ k = t
  <2>1. \A k \in Transfer : Good(k, out'[k], recv'[k])
    <3> HIDE DEF Good
    <3> QED BY <1>6, <1>8
  <2> QED BY <1>1, <1>2, <2>1 DEF Written
<1>9. \/ /\ p.type = "DATA" /\ recv[t] = "ACTIVE"
         /\ recv' = recv /\ out' = [out EXCEPT ![t] = @ \o p.bytes]
      \/ out' = out /\ \A k \in Transfer : recv'[k] = recv[k] \/ k = t
  <2>1. p \in Pkt /\ TypeInv
    BY DEF HostPkt, HostInv
  <2>2. \/ recv' = recv /\ out' = out
        \/ /\ p.type = "DATA" /\ recv[t] = "ACTIVE"
           /\ recv' = recv /\ out' = [out EXCEPT ![t] = @ \o p.bytes]
        \/ recv' = [recv EXCEPT ![t] = p.type] /\ out' = out
    BY <2>1, AnalizeStep
  <2> QED BY <1>4, <2>2
<1> QED BY <1>7, <1>8, <1>9

OrderInv == Ordered /\ Written

LEMMA OrderInit == Init => OrderInv
<1> SUFFICES ASSUME Init PROVE OrderInv
  OBVIOUS
<1>1. Line = << >>
  BY MarkEmpty DEF Init, Line, NearClient, NearServer, Waiting, NoFrame
<1>2. \A p, q : ~Occurs(p, Line) /\ ~Before(p, q, Line)
  BY <1>1, OccursEmpty
<1>3. \A k \in Transfer : out[k] = << >> /\ recv[k] = "EMPTY"
  BY DEF Init
<1> QED BY <1>2, <1>3 DEF OrderInv, Ordered, Written

\* Nothing is written or on the way of the transfer that is agreed on.
LEMMA AgreeOrdered == ASSUME HostInv, OrderInv, Agree PROVE OrderInv'
<1>1. /\ UNCHANGED <<rbuf, toClient, relay, inFrame, toServer, wbuf, unsent>>
      /\ started' = started + 1 /\ hosting' = started + 1 /\ hosting = 0
      /\ out' = out /\ recv' = [recv EXCEPT ![started + 1] = "ACTIVE"]
      /\ Reach' = 0
  BY DEF Agree, loopVars, Reach
<1>2. started \in Nat /\ started + 1 \in Transfer
      /\ recv \in [Transfer -> {"EMPTY", "ACTIVE", "COMPLETE", "CANCEL"}]
  BY SizesKnown DEF Agree, HostInv, TypeInv
<1>3. Same(Line', Line)
  BY <1>1, PartsKept
<1>4. Ordered'
  <2>1. ASSUME NEW p \in HostPkt, Occurs(p, Line')
        PROVE  Sound(p) /\ p.t_id <= started' /\ p.t_id # hosting'
    <3>1. Sound(p) /\ p.t_id <= started
      BY <1>3, <2>1 DEF Same, OrderInv, Ordered
    <3>2. p.t_id \in Nat
      BY <3>1, SoundNumbers
    <3> QED BY <1>1, <1>2, <3>1, <3>2
  <2>2. ASSUME NEW p \in HostPkt, NEW q \in HostPkt, Before(p, q, Line'), p.t_id = q.t_id
        PROVE  p.type = "DATA" /\ End(p) <= From(q)
    BY <1>3, <2>2 DEF Same, OrderInv, Ordered
  <2> QED BY <2>1, <2>2 DEF Ordered
<1>5. Written'
  <2> SUFFICES ASSUME NEW k \in Transfer
               PROVE  /\ \A i \in 1 .. Len(out'[k]) :
                           /\ out'[k][i][1] = k
                           /\ hosting' = k => out'[k][i][2] <= Reach'
                           /\ \A p \in HostPkt :
                                Occurs(p, Line') /\ p.t_id = k => out'[k][i][2] < From(p)
                      /\ \A i, j \in 1 .. Len(out'[k]) : i < j => out'[k][i][2] < out'[k][j][2]
                      /\ k > started' => recv'[k] = "EMPTY" /\ out'[k] = << >>
    BY DEF Written
  <2>1. k \in Nat
    BY SizesKnown
  <2>2. CASE k > started
    <3>1. out'[k] = << >> /\ (k > started' => recv'[k] = "EMPTY")
      BY <1>1, <1>2, <2>1, <2>2 DEF OrderInv, Written
    <3> QED BY <3>1
  <2>3. CASE ~(k > started)
    <3>1. k # hosting' /\ ~(k > started') /\ out'[k] = out[k]
      BY <1>1, <1>2, <2>1, <2>3
    <3> QED BY <1>3, <3>1 DEF Same, OrderInv, Written
  <2> QED BY <2>2, <2>3
<1> QED BY <1>4, <1>5 DEF OrderInv

LEMMA SendDataOrdered == ASSUME HostInv, OrderInv, SendData PROVE OrderInv'
<1> DEFINE p == wbuf'
<1>1. /\ hosting # 0 /\ hosting = started /\ p \in Pkt /\ Sound(p)
      /\ p.type = "DATA" /\ p.t_id = hosting
      /\ From(p) = Reach + 1 /\ Reach' = Reach + Len(p.bytes) /\ Reach \in Nat
  BY SendDataMakes
<1>2. p \in HostPkt
  BY <1>1 DEF HostPkt
<1>3. Convert(p) /\ hosting' = hosting /\ UNCHANGED <<recv, out, started>>
  BY DEF SendData, Convert, clientVars, countVars
<1>4. PICK base : Inside(base, Line) /\ AddsLast(Line', base, p)
  <2>1. Inside(Line, Line)
    BY DEF Inside
  <2> QED BY <1>1, <1>3, <2>1, ConvertLine
<1>5. Reach' \in Nat /\ Reach' + 1 = End(p)
  <2> DEFINE n == Len(p.bytes)
             e == End(p)
             r == Reach'
  <2>1. n \in Nat /\ e = From(p) + n
    BY <1>1, <1>2, SoundNumbers
  <2>2. r = Reach + n /\ From(p) = Reach + 1 /\ Reach \in Nat
    BY <1>1
  <2> HIDE DEF n, e, r
  <2>3. r \in Nat /\ r + 1 = e
    BY ONLY <2>1, <2>2
  <2> QED BY <2>3 DEF r, e
<1> HIDE DEF p
<1> QED BY <1>1, <1>2, <1>3, <1>4, <1>5, PutKeeps DEF OrderInv

LEMMA SendEndOrdered ==
  ASSUME HostInv, OrderInv, NEW type \in {"COMPLETE", "CANCEL"}, SendEnd(type) PROVE OrderInv'
<1> DEFINE p == wbuf'
<1>1. /\ hosting # 0 /\ hosting = started /\ hosting \in Transfer
      /\ p \in Pkt /\ Sound(p) /\ p.type = type /\ p.t_id = hosting
      /\ type = "COMPLETE" => Reach = FileSize[hosting]
  BY SendEndMakes
<1>2. Convert(p) /\ hosting' = 0 /\ UNCHANGED <<recv, out, started>>
  BY DEF SendEnd, Convert, clientVars, countVars
<1>3. PICK base : Inside(base, Line) /\ AddsLast(Line', base, p)
  <2>1. Inside(Line, Line)
    BY DEF Inside
  <2> QED BY <1>1, <1>2, <2>1, ConvertLine
<1> HIDE DEF p
<1>4. CASE type = "COMPLETE"
  <2>1. p \in HostPkt
    BY <1>1, <1>4 DEF HostPkt
  <2>2. From(p) = Reach + 1 /\ Reach \in Nat
    BY <1>1, <1>4, SizesKnown DEF From
  <2> QED BY <1>1, <1>2, <1>3, <2>1, <2>2, PutKeeps DEF OrderInv
<1>5. CASE type = "CANCEL"
  <2>1. p \notin HostPkt
    BY <1>1, <1>5 DEF HostPkt
  <2>2. Inside(Line', Line)
    BY <1>3, <2>1 DEF AddsLast, Inside
  <2> QED BY <1>2, <2>2, ShorterKeeps DEF OrderInv
<1> QED BY <1>4, <1>5

\* Steps that leave the files alone.
LEMMA TurnOrdered ==
  ASSUME HostInv, OrderInv,
         WaitWork \/ NoWork \/ PollWrites \/ PollOther \/ ServerReads \/ ServerWrites
           \/ ServerNotice \/ Reconnect \/ UNCHANGED vars
  PROVE  OrderInv'
<1>1. UNCHANGED <<recv, out, started>>
  BY DEF WaitWork, NoWork, PollWrites, PollOther, ServerReads, ServerWrites, ServerNotice,
         Reconnect, vars, clientVars, countVars
<1>2. hosting' = 0 \/ (hosting' = hosting /\ Reach' = Reach)
  BY DEF WaitWork, NoWork, PollWrites, PollOther, ServerReads, ServerWrites, ServerNotice,
         Reconnect, vars, fileVars, Reach
<1>3. Inside(Line', Line)
  <2>1. CASE NoWork \/ PollOther \/ UNCHANGED vars
    <3>1. UNCHANGED <<rbuf, toClient, relay, inFrame, toServer, wbuf, unsent>>
      BY <2>1 DEF NoWork, PollOther, vars, serverVars, clientVars, loopVars
    <3> QED BY <3>1, PartsKept, SameInside
  <2>2. CASE WaitWork
    BY <2>2, WaitWorkLine, SameInside
  <2>3. CASE PollWrites
    BY <2>3, PollWritesLine, SameInside
  <2>4. CASE ServerReads
    BY <2>4, ServerReadsLine, SameInside
  <2>5. CASE ServerWrites
    BY <2>5, ServerWritesLine, SameInside
  <2>6. CASE ServerNotice
    BY <2>6, ServerNoticeLine, SameInside
  <2>7. CASE Reconnect
    BY <2>7, ReconnectLine
  <2> QED BY <2>1, <2>2, <2>3, <2>4, <2>5, <2>6, <2>7
<1> QED BY <1>1, <1>2, <1>3, ShorterKeeps DEF OrderInv

LEMMA ClientReadsOrdered == ASSUME HostInv, OrderInv, ClientReads PROVE OrderInv'
<1>1. UNCHANGED <<hosting, fpos, buf_len, started>> /\ Reach' = Reach
  BY DEF ClientReads, fileVars, countVars, Reach
<1>2. CASE Same(Line', Line) /\ UNCHANGED <<recv, out>>
  BY <1>1, <1>2, SameInside, ShorterKeeps DEF OrderInv
<1>3. ASSUME NEW p \in Pkt \ HostPkt, Same(Line', Line), Analize(p) PROVE OrderInv'
  <2> DEFINE k == p.t_id
  <2>1. /\ out' = out
        /\ \/ recv' = recv
           \/ recv[k] = "ACTIVE" /\ recv' = [recv EXCEPT ![k] = p.type]
    <3>1. p \in Pkt /\ p.type # "DATA" /\ TypeInv
      BY <1>3 DEF HostPkt, HostInv
    <3> QED BY <1>3, <3>1, AnalizeStep
  <2>2. Inside(Line', Line)
    BY <1>3, SameInside
  <2>3. Ordered'
    BY <1>1, <2>2, ShorterOrdered DEF OrderInv
  <2>4. ASSUME NEW j \in Transfer, j > started PROVE recv'[j] = "EMPTY"
    <3>1. recv[j] = "EMPTY" /\ recv \in [Transfer -> {"EMPTY", "ACTIVE", "COMPLETE", "CANCEL"}]
      BY <2>4 DEF OrderInv, Written, HostInv, TypeInv
    <3> QED BY <2>1, <3>1
  <2>5. Written'
    BY <1>1, <2>1, <2>2, <2>4 DEF OrderInv, Written, Inside
  <2> QED BY <2>3, <2>5 DEF OrderInv
<1>4. ASSUME NEW p \in HostPkt, TakesFirst(Line', Line, p), Analize(p) PROVE OrderInv'
  BY <1>1, <1>4, TakeKeeps DEF OrderInv
<1> QED BY <1>2, <1>3, <1>4, ClientReadsLine

LEMMA OrderStep == HostInv /\ OrderInv /\ [Next]_vars => OrderInv'
<1> SUFFICES ASSUME HostInv, OrderInv, [Next]_vars PROVE OrderInv'
  OBVIOUS
<1>1. CASE Agree
  BY <1>1, AgreeOrdered
<1>2. CASE HostLoop
  BY <1>2, SendDataOrdered, SendEndOrdered, TurnOrdered DEF HostLoop
<1>3. CASE ServerReads \/ ServerWrites \/ ServerNotice \/ Reconnect \/ UNCHANGED vars
  BY <1>3, TurnOrdered
<1>4. CASE ClientReads
  BY <1>4, ClientReadsOrdered
<1> QED BY <1>1, <1>2, <1>3, <1>4 DEF Next

\* write_work writes a file's bytes to the file of that transfer and in its
\* order, whatever was left in the File_Manager, missed at wbuf or cancelled.
THEOREM BytesInOrder == Spec => []OwnBytesInOrder
<1>1. HostInv /\ OrderInv => OwnBytesInOrder
  <2> SUFFICES ASSUME HostInv, OrderInv, NEW k \in Transfer
               PROVE  /\ \A i \in DOMAIN out[k] : out[k][i][1] = k
                      /\ \A i, j \in DOMAIN out[k] : i < j => out[k][i][2] < out[k][j][2]
    BY DEF OwnBytesInOrder
  <2>1. out[k] \in Seq(Nat \X Nat)
    BY DEF HostInv, TypeInv
  <2>2. DOMAIN out[k] = 1 .. Len(out[k])
    BY <2>1
  <2> QED BY <2>2 DEF OrderInv, Written
<1>2. Init => OrderInv
  BY OrderInit
<1>3. HostInv /\ OrderInv /\ [Next]_vars => OrderInv'
  BY OrderStep
<1> QED BY <1>1, <1>2, <1>3, HostInvAlways, PTL DEF Spec

(***************************************************************************)
(* Nothing is left out                                                     *)
(***************************************************************************)
Carries(p, k, y) == p.type = "DATA" /\ p.t_id = k /\ From(p) <= y /\ y < End(p)

\* What precedes a packet of k in its file is written (n bytes are) or before
\* it in the line.
Closed(L, k, n) ==
    \A q \in HostPkt : Occurs(q, L) /\ q.t_id = k =>
        \A y \in 1 .. From(q) - 1 :
            y <= n \/ \E p \in HostPkt : Before(p, q, L) /\ Carries(p, k, y)

\* The first m bytes of k are written or in the line.
Known(L, k, n, m) ==
    \A y \in 1 .. m : y <= n \/ \E p \in HostPkt : Occurs(p, L) /\ Carries(p, k, y)

\* While the recipient waits nothing is missing before a packet it will get,
\* and while the server also knows the transfer, before any packet at all.
Full(k) ==
    /\ Len(out[k]) <= FileSize[k] /\ \A i \in 1 .. Len(out[k]) : out[k][i] = <<k, i>>
    /\ recv[k] = "COMPLETE" => Len(out[k]) = FileSize[k]
    /\ recv[k] = "ACTIVE" => Closed(Sent, k, Len(out[k]))
    /\ recv[k] = "ACTIVE" /\ serverUp /\ k \in rows =>
         /\ Closed(Line, k, Len(out[k]))
         /\ hosting = k => Known(Line, k, Len(out[k]), Reach)

ExactInv == ~missed => \A k \in Transfer : Full(k)

\* The same packets of transfer k are in M and L, in the same order.
SameFor(k, M, L) ==
    \A p, q \in HostPkt : p.t_id = k /\ q.t_id = k =>
        (Occurs(p, M) <=> Occurs(p, L)) /\ (Before(p, q, M) <=> Before(p, q, L))

LEMMA SameForAll ==
  ASSUME NEW L, NEW M, Same(M, L) PROVE \A k : SameFor(k, M, L)
  BY DEF Same, SameFor

LEMMA SameForOthers ==
  ASSUME NEW L, NEW M, NEW p, AddsLast(M, L, p) \/ TakesFirst(M, L, p)
  PROVE  \A k : k # p.t_id => SameFor(k, M, L)
  BY DEF AddsLast, TakesFirst, SameFor

LEMMA ClosedFor ==
  ASSUME NEW L, NEW M, NEW k, NEW n, SameFor(k, M, L), Closed(L, k, n) PROVE Closed(M, k, n)
  BY DEF SameFor, Closed, Carries

LEMMA KnownFor ==
  ASSUME NEW L, NEW M, NEW k, NEW n, NEW m, SameFor(k, M, L), Known(L, k, n, m)
  PROVE  Known(M, k, n, m)
  BY DEF SameFor, Known, Carries

\* Steps that do not concern transfer k, or after which the server no longer
\* knows it.
LEMMA FullKeeps ==
  ASSUME NEW k \in Transfer, Full(k), recv'[k] = recv[k], out'[k] = out[k],
         SameFor(k, Sent', Sent),
         serverUp' /\ k \in rows' =>
           /\ serverUp /\ k \in rows /\ SameFor(k, Line', Line)
           /\ hosting' = k => hosting = k /\ Reach' = Reach
  PROVE  Full(k)'
<1>1. recv'[k] = "ACTIVE" => Closed(Sent', k, Len(out'[k]))
  BY ClosedFor DEF Full
<1>2. ASSUME recv'[k] = "ACTIVE", serverUp', k \in rows'
      PROVE  /\ Closed(Line', k, Len(out'[k]))
             /\ hosting' = k => Known(Line', k, Len(out'[k]), Reach')
  <2>1. /\ Closed(Line, k, Len(out[k])) /\ SameFor(k, Line', Line)
        /\ hosting' = k => Known(Line, k, Len(out[k]), Reach) /\ Reach' = Reach
    BY <1>2 DEF Full
  <2> QED BY <2>1, ClosedFor, KnownFor
<1> QED BY <1>1, <1>2 DEF Full

\* The recipient's row is closed by a cancel.
LEMMA FullCancelled ==
  ASSUME NEW k \in Transfer, Full(k), recv'[k] = "CANCEL", out'[k] = out[k] PROVE Full(k)'
  BY DEF Full

LEMMA ExactInit == Init => ExactInv
<1> SUFFICES ASSUME Init, NEW k \in Transfer PROVE Full(k)
  BY DEF ExactInv
<1>1. out[k] = << >> /\ recv[k] = "EMPTY" /\ FileSize[k] \in Nat
  BY SizesKnown DEF Init
<1> QED BY <1>1 DEF Full

LEMMA AgreeExact == ASSUME HostInv, OrderInv, ExactInv, Agree PROVE ExactInv'
<1> SUFFICES ASSUME ~missed, NEW k \in Transfer PROVE Full(k)'
  BY DEF ExactInv, Agree
<1>1. /\ UNCHANGED <<rbuf, toClient, relay, inFrame, toServer, wbuf, unsent>>
      /\ started' = started + 1 /\ hosting' = started + 1
      /\ out' = out /\ recv' = [recv EXCEPT ![started + 1] = "ACTIVE"]
      /\ rows' = rows \cup {started + 1} /\ serverUp' = serverUp
      /\ Reach' = 0
  BY DEF Agree, loopVars, Reach
<1>2. Same(Sent', Sent) /\ Same(Line', Line)
  BY <1>1, PartsKept
<1>3. /\ started \in Nat /\ started + 1 \in Transfer /\ k \in Nat
      /\ recv \in [Transfer -> {"EMPTY", "ACTIVE", "COMPLETE", "CANCEL"}]
      /\ FileSize[k] \in Nat
  BY SizesKnown DEF Agree, HostInv, TypeInv
<1>4. CASE k # started + 1
  <2>1. recv'[k] = recv[k] /\ out'[k] = out[k] /\ hosting' # k /\ (k \in rows' => k \in rows)
    BY <1>1, <1>3, <1>4
  <2>2. SameFor(k, Sent', Sent) /\ SameFor(k, Line', Line)
    BY <1>2, SameForAll
  <2>3. Full(k)
    BY DEF ExactInv
  <2> QED BY <1>1, <2>1, <2>2, <2>3, FullKeeps
<1>5. CASE k = started + 1
  <2>1. out'[k] = << >> /\ recv'[k] = "ACTIVE"
    BY <1>1, <1>3, <1>5 DEF OrderInv, Written
  <2>2. \A q \in HostPkt : Occurs(q, Line) => q.t_id # k
    <3>1. \A q \in HostPkt : Occurs(q, Line) => Sound(q) /\ q.t_id <= started
      BY DEF OrderInv, Ordered
    <3>2. \A q \in HostPkt : Sound(q) => q.t_id \in Nat
      BY SoundNumbers
    <3> QED BY <1>3, <1>5, <3>1, <3>2
  <2>3. \A q \in HostPkt : (Occurs(q, Line') => q.t_id # k) /\ (Occurs(q, Sent') => q.t_id # k)
    BY <1>2, <2>2, SentInLine DEF Same
  <2>4. Closed(Line', k, 0) /\ Closed(Sent', k, 0) /\ Known(Line', k, 0, 0)
    BY <2>3 DEF Closed, Known
  <2> QED BY <1>1, <1>3, <2>1, <2>4 DEF Full
<1> QED BY <1>4, <1>5

\* A packet is made when all that precedes it is written or in the line.
LEMMA PutFull ==
  ASSUME HostInv, NEW k \in Transfer, Full(k), NEW p \in HostPkt, Sound(p),
         Same(Sent', Sent), AddsLast(Line', Line, p),
         p.t_id = hosting, From(p) = Reach + 1, Reach \in Nat,
         UNCHANGED <<recv, out, rows, serverUp>>,
         \/ hosting' = 0
         \/ hosting' = hosting /\ p.type = "DATA" /\ Reach' \in Nat /\ Reach' + 1 = End(p)
  PROVE  Full(k)'
<1>1. SameFor(k, Sent', Sent) /\ k # 0
  BY SameForAll, SizesKnown
<1>2. CASE k # p.t_id
  <2>1. SameFor(k, Line', Line) /\ hosting' # k
    BY <1>1, <1>2, SameForOthers
  <2> QED BY <1>1, <2>1, FullKeeps
<1>3. CASE k = p.t_id
  <2> DEFINE n == Len(out[k])
  <2>1. n \in Nat
    BY DEF HostInv, TypeInv
  <2> HIDE DEF n
  <2>2. recv[k] = "ACTIVE" => Closed(Sent', k, n)
    BY <1>1, ClosedFor DEF Full, n
  <2>3. ASSUME recv[k] = "ACTIVE", serverUp, k \in rows
        PROVE  Closed(Line', k, n) /\ (hosting' = k => Known(Line', k, n, Reach'))
    <3>1. Closed(Line, k, n) /\ Known(Line, k, n, Reach)
      BY <1>3, <2>3 DEF Full, n
    <3>2. /\ \A q \in HostPkt : Occurs(q, Line') <=> Occurs(q, Line) \/ q = p
          /\ \A q, r \in HostPkt :
               Before(q, r, Line') <=> Before(q, r, Line) \/ (Occurs(q, Line) /\ r = p)
      BY DEF AddsLast
    <3>3. Closed(Line', k, n)
      <4> SUFFICES ASSUME NEW q \in HostPkt, Occurs(q, Line'), q.t_id = k,
                          NEW y \in 1 .. From(q) - 1, ~(y <= n)
                   PROVE  \E r \in HostPkt : Before(r, q, Line') /\ Carries(r, k, y)
        BY DEF Closed
      <4>1. CASE q = p
        <5>1. y \in 1 .. Reach
          BY <4>1
        <5>2. PICK r \in HostPkt : Occurs(r, Line) /\ Carries(r, k, y)
          BY <3>1, <5>1 DEF Known
        <5> QED BY <3>2, <4>1, <5>2
      <4>2. CASE Occurs(q, Line)
        BY <3>1, <3>2, <4>2 DEF Closed
      <4> QED BY <3>2, <4>1, <4>2
    <3>4. ASSUME hosting' = k PROVE Known(Line', k, n, Reach')
      <4>0. p.type = "DATA" /\ Reach' \in Nat /\ Reach' + 1 = End(p) /\ End(p) \in Nat
        BY <1>1, <3>4, SoundNumbers
      <4> SUFFICES ASSUME NEW y \in 1 .. Reach', ~(y <= n)
                   PROVE  \E r \in HostPkt : Occurs(r, Line') /\ Carries(r, k, y)
        BY DEF Known
      <4>1. CASE y <= Reach
        <5>1. y \in 1 .. Reach
          BY <4>0, <4>1
        <5> QED BY <3>1, <3>2, <5>1 DEF Known
      <4>2. CASE ~(y <= Reach)
        <5>1. From(p) <= y /\ y < End(p)
          BY <4>0, <4>2
        <5> QED BY <1>3, <3>2, <4>0, <5>1 DEF Carries
      <4> QED BY <4>1, <4>2
    <3> QED BY <3>3, <3>4
  <2> QED BY <2>2, <2>3 DEF Full, n
<1> QED BY <1>2, <1>3

LEMMA SendDataExact == ASSUME HostInv, OrderInv, ExactInv, SendData PROVE ExactInv'
<1> DEFINE p == wbuf'
<1>1. /\ hosting # 0 /\ p \in Pkt /\ Sound(p) /\ p.type = "DATA" /\ p.t_id = hosting
      /\ From(p) = Reach + 1 /\ Reach' = Reach + Len(p.bytes) /\ Reach \in Nat
  BY SendDataMakes
<1>2. p \in HostPkt
  BY <1>1 DEF HostPkt
<1>3. /\ Convert(p) /\ hosting' = hosting
      /\ UNCHANGED <<recv, out, rows, serverUp, missed>>
  BY DEF SendData, Convert, clientVars, serverVars
<1>4. Reach' \in Nat /\ Reach' + 1 = End(p)
  <2> DEFINE n == Len(p.bytes)
             e == End(p)
             r == Reach'
  <2>1. n \in Nat /\ e = From(p) + n
    BY <1>1, <1>2, SoundNumbers
  <2>2. r = Reach + n /\ From(p) = Reach + 1 /\ Reach \in Nat
    BY <1>1
  <2> HIDE DEF n, e, r
  <2>3. r \in Nat /\ r + 1 = e
    BY ONLY <2>1, <2>2
  <2> QED BY <2>3 DEF r, e
<1> HIDE DEF p
<1>5. ASSUME ~missed, NEW k \in Transfer PROVE Full(k)'
  <2>1. Same(Sent', Sent) /\ AddsLast(Line', Line, p)
    BY <1>1, <1>3, <1>5, ConvertLine
  <2>2. Full(k)
    BY <1>5 DEF ExactInv
  <2> QED BY <1>1, <1>2, <1>3, <1>4, <2>1, <2>2, PutFull
<1> QED BY <1>3, <1>5 DEF ExactInv

LEMMA SendEndExact ==
  ASSUME HostInv, OrderInv, ExactInv, NEW type \in {"COMPLETE", "CANCEL"}, SendEnd(type)
  PROVE  ExactInv'
<1> DEFINE p == wbuf'
<1>1. /\ hosting # 0 /\ hosting \in Transfer
      /\ p \in Pkt /\ Sound(p) /\ p.type = type /\ p.t_id = hosting
      /\ type = "COMPLETE" => Reach = FileSize[hosting]
  BY SendEndMakes
<1>2. /\ Convert(p) /\ hosting' = 0
      /\ UNCHANGED <<recv, out, rows, serverUp, missed>>
  BY DEF SendEnd, Convert, clientVars, serverVars
<1> HIDE DEF p
<1>3. ASSUME ~missed, NEW k \in Transfer PROVE Full(k)'
  <2>1. Same(Sent', Sent) /\ AddsLast(Line', Line, p)
    BY <1>1, <1>2, <1>3, ConvertLine
  <2>2. Full(k)
    BY <1>3 DEF ExactInv
  <2>3. CASE type = "COMPLETE"
    <3>1. p \in HostPkt
      BY <1>1, <2>3 DEF HostPkt
    <3>2. From(p) = Reach + 1 /\ Reach \in Nat
      BY <1>1, <2>3, SizesKnown DEF From
    <3> QED BY <1>1, <1>2, <2>1, <2>2, <3>1, <3>2, PutFull
  <2>4. CASE type = "CANCEL"
    <3>1. p \notin HostPkt
      BY <1>1, <2>4 DEF HostPkt
    <3>2. Same(Line', Line)
      BY <2>1, <3>1 DEF AddsLast, Same
    <3>3. SameFor(k, Sent', Sent) /\ SameFor(k, Line', Line) /\ k # 0
      BY <2>1, <3>2, SameForAll, SizesKnown
    <3> QED BY <1>2, <2>2, <3>3, FullKeeps
  <2> QED BY <2>3, <2>4
<1> QED BY <1>2, <1>3 DEF ExactInv

\* A packet is not twice in the line.
LEMMA OnceInLine ==
  ASSUME OrderInv, NEW p \in HostPkt, Occurs(p, Line) PROVE Sound(p) /\ ~Before(p, p, Line)
<1>1. Sound(p)
  BY DEF OrderInv, Ordered
<1>2. ASSUME Before(p, p, Line) PROVE FALSE
  <2>1. p.type = "DATA" /\ End(p) <= From(p)
    BY <1>2 DEF OrderInv, Ordered
  <2> DEFINE n == Len(p.bytes)
             e == End(p)
             f == From(p)
  <2>2. n \in Nat \ {0} /\ f \in Nat /\ e = f + n /\ e <= f
    BY <1>1, <2>1, SoundNumbers
  <2> HIDE DEF n, e, f
  <2> QED BY ONLY <2>2
<1> QED BY <1>1, <1>2

LEMMA ServerReadsExact == ASSUME HostInv, OrderInv, ExactInv, ServerReads PROVE ExactInv'
<1>1. /\ UNCHANGED <<recv, out, missed, hosting>> /\ Reach' = Reach
      /\ serverUp /\ rows' \subseteq rows
  BY ServerReadsStep DEF ServerReads, clientVars, fileVars, Reach
<1> SUFFICES ASSUME ~missed, NEW k \in Transfer PROVE Full(k)'
  BY <1>1 DEF ExactInv
<1>2. Full(k)
  BY DEF ExactInv
<1>3. CASE Same(Sent', Sent) /\ Same(Line', Line)
  BY <1>1, <1>2, <1>3, SameForAll, FullKeeps
<1>4. ASSUME NEW p \in HostPkt, p.t_id \in rows, Occurs(p, Line),
             AddsLast(Sent', Sent, p), Same(Line', Line),
             \A q \in HostPkt : Before(q, p, Line) => Occurs(q, Sent) \/ Before(p, p, Line)
      PROVE  Full(k)'
  <2>1. SameFor(k, Line', Line)
    BY <1>4, SameForAll
  <2>2. CASE k # p.t_id
    BY <1>1, <1>2, <1>4, <2>1, <2>2, SameForOthers, FullKeeps
  <2>3. CASE k = p.t_id
    <3> DEFINE n == Len(out[k])
    <3>1. ASSUME recv[k] = "ACTIVE" PROVE Closed(Sent', k, n)
      <4>1. Closed(Sent, k, n) /\ Closed(Line, k, n)
        BY <1>1, <1>2, <1>4, <2>3, <3>1 DEF Full
      <4> HIDE DEF n
      <4>2. /\ \A q \in HostPkt : Occurs(q, Sent') <=> Occurs(q, Sent) \/ q = p
            /\ \A q, r \in HostPkt :
                 Before(q, r, Sent') <=> Before(q, r, Sent) \/ (Occurs(q, Sent) /\ r = p)
        BY <1>4 DEF AddsLast
      <4> SUFFICES ASSUME NEW q \in HostPkt, Occurs(q, Sent'), q.t_id = k,
                          NEW y \in 1 .. From(q) - 1, ~(y <= n)
                   PROVE  \E r \in HostPkt : Before(r, q, Sent') /\ Carries(r, k, y)
        BY DEF Closed
      <4>3. CASE q = p
        <5>1. PICK r \in HostPkt : Before(r, p, Line) /\ Carries(r, k, y)
          BY <1>4, <2>3, <4>1, <4>3 DEF Closed
        <5>2. Occurs(r, Sent)
          BY <1>4, <5>1, OnceInLine
        <5> QED BY <4>2, <4>3, <5>1, <5>2
      <4>4. CASE Occurs(q, Sent)
        BY <4>1, <4>2, <4>4 DEF Closed
      <4> QED BY <4>2, <4>3, <4>4
    <3>2. ASSUME recv[k] = "ACTIVE"
          PROVE  Closed(Line', k, n) /\ (hosting = k => Known(Line', k, n, Reach))
      <4>1. Closed(Line, k, n) /\ (hosting = k => Known(Line, k, n, Reach))
        BY <1>1, <1>2, <1>4, <2>3, <3>2 DEF Full
      <4> HIDE DEF n
      <4> QED BY <2>1, <4>1, ClosedFor, KnownFor
    <3> QED BY <1>1, <1>2, <3>1, <3>2 DEF Full
  <2> QED BY <2>2, <2>3
<1>5. ASSUME NEW p \in HostPkt, serverUp' => p.t_id \notin rows,
             Same(Sent', Sent), Inside(Line', Line),
             \A q, r \in HostPkt : q # p /\ r # p =>
               /\ Occurs(q, Line) => Occurs(q, Line')
               /\ Before(q, r, Line) => Before(q, r, Line')
      PROVE  Full(k)'
  <2>1. SameFor(k, Sent', Sent)
    BY <1>5, SameForAll
  <2>2. k # p.t_id => SameFor(k, Line', Line)
    BY <1>5 DEF SameFor, Inside
  <2> QED BY <1>1, <1>2, <1>5, <2>1, <2>2, FullKeeps
<1> QED BY <1>3, <1>4, <1>5, ServerReadsLine

LEMMA TurnExact ==
  ASSUME HostInv, ExactInv,
         WaitWork \/ NoWork \/ PollWrites \/ PollOther \/ ServerWrites \/ ServerNotice
           \/ Reconnect \/ UNCHANGED vars
  PROVE  ExactInv'
<1>1. UNCHANGED <<recv, out>> /\ (missed => missed')
  <2>1. UNCHANGED <<recv, out>>
    BY DEF WaitWork, NoWork, PollWrites, PollOther, ServerWrites, ServerNotice, Reconnect, vars,
           clientVars
  <2>2. ASSUME missed PROVE missed'
    <3>1. CASE PollOther
      <4>1. missed' = (missed \/ unsent)
        BY <3>1 DEF PollOther
      <4> QED BY <2>2, <4>1, Zenon
    <3>2. CASE ~PollOther
      <4>1. missed' = missed
        BY <3>2 DEF WaitWork, NoWork, PollWrites, ServerWrites, ServerNotice, Reconnect, vars
      <4> QED BY <2>2, <4>1, Zenon
    <3> QED BY <3>1, <3>2, Zenon
  <2> QED BY <2>1, <2>2
<1> SUFFICES ASSUME ~missed', NEW k \in Transfer PROVE Full(k)'
  BY DEF ExactInv
<1>2. Full(k)
  BY <1>1 DEF ExactInv
<1>3. CASE Reconnect
  <2>1. rows' = {} /\ SameFor(k, Sent', Sent)
    BY <1>3, ReconnectLine, SameForAll DEF Reconnect
  <2> QED BY <1>1, <1>2, <2>1, FullKeeps
<1>4. CASE ~Reconnect
  <2>1. /\ rows' = rows /\ (serverUp' => serverUp)
        /\ hosting' = hosting /\ Reach' = Reach
    BY <1>4 DEF WaitWork, NoWork, PollWrites, PollOther, ServerWrites, ServerNotice, vars,
                serverVars, fileVars, Reach, Enqueue
  <2>2. Same(Sent', Sent) /\ Same(Line', Line)
    <3>1. CASE NoWork \/ PollOther \/ UNCHANGED vars
      <4>1. UNCHANGED <<rbuf, toClient, relay, inFrame, toServer, wbuf, unsent>>
        BY <3>1 DEF NoWork, PollOther, vars, serverVars, clientVars, loopVars
      <4> QED BY <4>1, PartsKept
    <3> QED BY <1>4, <3>1, WaitWorkLine, PollWritesLine, ServerWritesLine, ServerNoticeLine
  <2> QED BY <1>1, <1>2, <2>1, <2>2, SameForAll, FullKeeps
<1> QED BY <1>3, <1>4

\* The first packet of the line goes on where the recipient's file ends.
LEMMA TakenIsNext ==
  ASSUME HostInv, OrderInv, NEW p \in HostPkt, TakesFirst(Sent', Sent, p),
         Full(p.t_id), recv[p.t_id] = "ACTIVE"
  PROVE  Sound(p) /\ p.t_id \in Transfer /\ From(p) = Len(out[p.t_id]) + 1
<1> DEFINE k == p.t_id
           n == Len(out[k])
           f == From(p)
<1>1. Occurs(p, Sent) /\ Occurs(p, Line)
  BY SentInLine DEF TakesFirst
<1>2. Sound(p) /\ ~Before(p, p, Line)
  BY <1>1, OnceInLine
<1>3. k \in Transfer /\ f \in Nat \ {0}
  BY <1>2, SoundNumbers
<1>4. n \in Nat
  BY <1>3 DEF HostInv, TypeInv
<1>5. \A q \in HostPkt : ~Before(q, p, Sent)
  <2> SUFFICES ASSUME NEW q \in HostPkt, Before(q, p, Sent) PROVE FALSE
    OBVIOUS
  <2>1. Before(q, p, Sent') => Occurs(p, Sent')
    BY DEF Before, Occurs
  <2>2. Occurs(p, Sent')
    BY <2>1 DEF TakesFirst
  <2>3. Before(p, p, Sent)
    BY <2>2 DEF TakesFirst
  <2> QED BY <1>2, <2>3, SentInLine
<1>6. f <= n + 1
  <2>1. Closed(Sent, k, n)
    BY DEF Full
  <2> HIDE DEF n
  <2>2. ASSUME n + 1 \in 1 .. f - 1 PROVE FALSE
    <3>1. n + 1 <= n
      BY <1>1, <1>5, <2>1, <2>2 DEF Closed
    <3> QED BY <1>4, <3>1
  <2> QED BY <1>3, <1>4, <2>2
<1>7. n # 0 => n < f
  <2> SUFFICES ASSUME n # 0 PROVE n < f
    OBVIOUS
  <2>1. n \in 1 .. n
    BY <1>4
  <2>2. out[k][n] = <<k, n>>
    BY <2>1 DEF Full
  <2>3. out[k][n][2] < f
    BY <1>1, <1>3, <2>1 DEF OrderInv, Written
  <2> QED BY <2>2, <2>3
<1>8. f = n + 1
  <2> HIDE DEF n, f
  <2> QED BY ONLY <1>3, <1>4, <1>6, <1>7
<1> QED BY <1>2, <1>3, <1>8

\* Without its first packet the line holds what is not yet written.
LEMMA TakenClosed ==
  ASSUME NEW L, NEW M, NEW p \in HostPkt, TakesFirst(M, L, p), NEW k, NEW n \in Nat, NEW h \in Nat,
         n <= h, p.type = "DATA" => End(p) = h + 1
  PROVE  /\ Closed(L, k, n) => Closed(M, k, h)
         /\ \A m \in Int : Known(L, k, n, m) => Known(M, k, h, m)
<1>1. ASSUME NEW y \in Nat, Carries(p, k, y) PROVE y <= h
  BY <1>1 DEF Carries
<1>2. ASSUME Closed(L, k, n),
             NEW q \in HostPkt, Occurs(q, M), q.t_id = k, NEW y \in 1 .. From(q) - 1, ~(y <= h)
      PROVE  \E r \in HostPkt : Before(r, q, M) /\ Carries(r, k, y)
  <2>1. Occurs(q, L) /\ y \in Nat /\ ~(y <= n)
    BY <1>2 DEF TakesFirst
  <2>2. PICK r \in HostPkt : Before(r, q, L) /\ Carries(r, k, y)
    BY <1>2, <2>1 DEF Closed
  <2>3. Before(r, q, M) \/ r = p
    BY <2>2 DEF TakesFirst
  <2> QED BY <1>1, <1>2, <2>1, <2>2, <2>3
<1>3. ASSUME NEW m \in Int, Known(L, k, n, m), NEW y \in 1 .. m, ~(y <= h)
      PROVE  \E r \in HostPkt : Occurs(r, M) /\ Carries(r, k, y)
  <2>1. y \in Nat /\ ~(y <= n)
    BY <1>3
  <2>2. PICK r \in HostPkt : Occurs(r, L) /\ Carries(r, k, y)
    BY <1>3, <2>1 DEF Known
  <2>3. Occurs(r, M) \/ r = p
    BY <2>2 DEF TakesFirst
  <2> QED BY <1>1, <1>3, <2>1, <2>2, <2>3
<1> QED BY <1>2, <1>3 DEF Closed, Known

\* recv_data appends the bytes that come next: f has those of k behind the
\* first m.
PartOf(k, f, m) == \A i \in 1 .. Len(f) : f[i] = <<k, m + i>>

LEMMA WriteNext ==
  ASSUME NEW k, NEW S, NEW f \in Seq(S), NEW b \in Seq(S),
         PartOf(k, f, 0), PartOf(k, b, Len(f))
  PROVE  Len(f \o b) = Len(f) + Len(b) /\ PartOf(k, f \o b, 0)
<1>2. DOMAIN f = 1 .. Len(f) /\ DOMAIN b = 1 .. Len(b) /\ Len(f) \in Nat /\ Len(b) \in Nat
  OBVIOUS
<1>3. /\ Len(f \o b) = Len(f) + Len(b)
      /\ \A i \in DOMAIN f : (f \o b)[i] = f[i]
      /\ \A i \in DOMAIN b : (f \o b)[Len(f) + i] = b[i]
  BY ONLY ConcatAt
<1>4. ASSUME NEW i \in 1 .. Len(f \o b) PROVE (f \o b)[i] = <<k, 0 + i>>
  <2>1. CASE i <= Len(f)
    <3>1. i \in 1 .. Len(f)
      BY <1>2, <2>1
    <3> QED BY <1>2, <1>3, <3>1 DEF PartOf
  <2>2. CASE ~(i <= Len(f))
    <3> DEFINE j == i - Len(f)
    <3>1. j \in 1 .. Len(b) /\ Len(f) + j = i
      BY <1>2, <1>3, <2>2
    <3> HIDE DEF j
    <3>2. (f \o b)[Len(f) + j] = <<k, Len(f) + j>>
      BY <1>2, <1>3, <3>1 DEF PartOf
    <3> QED BY <3>1, <3>2
  <2> QED BY <2>1, <2>2
<1> QED BY <1>3, <1>4, Zenon DEF PartOf

LEMMA TakeFull ==
  ASSUME HostInv, OrderInv, NEW k \in Transfer, Full(k), NEW p \in HostPkt,
         TakesFirst(Sent', Sent, p), TakesFirst(Line', Line, p), Analize(p),
         UNCHANGED <<hosting, fpos, buf_len, rows, serverUp>>
  PROVE  Full(k)'
<1>0. /\ Reach' = Reach /\ TypeInv /\ p \in Pkt
      /\ recv \in [Transfer -> {"EMPTY", "ACTIVE", "COMPLETE", "CANCEL"}]
      /\ out \in [Transfer -> Seq(Nat \X Nat)] /\ p.bytes \in Seq(Nat \X Nat)
      /\ Reach \in Int /\ FileSize[k] \in Nat /\ p.type \in {"DATA", "COMPLETE"}
  <2>1. Reach' = Reach /\ TypeInv
    BY DEF Reach, HostInv
  <2>2. p \in Pkt /\ p.bytes \in Seq(Nat \X Nat) /\ p.type \in {"DATA", "COMPLETE"}
    BY DEF HostPkt, Pkt
  <2>3. /\ recv \in [Transfer -> {"EMPTY", "ACTIVE", "COMPLETE", "CANCEL"}]
        /\ out \in [Transfer -> Seq(Nat \X Nat)]
        /\ fpos \in Nat /\ buf_len \in Nat
    BY <2>1 DEF TypeInv
  <2>4. Reach \in Int /\ FileSize[k] \in Nat
    BY <2>3, SizesKnown DEF Reach
  <2> QED BY <2>1, <2>2, <2>3, <2>4
<1> DEFINE t == p.t_id
<1>1. CASE k # t
  <2>1. recv'[k] = recv[k] /\ out'[k] = out[k]
    BY <1>0, <1>1, AnalizeStep
  <2>2. SameFor(k, Sent', Sent) /\ SameFor(k, Line', Line)
    BY <1>1, SameForOthers
  <2> QED BY <1>0, <2>1, <2>2, FullKeeps
<1>2. CASE recv[t] # "ACTIVE" /\ k = t
  <2>1. recv' = recv /\ out' = out
    BY <1>0, <1>2, AnalizeStep
  <2> QED BY <1>2, <2>1 DEF Full
<1>3. CASE recv[t] = "ACTIVE" /\ k = t
  <2> DEFINE n == Len(out[k])
  <2>1. Sound(p) /\ From(p) = n + 1 /\ n \in Nat /\ n <= FileSize[k]
    <3>1. Sound(p) /\ From(p) = Len(out[t]) + 1
      BY <1>3, TakenIsNext
    <3>2. n \in Nat /\ n <= FileSize[k]
      BY <1>0 DEF Full
    <3> QED BY <1>3, <3>1, <3>2
  <2>2. CASE p.type = "COMPLETE"
    <3>1. recv' = [recv EXCEPT ![k] = "COMPLETE"] /\ out' = out
      BY <1>0, <1>3, <2>2, AnalizeStep
    <3>2. From(p) = FileSize[k] + 1
      BY <1>3, <2>2 DEF From
    <3>3. n = FileSize[k]
      <4> HIDE DEF n
      <4> QED BY <1>0, <2>1, <3>2
    <3>4. recv'[k] = "COMPLETE" /\ out'[k] = out[k]
      BY <1>0, <3>1
    <3> QED BY <3>3, <3>4 DEF Full
  <2>3. CASE p.type = "DATA"
    <3> DEFINE b == p.bytes
               h == Len(out'[k])
               e == End(p)
    <3>1. recv' = recv /\ out' = [out EXCEPT ![t] = @ \o b]
      BY <1>0, <1>3, <2>3, AnalizeStep
    <3>2. out'[k] = out[k] \o b /\ recv'[k] = "ACTIVE"
      BY <1>0, <1>3, <3>1
    <3>3. /\ Len(b) \in Nat \ {0} /\ e = From(p) + Len(b) /\ e <= FileSize[k] + 1
          /\ \A i \in 1 .. Len(b) : b[i] = <<k, From(p) + i - 1>>
      BY <1>3, <2>1, <2>3, SoundNumbers
    <3> HIDE DEF n, b, e
    <3>4. \A i \in 1 .. Len(b) : b[i] = <<k, n + i>>
      <4>1. \A i \in 1 .. Len(b) : From(p) + i - 1 = n + i
        BY ONLY <2>1, <3>3
      <4> QED BY <3>3, <4>1
    <3>5. h = n + Len(b) /\ \A i \in 1 .. h : out'[k][i] = <<k, i>>
      <4>1. out[k] \in Seq(Nat \X Nat) /\ b \in Seq(Nat \X Nat)
        BY <1>0 DEF b
      <4>2. \A i \in 1 .. Len(out[k]) : out[k][i] = <<k, i>>
        BY DEF Full
      <4> DEFINE f == out[k]
                 S == Nat \X Nat
      <4>3. Len(f) = n /\ f \in Seq(S) /\ b \in Seq(S)
        BY <4>1 DEF n
      <4>5. out'[k] = f \o b /\ \A i \in 1 .. Len(f) : f[i] = <<k, i>>
        BY <3>2, <4>2
      <4> HIDE DEF f, S
      <4>4. PartOf(k, f, 0) /\ PartOf(k, b, Len(f))
        <5>1. PartOf(k, f, 0)
          <6>1. Len(f) \in Nat
            BY <4>3
          <6>2. \A i \in 1 .. Len(f) : 0 + i = i
            BY <6>1
          <6> QED BY <4>5, <6>2 DEF PartOf
        <5>2. PartOf(k, b, Len(f))
          BY <3>4, <4>3, Zenon DEF PartOf
        <5> QED BY <5>1, <5>2
      <4>6. Len(f \o b) = Len(f) + Len(b) /\ PartOf(k, f \o b, 0)
        BY ONLY <4>3, <4>4, WriteNext
      <4>7. h = n + Len(b) /\ PartOf(k, out'[k], 0)
        BY <4>3, <4>5, <4>6, Zenon
      <4>8. \A i \in 1 .. h : 0 + i = i
        BY <4>3, <4>7
      <4> QED BY <4>7, <4>8 DEF PartOf
    <3> HIDE DEF h
    <3>6. h \in Nat /\ n <= h /\ e = h + 1 /\ h <= FileSize[k]
      BY ONLY <1>0, <2>1, <3>3, <3>5
    <3>7. Closed(Sent', k, h)
      <4>1. Closed(Sent, k, n)
        BY <1>3 DEF Full, n
      <4> QED BY <2>1, <3>6, <4>1, TakenClosed DEF e
    <3>8. ASSUME serverUp, k \in rows
          PROVE  Closed(Line', k, h) /\ (hosting = k => Known(Line', k, h, Reach))
      <4>1. Closed(Line, k, n) /\ (hosting = k => Known(Line, k, n, Reach))
        BY <1>3, <3>8 DEF Full, n
      <4> QED BY <1>0, <2>1, <3>6, <4>1, TakenClosed DEF e
    <3> QED BY <1>0, <3>2, <3>5, <3>6, <3>7, <3>8 DEF Full, h
  <2> QED BY <1>0, <2>2, <2>3
<1> QED BY <1>1, <1>2, <1>3

LEMMA ClientReadsExact == ASSUME HostInv, OrderInv, ExactInv, ClientReads PROVE ExactInv'
<1>1. UNCHANGED <<hosting, fpos, buf_len, rows, serverUp, missed>> /\ Reach' = Reach
  BY DEF ClientReads, fileVars, serverVars, Reach
<1> SUFFICES ASSUME ~missed, NEW k \in Transfer PROVE Full(k)'
  BY <1>1 DEF ExactInv
<1>2. Full(k)
  BY DEF ExactInv
<1>3. CASE Same(Sent', Sent) /\ Same(Line', Line) /\ UNCHANGED <<recv, out>>
  BY <1>1, <1>2, <1>3, SameForAll, FullKeeps
<1>4. ASSUME NEW p \in Pkt \ HostPkt, Same(Sent', Sent), Same(Line', Line), Analize(p)
      PROVE  Full(k)'
  <2> DEFINE t == p.t_id
  <2>1. p \in Pkt /\ p.type \in {"CANCEL", "OK"} /\ TypeInv
        /\ recv \in [Transfer -> {"EMPTY", "ACTIVE", "COMPLETE", "CANCEL"}]
    BY <1>4 DEF HostPkt, HostInv, TypeInv, Pkt, Types
  <2>2. /\ out' = out
        /\ \/ recv' = recv
           \/ recv' = [recv EXCEPT ![t] = "CANCEL"]
    BY <1>4, <2>1, AnalizeStep
  <2>3. out'[k] = out[k] /\ (recv'[k] = recv[k] \/ recv'[k] = "CANCEL")
    BY <2>1, <2>2
  <2> QED BY <1>1, <1>2, <1>4, <2>3, SameForAll, FullKeeps, FullCancelled
<1>5. ASSUME NEW p \in HostPkt, TakesFirst(Sent', Sent, p), TakesFirst(Line', Line, p), Analize(p)
      PROVE  Full(k)'
  BY <1>1, <1>2, <1>5, TakeFull
<1> QED BY <1>3, <1>4, <1>5, ClientReadsLine

LEMMA ExactStep == HostInv /\ OrderInv /\ ExactInv /\ [Next]_vars => ExactInv'
<1> SUFFICES ASSUME HostInv, OrderInv, ExactInv, [Next]_vars PROVE ExactInv'
  OBVIOUS
<1>1. CASE Agree
  BY <1>1, AgreeExact
<1>2. CASE HostLoop
  BY <1>2, SendDataExact, SendEndExact, TurnExact DEF HostLoop
<1>3. CASE ServerReads
  BY <1>3, ServerReadsExact
<1>4. CASE ServerWrites \/ ServerNotice \/ Reconnect \/ UNCHANGED vars
  BY <1>4, TurnExact
<1>5. CASE ClientReads
  BY <1>5, ClientReadsExact
<1> QED BY <1>1, <1>2, <1>3, <1>4, <1>5 DEF Next

\* recv_complete closes the file only when it has all the bytes that the host
\* read, from the first to the last, for every size of the buffers and every
\* way SSL_read cuts the stream; unless the network thread missed a packet.
THEOREM FileArrives == Spec => []FileExact
<1>1. HostInv /\ ExactInv => FileExact
  <2> SUFFICES ASSUME HostInv, ExactInv, NEW k \in Transfer, ~missed, recv[k] = "COMPLETE"
               PROVE  out[k] = File(k)
    BY DEF FileExact
  <2>1. Len(out[k]) = FileSize[k] /\ \A i \in 1 .. Len(out[k]) : out[k][i] = <<k, i>>
    BY DEF ExactInv, Full
  <2>2. out[k] \in Seq(Nat \X Nat)
    BY DEF HostInv, TypeInv
  <2>3. DOMAIN out[k] = 1 .. FileSize[k] /\ out[k] = [i \in DOMAIN out[k] |-> out[k][i]]
    BY <2>1, <2>2
  <2> QED BY <2>1, <2>3 DEF File
<1>2. Init => OrderInv /\ ExactInv
  BY OrderInit, ExactInit
<1>3. HostInv /\ OrderInv /\ ExactInv /\ [Next]_vars => OrderInv' /\ ExactInv'
  BY OrderStep, ExactStep
<1> QED BY <1>1, <1>2, <1>3, HostInvAlways, PTL DEF Spec
=============================================================================
